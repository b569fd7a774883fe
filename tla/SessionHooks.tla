---------------------------- MODULE SessionHooks ----------------------------
(***************************************************************************)
(* The Claude Code hooks (ingestion/claude_code/hooks).  Claude Code runs  *)
(* each as a subprocess, in the course of a session, and waits for it: it  *)
(* decodes what stdin holds, takes the services of the module's            *)
(* services_loader, injects memory (SessionStart, UserPromptSubmit) or     *)
(* flushes the session (Stop, PreCompact), and swallows every error.  A    *)
(* module variable belongs to one process: the loader that the ingest      *)
(* process installs is its own.                                            *)
(*                                                                         *)
(* Simplifications.                                                        *)
(*  - A transcript is the number of its lines, and so is what has been     *)
(*    ingested of it: chunks and their order are the matter of             *)
(*    IngestPipeline.                                                      *)
(*  - The index is empty or not (ContextSearch has what it holds).         *)
(***************************************************************************)
EXTENDS Naturals

CONSTANTS
    Session,
    MaxLines,       \* bound: lines of a transcript
    MaxHooks,       \* bound: hooks of a session
    MaxErrors       \* bound: failing calls and ingest processes that stop

VARIABLES
    lines,      \* [session -> lines of its transcript]
    ingested,   \* [session -> how many of them have been ingested]
    ingest,     \* the ingest process is up
    loader,     \* [process -> its services_loader is installed]
    hook,       \* [session -> its hook: pc, event, payload, services, text]
    hooks,      \* [session -> hooks it has run]
    context,    \* [session -> it was given an injection]
    served,     \* [session -> lines on file when a hook began that flushed them]
    errors

hooksVars == <<lines, ingested, ingest, loader, hook, hooks, context, served, errors>>

Process == {"ingest"} \cup Session
Injecting == {"SessionStart", "UserPromptSubmit"}
Flushing == {"Stop", "PreCompact"}

\* What can be read from stdin: an empty or invalid stream is an empty payload.
Payloads == [id : BOOLEAN, transcript : BOOLEAN]

\* session_and_project: without an id, the transcript names the session.
Resolved(payload) == payload.id \/ payload.transcript

\* flush_session does nothing without a path to read.
Flushable(payload) == Resolved(payload) /\ payload.transcript

\* `upto` is what was on file when the hook began, `beside` that the ingest process has
\* been up since.
NoHook == [pc |-> "none", event |-> "Stop", payload |-> [id |-> FALSE, transcript |-> FALSE],
           services |-> FALSE, text |-> FALSE, upto |-> 0, beside |-> FALSE]
Fails == errors < MaxErrors /\ errors' = errors + 1

(***************************************************************************)
(* Sessions and the ingest process                                         *)
(***************************************************************************)
\* A session goes on while no hook of it runs.
Speak(s) ==
    /\ hook[s].pc = "none" /\ lines[s] < MaxLines
    /\ lines' = [lines EXCEPT ![s] = @ + 1]
    /\ UNCHANGED <<ingested, ingest, loader, hook, hooks, context, served, errors>>

\* _run_ingest
StartIngest ==
    /\ ~ingest /\ ingest' = TRUE /\ loader' = [loader EXCEPT !["ingest"] = TRUE]
    /\ UNCHANGED <<lines, ingested, hook, hooks, context, served, errors>>

StopIngest ==
    /\ ingest /\ Fails /\ ingest' = FALSE /\ loader' = [loader EXCEPT !["ingest"] = FALSE]
    /\ hook' = [s \in Session |-> [hook[s] EXCEPT !.beside = FALSE]]
    /\ UNCHANGED <<lines, ingested, hooks, context, served>>

\* The watcher, in its own time.
Watch(s) ==
    /\ ingest /\ ingested' = [ingested EXCEPT ![s] = lines[s]]
    /\ UNCHANGED <<lines, ingest, loader, hook, hooks, context, served, errors>>

(***************************************************************************)
(* A hook                                                                  *)
(***************************************************************************)
\* The subprocess imports the module anew.
Spawn(s) ==
    /\ hook[s].pc = "none" /\ hooks[s] < MaxHooks
    /\ \E event \in Injecting \cup Flushing, payload \in Payloads :
         hook' = [hook EXCEPT ![s] = [NoHook EXCEPT !.pc = "load", !.event = event,
                                          !.payload = payload, !.upto = lines[s],
                                          !.beside = ingest]]
    /\ hooks' = [hooks EXCEPT ![s] = @ + 1] /\ loader' = [loader EXCEPT ![s] = FALSE]
    /\ UNCHANGED <<lines, ingested, ingest, context, served, errors>>

\* load_services: without a loader, an empty bundle.
LoadServices(s) ==
    /\ hook[s].pc = "load"
    /\ hook' = [hook EXCEPT ![s].pc = "run", ![s].services = loader[s]]
    /\ UNCHANGED <<lines, ingested, ingest, loader, hooks, context, served, errors>>

\* Whether there is an injection: the index for the context of the payload may have
\* nothing to say, and without a retriever there is none.
Rendered(services) == {text \in BOOLEAN : text => services}

\* run of an injecting hook
Inject(s) ==
    /\ hook[s].pc = "run" /\ hook[s].event \in Injecting
    /\ \E text \in Rendered(hook[s].services) :
         hook' = [hook EXCEPT ![s].pc = "emit", ![s].text = text]
    /\ UNCHANGED <<lines, ingested, ingest, loader, hooks, context, served, errors>>

\* run of a flushing hook, with flush_session.
Flush(s) ==
    /\ hook[s].pc = "run" /\ hook[s].event \in Flushing
    /\ LET named == Flushable(hook[s].payload)
       IN  /\ ingested' = IF hook[s].services /\ named
                          THEN [ingested EXCEPT ![s] = lines[s]] ELSE ingested
           /\ served' = IF hook[s].beside /\ named
                        THEN [served EXCEPT ![s] = hook[s].upto] ELSE served
    /\ hook' = [hook EXCEPT ![s].pc = "emit"]
    /\ UNCHANGED <<lines, ingest, loader, hooks, context, errors>>

\* main swallows what run raises; only a wired hook has anything that can.
RunFails(s) ==
    /\ hook[s].pc = "run" /\ hook[s].services /\ Fails
    /\ hook' = [hook EXCEPT ![s].pc = "emit"]
    /\ UNCHANGED <<lines, ingested, ingest, loader, hooks, context, served>>

\* emit_additional_context: an empty text writes nothing; then the process ends.
Emit(s) ==
    /\ hook[s].pc = "emit" /\ hook' = [hook EXCEPT ![s] = NoHook]
    /\ context' = [context EXCEPT ![s] = @ \/ hook[s].text]
    /\ UNCHANGED <<lines, ingested, ingest, loader, hooks, served, errors>>

(***************************************************************************)
(* The specification                                                       *)
(***************************************************************************)
HooksInit ==
    /\ lines = [s \in Session |-> 0] /\ ingested = [s \in Session |-> 0]
    /\ ingest = FALSE /\ loader = [p \in Process |-> FALSE]
    /\ hook = [s \in Session |-> NoHook] /\ hooks = [s \in Session |-> 0]
    /\ context = [s \in Session |-> FALSE] /\ served = [s \in Session |-> 0] /\ errors = 0

HookStep(s) == LoadServices(s) \/ Inject(s) \/ Flush(s) \/ RunFails(s) \/ Emit(s)

HooksNext ==
    \/ StartIngest \/ StopIngest
    \/ \E s \in Session : Speak(s) \/ Watch(s) \/ Spawn(s) \/ HookStep(s)

HooksSpec == HooksInit /\ [][HooksNext]_hooksVars

(***************************************************************************)
(* Properties                                                              *)
(***************************************************************************)
\* Once a Stop or PreCompact hook has run beside the ingest process, without an error and
\* with a payload that names the transcript, what was on file when it began has been
\* ingested: the hook "flushes the current session's accumulated chunk to the ingestion
\* service so end-of-session memory is captured even if the watcher lagged" (stop.py).
FlushedAtStop == \A s \in Session : ingested[s] >= served[s]

=============================================================================
