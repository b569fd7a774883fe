---------------------------- MODULE Orchestrator ----------------------------
(***************************************************************************)
(* The all-in-one process (mnemozine/app.py): the startup check, the       *)
(* enabled components as tasks of one event loop, the console's requests,  *)
(* and the shutdown that follows a signal or the end of any component.     *)
(* All of them reach the store through Container.build_storage, which      *)
(* tests its memo, awaits the connection, and only then fills the memo.    *)
(*                                                                         *)
(* Simplifications.                                                        *)
(*  - A link is a FalkorDB connection with its backend: connections[n] is the    *)
(*    state of the n-th that was opened.                                   *)
(*  - What a component does while it serves is the matter of the other     *)
(*    modules; here it serves, crashes, or (ingest) runs out of sources.   *)
(*  - Cancelling the awaited server task cancels the server itself, so the *)
(*    handlers of requests in progress are neither awaited nor cancelled   *)
(*    before the process ends.                                             *)
(***************************************************************************)
EXTENDS Naturals, Sequences

CONSTANTS
    Settings,       \* the configurations the process is started with
    Request,        \* requests to the console
    MaxFaults,      \* bound: connections that fail and components that crash
    NoLink          \* no link

Component == {"web", "mcp", "ingest", "maintenance"}
Configuration == [web : BOOLEAN, mcp : BOOLEAN, ingest : BOOLEAN, maintenance : BOOLEAN,
                  check : BOOLEAN]

ASSUME OrchestratorAssumption ==
    /\ Settings \subseteq Configuration /\ MaxFaults \in Nat /\ NoLink \notin Nat
    /\ Request \cap (Component \cup {"main"}) = {}

VARIABLES
    settings,    \* settings.run, and check: settings.migrate asks for the startup check
    actor,       \* main, the components and the requests: [pc, link]
    memo,        \* Container._storage
    connections, \* every connection opened so far
    stop,        \* a signal has come
    warm,        \* history: the startup check left a connected store behind
    faults

processVars == <<settings, actor, memo, connections, stop, warm, faults>>

Actor == {"main"} \cup Component \cup Request

\* _select_components: the console carries the MCP server when both are on.
Selected == {c \in Component : settings[c]} \ (IF settings.web THEN {"mcp"} ELSE {})

At(a, pc) == actor[a].pc = pc
Over(a) == actor[a].pc \in {"ended", "crashed"}
Goto(a, pc) == actor' = [actor EXCEPT ![a].pc = pc]
Fails == faults < MaxFaults /\ faults' = faults + 1

(***************************************************************************)
(* Container.build_storage                                                 *)
(***************************************************************************)
\* The memo is there, and the caller goes on; or the caller opens a connection.
BuildStorage(a, onward) ==
    /\ IF memo # NoLink
       THEN /\ actor' = [actor EXCEPT ![a] = [pc |-> onward, link |-> memo]]
            /\ UNCHANGED connections
       ELSE /\ connections' = Append(connections, "opening")
            /\ actor' = [actor EXCEPT ![a] = [pc |-> "opening", link |-> Len(connections) + 1]]
    /\ UNCHANGED <<settings, memo, stop, warm, faults>>

\* The connection is there: it becomes the memo, whatever the memo is by now.
Opened(a, onward) ==
    /\ At(a, "opening")
    /\ connections' = [connections EXCEPT ![actor[a].link] = "open"]
    /\ memo' = actor[a].link
    /\ Goto(a, onward)
    /\ UNCHANGED <<settings, stop, warm, faults>>

OpeningFails(a, onward) ==
    /\ At(a, "opening") /\ Fails
    /\ connections' = [connections EXCEPT ![actor[a].link] = "broken"]
    /\ Goto(a, onward)
    /\ UNCHANGED <<settings, memo, stop, warm>>

(***************************************************************************)
(* _run_all                                                                *)
(***************************************************************************)
Select ==
    /\ At("main", "select")
    /\ Goto("main", IF Selected = {} THEN "ended" ELSE IF settings.check THEN "check" ELSE "launch")
    /\ UNCHANGED <<settings, memo, connections, stop, warm, faults>>

\* _apply_startup_migrations: whatever fails in it is logged and dropped.
Check == At("main", "check") /\ BuildStorage("main", "launch")
CheckOpened == Opened("main", "launch") \/ OpeningFails("main", "launch")

Launch ==
    /\ At("main", "launch")
    /\ actor' = [a \in Actor |-> IF a = "main" THEN [actor[a] EXCEPT !.pc = "waiting"]
                                 ELSE IF a \in Selected THEN [actor[a] EXCEPT !.pc = "start"]
                                 ELSE actor[a]]
    /\ warm' = (memo # NoLink)
    /\ UNCHANGED <<settings, memo, connections, stop, faults>>

\* SIGINT or SIGTERM, once their handlers are installed.
Signal ==
    /\ At("main", "waiting") /\ ~stop /\ stop' = TRUE
    /\ UNCHANGED <<settings, actor, memo, connections, warm, faults>>

\* FIRST_COMPLETED: every task that is not done is cancelled.
StopAll ==
    /\ At("main", "waiting")
    /\ stop \/ \E c \in Selected : Over(c)
    /\ Goto("main", "stopping")
    /\ UNCHANGED <<settings, memo, connections, stop, warm, faults>>

\* Mutant of Gathered: the tasks are cancelled and not awaited.
Cancelled == At("main", "stopping")

Gathered == At("main", "stopping") /\ \A c \in Selected : Over(c)

\* container.close() closes the memo.
CloseContainer ==
    /\ Gathered
    /\ connections' = IF memo = NoLink THEN connections
                      ELSE [connections EXCEPT ![memo] = "closed"]
    /\ memo' = NoLink /\ Goto("main", "ended")
    /\ UNCHANGED <<settings, stop, warm, faults>>

(***************************************************************************)
(* Components                                                              *)
(***************************************************************************)
\* The console alone opens nothing until a request needs it.
Start(c) ==
    /\ At(c, "start")
    /\ IF c = "web" /\ ~settings.mcp
       THEN Goto(c, "serving") /\ UNCHANGED <<settings, memo, connections, stop, warm, faults>>
       ELSE BuildStorage(c, "serving")

ConnectComponent(c) == Opened(c, "serving") \/ OpeningFails(c, "crashed")

CrashComponent(c) ==
    /\ actor[c].pc \in {"serving", "flushing"} /\ Fails
    /\ Goto(c, "crashed")
    /\ UNCHANGED <<settings, memo, connections, stop, warm>>

\* Mutant of IngestRunsDry: the component returns with its loop.
IngestReturns ==
    /\ At("ingest", "serving") /\ Goto("ingest", "ended")
    /\ UNCHANGED <<settings, memo, connections, stop, warm, faults>>

\* No source is enabled, or every producer has ended: the component parks.
IngestRunsDry ==
    /\ At("ingest", "serving") /\ Goto("ingest", "parked")
    /\ UNCHANGED <<settings, memo, connections, stop, warm, faults>>

\* Mutant of Cancel: a parked ingest component swallows its cancellation.
CancelServing(c) ==
    /\ At("main", "stopping") /\ actor[c].pc \in {"start", "opening", "serving"}
    /\ Goto(c, IF c = "ingest" /\ At(c, "serving") THEN "flushing" ELSE "ended")
    /\ connections' = IF At(c, "opening") THEN [connections EXCEPT ![actor[c].link] = "broken"]
                      ELSE connections
    /\ UNCHANGED <<settings, memo, stop, warm, faults>>

\* CancelledError reaches c, which gives up a connection it is opening; an ingest
\* loop that runs flushes first.
Cancel(c) ==
    /\ At("main", "stopping") /\ ~Over(c) /\ actor[c].pc \notin {"off", "flushing"}
    /\ Goto(c, IF c = "ingest" /\ At(c, "serving") THEN "flushing" ELSE "ended")
    /\ connections' = IF At(c, "opening") THEN [connections EXCEPT ![actor[c].link] = "broken"]
                      ELSE connections
    /\ UNCHANGED <<settings, memo, stop, warm, faults>>

Flushed ==
    /\ At("ingest", "flushing") /\ Goto("ingest", "ended")
    /\ UNCHANGED <<settings, memo, connections, stop, warm, faults>>

(***************************************************************************)
(* Requests                                                                *)
(***************************************************************************)
Arrive(r) ==
    /\ At(r, "off") /\ At("web", "serving") /\ Goto(r, "start")
    /\ UNCHANGED <<settings, memo, connections, stop, warm, faults>>

\* get_storage, also after the server has gone.
Resolve(r) == At(r, "start") /\ BuildStorage(r, "serving")

ResolveOpened(r) == Opened(r, "serving") \/ OpeningFails(r, "ended")

Respond(r) ==
    /\ At(r, "serving") /\ Goto(r, "ended")
    /\ UNCHANGED <<settings, memo, connections, stop, warm, faults>>

(***************************************************************************)
(* The specification                                                       *)
(***************************************************************************)
ProcessInit ==
    /\ settings \in Settings
    /\ actor = [a \in Actor |-> [pc |-> IF a = "main" THEN "select" ELSE "off", link |-> NoLink]]
    /\ memo = NoLink /\ connections = <<>>
    /\ stop = FALSE /\ warm = FALSE /\ faults = 0

Coordinate == Select \/ Check \/ CheckOpened \/ Launch \/ StopAll \/ CloseContainer
ComponentStep(c) == Start(c) \/ ConnectComponent(c) \/ Cancel(c)
RequestStep(r) == Resolve(r) \/ ResolveOpened(r) \/ Respond(r)
Running == ~At("main", "ended")

ProcessNext ==
    /\ Running
    /\ \/ Coordinate \/ Signal
       \/ \E c \in Component : ComponentStep(c) \/ CrashComponent(c)
       \/ IngestRunsDry \/ Flushed
       \/ \E r \in Request : Arrive(r) \/ RequestStep(r)

\* The event loop runs every task that can run, and connections, flushes and the
\* answers of the store come to an end.
ProcessFairness ==
    /\ WF_processVars(Running /\ Coordinate) /\ WF_processVars(Running /\ Flushed)
    /\ \A c \in Component : WF_processVars(Running /\ ComponentStep(c))

ProcessSpec == ProcessInit /\ [][ProcessNext]_processVars /\ ProcessFairness

(***************************************************************************)
(* Properties                                                              *)
(***************************************************************************)
Uses(c) == actor[c].link # NoLink /\ actor[c].pc \in {"serving", "parked", "flushing"}

\* Container: "a process shares one of each component (one storage connection,
\* one LLM/embedding client)", and _run_all: "container.close() releases the shared
\* storage connection".  After a startup check that reached the store, every
\* component works on that one open connection until it has ended, its final flush
\* included, and none of theirs is open at the end, however requests, failures and
\* shutdown interleave.  (Without the check, components that connect at the same
\* time do not share.)
ComponentsShareTheStore ==
    warm => \A c \in Component :
        /\ Uses(c) => actor[c].link = memo /\ connections[memo] = "open"
        /\ At("main", "ended") /\ actor[c].link # NoLink => connections[actor[c].link] # "open"

\* _ingest_component: an ingest loop that ends "keeps the rest of the all-in-one
\* serving": nothing but a signal or a crash begins the shutdown.
ServingSurvivesIngest ==
    [][ At("main", "waiting") /\ actor'["main"].pc = "stopping"
          => stop \/ \E c \in Component : At(c, "crashed") ]_processVars

\* A signal, or the crash of any component, brings the whole process down.
ShutdownCompletes ==
    (stop \/ \E c \in Component : At(c, "crashed")) ~> At("main", "ended")

=============================================================================
