------------------------- MODULE MaintenanceSchedule -------------------------
(***************************************************************************)
(* Who runs the maintenance jobs and when: the cron scheduler of the       *)
(* daemon (maintenance/runner.py), the mnemozine-maintenance commands, and *)
(* the operator's requests (web/routes/mutations.py).  They are processes  *)
(* of their own over one store, and nothing keeps them apart.  A pass runs *)
(* the default jobs in an order in which none makes work for an earlier    *)
(* one, and a job that fails does not take the rest of the pass with it.   *)
(*                                                                         *)
(* Simplifications.                                                        *)
(*  - What the jobs do is the matter of their own modules: here work for a *)
(*    job comes up, is seen by a run that lists it, and is met when that   *)
(*    run completes.  A job that fails may have done part of it, which the *)
(*    next run lists again (every job is idempotent).                      *)
(*  - At most one command and one request of the operator run at a time.   *)
(*  - A tick of the cron trigger that comes while a pass is running is     *)
(*    dropped (max_instances, coalesce) and changes nothing.               *)
(***************************************************************************)
EXTENDS Naturals, Sequences

CONSTANTS
    Brought,        \* the jobs that ingestion makes work for
    Alone,          \* jobs that commands and requests are made for
    MaxWork,        \* bound: times that work comes up for one of them
    MaxMishaps      \* bound: jobs that fail and daemons that stop

ASSUME ScheduleAssumption == Brought \cup Alone \subseteq STRING /\ {MaxWork, MaxMishaps} \subseteq Nat

VARIABLES
    brought,    \* [job -> times that work for it came up]
    met,        \* [job -> how many of them have been met]
    runs,       \* per actor: [pc, plan, preview, at, upto, reports, quiet]
    daemon,     \* the scheduler is up
    links,      \* the actors that hold a connection of their own
    mishaps

scheduleVars == <<brought, met, runs, daemon, links, mishaps>>

\* Mutant of DefaultJobs: co-mentions are counted before the mentions are there.
EagerJobs == <<"consolidation", "entity_resolution", "co_mention", "mentions", "relation_norm",
               "entity_dedup", "category_merge", "decay", "audit">>

\* build_default_jobs
DefaultJobs == <<"consolidation", "entity_resolution", "mentions", "co_mention", "relation_norm",
                 "entity_dedup", "category_merge", "decay", "audit">>

\* The jobs a command runs alone: those it can also preview, over the graph and over the
\* memories; those it cannot; and the two that rebuild from what is stored.
GraphPreviews == {"category_merge", "mentions", "co_mention", "relation_norm"}
MemoryPreviews == {"provenance_rescope", "memory_dedup"}
Unpreviewed == {"entity_dedup", "reclassify"}
Rebuilding == {"migrate_index", "re_extract"}
Subcommands == GraphPreviews \cup MemoryPreviews \cup Unpreviewed \cup Rebuilding
\* What the console offers; the last opens a container of its own.
Offered == {"consolidation", "entity_resolution", "decay", "audit", "migrate_index"}

Defaults == {DefaultJobs[k] : k \in DOMAIN DefaultJobs}
Jobs == Defaults \cup Subcommands \cup Offered
Actors == {"cron", "command", "console"}

\* A theme is a memory with mentions still to persist; merged entities are mentioned
\* together by more memories; mentions are what co-mentions are counted from; and what
\* is extracted again may be consolidated again.
MakesWorkFor(j) ==
    CASE j = "consolidation" -> {"mentions"} [] j = "entity_resolution" -> {"co_mention"}
      [] j = "mentions" -> {"co_mention"} [] j = "re_extract" -> {"consolidation"} [] OTHER -> {}

Idle == [pc |-> "idle", plan |-> <<>>, preview |-> FALSE, at |-> 1, upto |-> 0,
         reports |-> <<>>, quiet |-> FALSE]
Busy(a) == runs[a].pc \in {"next", "working"}
Job(a) == runs[a].plan[runs[a].at]
IsPass(a) == runs[a].plan = DefaultJobs

(***************************************************************************)
(* Work comes up                                                           *)
(***************************************************************************)
Disturbed(rs) == [a \in Actors |-> [rs[a] EXCEPT !.quiet = FALSE]]

BringWork(j) ==
    /\ brought[j] < MaxWork /\ brought' = [brought EXCEPT ![j] = @ + 1]
    /\ runs' = Disturbed(runs)
    /\ UNCHANGED <<met, daemon, links, mishaps>>

(***************************************************************************)
(* Starting a run                                                          *)
(***************************************************************************)
Begins(a, plan, preview) ==
    /\ ~Busy(a)
    /\ runs' = [Disturbed(runs) EXCEPT
                  ![a] = [Idle EXCEPT !.pc = "next", !.plan = plan, !.preview = preview,
                                      !.quiet = \A b \in Actors : ~Busy(b)]]
    /\ UNCHANGED <<brought, met, daemon, mishaps>>

\* Mutant of Tick: a pass that is over keeps the only instance.
TickOnce == daemon /\ runs["cron"].pc = "idle" /\ Begins("cron", DefaultJobs, FALSE) /\ UNCHANGED links

\* The cron trigger fires; the daemon has had its connection since it started.
Tick == daemon /\ Begins("cron", DefaultJobs, FALSE) /\ UNCHANGED links

\* Each command is a process with a container, and so a connection, of its own.
Command(plan, preview) == Begins("command", plan, preview) /\ links' = links \cup {"command"}
RunCommand == Command(DefaultJobs, FALSE)
JobCommand ==
    \/ \E j \in Alone \cap Subcommands : Command(<<j>>, FALSE)
    \/ \E j \in Alone \cap (GraphPreviews \cup MemoryPreviews) : Command(<<j>>, TRUE)

\* _run_single_job
Trigger(j) ==
    /\ Begins("console", <<j>>, FALSE)
    /\ links' = IF j = "migrate_index" THEN links \cup {"console"} ELSE links

(***************************************************************************)
(* Running the jobs                                                        *)
(***************************************************************************)
ListWork(a) ==
    /\ runs[a].pc = "next" /\ runs[a].at <= Len(runs[a].plan)
    /\ runs' = [runs EXCEPT ![a].pc = "working", ![a].upto = brought[Job(a)]]
    /\ UNCHANGED <<brought, met, daemon, links, mishaps>>

Reported(a, what) ==
    [runs EXCEPT ![a].pc = "next", ![a].at = @ + 1, ![a].reports = Append(@, <<Job(a), what>>)]

\* A preview writes nothing.
Complete(a) ==
    LET news == ~runs[a].preview /\ runs[a].upto > met[Job(a)]
    IN  /\ runs[a].pc = "working" /\ runs' = Reported(a, "done")
        /\ met' = IF news THEN [met EXCEPT ![Job(a)] = runs[a].upto] ELSE met
        /\ brought' = [k \in Jobs |-> IF news /\ k \in MakesWorkFor(Job(a)) THEN brought[k] + 1
                                      ELSE brought[k]]
        /\ UNCHANGED <<daemon, links, mishaps>>

Mishap == mishaps < MaxMishaps /\ mishaps' = mishaps + 1

\* run_once: a failing job becomes an error report, and the pass goes on.
FailInPass(a) ==
    /\ runs[a].pc = "working" /\ IsPass(a) /\ Mishap
    /\ runs' = [Reported(a, "error") EXCEPT ![a].quiet = FALSE]
    /\ UNCHANGED <<brought, met, daemon, links>>

\* Run by itself, it fails the command or the request; its container is closed all the
\* same (finally).
FailAlone(a) ==
    /\ runs[a].pc = "working" /\ ~IsPass(a) /\ Mishap
    /\ runs' = [runs EXCEPT ![a] = Idle] /\ links' = links \ {a}
    /\ UNCHANGED <<brought, met, daemon>>

\* The reports are printed or returned, and what was opened is closed; the daemon keeps
\* its connection.
EndRun(a) ==
    /\ runs[a].pc = "next" /\ runs[a].at > Len(runs[a].plan)
    /\ runs' = [runs EXCEPT ![a] = IF IsPass(a) THEN [runs[a] EXCEPT !.pc = "over"] ELSE Idle]
    /\ links' = IF a = "cron" THEN links ELSE links \ {a}
    /\ UNCHANGED <<brought, met, daemon, mishaps>>

(***************************************************************************)
(* The daemon                                                              *)
(***************************************************************************)
\* serve_forever ends: scheduler.shutdown(wait=False) cancels the pass in progress, and
\* the container is closed.
StopDaemon ==
    /\ daemon /\ Mishap /\ daemon' = FALSE
    /\ runs' = [runs EXCEPT !["cron"] = Idle] /\ links' = links \ {"cron"}
    /\ UNCHANGED <<brought, met>>

\* restart: unless-stopped
StartDaemon ==
    /\ ~daemon /\ daemon' = TRUE /\ links' = links \cup {"cron"}
    /\ UNCHANGED <<brought, met, runs, mishaps>>

(***************************************************************************)
(* The specification                                                       *)
(***************************************************************************)
ScheduleInit ==
    /\ brought = [j \in Jobs |-> 0] /\ met = [j \in Jobs |-> 0]
    /\ runs = [a \in Actors |-> Idle]
    /\ daemon = FALSE /\ links = {} /\ mishaps = 0

JobStep(a) == ListWork(a) \/ Complete(a) \/ FailInPass(a) \/ FailAlone(a) \/ EndRun(a)

ScheduleNext ==
    \/ Tick \/ RunCommand \/ JobCommand \/ StopDaemon \/ StartDaemon
    \/ \E j \in Brought : BringWork(j)
    \/ \E j \in Alone \cap Offered : Trigger(j)
    \/ \E a \in Actors : JobStep(a)

\* The trigger goes on firing, the jobs of a pass return, and a daemon that stopped is
\* started again; no command and no request is ever due.
CronStep == Tick \/ StartDaemon \/ ListWork("cron") \/ Complete("cron") \/ EndRun("cron")
ScheduleFairness == WF_scheduleVars(CronStep)

ScheduleSpec == ScheduleInit /\ [][ScheduleNext]_scheduleVars /\ ScheduleFairness

(***************************************************************************)
(* Properties                                                              *)
(***************************************************************************)
\* A pass that has ended reported each default job once and in order, whatever failed
\* ("does not abort the rest of the pass"), and one that nothing failed in and nothing
\* came between has left no default job with work; whoever is done holds no connection.
PassesAreWhole ==
    /\ \A a \in Actors : runs[a].pc = "over" /\ IsPass(a) =>
         /\ [k \in DOMAIN runs[a].reports |-> runs[a].reports[k][1]] = DefaultJobs
         /\ runs[a].quiet => \A j \in Defaults : met[j] = brought[j]
    /\ \A a \in Actors \ {"cron"} : a \in links => Busy(a)

\* However passes fail, are cut short by restarts or overlap with commands and requests,
\* what ingestion brought is eventually all met.
WorkGetsDone == <>[](\A j \in Brought \cup {"mentions", "co_mention"} : met[j] = brought[j])

=============================================================================
