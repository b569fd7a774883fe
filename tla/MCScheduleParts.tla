-------------------------- MODULE MCScheduleParts --------------------------
(***************************************************************************)
(* Commands and schedules beside each other, in one run: overlapping runs  *)
(* of the data migrations, and the scheduled, commanded and requested runs *)
(* of the maintenance jobs.  Each has a picture of the store of its own,   *)
(* so one of the two moves in a behaviour and the other keeps its initial  *)
(* state.                                                                  *)
(***************************************************************************)
EXTENDS MCMigrations, MaintenanceSchedule

VARIABLE part
partsVars == <<part, vars, scheduleVars>>

PartsInit ==
    /\ part \in {"migrations", "schedule"} /\ Init /\ ScheduleInit
    /\ part = "schedule" =>
         stored = Memory /\ chunks = {} /\ scope = [m \in Memory |-> "project"]

PartsNext ==
    /\ UNCHANGED part
    /\ \/ part = "migrations" /\ Next /\ UNCHANGED scheduleVars
       \/ part = "schedule" /\ ScheduleNext /\ UNCHANGED vars

\* FairSpec of Migrations and ScheduleFairness of MaintenanceSchedule, each where its
\* part moves.
PartsFairness ==
    /\ \A r \in Runners :
         WF_partsVars(part = "migrations" /\ Run(r) /\ UNCHANGED <<part, scheduleVars>>)
    /\ WF_partsVars(part = "schedule" /\ CronStep /\ UNCHANGED <<part, vars>>)
FairPartsSpec == PartsInit /\ [][PartsNext]_partsVars /\ PartsFairness

\* Migrations!EventuallyCurrent, where the migrations move.
MigrationsBecomeCurrent == part = "migrations" => EventuallyCurrent

=============================================================================
