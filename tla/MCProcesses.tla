---------------------------- MODULE MCProcesses ----------------------------
(***************************************************************************)
(* The two ways the program runs, in one run: the all-in-one process with  *)
(* its components, and the re-extraction command beside an ingest.  They   *)
(* share no state but the store, which the process only connects to, so    *)
(* one of the two moves in a behaviour and the other keeps its initial     *)
(* state.                                                                  *)
(***************************************************************************)
EXTENDS MCRawTier, MCOrchestrator

VARIABLE part
partsVars == <<part, rawVars, processVars>>

PartsInit ==
    /\ part \in {"raw", "process"}
    /\ RawInit /\ ProcessInit
    /\ part = "raw" => settings = Choice({}, TRUE)

PartsNext ==
    /\ UNCHANGED part
    /\ \/ part = "raw" /\ RawNext /\ UNCHANGED processVars
       \/ part = "process" /\ ProcessNext /\ UNCHANGED rawVars
PartsSpec == PartsInit /\ [][PartsNext]_partsVars

\* Orchestrator!ProcessFairness for the behaviours in which the process moves.
PartsFairness ==
    LET Process(A) == part = "process" /\ Running /\ A /\ UNCHANGED <<part, rawVars>>
    IN  /\ WF_partsVars(Process(Coordinate)) /\ WF_partsVars(Process(Flushed))
        /\ \A c \in Component : WF_partsVars(Process(ComponentStep(c)))
FairPartsSpec == PartsSpec /\ PartsFairness

=============================================================================
