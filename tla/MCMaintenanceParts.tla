------------------------ MODULE MCMaintenanceParts ------------------------
(***************************************************************************)
(* The jobs that write memories, and the jobs and corrections that write   *)
(* their tags, in one run.  The former neither read nor write what the     *)
(* latter do, other than closing windows, which each module has as an      *)
(* action of its own, so one of the two parts moves in a behaviour and the *)
(* other keeps its initial state.                                          *)
(***************************************************************************)
EXTENDS MCStoreMaintenance, MCRelabelling

VARIABLE part
partsVars == <<part, vars, tagVars>>

PartsInit == part \in {"memories", "tags"} /\ MaintenanceInit /\ RelabelInit
PartsNext ==
    /\ UNCHANGED part
    /\ \/ part = "memories" /\ MaintenanceNext /\ UNCHANGED tagVars
       \/ part = "tags" /\ RelabelNext /\ UNCHANGED vars
PartsSpec == PartsInit /\ [][PartsNext]_partsVars

=============================================================================
