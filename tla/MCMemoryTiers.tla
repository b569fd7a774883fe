--------------------------- MODULE MCMemoryTiers ---------------------------
(***************************************************************************)
(* Values for model-checking MemoryTiers: a project's memory, and a nearer *)
(* one of a sub-scope, which the project's own queries must not see and    *)
(* which the sub-scope's queries see next to the project's.                *)
(***************************************************************************)
EXTENDS MemoryTiers

MCHome == [i \in Memory |-> IF i = "mine" THEN <<"p">> ELSE <<"p", "sub">>]
MCNear == [i \in Memory |-> IF i = "mine" THEN 2 ELSE 1]
MCAsked == {<<"p">>, <<"p", "sub">>}

=============================================================================
