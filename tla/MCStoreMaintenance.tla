------------------------ MODULE MCStoreMaintenance ------------------------
(***************************************************************************)
(* Values for model-checking StoreMaintenance: "a2" paraphrases "a" (the   *)
(* two are equivalent), "b" and "a" reverse one another.                   *)
(***************************************************************************)
EXTENDS StoreMaintenance

MCContent == {"a", "a2", "b"}
MCEquivalent == {<<c, c>> : c \in MCContent} \cup {<<"a", "a2">>, <<"a2", "a">>}
MCFolded == [c \in MCContent |-> c]
MCReverses == {<<"a", "b">>, <<"b", "a">>}

Say(c, scope, conf) ==
    [content |-> c, scope |-> scope, entities |-> {"rust"},
     category |-> "preference", confidence |-> conf]

\* A preference and its reversal, and two project facts in the same words.
MCMixed ==
    {Say("a", "global", 1), Say("b", "global", 1),
     Say("a", "project:p", 1), Say("b", "project:p", 2)}

=============================================================================
