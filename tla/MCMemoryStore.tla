--------------------------- MODULE MCMemoryStore ---------------------------
(***************************************************************************)
(* Values for model-checking MemoryStore.                                  *)
(*                                                                         *)
(* "A" is "a" in capitals and embeds elsewhere: the no-op branch needs     *)
(* texts that are equal when folded but not equivalent.  "a2" paraphrases  *)
(* "a".  "b" and "a" (and "a2") are preferences that reverse one another.  *)
(***************************************************************************)
EXTENDS MemoryRefinement

MCContent == {"a", "A", "a2", "b"}
MCEquivalent == {<<c, c>> : c \in MCContent} \cup {<<"a", "a2">>, <<"a2", "a">>}
MCFolded == [c \in MCContent |-> IF c = "A" THEN "a" ELSE c]
MCReverses == {"a", "a2"} \X {"b"} \cup {"b"} \X {"a", "a2"}

Say(c, scope, es, conf) ==
    [content |-> c, scope |-> scope, entities |-> es,
     category |-> "preference", confidence |-> conf]

\* Restatements at two confidences, the no-op pair, a reversal, the same words in
\* a project and on another subject, and a reversal of both subjects at once.
MCExtracted ==
    {Say("a", "global", {"rust"}, 2),
     Say("a2", "global", {"rust"}, 1),
     Say("A", "global", {"rust"}, 1),
     Say("b", "global", {"rust"}, 1),
     Say("a", "project:p", {"rust"}, 1),
     Say("a", "global", {"cli"}, 1),
     Say("b", "global", {"rust", "cli"}, 2)}

=============================================================================
