------------------------------ MODULE MCRawTier ------------------------------
(***************************************************************************)
(* Values for model-checking RawTier: one preference, its paraphrase and   *)
(* its reversal; an extraction returns none, one or two of them.           *)
(***************************************************************************)
EXTENDS RawTier

MCContent == {"a", "a2", "b"}
MCEquivalent == {<<c, c>> : c \in MCContent} \cup {<<"a", "a2">>, <<"a2", "a">>}
MCFolded == [c \in MCContent |-> c]
MCReverses == {"a", "a2"} \X {"b"} \cup {"b"} \X {"a", "a2"}

Say(c) == [content |-> c, scope |-> "global", entities |-> {"rust"},
           category |-> "preference", confidence |-> 1]

MCExtracted == {Say(c) : c \in MCContent}
\* One belief only, which nothing reverses.
MCOneBelief == {<<>>, <<Say("a")>>}

MCAnswers == {<<>>, <<Say("a")>>, <<Say("a2"), Say("b")>>}

=============================================================================
