------------------------- MODULE MCRetrievalParts -------------------------
(***************************************************************************)
(* The two halves of retrieval in one run: the tiers that queries run      *)
(* over, and the searches that a working context starts.  A search sees of *)
(* the tiers which memories are open and hot, and that is a variable of    *)
(* its own there, so one of the two moves in a behaviour and the other     *)
(* keeps its initial state.                                                *)
(***************************************************************************)
EXTENDS MCMemoryTiers, ContextSearch

VARIABLE part
partsVars == <<part, tierVars, contextVars>>

(***************************************************************************)
(* A project p with a sub-scope and a sibling project q.  "own" and        *)
(* "deep" are facts of p and of the sub-scope, "seed" a global preference, *)
(* flagged, "other" a fact of q, nearest to the text of all.               *)
(***************************************************************************)
MCTags == [i \in Idea |-> CASE i = "own" -> {"rust"}
                            [] i = "deep" -> {"tokio"}
                            [] i = "seed" -> {"rust", "cargo"}
                            [] i = "other" -> {"rust"}]
MCPlace == [i \in Idea |-> CASE i = "own" -> <<"p">>
                             [] i = "deep" -> <<"p", "sub">>
                             [] i = "seed" -> <<>>
                             [] i = "other" -> <<"q">>]
MCLikeness == [i \in Idea |-> CASE i = "own" -> 60 [] i = "deep" -> 40
                                [] i = "seed" -> 50 [] i = "other" -> 90]

\* A context with and without entities, the same one in other words, and one that
\* works in the sub-scope.
MCContexts ==
    {[project |-> <<"p">>, scopes |-> {}, entities |-> {"rust"}, text |-> "a"],
     [project |-> <<"p">>, scopes |-> {}, entities |-> {"rust"}, text |-> "b"],
     [project |-> <<"p">>, scopes |-> {}, entities |-> {}, text |-> "a"],
     [project |-> <<"p">>, scopes |-> {<<"p", "sub">>}, entities |-> {"cargo"}, text |-> ""]}
\* The project's directory, and a worktree of it whose checkout has a remote of
\* another name.
MCWorkspaces ==
    {[path |-> <<"home", "p">>, home |-> "p", remote |-> "", manifest |-> <<"rust">>,
      words |-> <<"cargo">>, text |-> "a"],
     [path |-> <<"home", "p", ".claude/worktrees", "wt">>, home |-> "p", remote |-> "q",
      manifest |-> <<>>, words |-> <<"cargo", "tokio">>, text |-> "a"]}
MCTokens == [line \in {"summary", "hint", "snippet", "recall"} |->
               CASE line = "summary" -> 2 [] line = "hint" -> 3
                 [] line = "snippet" -> 4 [] line = "recall" -> 2]

PartsInit == part \in {"tiers", "context"} /\ Init /\ ContextInit
PartsNext ==
    /\ UNCHANGED part
    /\ \/ part = "tiers" /\ Next /\ UNCHANGED contextVars
       \/ part = "context" /\ ContextNext /\ UNCHANGED tierVars
PartsSpec == PartsInit /\ [][PartsNext]_partsVars

\* MemoryTiers!Fairness for the behaviours in which the tiers move.
PartsFairness ==
    LET Tiers(A) == part = "tiers" /\ A /\ UNCHANGED <<part, contextVars>>
    IN  /\ \A i \in Memory : WF_partsVars(Tiers(Ages(i)))
        /\ WF_partsVars(Tiers(ListUnused)) /\ WF_partsVars(Tiers(ArchiveUnused))
FairPartsSpec == PartsSpec /\ PartsFairness

\* MemoryTiers!UnrecalledSinks, where the tiers move.
UnrecalledUnitsSink == part = "tiers" => UnrecalledSinks

=============================================================================
