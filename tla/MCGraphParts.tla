--------------------------- MODULE MCGraphParts ---------------------------
(***************************************************************************)
(* The entity graph and what the console shows, in one run: ingestion and  *)
(* the graph jobs; the console's views of the memories, of the graph and   *)
(* of the activity; and its labelling of evaluation candidates.  Each has  *)
(* a picture of the store of its own, so one of them moves in a behaviour  *)
(* and the others keep an initial state.                                   *)
(***************************************************************************)
EXTENDS MCGraphMaintenance, MemoryViews, GraphExplorer, ActivityFeed, EvalLabelling

VARIABLE part
partsVars == <<part, vars, viewVars, explorerVars, feedVars, labelVars>>

\* Global preferences, of which "a" and "b" are about the same, and facts of a
\* sub-scope and of a project whose name begins like another.
MCLies == [r \in Row |-> CASE r \in {"a", "b"} -> <<>> [] r = "c" -> <<"p", "sub">>
                          [] OTHER -> <<"pulse">>]
MCSubject == [r \in Row |-> {"rust"}]
MCBegins == {<<"p", "pulse">>}

\* Two entities with one name, which the maintenance pass may merge.
MCVertex == <<"e1", "e2", "e3">>
MCTitled == [v \in {"e1", "e2", "e3"} |-> IF v = "e2" THEN "tokio" ELSE "rust"]
MCKind == [v \in {"e1", "e2", "e3"} |-> IF v = "e2" THEN "lib" ELSE "lang"]
MCNames == [n \in Note |-> IF n = "seed" THEN {"rust"} ELSE {"tokio", "rust"}]

\* The pipeline stores two memories and the operator archives the first.
MCKindOf == [d \in Deed |-> IF d = "archives" THEN "correction" ELSE "write"]
MCTouches == [d \in Deed |-> IF d = "writes" THEN {"m2"} ELSE {"m1"}]
MCQueries == {[kind |-> "any", ref |-> "any"], [kind |-> "write", ref |-> "any"],
              [kind |-> "any", ref |-> "m1"]}

\* A part that does not move starts in one state only.
PartsInit ==
    /\ part \in {"graph", "views", "explorer", "feed", "labels"}
    /\ GraphJobsInit /\ ViewsInit /\ ExplorerInit /\ FeedInit /\ LabelInit
    /\ part # "explorer" => alive = {}
    /\ part # "feed" => log = "null"

PartsNext ==
    /\ UNCHANGED part
    /\ \/ part = "graph" /\ GraphJobsNext /\ UNCHANGED <<viewVars, explorerVars, feedVars, labelVars>>
       \/ part = "views" /\ ViewsNext /\ UNCHANGED <<vars, explorerVars, feedVars, labelVars>>
       \/ part = "explorer" /\ ExplorerNext /\ UNCHANGED <<vars, viewVars, feedVars, labelVars>>
       \/ part = "feed" /\ FeedNext /\ UNCHANGED <<vars, viewVars, explorerVars, labelVars>>
       \/ part = "labels" /\ LabelNext /\ UNCHANGED <<vars, viewVars, explorerVars, feedVars>>
PartsSpec == PartsInit /\ [][PartsNext]_partsVars

=============================================================================
