-------------------------- MODULE GraphMaintenance --------------------------
(***************************************************************************)
(* The graph jobs of the maintenance pass, running beside the ingest tasks *)
(* of EntityGraph: entity resolution with its pruning, mentions,           *)
(* co-mentions, relation normalisation and entity dedup, in the order of   *)
(* build_default_jobs.  One pass runs at a time (max_instances=1), so only *)
(* this module deletes nodes and edges.  A merge is nine queries, each an  *)
(* action; a job that fails at a query is abandoned there and the runner   *)
(* goes on with the next one.                                              *)
(***************************************************************************)
EXTENDS EntityGraph

CONSTANTS
    Key,           \* normalize_entity_key: [Name -> its grouping key]
    Rank,          \* [Name -> Nat]: names by length, then alphabetically
    Canon,         \* normalize_relation: [Label -> Label]
    MinShared,     \* graph.co_mention_min_shared
    MaxCoDegree,   \* graph.co_mention_max_added_degree
    MaxDegree,     \* maintenance.max_node_degree
    MaxFailures    \* bound on failing jobs

\* What merge_entities carries from query to query.
Merges ==
    [src : Nat, dst : Nat, aliases : SUBSET Name,
     step : {"out", "in", "mentions", "co", "loop", "alias", "delete"}]

ASSUME GraphMaintenanceAssumption ==
    /\ None \notin Merges
    /\ Rank \in [Name -> Nat] /\ Canon \in [Label -> Label]
    /\ \A n, m \in Name : Rank[n] = Rank[m] => n = m
    /\ \A l \in Label : Canon[Canon[l]] = Canon[l]
    /\ {MinShared, MaxCoDegree, MaxDegree, MaxFailures} \subseteq Nat

VARIABLES
    comentions,    \* {<<entity id, entity id>>}, CO_MENTIONS edges
    job,           \* the job of the pass that runs, or "idle"
    stage,         \* how far it is
    work,          \* what it still has to do, as it decided earlier
    merge,         \* the merge under way, or None: [src, dst, aliases, step]
    failures,
    raced,         \* history: an ingest task was under way during a merge
    clean          \* history: ingestion was over when the pass began, no job failed

jobVars == <<comentions, job, stage, work, merge, failures, raced, clean>>
vars == <<graphVars, jobVars>>

Jobs == {"resolution", "mentions", "comention", "relnorm", "dedup"}
NextJob == [resolution |-> "mentions", mentions |-> "comention", comention |-> "relnorm",
            relnorm |-> "dedup", dedup |-> "idle"]

(***************************************************************************)
(* The pass                                                                *)
(***************************************************************************)
Begin(j) == job' = j /\ stage' = "list" /\ work' = {} /\ merge' = None
AtStage(j, s) == job = j /\ stage = s
StageDone == work = {} /\ merge = None
JobOver == Begin(NextJob[job]) /\ UNCHANGED <<graphVars, comentions, failures, raced, clean>>

StartPass ==
    /\ job = "idle" /\ Begin("resolution")
    /\ clean' = (\A t \in Task : tasks[t].pc = "done")
    /\ UNCHANGED <<graphVars, comentions, failures, raced>>

FailJob ==
    /\ merge # None /\ failures < MaxFailures
    /\ failures' = failures + 1 /\ clean' = FALSE /\ Begin(NextJob[job])
    /\ UNCHANGED <<graphVars, comentions, raced>>

\* The job goes from listing to doing what the listing says.
Decide(s, todo) ==
    /\ stage' = s /\ work' = todo
    /\ UNCHANGED <<graphVars, comentions, job, merge, failures, raced, clean>>

(***************************************************************************)
(* Merging duplicates (EntityResolutionJob, EntityDedupJob)                *)
(***************************************************************************)
Better(i, j) ==
    LET a == Cardinality(nodes[i].aliases)
        b == Cardinality(nodes[j].aliases)
        ri == Rank[nodes[i].name]
        rj == Rank[nodes[j].name]
    IN  a > b \/ (a = b /\ (ri < rj \/ (ri = rj /\ i < j)))

Survivor(group) == CHOOSE i \in group : \A j \in group \ {i} : Better(i, j)

\* <<duplicate, survivor>> for every group of nodes alike under keyOf.
Duplicates(keyOf) ==
    UNION {LET group == {i \in Live : keyOf[nodes[i].name] = keyOf[n]}
           IN  (group \ {Survivor(group)}) \X {Survivor(group)}
             : n \in {m \in Name : \E i \in Live : nodes[i].name = m}}

\* normalize_entity_key.
SameKey == Key
SameName == [n \in Name |-> n]

ListDuplicates ==
    /\ stage = "list"
    /\ \/ job = "resolution" /\ Decide("merge", Duplicates(SameKey))
       \/ job = "dedup" /\ Decide("merge", Duplicates(SameName))

\* merge_entities reads both nodes, and the alias list it will write.
TakeMerge ==
    /\ stage = "merge" /\ merge = None
    /\ \E p \in work :
        /\ work' = work \ {p}
        /\ merge' = [src |-> p[1], dst |-> p[2], step |-> "out",
                     aliases |-> nodes[p[2]].aliases \cup {nodes[p[1]].name}
                                   \cup nodes[p[1]].aliases]
    /\ UNCHANGED <<graphVars, comentions, job, stage, failures, raced, clean>>

InFlight ==
    \E t \in Task : /\ tasks[t].pc # "done"
                    /\ tasks[t].op # None \/ \E n \in Name : Known(t, n)

MergeStep(from, to) ==
    /\ stage = "merge" /\ merge # None /\ merge.step = from
    /\ merge' = IF to = "end" THEN None ELSE [merge EXCEPT !.step = to]
    /\ raced' = (raced \/ InFlight)
    /\ UNCHANGED <<job, stage, work, failures, clean, stored, created, tasks, asserted>>

\* MERGE each edge e onto image[e]: the edges already there take its window;
\* without one a new edge takes its id.  Of several edges that land on one
\* place, pick is the one whose window is written last.
Repointed(image) ==
    LET rows == DOMAIN image
        place(e) == <<e.from, e.label, e.to>>
        places == {place(image[r]) : r \in rows}
        rest == relates \ rows
    IN  {{IF place(e) \in places THEN [e EXCEPT !.open = pick[place(e)].open] ELSE e
            : e \in rest}
         \cup {image[pick[p]] : p \in places \ {place(e) : e \in rest}}
         : pick \in {f \in [places -> rows] :
                        \A p \in places : place(image[f[p]]) = p}}

MergeOut ==
    /\ MergeStep("out", "in")
    /\ relates' \in Repointed([e \in {d \in relates : d.from = merge.src} |->
                                  [e EXCEPT !.from = merge.dst]])
    /\ UNCHANGED <<nodes, mentions, comentions>>

MergeIn ==
    /\ MergeStep("in", "mentions")
    /\ relates' \in Repointed([e \in {d \in relates : d.to = merge.src} |->
                                  [e EXCEPT !.to = merge.dst]])
    /\ UNCHANGED <<nodes, mentions, comentions>>

MergeMentions ==
    /\ MergeStep("mentions", "co")
    /\ mentions' = {<<p[1], IF p[2] = merge.src THEN merge.dst ELSE p[2]>> : p \in mentions}
    /\ UNCHANGED <<nodes, relates, comentions>>

\* Mutant of Canonical: the edge keeps the direction it is met in.
AsMet(i, j) == <<i, j>>

\* Co-mention is unordered and stored from the lower id to the higher.
Canonical(i, j) == IF i < j THEN <<i, j>> ELSE <<j, i>>
Others(i) == {p[2] : p \in {q \in comentions : q[1] = i}}
             \cup {p[1] : p \in {q \in comentions : q[2] = i}}

MergeCoMentions ==
    /\ MergeStep("co", "loop")
    /\ LET moved == Others(merge.src) \ {merge.dst}
       IN  comentions' = {p \in comentions : ~(\E o \in moved : p = Canonical(merge.src, o))}
                         \cup {Canonical(merge.dst, o) : o \in moved}
    /\ UNCHANGED <<nodes, mentions, relates>>

DropSelfLoop ==
    /\ MergeStep("loop", "alias")
    /\ comentions' = comentions \ {Canonical(merge.src, merge.dst)}
    /\ UNCHANGED <<nodes, mentions, relates>>

\* The alias list as it was read when the merge began.
FoldMerged ==
    /\ MergeStep("alias", "delete")
    /\ nodes' = [nodes EXCEPT ![merge.dst].aliases = merge.aliases]
    /\ UNCHANGED <<mentions, relates, comentions>>

\* Deleting the node deletes the edges that reached it meanwhile.
DeleteMerged ==
    /\ MergeStep("delete", "end")
    /\ nodes' = [i \in Live \ {merge.src} |-> nodes[i]]
    /\ mentions' = {p \in mentions : p[2] # merge.src}
    /\ relates' = {e \in relates : merge.src \notin {e.from, e.to}}
    /\ comentions' = {p \in comentions : merge.src \notin {p[1], p[2]}}

MergesDone ==
    /\ stage = "merge" /\ StageDone
    /\ \/ job = "dedup" /\ JobOver
       \/ job = "resolution" /\ Decide("visit", Live \X {"visit"})

(***************************************************************************)
(* Capping node degree (_prune_and_cap; no extracted edge is under the     *)
(* weight floor, and of equal weights the lower id goes)                   *)
(***************************************************************************)
OpenAt(i) == {e \in relates : e.open /\ i \in {e.from, e.to}}
\* Mutant of Called: an entity is known by its canonical name only.
CalledByName(n) == {i \in Live : nodes[i].name = n}

Called(n) == {i \in Live : nodes[i].name = n \/ n \in nodes[i].aliases}

\* The node is visited by its name: get_entity takes any node called so.
Visit ==
    /\ AtStage("resolution", "visit")
    /\ \A w \in work : w[2] = "visit"
    /\ \E v \in work : \E named \in Called(nodes[v[1]].name) :
        LET open == OpenAt(named)
            over == {e \in open : Cardinality({d \in open : d.id > e.id}) >= MaxDegree}
        IN  work' = (work \ {v}) \cup {<<e.id, "prune">> : e \in over}
    /\ UNCHANGED <<graphVars, comentions, job, stage, merge, failures, raced, clean>>

Prune ==
    /\ AtStage("resolution", "visit")
    /\ \E v \in work :
        /\ v[2] = "prune"
        /\ relates' = {IF e.id = v[1] THEN [e EXCEPT !.open = FALSE] ELSE e : e \in relates}
        /\ work' = work \ {v}
    /\ UNCHANGED <<nodes, mentions, stored, created, tasks, asserted,
                   comentions, job, stage, merge, failures, raced, clean>>

VisitsDone == AtStage("resolution", "visit") /\ StageDone /\ JobOver

(***************************************************************************)
(* Mentions (persist_mentions) and co-mentions (CoMentionJob)              *)
(***************************************************************************)
\* One node per name it is called by; the first listed wins, so any may.
MapNames ==
    /\ AtStage("mentions", "list")
    /\ \E callers \in {{p \in Name \X Live : p[2] \in Called(p[1])}} :
       \E map \in SUBSET callers :
          /\ {p[1] : p \in map} = {p[1] : p \in callers}
          /\ \A p, q \in map : p[1] = q[1] => p = q
          /\ Decide("map", map)

PairMemories ==
    /\ AtStage("mentions", "map")
    /\ Decide("assert", {p \in stored \X Live :
                           \E w \in work : w[2] = p[2] /\ w[1] \in Chunk[p[1]].memory})

AssertMentions ==
    /\ AtStage("mentions", "assert")
    /\ mentions' = mentions \cup {p \in work : p[2] \in Live}
    /\ Begin(NextJob[job])
    /\ UNCHANGED <<nodes, relates, stored, created, tasks, asserted,
                   comentions, failures, raced, clean>>

MentionsOf(i) == {p[1] : p \in {q \in mentions : q[2] = i}}

\* co_mention_pairs: who shares enough memories.
PairEntities ==
    /\ AtStage("comention", "list")
    /\ Decide("rank", {p \in Live \X Live \X (MinShared..Cardinality(Task)) :
                         /\ p[1] < p[2]
                         /\ p[3] = Cardinality(MentionsOf(p[1]) \cap MentionsOf(p[2]))})

\* _rank_downweight_and_cap: shared / sqrt(df_a * df_b), strongest first, a
\* pair kept while both its ends have room.  kept[k] is what the first k keep.
RankPairs ==
    /\ AtStage("comention", "rank")
    /\ LET df(i) == IF MentionsOf(i) = {} THEN 1 ELSE Cardinality(MentionsOf(i))
           before(p, q) ==
             LET wp == p[3] * p[3] * df(q[1]) * df(q[2])
                 wq == q[3] * q[3] * df(p[1]) * df(p[2])
             IN  \/ wp > wq
                 \/ wp = wq /\ p[3] > q[3]
                 \/ wp = wq /\ p[3] = q[3]
                       /\ (p[1] < q[1] \/ (p[1] = q[1] /\ p[2] < q[2]))
           at(k) == CHOOSE p \in work : Cardinality({q \in work : before(q, p)}) = k - 1
           room(S, i) == Cardinality({p \in S : i \in {p[1], p[2]}}) < MaxCoDegree
           kept[k \in 0..Cardinality(work)] ==
             IF k = 0 THEN {}
             ELSE kept[k-1] \cup {p \in work : /\ p = at(k)
                                               /\ room(kept[k-1], p[1]) /\ room(kept[k-1], p[2])}
       IN  Decide("assert", kept[Cardinality(work)])

\* upsert_co_mention, pair by pair; a pair whose end is gone matches nothing.
AssertCoMention ==
    /\ AtStage("comention", "assert")
    /\ \E p \in work :
        /\ work' = work \ {p}
        /\ comentions' = comentions \cup
             (IF {p[1], p[2]} \subseteq Live THEN {Canonical(p[1], p[2])} ELSE {})
    /\ UNCHANGED <<graphVars, job, stage, merge, failures, raced, clean>>

CoMentionsDone == AtStage("comention", "assert") /\ StageDone /\ JobOver

(***************************************************************************)
(* Relation labels (RelationNormJob, merge_relations)                      *)
(***************************************************************************)
ListLabels ==
    /\ AtStage("relnorm", "list")
    /\ Decide("assert", {e.label : e \in {d \in relates : d.open /\ Canon[d.label] # d.label}})

\* Every open edge with the label moves onto the canonical one between its
\* ends, which is open afterwards.
MergeRelations ==
    /\ AtStage("relnorm", "assert")
    /\ \E l \in work :
        /\ work' = work \ {l}
        /\ relates' \in Repointed([e \in {d \in relates : d.open /\ d.label = l} |->
                                      [e EXCEPT !.label = Canon[l]]])
    /\ UNCHANGED <<nodes, mentions, stored, created, tasks, asserted,
                   comentions, job, stage, merge, failures, raced, clean>>

LabelsDone == AtStage("relnorm", "assert") /\ StageDone /\ JobOver

(***************************************************************************)
(* The specification                                                       *)
(***************************************************************************)
GraphJobsInit ==
    /\ GraphInit
    /\ comentions = {} /\ job = "idle" /\ stage = "list" /\ work = {} /\ merge = None
    /\ failures = 0 /\ raced = FALSE /\ clean = FALSE

JobStep ==
    \/ StartPass \/ ListDuplicates \/ TakeMerge \/ MergesDone
    \/ MergeOut \/ MergeIn \/ MergeMentions \/ MergeCoMentions
    \/ DropSelfLoop \/ FoldMerged \/ DeleteMerged
    \/ Visit \/ Prune \/ VisitsDone
    \/ MapNames \/ PairMemories \/ AssertMentions
    \/ PairEntities \/ RankPairs \/ AssertCoMention \/ CoMentionsDone
    \/ ListLabels \/ MergeRelations \/ LabelsDone

Ingest(t) ==
    /\ TaskStep(t)
    /\ raced' = (raced \/ merge # None)
    /\ UNCHANGED <<comentions, job, stage, work, merge, failures, clean>>

GraphJobsNext == JobStep \/ FailJob \/ \E t \in Task : Ingest(t)

GraphJobsSpec == GraphJobsInit /\ [][GraphJobsNext]_vars

(***************************************************************************)
(* Properties                                                              *)
(***************************************************************************)
KeyAt(i) == Key[nodes[i].name]

\* The RELATES layer loses nothing to a merge, wherever it fails, as long as
\* no ingest task is under way during one: every relation that was ever
\* asserted is there, open or pruned, between nodes for its two names
\* (merge_entities "so no edge type is orphaned"; _prune_and_cap only
\* closes windows).
RelationsOutliveMerges ==
    raced \/ \A r \in asserted : \E e \in relates :
               /\ KeyAt(e.from) = Key[r[1]] /\ KeyAt(e.to) = Key[r[3]]
               /\ Canon[e.label] = Canon[r[2]]

\* A pair of entities has one co-mention edge and no entity has one to
\* itself, through any sequence of merges, failures and co-mention runs
\* (merge_entities and upsert_co_mention keep every edge low id to high id).
CoMentionsAreCanonical == \A p \in comentions : p[1] < p[2]

\* No merge loses or doubles an edge, of either kind.
MergesKeepEdges == RelationsOutliveMerges /\ CoMentionsAreCanonical

\* A name no node is called by any more: the alias list that a task had decided
\* on before a merge replaced the one the merge left.
Forgotten(n) == raced /\ \A i \in Live : nodes[i].name # n /\ n \notin nodes[i].aliases

\* What a pass should leave behind: one node per entity, every stored memory
\* linked to a node for each name it mentions, every open label canonical, and
\* no entity in more relations than the cap (a visit asks for an entity by its
\* name, and may be answered with one that has it for an alias).
Settled ==
    /\ \A i, j \in Live : KeyAt(i) = KeyAt(j) => i = j
    /\ \A m \in stored : \A n \in Chunk[m].memory :
         \/ \E i \in Live : <<m, i>> \in mentions /\ (KeyAt(i) = Key[n] \/ n \in nodes[i].aliases)
         \/ Forgotten(n)
    /\ \A e \in relates : e.open => Canon[e.label] = e.label
    /\ \A i \in Live :
         \/ Cardinality({<<e.from, e.label, e.to>> : e \in OpenAt(i)}) <= MaxDegree
         \/ \E j \in Live \ {i} : nodes[i].name \in nodes[j].aliases

\* However ingestion, earlier passes and failing jobs interleaved, one pass
\* begun after the last task and in which no job fails leaves the graph
\* settled (build_default_jobs, re-run on its schedule, is the backstop of
\* all that ingestion does by halves).
PassSettles == job = "idle" /\ clean => Settled

=============================================================================
