---------------------------- MODULE GraphExplorer ----------------------------
(***************************************************************************)
(* The console's graph explorer (web/routes/graph.py): a bounded snapshot  *)
(* of the entity graph, read in up to five queries, and an overlay of the  *)
(* memories that the cross-reference engine brings up for its entities.    *)
(* Between two of the queries ingestion adds entities and relations and    *)
(* the maintenance pass merges duplicates.  The client draws the answer,   *)
(* and an edge whose end is not among the nodes breaks the drawing.        *)
(*                                                                         *)
(* Simplifications.                                                        *)
(*  - Memories are all stored, and in one scope; the bound on the rows     *)
(*    that are read for them (50 per node) is not reached.                 *)
(*  - A merge is one step here: its nine queries are the matter of         *)
(*    GraphMaintenance.                                                    *)
(*  - The engine may bring up any memory that shares an entity with the    *)
(*    shown ones: its scores are the matter of ContextSearch.              *)
(***************************************************************************)
EXTENDS Naturals, FiniteSets, Sequences

CONSTANTS
    Vertex,       \* entity ids, opaque (uuid4), in the order of creation: a sequence
    Titled,       \* [id -> canonical name]
    Kind,         \* [id -> entity type]
    Note,         \* memories
    Names,        \* [Note -> set of entity names]
    Flagged,      \* memories flagged cross_ref_candidate
    NodeLimit,    \* limit
    MaxChanges    \* bound: relations, merges and entities that come meanwhile

Ids == {Vertex[k] : k \in DOMAIN Vertex}
AllNames == {Titled[v] : v \in Ids} \cup UNION {Names[n] : n \in Note}

ASSUME ExplorerAssumption ==
    /\ NodeLimit \in Nat \ {0} /\ MaxChanges \in Nat /\ Flagged \subseteq Note
    /\ Vertex \in Seq(STRING)
    /\ AllNames \cap Ids = {}

VARIABLES
    alive,      \* entity nodes, ids
    related,    \* RELATES, {<<id, id>>}
    together,   \* CO_MENTIONS, {<<id, id>>}
    request,    \* the request under way: what it asks, how far it is, what it has read
    shown,      \* the answer on screen: [nodes, edges, truncated]
    changes

explorerVars == <<alive, related, together, request, shown, changes>>

Order(v) == CHOOSE k \in DOMAIN Vertex : Vertex[k] = v
Blank == [nodes |-> {}, edges |-> {}, truncated |-> FALSE]
Idle == [pc |-> "idle", center |-> "", kind |-> "any", kept |-> {}, more |-> FALSE,
         linked |-> {}, edges |-> {}]

(***************************************************************************)
(* The graph changes                                                       *)
(***************************************************************************)
Changes == changes < MaxChanges /\ changes' = changes + 1 /\ UNCHANGED <<request, shown>>

AddVertex ==
    /\ Changes
    /\ \E v \in Ids \ alive : alive' = alive \cup {v}
    /\ UNCHANGED <<related, together>>

Relate ==
    /\ Changes
    /\ \E v, w \in alive : v # w /\ related' = related \cup {<<v, w>>}
    /\ UNCHANGED <<alive, together>>

CoMention ==
    /\ Changes
    /\ \E v, w \in alive : Order(v) < Order(w) /\ together' = together \cup {<<v, w>>}
    /\ UNCHANGED <<alive, related>>

\* merge_entities: the edges move onto the survivor and the duplicate is deleted.
Merge ==
    /\ Changes
    /\ \E v, w \in alive :
        LET image(x) == IF x = v THEN w ELSE x
        IN  /\ v # w /\ Titled[v] = Titled[w]
            /\ alive' = alive \ {v}
            /\ related' = {e \in {<<image(d[1]), image(d[2])>> : d \in related} : e[1] # e[2]}
            /\ together' = {e \in {<<image(d[1]), image(d[2])>> : d \in together} : e[1] # e[2]}

(***************************************************************************)
(* graph_snapshot                                                          *)
(***************************************************************************)
Degree(v) == Cardinality({e \in related : v \in {e[1], e[2]}})
             + Cardinality({e \in together : v \in {e[1], e[2]}})

AskGraph ==
    /\ request.pc = "idle"
    /\ \E center \in AllNames \cup {""} : \E kind \in {"any"} \cup {Kind[v] : v \in Ids} :
        request' = [Idle EXCEPT !.center = center, !.kind = kind,
                                !.pc = IF center = "" THEN "ranked" ELSE "center"]
    /\ UNCHANGED <<alive, related, together, shown, changes>>

HasKind(v) == request.kind = "any" \/ Kind[v] = request.kind
Stage(pc) == request.pc = pc
Proceeds(r) == request' = r /\ UNCHANGED <<alive, related, together, shown, changes>>
Draw(a) == shown' = a /\ request' = Idle /\ UNCHANGED <<alive, related, together, changes>>

\* get_entity takes any node called so; without one the answer is empty.
FindCenter ==
    /\ Stage("center")
    /\ \E v \in alive : Titled[v] = request.center /\ Proceeds([request EXCEPT !.pc = "around", !.kept = {v}])

NoCenter ==
    /\ Stage("center") /\ \A v \in alive : Titled[v] # request.center
    /\ Draw(Blank)

\* LIMIT cap + 1: one row more than is kept says that there are more.
Keep(rows, found) ==
    Proceeds([request EXCEPT !.kept = rows, !.more = Cardinality(found) > NodeLimit,
                         !.pc = IF rows = {} THEN "overlay" ELSE "memories"])

\* The center, whatever its type, and its neighbours of the type, in any order.
TakeAround ==
    /\ Stage("around")
    /\ LET center == request.kept \cap alive
           beside == {v \in alive : HasKind(v) /\ \E e \in related, c \in center : e \in {<<c, v>>, <<v, c>>}}
       IN  \E rows \in SUBSET (center \cup beside) :
             /\ center \subseteq rows
             /\ Cardinality(rows) = IF Cardinality(center \cup beside) < NodeLimit
                                    THEN Cardinality(center \cup beside) ELSE NodeLimit
             /\ Keep(rows, center \cup beside)

\* By degree, then by id.
TakeRanked ==
    /\ Stage("ranked")
    /\ LET found == {v \in alive : HasKind(v)}
           before(v, w) == Degree(v) > Degree(w) \/ (Degree(v) = Degree(w) /\ Order(v) < Order(w))
       IN  Keep({v \in found : Cardinality({w \in found : before(w, v)}) < NodeLimit}, found)

\* One id per name: of kept nodes with one name, the one whose row came last.
TakeMemories ==
    /\ Stage("memories")
    /\ LET names == {Titled[v] : v \in request.kept}
       IN  \E id \in {f \in [names -> request.kept] : \A name \in names : Titled[f[name]] = name} :
             Proceeds([request EXCEPT !.pc = "relates",
                     !.linked = UNION {{<<n, id[name]>> : name \in Names[n] \cap names} : n \in Note}])

\* Mutant of Among: one end is asked for.
From(edges, kept) == {e \in edges : e[1] \in kept}

\* WHERE a.id IN $ids AND b.id IN $ids.
Among(edges, kept) == {e \in edges : e[1] \in kept /\ e[2] \in kept}

EntityEdges(edges) == {<<"ent", e[1], "ent", e[2]>> : e \in edges}

TakeRelates ==
    /\ Stage("relates")
    /\ Proceeds([request EXCEPT !.pc = "together",
               !.edges = EntityEdges(Among(related, request.kept))])

TakeTogether ==
    /\ Stage("together")
    /\ Proceeds([request EXCEPT !.pc = "overlay",
               !.edges = @ \cup EntityEdges(Among(together, request.kept))])

(***************************************************************************)
(* get_graph                                                               *)
(***************************************************************************)
\* The nodes of the snapshot: the entities, and the flagged memories linked to one.
Featured == {l[1] : l \in {m \in request.linked : m[1] \in Flagged}}
SnapshotNodes == {<<"ent", v>> : v \in request.kept} \cup {<<"mem", n>> : n \in Featured}
SnapshotEdges ==
    request.edges \cup {<<"mem", l[1], "ent", l[2]>> : l \in {m \in request.linked : m[1] \in Featured}}

ShownNames == {Titled[v] : v \in request.kept}

\* Mutant of Anchored: the overlay is drawn as it comes.
Unanchored(edges, nodes) == edges

\* Only the overlay edges whose target is a node of the answer.
Anchored(edges, nodes) == {e \in edges : <<e[3], e[4]>> \in nodes}

\* _crossref_overlay: every surfaced memory to its first shared entity.  The edge's
\* target is made of the entity's name, the nodes of the answer of the ids, and
\* Anchored drops it.  An engine that fails overlays nothing.
Overlay ==
    /\ Stage("overlay")
    /\ \E refs \in SUBSET {p \in Note \X ShownNames : p[2] \in Names[p[1]]} :
        /\ \A p, q \in refs : p[1] = q[1] => p = q
        /\ LET drawn == Anchored({<<"mem", p[1], "ent", p[2]>> : p \in refs}, SnapshotNodes)
           IN  Draw([nodes |-> SnapshotNodes \cup {<<"mem", e[2]>> : e \in drawn},
                       edges |-> SnapshotEdges \cup drawn, truncated |-> request.more])

(***************************************************************************)
(* The specification                                                       *)
(***************************************************************************)
ExplorerInit ==
    /\ alive \in {{}, Ids \ {Vertex[Len(Vertex)]}}
    /\ related = {} /\ together = {}
    /\ request = Idle /\ shown = Blank /\ changes = 0

GraphChanges == AddVertex \/ Relate \/ CoMention \/ Merge

RequestStep ==
    \/ AskGraph \/ FindCenter \/ NoCenter \/ TakeAround \/ TakeRanked
    \/ TakeMemories \/ TakeRelates \/ TakeTogether \/ Overlay

ExplorerNext == GraphChanges \/ RequestStep

ExplorerSpec == ExplorerInit /\ [][ExplorerNext]_explorerVars

(***************************************************************************)
(* Properties                                                              *)
(***************************************************************************)
EndsOf(e) == {<<e[1], e[2]>>, <<e[3], e[4]>>}

\* Whatever merges away between two of the queries, the answer can be drawn: every
\* edge runs between two of its nodes, a memory stands beside an entity, and the
\* entities are within the limit, at it if more were left out ("added so the
\* explained edge is anchored"; "never a false positive at exactly node_limit").
ExplorerIsClosed ==
    LET entities == {n \in shown.nodes : n[1] = "ent"}
    IN  /\ \A e \in shown.edges : EndsOf(e) \subseteq shown.nodes
        /\ \A n \in shown.nodes \ entities : \E e \in shown.edges : n \in EndsOf(e)
        /\ Cardinality(entities) <= NodeLimit
        /\ shown.truncated => Cardinality(entities) = NodeLimit

=============================================================================
