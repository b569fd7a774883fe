---------------------------- MODULE EntityGraph ----------------------------
(***************************************************************************)
(* The entity graph as ingestion writes it: entity nodes found by their    *)
(* lower-cased name or created, MENTIONS edges from memories to entities,  *)
(* RELATES edges between entities (services.py _persist and the entity     *)
(* operations of storage/backend.py).                                      *)
(*                                                                         *)
(* Every operation here is several queries, and an ingest task can be      *)
(* suspended between any two of them: one action per query.  A name stands *)
(* for all its spellings (name_key is the lower-cased name).  Every        *)
(* extracted relation has the default weight, so weights are left out.     *)
(***************************************************************************)
EXTENDS Integers, FiniteSets

CONSTANTS
    Task,      \* one ingest task per extracted chunk; its memory has its name
    Name,      \* lower-cased entity names
    Label,     \* relation labels
    Chunk,     \* [Task -> what the extractor found]; see ChunkType
    None

ChunkType ==
    [entities  : SUBSET Name,               \* extracted entities
     aliases   : [Name -> SUBSET Name],     \* the aliases they come with
     memory    : SUBSET Name,               \* the names its memory mentions
     relations : SUBSET (Name \X Label \X Name)]

ASSUME ChunkAssumption ==
    /\ Chunk \in [Task -> ChunkType] /\ None \notin Nat \cup Name
    /\ \A t \in Task : \A n \in Name : IsFiniteSet(Chunk[t].aliases[n])

VARIABLES
    nodes,      \* entity id -> [name, aliases]; its domain is the live nodes
    mentions,   \* {<<memory, entity id>>}
    relates,    \* {[id, from, label, to, open]}
    stored,     \* the memories that were stored as nodes of their own
    created,    \* entities and edges created so far: ids are never reused
    tasks,      \* per task: [pc, ids, op, rels]; op is the write it decided on
                \* and has still to make, of kind "create", "fold" or "edge"
    asserted    \* history: the relations whose upsert_edge has returned

graphVars == <<nodes, mentions, relates, stored, created, tasks, asserted>>

Live == DOMAIN nodes

(***************************************************************************)
(* Resolving a name                                                        *)
(***************************************************************************)
Goto(t, pc) == tasks' = [tasks EXCEPT ![t].pc = pc, ![t].op = None]
Known(t, n) == tasks[t].ids[n] # None
Resolved(t, n, id) == tasks' = [tasks EXCEPT ![t].ids[n] = id, ![t].op = None]

\* The names a task still has to resolve at the point it has reached: the
\* extracted entities, then what its memory mentions, then relation ends.
Wanted(t) ==
    LET c == Chunk[t]
        names == CASE tasks[t].pc = "entities" -> c.entities
                   [] tasks[t].pc = "mentions" -> c.memory
                   [] tasks[t].pc = "edges" ->
                        UNION {{r[1], r[3]} : r \in tasks[t].rels}
                   [] OTHER -> {}
    IN  {n \in names : ~Known(t, n)}

\* Only extracted entities bring aliases along; a name met later is bare.
Incoming(t, n) == IF n \in Chunk[t].entities THEN Chunk[t].aliases[n] ELSE {}

\* resolve_or_create_entity, first query: look the name up, and decide.
LookUp(t, n) ==
    /\ n \in Wanted(t) /\ tasks[t].op = None
    /\ LET hits == {i \in Live : nodes[i].name = n}
       IN  \/ /\ hits = {}
              /\ tasks' = [tasks EXCEPT ![t].op = [kind |-> "create", name |-> n]]
           \/ \E i \in hits :
                LET all == (nodes[i].aliases \cup Incoming(t, n)) \ {n}
                IN  IF all = nodes[i].aliases
                    THEN Resolved(t, n, i)
                    ELSE tasks' = [tasks EXCEPT ![t].op =
                            [kind |-> "fold", name |-> n, id |-> i, aliases |-> all]]
    /\ UNCHANGED <<nodes, mentions, relates, stored, created, asserted>>

\* upsert_entity: a node of its own, whatever was created since the look-up.
CreateEntity(t) ==
    /\ tasks[t].op # None /\ tasks[t].op.kind = "create"
    /\ LET n == tasks[t].op.name
           i == created + 1
       IN  /\ nodes' = [j \in Live \cup {i} |->
                          IF j = i THEN [name |-> n, aliases |-> Incoming(t, n) \ {n}]
                                   ELSE nodes[j]]
           /\ Resolved(t, n, i)
    /\ created' = created + 1
    /\ UNCHANGED <<mentions, relates, stored, asserted>>

\* The alias write of the resolve: the list that was read, plus the new ones.
FoldAliases(t) ==
    /\ tasks[t].op # None /\ tasks[t].op.kind = "fold"
    /\ LET op == tasks[t].op
       IN  /\ nodes' = [i \in Live |->
                          IF i = op.id THEN [nodes[i] EXCEPT !.aliases = op.aliases]
                                       ELSE nodes[i]]
           /\ Resolved(t, op.name, op.id)
    /\ UNCHANGED <<mentions, relates, stored, created, asserted>>

(***************************************************************************)
(* One task: entities, memory, mentions, relations                         *)
(***************************************************************************)
\* upsert_memory: a node of its own, or a reinforcement of a stored memory
\* (then no node carries the id that the task goes on using).
StoreMemory(t) ==
    /\ tasks[t].pc = "entities" /\ Wanted(t) = {} /\ tasks[t].op = None
    /\ stored' \in {stored \cup {t}} \cup (IF stored = {} THEN {} ELSE {stored})
    /\ Goto(t, "mentions")
    /\ UNCHANGED <<nodes, mentions, relates, created, asserted>>

\* add_memory_mentions: an edge for each pair whose two ends are still there.
AddMentions(t) ==
    /\ tasks[t].pc = "mentions" /\ Wanted(t) = {} /\ tasks[t].op = None
    /\ mentions' = mentions \cup
         {<<t, tasks[t].ids[n]>> : n \in {m \in Chunk[t].memory :
                                            t \in stored /\ tasks[t].ids[m] \in Live}}
    /\ Goto(t, "edges")
    /\ UNCHANGED <<nodes, relates, stored, created, asserted>>

\* upsert_edge, first query: an open edge with this label is only re-weighted.
FindEdge(t, r) ==
    /\ tasks[t].pc = "edges" /\ Wanted(t) = {} /\ tasks[t].op = None
    /\ r \in tasks[t].rels
    /\ IF \E e \in relates : /\ e.open /\ e.label = r[2]
                             /\ e.from = tasks[t].ids[r[1]] /\ e.to = tasks[t].ids[r[3]]
       THEN /\ tasks' = [tasks EXCEPT ![t].rels = @ \ {r}]
            /\ asserted' = asserted \cup {r}
       ELSE /\ tasks' = [tasks EXCEPT ![t].op = [kind |-> "edge", rel |-> r]]
            /\ UNCHANGED asserted
    /\ UNCHANGED <<nodes, mentions, relates, stored, created>>

\* upsert_edge, second query: CREATE between the two nodes, if both match.
CreateEdge(t) ==
    /\ tasks[t].op # None /\ tasks[t].op.kind = "edge"
    /\ LET r == tasks[t].op.rel
           ends == {tasks[t].ids[r[1]], tasks[t].ids[r[3]]}
       IN  /\ relates' = relates \cup
                 (IF ends \subseteq Live
                  THEN {[id |-> created + 1, from |-> tasks[t].ids[r[1]], label |-> r[2],
                         to |-> tasks[t].ids[r[3]], open |-> TRUE]}
                  ELSE {})
           /\ tasks' = [tasks EXCEPT ![t].op = None, ![t].rels = @ \ {r}]
           /\ asserted' = asserted \cup {r}
    /\ created' = created + 1
    /\ UNCHANGED <<nodes, mentions, stored>>

Finish(t) ==
    /\ tasks[t].pc = "edges" /\ tasks[t].rels = {} /\ tasks[t].op = None
    /\ tasks' = [tasks EXCEPT ![t].pc = "done", ![t].ids = [n \in Name |-> None]]
    /\ UNCHANGED <<nodes, mentions, relates, stored, created, asserted>>

GraphInit ==
    /\ nodes = <<>> /\ mentions = {} /\ relates = {} /\ stored = {}
    /\ created = 0 /\ asserted = {}
    /\ tasks = [t \in Task |-> [pc |-> "entities", ids |-> [n \in Name |-> None],
                                op |-> None, rels |-> Chunk[t].relations]]

TaskStep(t) ==
    \/ StoreMemory(t) \/ AddMentions(t) \/ Finish(t)
    \/ CreateEntity(t) \/ FoldAliases(t) \/ CreateEdge(t)
    \/ \E n \in Name : LookUp(t, n)
    \/ \E r \in tasks[t].rels : FindEdge(t, r)

=============================================================================
