---------------------------- MODULE MemoryTiers ----------------------------
(***************************************************************************)
(* The hot path of the store, and what moves memories on and off it: the   *)
(* scoped query with its three stages, the reads built on it (recall and   *)
(* scoped_retrieve record an access, build_index does not), the decay      *)
(* sweep, promotion with its lazy re-embed, and the migration of the       *)
(* vector index to another embedding width.  Everything awaits, so reads,  *)
(* sweeps, promotions and the migration interleave query by query; the     *)
(* migration is an operator's process, which may die.                      *)
(*                                                                         *)
(* Simplifications.                                                        *)
(*  - There is one query text: Near gives each memory's rank for it.  A    *)
(*    path of segments is a scope, <<>> is global.  The entity filter is   *)
(*    one more conjunct of Matching and is left out.                       *)
(*  - Two widths: the provider and the configuration are at "new", the     *)
(*    store was filled at "old".  FalkorDB indexes exactly the vectors of  *)
(*    the index's width and refuses a query vector of another one.         *)
(*  - How long a unit has gone unused is one bit, fresh, that time clears. *)
(***************************************************************************)
EXTENDS Integers, FiniteSets, Sequences

CONSTANTS
    Memory,
    Home,           \* [Memory -> scope]
    Near,           \* [Memory -> Nat], the nearest has the lowest rank
    Late,           \* the memories stored after the start
    Asked,          \* the scopes that queries ask for
    Forces,         \* the values of migrate-index --force
    TopK,           \* rows a query asks for
    KnnK,           \* rows it over-fetches from the index
    ScopeScanMax,   \* retrieval.scope_scan_max
    MaxFailures,    \* bound: crashes and failing calls
    MaxPromotions   \* bound: promotions and closed windows

ASSUME TiersAssumption ==
    /\ IsFiniteSet(Memory)
    /\ Near \in [Memory -> Nat] /\ \A i, j \in Memory : Near[i] = Near[j] => i = j
    /\ Late \subseteq Memory /\ Forces \subseteq BOOLEAN
    /\ {TopK, KnnK, ScopeScanMax, MaxFailures, MaxPromotions} \subseteq Nat
    /\ 0 < TopK /\ TopK <= KnnK

VARIABLES
    store,      \* memory -> [tier, open, fresh, vec]; vec is "old" or "new"
    index,      \* the width of the vector index, or "none"
    query,      \* the read under way: [pc, kind, scope, rows, todo, over]
    steady,     \* history: what has matched the query since it began
    due,        \* what the decay sweep has still to archive
    promoting,  \* units made hot and not yet re-embedded
    stranded,   \* history: units whose re-embed failed
    migration,  \* [pc, todo]: the migrate-index process
    failures, promotions

tierVars == <<store, index, query, steady, due, promoting, stranded, migration,
              failures, promotions>>

Configured == "new"
Stored == DOMAIN store
HotIn(s) == {i \in DOMAIN s : s[i].tier = "hot"}

(***************************************************************************)
(* Scopes, and which memories a query is about                             *)
(***************************************************************************)
\* Scope.ancestors: the scope itself and everything above it, up to global.
Ancestors(scope) == {SubSeq(scope, 1, k) : k \in 0..Len(scope)}

\* _scoped_filters: composed scopes, open window, hot tier.
Matching(s, scope) ==
    {i \in DOMAIN s : Home[i] \in Ancestors(scope) /\ s[i].open /\ s[i].tier = "hot"}

\* The k nearest of a set, by any ranking of it.
Nearest(S, k, rank) == {i \in S : Cardinality({j \in S : rank[j] < rank[i]}) < k}
Distance == Near

\* The fallback's rank: a vector of another width has no similarity, and comes
\* after all that have one.
Score ==
    LET worst == Near[CHOOSE j \in Memory : \A k \in Memory : Near[k] <= Near[j]]
    IN  [i \in Stored |-> IF store[i].vec = Configured THEN Near[i] ELSE Near[i] + 1 + worst]

Write(s) ==
    /\ store' = s
    /\ steady' = steady \cap Matching(s, query.scope)

(***************************************************************************)
(* Reads                                                                   *)
(***************************************************************************)
Quiet == [pc |-> "idle", kind |-> "recall", scope |-> <<>>, rows |-> {}, todo |-> {},
          over |-> FALSE]
NoRead == UNCHANGED <<query, steady>>
NoSweep == UNCHANGED due
NoPromotion == UNCHANGED <<promoting, stranded, promotions>>
NoMigration == UNCHANGED <<index, migration>>

Ask(kind, scope) ==
    /\ query.pc = "idle"
    /\ query' = [Quiet EXCEPT !.pc = "knn", !.kind = kind, !.scope = scope]
    /\ steady' = Matching(store, scope)
    /\ UNCHANGED <<store, failures>> /\ NoSweep /\ NoPromotion /\ NoMigration

\* Mutant of Answer: every read records its accesses.
AnswerAndTouch(rows, over) ==
    query' = [query EXCEPT !.pc = "answered", !.rows = rows, !.over = over, !.todo = rows]

Answer(rows, over) ==
    query' = [query EXCEPT !.pc = "answered", !.rows = rows, !.over = over,
                           !.todo = IF query.kind = "recall" THEN rows ELSE {}]

\* scoped_query over the index: the nearest of all that is indexed, then the
\* filters.  Without an index the scan runs, of another width the query raises.
Knn ==
    /\ query.pc = "knn"
    /\ LET indexed == {i \in Stored : store[i].vec = index}
           rows == Nearest(Nearest(indexed, KnnK, Distance)
                             \cap Matching(store, query.scope), TopK, Distance)
       IN  CASE index = "none" -> query' = [query EXCEPT !.pc = "scan"]
             [] index # "none" /\ index # Configured -> query' = Quiet
             [] index = Configured /\ Cardinality(rows) >= TopK -> Answer(rows, FALSE)
             [] OTHER -> query' = [query EXCEPT !.pc = "count", !.rows = rows]
    /\ UNCHANGED <<store, steady, failures>> /\ NoSweep /\ NoPromotion /\ NoMigration

\* Mutant of Count: what the index returned is taken for all there is.
CountNothing ==
    /\ query.pc = "count"
    /\ Answer(query.rows, FALSE)
    /\ UNCHANGED <<store, steady, failures>> /\ NoSweep /\ NoPromotion /\ NoMigration

\* Starved: count what is in scope, and scan it unless it is too much.
Count ==
    /\ query.pc = "count"
    /\ IF Cardinality(Matching(store, query.scope)) <= ScopeScanMax
       THEN query' = [query EXCEPT !.pc = "scan"]
       ELSE Answer(query.rows, TRUE)
    /\ UNCHANGED <<store, steady, failures>> /\ NoSweep /\ NoPromotion /\ NoMigration

\* _scoped_query_fallback: filter first, rank afterwards.
Scan ==
    /\ query.pc = "scan"
    /\ Answer(Nearest(Matching(store, query.scope), TopK, Score), FALSE)
    /\ UNCHANGED <<store, steady, failures>> /\ NoSweep /\ NoPromotion /\ NoMigration

\* record_access, one row at a time; a unit that left the hot path meanwhile is
\* refreshed all the same.
RecordAccess ==
    /\ query.pc = "answered"
    /\ \E i \in query.todo :
        /\ Write([store EXCEPT ![i].fresh = TRUE])
        /\ query' = [query EXCEPT !.todo = @ \ {i}]
    /\ UNCHANGED failures /\ NoSweep /\ NoPromotion /\ NoMigration

Return ==
    /\ query.pc = "answered" /\ query.todo = {}
    /\ query' = Quiet /\ steady' = {}
    /\ UNCHANGED <<store, failures>> /\ NoSweep /\ NoPromotion /\ NoMigration

(***************************************************************************)
(* Writers and the operator                                                *)
(***************************************************************************)
\* _insert: a new unit has a vector of the provider's width.
Insert(i) ==
    /\ i \in Late \ Stored
    /\ Write([j \in Stored \cup {i} |->
                IF j = i THEN [tier |-> "hot", open |-> TRUE, fresh |-> TRUE,
                               vec |-> Configured]
                ELSE store[j]])
    /\ UNCHANGED <<query, failures>> /\ NoSweep /\ NoPromotion /\ NoMigration

\* A supersede or an operator closes a window.
Close(i) ==
    /\ promotions < MaxPromotions /\ promotions' = promotions + 1
    /\ i \in Stored /\ store[i].open
    /\ Write([store EXCEPT ![i].open = FALSE])
    /\ UNCHANGED <<query, failures, promoting, stranded>> /\ NoSweep /\ NoMigration

\* promote: the tier first, the vector in a later query.
Promote(i) ==
    /\ promotions < MaxPromotions /\ promotions' = promotions + 1
    /\ i \in Stored /\ store[i].tier = "archive" /\ i \notin promoting
    /\ Write([store EXCEPT ![i].tier = "hot"])
    /\ promoting' = promoting \cup {i}
    /\ UNCHANGED <<query, failures, stranded>> /\ NoSweep /\ NoMigration

Reembed(i) == Write([store EXCEPT ![i].vec = Configured])

EmbedPromoted(i) ==
    /\ i \in promoting
    /\ Reembed(i)
    /\ promoting' = promoting \ {i} /\ stranded' = stranded \ {i}
    /\ UNCHANGED <<query, failures, promotions>> /\ NoSweep /\ NoMigration

\* The embedding call fails: the unit stays hot with the vector it had.
PromotionFails(i) ==
    /\ i \in promoting /\ failures < MaxFailures
    /\ failures' = failures + 1
    /\ promoting' = promoting \ {i} /\ stranded' = stranded \cup {i}
    /\ UNCHANGED <<store, query, steady, promotions>> /\ NoSweep /\ NoMigration

(***************************************************************************)
(* The decay sweep                                                         *)
(***************************************************************************)
\* The cutoff passes the last use of a unit.
Ages(i) ==
    /\ i \in Stored /\ store[i].fresh
    /\ Write([store EXCEPT ![i].fresh = FALSE])
    /\ UNCHANGED <<query, failures>> /\ NoSweep /\ NoPromotion /\ NoMigration

\* iter_memories(tier=HOT, unused_since=cutoff), closed windows included.
ListUnused ==
    /\ due = {}
    /\ due' = {i \in HotIn(store) : ~store[i].fresh}
    /\ UNCHANGED <<store, query, steady, failures>> /\ NoPromotion /\ NoMigration

ArchiveUnused ==
    /\ \E i \in due :
        /\ due' = due \ {i}
        /\ Write([store EXCEPT ![i].tier = "archive"])
    /\ UNCHANGED <<query, failures>> /\ NoPromotion /\ NoMigration

SweepFails ==
    /\ due # {} /\ failures < MaxFailures
    /\ failures' = failures + 1 /\ due' = {}
    /\ UNCHANGED <<store, query, steady>> /\ NoPromotion /\ NoMigration

(***************************************************************************)
(* migrate-index                                                           *)
(***************************************************************************)
MigrationAt(pc) == migration.pc = pc
MigrationGoes(pc) == migration' = [migration EXCEPT !.pc = pc]

\* ensure_vector_index: a width that is there already stays as it is.
Ensure == index' = IF index = "none" THEN Configured ELSE index

\* The process connects, which ensures the index, and reads its width back; a
\* width that cannot be read counts as none, and none needs no migration.
StartMigration(force) ==
    /\ migration.pc \in {"off", "finished", "skipped"}
    /\ Ensure
    /\ \E seen \in {index', "none"} :
        LET needed == force \/ (seen # "none" /\ seen # Configured)
        IN  migration' = [pc |-> IF needed THEN "drop" ELSE "skipped", todo |-> {}]
    /\ UNCHANGED <<store, failures>> /\ NoRead /\ NoSweep /\ NoPromotion

DropIndex ==
    /\ MigrationAt("drop") /\ index' = "none" /\ MigrationGoes("create")
    /\ UNCHANGED <<store, failures>> /\ NoRead /\ NoSweep /\ NoPromotion

CreateIndex ==
    /\ MigrationAt("create") /\ Ensure /\ MigrationGoes("list")
    /\ UNCHANGED <<store, failures>> /\ NoRead /\ NoSweep /\ NoPromotion

\* Mutant of ListHot: closed windows are left out.
ListActive ==
    /\ MigrationAt("list")
    /\ migration' = [pc |-> "reembed", todo |-> {i \in HotIn(store) : store[i].open}]
    /\ UNCHANGED <<store, index, failures>> /\ NoRead /\ NoSweep /\ NoPromotion

ListHot ==
    /\ MigrationAt("list")
    /\ migration' = [pc |-> "reembed", todo |-> HotIn(store)]
    /\ UNCHANGED <<store, index, failures>> /\ NoRead /\ NoSweep /\ NoPromotion

ReembedListed ==
    /\ MigrationAt("reembed")
    /\ \E i \in migration.todo :
        /\ Reembed(i)
        /\ stranded' = stranded \ {i}
        /\ migration' = [migration EXCEPT !.todo = @ \ {i}]
    /\ UNCHANGED <<index, query, failures, promoting, promotions>> /\ NoSweep

FinishMigration ==
    /\ MigrationAt("reembed") /\ migration.todo = {} /\ MigrationGoes("finished")
    /\ UNCHANGED <<store, index, failures>> /\ NoRead /\ NoSweep /\ NoPromotion

Crash ==
    /\ migration.pc \in {"drop", "create", "list", "reembed"} /\ failures < MaxFailures
    /\ failures' = failures + 1
    /\ migration' = [pc |-> "off", todo |-> {}]
    /\ UNCHANGED <<store, index>> /\ NoRead /\ NoSweep /\ NoPromotion

\* Another process starts and connects.
Connect ==
    /\ index = "none" /\ Ensure
    /\ UNCHANGED <<store, migration, failures>> /\ NoRead /\ NoSweep /\ NoPromotion

(***************************************************************************)
(* The specification                                                       *)
(***************************************************************************)
Init ==
    /\ store = [i \in Memory \ Late |->
                  [tier |-> "hot", open |-> TRUE, fresh |-> TRUE, vec |-> "old"]]
    /\ index = "old"
    /\ query = Quiet /\ steady = {}
    /\ due = {} /\ promoting = {} /\ stranded = {}
    /\ migration = [pc |-> "off", todo |-> {}]
    /\ failures = 0 /\ promotions = 0

ReadStep == Knn \/ Count \/ Scan \/ RecordAccess \/ Return
MigrationStep == DropIndex \/ CreateIndex \/ ListHot \/ ReembedListed \/ FinishMigration

Next ==
    \/ \E kind \in {"recall", "index"}, scope \in Asked : Ask(kind, scope)
    \/ ReadStep
    \/ \E i \in Memory : \/ Insert(i) \/ Close(i) \/ Promote(i) \/ EmbedPromoted(i)
                         \/ PromotionFails(i) \/ Ages(i)
    \/ ListUnused \/ ArchiveUnused \/ SweepFails
    \/ \E force \in Forces : StartMigration(force)
    \/ MigrationStep \/ Crash \/ Connect

\* Time passes, and the scheduler runs the sweep again and again.
Fairness ==
    /\ \A i \in Memory : WF_tierVars(Ages(i))
    /\ WF_tierVars(ListUnused) /\ WF_tierVars(ArchiveUnused)

Spec == Init /\ [][Next]_tierVars
FairSpec == Spec /\ Fairness

(***************************************************************************)
(* Properties                                                              *)
(***************************************************************************)
\* A query that does not fill its rows has every memory that matched from its
\* first stage to its last, through a migration and whatever else moves, unless
\* its scope was counted as too large to scan ("a small scope buried in a large
\* out-of-scope corpus still recalls its matches").
RecallIsComplete ==
    query.pc = "answered" =>
        \/ Cardinality(query.rows) = TopK
        \/ steady \subseteq query.rows
        \/ query.over

\* A migration that ran to its end leaves no hot unit with a vector the index
\* cannot hold, whatever was stored, archived or promoted while it ran; a
\* promotion still embeds its own unit, or has failed to.
MigratedIsEmbedded ==
    MigrationAt("finished") =>
        \A i \in HotIn(store) : store[i].vec = Configured \/ i \in promoting \cup stranded

\* migrate_index.py: "a re-run after a crash mid-pass simply finishes the job".
RerunFinishesTheJob ==
    migration.pc \in {"finished", "skipped"} /\ index = Configured =>
        \A i \in HotIn(store) : store[i].vec = Configured \/ i \in promoting \cup stranded

\* What is only ever injected sinks: passive reads do not keep a unit hot, and
\* nothing else does but a recall that returns it (build_index records no
\* access: it "would inflate access_count for every memory and corrupt decay").
UnrecalledSinks ==
    \A i \in Memory :
        []<>( \/ i \notin Stored \/ store[i].tier = "archive"
              \/ query.kind = "recall" /\ i \in query.rows )

=============================================================================
