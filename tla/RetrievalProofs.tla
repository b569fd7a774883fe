-------------------------- MODULE RetrievalProofs --------------------------
(***************************************************************************)
(* Theorems about reads.  First the tiers, for all sets of memories and    *)
(* all values of the limits: a query that comes back short has everything  *)
(* that matched it throughout, and a migration of the vector index leaves  *)
(* nothing behind.  Then the searches that a working context starts.       *)
(* Last the graph explorer, for all graphs, memories and limits: what a    *)
(* request has read closes on itself, however the graph changes between    *)
(* queries.                                                                *)
(***************************************************************************)
EXTENDS MemoryTiers, ContextSearch, GraphExplorer, FiniteOrders, SequenceTheorems, TLAPS

-----------------------------------------------------------------------------
(* The nearest of a set *)

\* The k nearest are k members, or all members when there are no more than k.
LEMMA NearestCount ==
    ASSUME NEW S, IsFiniteSet(S), NEW k \in Nat, NEW rank,
           \A i \in S : rank[i] \in Nat,
           \A i, j \in S : rank[i] = rank[j] => i = j
    PROVE  /\ Nearest(S, k, rank) \subseteq S
           /\ Cardinality(Nearest(S, k, rank)) \in Nat
           /\ Cardinality(Nearest(S, k, rank)) <= k
           /\ Nearest(S, k, rank) = S \/ Cardinality(Nearest(S, k, rank)) = k
<1> DEFINE R == {p \in S \X S : rank[p[1]] < rank[p[2]]}
<1>1. \A i, j \in S : <<i, j>> \in R <=> rank[i] < rank[j]
  OBVIOUS
<1>2. Ranks(R, S)
  BY <1>1 DEF Ranks
<1>3. Nearest(S, k, rank) = Firsts(S, R, k)
  <2>1. ASSUME NEW i \in S
        PROVE  {j \in S : rank[j] < rank[i]} = {j \in S : <<j, i>> \in R}
    BY <1>1
  <2>2. QED
    BY <2>1 DEF Nearest, Firsts
<1> HIDE DEF R
<1>4. QED
  BY <1>2, <1>3, FirstsCount

\* The fallback's rank tells any two stored memories apart.
LEMMA ScoreIsRank ==
    ASSUME Stored \subseteq Memory
    PROVE  /\ \A i \in Stored : Score[i] \in Nat
           /\ \A i, j \in Stored : Score[i] = Score[j] => i = j
<1> DEFINE worst == Near[CHOOSE j \in Memory : \A k \in Memory : Near[k] <= Near[j]]
<1>1. SUFFICES ASSUME Stored # {}
               PROVE  /\ \A i \in Stored : Score[i] \in Nat
                      /\ \A i, j \in Stored : Score[i] = Score[j] => i = j
  OBVIOUS
<1>2. \A j \in Memory : Near[j] \in Nat
  BY TiersAssumption
<1>3. \E j \in Memory : \A k \in Memory : Near[k] <= Near[j]
  BY <1>1, <1>2, TiersAssumption, FarthestExists
<1>4. worst \in Nat /\ \A k \in Memory : Near[k] <= worst
  BY <1>2, <1>3
<1>5. \A i \in Stored :
        Score[i] = IF store[i].vec = Configured THEN Near[i] ELSE Near[i] + 1 + worst
  BY DEF Score
<1> HIDE DEF worst
<1>6. \A i, j \in Memory : Near[i] = Near[j] => i = j
  BY TiersAssumption
<1>7. QED
  BY <1>2, <1>4, <1>5, <1>6

-----------------------------------------------------------------------------
(* The tiers *)

TierUnit == [tier : {"hot", "archive"}, open : BOOLEAN, fresh : BOOLEAN, vec : {"old", "new"}]

StoreTyped(s) ==
    /\ DOMAIN s \subseteq Memory
    /\ s \in [DOMAIN s -> TierUnit]

TiersTypeOK ==
    /\ StoreTyped(store)
    /\ index \in {"old", "new", "none"}
    /\ query \in [pc : {"idle", "knn", "count", "scan", "answered"}, kind : {"recall", "index"},
                  scope : Asked \cup {<<>>}, rows : SUBSET Stored, todo : SUBSET Stored,
                  over : BOOLEAN]
    /\ due \subseteq Stored /\ promoting \subseteq Stored /\ stranded \subseteq Stored
    /\ migration \in [pc : {"off", "drop", "create", "list", "reembed", "finished", "skipped"},
                      todo : SUBSET Stored]

\* What matched all the while still matches; and an answer is as complete as
\* RecallIsComplete says.
QueryInv ==
    /\ query.pc # "idle" => steady \subseteq Matching(store, query.scope)
    /\ RecallIsComplete

\* While the migration re-embeds, whatever is hot at the old width is on its list,
\* or in the hands of a promotion.
EmbedInv ==
    /\ MigrationAt("reembed") =>
         \A i \in HotIn(store) :
            store[i].vec = Configured \/ i \in migration.todo \cup promoting \cup stranded
    /\ MigratedIsEmbedded

TiersInv == TiersTypeOK /\ QueryInv /\ EmbedInv

\* What a step may do to the stored units, seen from the two invariants: nobody's
\* vector goes back to the old width, nobody is hot who was not unless a promotion
\* has it, and nobody is dropped.
StoreKept ==
    /\ StoreTyped(store')
    /\ Stored \subseteq Stored'
    /\ \A i \in Stored' :
         /\ i \in Stored /\ store[i].vec = Configured => store'[i].vec = Configured
         /\ i \in Stored /\ store[i].tier = "archive" =>
              store'[i].tier = "archive" \/ i \in promoting'
         /\ i \notin Stored => store'[i].vec = Configured

\* An update of the store by one of its writers.
WriteShape ==
    \/ UNCHANGED store
    \/ \E i \in Stored, v \in BOOLEAN :
         \/ store' = [store EXCEPT ![i].fresh = v]
         \/ store' = [store EXCEPT ![i].open = v]
    \/ \E i \in Stored : store' = [store EXCEPT ![i].tier = "archive"]
    \/ \E i \in Stored : store' = [store EXCEPT ![i].vec = Configured]
    \/ \E i \in promoting' : i \in Stored /\ store' = [store EXCEPT ![i].tier = "hot"]
    \/ \E i \in Late \ Stored :
         store' = [j \in Stored \cup {i} |->
                    IF j = i THEN [tier |-> "hot", open |-> TRUE, fresh |-> TRUE,
                                   vec |-> Configured]
                    ELSE store[j]]

\* Every writer keeps the store in that way.
LEMMA WritersKeep ==
    ASSUME StoreTyped(store), WriteShape
    PROVE  StoreKept
<1> USE DEF StoreTyped, StoreKept, Stored, TierUnit, Configured
<1>1. CASE UNCHANGED store
  BY <1>1
<1>2. ASSUME NEW i \in Stored, NEW v \in BOOLEAN,
             \/ store' = [store EXCEPT ![i].fresh = v]
             \/ store' = [store EXCEPT ![i].open = v]
      PROVE  StoreKept
  BY <1>2
<1>3. ASSUME NEW i \in Stored, store' = [store EXCEPT ![i].tier = "archive"]
      PROVE  StoreKept
  BY <1>3
<1>4. ASSUME NEW i \in Stored, store' = [store EXCEPT ![i].vec = Configured]
      PROVE  StoreKept
  BY <1>4
<1>5. ASSUME NEW i \in promoting', i \in Stored, store' = [store EXCEPT ![i].tier = "hot"]
      PROVE  StoreKept
  BY <1>5
<1>6. ASSUME NEW i \in Late \ Stored,
             store' = [j \in Stored \cup {i} |->
                        IF j = i THEN [tier |-> "hot", open |-> TRUE, fresh |-> TRUE,
                                       vec |-> Configured]
                        ELSE store[j]]
      PROVE  StoreKept
  BY <1>6, TiersAssumption
<1>7. QED
  BY <1>1, <1>2, <1>3, <1>4, <1>5, <1>6 DEF WriteShape

\* Every step keeps the store as WritersKeep says.
LEMMA StepsKeep ==
    ASSUME TiersTypeOK, [Next]_tierVars
    PROVE  StoreKept
<1>1. StoreTyped(store)
  BY DEF TiersTypeOK
<1>2. WriteShape
  <2> USE DEF WriteShape, NoRead, Write
  <2>1. ASSUME NEW kind \in {"recall", "index"}, NEW scope \in Asked, Ask(kind, scope)
        PROVE  WriteShape
    BY <2>1 DEF Ask
  <2>2. CASE ReadStep
    <3>1. CASE RecordAccess
      <4>1. PICK i \in query.todo : store' = [store EXCEPT ![i].fresh = TRUE]
        BY <3>1 DEF RecordAccess
      <4>2. i \in Stored
        BY DEF TiersTypeOK
      <4>3. QED
        BY <4>1, <4>2
    <3>2. CASE Knn \/ Count \/ Scan \/ Return
      BY <3>2 DEF Knn, Count, Scan, Return
    <3>3. QED
      BY <2>2, <3>1, <3>2 DEF ReadStep
  <2>3. ASSUME NEW i \in Memory,
               \/ Insert(i) \/ Close(i) \/ Promote(i) \/ EmbedPromoted(i)
               \/ PromotionFails(i) \/ Ages(i)
        PROVE  WriteShape
    <3>1. CASE Insert(i)
      BY <3>1 DEF Insert
    <3>2. CASE Close(i)
      BY <3>2 DEF Close
    <3>3. CASE Promote(i)
      BY <3>3 DEF Promote
    <3>4. CASE EmbedPromoted(i)
      BY <3>4 DEF EmbedPromoted, Reembed, TiersTypeOK
    <3>5. CASE PromotionFails(i)
      BY <3>5 DEF PromotionFails
    <3>6. CASE Ages(i)
      BY <3>6 DEF Ages
    <3>7. QED
      BY <2>3, <3>1, <3>2, <3>3, <3>4, <3>5, <3>6
  <2>4. CASE ListUnused \/ SweepFails
    BY <2>4 DEF ListUnused, SweepFails
  <2>5. CASE ArchiveUnused
    BY <2>5 DEF ArchiveUnused, TiersTypeOK
  <2>6. ASSUME NEW force \in Forces, StartMigration(force)
        PROVE  WriteShape
    BY <2>6 DEF StartMigration
  <2>7. CASE MigrationStep
    <3>1. CASE ReembedListed
      <4>1. PICK i \in migration.todo : store' = [store EXCEPT ![i].vec = Configured]
        BY <3>1 DEF ReembedListed, Reembed
      <4>2. i \in Stored
        BY DEF TiersTypeOK
      <4>3. QED
        BY <4>1, <4>2
    <3>2. QED
      BY <2>7, <3>1 DEF MigrationStep, DropIndex, CreateIndex, ListHot, FinishMigration
  <2>8. CASE Crash \/ Connect
    BY <2>8 DEF Crash, Connect
  <2>9. CASE UNCHANGED tierVars
    BY <2>9 DEF tierVars
  <2>10. QED
    BY <2>1, <2>2, <2>3, <2>4, <2>5, <2>6, <2>7, <2>8, <2>9 DEF Next
<1>3. QED
  BY <1>1, <1>2, WritersKeep

\* ... and the types of everything.
LEMMA TierTypes ==
    ASSUME TiersTypeOK, [Next]_tierVars
    PROVE  TiersTypeOK'
<1>1. StoreTyped(store') /\ Stored \subseteq Stored'
  BY StepsKeep DEF StoreKept
<1>2. index' \in {"old", "new", "none"}
  <2> USE DEF TiersTypeOK, NoMigration, Ensure, Configured
  <2>1. CASE \E kind \in {"recall", "index"}, scope \in Asked : Ask(kind, scope)
    BY <2>1 DEF Ask
  <2>2. CASE ReadStep
    BY <2>2 DEF ReadStep, Knn, Count, Scan, RecordAccess, Return
  <2>3. CASE \E i \in Memory : \/ Insert(i) \/ Close(i) \/ Promote(i) \/ EmbedPromoted(i)
                               \/ PromotionFails(i) \/ Ages(i)
    BY <2>3 DEF Insert, Close, Promote, EmbedPromoted, PromotionFails, Ages
  <2>4. CASE ListUnused \/ ArchiveUnused \/ SweepFails
    BY <2>4 DEF ListUnused, ArchiveUnused, SweepFails
  <2>5. CASE \E force \in Forces : StartMigration(force)
    BY <2>5 DEF StartMigration
  <2>6. CASE MigrationStep \/ Crash \/ Connect
    BY <2>6 DEF MigrationStep, DropIndex, CreateIndex, ListHot, ReembedListed, FinishMigration,
                Crash, Connect
  <2>7. CASE UNCHANGED tierVars
    BY <2>7 DEF tierVars
  <2>8. QED
    BY <2>1, <2>2, <2>3, <2>4, <2>5, <2>6, <2>7 DEF Next
<1>3. /\ due' \subseteq Stored' /\ promoting' \subseteq Stored' /\ stranded' \subseteq Stored'
  <2> USE <1>1 DEF TiersTypeOK, NoSweep, NoPromotion
  <2>1. CASE \E kind \in {"recall", "index"}, scope \in Asked : Ask(kind, scope)
    BY <2>1 DEF Ask
  <2>2. CASE ReadStep
    BY <2>2 DEF ReadStep, Knn, Count, Scan, RecordAccess, Return
  <2>3. CASE \E i \in Memory : \/ Insert(i) \/ Close(i) \/ Promote(i) \/ EmbedPromoted(i)
                               \/ PromotionFails(i) \/ Ages(i)
    BY <2>3 DEF Insert, Close, Promote, EmbedPromoted, PromotionFails, Ages
  <2>4. CASE ListUnused \/ ArchiveUnused \/ SweepFails
    BY <2>4 DEF ListUnused, ArchiveUnused, SweepFails, HotIn, Stored
  <2>5. CASE \E force \in Forces : StartMigration(force)
    BY <2>5 DEF StartMigration
  <2>6. CASE MigrationStep \/ Crash \/ Connect
    BY <2>6 DEF MigrationStep, DropIndex, CreateIndex, ListHot, ReembedListed, FinishMigration,
                Crash, Connect
  <2>7. CASE UNCHANGED tierVars
    BY <2>7 DEF tierVars
  <2>8. QED
    BY <2>1, <2>2, <2>3, <2>4, <2>5, <2>6, <2>7 DEF Next
<1>4. migration' \in [pc : {"off", "drop", "create", "list", "reembed", "finished", "skipped"},
                      todo : SUBSET Stored']
  <2> USE <1>1 DEF TiersTypeOK, NoMigration, MigrationGoes
  <2>1. CASE UNCHANGED migration
    BY <2>1
  <2>2. CASE \E force \in Forces : StartMigration(force)
    BY <2>2 DEF StartMigration
  <2>3. CASE MigrationStep \/ Crash
    BY <2>3 DEF MigrationStep, DropIndex, CreateIndex, ListHot, ReembedListed, FinishMigration,
                Crash, HotIn, Stored
  <2>4. QED
    BY <2>1, <2>2, <2>3 DEF Next, Ask, ReadStep, Knn, Count, Scan, RecordAccess, Return, Insert,
         Close, Promote, EmbedPromoted, PromotionFails, Ages, ListUnused, ArchiveUnused,
         SweepFails, Connect, tierVars
<1>5. query' \in [pc : {"idle", "knn", "count", "scan", "answered"}, kind : {"recall", "index"},
                  scope : Asked \cup {<<>>}, rows : SUBSET Stored', todo : SUBSET Stored',
                  over : BOOLEAN]
  <2> USE <1>1 DEF TiersTypeOK
  <2>1. \A T, k, r : Nearest(T, k, r) \subseteq T
    BY DEF Nearest
  <2>2. Matching(store, query.scope) \subseteq Stored
    BY DEF Matching, Stored
  <2>3. ASSUME NEW rows \in SUBSET Stored, NEW over \in BOOLEAN, Answer(rows, over)
        PROVE  /\ query'.rows \in SUBSET Stored' /\ query'.todo \in SUBSET Stored'
               /\ query' = [query EXCEPT !.pc = "answered", !.rows = query'.rows,
                                        !.todo = query'.todo, !.over = over]
    BY <2>3 DEF Answer
  <2>4. CASE \E kind \in {"recall", "index"}, scope \in Asked : Ask(kind, scope)
    BY <2>4 DEF Ask, Quiet
  <2>5. CASE Knn
    <3> DEFINE indexed == {i \in Stored : store[i].vec = index}
               rows == Nearest(Nearest(indexed, KnnK, Distance)
                                 \cap Matching(store, query.scope), TopK, Distance)
    <3>1. rows \subseteq Stored
      BY <2>1, <2>2
    <3> HIDE DEF indexed
    <3>2. \/ query' = [query EXCEPT !.pc = "scan"] \/ query' = Quiet \/ Answer(rows, FALSE)
          \/ query' = [query EXCEPT !.pc = "count", !.rows = rows]
      BY <2>5 DEF Knn, indexed
    <3> HIDE DEF rows
    <3>3. CASE Answer(rows, FALSE)
      BY <2>3, <3>1, <3>3
    <3>4. CASE query' = Quiet
      BY <3>4 DEF Quiet
    <3>7. CASE query' = [query EXCEPT !.pc = "scan"]
      BY <3>7
    <3>5. CASE query' = [query EXCEPT !.pc = "count", !.rows = rows]
      BY <3>1, <3>5
    <3>6. QED
      BY <3>2, <3>3, <3>4, <3>5, <3>7
  <2>6. CASE Count
    <3>1. query.rows \in SUBSET Stored
      OBVIOUS
    <3>2. QED
      BY <2>3, <2>6, <3>1 DEF Count
  <2>7. CASE Scan
    <3>1. Nearest(Matching(store, query.scope), TopK, Score) \subseteq Stored
      BY <2>1, <2>2
    <3>2. QED
      BY <2>3, <2>7, <3>1 DEF Scan
  <2>8. CASE RecordAccess
    BY <2>8 DEF RecordAccess
  <2>9. CASE Return
    BY <2>9 DEF Return, Quiet
  <2>10. CASE UNCHANGED query
    BY <2>10
  <2>11. QED
    BY <2>4, <2>5, <2>6, <2>7, <2>8, <2>9, <2>10
    DEF Next, ReadStep, Insert, Close, Promote, EmbedPromoted, PromotionFails, Ages, ListUnused,
        ArchiveUnused, SweepFails, StartMigration, MigrationStep, DropIndex, CreateIndex, ListHot,
        ReembedListed, FinishMigration, Crash, Connect, NoRead, tierVars
<1>6. QED
  BY <1>1, <1>2, <1>3, <1>4, <1>5 DEF TiersTypeOK, StoreTyped, Stored

\* A step of a query, or anything else that happens, keeps QueryInv.
LEMMA QueryStep ==
    ASSUME TiersTypeOK, QueryInv, [Next]_tierVars
    PROVE  QueryInv'
<1> DEFINE Fixed == /\ query'.pc = query.pc /\ query'.scope = query.scope
                    /\ query'.rows = query.rows /\ query'.over = query.over
<1>1. ASSUME Fixed, steady' \subseteq steady,
             query.pc # "idle" => steady' \subseteq Matching(store', query.scope)
      PROVE  QueryInv'
  BY <1>1 DEF QueryInv, RecallIsComplete, Matching
<1>2. ASSUME Fixed, UNCHANGED <<store, steady>>
      PROVE  QueryInv'
  BY <1>1, <1>2 DEF QueryInv
<1>3. ASSUME NEW s, Fixed, Write(s)
      PROVE  QueryInv'
  <2>1. steady' \subseteq steady /\ steady' \subseteq Matching(store', query.scope)
    BY <1>3 DEF Write
  <2>2. QED
    BY <1>1, <1>3, <2>1
<1>4. ASSUME UNCHANGED <<store, steady>>, query'.pc \in {"knn", "count", "scan", "idle"},
             query'.pc # "idle" => query.pc # "idle" /\ query'.scope = query.scope
      PROVE  QueryInv'
  BY <1>4 DEF QueryInv, RecallIsComplete, Matching
<1>5. ASSUME UNCHANGED <<store, steady>>, query.pc # "idle", NEW rows, NEW over \in BOOLEAN,
             Answer(rows, over), Cardinality(rows) = TopK \/ steady \subseteq rows \/ over
      PROVE  QueryInv'
  <2>1. /\ query'.pc = "answered" /\ query'.scope = query.scope
        /\ query'.rows = rows /\ query'.over = over
    BY <1>5 DEF Answer, TiersTypeOK
  <2>2. QED
    BY <1>5, <2>1 DEF QueryInv, RecallIsComplete, Matching
<1>6. Matching(store, query.scope) \subseteq Stored /\ IsFiniteSet(Stored)
      /\ IsFiniteSet(Matching(store, query.scope)) /\ Stored \subseteq Memory
  <2>1. Stored \subseteq Memory
    BY DEF TiersTypeOK, StoreTyped, Stored
  <2>2. Matching(store, query.scope) \subseteq Stored
    BY DEF Matching, Stored
  <2>3. QED
    BY <2>1, <2>2, TiersAssumption, FS_Subset
<1>7. CASE \E kind \in {"recall", "index"}, scope \in Asked : Ask(kind, scope)
  <2>1. PICK kind \in {"recall", "index"}, scope \in Asked : Ask(kind, scope)
    BY <1>7
  <2>2. query'.pc = "knn" /\ query'.scope = scope /\ UNCHANGED store
        /\ steady' = Matching(store, scope)
    BY <2>1 DEF Ask, Quiet
  <2>3. QED
    BY <2>2 DEF QueryInv, RecallIsComplete, Matching
<1>8. CASE Knn
  <2> DEFINE indexed == {i \in Stored : store[i].vec = index}
             near == Nearest(indexed, KnnK, Distance) \cap Matching(store, query.scope)
             rows == Nearest(near, TopK, Distance)
  <2>1. IsFiniteSet(near) /\ near \subseteq Memory
    BY <1>6, FS_Subset
  <2>2. Cardinality(rows) \in Nat /\ Cardinality(rows) <= TopK
    <3> HIDE DEF near
    <3>1. \A i \in near : Distance[i] \in Nat
      BY <2>1, TiersAssumption DEF Distance
    <3>2. \A i, j \in near : Distance[i] = Distance[j] => i = j
      BY <2>1, TiersAssumption DEF Distance
    <3>3. TopK \in Nat
      BY TiersAssumption
    <3>4. QED
      BY <2>1, <3>1, <3>2, <3>3, NearestCount
  <2>3. \/ query' = [query EXCEPT !.pc = "scan"] \/ query' = Quiet
        \/ Cardinality(rows) >= TopK /\ Answer(rows, FALSE)
        \/ query' = [query EXCEPT !.pc = "count", !.rows = rows]
    BY <1>8 DEF Knn
  <2>4. UNCHANGED <<store, steady>> /\ query.pc = "knn"
    BY <1>8 DEF Knn
  <2> HIDE DEF rows
  <2>5. CASE Cardinality(rows) >= TopK /\ Answer(rows, FALSE)
    <3>1. Cardinality(rows) = TopK
      BY <2>2, <2>5, TiersAssumption
    <3>2. QED
      BY <1>5, <2>4, <2>5, <3>1
  <2>6. CASE \/ query' = [query EXCEPT !.pc = "scan"] \/ query' = Quiet
             \/ query' = [query EXCEPT !.pc = "count", !.rows = rows]
    <3>1. query'.pc \in {"scan", "count", "idle"}
          /\ (query'.pc # "idle" => query'.scope = query.scope)
      <4>1. CASE query' = [query EXCEPT !.pc = "scan"]
        BY <4>1 DEF TiersTypeOK
      <4>2. CASE query' = Quiet
        BY <4>2 DEF Quiet
      <4>3. CASE query' = [query EXCEPT !.pc = "count", !.rows = rows]
        BY <4>3 DEF TiersTypeOK
      <4>4. QED
        BY <2>6, <4>1, <4>2, <4>3
    <3>2. QED
      BY <1>4, <2>4, <3>1
  <2>7. QED
    BY <2>3, <2>5, <2>6
<1>9. CASE Count
  <2>1. UNCHANGED <<store, steady>> /\ query.pc = "count"
    BY <1>9 DEF Count
  <2>2. CASE query' = [query EXCEPT !.pc = "scan"]
    BY <1>4, <2>1, <2>2 DEF TiersTypeOK
  <2>3. CASE Answer(query.rows, TRUE)
    BY <1>5, <2>1, <2>3
  <2>4. QED
    BY <1>9, <2>2, <2>3 DEF Count
<1>10. CASE Scan
  <2> DEFINE all == Matching(store, query.scope)
             rows == Nearest(all, TopK, Score)
  <2>1. UNCHANGED <<store, steady>> /\ query.pc = "scan" /\ Answer(rows, FALSE)
    BY <1>10 DEF Scan
  <2>2. steady \subseteq all
    BY <2>1 DEF QueryInv
  <2>3. \A i \in all : Score[i] \in Nat
    BY <1>6, ScoreIsRank
  <2>4. \A i, j \in all : Score[i] = Score[j] => i = j
    BY <1>6, ScoreIsRank
  <2>5. rows = all \/ Cardinality(rows) = TopK
    <3>1. TopK \in Nat
      BY TiersAssumption
    <3> HIDE DEF all
    <3>2. QED
      BY <1>6, <2>3, <2>4, <3>1, NearestCount DEF all
  <2> HIDE DEF rows, all
  <2>6. QED
    BY <1>5, <2>1, <2>2, <2>5
<1>11. CASE RecordAccess
  <2>1. PICK i \in query.todo : /\ Write([store EXCEPT ![i].fresh = TRUE])
                                /\ query' = [query EXCEPT !.todo = query.todo \ {i}]
    BY <1>11 DEF RecordAccess
  <2>2. Fixed
    BY <2>1 DEF TiersTypeOK
  <2>3. QED
    BY <1>3, <2>1, <2>2
<1>12. CASE Return
  BY <1>4, <1>12 DEF Return, Quiet, QueryInv, RecallIsComplete
<1>13. ASSUME NEW i \in Memory,
              \/ Insert(i) \/ Close(i) \/ Promote(i) \/ EmbedPromoted(i) \/ Ages(i)
       PROVE  QueryInv'
  <2>1. UNCHANGED query /\ \E s : Write(s)
    BY <1>13 DEF Insert, Close, Promote, EmbedPromoted, Reembed, Ages
  <2>2. QED
    BY <1>3, <2>1
<1>14. CASE ArchiveUnused \/ ReembedListed
  <2>1. UNCHANGED query /\ \E s : Write(s)
    BY <1>14 DEF ArchiveUnused, ReembedListed, Reembed
  <2>2. QED
    BY <1>3, <2>1
<1>15. CASE \/ \E i \in Memory : PromotionFails(i)
            \/ ListUnused \/ SweepFails
            \/ \E force \in Forces : StartMigration(force)
            \/ DropIndex \/ CreateIndex \/ ListHot \/ FinishMigration \/ Crash \/ Connect
            \/ UNCHANGED tierVars
  <2>1. UNCHANGED <<store, query, steady>>
    BY <1>15 DEF PromotionFails, ListUnused, SweepFails, StartMigration, DropIndex, CreateIndex,
         ListHot, FinishMigration, Crash, Connect, NoRead, tierVars
  <2>2. QED
    BY <1>2, <2>1
<1>16. QED
  BY <1>7, <1>8, <1>9, <1>10, <1>11, <1>12, <1>13, <1>14, <1>15 DEF Next, ReadStep, MigrationStep

\* No step lets a hot unit at the old width slip through the migration.
LEMMA EmbedStep ==
    ASSUME TiersTypeOK, EmbedInv, [Next]_tierVars
    PROVE  EmbedInv'
<1> DEFINE Known == migration.todo \cup promoting \cup stranded
           Held == promoting \cup stranded
<1>1. StoreKept /\ StoreTyped(store)
  BY StepsKeep DEF TiersTypeOK
<1>2. ASSUME migration'.pc \notin {"reembed", "finished"}
      PROVE  EmbedInv'
  BY <1>2 DEF EmbedInv, MigratedIsEmbedded, MigrationAt
<1>3. ASSUME NEW X, \A i \in Stored' : i \in X => store'[i].vec = Configured,
             migration'.pc = migration.pc, migration.todo \ X \subseteq migration'.todo,
             Held \ X \subseteq promoting' \cup stranded'
      PROVE  EmbedInv'
  <2>1. ASSUME NEW i \in Stored', store'[i].tier = "hot",
               i \in Stored => store[i].tier = "archive"
        PROVE  store'[i].vec = Configured \/ i \in promoting'
    BY <1>1, <2>1 DEF StoreKept
  <2>2. ASSUME NEW i \in Stored', i \in Stored, store[i].tier = "hot",
               store[i].vec = Configured
        PROVE  store'[i].vec = Configured
    BY <1>1, <2>2 DEF StoreKept
  <2>3. \A i \in Stored : store[i].tier \in {"hot", "archive"}
    BY <1>1 DEF StoreTyped, TierUnit, Stored
  <2>4. ASSUME migration.pc = "reembed", NEW i \in Stored', store'[i].tier = "hot"
        PROVE  store'[i].vec = Configured \/ i \in migration'.todo \cup promoting' \cup stranded'
    BY <1>3, <2>1, <2>2, <2>3, <2>4 DEF EmbedInv, MigrationAt, HotIn, Stored
  <2>5. ASSUME migration.pc = "finished", NEW i \in Stored', store'[i].tier = "hot"
        PROVE  store'[i].vec = Configured \/ i \in promoting' \cup stranded'
    BY <1>3, <2>1, <2>2, <2>3, <2>5 DEF EmbedInv, MigratedIsEmbedded, MigrationAt, HotIn, Stored
  <2>6. QED
    BY <1>3, <2>4, <2>5 DEF EmbedInv, MigratedIsEmbedded, MigrationAt, HotIn, Stored
<1>4. ASSUME UNCHANGED migration, Held \subseteq promoting' \cup stranded'
      PROVE  EmbedInv'
  <2> DEFINE none == {j \in Stored : FALSE}
  <2>1. \A i \in Stored' : i \in none => store'[i].vec = Configured
    OBVIOUS
  <2>2. /\ migration'.pc = migration.pc /\ migration.todo \ none \subseteq migration'.todo
        /\ Held \ none \subseteq promoting' \cup stranded'
    BY <1>4
  <2> HIDE DEF none
  <2>3. QED
    BY <1>3, <2>1, <2>2
<1>5. ASSUME NEW i \in Memory, EmbedPromoted(i)
      PROVE  EmbedInv'
  <2>1. /\ store' = [store EXCEPT ![i].vec = Configured]
        /\ promoting' = promoting \ {i} /\ stranded' = stranded \ {i} /\ UNCHANGED migration
    BY <1>5 DEF EmbedPromoted, Reembed, Write, NoMigration
  <2>2. \A j \in Stored' : j \in {i} => store'[j].vec = Configured
    BY <1>1, <2>1 DEF StoreTyped, Stored, TierUnit
  <2>3. QED
    BY <1>3, <2>1, <2>2
<1>6. CASE ReembedListed
  <2>1. PICK i \in migration.todo :
          /\ store' = [store EXCEPT ![i].vec = Configured]
          /\ stranded' = stranded \ {i}
          /\ migration' = [migration EXCEPT !.todo = migration.todo \ {i}]
    BY <1>6 DEF ReembedListed, Reembed, Write
  <2>2. UNCHANGED promoting
    BY <1>6 DEF ReembedListed
  <2>3. \A j \in Stored' : j \in {i} => store'[j].vec = Configured
    BY <1>1, <2>1 DEF StoreTyped, Stored, TierUnit
  <2>4. migration'.pc = migration.pc /\ migration'.todo = migration.todo \ {i}
    BY <2>1 DEF TiersTypeOK
  <2>5. QED
    BY <1>3, <2>1, <2>2, <2>3, <2>4
<1>7. CASE ListHot
  BY <1>7 DEF ListHot, NoRead, NoPromotion, EmbedInv, MigratedIsEmbedded, MigrationAt, HotIn
<1>8. CASE FinishMigration
  <2>1. /\ migration.pc = "reembed" /\ migration.todo = {} /\ UNCHANGED <<store, promoting, stranded>>
        /\ migration' = [migration EXCEPT !.pc = "finished"]
    BY <1>8 DEF FinishMigration, MigrationAt, MigrationGoes, NoPromotion
  <2>2. migration'.pc = "finished"
    BY <2>1 DEF TiersTypeOK
  <2>3. QED
    BY <2>1, <2>2 DEF EmbedInv, MigratedIsEmbedded, MigrationAt, HotIn
<1>9. CASE (\E force \in Forces : StartMigration(force)) \/ DropIndex \/ CreateIndex \/ Crash
  <2>1. migration'.pc \notin {"reembed", "finished"}
    BY <1>9 DEF StartMigration, DropIndex, CreateIndex, Crash, MigrationGoes, TiersTypeOK
  <2>2. QED
    BY <1>2, <2>1
<1>10. ASSUME NEW i \in Memory,
              Insert(i) \/ Close(i) \/ Promote(i) \/ PromotionFails(i) \/ Ages(i)
       PROVE  EmbedInv'
  <2>1. UNCHANGED migration /\ Held \subseteq promoting' \cup stranded'
    BY <1>10 DEF Insert, Close, Promote, PromotionFails, Ages, NoMigration, NoPromotion
  <2>2. QED
    BY <1>4, <2>1
<1>11. CASE \/ \E kind \in {"recall", "index"}, scope \in Asked : Ask(kind, scope)
            \/ ReadStep \/ ListUnused \/ ArchiveUnused \/ SweepFails \/ Connect
            \/ UNCHANGED tierVars
  <2>1. UNCHANGED <<migration, promoting, stranded>>
    BY <1>11 DEF Ask, ReadStep, Knn, Count, Scan, RecordAccess, Return, ListUnused, ArchiveUnused,
         SweepFails, Connect, NoMigration, NoPromotion, tierVars
  <2>2. QED
    BY <1>4, <2>1
<1>12. QED
  BY <1>5, <1>6, <1>7, <1>8, <1>9, <1>10, <1>11 DEF Next, MigrationStep

\* The invariant holds of every behaviour of the tiers.
LEMMA TiersInvariant == Spec => []TiersInv
<1>1. Init => TiersInv
  <2> SUFFICES ASSUME Init
               PROVE  TiersInv
    OBVIOUS
  <2>1. TiersTypeOK
    BY DEF Init, TiersTypeOK, StoreTyped, TierUnit, Stored, Quiet
  <2>2. QueryInv
    BY DEF Init, QueryInv, RecallIsComplete, Quiet
  <2>3. EmbedInv
    BY DEF Init, EmbedInv, MigratedIsEmbedded, MigrationAt
  <2>4. QED
    BY <2>1, <2>2, <2>3 DEF TiersInv
<1>2. TiersInv /\ [Next]_tierVars => TiersInv'
  BY TierTypes, QueryStep, EmbedStep DEF TiersInv
<1>3. QED
  BY <1>1, <1>2, PTL DEF Spec

\* RecallIsComplete holds whatever is stored, archived, promoted, closed, aged or
\* migrated while the query is under way, and however many memories there are: a
\* query that comes back short has all that matched from its first stage to its
\* last, or its scope was counted as too large to scan.
THEOREM RecallCompletes == Spec => []RecallIsComplete
<1>1. TiersInv => RecallIsComplete
  BY DEF TiersInv, QueryInv
<1>2. QED
  BY <1>1, TiersInvariant, PTL

\* A migration of the vector index that ends has re-embedded every unit that is
\* hot, but for those that a promotion still has or could not embed.
THEOREM MigrationEmbeds == Spec => []MigratedIsEmbedded
<1>1. TiersInv => MigratedIsEmbedded
  BY DEF TiersInv, EmbedInv
<1>2. QED
  BY <1>1, TiersInvariant, PTL

-----------------------------------------------------------------------------
(* Walking the graph *)

\* What is added to a set of names in one step along the links.
Spread(names, over) == names \cup UNION {l \in over : l \cap names # {}}

\* A function that spreads the names over the links, step by step.
Spreads(f, names, over, n) ==
    f = [h \in 0..n |-> IF h = 0 THEN names
                        ELSE f[h - 1] \cup UNION {l \in over : l \cap f[h - 1] # {}}]

\* There is such a function for any number of steps,
LEMMA SpreadExists ==
    ASSUME NEW names, NEW over, NEW n \in Nat
    PROVE  \E f : Spreads(f, names, over, n)
<1> DEFINE T == {m \in Nat : \E f : Spreads(f, names, over, m)}
<1>1. 0 \in T
  <2> DEFINE f == [h \in 0..0 |-> names]
  <2>1. Spreads(f, names, over, 0)
    BY DEF Spreads
  <2>2. QED
    BY <2>1
<1>2. ASSUME NEW m \in Nat, m \in T
      PROVE  m + 1 \in T
  <2>1. PICK f : Spreads(f, names, over, m)
    BY <1>2
  <2> DEFINE g == [h \in 0..(m + 1) |-> IF h = m + 1 THEN Spread(f[m], over) ELSE f[h]]
  <2>2. \A h \in 0..m : g[h] = f[h]
    OBVIOUS
  <2>3. g[m + 1] = Spread(f[m], over)
    OBVIOUS
  <2>4. \A h \in 0..m : f[h] = IF h = 0 THEN names ELSE Spread(f[h - 1], over)
    BY <2>1 DEF Spreads, Spread
  <2>5. ASSUME NEW h \in 0..(m + 1)
        PROVE  g[h] = IF h = 0 THEN names ELSE Spread(g[h - 1], over)
    <3> HIDE DEF g
    <3>1. CASE h = m + 1
      BY <2>2, <2>3, <3>1
    <3>2. CASE h # m + 1
      <4>1. h \in 0..m /\ (h # 0 => h - 1 \in 0..m)
        BY <3>2
      <4>2. QED
        BY <2>2, <2>4, <4>1
    <3>3. QED
      BY <3>1, <3>2
  <2>6. g = [h \in 0..(m + 1) |-> g[h]]
    OBVIOUS
  <2>7. Spreads(g, names, over, m + 1)
    <3> HIDE DEF g
    <3>1. QED
      BY <2>5, <2>6 DEF Spreads, Spread
  <2>8. QED
    BY <2>7
<1>3. QED
  BY <1>1, <1>2, CountingUp

\* and any two of them agree where both are defined.
LEMMA SpreadUnique ==
    ASSUME NEW names, NEW over, NEW f, NEW g, NEW n \in Nat, NEW m \in Nat,
           Spreads(f, names, over, n), Spreads(g, names, over, m),
           NEW k \in Nat, k <= n, k <= m
    PROVE  f[k] = g[k]
<1> DEFINE T == {h \in Nat : h <= n /\ h <= m => f[h] = g[h]}
<1>1. \A h \in 0..n : f[h] = IF h = 0 THEN names ELSE Spread(f[h - 1], over)
  BY DEF Spreads, Spread
<1>2. \A h \in 0..m : g[h] = IF h = 0 THEN names ELSE Spread(g[h - 1], over)
  BY DEF Spreads, Spread
<1>3. 0 \in T
  BY <1>1, <1>2
<1>4. ASSUME NEW h \in Nat, h \in T
      PROVE  h + 1 \in T
  <2>1. SUFFICES ASSUME h + 1 <= n, h + 1 <= m
                 PROVE  f[h + 1] = g[h + 1]
    OBVIOUS
  <2>2. f[h] = g[h]
    BY <1>4, <2>1
  <2>3. f[h + 1] = Spread(f[h], over) /\ g[h + 1] = Spread(g[h], over)
    BY <1>1, <1>2, <2>1
  <2>4. QED
    BY <2>2, <2>3
<1>5. QED
  BY <1>3, <1>4, CountingUp

\* What Around computes: the names themselves, and from each number of steps to the
\* next, whatever a link adds.
LEMMA AroundSteps ==
    ASSUME NEW names, NEW over
    PROVE  /\ Around(names, over, 0) = names
           /\ \A h \in Nat : Around(names, over, h + 1) = Spread(Around(names, over, h), over)
<1> DEFINE F(n) == CHOOSE f : Spreads(f, names, over, n)
<1>1. \A n \in Nat : Spreads(F(n), names, over, n)
  BY SpreadExists
<1>2. \A n \in Nat : Around(names, over, n) = F(n)[n]
  BY DEF Around, Spreads
<1>3. \A n \in Nat : \A h \in 0..n :
        F(n)[h] = IF h = 0 THEN names ELSE Spread(F(n)[h - 1], over)
  BY <1>1 DEF Spreads, Spread
<1> HIDE DEF F
<1>4. Around(names, over, 0) = names
  BY <1>2, <1>3
<1>5. ASSUME NEW h \in Nat
      PROVE  Around(names, over, h + 1) = Spread(Around(names, over, h), over)
  <2>1. F(h + 1)[h + 1] = Spread(F(h + 1)[h], over)
    BY <1>3
  <2>2. F(h + 1)[h] = F(h)[h]
    <3>1. h + 1 \in Nat /\ h <= h /\ h <= h + 1
      OBVIOUS
    <3>2. Spreads(F(h + 1), names, over, h + 1) /\ Spreads(F(h), names, over, h)
      BY <1>1, <3>1
    <3>3. QED
      BY <3>1, <3>2, SpreadUnique
  <2>3. QED
    BY <1>2, <2>1, <2>2
<1>6. QED
  BY <1>4, <1>5

\* More links reach at least as far,
LEMMA AroundMonotone ==
    ASSUME NEW names, NEW over, NEW more, over \subseteq more
    PROVE  \A h \in Nat : Around(names, over, h) \subseteq Around(names, more, h)
<1> DEFINE T == {h \in Nat : Around(names, over, h) \subseteq Around(names, more, h)}
<1>1. 0 \in T
  BY AroundSteps
<1>2. ASSUME NEW h \in Nat, h \in T
      PROVE  h + 1 \in T
  <2>1. Spread(Around(names, over, h), over) \subseteq Spread(Around(names, more, h), more)
    BY <1>2 DEF Spread
  <2>2. /\ Around(names, over, h + 1) = Spread(Around(names, over, h), over)
        /\ Around(names, more, h + 1) = Spread(Around(names, more, h), more)
    BY AroundSteps
  <2>3. QED
    BY <2>1, <2>2
<1>3. QED
  BY <1>1, <1>2, CountingUp

\* so do more steps,
LEMMA AroundGrows ==
    ASSUME NEW names, NEW over, NEW h \in Nat, NEW k \in Nat, h <= k
    PROVE  Around(names, over, h) \subseteq Around(names, over, k)
<1> DEFINE T == {n \in Nat : h <= n => Around(names, over, h) \subseteq Around(names, over, n)}
<1>1. 0 \in T
  BY SMT
<1>2. ASSUME NEW n \in Nat, n \in T
      PROVE  n + 1 \in T
  <2>1. Around(names, over, n) \subseteq Around(names, over, n + 1)
    <3>1. Around(names, over, n + 1) = Spread(Around(names, over, n), over)
      BY AroundSteps
    <3>2. QED
      BY <3>1 DEF Spread
  <2>2. CASE h <= n
    BY <1>2, <2>1, <2>2
  <2>3. CASE h = n + 1
    BY <2>3
  <2>4. CASE ~(h <= n + 1)
    BY <2>4
  <2>5. QED
    BY <2>2, <2>3, <2>4
<1>3. k \in T
  BY <1>1, <1>2, CountingUp
<1>4. QED
  BY <1>3

\* and no number of steps leaves a set that has the names and is closed under the
\* links.
LEMMA AroundStaysInside ==
    ASSUME NEW names, NEW over, NEW S, names \subseteq S,
           \A l \in over, n \in S : n \in l => l \subseteq S
    PROVE  \A h \in Nat : Around(names, over, h) \subseteq S
<1> DEFINE T == {h \in Nat : Around(names, over, h) \subseteq S}
<1>1. 0 \in T
  BY AroundSteps
<1>2. ASSUME NEW h \in Nat, h \in T
      PROVE  h + 1 \in T
  <2>1. Spread(Around(names, over, h), over) \subseteq S
    BY <1>2 DEF Spread
  <2>2. Around(names, over, h + 1) = Spread(Around(names, over, h), over)
    BY AroundSteps
  <2>3. QED
    BY <2>1, <2>2
<1>3. QED
  BY <1>1, <1>2, CountingUp

-----------------------------------------------------------------------------
(* The walk of a search *)

\* What the links lead to from the entities of the context: those that have been
\* there at any time since the search began, and those that were there all the time.
FarFrom(h) == Around(search.ctx.entities, atAsk.links, h)
NearTo(h) == Around(search.ctx.entities, atAsk.kept, h)

\* The variables are records with the fields that the actions use.
ContextShape ==
    /\ search = [pc |-> search.pc, kind |-> search.kind, ctx |-> search.ctx,
                 seen |-> search.seen, frontier |-> search.frontier, next |-> search.next,
                 hop |-> search.hop, hits |-> search.hits, out |-> search.out,
                 index |-> search.index]
    /\ atAsk = [live |-> atAsk.live, dismissed |-> atAsk.dismissed, links |-> atAsk.links,
                kept |-> atAsk.kept]
    /\ search.pc \in {"idle", "expand", "graph", "vector", "check", "index", "answered"}

\* The walk is between what was always reachable and what ever was, hop by hop: what
\* is seen and no longer waits has had its neighbours looked up.
WalkInv ==
    search.pc # "idle" =>
        /\ links \subseteq atAsk.links /\ atAsk.kept \subseteq links
        /\ live \subseteq atAsk.live /\ atAsk.dismissed \subseteq dismissed
        /\ search.ctx.entities \subseteq search.seen
        /\ search.pc = "expand" =>
             /\ search.ctx.entities # {}
             /\ search.hop \in Nat /\ search.hop + 1 <= Hops
             /\ search.frontier \cup search.next \subseteq search.seen
             /\ NearTo(search.hop) \subseteq search.seen \ search.next
             /\ search.frontier \subseteq FarFrom(search.hop)
             /\ search.seen \subseteq FarFrom(search.hop + 1)
             /\ \A l \in atAsk.kept, n \in search.seen \ (search.frontier \cup search.next) :
                  n \in l => l \subseteq search.seen
        /\ search.pc # "expand" =>
             /\ search.seen \subseteq FarFrom(Hops)
             /\ search.ctx.entities # {} => NearTo(Hops) \subseteq search.seen

\* The variables keep their shape.
LEMMA ShapeStep ==
    ASSUME ContextShape, [ContextNext]_contextVars
    PROVE  ContextShape'
<1> USE DEF ContextShape
<1>1. ASSUME NEW kind, NEW ctx, AskContext(kind, ctx)
      PROVE  ContextShape'
  BY <1>1 DEF AskContext, NoSearch
<1>2. CASE ExpandOne
  BY <1>2 DEF ExpandOne
<1>3. CASE EndHop
  BY <1>3 DEF EndHop
<1>4. CASE GraphCandidates
  BY <1>4 DEF GraphCandidates
<1>5. CASE VectorCandidates
  BY <1>5 DEF VectorCandidates
<1>6. CASE CheckHit
  BY <1>6 DEF CheckHit
<1>7. CASE EndCheck
  BY <1>7 DEF EndCheck
<1>8. CASE BuildIndex
  BY <1>8 DEF BuildIndex
<1>9. CASE ReturnContext
  BY <1>9 DEF ReturnContext, NoSearch
<1>10. ASSUME NEW i, NEW ctx, CloseIdea(i) \/ Dismiss(i, ctx)
       PROVE  ContextShape'
  BY <1>10 DEF CloseIdea, Dismiss
<1>11. ASSUME NEW l, Link(l)
       PROVE  ContextShape'
  BY <1>11 DEF Link
<1>12. CASE UNCHANGED contextVars
  BY <1>12 DEF contextVars
<1>13. QED
  BY <1>1, <1>2, <1>3, <1>4, <1>5, <1>6, <1>7, <1>8, <1>9, <1>10, <1>11, <1>12
  DEF ContextNext, SearchStep

\* Every step keeps the walk between its bounds.
LEMMA WalkStep ==
    ASSUME ContextShape, WalkInv, [ContextNext]_contextVars
    PROVE  WalkInv'
<1>1. Hops \in Nat
  BY ContextAssumption
<1>2. ASSUME NEW kind, NEW ctx, AskContext(kind, ctx)
      PROVE  WalkInv'
  <2>1. /\ search' = [NoSearch EXCEPT !.kind = kind, !.ctx = ctx, !.seen = ctx.entities,
                              !.frontier = ctx.entities,
                              !.pc = IF ctx.entities # {} /\ Hops > 0 THEN "expand"
                                     ELSE IF kind # "related" THEN "index"
                                     ELSE IF ctx.entities = {} THEN "vector" ELSE "graph"]
        /\ atAsk' = [live |-> live, dismissed |-> dismissed, links |-> links, kept |-> links]
        /\ UNCHANGED <<live, links, dismissed, events>>
    BY <1>2 DEF AskContext
  <2>2. /\ search'.ctx = ctx /\ search'.seen = ctx.entities /\ search'.frontier = ctx.entities
        /\ search'.next = {} /\ search'.hop = 0
        /\ search'.pc = "expand" <=> ctx.entities # {} /\ Hops > 0
    BY <2>1 DEF NoSearch
  <2>3. /\ atAsk'.live = live /\ atAsk'.dismissed = dismissed
        /\ atAsk'.links = links /\ atAsk'.kept = links
    BY <2>1
  <2>4. Around(ctx.entities, links, 0) = ctx.entities
    BY AroundSteps
  <2>5. ctx.entities \subseteq Around(ctx.entities, links, 1)
    BY <2>4, AroundGrows
  <2>6. CASE ctx.entities # {} /\ Hops > 0
    BY <1>1, <2>1, <2>2, <2>3, <2>4, <2>5, <2>6 DEF WalkInv, FarFrom, NearTo
  <2>7. CASE ctx.entities = {}
    BY <1>1, <2>1, <2>2, <2>3, <2>7 DEF WalkInv, FarFrom, NearTo
  <2>8. CASE ctx.entities # {} /\ Hops = 0
    BY <1>1, <2>1, <2>2, <2>3, <2>4, <2>8 DEF WalkInv, FarFrom, NearTo
  <2>9. QED
    BY <1>1, <2>6, <2>7, <2>8
<1>3. CASE ExpandOne
  <2>1. search.pc = "expand"
    BY <1>3 DEF ExpandOne
  <2>2. PICK name \in search.frontier :
          LET found == Neighbours({name}) \ search.seen
          IN  search' = [search EXCEPT !.frontier = search.frontier \ {name},
                                       !.seen = search.seen \cup found,
                                       !.next = search.next \cup found]
    BY <1>3 DEF ExpandOne
  <2> DEFINE found == Neighbours({name}) \ search.seen
  <2>3. /\ search'.pc = "expand" /\ search'.ctx = search.ctx /\ search'.hop = search.hop
        /\ search'.frontier = search.frontier \ {name}
        /\ search'.seen = search.seen \cup found /\ search'.next = search.next \cup found
    BY <2>1, <2>2 DEF ContextShape
  <2>4. UNCHANGED <<live, links, dismissed, atAsk>>
    BY <1>3 DEF ExpandOne
  <2>5. FarFrom(search.hop + 1)
          = Spread(FarFrom(search.hop), atAsk.links)
    BY <2>1, AroundSteps DEF FarFrom, WalkInv
  <2>6. found \subseteq FarFrom(search.hop + 1)
    <3>1. name \in FarFrom(search.hop)
      BY <2>1, <2>2 DEF WalkInv
    <3>2. Neighbours({name}) \subseteq Spread(FarFrom(search.hop), atAsk.links)
      BY <2>1, <3>1 DEF WalkInv, Neighbours, Spread
    <3>3. QED
      BY <2>5, <3>2
  <2>8. \A l \in links : name \in l => l \subseteq search'.seen
    BY <2>3 DEF Neighbours
  <2>9. ASSUME NEW l \in atAsk.kept,
               NEW n \in search'.seen \ (search'.frontier \cup search'.next), n \in l
        PROVE  l \subseteq search'.seen
    <3> HIDE DEF found
    <3>1. l \in links
      BY <2>1 DEF WalkInv
    <3>2. CASE n = name
      BY <2>8, <2>9, <3>1, <3>2
    <3>3. CASE n # name
      <4>1. n \in search.seen \ (search.frontier \cup search.next)
        BY <2>3, <3>3
      <4>2. l \subseteq search.seen
        BY <2>1, <2>9, <4>1 DEF WalkInv
      <4>3. QED
        BY <2>3, <4>2
    <3>4. QED
      BY <3>2, <3>3
  <2>10. found \cap search.seen = {}
    OBVIOUS
  <2> HIDE DEF found
  <2>11. QED
    BY <2>1, <2>2, <2>3, <2>4, <2>6, <2>9, <2>10 DEF WalkInv, FarFrom, NearTo
<1>4. CASE EndHop
  <2>1. search.pc = "expand" /\ search.frontier = {} /\ UNCHANGED <<live, links, dismissed, atAsk>>
    BY <1>4 DEF EndHop
  <2>2. search.seen \subseteq FarFrom(search.hop + 1) /\ search.hop \in Nat
        /\ search.hop + 1 <= Hops
    BY <2>1 DEF WalkInv
  <2>3. \A l \in atAsk.kept, n \in search.seen \ search.next : n \in l => l \subseteq search.seen
    BY <2>1 DEF WalkInv
  <2>4. NearTo(search.hop + 1) \subseteq search.seen
    <3>1. NearTo(search.hop + 1) = Spread(NearTo(search.hop), atAsk.kept)
      BY <2>2, AroundSteps DEF NearTo
    <3>2. NearTo(search.hop) \subseteq search.seen \ search.next
      BY <2>1 DEF WalkInv
    <3>3. QED
      BY <2>3, <3>1, <3>2 DEF Spread
  <2>5. CASE search.next # {} /\ search.hop + 1 < Hops
    <3>1. search' = [search EXCEPT !.hop = search.hop + 1, !.frontier = search.next, !.next = {}]
      BY <1>4, <2>5 DEF EndHop
    <3>2. /\ search'.pc = "expand" /\ search'.ctx = search.ctx /\ search'.seen = search.seen
          /\ search'.hop = search.hop + 1 /\ search'.frontier = search.next /\ search'.next = {}
      BY <2>1, <3>1 DEF ContextShape
    <3>3. FarFrom(search.hop + 1) \subseteq FarFrom(search.hop + 1 + 1)
      BY <2>2, AroundGrows DEF FarFrom
    <3>4. search.hop + 1 \in Nat /\ search.hop + 1 + 1 <= Hops
      BY <1>1, <2>2, <2>5
    <3>5. search.next \subseteq search.seen
      BY <2>1 DEF WalkInv
    <3>6. QED
      BY <2>1, <2>2, <2>3, <2>4, <3>2, <3>3, <3>4, <3>5 DEF WalkInv, FarFrom, NearTo
  <2>6. CASE ~(search.next # {} /\ search.hop + 1 < Hops)
    <3>1. search' = [search EXCEPT !.pc = IF search.kind = "related" THEN "graph" ELSE "index",
                                   !.next = {}]
      BY <1>4, <2>6 DEF EndHop
    <3>2. search'.pc \in {"graph", "index"} /\ search'.ctx = search.ctx /\ search'.seen = search.seen
      BY <3>1 DEF ContextShape
    <3>3. FarFrom(search.hop + 1) \subseteq FarFrom(Hops)
      BY <1>1, <2>2, AroundGrows DEF FarFrom
    <3>4. NearTo(Hops) \subseteq search.seen
      <4>1. CASE search.next = {}
        <5>1. search.ctx.entities \subseteq search.seen
          BY <2>1 DEF WalkInv
        <5>2. \A l \in atAsk.kept, n \in search.seen : n \in l => l \subseteq search.seen
          BY <2>3, <4>1
        <5>3. QED
          BY <1>1, <5>1, <5>2, AroundStaysInside DEF NearTo
      <4>2. CASE search.next # {}
        <5>1. search.hop + 1 = Hops
          BY <1>1, <2>2, <2>6, <4>2
        <5>2. QED
          BY <2>4, <5>1
      <4>3. QED
        BY <4>1, <4>2
    <3>5. search'.pc # "expand" /\ search'.pc # "idle"
      BY <3>2
    <3>6. QED
      BY <2>1, <2>2, <3>2, <3>3, <3>4, <3>5 DEF WalkInv, FarFrom, NearTo
  <2>7. QED
    BY <2>5, <2>6
<1>5. ASSUME search.pc \notin {"idle", "expand"}, search'.pc \notin {"idle", "expand"},
             search'.ctx = search.ctx, search'.seen = search.seen,
             UNCHANGED <<live, links, dismissed, atAsk>>
      PROVE  WalkInv'
  BY <1>5 DEF WalkInv, FarFrom, NearTo
<1>6. CASE GraphCandidates
  BY <1>5, <1>6 DEF GraphCandidates, ContextShape
<1>7. CASE VectorCandidates
  BY <1>5, <1>7 DEF VectorCandidates, ContextShape
<1>8. CASE CheckHit
  BY <1>5, <1>8 DEF CheckHit, ContextShape
<1>9. CASE EndCheck
  BY <1>5, <1>9 DEF EndCheck, ContextShape
<1>10. CASE BuildIndex
  BY <1>5, <1>10 DEF BuildIndex, ContextShape
<1>11. CASE ReturnContext
  BY <1>11 DEF ReturnContext, NoSearch, WalkInv
<1>12. ASSUME NEW i, NEW ctx, CloseIdea(i) \/ Dismiss(i, ctx)
       PROVE  WalkInv'
  <2>1. /\ UNCHANGED <<links, search, atAsk>>
        /\ live' \subseteq live /\ dismissed \subseteq dismissed'
    BY <1>12 DEF CloseIdea, Dismiss
  <2>2. QED
    BY <2>1 DEF WalkInv, FarFrom, NearTo
<1>13. ASSUME NEW l, Link(l)
       PROVE  WalkInv'
  <2>1. /\ UNCHANGED <<live, dismissed, search>>
        /\ atAsk' = [atAsk EXCEPT !.links = atAsk.links \cup links', !.kept = atAsk.kept \cap links']
    BY <1>13 DEF Link
  <2>2. /\ atAsk'.live = atAsk.live /\ atAsk'.dismissed = atAsk.dismissed
        /\ atAsk'.links = atAsk.links \cup links' /\ atAsk'.kept = atAsk.kept \cap links'
    BY <2>1 DEF ContextShape
  <2>3. \A h \in Nat : FarFrom(h) \subseteq Around(search.ctx.entities, atAsk'.links, h)
    BY <2>2, AroundMonotone DEF FarFrom
  <2>4. \A h \in Nat : Around(search.ctx.entities, atAsk'.kept, h) \subseteq NearTo(h)
    <3>1. atAsk'.kept \subseteq atAsk.kept
      BY <2>2
    <3>2. QED
      BY <3>1, AroundMonotone DEF NearTo
  <2>5. links' \subseteq atAsk'.links /\ atAsk'.kept \subseteq links' /\ atAsk'.kept \subseteq atAsk.kept
    BY <2>2
  <2>6. CASE search.pc = "expand"
    <3>1. search.hop \in Nat /\ search.hop + 1 \in Nat
      BY <2>6 DEF WalkInv
    <3>2. QED
      BY <2>1, <2>2, <2>3, <2>4, <2>5, <2>6, <3>1 DEF WalkInv, FarFrom, NearTo
  <2>7. CASE search.pc # "expand"
    BY <1>1, <2>1, <2>2, <2>3, <2>4, <2>5, <2>7 DEF WalkInv, FarFrom, NearTo
  <2>8. QED
    BY <2>6, <2>7
<1>14. CASE UNCHANGED contextVars
  BY <1>14 DEF contextVars, WalkInv, FarFrom, NearTo
<1>15. QED
  BY <1>2, <1>3, <1>4, <1>6, <1>7, <1>8, <1>9, <1>10, <1>11, <1>12, <1>13, <1>14
  DEF ContextNext, SearchStep

-----------------------------------------------------------------------------
(* What a search brings up *)

\* The scopes of a context are sequences, of whatever segments.
SeqContext(ctx) == \E S : \A s \in ctx.scopes \cup {ctx.project} : s \in Seq(S)

Surfaces(h) == h.score >= Threshold

\* A hit that may be suggested in the context of the search.
HitOK(h) ==
    /\ h.idea \in atAsk.live \cap CrossRefCandidates /\ Visible(h.idea, search.ctx)
    /\ h.graph => OnTopic(h.idea, search.ctx, atAsk.links)
    /\ ~ h.graph => h.score = Likeness[h.idea]

\* An index that has all it must have, nothing it must not, and the form that
\* render_index gave it.
IndexOK ==
    LET globals == Cardinality({i \in search.out : Place[i] = <<>>})
    IN  /\ \A i \in search.out : i \in atAsk.live /\ Visible(i, search.ctx)
                                 /\ OnTopic(i, search.ctx, atAsk.links)
        /\ \A i \in live : Place[i] \in Composed(search.ctx) /\ OnTopic(i, search.ctx, atAsk.kept)
                             => i \in search.out
        /\ search.index = Rendered(IF globals < MaxSnippets THEN globals ELSE MaxSnippets,
                                   Cardinality(search.out \cap Seeds), Budget(search.kind))

\* What was found so far: graph hits that none of them surfaces before the fallback
\* runs, and of what is let through nothing that was dismissed before.
SuggestInv ==
    /\ live \subseteq Idea
    /\ search.pc # "idle" =>
        /\ SeqContext(search.ctx) /\ atAsk.live \subseteq Idea
        /\ search.kind \in {"related", "session start", "mid session"}
        /\ search.pc \in {"graph", "vector", "check"} => search.kind = "related"
        /\ search.pc = "index" => search.kind # "related"
        /\ search.pc = "graph" => search.ctx.entities # {}
        /\ search.pc \in {"expand", "graph", "index"} => search.hits = {} /\ search.out = {}
        /\ search.pc = "vector" =>
             search.out = {} /\ \A h \in search.hits : HitOK(h) /\ h.graph /\ ~ Surfaces(h)
        /\ search.pc \in {"check", "answered"} /\ search.kind = "related" =>
             /\ \A h \in search.hits \cup search.out : HitOK(h)
             /\ \A h \in search.out : /\ Surfaces(h)
                                      /\ <<h.idea, ContextKey(search.ctx)>> \notin atAsk.dismissed
             /\ \/ \A h \in search.hits \cup search.out : h.graph
                \/ \A h \in search.hits \cup search.out : h.graph => ~ Surfaces(h)
        /\ search.pc = "answered" /\ search.kind # "related" => IndexOK

\* What the query calls composed is visible, and the other way round.
LEMMA ComposedIsVisible ==
    ASSUME NEW ctx, SeqContext(ctx), NEW i, Place[i] \in Composed(ctx)
    PROVE  Visible(i, ctx)
<1>1. PICK S : \A s \in ctx.scopes \cup {ctx.project} : s \in Seq(S)
  BY DEF SeqContext
<1>2. PICK s \in ctx.scopes \cup {ctx.project} : \E k \in 0..Len(s) : Place[i] = SubSeq(s, 1, k)
  BY DEF Composed
<1>3. PICK k \in 0..Len(s) : Place[i] = SubSeq(s, 1, k)
  BY <1>2
<1>4. s \in Seq(S) /\ Len(s) \in Nat
  BY <1>1, LenProperties
<1>5. Len(Place[i]) = k
  BY <1>3, <1>4, SubSeqProperties
<1>6. QED
  BY <1>2, <1>3, <1>4, <1>5 DEF Visible

\* A row of the scoped query is open, visible, and on one of the entities.
LEMMA ReachIsVisible ==
    ASSUME NEW ctx, SeqContext(ctx), NEW names, NEW i \in InReach(ctx, names)
    PROVE  /\ i \in live /\ Visible(i, ctx)
           /\ names # {} => Tags[i] \cap names # {}
  BY ComposedIsVisible DEF InReach

\* What is on topic stays on topic when there are more links.
LEMMA TopicMonotone ==
    ASSUME NEW i, NEW ctx, NEW over, NEW more, over \subseteq more, OnTopic(i, ctx, over)
    PROVE  OnTopic(i, ctx, more)
<1>1. Around(ctx.entities, over, Hops) \subseteq Around(ctx.entities, more, Hops)
  BY AroundMonotone, ContextAssumption
<1>2. QED
  BY <1>1 DEF OnTopic

\* The contexts that searches are started for have scopes that are sequences.
LEMMA ContextsAreSeq ==
    /\ \A ctx \in Contexts : SeqContext(ctx)
    /\ \A w \in Workspaces : /\ SeqContext(HookContext(w)) /\ SeqContext(PromptContext(w))
                             /\ SeqContext(DetectedContext(w))
<1>1. ASSUME NEW ctx \in Contexts
      PROVE  SeqContext(ctx)
  BY ContextAssumption DEF SeqContext
<1>2. ASSUME NEW x, NEW ctx, ctx.project = <<x>>, ctx.scopes = {<<>>, <<x>>}
      PROVE  SeqContext(ctx)
  <2>1. <<x>> \in Seq({x}) /\ <<>> \in Seq({x})
    BY EmptySeq
  <2>2. QED
    BY <1>2, <2>1 DEF SeqContext
<1>3. ASSUME NEW w \in Workspaces
      PROVE  /\ SeqContext(HookContext(w)) /\ SeqContext(PromptContext(w))
             /\ SeqContext(DetectedContext(w))
  <2>1. SeqContext(HookContext(w))
    <3>1. HookContext(w).project = <<ProjectOf(w.path)>>
          /\ HookContext(w).scopes = {<<>>, <<ProjectOf(w.path)>>}
      BY DEF HookContext
    <3>2. QED
      BY <1>2, <3>1
  <2>2. SeqContext(PromptContext(w))
    <3>1. PromptContext(w).project = <<ProjectOf(w.path)>>
          /\ PromptContext(w).scopes = {<<>>, <<ProjectOf(w.path)>>}
      BY DEF HookContext, PromptContext
    <3>2. QED
      BY <1>2, <3>1
  <2>3. SeqContext(DetectedContext(w))
    <3> DEFINE x == IF w.remote # "" THEN w.remote ELSE w.path[Len(w.path)]
    <3>1. DetectedContext(w).project = <<x>> /\ DetectedContext(w).scopes = {<<>>, <<x>>}
      BY DEF DetectedContext
    <3> HIDE DEF x
    <3>2. QED
      BY <1>2, <3>1
  <2>4. QED
    BY <2>1, <2>2, <2>3
<1>4. QED
  BY <1>1, <1>3

\* Every step of a search, and whatever happens meanwhile, keeps what was found good.
LEMMA SuggestStep ==
    ASSUME ContextShape, WalkInv, SuggestInv, [ContextNext]_contextVars
    PROVE  SuggestInv'
<1> DEFINE Same == UNCHANGED <<live, links, dismissed, atAsk>>
           Keeps == search'.ctx = search.ctx /\ search'.kind = search.kind
<1>1. ASSUME NEW kind \in {"related", "session start", "mid session"}, NEW ctx, SeqContext(ctx),
             AskContext(kind, ctx)
      PROVE  SuggestInv'
  <2>1. /\ search' = [NoSearch EXCEPT !.kind = kind, !.ctx = ctx, !.seen = ctx.entities,
                              !.frontier = ctx.entities,
                              !.pc = IF ctx.entities # {} /\ Hops > 0 THEN "expand"
                                     ELSE IF kind # "related" THEN "index"
                                     ELSE IF ctx.entities = {} THEN "vector" ELSE "graph"]
        /\ atAsk' = [live |-> live, dismissed |-> dismissed, links |-> links, kept |-> links]
        /\ UNCHANGED live
    BY <1>1 DEF AskContext
  <2>2. /\ search'.ctx = ctx /\ search'.kind = kind /\ search'.hits = {} /\ search'.out = {}
        /\ search'.pc = IF ctx.entities # {} /\ Hops > 0 THEN "expand"
                        ELSE IF kind # "related" THEN "index"
                        ELSE IF ctx.entities = {} THEN "vector" ELSE "graph"
        /\ atAsk'.live = live
    BY <2>1 DEF NoSearch
  <2>3. /\ search'.pc \in {"expand", "graph", "vector", "index"}
        /\ search'.pc \in {"graph", "vector"} => kind = "related"
        /\ search'.pc = "index" => kind # "related"
        /\ search'.pc = "graph" => ctx.entities # {}
    BY <2>2
  <2>4. live' = live /\ live \subseteq Idea
    BY <2>1 DEF SuggestInv
  <2>5. SeqContext(search'.ctx) /\ search'.kind \in {"related", "session start", "mid session"}
    BY <1>1, <2>2
  <2>6. QED
    BY <2>2, <2>3, <2>4, <2>5 DEF SuggestInv
<1>2. CASE ExpandOne
  <2>1. /\ Same /\ Keeps /\ search.pc = "expand" /\ search'.pc = "expand"
        /\ search'.hits = search.hits /\ search'.out = search.out
    BY <1>2 DEF ExpandOne, ContextShape
  <2>2. QED
    BY <2>1 DEF SuggestInv
<1>3. CASE EndHop
  <2>1. /\ Same /\ Keeps /\ search.pc = "expand"
        /\ search'.hits = search.hits /\ search'.out = search.out
        /\ search'.pc \in {"expand", IF search.kind = "related" THEN "graph" ELSE "index"}
    BY <1>3 DEF EndHop, ContextShape
  <2>2. search.ctx.entities # {}
    BY <2>1 DEF WalkInv
  <2>3. QED
    BY <2>1, <2>2 DEF SuggestInv
<1>4. CASE GraphCandidates
  <2> DEFINE reached == InReach(search.ctx, search.seen) \cap CrossRefCandidates
             hits == {[idea |-> i, score |-> Relevance(i, search.seen), graph |-> TRUE] :
                        i \in reached}
  <2>1. /\ Same /\ Keeps /\ search.pc = "graph" /\ search'.hits = hits
        /\ search'.out = search.out
        /\ search'.pc = IF Surfacing(hits) = {} THEN "vector" ELSE "check"
    <3>1. /\ Same /\ search.pc = "graph"
          /\ search' = [search EXCEPT !.hits = hits,
                                      !.pc = IF Surfacing(hits) = {} THEN "vector" ELSE "check"]
      BY <1>4 DEF GraphCandidates
    <3> HIDE DEF hits
    <3>2. QED
      BY <3>1 DEF ContextShape
  <2>2. search.ctx.entities # {} /\ search.ctx.entities \subseteq search.seen
        /\ search.seen \subseteq FarFrom(Hops) /\ live \subseteq atAsk.live
        /\ SeqContext(search.ctx) /\ search.out = {} /\ search.kind = "related"
    BY <2>1 DEF SuggestInv, WalkInv
  <2>3. \A h \in hits : HitOK(h) /\ h.graph
    <3>1. TAKE h \in hits
    <3>2. PICK i \in reached : h = [idea |-> i, score |-> Relevance(i, search.seen), graph |-> TRUE]
      OBVIOUS
    <3>3. h.idea = i /\ h.graph
      BY <3>2
    <3>4. i \in live /\ Visible(i, search.ctx) /\ Tags[i] \cap search.seen # {}
      BY <2>2, ReachIsVisible
    <3>5. OnTopic(i, search.ctx, atAsk.links)
      BY <2>2, <3>4 DEF OnTopic, FarFrom
    <3>6. QED
      BY <2>2, <3>3, <3>4, <3>5 DEF HitOK
  <2> HIDE DEF hits
  <2>4. \A h \in hits : HitOK(h)'
    BY <2>1, <2>3 DEF HitOK
  <2>5. CASE Surfacing(hits) = {}
    <3>1. \A h \in hits : ~ Surfaces(h)
      BY <2>5 DEF Surfacing, Surfaces
    <3>2. QED
      BY <2>1, <2>2, <2>3, <2>4, <2>5, <3>1 DEF SuggestInv
  <2>6. CASE Surfacing(hits) # {}
    BY <2>1, <2>2, <2>3, <2>4, <2>6 DEF SuggestInv
  <2>7. QED
    BY <2>5, <2>6
<1>5. CASE VectorCandidates
  <2> DEFINE near == {i \in (InReach(search.ctx, {}) \cap CrossRefCandidates)
                              \ {h.idea : h \in search.hits} :
                        search.ctx.text # "" /\ Likeness[i] >= Fallback}
             more == {[idea |-> i, score |-> Likeness[i], graph |-> FALSE] : i \in near}
  <2>1. /\ Same /\ Keeps /\ search.pc = "vector" /\ search'.hits = search.hits \cup more
        /\ search'.out = search.out /\ search'.pc = "check"
    <3>1. /\ Same /\ search.pc = "vector"
          /\ search' = [search EXCEPT !.hits = search.hits \cup more, !.pc = "check"]
      BY <1>5 DEF VectorCandidates
    <3> HIDE DEF more
    <3>2. QED
      BY <3>1 DEF ContextShape
  <2>2. /\ live \subseteq atAsk.live /\ SeqContext(search.ctx) /\ search.out = {}
        /\ search.kind = "related" /\ \A h \in search.hits : HitOK(h) /\ h.graph /\ ~ Surfaces(h)
    BY <2>1 DEF SuggestInv, WalkInv
  <2>3. \A h \in more : HitOK(h) /\ ~ h.graph
    <3>1. TAKE h \in more
    <3>2. PICK i \in near : h = [idea |-> i, score |-> Likeness[i], graph |-> FALSE]
      OBVIOUS
    <3>3. h.idea = i /\ ~ h.graph /\ h.score = Likeness[i]
      BY <3>2
    <3>4. i \in live /\ Visible(i, search.ctx) /\ i \in CrossRefCandidates
      BY <2>2, ReachIsVisible
    <3>5. QED
      BY <2>2, <3>3, <3>4 DEF HitOK
  <2> HIDE DEF more
  <2>4. \A h \in search.hits \cup more : HitOK(h)'
    BY <2>1, <2>2, <2>3 DEF HitOK
  <2>5. QED
    BY <2>1, <2>2, <2>3, <2>4 DEF SuggestInv
<1>6. CASE CheckHit
  <2>1. PICK h \in Surfacing(search.hits) :
          search' = [search EXCEPT !.hits = search.hits \ {h},
                       !.out = IF <<h.idea, ContextKey(search.ctx)>> \in dismissed THEN search.out
                               ELSE search.out \cup {h}]
    BY <1>6 DEF CheckHit
  <2>2. Same /\ search.pc = "check"
    BY <1>6 DEF CheckHit
  <2>3. /\ Keeps /\ search'.pc = "check" /\ search'.hits = search.hits \ {h}
        /\ search'.out = IF <<h.idea, ContextKey(search.ctx)>> \in dismissed THEN search.out
                         ELSE search.out \cup {h}
    BY <2>1, <2>2 DEF ContextShape
  <2>4. h \in search.hits /\ Surfaces(h)
    BY DEF Surfacing, Surfaces
  <2>5. atAsk.dismissed \subseteq dismissed
    BY <2>2 DEF WalkInv
  <2>6. \A g \in search'.hits \cup search'.out : g \in search.hits \cup search.out
    BY <2>3, <2>4
  <2>7. \A g \in search.hits \cup search.out : HitOK(g)'
    BY <2>2, <2>3 DEF SuggestInv, HitOK
  <2>8. \A g \in search'.out : /\ Surfaces(g)
                               /\ <<g.idea, ContextKey(search.ctx)>> \notin atAsk.dismissed
    BY <2>2, <2>3, <2>4, <2>5 DEF SuggestInv
  <2>9. QED
    BY <2>2, <2>3, <2>6, <2>7, <2>8 DEF SuggestInv
<1>7. CASE EndCheck
  <2>1. /\ Same /\ Keeps /\ search.pc = "check" /\ search'.pc = "answered"
        /\ search'.hits = search.hits /\ search'.out = search.out
    BY <1>7 DEF EndCheck, ContextShape
  <2>2. \A g \in search.hits \cup search.out : HitOK(g)'
    BY <2>1 DEF SuggestInv, HitOK
  <2>3. QED
    BY <2>1, <2>2 DEF SuggestInv
<1>8. CASE BuildIndex
  <2> DEFINE rows == InReach(search.ctx, search.seen)
             globals == Cardinality({i \in rows : Place[i] = <<>>})
             form == Rendered(IF globals < MaxSnippets THEN globals ELSE MaxSnippets,
                              Cardinality(rows \cap Seeds), Budget(search.kind))
  <2>1. /\ Same /\ Keeps /\ search.pc = "index" /\ search'.pc = "answered"
        /\ search'.out = rows /\ search'.index = form
    <3>1. /\ Same /\ search.pc = "index"
          /\ search' = [search EXCEPT !.pc = "answered", !.out = rows, !.index = form]
      BY <1>8 DEF BuildIndex
    <3> HIDE DEF rows, form
    <3>2. QED
      BY <3>1 DEF ContextShape
  <2>2. /\ live \subseteq atAsk.live /\ SeqContext(search.ctx) /\ search.kind # "related"
        /\ search.ctx.entities \subseteq search.seen /\ search.seen \subseteq FarFrom(Hops)
        /\ search.ctx.entities # {} => NearTo(Hops) \subseteq search.seen
    BY <2>1 DEF SuggestInv, WalkInv
  <2>3. ASSUME NEW i \in rows
        PROVE  i \in atAsk.live /\ Visible(i, search.ctx) /\ OnTopic(i, search.ctx, atAsk.links)
    <3>1. i \in live /\ Visible(i, search.ctx) /\ (search.seen # {} => Tags[i] \cap search.seen # {})
      BY <2>2, ReachIsVisible
    <3>2. OnTopic(i, search.ctx, atAsk.links)
      BY <2>2, <3>1 DEF OnTopic, FarFrom
    <3>3. QED
      BY <2>2, <3>1, <3>2
  <2>4. ASSUME NEW i \in live, Place[i] \in Composed(search.ctx),
               OnTopic(i, search.ctx, atAsk.kept)
        PROVE  i \in rows
    <3>1. CASE search.ctx.entities = {}
      <4>1. search.seen = {}
        <5>1. Around(search.ctx.entities, atAsk.links, Hops) \subseteq search.ctx.entities
          BY <3>1, AroundStaysInside, ContextAssumption
        <5>2. QED
          BY <2>2, <3>1, <5>1 DEF FarFrom
      <4>2. QED
        BY <2>4, <4>1 DEF InReach
    <3>2. CASE search.ctx.entities # {}
      <4>1. Tags[i] \cap search.seen # {}
        BY <2>2, <2>4, <3>2 DEF OnTopic, NearTo
      <4>2. QED
        BY <2>4, <4>1 DEF InReach
    <3>3. QED
      BY <3>1, <3>2
  <2> HIDE DEF rows
  <2>5. IndexOK'
    BY <2>1, <2>3, <2>4 DEF IndexOK
  <2>6. QED
    BY <2>1, <2>2, <2>5 DEF SuggestInv
<1>9. CASE ReturnContext
  BY <1>9 DEF ReturnContext, NoSearch, SuggestInv
<1>10. ASSUME NEW i, NEW ctx, CloseIdea(i) \/ Dismiss(i, ctx)
       PROVE  SuggestInv'
  <2>1. UNCHANGED <<search, atAsk>> /\ live' \subseteq live
    BY <1>10 DEF CloseIdea, Dismiss
  <2>2. \A h : HitOK(h) => HitOK(h)'
    BY <2>1 DEF HitOK
  <2>3. IndexOK => IndexOK'
    BY <2>1 DEF IndexOK
  <2>4. QED
    BY <2>1, <2>2, <2>3 DEF SuggestInv
<1>11. ASSUME NEW l, Link(l)
       PROVE  SuggestInv'
  <2>1. /\ UNCHANGED <<live, dismissed, search>>
        /\ atAsk' = [atAsk EXCEPT !.links = atAsk.links \cup links', !.kept = atAsk.kept \cap links']
    BY <1>11 DEF Link
  <2>2. /\ atAsk'.live = atAsk.live /\ atAsk'.dismissed = atAsk.dismissed
        /\ atAsk.links \subseteq atAsk'.links /\ atAsk'.kept \subseteq atAsk.kept
    BY <2>1 DEF ContextShape
  <2>3. \A i : OnTopic(i, search.ctx, atAsk.links) => OnTopic(i, search.ctx, atAsk'.links)
    BY <2>2, TopicMonotone
  <2>4. \A i : OnTopic(i, search.ctx, atAsk'.kept) => OnTopic(i, search.ctx, atAsk.kept)
    BY <2>2, TopicMonotone
  <2>5. \A h : HitOK(h) => HitOK(h)'
    BY <2>1, <2>2, <2>3 DEF HitOK
  <2>6. IndexOK => IndexOK'
    BY <2>1, <2>2, <2>3, <2>4 DEF IndexOK
  <2>7. QED
    BY <2>1, <2>2, <2>5, <2>6 DEF SuggestInv
<1>12. CASE UNCHANGED contextVars
  BY <1>12 DEF contextVars, SuggestInv, HitOK, IndexOK
<1>13. QED
  BY <1>1, <1>2, <1>3, <1>4, <1>5, <1>6, <1>7, <1>8, <1>9, <1>10, <1>11, <1>12, ContextsAreSeq
  DEF ContextNext, SearchStep

\* The invariants hold of every behaviour of the searches.
LEMMA ContextInvariant == ContextSpec => [](ContextShape /\ WalkInv /\ SuggestInv)
<1>1. ContextInit => ContextShape /\ WalkInv /\ SuggestInv
  BY DEF ContextInit, NoSearch, ContextShape, WalkInv, SuggestInv
<1>2. ContextShape /\ WalkInv /\ SuggestInv /\ [ContextNext]_contextVars
        => (ContextShape /\ WalkInv /\ SuggestInv)'
  BY ShapeStep, WalkStep, SuggestStep
<1>3. QED
  BY <1>1, <1>2, PTL DEF ContextSpec

\* DismissedStaysAway holds for any memories, contexts and dismissals: what was
\* dismissed before a search began is not among what it brings up.
THEOREM DismissedAway == ContextSpec => []DismissedStaysAway
<1>1. SuggestInv => DismissedStaysAway
  BY DEF SuggestInv, DismissedStaysAway, Answered, ContextKey
<1>2. QED
  BY <1>1, ContextInvariant, PTL

\* SurfacedIsInReach holds for any graph, however it changes during the walk, any
\* number of hops and all thresholds: what a context brings up was open, is visible
\* from it, and is on an entity within reach or was found by its likeness alone.
THEOREM SurfacedInReach == ContextSpec => []SurfacedIsInReach
<1>1. ASSUME SuggestInv
      PROVE  SurfacedIsInReach
  <2>1. ASSUME Answered({"related"}), NEW h \in search.out
        PROVE  /\ h.idea \in atAsk.live \cap CrossRefCandidates /\ Visible(h.idea, search.ctx)
               /\ IF h.graph THEN OnTopic(h.idea, search.ctx, atAsk.links)
                  ELSE Likeness[h.idea] >= Threshold /\ \A g \in search.out : ~ g.graph
    <3>1. search.pc = "answered" /\ search.kind = "related"
      BY <2>1 DEF Answered
    <3>2. HitOK(h) /\ Surfaces(h)
      BY <1>1, <2>1, <3>1 DEF SuggestInv
    <3>3. ASSUME ~ h.graph, NEW g \in search.out
          PROVE  ~ g.graph
      BY <1>1, <2>1, <3>1, <3>3 DEF SuggestInv
    <3>4. QED
      BY <3>2, <3>3 DEF HitOK, Surfaces
  <2>2. ASSUME Answered({"session start", "mid session"}), NEW i \in search.out
        PROVE  i \in atAsk.live /\ Visible(i, search.ctx) /\ OnTopic(i, search.ctx, atAsk.links)
    BY <1>1, <2>2 DEF SuggestInv, IndexOK, Answered
  <2>3. QED
    BY <2>1, <2>2 DEF SurfacedIsInReach
<1>2. QED
  BY <1>1, ContextInvariant, PTL

-----------------------------------------------------------------------------
(* The injection index *)

\* The project that the hooks derive from a directory is the one it belongs to.
LEMMA ProjectIsHome ==
    ASSUME NEW w \in Workspaces
    PROVE  ProjectOf(w.path) = w.home
<1> DEFINE mark == ".claude/worktrees"
           cuts == {k \in DOMAIN w.path : w.path[k] = mark}
<1>1. w.path \in Seq(STRING) /\ DOMAIN w.path = 1..Len(w.path) /\ Len(w.path) \in Nat
  BY ContextAssumption, LenProperties
<1>2. PICK k \in DOMAIN w.path :
        /\ w.path[k] = w.home /\ \A n \in 1..k : w.path[n] # mark
        /\ k = Len(w.path) \/ w.path[k + 1] = mark
  BY ContextAssumption
<1>3. k \in 1..Len(w.path) /\ k \in Nat
  BY <1>1, <1>2
<1>4. ProjectOf(w.path)
        = w.path[IF cuts = {} THEN Len(w.path) ELSE (CHOOSE c \in cuts : \A n \in cuts : c <= n) - 1]
  BY DEF ProjectOf
<1>5. \A n \in cuts : n \in Nat /\ n >= k + 1
  BY <1>1, <1>2, <1>3
<1>6. CASE k = Len(w.path)
  <2>1. cuts = {}
    BY <1>1, <1>3, <1>5, <1>6
  <2>2. QED
    BY <1>2, <1>4, <1>6, <2>1
<1>7. CASE k # Len(w.path)
  <2>1. k + 1 \in cuts
    BY <1>1, <1>2, <1>3, <1>7
  <2> DEFINE first == CHOOSE c \in cuts : \A n \in cuts : c <= n
  <2>2. first \in cuts /\ \A n \in cuts : first <= n
    <3>1. \A n \in cuts : k + 1 <= n
      BY <1>3, <1>5
    <3> HIDE DEF cuts
    <3>2. QED
      BY <2>1, <3>1
  <2>3. first = k + 1
    <3> HIDE DEF first, cuts
    <3>1. QED
      BY <1>3, <1>5, <2>1, <2>2
  <2>4. first - 1 = k /\ cuts # {}
    <3> HIDE DEF first, cuts
    <3>1. QED
      BY <1>3, <2>1, <2>3
  <2> HIDE DEF cuts
  <2>5. QED
    BY <1>2, <1>4, <2>4
<1>8. QED
  BY <1>6, <1>7

\* An index that is complete knows the project of whoever asked for it.
LEMMA IndexKnows ==
    ASSUME SuggestInv
    PROVE  IndexKnowsItsProject
<1>1. SUFFICES ASSUME Answered({"session start", "mid session"}),
                      NEW w \in Workspaces, NEW i \in live,
                      search.ctx \in {HookContext(w), PromptContext(w)},
                      Place[i] \in {<<>>, <<w.home>>}, OnTopic(i, search.ctx, atAsk.kept)
               PROVE  i \in search.out
  BY DEF IndexKnowsItsProject
<1>2. IndexOK
  BY <1>1 DEF SuggestInv, Answered
<1>3. search.ctx.scopes = {<<>>, <<w.home>>}
  <2>1. HookContext(w).scopes = {<<>>, <<ProjectOf(w.path)>>}
    BY DEF HookContext
  <2>2. PromptContext(w).scopes = {<<>>, <<ProjectOf(w.path)>>}
    BY DEF HookContext, PromptContext
  <2>3. ProjectOf(w.path) = w.home
    BY ProjectIsHome
  <2>4. QED
    BY <1>1, <2>1, <2>2, <2>3
<1>4. <<w.home>> \in Seq({w.home}) /\ Len(<<w.home>>) = 1
  OBVIOUS
<1>5. SubSeq(<<w.home>>, 1, 1) = <<w.home>>
  BY <1>4, SubSeqFull
<1>6. SubSeq(<<w.home>>, 1, 0) = <<>>
  BY SubSeqEmpty
<1>7. Place[i] \in Composed(search.ctx)
  <2>1. \E k \in 0..Len(<<w.home>>) : Place[i] = SubSeq(<<w.home>>, 1, k)
    <3>1. 0 \in 0..Len(<<w.home>>) /\ 1 \in 0..Len(<<w.home>>)
      BY <1>4
    <3>2. CASE Place[i] = <<>>
      BY <1>6, <3>1, <3>2
    <3>3. CASE Place[i] = <<w.home>>
      BY <1>5, <3>1, <3>3
    <3>4. QED
      BY <1>1, <3>2, <3>3
  <2>2. QED
    BY <1>3, <2>1 DEF Composed
<1>8. QED
  BY <1>1, <1>2, <1>7 DEF IndexOK

\* Multiplying keeps the order.
LEMMA TimesKeepsOrder ==
    ASSUME NEW a \in Nat, NEW t \in Nat
    PROVE  a * t \in Nat /\ (a + 1) * t = a * t + t
  BY SMT

\* The forms of an index, one at a time: the next leaves out a snippet, then the
\* recall hint, then a hint.
LEMMA FormsInTurn ==
    ASSUME NEW s \in Nat, NEW h \in Nat, NEW n \in 0..(s + 1 + h)
    PROVE  /\ DOMAIN Forms(s, h) = 0..(s + 1 + h)
           /\ Forms(s, h)[n] = [snippets |-> IF n <= s THEN s - n ELSE 0, recall |-> n <= s,
                                hints |-> IF n <= s + 1 THEN h ELSE h - (n - s - 1)]
           /\ Forms(s, h)[n].snippets \in Nat /\ Forms(s, h)[n].hints \in Nat
           /\ Forms(s, h)[n].recall \in BOOLEAN
           /\ Size(Forms(s, h)[n]) \in Nat
<1> DEFINE form == [snippets |-> IF n <= s THEN s - n ELSE 0, recall |-> n <= s,
                    hints |-> IF n <= s + 1 THEN h ELSE h - (n - s - 1)]
<1>1. DOMAIN Forms(s, h) = 0..(s + 1 + h) /\ Forms(s, h)[n] = form
  BY DEF Forms
<1>2. form.snippets \in Nat /\ form.hints \in Nat /\ form.recall \in BOOLEAN
  BY SMT
<1> HIDE DEF form
<1>3. Tokens["summary"] \in Nat /\ Tokens["hint"] \in Nat /\ Tokens["snippet"] \in Nat
      /\ Tokens["recall"] \in Nat
  BY ContextAssumption
<1>4. form.hints * Tokens["hint"] \in Nat /\ form.snippets * Tokens["snippet"] \in Nat
  BY <1>2, <1>3, TimesKeepsOrder
<1>5. Size(form) \in Nat
  <2> DEFINE x == form.hints * Tokens["hint"]
             y == form.snippets * Tokens["snippet"]
  <2>1. x \in Nat /\ y \in Nat
    BY <1>4
  <2>2. Size(form) = Tokens["summary"] + x + y + (IF form.recall THEN Tokens["recall"] ELSE 0)
    BY DEF Size
  <2> HIDE DEF x, y
  <2>3. QED
    BY <1>3, <2>1, <2>2
<1>6. QED
  BY <1>1, <1>2, <1>5 DEF form

\* The form that render_index chooses fits the budget or has nothing but the summary,
\* and with one thing more it would not fit.
LEMMA RenderedFits ==
    ASSUME NEW s \in Nat, NEW h \in Nat, NEW budget \in Nat
    PROVE  LET form == Rendered(s, h, budget)
           IN  /\ \/ Size(form) <= budget
                  \/ form = [snippets |-> 0, hints |-> 0, recall |-> FALSE]
               /\ form.snippets \in Nat /\ form.hints \in Nat
               /\ form.recall /\ form.snippets < s
                    => Size([form EXCEPT !.snippets = @ + 1]) > budget
               /\ ~ form.recall /\ form.hints < h
                    => Size([form EXCEPT !.hints = @ + 1]) > budget
<1> DEFINE forms == Forms(s, h)
           last == s + 1 + h
           fits == {n \in DOMAIN forms : Size(forms[n]) <= budget}
           chosen == IF fits = {} THEN last ELSE CHOOSE n \in fits : \A k \in fits : n <= k
<1>1. Rendered(s, h, budget) = forms[chosen]
  BY DEF Rendered
<1>2. /\ DOMAIN forms = 0..last /\ last \in Nat
      /\ \A n \in 0..last :
           /\ forms[n] = [snippets |-> IF n <= s THEN s - n ELSE 0, recall |-> n <= s,
                          hints |-> IF n <= s + 1 THEN h ELSE h - (n - s - 1)]
           /\ Size(forms[n]) \in Nat
  <2>1. last \in Nat /\ 0 \in 0..last
    OBVIOUS
  <2>2. DOMAIN forms = 0..last
    BY <2>1, FormsInTurn
  <2>3. ASSUME NEW n \in 0..last
        PROVE  /\ forms[n] = [snippets |-> IF n <= s THEN s - n ELSE 0, recall |-> n <= s,
                               hints |-> IF n <= s + 1 THEN h ELSE h - (n - s - 1)]
               /\ Size(forms[n]) \in Nat
    BY FormsInTurn
  <2> HIDE DEF forms, last
  <2>4. QED
    BY <2>1, <2>2, <2>3
<1> HIDE DEF forms
<1>3. /\ chosen \in 0..last
      /\ Size(forms[chosen]) <= budget \/ chosen = last
      /\ \A n \in 0..(chosen - 1) : ~ (Size(forms[n]) <= budget)
  <2>1. CASE fits = {}
    <3>1. chosen = last
      BY <2>1
    <3> HIDE DEF chosen
    <3>2. \A n \in 0..last : ~ (Size(forms[n]) <= budget)
      BY <1>2, <2>1
    <3> HIDE DEF last
    <3>3. QED
      BY <1>2, <3>1, <3>2
  <2>2. CASE fits # {}
    <3>1. fits \subseteq 0..last /\ IsFiniteSet(fits)
      <4>1. fits \subseteq 0..last
        BY <1>2
      <4>2. IsFiniteSet(0..last)
        BY <1>2, FS_Interval
      <4> HIDE DEF fits, last
      <4>3. QED
        BY <4>1, <4>2, FS_Subset
    <3>2. \E n \in fits : \A k \in fits : n <= k
      <4> DEFINE id == [n \in fits |-> n]
      <4>1. \A n \in fits : id[n] = n /\ id[n] \in Int
        BY <3>1
      <4> HIDE DEF id, fits
      <4>2. \E n \in fits : \A k \in fits : id[n] <= id[k]
        BY <2>2, <3>1, <4>1, LowestExists
      <4>3. QED
        BY <4>1, <4>2
    <3>3. chosen \in fits /\ \A k \in fits : chosen <= k
      <4> HIDE DEF fits
      <4>1. QED
        BY <2>2, <3>2
    <3>4. Size(forms[chosen]) <= budget /\ chosen \in 0..last
      <4> HIDE DEF chosen
      <4>1. QED
        BY <1>2, <3>3
    <3>5. ASSUME NEW n \in 0..(chosen - 1)
          PROVE  ~ (Size(forms[n]) <= budget)
      <4> HIDE DEF chosen
      <4>1. n \in 0..last
        BY <1>2, <3>4
      <4>2. n \notin fits
        <5> HIDE DEF fits
        <5>1. n < chosen
          BY <1>2, <3>4
        <5>2. QED
          BY <3>3, <3>4, <4>1, <5>1
      <4>3. QED
        BY <1>2, <4>1, <4>2
    <3>6. QED
      BY <3>4, <3>5
  <2>3. QED
    BY <2>1, <2>2
<1> HIDE DEF chosen, fits
<1> DEFINE form == forms[chosen]
<1>4. form = [snippets |-> IF chosen <= s THEN s - chosen ELSE 0, recall |-> chosen <= s,
              hints |-> IF chosen <= s + 1 THEN h ELSE h - (chosen - s - 1)]
  BY <1>2, <1>3
<1>5. Size(form) <= budget \/ form = [snippets |-> 0, hints |-> 0, recall |-> FALSE]
  <2>1. CASE chosen = last
    <3>1. ~(chosen <= s) /\ (chosen <= s + 1 => h = 0) /\ h - (chosen - s - 1) = 0
      BY <2>1
    <3>2. form = [snippets |-> 0, recall |-> FALSE, hints |-> 0]
      <4>1. (IF chosen <= s + 1 THEN h ELSE h - (chosen - s - 1)) = 0
        BY <3>1
      <4>2. (IF chosen <= s THEN s - chosen ELSE 0) = 0 /\ (chosen <= s) = FALSE
        BY <3>1
      <4> HIDE DEF form, last
      <4>3. QED
        BY <1>4, <4>1, <4>2
    <3>3. QED
      BY <3>2
  <2>2. QED
    BY <1>3, <2>1
<1>6. form.snippets \in Nat /\ form.hints \in Nat
  BY <1>3, <1>4
<1> DEFINE left == IF chosen <= s THEN s - chosen ELSE 0
           kept == IF chosen <= s + 1 THEN h ELSE h - (chosen - s - 1)
           hinted == chosen <= s
<1> HIDE DEF form, last
<1>7. ASSUME form.recall, form.snippets < s
      PROVE  Size([form EXCEPT !.snippets = form.snippets + 1]) > budget
  <2> DEFINE before == forms[chosen - 1]
             earlier == chosen - 1 <= s
  <2>1. form.recall = hinted /\ form.snippets = left /\ form.hints = kept
    <3> HIDE DEF left, kept, hinted
    <3>1. form = [snippets |-> left, recall |-> hinted, hints |-> kept]
      BY <1>4 DEF left, kept, hinted
    <3>2. QED
      BY <3>1
  <2>2. hinted
    BY <1>7, <2>1, Zenon
  <2>3. chosen \in Nat /\ chosen <= s /\ left = s - chosen /\ kept = h
    BY <1>2, <1>3, <2>2
  <2>4. chosen # 0
    BY <1>7, <2>1, <2>3
  <2>5. chosen - 1 \in 0..last /\ chosen - 1 \in 0..(chosen - 1) /\ earlier
        /\ chosen - 1 <= s + 1 /\ s - (chosen - 1) = left + 1
    BY <1>2, <1>3, <2>3, <2>4
  <2>6. before = [snippets |-> left + 1, recall |-> earlier, hints |-> kept]
    BY <1>2, <2>3, <2>5
  <2>7. form = [snippets |-> left, recall |-> hinted, hints |-> kept]
    BY <1>4
  <2>8. Size(before) \in Nat /\ ~ (Size(before) <= budget)
    BY <1>2, <1>3, <2>5
  <2>9. hinted = earlier
    BY <2>2, <2>5
  <2> HIDE DEF before, earlier, hinted, left, kept
  <2>10. [form EXCEPT !.snippets = form.snippets + 1] = before
    BY <2>1, <2>6, <2>7, <2>9
  <2>11. QED
    BY <2>8, <2>10
<1>8. ASSUME ~ form.recall, form.hints < h
      PROVE  Size([form EXCEPT !.hints = form.hints + 1]) > budget
  <2> DEFINE before == forms[chosen - 1]
             earlier == chosen - 1 <= s
  <2>1. form.recall = hinted /\ form.snippets = left /\ form.hints = kept
    <3> HIDE DEF left, kept, hinted
    <3>1. form = [snippets |-> left, recall |-> hinted, hints |-> kept]
      BY <1>4 DEF left, kept, hinted
    <3>2. QED
      BY <3>1
  <2>2. ~ hinted
    BY <1>8, <2>1, Zenon
  <2>3. chosen \in Nat /\ ~ (chosen <= s) /\ left = 0
    BY <1>2, <1>3, <2>2
  <2>4. ~ (chosen <= s + 1) /\ kept = h - (chosen - s - 1)
    BY <1>8, <2>1, <2>3
  <2>5. chosen - 1 \in 0..last /\ chosen - 1 \in 0..(chosen - 1) /\ ~ earlier
    BY <1>2, <1>3, <2>3, <2>4
  <2>6. (IF chosen - 1 <= s + 1 THEN h ELSE h - (chosen - 1 - s - 1)) = kept + 1
    BY <2>3, <2>4
  <2>7. before = [snippets |-> 0, recall |-> earlier, hints |-> kept + 1]
    <3>1. before = [snippets |-> IF chosen - 1 <= s THEN s - (chosen - 1) ELSE 0,
                    recall |-> chosen - 1 <= s,
                    hints |-> IF chosen - 1 <= s + 1 THEN h ELSE h - (chosen - 1 - s - 1)]
      BY <1>2, <2>5
    <3>2. (IF chosen - 1 <= s THEN s - (chosen - 1) ELSE 0) = 0
      BY <2>5
    <3> HIDE DEF before, kept
    <3>3. QED
      BY <2>6, <3>1, <3>2
  <2>8. form = [snippets |-> 0, recall |-> hinted, hints |-> kept]
    BY <1>4, <2>3
  <2>9. Size(before) \in Nat /\ ~ (Size(before) <= budget)
    BY <1>2, <1>3, <2>5
  <2>10. hinted = earlier
    BY <2>2, <2>5
  <2> HIDE DEF before, earlier, hinted, left, kept
  <2>11. [form EXCEPT !.hints = form.hints + 1] = before
    BY <2>1, <2>7, <2>8, <2>10
  <2>12. QED
    BY <2>9, <2>11
<1>9. QED
  BY <1>1, <1>5, <1>6, <1>7, <1>8 DEF form

\* An index in the form that render_index gave it keeps to its budget, and left out
\* nothing that would have fitted.
LEMMA IndexFits ==
    ASSUME SuggestInv
    PROVE  IndexFitsItsBudget
<1>1. SUFFICES ASSUME Answered({"session start", "mid session"})
               PROVE  LET form == search.index
                          budget == Budget(search.kind)
                      IN  /\ \/ Size(form) <= budget
                             \/ form = [snippets |-> 0, hints |-> 0, recall |-> FALSE]
                          /\ form.recall /\ form.snippets < MaxSnippets
                             /\ form.snippets < Cardinality({i \in search.out : Place[i] = <<>>})
                               => Size([form EXCEPT !.snippets = @ + 1]) > budget
                          /\ ~ form.recall /\ form.hints < Cardinality(search.out \cap Seeds)
                               => Size([form EXCEPT !.hints = @ + 1]) > budget
  BY DEF IndexFitsItsBudget
<1> DEFINE globals == Cardinality({i \in search.out : Place[i] = <<>>})
           s == IF globals < MaxSnippets THEN globals ELSE MaxSnippets
           h == Cardinality(search.out \cap Seeds)
           budget == Budget(search.kind)
           form == search.index
<1>2. IndexOK /\ atAsk.live \subseteq Idea
  BY <1>1 DEF SuggestInv, Answered
<1>3. search.out \subseteq Idea
  BY <1>2 DEF IndexOK
<1>4. globals \in Nat /\ h \in Nat
  <2>1. {i \in search.out : Place[i] = <<>>} \subseteq Idea /\ search.out \cap Seeds \subseteq Idea
    BY <1>3
  <2>2. IsFiniteSet(Idea)
    BY ContextAssumption
  <2>3. QED
    BY <2>1, <2>2, FS_Subset, FS_CardinalityType
<1>5. MaxSnippets \in Nat /\ budget \in Nat
  <2>1. TokenBudget \in Nat /\ MaxSnippets \in Nat
    BY ContextAssumption
  <2>2. TokenBudget \div 2 \in Nat
    BY <2>1
  <2>3. QED
    BY <2>1, <2>2 DEF Budget
<1>6. s \in Nat
  BY <1>4, <1>5
<1>7. form = Rendered(s, h, budget)
  BY <1>2 DEF IndexOK
<1> HIDE DEF globals, h, budget, form
<1>8. /\ Size(form) <= budget \/ form = [snippets |-> 0, hints |-> 0, recall |-> FALSE]
      /\ form.snippets \in Nat
      /\ form.recall /\ form.snippets < s => Size([form EXCEPT !.snippets = form.snippets + 1]) > budget
      /\ ~ form.recall /\ form.hints < h => Size([form EXCEPT !.hints = form.hints + 1]) > budget
  <2> HIDE DEF s
  <2>1. QED
    BY <1>4, <1>5, <1>6, <1>7, RenderedFits
<1>9. form.snippets < MaxSnippets /\ form.snippets < globals => form.snippets < s
  BY <1>4, <1>5, <1>8
<1> HIDE DEF s
<1>10. QED
  BY <1>8, <1>9 DEF globals, h, budget, form

\* IndexServesItsProject holds for all memories, links, directories and budgets: the
\* hooks' index has every open memory of the project whose directory it is built
\* for, and drops only what does not fit.
THEOREM IndexServes == ContextSpec => []IndexServesItsProject
<1>1. SuggestInv => IndexServesItsProject
  BY IndexKnows, IndexFits DEF IndexServesItsProject
<1>2. QED
  BY <1>1, ContextInvariant, PTL

-----------------------------------------------------------------------------
(* The graph explorer *)

Pairs == Ids \X Ids

\* What a request has read: rows within the limit, at it if there were more, and links
\* and edges between them.
Read(r) ==
    /\ r.kept \subseteq Ids /\ Cardinality(r.kept) <= NodeLimit
    /\ r.more => Cardinality(r.kept) = NodeLimit
    /\ r.linked \subseteq Note \X r.kept
    /\ \A e \in r.edges : \E v, w \in r.kept : e = <<"ent", v, "ent", w>>

ExplorerInv ==
    /\ alive \subseteq Ids /\ related \subseteq Pairs /\ together \subseteq Pairs
    /\ DOMAIN request = DOMAIN Idle
    /\ request.pc \in {"idle", "center", "ranked"} =>
         request.kept = {} /\ ~ request.more /\ request.linked = {} /\ request.edges = {}
    /\ request.pc = "around" => request.linked = {} /\ request.edges = {}
    /\ request.pc \in {"memories", "relates", "together", "overlay"} => Read(request)
    /\ ExplorerIsClosed

\* The entities are finitely many, and each has a place of its own in the order.
LEMMA Places ==
    /\ IsFiniteSet(Ids)
    /\ \A v \in Ids : Order(v) \in Nat
    /\ \A v, w \in Ids : Order(v) = Order(w) => v = w
<1>1. Vertex \in Seq(STRING) /\ Len(Vertex) \in Nat /\ DOMAIN Vertex = 1 .. Len(Vertex)
  BY ExplorerAssumption
<1>2. \A v \in Ids : Order(v) \in DOMAIN Vertex /\ Vertex[Order(v)] = v
  BY DEF Order, Ids
<1>3. IsFiniteSet(Ids)
  <2>1. IsFiniteSet(DOMAIN Vertex)
    BY <1>1, FS_Interval
  <2> DEFINE f == [k \in DOMAIN Vertex |-> Vertex[k]]
  <2>2. f \in Surjection(DOMAIN Vertex, Ids)
    BY DEF Ids, Surjection
  <2>3. QED
    BY <2>1, <2>2, FS_Surjection
<1>4. QED
  BY <1>1, <1>2, <1>3

LEMMA Degrees ==
    ASSUME related \subseteq Pairs, together \subseteq Pairs
    PROVE  \A v \in Ids : Degree(v) \in Nat
<1>1. IsFiniteSet(Pairs)
  BY Places, FS_Product DEF Pairs
<1>2. TAKE v \in Ids
<1> DEFINE r == {e \in related : v \in {e[1], e[2]}}
           t == {e \in together : v \in {e[1], e[2]}}
<1>3. r \subseteq Pairs /\ t \subseteq Pairs
  OBVIOUS
<1>4. Degree(v) = Cardinality(r) + Cardinality(t)
  BY DEF Degree
<1> HIDE DEF r, t
<1>5. Cardinality(r) \in Nat /\ Cardinality(t) \in Nat
  BY <1>1, <1>3, FS_Subset, FS_CardinalityType
<1>6. QED
  BY <1>4, <1>5

\* A lexicographic order of numbers ranks.
LEMMA Lexicographic ==
    ASSUME NEW S, NEW major, NEW minor, \A v \in S : major[v] \in Nat /\ minor[v] \in Nat,
           \A v, w \in S : minor[v] = minor[w] => v = w,
           NEW R, \A v, w \in S : <<v, w>> \in R
                     <=> major[v] > major[w] \/ (major[v] = major[w] /\ minor[v] < minor[w])
    PROVE  Ranks(R, S)
<1>1. ASSUME NEW c \in S, NEW d \in S, NEW e \in S, <<c, d>> \in R, <<d, e>> \in R
      PROVE  <<c, e>> \in R
  BY <1>1
<1>2. \A c \in S : <<c, c>> \notin R
  OBVIOUS
<1>3. ASSUME NEW c \in S, NEW d \in S, c # d
      PROVE  <<c, d>> \in R \/ <<d, c>> \in R
  BY <1>3
<1>4. QED
  BY <1>1, <1>2, <1>3 DEF Ranks

\* Rows that are kept of what was found are within the limit, at it if more were found.
LEMMA RowsKept ==
    ASSUME ExplorerInv, request.pc \in {"around", "ranked"},
           NEW rows, NEW found, rows \subseteq found, found \subseteq Ids,
           Cardinality(rows) <= NodeLimit, rows = found \/ Cardinality(rows) = NodeLimit,
           Keep(rows, found)
    PROVE  /\ request'.pc \in {"overlay", "memories"} /\ DOMAIN request' = DOMAIN Idle
           /\ Read(request')
<1> DEFINE r == request'
           many == Cardinality(found) > NodeLimit
<1>1. /\ r = [request EXCEPT !.kept = rows, !.more = many,
                           !.pc = IF rows = {} THEN "overlay" ELSE "memories"]
      /\ DOMAIN request = DOMAIN Idle
  BY DEF Keep, Proceeds, ExplorerInv
<1>2. /\ r.kept = rows /\ r.more = many /\ r.pc = IF rows = {} THEN "overlay" ELSE "memories"
      /\ r.linked = request.linked /\ r.edges = request.edges /\ DOMAIN r = DOMAIN Idle
  <2> HIDE DEF many
  <2>1. QED
    BY <1>1 DEF Idle
<1>3. request.linked = {} /\ request.edges = {}
  BY DEF ExplorerInv
<1>4. Cardinality(rows) \in Nat /\ Cardinality(found) \in Nat
  <2>1. rows \subseteq Ids
    OBVIOUS
  <2>2. QED
    BY <2>1, Places, FS_Subset, FS_CardinalityType
<1>5. many => Cardinality(rows) = NodeLimit
  BY <1>4, ExplorerAssumption
<1> HIDE DEF r, many
<1>6. Read(r)
  BY <1>2, <1>3, <1>5 DEF Read
<1>7. QED
  BY <1>2, <1>6 DEF r

\* What is drawn of what was read can be drawn.
LEMMA DrawnCloses ==
    ASSUME Read(request), request.pc = "overlay", Overlay
    PROVE  ExplorerIsClosed'
<1>1. PICK refs \in SUBSET {p \in Note \X ShownNames : p[2] \in Names[p[1]]} :
        LET drawn == Anchored({<<"mem", p[1], "ent", p[2]>> : p \in refs}, SnapshotNodes)
        IN  Draw([nodes |-> SnapshotNodes \cup {<<"mem", e[2]>> : e \in drawn},
                  edges |-> SnapshotEdges \cup drawn, truncated |-> request.more])
  BY DEF Overlay
<1> DEFINE targets == {<<"mem", p[1], "ent", p[2]>> : p \in refs}
           drawn == Anchored(targets, SnapshotNodes)
           added == {<<"mem", e[2]>> : e \in drawn}
           ents == {<<"ent", v>> : v \in request.kept}
           mems == {<<"mem", n>> : n \in Featured}
           nodes == SnapshotNodes \cup added
           edges == SnapshotEdges \cup drawn
           linkEdges == {<<"mem", l[1], "ent", l[2]>> : l \in {m \in request.linked : m[1] \in Featured}}
<1>2. shown' = [nodes |-> nodes, edges |-> edges, truncated |-> request.more]
  BY <1>1 DEF Draw
<1>3. nodes = ents \cup mems \cup added /\ edges = request.edges \cup linkEdges \cup drawn
  BY DEF SnapshotNodes, SnapshotEdges
<1>4. ASSUME NEW e \in drawn
      PROVE  e[1] = "mem" /\ <<e[1], e[2]>> \in added /\ <<e[3], e[4]>> \in nodes
  <2>1. e \in targets /\ <<e[3], e[4]>> \in SnapshotNodes
    BY <1>4 DEF Anchored
  <2>2. e[1] = "mem"
    BY <2>1
  <2>3. QED
    BY <2>1, <2>2
<1>5. {n \in nodes : n[1] = "ent"} = ents
  <2>1. \A n \in ents : n[1] = "ent"
    OBVIOUS
  <2>2. \A n \in mems \cup added : n[1] = "mem"
    <3> HIDE DEF drawn
    <3>1. QED
      OBVIOUS
  <2>3. "mem" # "ent"
    OBVIOUS
  <2> HIDE DEF ents, mems, added, nodes
  <2>4. QED
    BY <1>3, <2>1, <2>2, <2>3
<1>6. ASSUME NEW l \in request.linked, l[1] \in Featured
      PROVE  <<"ent", l[2]>> \in ents /\ <<"mem", l[1]>> \in mems
  BY <1>6 DEF Read
<1>7. \A e \in edges : EndsOf(e) \subseteq nodes
  <2>1. TAKE e \in edges
  <2>2. CASE e \in request.edges
    <3>1. PICK v \in request.kept, w \in request.kept : e = <<"ent", v, "ent", w>>
      BY <2>2 DEF Read
    <3>2. EndsOf(e) = {<<"ent", v>>, <<"ent", w>>}
      BY <3>1 DEF EndsOf
    <3>3. {<<"ent", v>>, <<"ent", w>>} \subseteq ents
      OBVIOUS
    <3> HIDE DEF ents, mems, added, nodes
    <3>4. QED
      BY <1>3, <3>2, <3>3
  <2>3. CASE e \in linkEdges
    <3>1. PICK l \in request.linked : l[1] \in Featured /\ e = <<"mem", l[1], "ent", l[2]>>
      BY <2>3
    <3>2. EndsOf(e) = {<<"mem", l[1]>>, <<"ent", l[2]>>}
      BY <3>1 DEF EndsOf
    <3> HIDE DEF ents, mems, added, nodes
    <3>3. QED
      BY <1>3, <1>6, <3>1, <3>2
  <2>4. CASE e \in drawn
    <3> HIDE DEF ents, mems, added, nodes, drawn
    <3>1. QED
      BY <1>3, <1>4, <2>4 DEF EndsOf
  <2> HIDE DEF edges, linkEdges, drawn
  <2>5. QED
    BY <1>3, <2>2, <2>3, <2>4
<1>8. \A n \in nodes \ ents : \E e \in edges : n \in EndsOf(e)
  <2>1. TAKE n \in nodes \ ents
  <2>2. CASE n \in mems
    <3>1. PICK f \in Featured : n = <<"mem", f>>
      BY <2>2
    <3>2. PICK l \in request.linked : l[1] \in Flagged /\ f = l[1]
      BY <3>1 DEF Featured
    <3> DEFINE e == <<"mem", l[1], "ent", l[2]>>
    <3>3. e \in linkEdges
      BY <3>1, <3>2
    <3>4. n \in EndsOf(e)
      BY <3>1, <3>2 DEF EndsOf
    <3> HIDE DEF e, linkEdges, edges
    <3>5. QED
      BY <1>3, <3>3, <3>4
  <2>3. CASE n \in added
    <3>1. PICK e \in drawn : n = <<"mem", e[2]>>
      BY <2>3
    <3>2. n \in EndsOf(e)
      BY <1>4, <3>1 DEF EndsOf
    <3> HIDE DEF edges, drawn
    <3>3. QED
      BY <1>3, <3>1, <3>2
  <2> HIDE DEF ents, mems, added, nodes, edges
  <2>4. QED
    BY <1>3, <2>2, <2>3
<1>9. Cardinality(ents) = Cardinality(request.kept)
  <2>1. IsFiniteSet(request.kept)
    BY Places, FS_Subset DEF Read
  <2> DEFINE f == [v \in request.kept |-> <<"ent", v>>]
  <2>2. f \in Bijection(request.kept, ents)
    <3>1. f \in [request.kept -> ents]
      OBVIOUS
    <3>2. \A v, w \in request.kept : f[v] = f[w] => v = w
      <4>1. \A v \in request.kept : f[v] = <<"ent", v>>
        OBVIOUS
      <4> HIDE DEF f
      <4>2. QED
        BY <4>1
    <3>3. \A n \in ents : \E v \in request.kept : f[v] = n
      OBVIOUS
    <3> HIDE DEF f, ents
    <3>4. f \in Injection(request.kept, ents)
      BY <3>1, <3>2 DEF Injection, IsInjective
    <3>5. f \in Surjection(request.kept, ents)
      BY <3>1, <3>3 DEF Surjection
    <3>6. QED
      BY <3>4, <3>5 DEF Bijection
  <2> HIDE DEF f, ents
  <2>3. ExistsBijection(request.kept, ents)
    BY <2>2 DEF ExistsBijection
  <2>4. QED
    BY <2>1, <2>3, FS_Bijection
<1>10. /\ shown'.nodes = nodes /\ shown'.edges = edges /\ shown'.truncated = request.more
  <2> HIDE DEF nodes, edges
  <2>1. QED
    BY <1>2
<1> HIDE DEF nodes, edges, ents
<1>11. QED
  BY <1>5, <1>7, <1>8, <1>9, <1>10 DEF ExplorerIsClosed, Read

\* An answer that can be drawn, and is within the limit.
Drawable(a) ==
    LET entities == {n \in a.nodes : n[1] = "ent"}
    IN  /\ \A e \in a.edges : EndsOf(e) \subseteq a.nodes
        /\ \A n \in a.nodes \ entities : \E e \in a.edges : n \in EndsOf(e)
        /\ Cardinality(entities) <= NodeLimit
        /\ a.truncated => Cardinality(entities) = NodeLimit

\* One that is blank can.
LEMMA BlankCloses == Drawable(Blank)
<1>1. Blank.nodes = {} /\ Blank.edges = {} /\ Blank.truncated = FALSE
  BY DEF Blank
<1>2. Cardinality({}) = 0 /\ 0 <= NodeLimit
  BY FS_EmptySet, ExplorerAssumption
<1>3. {n \in Blank.nodes : n[1] = "ent"} = {}
  BY <1>1
<1>4. QED
  BY <1>1, <1>2, <1>3 DEF Drawable

LEMMA ExplorerStart == ExplorerInit => ExplorerInv
<1>1. SUFFICES ASSUME ExplorerInit
               PROVE  ExplorerInv
  OBVIOUS
<1>2. alive \subseteq Ids /\ related \subseteq Pairs /\ together \subseteq Pairs
  BY <1>1 DEF ExplorerInit
<1>3. ExplorerIsClosed
  BY <1>1, BlankCloses DEF ExplorerInit, ExplorerIsClosed, Drawable
<1>4. request = Idle
  BY <1>1 DEF ExplorerInit
<1>5. QED
  BY <1>2, <1>3, <1>4 DEF ExplorerInv, Idle

\* The graph may change between any two queries of a request, which keeps what it read.
LEMMA GraphKept ==
    ASSUME ExplorerInv, GraphChanges
    PROVE  ExplorerInv'
<1>1. request' = request /\ shown' = shown
  BY DEF GraphChanges, AddVertex, Relate, CoMention, Merge, Changes
<1>2. alive' \subseteq Ids /\ related' \subseteq Pairs /\ together' \subseteq Pairs
  <2>1. alive \subseteq Ids /\ related \subseteq Pairs /\ together \subseteq Pairs
    BY DEF ExplorerInv
  <2>2. CASE AddVertex \/ Relate \/ CoMention
    <3>1. CASE AddVertex
      BY <2>1, <3>1 DEF AddVertex
    <3>2. CASE Relate
      BY <2>1, <3>2 DEF Relate, Pairs
    <3>3. CASE CoMention
      BY <2>1, <3>3 DEF CoMention, Pairs
    <3>4. QED
      BY <2>2, <3>1, <3>2, <3>3
  <2>3. CASE Merge
    <3>1. PICK v \in alive, w \in alive :
            LET image(x) == IF x = v THEN w ELSE x
            IN  /\ alive' = alive \ {v}
                /\ related' = {e \in {<<image(d[1]), image(d[2])>> : d \in related} : e[1] # e[2]}
                /\ together' = {e \in {<<image(d[1]), image(d[2])>> : d \in together} : e[1] # e[2]}
      BY <2>3 DEF Merge
    <3> DEFINE image(x) == IF x = v THEN w ELSE x
    <3>2. \A d \in Pairs : <<image(d[1]), image(d[2])>> \in Pairs
      BY <2>1 DEF Pairs
    <3> HIDE DEF image
    <3>3. /\ {<<image(d[1]), image(d[2])>> : d \in related} \subseteq Pairs
          /\ {<<image(d[1]), image(d[2])>> : d \in together} \subseteq Pairs
      BY <2>1, <3>2
    <3>4. /\ related' \subseteq {<<image(d[1]), image(d[2])>> : d \in related}
          /\ together' \subseteq {<<image(d[1]), image(d[2])>> : d \in together}
      BY <3>1 DEF image
    <3>5. QED
      BY <2>1, <3>1, <3>3, <3>4
  <2>4. QED
    BY <2>2, <2>3 DEF GraphChanges
<1>3. QED
  BY <1>1, <1>2 DEF ExplorerInv, ExplorerIsClosed, Read

\* A step of a request keeps it within what it has read.
LEMMA RequestKept ==
    ASSUME ExplorerInv, RequestStep
    PROVE  ExplorerInv'
<1> DEFINE r == request'
<1>1. ASSUME UNCHANGED <<alive, related, together, shown>>, DOMAIN r = DOMAIN Idle,
             r.pc \in {"idle", "center", "ranked"} =>
               r.kept = {} /\ ~ r.more /\ r.linked = {} /\ r.edges = {},
             r.pc = "around" => r.linked = {} /\ r.edges = {},
             r.pc \in {"memories", "relates", "together", "overlay"} => Read(r)
      PROVE  ExplorerInv'
  BY <1>1 DEF ExplorerInv, ExplorerIsClosed, Read
<1>2. ASSUME NEW a, Draw(a), ExplorerIsClosed'
      PROVE  ExplorerInv'
  BY <1>2 DEF Draw, ExplorerInv, Idle
<1>3. ASSUME request.pc \in {"around", "ranked"}, NEW rows, NEW found, Keep(rows, found),
             rows \subseteq found, found \subseteq Ids, Cardinality(rows) <= NodeLimit,
             rows = found \/ Cardinality(rows) = NodeLimit
      PROVE  ExplorerInv'
  <2>1. r.pc \in {"overlay", "memories"} /\ DOMAIN r = DOMAIN Idle /\ Read(r)
    BY <1>3, RowsKept
  <2>2. UNCHANGED <<alive, related, together, shown>>
    BY <1>3 DEF Keep, Proceeds
  <2> HIDE DEF r
  <2>3. QED
    BY <1>1, <2>1, <2>2
<1>4. IsFiniteSet(Ids) /\ alive \subseteq Ids /\ NodeLimit \in Nat
  BY Places, ExplorerAssumption DEF ExplorerInv
<1>5. CASE AskGraph
  BY <1>1, <1>5 DEF AskGraph, Idle
<1>6. CASE FindCenter
  BY <1>1, <1>6 DEF FindCenter, Stage, Proceeds, ExplorerInv, Idle
<1>7. CASE NoCenter
  <2>1. Draw(Blank)
    BY <1>7 DEF NoCenter
  <2>2. shown' = Blank
    BY <2>1 DEF Draw
  <2>3. ExplorerIsClosed'
    BY <2>2, BlankCloses DEF ExplorerIsClosed, Drawable
  <2>4. QED
    BY <1>2, <2>1, <2>3
<1>8. CASE TakeAround
  <2> DEFINE center == request.kept \cap alive
             beside == {v \in alive : HasKind(v) /\ \E e \in related, c \in center : e \in {<<c, v>>, <<v, c>>}}
             found == center \cup beside
  <2>1. PICK rows \in SUBSET found :
          /\ Cardinality(rows) = IF Cardinality(found) < NodeLimit THEN Cardinality(found) ELSE NodeLimit
          /\ Keep(rows, found)
    BY <1>8 DEF TakeAround
  <2>2. found \subseteq Ids
    BY <1>4
  <2>3. request.pc = "around"
    BY <1>8 DEF TakeAround, Stage
  <2> HIDE DEF found
  <2>4. IsFiniteSet(found) /\ Cardinality(found) \in Nat
    BY <1>4, <2>2, FS_Subset, FS_CardinalityType
  <2>5. Cardinality(rows) <= NodeLimit
    BY <1>4, <2>1, <2>4
  <2>6. Cardinality(rows) = Cardinality(found) => rows = found
    BY <2>4, FS_Subset
  <2>7. QED
    BY <1>3, <2>1, <2>2, <2>3, <2>5, <2>6
<1>9. CASE TakeRanked
  <2> DEFINE found == {v \in alive : HasKind(v)}
             R == {p \in Pairs : \/ Degree(p[1]) > Degree(p[2])
                                 \/ Degree(p[1]) = Degree(p[2]) /\ Order(p[1]) < Order(p[2])}
             rows == {v \in found : Cardinality({w \in found :
                        Degree(w) > Degree(v) \/ (Degree(w) = Degree(v) /\ Order(w) < Order(v))}) < NodeLimit}
  <2>1. Keep(rows, found) /\ request.pc = "ranked"
    BY <1>9 DEF TakeRanked, Stage
  <2>2. found \subseteq Ids /\ IsFiniteSet(found)
    BY <1>4, FS_Subset
  <2> HIDE DEF found
  <2>3. \A v, w \in found : <<v, w>> \in R
          <=> Degree(v) > Degree(w) \/ (Degree(v) = Degree(w) /\ Order(v) < Order(w))
    BY <2>2 DEF Pairs
  <2> HIDE DEF R
  <2>4. Ranks(R, found)
    <3> DEFINE major == [v \in found |-> Degree(v)]
               minor == [v \in found |-> Order(v)]
    <3>1. \A v \in found : major[v] \in Nat /\ minor[v] \in Nat
      BY <2>2, Places, Degrees DEF ExplorerInv
    <3>2. \A v, w \in found : minor[v] = minor[w] => v = w
      BY <2>2, Places
    <3>3. \A v, w \in found : <<v, w>> \in R
            <=> major[v] > major[w] \/ (major[v] = major[w] /\ minor[v] < minor[w])
      BY <2>3
    <3> HIDE DEF major, minor
    <3>4. QED
      BY <3>1, <3>2, <3>3, Lexicographic
  <2>5. rows = Firsts(found, R, NodeLimit)
    <3>1. ASSUME NEW v \in found
          PROVE  {w \in found : Degree(w) > Degree(v) \/ (Degree(w) = Degree(v) /\ Order(w) < Order(v))}
                   = {w \in found : <<w, v>> \in R}
      BY <2>3
    <3>2. QED
      BY <3>1 DEF Firsts
  <2> HIDE DEF rows
  <2>6. /\ rows \subseteq found /\ Cardinality(rows) <= NodeLimit
        /\ rows = found \/ Cardinality(rows) = NodeLimit
    BY <1>4, <2>2, <2>4, <2>5, FirstsCount
  <2>7. QED
    BY <1>3, <2>1, <2>2, <2>6
<1>10. CASE TakeMemories
  <2> DEFINE names == {Titled[v] : v \in request.kept}
  <2>1. PICK id \in [names -> request.kept] :
          Proceeds([request EXCEPT !.pc = "relates",
                     !.linked = UNION {{<<n, id[name]>> : name \in Names[n] \cap names} : n \in Note}])
    BY <1>10 DEF TakeMemories
  <2> HIDE DEF names
  <2> DEFINE linkEdges == UNION {{<<n, id[name]>> : name \in Names[n] \cap names} : n \in Note}
  <2>2. linkEdges \subseteq Note \X request.kept
    OBVIOUS
  <2> HIDE DEF linkEdges
  <2>3. r = [request EXCEPT !.pc = "relates", !.linked = linkEdges]
    BY <2>1 DEF Proceeds, linkEdges
  <2>4. Read(request) /\ DOMAIN request = DOMAIN Idle
    BY <1>10 DEF TakeMemories, Stage, ExplorerInv
  <2>5. /\ DOMAIN r = DOMAIN Idle /\ r.pc = "relates" /\ r.linked = linkEdges
        /\ r.kept = request.kept /\ r.more = request.more /\ r.edges = request.edges
    BY <2>3, <2>4 DEF Idle
  <2>6. Read(r)
    BY <2>2, <2>4, <2>5 DEF Read
  <2>7. UNCHANGED <<alive, related, together, shown>>
    BY <2>1 DEF Proceeds
  <2> HIDE DEF r
  <2>8. QED
    BY <1>1, <2>5, <2>6, <2>7
<1>11. ASSUME NEW S, S \subseteq Pairs, NEW pc \in {"together", "overlay"}, Read(request), NEW edges,
              edges \subseteq request.edges \cup EntityEdges(Among(S, request.kept)),
              Proceeds([request EXCEPT !.pc = pc, !.edges = edges])
       PROVE  ExplorerInv'
  <2>1. \A e \in edges : \E v, w \in request.kept : e = <<"ent", v, "ent", w>>
    BY <1>11 DEF Read, EntityEdges, Among
  <2>2. r = [request EXCEPT !.pc = pc, !.edges = edges]
    BY <1>11 DEF Proceeds
  <2>3. DOMAIN request = DOMAIN Idle
    BY DEF ExplorerInv
  <2>4. /\ DOMAIN r = DOMAIN Idle /\ r.pc = pc /\ r.edges = edges
        /\ r.kept = request.kept /\ r.more = request.more /\ r.linked = request.linked
    BY <2>2, <2>3 DEF Idle
  <2>5. Read(r)
    BY <1>11, <2>1, <2>4 DEF Read
  <2>6. UNCHANGED <<alive, related, together, shown>>
    BY <1>11 DEF Proceeds
  <2> HIDE DEF r
  <2>7. QED
    BY <1>1, <1>11, <2>4, <2>5, <2>6
<1>12. CASE TakeRelates
  <2>1. Read(request) /\ related \subseteq Pairs
    BY <1>12 DEF TakeRelates, Stage, ExplorerInv
  <2>2. Proceeds([request EXCEPT !.pc = "together",
                    !.edges = EntityEdges(Among(related, request.kept))])
    BY <1>12, Zenon DEF TakeRelates
  <2>3. QED
    BY <1>11, <2>1, <2>2
<1>13. CASE TakeTogether
  <2>1. Read(request) /\ together \subseteq Pairs
    BY <1>13 DEF TakeTogether, Stage, ExplorerInv
  <2>2. Proceeds([request EXCEPT !.pc = "overlay",
                    !.edges = request.edges \cup EntityEdges(Among(together, request.kept))])
    BY <1>13, Zenon DEF TakeTogether
  <2>3. QED
    BY <1>11, <2>1, <2>2
<1>14. CASE Overlay
  <2>1. request.pc = "overlay" /\ Read(request)
    BY <1>14 DEF Overlay, Stage, ExplorerInv
  <2>2. ExplorerIsClosed'
    BY <1>14, <2>1, DrawnCloses
  <2>3. \E a : Draw(a)
    BY <1>14 DEF Overlay
  <2>4. QED
    BY <1>2, <2>2, <2>3
<1>15. QED
  BY <1>5, <1>6, <1>7, <1>8, <1>9, <1>10, <1>12, <1>13, <1>14 DEF RequestStep

\* Whatever ingestion adds and maintenance merges away between the queries of a request,
\* the answer can be drawn and is within the limit (web/routes/graph.py).
THEOREM ExplorerCloses == ExplorerSpec => []ExplorerIsClosed
<1>1. ExplorerInv /\ [ExplorerNext]_explorerVars => ExplorerInv'
  <2>1. SUFFICES ASSUME ExplorerInv, [ExplorerNext]_explorerVars
                 PROVE  ExplorerInv'
    OBVIOUS
  <2>2. CASE UNCHANGED explorerVars
    BY <2>1, <2>2 DEF explorerVars, ExplorerInv, ExplorerIsClosed, Read
  <2>3. QED
    BY <2>1, <2>2, GraphKept, RequestKept DEF ExplorerNext
<1>2. ExplorerInv => ExplorerIsClosed
  BY DEF ExplorerInv
<1>3. QED
  BY <1>1, <1>2, ExplorerStart, PTL DEF ExplorerSpec

=============================================================================
