------------------------- MODULE GraphConsoleProofs -------------------------
(***************************************************************************)
(* Theorems about the entity graph's jobs and about the console.           *)
(*                                                                         *)
(* The graph jobs, beside any number of ingest tasks: a merge loses no     *)
(* relation, because the queries that moved the duplicate's edges have     *)
(* left it none to lose by the time it is deleted (MergeSound), because    *)
(* the survivor it moves them to is in no other merge of the listing as a  *)
(* duplicate (MergesApart), and because whatever an ingest task holds of a *)
(* node names it rightly until a merge is raced (TaskSound).               *)
(*                                                                         *)
(* A pass that nothing disturbs settles the graph, for all degrees and     *)
(* names: each job finds what the jobs before it have achieved still there *)
(* and, stage by stage, what it has to do written down (PassAt); and a     *)
(* name that a memory mentions stays some node's, as no alias list that    *)
(* is about to be written leaves it out (NamesKept).                       *)
(*                                                                         *)
(* The console's views of the memories, for all memories and scopes: sums  *)
(* over the nodes of the navigator and over the days of the trend are both *)
(* numbers of members of a union of disjoint sets (CountsAddUp), of which  *)
(* the roll-up's recursion makes one set for each node, from the deepest   *)
(* up (RollUpCounts).                                                      *)
(*                                                                         *)
(* The activity feed, for all deeds, queries, page sizes and faults: a     *)
(* record that comes late is still counted before what is older, so rows   *)
(* only move towards the pages to come (ReaderInv).                        *)
(*                                                                         *)
(* The labelling page: the gold set is the operator's, for every set of    *)
(* candidates and types and however many labels, restarts and failing      *)
(* writes there are.  A page that has nothing under way may only be        *)
(* trusted because each taken request still owes it a reading              *)
(* (PageCatchesUp): a label changes the queue and leaves a taken request   *)
(* behind, its answer drops whatever reading was under way, and a reading  *)
(* that is shown was made after the last taken request.  What finish folds *)
(* is what was shown because nothing but that finish is under way from     *)
(* then on (Agreement).                                                    *)
(***************************************************************************)
EXTENDS GraphMaintenance, MemoryViews, ActivityFeed, EvalLabelling, FiniteOrders, TLAPS

-----------------------------------------------------------------------------
(* The entity graph and its maintenance *)

EntityNodes == [name : Name, aliases : SUBSET Name]
Relations == [id : Nat, from : Nat, label : Label, to : Nat, open : BOOLEAN]
Triples == Name \X Label \X Name
Writes ==
    {None} \cup [kind : {"create"}, name : Name]
           \cup [kind : {"fold"}, name : Name, id : Nat, aliases : SUBSET Name]
           \cup [kind : {"edge"}, rel : Triples]
TaskStates ==
    [pc : {"entities", "mentions", "edges", "done"}, ids : [Name -> Nat \cup {None}],
     op : Writes, rels : SUBSET Triples]

GraphTypes ==
    /\ created \in Nat /\ nodes \in [Live -> EntityNodes] /\ Live \subseteq 1 .. created
    /\ \A i \in Live : IsFiniteSet(nodes[i].aliases)
    /\ relates \subseteq Relations /\ tasks \in [Task -> TaskStates]

LowToHigh(pairs) == \A p \in pairs : p[1] \in Nat /\ p[2] \in Nat /\ p[1] < p[2]

\* What a task at k is about to write is sound, and so is what it has resolved unless a
\* merge was under way.
Doing(k, kind) == k.op # None /\ k.op.kind = kind
Named(N, i, n) == i \in DOMAIN N /\ N[i].name = n
TaskSound(k, N, calm) ==
    /\ k.pc = "done" => k.op = None /\ \A n \in Name : k.ids[n] = None
    /\ Doing(k, "fold") => IsFiniteSet(k.op.aliases)
    /\ Doing(k, "edge") => k.ids[k.op.rel[1]] # None /\ k.ids[k.op.rel[3]] # None
    /\ calm => /\ \A n \in Name : k.ids[n] # None => Named(N, k.ids[n], n)
               /\ Doing(k, "fold") => Named(N, k.op.id, k.op.name)

\* There is an edge for r among E, between nodes of N for its two names.
Spans(E, N, r) ==
    \E e \in E : /\ e.from \in DOMAIN N /\ e.to \in DOMAIN N
                 /\ Key[N[e.from].name] = Key[r[1]] /\ Key[N[e.to].name] = Key[r[3]]
                 /\ Canon[e.label] = Canon[r[2]]

GraphSound ==
    /\ GraphTypes /\ LowToHigh(comentions) /\ \A t \in Task : TaskSound(tasks[t], nodes, ~raced)
    /\ raced \in BOOLEAN
    /\ ~raced => \A r \in asserted : Spans(relates, nodes, r)

\* The merges that a listing asks for: no survivor goes, and nobody goes twice.
OneEntity(i, j) == i \in Live /\ j \in Live /\ i # j /\ KeyAt(i) = KeyAt(j)
MergesApart(pairs) ==
    /\ \A p \in pairs : OneEntity(p[1], p[2])
    /\ \A p, q \in pairs : p[2] # q[1] /\ (p[1] = q[1] => p = q)

\* The merge under way: what its queries have moved stays moved, unless it is raced.
MergeSound ==
    /\ merge \in Merges /\ stage = "merge"
    /\ OneEntity(merge.src, merge.dst) /\ IsFiniteSet(merge.aliases)
    /\ \A p \in work : p[1] \notin {merge.src, merge.dst} /\ p[2] # merge.src
    /\ ~raced => /\ merge.step # "out" => \A e \in relates : e.from # merge.src
                 /\ merge.step \notin {"out", "in"} => \A e \in relates : e.to # merge.src

JobSound ==
    /\ merge # None => MergeSound
    /\ stage = "merge" => MergesApart(work)
    /\ job = "comention" /\ stage \in {"rank", "assert"} => LowToHigh(work)
    /\ job = "comention" /\ stage = "rank" => IsFiniteSet(work)

GraphInv == GraphSound /\ JobSound

PlaceOf(e) == <<e.from, e.label, e.to>>

\* Moving edges onto others loses no place: each edge left alone has one where it was,
\* each that is moved one where it is moved to, and there are no others.
LEMMA RepointKeeps ==
    ASSUME relates \subseteq Relations, NEW image, DOMAIN image \subseteq relates,
           \A e \in DOMAIN image : image[e] \in Relations, NEW after \in Repointed(image)
    PROVE  /\ after \subseteq Relations
           /\ \A e \in relates \ DOMAIN image : \E d \in after : PlaceOf(d) = PlaceOf(e)
           /\ \A e \in DOMAIN image : \E d \in after : PlaceOf(d) = PlaceOf(image[e])
           /\ \A d \in after : \/ \E e \in relates \ DOMAIN image : PlaceOf(d) = PlaceOf(e)
                               \/ \E e \in DOMAIN image : PlaceOf(d) = PlaceOf(image[e])
<1> DEFINE rows == DOMAIN image
           places == {PlaceOf(image[r]) : r \in rows}
           rest == relates \ rows
           held == {PlaceOf(e) : e \in rest}
           kept(pick, e) ==
             IF PlaceOf(e) \in places THEN [e EXCEPT !.open = pick[PlaceOf(e)].open] ELSE e
           picks == {f \in [places -> rows] : \A p \in places : PlaceOf(image[f[p]]) = p}
           made(pick) == {kept(pick, e) : e \in rest} \cup {image[pick[p]] : p \in places \ held}
<1>1. Repointed(image) = {made(pick) : pick \in picks}
  BY DEF Repointed, PlaceOf
<1> HIDE DEF rows, places, held, made, picks
<1>a. PICK pick \in picks : after = made(pick)
  BY <1>1
<1>2. /\ pick \in {f \in [places -> rows] : \A p \in places : PlaceOf(image[f[p]]) = p}
      /\ after = {kept(pick, e) : e \in rest} \cup {image[pick[p]] : p \in places \ held}
  BY <1>a DEF picks, made
<1>b. rows \subseteq relates /\ \A e \in rows : image[e] \in Relations
  BY DEF rows
<1>3. \A p \in places : pick[p] \in rows /\ PlaceOf(image[pick[p]]) = p
  BY <1>2
<1>4. ASSUME NEW e \in rest
      PROVE  kept(pick, e) \in Relations /\ PlaceOf(kept(pick, e)) = PlaceOf(e)
  <2>1. e \in Relations
    OBVIOUS
  <2>2. CASE PlaceOf(e) \in places
    <3>1. pick[PlaceOf(e)] \in Relations
      BY <1>3, <1>b, <2>2
    <3> DEFINE open == pick[PlaceOf(e)].open
    <3>2. open \in BOOLEAN
      BY <3>1 DEF Relations
    <3>3. kept(pick, e) = [e EXCEPT !.open = open]
      BY <2>2
    <3> HIDE DEF open, kept
    <3>4. QED
      BY <2>1, <3>2, <3>3 DEF Relations, PlaceOf
  <2>3. CASE PlaceOf(e) \notin places
    BY <2>1, <2>3
  <2>4. QED
    BY <2>2, <2>3
<1> HIDE DEF kept
<1>5. after \subseteq Relations
  <2>1. \A p \in places : image[pick[p]] \in Relations
    BY <1>3, <1>b
  <2>2. QED
    BY <1>2, <1>4, <2>1
<1>6. \A e \in rest : kept(pick, e) \in after
  BY <1>2
<1>7. ASSUME NEW e \in rows
      PROVE  \E d \in after : PlaceOf(d) = PlaceOf(image[e])
  <2>1. PlaceOf(image[e]) \in places
    BY DEF places
  <2>2. CASE PlaceOf(image[e]) \in held
    <3>1. PICK d \in rest : PlaceOf(d) = PlaceOf(image[e])
      BY <2>2 DEF held
    <3>2. QED
      BY <1>4, <1>6, <3>1
  <2>3. CASE PlaceOf(image[e]) \notin held
    <3>1. image[pick[PlaceOf(image[e])]] \in after
      BY <1>2, <2>1, <2>3
    <3>2. QED
      BY <1>3, <2>1, <3>1
  <2>4. QED
    BY <2>2, <2>3
<1>8. ASSUME NEW d \in after
      PROVE  \/ \E e \in rest : PlaceOf(d) = PlaceOf(e)
             \/ \E e \in rows : PlaceOf(d) = PlaceOf(image[e])
  <2>1. CASE \E e \in rest : d = kept(pick, e)
    BY <1>4, <2>1
  <2>2. CASE \E p \in places : d = image[pick[p]]
    BY <1>3, <2>2
  <2>3. QED
    BY <1>2, <2>1, <2>2
<1>9. QED
  BY <1>4, <1>5, <1>6, <1>7, <1>8 DEF rows

\* Of some live nodes one is better than all the others: it has more aliases, or as many
\* and a shorter name, or is older.
LEMMA BestSurvives ==
    ASSUME GraphTypes, NEW group \in SUBSET Live, group # {}
    PROVE  Survivor(group) \in group
<1> DEFINE R == {q \in group \X group : Better(q[2], q[1])}
           size(i) == Cardinality(nodes[i].aliases)
           rank(i) == Rank[nodes[i].name]
<1>1. \A i \in group : i \in Nat /\ size(i) \in Nat /\ rank(i) \in Nat
  <2>1. SUFFICES ASSUME NEW i \in group
                 PROVE  i \in Nat /\ size(i) \in Nat /\ rank(i) \in Nat
    OBVIOUS
  <2>2. i \in Live /\ i \in Nat
    BY DEF GraphTypes
  <2>3. size(i) \in Nat
    BY <2>2, FS_CardinalityType DEF GraphTypes
  <2>4. nodes[i].name \in Name
    BY <2>2 DEF GraphTypes, EntityNodes
  <2>5. rank(i) \in Nat
    BY <2>4, GraphMaintenanceAssumption
  <2>6. QED
    BY <2>2, <2>3, <2>5
<1>2. \A i, j \in group : Better(i, j) <=>
        \/ size(i) > size(j)
        \/ size(i) = size(j) /\ rank(i) < rank(j)
        \/ size(i) = size(j) /\ rank(i) = rank(j) /\ i < j
  BY DEF Better
<1> HIDE DEF size, rank
<1>3. IsFiniteSet(group)
  <2>1. created \in Int /\ 1 \in Int /\ group \subseteq 1 .. created
    BY DEF GraphTypes
  <2>2. IsFiniteSet(1 .. created)
    BY <2>1, FS_Interval
  <2>3. QED
    BY <2>1, <2>2, FS_Subset
<1>4. \A c, d \in group : <<c, d>> \in R <=> Better(d, c)
  OBVIOUS
<1>5. \A c, d, e \in group : <<c, d>> \in R /\ <<d, e>> \in R => <<c, e>> \in R
  <2> HIDE DEF R
  <2>1. QED
    BY <1>1, <1>2, <1>4
<1>6. \A c \in group : <<c, c>> \notin R
  <2> HIDE DEF R
  <2>1. QED
    BY <1>1, <1>2, <1>4
<1> HIDE DEF R
<1>7. PICK best \in group : \A d \in group : <<best, d>> \notin R
  BY <1>3, <1>5, <1>6, EndExists
<1>8. ASSUME NEW d \in group \ {best}
      PROVE  Better(best, d)
  <2>1. ~Better(d, best)
    BY <1>4, <1>7
  <2>2. /\ best \in Nat /\ size(best) \in Nat /\ rank(best) \in Nat
        /\ d \in Nat /\ size(d) \in Nat /\ rank(d) \in Nat /\ d # best
    BY <1>1
  <2>3. QED
    BY <1>2, <2>1, <2>2
<1>9. QED
  BY <1>8 DEF Survivor

\* What a listing asks for can be merged pair by pair: it keeps apart what keyOf keeps
\* apart, as names of one keyOf are of one key.
LEMMA DuplicatesApart ==
    ASSUME GraphTypes, NEW keyOf, \A n, m \in Name : keyOf[n] = keyOf[m] => Key[n] = Key[m]
    PROVE  MergesApart(Duplicates(keyOf))
<1> DEFINE group(n) == {i \in Live : keyOf[nodes[i].name] = keyOf[n]}
<1>1. ASSUME NEW p \in Duplicates(keyOf)
      PROVE  LET g == group(nodes[p[1]].name)
             IN  /\ p[1] \in Live /\ p[2] \in Live /\ p = <<p[1], p[2]>> /\ p[2] = Survivor(g) /\ p[1] # p[2]
                 /\ keyOf[nodes[p[2]].name] = keyOf[nodes[p[1]].name]
  <2>1. PICK n \in Name : p \in (group(n) \ {Survivor(group(n))}) \X {Survivor(group(n))}
    BY <1>1 DEF Duplicates
  <2>2. p = <<p[1], p[2]>> /\ p[1] \in group(n) /\ p[2] = Survivor(group(n)) /\ p[1] # p[2]
    BY <2>1
  <2>3. p[2] \in group(n)
    BY <2>2, BestSurvives
  <2>4. keyOf[nodes[p[1]].name] = keyOf[n]
    BY <2>2
  <2>5. group(nodes[p[1]].name) = group(n)
    BY <2>4
  <2>6. QED
    BY <2>2, <2>3, <2>4, <2>5
<1>2. \A i \in Live : nodes[i].name \in Name
  BY DEF GraphTypes, EntityNodes
<1>3. \A p \in Duplicates(keyOf) : OneEntity(p[1], p[2])
  BY <1>1, <1>2 DEF OneEntity, KeyAt
<1>4. ASSUME NEW p \in Duplicates(keyOf), NEW q \in Duplicates(keyOf)
      PROVE  p[2] # q[1] /\ (p[1] = q[1] => p = q)
  <2>1. CASE p[1] = q[1]
    <3>1. p = <<p[1], p[2]>> /\ q = <<q[1], q[2]>> /\ q[1] # q[2]
      BY <1>1
    <3>2. group(nodes[p[1]].name) = group(nodes[q[1]].name)
      BY <2>1
    <3>3. p[2] = q[2]
      BY <1>1, <3>2
    <3>4. QED
      BY <2>1, <3>1, <3>3
  <2>2. CASE p[2] = q[1]
    <3>1. keyOf[nodes[p[1]].name] = keyOf[nodes[q[1]].name]
      BY <1>1, <2>2
    <3>2. group(nodes[p[1]].name) = group(nodes[q[1]].name)
      BY <3>1
    <3>3. p[2] = q[2]
      BY <1>1, <3>2
    <3>4. QED
      BY <1>1, <2>2, <3>3
  <2>3. QED
    BY <2>1, <2>2
<1>5. QED
  BY <1>3, <1>4 DEF MergesApart

\* What is kept of the ranked pairs are pairs that were ranked.
LEMMA RankedPairs ==
    ASSUME IsFiniteSet(work), RankPairs
    PROVE  work' \subseteq work
<1> DEFINE df(i) == IF MentionsOf(i) = {} THEN 1 ELSE Cardinality(MentionsOf(i))
           before(p, q) ==
             LET wp == p[3] * p[3] * df(q[1]) * df(q[2])
                 wq == q[3] * q[3] * df(p[1]) * df(p[2])
             IN  \/ wp > wq
                 \/ wp = wq /\ p[3] > q[3]
                 \/ wp = wq /\ p[3] = q[3]
                       /\ (p[1] < q[1] \/ (p[1] = q[1] /\ p[2] < q[2]))
           at(k) == CHOOSE p \in work : Cardinality({q \in work : before(q, p)}) = k - 1
           room(S, i) == Cardinality({p \in S : i \in {p[1], p[2]}}) < MaxCoDegree
           taken(k, S) == {p \in work : p = at(k) /\ room(S, p[1]) /\ room(S, p[2])}
           N == Cardinality(work)
           Keeps(f) == f = [k \in 0 .. N |-> IF k = 0 THEN {} ELSE f[k - 1] \cup taken(k, f[k - 1])]
           F == CHOOSE f : Keeps(f)
           g == [p \in (1 .. N) \X SUBSET work |-> p[2] \cup taken(p[1], p[2])]
<1>1. work' = F[N]
  BY DEF RankPairs, Decide
<1>2. \A k, S : taken(k, S) \subseteq work
  OBVIOUS
<1> HIDE DEF taken
<1>3. N \in Nat
  BY FS_CardinalityType
<1> HIDE DEF N
<1>4. \A n \in 1 .. N : \A S \in SUBSET work : /\ g[<<n, S>>] = S \cup taken(n, S)
                                               /\ g[<<n, S>>] \in SUBSET work
  BY <1>2
<1> HIDE DEF g
<1>5. PICK f : Follows(f, SUBSET work, {}, N, g)
  <2>1. StaysIn(SUBSET work, N, g)
    BY <1>4 DEF StaysIn
  <2>2. {} \in SUBSET work
    OBVIOUS
  <2>3. QED
    BY <1>3, <2>1, <2>2, Iterated
<1>6. /\ f \in [0 .. N -> SUBSET work] /\ f[0] = {}
      /\ \A n \in 1 .. N : f[n] = g[<<n, f[n - 1]>>]
  BY <1>5 DEF Follows
<1>7. ASSUME NEW n \in 0 .. N
      PROVE  f[n] = IF n = 0 THEN {} ELSE f[n - 1] \cup taken(n, f[n - 1])
  <2>1. CASE n = 0
    BY <1>6, <2>1
  <2>2. CASE n # 0
    <3>1. n \in 1 .. N /\ n - 1 \in 0 .. N
      BY <1>3, <2>2
    <3>2. f[n - 1] \in SUBSET work
      BY <1>6, <3>1
    <3>3. QED
      BY <1>4, <1>6, <2>2, <3>1, <3>2
  <2>3. QED
    BY <2>1, <2>2
<1>8. Keeps(F)
  <2>1. Keeps(f)
    BY <1>6, <1>7
  <2> HIDE DEF Keeps
  <2>2. QED
    BY <2>1
<1> HIDE DEF F
<1> DEFINE T == {n \in Nat : n <= N => F[n] \subseteq work}
<1>9. \A n \in 0 .. N : F[n] = IF n = 0 THEN {} ELSE F[n - 1] \cup taken(n, F[n - 1])
  BY <1>8
<1>10. 0 \in T
  <2>1. 0 \in 0 .. N
    BY <1>3
  <2>2. F[0] = {}
    BY <1>9, <2>1
  <2>3. QED
    BY <2>2
<1>11. ASSUME NEW n \in Nat, n \in T
       PROVE  n + 1 \in T
  <2>1. SUFFICES ASSUME n + 1 <= N
                 PROVE  F[n + 1] \subseteq work
    OBVIOUS
  <2>2. n + 1 \in 0 .. N /\ n + 1 # 0 /\ (n + 1) - 1 = n /\ n <= N
    BY <1>3, <2>1
  <2>3. F[n + 1] = F[n] \cup taken(n + 1, F[n])
    BY <1>9, <2>2
  <2>4. QED
    BY <1>2, <1>11, <2>2, <2>3
<1>12. N \in T
  <2> HIDE DEF T
  <2>1. QED
    BY <1>3, <1>10, <1>11, CountingUp
<1>13. QED
  BY <1>1, <1>3, <1>12

\* The pairs that are ranked are finitely many, each from the lower id to the higher.
LEMMA PairedEntities ==
    ASSUME GraphTypes, PairEntities
    PROVE  LowToHigh(work') /\ IsFiniteSet(work')
<1> DEFINE shared(a) == Cardinality(MentionsOf(a[1]) \cap MentionsOf(a[2]))
           row(a) == <<a[1], a[2], shared(a)>>
           pairs == {p \in Live \X Live \X (MinShared .. Cardinality(Task)) :
                       p[1] < p[2] /\ p[3] = shared(p)}
<1>1. work' = pairs
  BY DEF PairEntities, Decide
<1>2. IsFiniteSet(Live)
  <2>1. created \in Int /\ 1 \in Int /\ Live \subseteq 1 .. created
    BY DEF GraphTypes
  <2>2. IsFiniteSet(1 .. created)
    BY <2>1, FS_Interval
  <2>3. QED
    BY <2>1, <2>2, FS_Subset
<1>3. IsFiniteSet(Live \X Live)
  BY <1>2, FS_Product
<1>4. IsFiniteSet({row(a) : a \in Live \X Live})
  <2> DEFINE rows == {row(a) : a \in Live \X Live}
             f == [a \in Live \X Live |-> row(a)]
  <2>1. f \in Surjection(Live \X Live, rows)
    BY DEF Surjection
  <2> HIDE DEF f, rows
  <2>2. IsFiniteSet(rows)
    BY <1>3, <2>1, FS_Surjection
  <2>3. QED
    BY <2>2 DEF rows
<1>5. pairs \subseteq {row(a) : a \in Live \X Live}
  <2>1. SUFFICES ASSUME NEW p \in pairs
                 PROVE  p \in {row(a) : a \in Live \X Live}
    OBVIOUS
  <2>2. <<p[1], p[2]>> \in Live \X Live /\ p = <<p[1], p[2], p[3]>> /\ p[3] = shared(<<p[1], p[2]>>)
    OBVIOUS
  <2> HIDE DEF shared
  <2>3. p = row(<<p[1], p[2]>>)
    BY <2>2
  <2>4. QED
    BY <2>2, <2>3
<1>6. IsFiniteSet(pairs)
  BY <1>4, <1>5, FS_Subset
<1>7. LowToHigh(pairs)
  BY DEF LowToHigh, GraphTypes, Live
<1>8. QED
  BY <1>1, <1>6, <1>7

\* While every edge goes on between nodes of the same keys, what was asserted stays.
LEMMA CarriedOver ==
    ASSUME NEW E, NEW E2, NEW N, NEW N2,
           \A e \in E : e.from \in DOMAIN N /\ e.to \in DOMAIN N =>
             \E d \in E2 : /\ d.from \in DOMAIN N2 /\ Key[N2[d.from].name] = Key[N[e.from].name]
                           /\ d.to \in DOMAIN N2 /\ Key[N2[d.to].name] = Key[N[e.to].name]
                           /\ Canon[d.label] = Canon[e.label]
    PROVE  \A r : Spans(E, N, r) => Spans(E2, N2, r)
BY DEF Spans

LEMMA NameStays ==
    ASSUME NEW k, NEW N, NEW N2, NEW calm, NEW calm2, TaskSound(k, N, calm),
           calm2 \in BOOLEAN, calm \in BOOLEAN, calm2 => calm,
           DOMAIN N \subseteq DOMAIN N2, \A i \in DOMAIN N : N2[i].name = N[i].name
    PROVE  TaskSound(k, N2, calm2)
BY DEF TaskSound, Named

\* A step that leaves nodes and tasks alone, and loses no edge.
LEMMA EdgesChange ==
    ASSUME GraphSound, UNCHANGED <<nodes, created, tasks>>, relates' \subseteq Relations,
           raced' \in BOOLEAN, raced => raced', LowToHigh(comentions'), asserted' = asserted,
           ~raced' => \A r : Spans(relates, nodes, r) => Spans(relates', nodes, r)
    PROVE  GraphSound'
<1>1. GraphTypes'
  BY DEF GraphSound, GraphTypes, Live
<1>2. \A t \in Task : TaskSound(tasks'[t], nodes', ~raced')
  BY NameStays DEF GraphSound
<1>3. ASSUME ~raced', NEW r \in asserted'
      PROVE  Spans(relates', nodes', r)
  <2>1. ~raced /\ r \in asserted
    BY <1>3
  <2>2. Spans(relates, nodes, r)
    BY <2>1 DEF GraphSound
  <2>3. Spans(relates', nodes, r)
    BY <1>3, <2>2
  <2>4. QED
    BY <2>3
<1>4. QED
  BY <1>1, <1>2, <1>3 DEF GraphSound

LEMMA GraphAlone ==
    ASSUME GraphSound, UNCHANGED <<nodes, created, tasks, relates, comentions, asserted, raced>>
    PROVE  GraphSound'
<1>1. relates' \subseteq Relations
  BY DEF GraphSound, GraphTypes
<1>2. raced' \in BOOLEAN /\ (raced => raced')
  BY DEF GraphSound
<1>3. LowToHigh(comentions')
  BY DEF GraphSound
<1>4. \A r : Spans(relates, nodes, r) => Spans(relates', nodes, r)
  OBVIOUS
<1>5. QED
  BY <1>1, <1>2, <1>3, <1>4, EdgesChange

\* A job that begins, or is over, has nothing to do yet.
LEMMA JobBegins ==
    ASSUME NEW j, Begin(j)
    PROVE  JobSound'
BY DEF Begin, JobSound, MergesApart, LowToHigh

LEMMA TakesMerge ==
    ASSUME GraphInv, TakeMerge
    PROVE  JobSound'
<1>1. /\ stage = "merge" /\ MergesApart(work) /\ GraphTypes
  BY DEF GraphInv, GraphSound, JobSound, TakeMerge
<1>2. PICK p \in work :
        /\ work' = work \ {p}
        /\ merge' = [src |-> p[1], dst |-> p[2], step |-> "out",
                     aliases |-> nodes[p[2]].aliases \cup {nodes[p[1]].name}
                                   \cup nodes[p[1]].aliases]
  BY DEF TakeMerge
<1>3. nodes' = nodes /\ stage' = stage /\ job' = job
  BY DEF TakeMerge, graphVars
<1>4. OneEntity(p[1], p[2]) /\ p[1] \in Live /\ p[2] \in Live
  BY <1>1 DEF MergesApart, OneEntity
<1>5. p[1] \in Nat /\ p[2] \in Nat /\ nodes[p[1]] \in EntityNodes /\ nodes[p[2]] \in EntityNodes
  BY <1>1, <1>4 DEF GraphTypes, Live
<1> DEFINE src == p[1]
           dst == p[2]
           all == nodes[p[2]].aliases \cup {nodes[p[1]].name} \cup nodes[p[1]].aliases
<1>6. all \in SUBSET Name
  BY <1>5 DEF EntityNodes
<1>7. IsFiniteSet(all)
  <2>1. IsFiniteSet(nodes[p[2]].aliases) /\ IsFiniteSet(nodes[p[1]].aliases)
    BY <1>1, <1>4 DEF GraphTypes
  <2>2. IsFiniteSet({nodes[p[1]].name})
    BY FS_Singleton
  <2>3. QED
    BY <2>1, <2>2, FS_Union
<1>8. merge' = [src |-> src, dst |-> dst, step |-> "out", aliases |-> all]
  BY <1>2
<1>9. src \in Nat /\ dst \in Nat /\ OneEntity(src, dst)'
  BY <1>3, <1>4, <1>5 DEF OneEntity, KeyAt, Live
<1> HIDE DEF src, dst, all
<1>10. merge' \in Merges /\ merge'.src = src /\ merge'.dst = dst /\ merge'.aliases = all /\ merge'.step = "out"
  BY <1>6, <1>8, <1>9 DEF Merges
<1>11. \A q \in work' : q[1] \notin {src, dst} /\ q[2] # src
  BY <1>1, <1>2 DEF MergesApart, src, dst
<1>12. MergesApart(work)'
  <2>1. \A q \in work : OneEntity(q[1], q[2])'
    BY <1>1, <1>3 DEF MergesApart, OneEntity, KeyAt, Live
  <2>2. QED
    BY <1>1, <1>2, <2>1 DEF MergesApart
<1>13. MergeSound'
  BY <1>1, <1>3, <1>7, <1>9, <1>10, <1>11 DEF MergeSound
<1>14. QED
  BY <1>1, <1>3, <1>12, <1>13 DEF JobSound

\* The steps that only decide what to do, and touch no part of the graph.
LEMMA DecidingStep ==
    ASSUME GraphInv,
           \/ StartPass \/ FailJob \/ ListDuplicates \/ TakeMerge \/ MergesDone
           \/ Visit \/ VisitsDone \/ MapNames \/ PairMemories \/ PairEntities \/ RankPairs
           \/ CoMentionsDone \/ ListLabels \/ LabelsDone
    PROVE  GraphInv'
<1>1. GraphSound /\ JobSound /\ GraphTypes
  BY DEF GraphInv, GraphSound
<1>2. UNCHANGED <<nodes, created, tasks, relates, comentions, asserted, raced>>
  BY DEF StartPass, FailJob, ListDuplicates, TakeMerge, MergesDone, Visit, VisitsDone, MapNames,
         PairMemories, PairEntities, RankPairs, CoMentionsDone, ListLabels, LabelsDone, JobOver,
         Decide, graphVars
<1>3. GraphSound'
  BY <1>1, <1>2, GraphAlone
<1> SUFFICES JobSound'
  BY <1>3 DEF GraphInv
<1>4. CASE StartPass \/ FailJob \/ VisitsDone \/ CoMentionsDone \/ LabelsDone
  BY <1>4, JobBegins DEF StartPass, FailJob, VisitsDone, CoMentionsDone, LabelsDone, JobOver
<1>5. merge # None => stage = "merge"
  BY <1>1 DEF JobSound, MergeSound
<1>6. CASE MapNames \/ PairMemories \/ ListLabels
  <2>1. merge' = None /\ job' # "comention" /\ stage' # "merge"
    BY <1>5, <1>6 DEF MapNames, PairMemories, ListLabels, AtStage, Decide
  <2>2. QED
    BY <2>1 DEF JobSound
<1>7. CASE MergesDone
  <2>1. CASE JobOver
    BY <2>1, JobBegins DEF JobOver
  <2>2. CASE job = "resolution" /\ Decide("visit", Live \X {"visit"})
    <3>1. merge' = None /\ job' # "comention" /\ stage' # "merge"
      BY <1>7, <2>2 DEF MergesDone, StageDone, Decide
    <3>2. QED
      BY <3>1 DEF JobSound
  <2>3. QED
    BY <1>7, <2>1, <2>2 DEF MergesDone
<1>8. CASE Visit
  <2>1. merge' = None /\ job' # "comention" /\ stage' # "merge"
    BY <1>5, <1>8 DEF Visit, AtStage
  <2>2. QED
    BY <2>1 DEF JobSound
<1>9. CASE PairEntities
  <2>1. merge' = None /\ stage' = "rank"
    BY <1>5, <1>9 DEF PairEntities, AtStage, Decide
  <2>2. LowToHigh(work') /\ IsFiniteSet(work')
    BY <1>1, <1>9, PairedEntities
  <2>3. QED
    BY <2>1, <2>2 DEF JobSound
<1>10. CASE RankPairs
  <2>1. merge' = None /\ stage' = "assert" /\ job = "comention" /\ stage = "rank"
    BY <1>5, <1>10 DEF RankPairs, AtStage, Decide
  <2>2. work' \subseteq work /\ LowToHigh(work)
    BY <1>1, <1>10, <2>1, RankedPairs DEF JobSound
  <2>3. LowToHigh(work')
    BY <2>2 DEF LowToHigh
  <2>4. QED
    BY <2>1, <2>3 DEF JobSound
<1>11. CASE ListDuplicates
  <2>1. /\ merge' = None /\ stage' = "merge" /\ nodes' = nodes /\ job' = job /\ job # "comention"
        /\ work' \in {Duplicates(SameKey), Duplicates(SameName)}
    BY <1>2, <1>5, <1>11 DEF ListDuplicates, Decide
  <2>2. MergesApart(Duplicates(SameKey))
    <3>1. \A n, m \in Name : SameKey[n] = SameKey[m] => Key[n] = Key[m]
      BY DEF SameKey
    <3>2. QED
      BY <1>1, <3>1, DuplicatesApart
  <2>3. MergesApart(Duplicates(SameName))
    <3>1. \A n, m \in Name : SameName[n] = SameName[m] => Key[n] = Key[m]
      BY DEF SameName
    <3>2. QED
      BY <1>1, <3>1, DuplicatesApart
  <2>4. MergesApart(work')
    BY <2>1, <2>2, <2>3
  <2>5. MergesApart(work)'
    BY <2>1, <2>4 DEF MergesApart, OneEntity, KeyAt, Live
  <2>6. QED
    BY <2>1, <2>5 DEF JobSound
<1>12. CASE TakeMerge
  BY <1>12, TakesMerge
<1>13. QED
  BY <1>4, <1>6, <1>7, <1>8, <1>9, <1>10, <1>11, <1>12

\* A query of a merge, other than the last.
LEMMA MergeGoesOn ==
    ASSUME GraphInv, NEW from,
           NEW to \in {"in", "mentions", "co", "loop", "alias", "delete"}, MergeStep(from, to),
           DOMAIN nodes' = Live, \A i \in Live : nodes'[i].name = nodes[i].name,
           ~raced' => /\ \A e \in relates' : e.from # merge.src
                      /\ to # "in" => \A e \in relates' : e.to # merge.src
    PROVE  JobSound'
<1>1. /\ MergeSound /\ MergesApart(work) /\ merge # None /\ stage = "merge"
      /\ merge' = [merge EXCEPT !.step = to] /\ stage' = stage /\ work' = work /\ job' = job
  BY DEF GraphInv, JobSound, MergeStep
<1>2. merge \in Merges
  BY <1>1 DEF MergeSound
<1>3. /\ merge' \in Merges /\ merge'.src = merge.src /\ merge'.dst = merge.dst
      /\ merge'.aliases = merge.aliases /\ merge'.step = to
  BY <1>1, <1>2 DEF Merges
<1>4. \A i, j : OneEntity(i, j) => OneEntity(i, j)'
  BY DEF OneEntity, KeyAt, Live
<1>5. OneEntity(merge.src, merge.dst)'
  <2>1. OneEntity(merge.src, merge.dst)
    BY <1>1 DEF MergeSound
  <2> DEFINE s == merge.src
             d == merge.dst
  <2>2. Live' = Live /\ s \in Live /\ d \in Live /\ s # d /\ KeyAt(s) = KeyAt(d)
    BY <2>1 DEF OneEntity, Live
  <2>3. merge'.src = s /\ merge'.dst = d
    BY <1>3
  <2> HIDE DEF s, d
  <2>4. QED
    BY <2>2, <2>3 DEF OneEntity, KeyAt
<1>6. MergeSound'
  BY <1>1, <1>3, <1>5 DEF MergeSound
<1>7. MergesApart(work)'
  BY <1>1, <1>4 DEF MergesApart
<1>8. QED
  BY <1>1, <1>6, <1>7 DEF JobSound

\* What a merge under way knows.
LEMMA MergeAt ==
    ASSUME GraphInv, NEW from, NEW to, MergeStep(from, to)
    PROVE  /\ GraphSound /\ JobSound /\ MergeSound /\ merge \in Merges /\ merge.step = from
           /\ merge.src \in Live /\ merge.dst \in Live /\ merge.src \in Nat /\ merge.dst \in Nat
           /\ merge.src # merge.dst /\ KeyAt(merge.src) = KeyAt(merge.dst)
           /\ raced \in BOOLEAN /\ raced' \in BOOLEAN /\ (raced => raced')
           /\ relates \subseteq Relations /\ UNCHANGED <<created, tasks, asserted>>
<1>1. GraphSound /\ JobSound /\ MergeSound /\ merge.step = from
  BY DEF GraphInv, JobSound, MergeStep
<1>2. merge \in Merges /\ OneEntity(merge.src, merge.dst)
  BY <1>1 DEF MergeSound
<1>3. raced \in BOOLEAN /\ raced' \in BOOLEAN /\ (raced => raced')
  <2>1. raced \in BOOLEAN /\ raced' = (raced \/ InFlight)
    BY <1>1 DEF GraphSound, MergeStep
  <2>2. QED
    BY <2>1, Zenon
<1>4. QED
  BY <1>1, <1>2, <1>3 DEF Merges, OneEntity, GraphSound, GraphTypes, MergeStep

LEMMA OutgoingMove ==
    ASSUME GraphInv, MergeOut
    PROVE  GraphInv'
<1>1. MergeStep("out", "in") /\ UNCHANGED <<nodes, mentions, comentions>>
  BY DEF MergeOut
<1>2. /\ GraphSound /\ JobSound /\ MergeSound /\ merge \in Merges /\ merge.step = "out"
      /\ merge.src \in Live /\ merge.dst \in Live /\ merge.src \in Nat /\ merge.dst \in Nat
      /\ merge.src # merge.dst /\ KeyAt(merge.src) = KeyAt(merge.dst)
      /\ raced \in BOOLEAN /\ raced' \in BOOLEAN /\ (raced => raced')
      /\ relates \subseteq Relations /\ UNCHANGED <<created, tasks, asserted>>
  BY <1>1, MergeAt
<1> DEFINE src == merge.src
           dst == merge.dst
           rows == {e \in relates : e.from = src}
           image == [e \in rows |-> [e EXCEPT !.from = dst]]
<1>3. relates' \in Repointed(image)
  BY DEF MergeOut
<1>4. /\ src \in Live /\ dst \in Live /\ dst \in Nat /\ src # dst
      /\ Key[nodes[src].name] = Key[nodes[dst].name]
  BY <1>2 DEF KeyAt
<1> HIDE DEF src, dst
<1>5. \A e \in rows : /\ image[e] \in Relations /\ image[e].from = dst
                      /\ image[e].label = e.label /\ image[e].to = e.to
  BY <1>2, <1>4 DEF Relations
<1>6. DOMAIN image = rows /\ rows \subseteq relates
  OBVIOUS
<1> HIDE DEF image
<1>7. /\ relates' \subseteq Relations
      /\ \A e \in relates \ rows : \E d \in relates' : PlaceOf(d) = PlaceOf(e)
      /\ \A e \in rows : \E d \in relates' : PlaceOf(d) = PlaceOf(image[e])
      /\ \A d \in relates' : \/ \E e \in relates \ rows : PlaceOf(d) = PlaceOf(e)
                             \/ \E e \in rows : PlaceOf(d) = PlaceOf(image[e])
  BY <1>2, <1>3, <1>5, <1>6, RepointKeeps
<1>8. \A r : Spans(relates, nodes, r) => Spans(relates', nodes, r)
  <2>1. ASSUME NEW e \in relates, e.from \in Live, e.to \in Live
        PROVE  \E d \in relates' :
                 /\ d.from \in Live /\ Key[nodes[d.from].name] = Key[nodes[e.from].name]
                 /\ d.to \in Live /\ Key[nodes[d.to].name] = Key[nodes[e.to].name]
                 /\ Canon[d.label] = Canon[e.label]
    <3>1. CASE e \in rows
      <4>1. PICK d \in relates' : PlaceOf(d) = PlaceOf(image[e])
        BY <1>7, <3>1
      <4>2. d.from = dst /\ d.label = e.label /\ d.to = e.to /\ e.from = src
        BY <1>5, <3>1, <4>1 DEF PlaceOf
      <4>3. QED
        BY <1>4, <2>1, <4>2
    <3>2. CASE e \notin rows
      <4>1. PICK d \in relates' : PlaceOf(d) = PlaceOf(e)
        BY <1>7, <3>2
      <4>2. d.from = e.from /\ d.label = e.label /\ d.to = e.to
        BY <4>1 DEF PlaceOf
      <4>3. QED
        BY <2>1, <4>2
    <3>3. QED
      BY <3>1, <3>2
  <2>2. QED
    BY <2>1, CarriedOver DEF Live
<1>9. \A d \in relates' : d.from # src
  <2>1. ASSUME NEW d \in relates'
        PROVE  d.from # src
    <3>1. CASE \E e \in relates \ rows : PlaceOf(d) = PlaceOf(e)
      BY <3>1 DEF PlaceOf
    <3>2. CASE \E e \in rows : PlaceOf(d) = PlaceOf(image[e])
      BY <1>4, <1>5, <3>2 DEF PlaceOf
    <3>3. QED
      BY <1>7, <3>1, <3>2
  <2>2. QED
    BY <2>1
<1>10. GraphSound'
  <2>1. LowToHigh(comentions')
    BY <1>1, <1>2 DEF GraphSound
  <2>2. QED
    BY <1>1, <1>2, <1>7, <1>8, <2>1, EdgesChange
<1>11. JobSound'
  <2>1. \A e \in relates' : e.from # merge.src
    BY <1>9 DEF src
  <2>2. DOMAIN nodes' = Live /\ \A i \in Live : nodes'[i].name = nodes[i].name
    BY <1>1 DEF Live
  <2>3. QED
    BY <1>1, <2>1, <2>2, MergeGoesOn
<1>12. QED
  BY <1>10, <1>11 DEF GraphInv

LEMMA IncomingMove ==
    ASSUME GraphInv, MergeIn
    PROVE  GraphInv'
<1>1. MergeStep("in", "mentions") /\ UNCHANGED <<nodes, mentions, comentions>>
  BY DEF MergeIn
<1>2. /\ GraphSound /\ JobSound /\ MergeSound /\ merge \in Merges /\ merge.step = "in"
      /\ merge.src \in Live /\ merge.dst \in Live /\ merge.src \in Nat /\ merge.dst \in Nat
      /\ merge.src # merge.dst /\ KeyAt(merge.src) = KeyAt(merge.dst)
      /\ raced \in BOOLEAN /\ raced' \in BOOLEAN /\ (raced => raced')
      /\ relates \subseteq Relations /\ UNCHANGED <<created, tasks, asserted>>
  BY <1>1, MergeAt
<1> DEFINE src == merge.src
           dst == merge.dst
           rows == {e \in relates : e.to = src}
           image == [e \in rows |-> [e EXCEPT !.to = dst]]
<1>3. relates' \in Repointed(image)
  BY DEF MergeIn
<1>4. /\ src \in Live /\ dst \in Live /\ dst \in Nat /\ src # dst
      /\ Key[nodes[src].name] = Key[nodes[dst].name]
      /\ ~raced => \A e \in relates : e.from # src
  BY <1>2 DEF KeyAt, MergeSound
<1> HIDE DEF src, dst
<1>5. \A e \in rows : /\ image[e] \in Relations /\ image[e].to = dst
                      /\ image[e].label = e.label /\ image[e].from = e.from
  BY <1>2, <1>4 DEF Relations
<1>6. DOMAIN image = rows /\ rows \subseteq relates
  OBVIOUS
<1> HIDE DEF image
<1>7. /\ relates' \subseteq Relations
      /\ \A e \in relates \ rows : \E d \in relates' : PlaceOf(d) = PlaceOf(e)
      /\ \A e \in rows : \E d \in relates' : PlaceOf(d) = PlaceOf(image[e])
      /\ \A d \in relates' : \/ \E e \in relates \ rows : PlaceOf(d) = PlaceOf(e)
                             \/ \E e \in rows : PlaceOf(d) = PlaceOf(image[e])
  BY <1>2, <1>3, <1>5, <1>6, RepointKeeps
<1>8. \A r : Spans(relates, nodes, r) => Spans(relates', nodes, r)
  <2>1. ASSUME NEW e \in relates, e.from \in Live, e.to \in Live
        PROVE  \E d \in relates' :
                 /\ d.from \in Live /\ Key[nodes[d.from].name] = Key[nodes[e.from].name]
                 /\ d.to \in Live /\ Key[nodes[d.to].name] = Key[nodes[e.to].name]
                 /\ Canon[d.label] = Canon[e.label]
    <3>1. CASE e \in rows
      <4>1. PICK d \in relates' : PlaceOf(d) = PlaceOf(image[e])
        BY <1>7, <3>1
      <4>2. d.to = dst /\ d.label = e.label /\ d.from = e.from /\ e.to = src
        BY <1>5, <3>1, <4>1 DEF PlaceOf
      <4>3. QED
        BY <1>4, <2>1, <4>2
    <3>2. CASE e \notin rows
      <4>1. PICK d \in relates' : PlaceOf(d) = PlaceOf(e)
        BY <1>7, <3>2
      <4>2. d.from = e.from /\ d.label = e.label /\ d.to = e.to
        BY <4>1 DEF PlaceOf
      <4>3. QED
        BY <2>1, <4>2
    <3>3. QED
      BY <3>1, <3>2
  <2>2. QED
    BY <2>1, CarriedOver DEF Live
<1>9. \A d \in relates' : d.to # src /\ (~raced => d.from # src)
  <2>1. ASSUME NEW d \in relates'
        PROVE  d.to # src /\ (~raced => d.from # src)
    <3>1. CASE \E e \in relates \ rows : PlaceOf(d) = PlaceOf(e)
      BY <1>4, <3>1 DEF PlaceOf
    <3>2. CASE \E e \in rows : PlaceOf(d) = PlaceOf(image[e])
      BY <1>4, <1>5, <3>2 DEF PlaceOf
    <3>3. QED
      BY <1>7, <3>1, <3>2
  <2>2. QED
    BY <2>1
<1>10. GraphSound'
  <2>1. LowToHigh(comentions')
    BY <1>1, <1>2 DEF GraphSound
  <2>2. QED
    BY <1>1, <1>2, <1>7, <1>8, <2>1, EdgesChange
<1>11. JobSound'
  <2>1. ~raced' => /\ \A e \in relates' : e.from # merge.src
                   /\ \A e \in relates' : e.to # merge.src
    BY <1>2, <1>9 DEF src
  <2>2. DOMAIN nodes' = Live /\ \A i \in Live : nodes'[i].name = nodes[i].name
    BY <1>1 DEF Live
  <2>3. QED
    BY <1>1, <2>1, <2>2, MergeGoesOn
<1>12. QED
  BY <1>10, <1>11 DEF GraphInv

\* The queries that move mentions and co-mentions.
LEMMA MentionsMove ==
    ASSUME GraphInv, MergeMentions \/ MergeCoMentions \/ DropSelfLoop
    PROVE  GraphInv'
<1>1. PICK from \in {"mentions", "co", "loop"}, to \in {"co", "loop", "alias"} : MergeStep(from, to)
  BY DEF MergeMentions, MergeCoMentions, DropSelfLoop
<1>2. nodes' = nodes /\ relates' = relates
  BY DEF MergeMentions, MergeCoMentions, DropSelfLoop
<1>3. /\ GraphSound /\ JobSound /\ MergeSound /\ merge \in Merges /\ merge.step = from
      /\ merge.src \in Nat /\ merge.dst \in Nat /\ merge.src # merge.dst
      /\ raced \in BOOLEAN /\ raced' \in BOOLEAN /\ (raced => raced')
      /\ relates \subseteq Relations /\ UNCHANGED <<created, tasks, asserted>>
  BY <1>1, MergeAt
<1>4. LowToHigh(comentions)
  BY <1>3 DEF GraphSound
<1>5. LowToHigh(comentions')
  <2>1. CASE MergeMentions
    BY <1>4, <2>1 DEF MergeMentions
  <2>2. CASE DropSelfLoop
    BY <1>4, <2>2 DEF DropSelfLoop, LowToHigh
  <2>3. CASE MergeCoMentions
    <3> DEFINE moved == Others(merge.src) \ {merge.dst}
    <3>1. \A o \in moved : o \in Nat /\ o # merge.dst
      BY <1>4 DEF Others, LowToHigh
    <3>2. comentions' \subseteq comentions \cup {Canonical(merge.dst, o) : o \in moved}
      BY <2>3 DEF MergeCoMentions
    <3> HIDE DEF moved
    <3>3. LowToHigh({Canonical(merge.dst, o) : o \in moved})
      BY <1>3, <3>1 DEF LowToHigh, Canonical
    <3>4. QED
      BY <1>4, <3>2, <3>3 DEF LowToHigh
  <2>4. QED
    BY <2>1, <2>2, <2>3
<1>6. GraphSound'
  BY <1>2, <1>3, <1>5, EdgesChange
<1>7. JobSound'
  <2>1. ~raced' => /\ \A e \in relates' : e.from # merge.src
                   /\ \A e \in relates' : e.to # merge.src
    BY <1>2, <1>3 DEF MergeSound
  <2>2. DOMAIN nodes' = Live /\ \A i \in Live : nodes'[i].name = nodes[i].name
    BY <1>2 DEF Live
  <2>3. QED
    BY <1>1, <2>1, <2>2, MergeGoesOn
<1>8. QED
  BY <1>6, <1>7 DEF GraphInv

LEMMA AliasesFold ==
    ASSUME GraphInv, FoldMerged
    PROVE  GraphInv'
<1>1. MergeStep("alias", "delete") /\ UNCHANGED <<mentions, relates, comentions>>
  BY DEF FoldMerged
<1>2. /\ GraphSound /\ JobSound /\ MergeSound /\ merge \in Merges /\ merge.step = "alias"
      /\ merge.dst \in Live
      /\ raced \in BOOLEAN /\ raced' \in BOOLEAN /\ (raced => raced')
      /\ relates \subseteq Relations /\ UNCHANGED <<created, tasks, asserted>>
  BY <1>1, MergeAt
<1> DEFINE dst == merge.dst
           all == merge.aliases
<1>3. all \in SUBSET Name /\ IsFiniteSet(all) /\ dst \in Live
  BY <1>2 DEF Merges, MergeSound
<1>4. nodes' = [nodes EXCEPT ![dst].aliases = all]
  BY DEF FoldMerged
<1>5. nodes \in [Live -> EntityNodes] /\ Live \subseteq 1 .. created /\ created \in Nat
      /\ \A i \in Live : IsFiniteSet(nodes[i].aliases)
  BY <1>2 DEF GraphSound, GraphTypes
<1> HIDE DEF dst, all
<1>6. /\ DOMAIN nodes' = Live /\ nodes' \in [Live -> EntityNodes]
      /\ \A i \in Live : nodes'[i].name = nodes[i].name
      /\ \A i \in Live : nodes'[i].aliases = IF i = dst THEN all ELSE nodes[i].aliases
  BY <1>3, <1>4, <1>5 DEF EntityNodes
<1>7. GraphTypes'
  BY <1>1, <1>2, <1>3, <1>5, <1>6 DEF GraphTypes, GraphSound, Live
<1>8. \A t \in Task : TaskSound(tasks'[t], nodes', ~raced')
  BY <1>2, <1>6, NameStays DEF GraphSound, Live
<1>9. \A r : Spans(relates, nodes, r) => Spans(relates', nodes', r)
  BY <1>1, <1>6, CarriedOver DEF Live
<1>10. GraphSound'
  BY <1>1, <1>2, <1>7, <1>8, <1>9 DEF GraphSound
<1>11. JobSound'
  <2>1. ~raced' => /\ \A e \in relates' : e.from # merge.src
                   /\ \A e \in relates' : e.to # merge.src
    BY <1>1, <1>2 DEF MergeSound
  <2>2. QED
    BY <1>1, <1>6, <2>1, MergeGoesOn
<1>12. QED
  BY <1>10, <1>11 DEF GraphInv

\* The node goes, with nothing at it, unless ingestion was under way.
LEMMA DuplicateGoes ==
    ASSUME GraphInv, DeleteMerged
    PROVE  GraphInv'
<1>1. /\ MergeStep("delete", "end") /\ merge' = None /\ stage' = stage /\ work' = work /\ job' = job
      /\ raced' = (raced \/ InFlight) /\ stage = "merge"
  BY DEF DeleteMerged, MergeStep
<1>2. /\ GraphSound /\ JobSound /\ MergeSound /\ merge \in Merges /\ merge.step = "delete"
      /\ merge.src \in Live /\ merge.dst \in Live
      /\ raced \in BOOLEAN /\ raced' \in BOOLEAN /\ (raced => raced')
      /\ relates \subseteq Relations /\ UNCHANGED <<created, tasks, asserted>>
  BY <1>1, MergeAt
<1> DEFINE src == merge.src
<1>3. /\ nodes' = [i \in Live \ {src} |-> nodes[i]]
      /\ relates' = {e \in relates : src \notin {e.from, e.to}}
      /\ comentions' = {p \in comentions : src \notin {p[1], p[2]}}
  BY DEF DeleteMerged
<1>4. ~raced => \A e \in relates : e.from # src /\ e.to # src
  BY <1>2 DEF MergeSound
<1>5. \A p \in work : p[1] # src /\ p[2] # src
  BY <1>2 DEF MergeSound
<1> HIDE DEF src
<1>6. nodes \in [Live -> EntityNodes] /\ Live \subseteq 1 .. created /\ created \in Nat
      /\ \A i \in Live : IsFiniteSet(nodes[i].aliases)
  BY <1>2 DEF GraphSound, GraphTypes
<1>7. /\ DOMAIN nodes' = Live \ {src} /\ nodes' \in [Live' -> EntityNodes]
      /\ \A i \in Live \ {src} : nodes'[i] = nodes[i]
  BY <1>3, <1>6 DEF Live
<1>8. GraphTypes'
  BY <1>2, <1>3, <1>6, <1>7 DEF GraphTypes, GraphSound, Live
<1>9. ASSUME NEW t \in Task
      PROVE  TaskSound(tasks'[t], nodes', ~raced')
  <2>1. TaskSound(tasks[t], nodes, ~raced) /\ tasks'[t] = tasks[t]
    BY <1>2 DEF GraphSound
  <2>2. CASE raced'
    BY <2>1, <2>2 DEF TaskSound
  <2>3. CASE ~raced'
    <3>1. tasks[t].op = None /\ \A n \in Name : tasks[t].ids[n] = None
      <4>1. ~InFlight
        BY <1>1, <2>3
      <4>2. QED
        BY <2>1, <4>1 DEF TaskSound, InFlight, Known
    <3>2. QED
      BY <2>1, <3>1 DEF TaskSound, Doing
  <2>4. QED
    BY <2>2, <2>3
<1>10. ASSUME ~raced
       PROVE  \A r : Spans(relates, nodes, r) => Spans(relates', nodes', r)
  BY <1>3, <1>4, <1>7, <1>10, CarriedOver DEF Live
<1>11. GraphSound'
  <2>1. LowToHigh(comentions')
    BY <1>2, <1>3 DEF GraphSound, LowToHigh
  <2>2. ~raced' => \A r \in asserted' : Spans(relates', nodes', r)
    BY <1>2, <1>10 DEF GraphSound
  <2>3. QED
    BY <1>2, <1>8, <1>9, <2>1, <2>2 DEF GraphSound
<1>12. JobSound'
  <2>1. MergesApart(work)
    BY <1>1, <1>2 DEF JobSound
  <2>2. \A p \in work : OneEntity(p[1], p[2])'
    BY <1>5, <1>7, <2>1 DEF MergesApart, OneEntity, KeyAt, Live
  <2>3. MergesApart(work)'
    BY <1>1, <2>1, <2>2 DEF MergesApart
  <2>4. QED
    BY <1>1, <2>3 DEF JobSound
<1>13. QED
  BY <1>11, <1>12 DEF GraphInv


\* A job that works at the edges: nothing that a merge is about changes.
LEMMA EdgeJob ==
    ASSUME GraphInv, UNCHANGED <<nodes, created, tasks, asserted, comentions, job, stage, merge, raced>>,
           stage \notin {"merge", "rank"}, job # "comention", relates' \subseteq Relations,
           \A r : Spans(relates, nodes, r) => Spans(relates', nodes, r)
    PROVE  GraphInv'
<1>1. GraphSound /\ merge = None
  BY DEF GraphInv, JobSound, MergeSound
<1>2. raced' \in BOOLEAN /\ (raced => raced')
  BY <1>1 DEF GraphSound
<1>3. LowToHigh(comentions')
  BY <1>1 DEF GraphSound
<1>4. GraphSound'
  BY <1>1, <1>2, <1>3, EdgesChange
<1>5. JobSound'
  BY <1>1 DEF JobSound
<1>6. QED
  BY <1>4, <1>5 DEF GraphInv

\* A window that is closed leaves its edge where it was.
LEMMA EdgeCloses ==
    ASSUME GraphInv, Prune
    PROVE  GraphInv'
<1>1. PICK v \in work :
        relates' = {IF e.id = v[1] THEN [e EXCEPT !.open = FALSE] ELSE e : e \in relates}
  BY DEF Prune
<1>2. relates \subseteq Relations
  BY DEF GraphInv, GraphSound, GraphTypes
<1> DEFINE closed(e) == IF e.id = v[1] THEN [e EXCEPT !.open = FALSE] ELSE e
<1>3. \A e \in relates : closed(e) \in Relations /\ PlaceOf(closed(e)) = PlaceOf(e)
  BY <1>2 DEF Relations, PlaceOf
<1>4. relates' = {closed(e) : e \in relates}
  BY <1>1
<1> HIDE DEF closed
<1>5. relates' \subseteq Relations /\ \A e \in relates : \E d \in relates' : PlaceOf(d) = PlaceOf(e)
  BY <1>3, <1>4
<1>6. \A r : Spans(relates, nodes, r) => Spans(relates', nodes, r)
  BY <1>5, CarriedOver DEF PlaceOf
<1>7. /\ UNCHANGED <<nodes, created, tasks, asserted, comentions, job, stage, merge, raced>>
      /\ job = "resolution" /\ stage = "visit"
  BY DEF Prune, AtStage
<1>8. QED
  BY <1>5, <1>6, <1>7, EdgeJob

\* A relabelled edge keeps its canonical label and its ends.
LEMMA LabelMoves ==
    ASSUME GraphInv, MergeRelations
    PROVE  GraphInv'
<1>1. PICK l \in work :
        relates' \in Repointed([e \in {d \in relates : d.open /\ d.label = l} |->
                                   [e EXCEPT !.label = Canon[l]]])
  BY DEF MergeRelations
<1>2. relates \subseteq Relations
  BY DEF GraphInv, GraphSound, GraphTypes
<1> DEFINE rows == {d \in relates : d.open /\ d.label = l}
           image == [e \in rows |-> [e EXCEPT !.label = Canon[l]]]
<1>3. relates' \in Repointed(image)
  BY <1>1
<1>4. DOMAIN image = rows /\ rows \subseteq relates
  OBVIOUS
<1>5. \A e \in rows : /\ e \in Relations /\ e.label \in Label /\ e.label = l
                      /\ image[e] = [e EXCEPT !.label = Canon[l]]
  BY <1>2 DEF Relations
<1> HIDE DEF image
<1>6. \A m \in Label : Canon[m] \in Label /\ Canon[Canon[m]] = Canon[m]
  BY GraphMaintenanceAssumption
<1>7. \A e \in rows : /\ image[e] \in Relations /\ image[e].from = e.from /\ image[e].to = e.to
                      /\ Canon[image[e].label] = Canon[e.label]
  <2>1. SUFFICES ASSUME NEW e \in rows
                 PROVE  /\ image[e] \in Relations /\ image[e].from = e.from /\ image[e].to = e.to
                        /\ Canon[image[e].label] = Canon[e.label]
    OBVIOUS
  <2> DEFINE canon == Canon[l]
  <2>2. canon \in Label /\ Canon[canon] = Canon[e.label]
    BY <1>5, <1>6
  <2>3. image[e] = [e EXCEPT !.label = canon] /\ e \in Relations
    BY <1>5
  <2> HIDE DEF canon
  <2>4. image[e] \in Relations /\ image[e].from = e.from /\ image[e].to = e.to /\ image[e].label = canon
    BY <2>2, <2>3 DEF Relations
  <2>5. QED
    BY <2>2, <2>4
<1>8. /\ relates' \subseteq Relations
      /\ \A e \in relates \ rows : \E d \in relates' : PlaceOf(d) = PlaceOf(e)
      /\ \A e \in rows : \E d \in relates' : PlaceOf(d) = PlaceOf(image[e])
  BY <1>2, <1>3, <1>4, <1>7, RepointKeeps
<1>9. \A r : Spans(relates, nodes, r) => Spans(relates', nodes, r)
  <2>1. ASSUME NEW e \in relates
        PROVE  \E d \in relates' : d.from = e.from /\ d.to = e.to /\ Canon[d.label] = Canon[e.label]
    <3>1. CASE e \in rows
      BY <1>7, <1>8, <3>1 DEF PlaceOf
    <3>2. CASE e \notin rows
      BY <1>8, <3>2 DEF PlaceOf
    <3>3. QED
      BY <3>1, <3>2
  <2>2. QED
    BY <2>1, CarriedOver
<1>10. /\ UNCHANGED <<nodes, created, tasks, asserted, comentions, job, stage, merge, raced>>
       /\ job = "relnorm" /\ stage = "assert"
  BY DEF MergeRelations, AtStage
<1>11. QED
  BY <1>8, <1>9, <1>10, EdgeJob

\* What is asserted of a pair is stored from the lower id to the higher, as it was ranked.
LEMMA PairAsserted ==
    ASSUME GraphInv, AssertCoMention
    PROVE  GraphInv'
<1>1. PICK p \in work :
        /\ work' = work \ {p}
        /\ comentions' = comentions \cup
             (IF {p[1], p[2]} \subseteq Live THEN {Canonical(p[1], p[2])} ELSE {})
  BY DEF AssertCoMention
<1>2. /\ job = "comention" /\ stage = "assert" /\ graphVars' = graphVars
      /\ UNCHANGED <<job, stage, merge, raced>>
  BY DEF AssertCoMention, AtStage
<1>3. GraphSound /\ LowToHigh(work) /\ LowToHigh(comentions) /\ merge = None
  BY <1>2 DEF GraphInv, JobSound, MergeSound, GraphSound
<1>4. Canonical(p[1], p[2]) = <<p[1], p[2]>>
  BY <1>3 DEF LowToHigh, Canonical
<1>5. LowToHigh(comentions')
  BY <1>1, <1>3, <1>4 DEF LowToHigh
<1>6. UNCHANGED <<nodes, created, tasks, relates, asserted, raced>>
  BY <1>2 DEF graphVars
<1>7. relates' \subseteq Relations
  BY <1>3, <1>6 DEF GraphSound, GraphTypes
<1>8. raced' \in BOOLEAN /\ (raced => raced')
  BY <1>3, <1>6 DEF GraphSound
<1>9. GraphSound'
  BY <1>3, <1>5, <1>6, <1>7, <1>8, EdgesChange
<1>10. LowToHigh(work')
  BY <1>1, <1>3 DEF LowToHigh
<1>11. JobSound'
  BY <1>2, <1>3, <1>10 DEF JobSound
<1>12. QED
  BY <1>9, <1>11 DEF GraphInv

LEMMA MentionsAsserted ==
    ASSUME GraphInv, AssertMentions
    PROVE  GraphInv'
<1>1. UNCHANGED <<nodes, created, tasks, relates, comentions, asserted, raced>>
  BY DEF AssertMentions
<1>2. GraphSound'
  BY <1>1, GraphAlone DEF GraphInv
<1>3. JobSound'
  BY JobBegins DEF AssertMentions
<1>4. QED
  BY <1>2, <1>3 DEF GraphInv

LEMMA JobStepSound ==
    ASSUME GraphInv, JobStep \/ FailJob
    PROVE  GraphInv'
<1>1. CASE \/ StartPass \/ FailJob \/ ListDuplicates \/ TakeMerge \/ MergesDone
           \/ Visit \/ VisitsDone \/ MapNames \/ PairMemories \/ PairEntities \/ RankPairs
           \/ CoMentionsDone \/ ListLabels \/ LabelsDone
  BY <1>1, DecidingStep
<1>2. CASE MergeOut
  BY <1>2, OutgoingMove
<1>3. CASE MergeIn
  BY <1>3, IncomingMove
<1>4. CASE MergeMentions \/ MergeCoMentions \/ DropSelfLoop
  BY <1>4, MentionsMove
<1>5. CASE FoldMerged
  BY <1>5, AliasesFold
<1>6. CASE DeleteMerged
  BY <1>6, DuplicateGoes
<1>7. CASE Prune
  BY <1>7, EdgeCloses
<1>8. CASE AssertMentions
  BY <1>8, MentionsAsserted
<1>9. CASE AssertCoMention
  BY <1>9, PairAsserted
<1>10. CASE MergeRelations
  BY <1>10, LabelMoves
<1>11. QED
  BY <1>1, <1>2, <1>3, <1>4, <1>5, <1>6, <1>7, <1>8, <1>9, <1>10 DEF JobStep

\* A job that waits while a task makes a query: a merge is raced from then on.
LEMMA JobWaits ==
    ASSUME JobSound, UNCHANGED <<job, stage, work, merge>>, raced' = (raced \/ merge # None),
           Live \subseteq DOMAIN nodes', \A i \in Live : nodes'[i].name = nodes[i].name
    PROVE  JobSound'
<1>1. \A i, j : OneEntity(i, j) => OneEntity(i, j)'
  BY DEF OneEntity, KeyAt, Live
<1>2. stage = "merge" => MergesApart(work)'
  <2>1. SUFFICES ASSUME stage = "merge"
                 PROVE  MergesApart(work)'
    OBVIOUS
  <2>2. MergesApart(work)
    BY <2>1 DEF JobSound
  <2>3. \A p \in work : OneEntity(p[1], p[2])'
    BY <1>1, <2>2 DEF MergesApart
  <2>4. QED
    BY <2>2, <2>3 DEF MergesApart
<1>3. ASSUME merge # None
      PROVE  MergeSound'
  <2>1. MergeSound /\ raced'
    BY <1>3 DEF JobSound
  <2>2. OneEntity(merge.src, merge.dst)
    BY <2>1 DEF MergeSound
  <2> DEFINE s == merge.src
             d == merge.dst
  <2>3. s \in Live /\ d \in Live /\ s # d /\ KeyAt(s) = KeyAt(d)
    BY <2>2 DEF OneEntity
  <2>4. merge'.src = s /\ merge'.dst = d
    OBVIOUS
  <2> HIDE DEF s, d
  <2>5. OneEntity(merge.src, merge.dst)'
    BY <2>3, <2>4 DEF OneEntity, KeyAt, Live
  <2>6. QED
    BY <2>1, <2>5 DEF MergeSound
<1>4. QED
  BY <1>2, <1>3 DEF JobSound

\* A task's own step.  Nodes keep their names, no edge is lost, and what is asserted by it
\* is there, unless a merge was under way.
LEMMA TaskMoves ==
    ASSUME GraphSound, NEW t \in Task, NEW k \in TaskStates, tasks' = [tasks EXCEPT ![t] = k],
           created' \in Nat, created <= created', nodes' \in [Live' -> EntityNodes],
           Live' \subseteq 1 .. created', \A i \in Live' : IsFiniteSet(nodes'[i].aliases),
           Live \subseteq Live', \A i \in Live : nodes'[i].name = nodes[i].name,
           relates' \subseteq Relations, comentions' = comentions,
           raced' \in BOOLEAN, raced => raced', TaskSound(k, nodes', ~raced'),
           \A r : Spans(relates, nodes, r) => Spans(relates', nodes', r),
           ~raced' => \A r \in asserted' : r \in asserted \/ Spans(relates', nodes', r)
    PROVE  GraphSound'
<1>1. GraphTypes'
  <2>1. tasks \in [Task -> TaskStates]
    BY DEF GraphSound, GraphTypes
  <2>2. tasks' \in [Task -> TaskStates]
    BY <2>1
  <2>3. QED
    BY <2>2 DEF GraphTypes
<1>2. ASSUME NEW u \in Task
      PROVE  TaskSound(tasks'[u], nodes', ~raced')
  <2>1. TaskSound(tasks[u], nodes, ~raced) /\ raced \in BOOLEAN
    BY DEF GraphSound
  <2>2. TaskSound(tasks[u], nodes', ~raced')
    BY <2>1, NameStays DEF Live
  <2>3. tasks'[u] = IF u = t THEN k ELSE tasks[u]
    BY DEF GraphSound, GraphTypes
  <2>4. QED
    BY <2>2, <2>3
<1>3. ASSUME ~raced', NEW r \in asserted'
      PROVE  Spans(relates', nodes', r)
  <2>1. ~raced
    BY <1>3
  <2>2. r \in asserted => Spans(relates, nodes, r)
    BY <2>1 DEF GraphSound
  <2>3. QED
    BY <1>3, <2>2
<1>4. LowToHigh(comentions')
  BY DEF GraphSound
<1>5. QED
  BY <1>1, <1>2, <1>3, <1>4 DEF GraphSound

\* A query that leaves the nodes and the edges alone.
LEMMA TaskDecides ==
    ASSUME GraphSound, NEW t \in Task, NEW k \in TaskStates, tasks' = [tasks EXCEPT ![t] = k],
           UNCHANGED <<created, nodes, relates, comentions>>,
           raced' \in BOOLEAN, raced => raced', TaskSound(k, nodes, ~raced'),
           ~raced' => \A r \in asserted' : r \in asserted \/ Spans(relates, nodes, r)
    PROVE  GraphSound'
<1>1. /\ created \in Nat /\ nodes \in [Live -> EntityNodes] /\ Live \subseteq 1 .. created
      /\ \A i \in Live : IsFiniteSet(nodes[i].aliases)
      /\ relates \subseteq Relations
  BY DEF GraphSound, GraphTypes
<1>2. Live' = Live
  BY DEF Live
<1>3. /\ created' \in Nat /\ created <= created' /\ nodes' \in [Live' -> EntityNodes]
      /\ Live' \subseteq 1 .. created' /\ (\A i \in Live' : IsFiniteSet(nodes'[i].aliases))
      /\ Live \subseteq Live' /\ (\A i \in Live : nodes'[i].name = nodes[i].name)
      /\ relates' \subseteq Relations
  BY <1>1, <1>2
<1>4. TaskSound(k, nodes', ~raced')
  OBVIOUS
<1>5. /\ \A r : Spans(relates, nodes, r) => Spans(relates', nodes', r)
      /\ ~raced' => \A r \in asserted' : r \in asserted \/ Spans(relates', nodes', r)
  OBVIOUS
<1>6. QED
  BY <1>3, <1>4, <1>5, TaskMoves

\* What a task is, and the states its queries take it to.
LEMMA TaskAt ==
    ASSUME GraphSound, NEW t \in Task, raced' = (raced \/ merge # None)
    PROVE  /\ tasks \in [Task -> TaskStates] /\ tasks[t] \in TaskStates
           /\ tasks[t].pc \in {"entities", "mentions", "edges", "done"}
           /\ tasks[t].ids \in [Name -> Nat \cup {None}] /\ tasks[t].rels \subseteq Triples
           /\ tasks[t].op \in Writes
           /\ raced' \in BOOLEAN /\ (raced => raced')
           /\ TaskSound(tasks[t], nodes, ~raced')
<1>1. tasks \in [Task -> TaskStates] /\ tasks[t] \in TaskStates
  BY DEF GraphSound, GraphTypes
<1>2. raced \in BOOLEAN /\ TaskSound(tasks[t], nodes, ~raced)
  BY DEF GraphSound
<1>3. raced' \in BOOLEAN /\ (raced => raced')
  BY <1>2
<1>4. TaskSound(tasks[t], nodes, ~raced')
  BY <1>2, <1>3, NameStays
<1>5. QED
  BY <1>1, <1>3, <1>4 DEF TaskStates

LEMMA GoesTo ==
    ASSUME NEW t \in Task, tasks \in [Task -> TaskStates],
           NEW pc \in {"mentions", "edges"}, Goto(t, pc)
    PROVE  \E k \in TaskStates : /\ tasks' = [tasks EXCEPT ![t] = k] /\ k.pc = pc /\ k.op = None
                                 /\ k.ids = tasks[t].ids
<1> DEFINE was == tasks[t]
           k == [was EXCEPT !.pc = pc, !.op = None]
<1>1. was \in TaskStates
  OBVIOUS
<1>2. tasks' = [tasks EXCEPT ![t] = k]
  BY DEF Goto
<1>3. k = [was EXCEPT !.pc = pc, !.op = None]
  OBVIOUS
<1> HIDE DEF was, k
<1>4. k \in TaskStates /\ k.pc = pc /\ k.op = None /\ k.ids = was.ids
  BY <1>1, <1>3 DEF TaskStates, Writes
<1>5. QED
  BY <1>2, <1>4 DEF was

LEMMA TakesOp ==
    ASSUME NEW t \in Task, tasks \in [Task -> TaskStates], NEW op \in Writes,
           tasks' = [tasks EXCEPT ![t].op = op]
    PROVE  \E k \in TaskStates : /\ tasks' = [tasks EXCEPT ![t] = k] /\ k.pc = tasks[t].pc /\ k.op = op
                                 /\ k.ids = tasks[t].ids
<1> DEFINE was == tasks[t]
           k == [was EXCEPT !.op = op]
<1>1. was \in TaskStates
  OBVIOUS
<1>2. tasks' = [tasks EXCEPT ![t] = k]
  OBVIOUS
<1>3. k = [was EXCEPT !.op = op]
  OBVIOUS
<1> HIDE DEF was, k
<1>4. k \in TaskStates /\ k.pc = was.pc /\ k.op = op /\ k.ids = was.ids
  BY <1>1, <1>3 DEF TaskStates
<1>5. QED
  BY <1>2, <1>4 DEF was

LEMMA Resolves ==
    ASSUME NEW t \in Task, tasks \in [Task -> TaskStates], NEW n \in Name, NEW id \in Nat,
           Resolved(t, n, id)
    PROVE  \E k \in TaskStates : /\ tasks' = [tasks EXCEPT ![t] = k] /\ k.pc = tasks[t].pc /\ k.op = None
                                 /\ k.ids = [tasks[t].ids EXCEPT ![n] = id]
<1> DEFINE was == tasks[t]
           known == [tasks[t].ids EXCEPT ![n] = id]
           k == [was EXCEPT !.ids = known, !.op = None]
<1>1. was \in TaskStates /\ was.ids \in [Name -> Nat \cup {None}]
  BY DEF TaskStates
<1>2. known \in [Name -> Nat \cup {None}]
  BY <1>1
<1>3. tasks' = [tasks EXCEPT ![t] = k]
  BY DEF Resolved
<1>4. k = [was EXCEPT !.ids = known, !.op = None]
  OBVIOUS
<1> HIDE DEF was, known, k
<1>5. k \in TaskStates /\ k.pc = was.pc /\ k.op = None /\ k.ids = known
  BY <1>1, <1>2, <1>4 DEF TaskStates, Writes
<1>6. QED
  BY <1>3, <1>5 DEF was, known

\* A name that is found is known from then on; if it brings aliases, they are to be folded.
LEMMA NameLookedUp ==
    ASSUME GraphSound, NEW t \in Task, NEW n \in Name, LookUp(t, n),
           raced' = (raced \/ merge # None), UNCHANGED comentions
    PROVE  GraphSound'
<1>1. /\ tasks \in [Task -> TaskStates]
      /\ tasks[t].pc \in {"entities", "mentions", "edges", "done"}
      /\ tasks[t].ids \in [Name -> Nat \cup {None}]
      /\ raced' \in BOOLEAN /\ (raced => raced')
      /\ TaskSound(tasks[t], nodes, ~raced')
  BY TaskAt
<1>2. UNCHANGED <<nodes, relates, created, asserted>>
  BY DEF LookUp
<1>3. tasks[t].pc # "done"
  BY DEF LookUp, Wanted
<1>4. /\ nodes \in [Live -> EntityNodes] /\ Live \subseteq Nat
      /\ \A i \in Live : IsFiniteSet(nodes[i].aliases)
  BY DEF GraphSound, GraphTypes
<1>5. SUFFICES \E k \in TaskStates : tasks' = [tasks EXCEPT ![t] = k] /\ TaskSound(k, nodes, ~raced')
  BY <1>1, <1>2, TaskDecides
<1>6. CASE tasks' = [tasks EXCEPT ![t].op = [kind |-> "create", name |-> n]]
  <2> DEFINE op == [kind |-> "create", name |-> n]
  <2>1. op \in Writes /\ op.kind = "create"
    BY DEF Writes
  <2>2. tasks' = [tasks EXCEPT ![t].op = op]
    BY <1>6
  <2> HIDE DEF op
  <2>3. PICK k \in TaskStates : /\ tasks' = [tasks EXCEPT ![t] = k] /\ k.pc = tasks[t].pc /\ k.op = op
                                /\ k.ids = tasks[t].ids
    BY <1>1, <2>1, <2>2, TakesOp
  <2>4. TaskSound(k, nodes, ~raced')
    BY <1>1, <1>3, <2>1, <2>3 DEF TaskSound, Doing
  <2>5. QED
    BY <2>3, <2>4
<1>7. ASSUME NEW i \in Live, nodes[i].name = n, Resolved(t, n, i)
      PROVE  \E k \in TaskStates : tasks' = [tasks EXCEPT ![t] = k] /\ TaskSound(k, nodes, ~raced')
  <2>1. i \in Nat
    BY <1>4
  <2>2. PICK k \in TaskStates : /\ tasks' = [tasks EXCEPT ![t] = k] /\ k.pc = tasks[t].pc /\ k.op = None
                                /\ k.ids = [tasks[t].ids EXCEPT ![n] = i]
    BY <1>1, <1>7, <2>1, Resolves
  <2>3. \A m \in Name : k.ids[m] = IF m = n THEN i ELSE tasks[t].ids[m]
    BY <1>1, <2>2
  <2>4. Named(nodes, i, n)
    BY <1>7 DEF Named, Live
  <2>5. TaskSound(k, nodes, ~raced')
    BY <1>1, <1>3, <2>2, <2>3, <2>4 DEF TaskSound, Doing
  <2>6. QED
    BY <2>2, <2>5
<1>8. ASSUME NEW i \in Live, nodes[i].name = n,
             tasks' = [tasks EXCEPT ![t].op =
                         [kind |-> "fold", name |-> n, id |-> i,
                          aliases |-> (nodes[i].aliases \cup Incoming(t, n)) \ {n}]]
      PROVE  \E k \in TaskStates : tasks' = [tasks EXCEPT ![t] = k] /\ TaskSound(k, nodes, ~raced')
  <2> DEFINE all == (nodes[i].aliases \cup Incoming(t, n)) \ {n}
             op == [kind |-> "fold", name |-> n, id |-> i, aliases |-> all]
  <2>1. Incoming(t, n) \in SUBSET Name /\ IsFiniteSet(Incoming(t, n))
    <3>1. Chunk[t].aliases[n] \in SUBSET Name /\ IsFiniteSet(Chunk[t].aliases[n])
      BY ChunkAssumption DEF ChunkType
    <3>2. IsFiniteSet({})
      BY FS_EmptySet
    <3>3. QED
      BY <3>1, <3>2 DEF Incoming
  <2>2. nodes[i].aliases \in SUBSET Name /\ IsFiniteSet(nodes[i].aliases) /\ i \in Nat
    BY <1>4 DEF EntityNodes
  <2>3. IsFiniteSet(nodes[i].aliases \cup Incoming(t, n))
    BY <2>1, <2>2, FS_Union
  <2>4. all \in SUBSET Name /\ IsFiniteSet(all)
    BY <2>1, <2>2, <2>3, FS_Subset
  <2>5. tasks' = [tasks EXCEPT ![t].op = op]
    BY <1>8
  <2> HIDE DEF all
  <2>6. op \in Writes /\ op.kind = "fold" /\ op.name = n /\ op.id = i /\ op.aliases = all
    BY <2>2, <2>4 DEF Writes
  <2> HIDE DEF op
  <2>7. PICK k \in TaskStates : /\ tasks' = [tasks EXCEPT ![t] = k] /\ k.pc = tasks[t].pc /\ k.op = op
                                /\ k.ids = tasks[t].ids
    BY <1>1, <2>5, <2>6, TakesOp
  <2>8. Named(nodes, i, n)
    BY <1>8 DEF Named, Live
  <2>9. TaskSound(k, nodes, ~raced')
    BY <1>1, <1>3, <2>4, <2>6, <2>7, <2>8 DEF TaskSound, Doing
  <2>10. QED
    BY <2>7, <2>9
<1>9. QED
  BY <1>6, <1>7, <1>8 DEF LookUp

LEMMA EntityMade ==
    ASSUME GraphSound, NEW t \in Task, CreateEntity(t),
           raced' = (raced \/ merge # None), UNCHANGED comentions
    PROVE  /\ GraphSound' /\ Live \subseteq DOMAIN nodes'
           /\ \A i \in Live : nodes'[i].name = nodes[i].name
<1>1. /\ tasks \in [Task -> TaskStates] /\ tasks[t].op \in Writes
      /\ tasks[t].pc \in {"entities", "mentions", "edges", "done"}
      /\ tasks[t].ids \in [Name -> Nat \cup {None}]
      /\ raced' \in BOOLEAN /\ (raced => raced')
      /\ TaskSound(tasks[t], nodes, ~raced')
  BY TaskAt
<1> DEFINE n == tasks[t].op.name
           made == [name |-> n, aliases |-> Incoming(t, n) \ {n}]
           i == created + 1
<1>2. /\ nodes' = [j \in Live \cup {i} |-> IF j = i THEN made ELSE nodes[j]]
      /\ Resolved(t, n, i) /\ created' = i /\ relates' = relates /\ asserted' = asserted
  BY DEF CreateEntity
<1>3. n \in Name
  BY <1>1 DEF CreateEntity, Writes
<1>4. tasks[t].pc # "done"
  BY <1>1 DEF TaskSound, CreateEntity
<1>5. /\ created \in Nat /\ nodes \in [Live -> EntityNodes] /\ Live \subseteq 1 .. created
      /\ \A j \in Live : IsFiniteSet(nodes[j].aliases)
      /\ relates \subseteq Relations
  BY DEF GraphSound, GraphTypes
<1>6. i \in Nat /\ i \notin Live /\ created <= i /\ Live \cup {i} \subseteq 1 .. i
  BY <1>5
<1>7. made \in EntityNodes /\ made.name = n /\ IsFiniteSet(made.aliases)
  <2>1. Incoming(t, n) \in SUBSET Name /\ IsFiniteSet(Incoming(t, n))
    <3>1. Chunk[t].aliases[n] \in SUBSET Name /\ IsFiniteSet(Chunk[t].aliases[n])
      BY <1>3, ChunkAssumption DEF ChunkType
    <3>2. IsFiniteSet({})
      BY FS_EmptySet
    <3> HIDE DEF n
    <3>3. QED
      BY <3>1, <3>2 DEF Incoming
  <2> HIDE DEF n
  <2>2. IsFiniteSet(Incoming(t, n) \ {n})
    BY <2>1, FS_Subset
  <2>3. QED
    BY <1>3, <2>1, <2>2 DEF EntityNodes
<1> HIDE DEF n, made, i
<1>8. /\ DOMAIN nodes' = Live \cup {i} /\ nodes' \in [Live' -> EntityNodes] /\ Live' = Live \cup {i}
      /\ nodes'[i] = made /\ \A j \in Live : nodes'[j] = nodes[j]
  BY <1>2, <1>5, <1>6, <1>7 DEF Live
<1>9. \A j \in Live' : IsFiniteSet(nodes'[j].aliases)
  BY <1>5, <1>7, <1>8
<1>10. PICK k \in TaskStates : /\ tasks' = [tasks EXCEPT ![t] = k] /\ k.pc = tasks[t].pc /\ k.op = None
                               /\ k.ids = [tasks[t].ids EXCEPT ![n] = i]
  BY <1>1, <1>2, <1>3, <1>6, Resolves
<1>11. TaskSound(k, nodes', ~raced')
  <2>1. TaskSound(tasks[t], nodes', ~raced')
    BY <1>1, <1>8, NameStays DEF Live
  <2>2. \A m \in Name : k.ids[m] = IF m = n THEN i ELSE tasks[t].ids[m]
    BY <1>1, <1>10
  <2>3. Named(nodes', i, n)
    BY <1>7, <1>8 DEF Named
  <2>4. QED
    BY <1>4, <1>10, <2>1, <2>2, <2>3 DEF TaskSound, Doing
<1>12. \A r : Spans(relates, nodes, r) => Spans(relates', nodes', r)
  BY <1>2, <1>8, CarriedOver DEF Live
<1>13. /\ created' \in Nat /\ created <= created' /\ Live' \subseteq 1 .. created'
       /\ Live \subseteq Live' /\ (\A j \in Live : nodes'[j].name = nodes[j].name)
       /\ relates' \subseteq Relations
  BY <1>2, <1>5, <1>6, <1>8
<1>14. GraphSound'
  BY <1>1, <1>2, <1>8, <1>9, <1>10, <1>11, <1>12, <1>13, TaskMoves
<1>15. QED
  BY <1>8, <1>14

LEMMA AliasesTaken ==
    ASSUME GraphSound, NEW t \in Task, FoldAliases(t),
           raced' = (raced \/ merge # None), UNCHANGED comentions
    PROVE  /\ GraphSound' /\ Live \subseteq DOMAIN nodes'
           /\ \A i \in Live : nodes'[i].name = nodes[i].name
<1>1. /\ tasks \in [Task -> TaskStates] /\ tasks[t].op \in Writes
      /\ tasks[t].pc \in {"entities", "mentions", "edges", "done"}
      /\ tasks[t].ids \in [Name -> Nat \cup {None}]
      /\ raced' \in BOOLEAN /\ (raced => raced')
      /\ TaskSound(tasks[t], nodes, ~raced')
  BY TaskAt
<1> DEFINE n == tasks[t].op.name
           all == tasks[t].op.aliases
           id == tasks[t].op.id
<1>2. /\ nodes' = [i \in Live |-> IF i = id THEN [nodes[i] EXCEPT !.aliases = all] ELSE nodes[i]]
      /\ Resolved(t, n, id) /\ created' = created /\ relates' = relates /\ asserted' = asserted
  BY DEF FoldAliases
<1>3. n \in Name /\ id \in Nat /\ all \in SUBSET Name
  BY <1>1 DEF FoldAliases, Writes
<1>4. /\ tasks[t].pc # "done" /\ IsFiniteSet(all) /\ (~raced' => Named(nodes, id, n))
  BY <1>1 DEF TaskSound, FoldAliases, Doing
<1>5. /\ created \in Nat /\ nodes \in [Live -> EntityNodes] /\ Live \subseteq 1 .. created
      /\ \A j \in Live : IsFiniteSet(nodes[j].aliases)
      /\ relates \subseteq Relations
  BY DEF GraphSound, GraphTypes
<1> HIDE DEF n, all, id
<1>6. /\ Live' = Live /\ DOMAIN nodes' = Live /\ nodes' \in [Live' -> EntityNodes]
      /\ \A i \in Live : nodes'[i].name = nodes[i].name
      /\ \A i \in Live : nodes'[i].aliases = IF i = id THEN all ELSE nodes[i].aliases
  BY <1>2, <1>3, <1>5 DEF EntityNodes, Live
<1>7. \A j \in Live' : IsFiniteSet(nodes'[j].aliases)
  BY <1>4, <1>5, <1>6
<1>8. PICK k \in TaskStates : /\ tasks' = [tasks EXCEPT ![t] = k] /\ k.pc = tasks[t].pc /\ k.op = None
                              /\ k.ids = [tasks[t].ids EXCEPT ![n] = id]
  BY <1>1, <1>2, <1>3, Resolves
<1>9. TaskSound(k, nodes', ~raced')
  <2>1. TaskSound(tasks[t], nodes', ~raced')
    BY <1>1, <1>6, NameStays DEF Live
  <2>2. \A m \in Name : k.ids[m] = IF m = n THEN id ELSE tasks[t].ids[m]
    BY <1>1, <1>8
  <2>3. ~raced' => Named(nodes', id, n)
    BY <1>4, <1>6 DEF Named, Live
  <2>4. QED
    BY <1>4, <1>8, <2>1, <2>2, <2>3 DEF TaskSound, Doing
<1>10. \A r : Spans(relates, nodes, r) => Spans(relates', nodes', r)
  BY <1>2, <1>6, CarriedOver DEF Live
<1>11. /\ created' \in Nat /\ created <= created' /\ Live' \subseteq 1 .. created'
       /\ Live \subseteq Live' /\ relates' \subseteq Relations
  BY <1>2, <1>5, <1>6
<1>12. GraphSound'
  BY <1>1, <1>2, <1>6, <1>7, <1>8, <1>9, <1>10, <1>11, TaskMoves
<1>13. QED
  BY <1>6, <1>12

\* Storing the memory, its mentions, and the end of a task.
LEMMA TaskGoesOn ==
    ASSUME GraphSound, NEW t \in Task, StoreMemory(t) \/ AddMentions(t) \/ Finish(t),
           raced' = (raced \/ merge # None), UNCHANGED comentions
    PROVE  GraphSound'
<1>1. /\ tasks \in [Task -> TaskStates] /\ tasks[t] \in TaskStates
      /\ tasks[t].ids \in [Name -> Nat \cup {None}]
      /\ raced' \in BOOLEAN /\ (raced => raced')
      /\ TaskSound(tasks[t], nodes, ~raced')
  BY TaskAt
<1>2. UNCHANGED <<nodes, relates, created, asserted>>
  BY DEF StoreMemory, AddMentions, Finish
<1>3. SUFFICES \E k \in TaskStates : tasks' = [tasks EXCEPT ![t] = k] /\ TaskSound(k, nodes, ~raced')
  BY <1>1, <1>2, TaskDecides
<1>4. ASSUME NEW pc \in {"mentions", "edges"}, Goto(t, pc)
      PROVE  \E k \in TaskStates : tasks' = [tasks EXCEPT ![t] = k] /\ TaskSound(k, nodes, ~raced')
  <2>1. PICK k \in TaskStates : /\ tasks' = [tasks EXCEPT ![t] = k] /\ k.pc = pc /\ k.op = None
                                /\ k.ids = tasks[t].ids
    BY <1>1, <1>4, GoesTo
  <2>2. TaskSound(k, nodes, ~raced')
    BY <1>1, <2>1 DEF TaskSound, Doing
  <2>3. QED
    BY <2>1, <2>2
<1>5. CASE Finish(t)
  <2> DEFINE was == tasks[t]
             nothing == [n \in Name |-> None]
             k == [was EXCEPT !.pc = "done", !.ids = nothing]
  <2>1. tasks' = [tasks EXCEPT ![t] = k] /\ was.op = None
    BY <1>1, <1>5 DEF Finish
  <2>2. nothing \in [Name -> Nat \cup {None}] /\ \A n \in Name : nothing[n] = None
    OBVIOUS
  <2>3. was \in TaskStates /\ k = [was EXCEPT !.pc = "done", !.ids = nothing]
    BY <1>1
  <2> HIDE DEF was, nothing, k
  <2>4. k \in TaskStates /\ k.pc = "done" /\ k.op = None /\ k.ids = nothing
    BY <2>1, <2>2, <2>3 DEF TaskStates
  <2>5. TaskSound(k, nodes, ~raced')
    BY <2>2, <2>4 DEF TaskSound, Doing
  <2>6. QED
    BY <2>1, <2>4, <2>5
<1>6. QED
  BY <1>4, <1>5 DEF StoreMemory, AddMentions

LEMMA DropsRelation ==
    ASSUME NEW t \in Task, tasks \in [Task -> TaskStates], NEW r,
           \/ tasks' = [tasks EXCEPT ![t].rels = @ \ {r}] /\ tasks[t].op = None
           \/ tasks' = [tasks EXCEPT ![t].op = None, ![t].rels = @ \ {r}]
    PROVE  \E k \in TaskStates : /\ tasks' = [tasks EXCEPT ![t] = k] /\ k.pc = tasks[t].pc /\ k.op = None
                                 /\ k.ids = tasks[t].ids
<1> DEFINE was == tasks[t]
           left == tasks[t].rels \ {r}
           k == [was EXCEPT !.op = None, !.rels = left]
<1>1. was \in TaskStates
  OBVIOUS
<1>2. left \in SUBSET Triples
  BY <1>1 DEF TaskStates
<1>3. k = [was EXCEPT !.op = None, !.rels = left]
  OBVIOUS
<1>4. tasks' = [tasks EXCEPT ![t] = k]
  <2>1. CASE tasks' = [tasks EXCEPT ![t].rels = @ \ {r}] /\ tasks[t].op = None
    <3>1. tasks' = [tasks EXCEPT ![t] = [was EXCEPT !.rels = left]] /\ was.op = None
      BY <2>1
    <3> HIDE DEF was, left, k
    <3>2. k = [was EXCEPT !.rels = left]
      BY <1>1, <1>3, <3>1 DEF TaskStates
    <3>3. QED
      BY <3>1, <3>2
  <2>2. CASE tasks' = [tasks EXCEPT ![t].op = None, ![t].rels = @ \ {r}]
    BY <2>2
  <2>3. QED
    BY <2>1, <2>2
<1> HIDE DEF was, left, k
<1>5. k \in TaskStates /\ k.pc = was.pc /\ k.op = None /\ k.ids = was.ids
  BY <1>1, <1>2, <1>3 DEF TaskStates, Writes
<1>6. QED
  BY <1>4, <1>5 DEF was

\* An open edge that is found between the two nodes that the task resolved is between nodes
\* for the two names.
LEMMA EdgeFound ==
    ASSUME GraphSound, NEW t \in Task, NEW r \in tasks[t].rels, FindEdge(t, r),
           raced' = (raced \/ merge # None), UNCHANGED comentions
    PROVE  GraphSound'
<1>1. /\ tasks \in [Task -> TaskStates]
      /\ tasks[t].ids \in [Name -> Nat \cup {None}] /\ tasks[t].rels \subseteq Triples
      /\ raced' \in BOOLEAN /\ (raced => raced')
      /\ TaskSound(tasks[t], nodes, ~raced')
  BY TaskAt
<1>2. UNCHANGED <<nodes, relates, created>> /\ tasks[t].pc = "edges" /\ tasks[t].op = None
  BY DEF FindEdge
<1>3. r \in Triples /\ r[1] \in Name /\ r[3] \in Name
  BY <1>1 DEF Triples
<1>4. tasks[t].ids[r[1]] # None /\ tasks[t].ids[r[3]] # None
  <2>1. \A n \in UNION {{q[1], q[3]} : q \in tasks[t].rels} : Known(t, n)
    BY <1>2 DEF FindEdge, Wanted
  <2>2. r[1] \in UNION {{q[1], q[3]} : q \in tasks[t].rels} /\ r[3] \in UNION {{q[1], q[3]} : q \in tasks[t].rels}
    OBVIOUS
  <2>3. QED
    BY <2>1, <2>2 DEF Known
<1>5. ASSUME NEW e \in relates, e.label = r[2], e.from = tasks[t].ids[r[1]],
             e.to = tasks[t].ids[r[3]], tasks' = [tasks EXCEPT ![t].rels = @ \ {r}],
             asserted' = asserted \cup {r}
      PROVE  GraphSound'
  <2>1. PICK k \in TaskStates : /\ tasks' = [tasks EXCEPT ![t] = k] /\ k.pc = tasks[t].pc /\ k.op = None
                                /\ k.ids = tasks[t].ids
    BY <1>1, <1>2, <1>5, DropsRelation
  <2>2. TaskSound(k, nodes, ~raced')
    BY <1>1, <1>2, <2>1 DEF TaskSound, Doing
  <2>3. ~raced' => Spans(relates, nodes, r)
    <3>1. ~raced' => Named(nodes, tasks[t].ids[r[1]], r[1]) /\ Named(nodes, tasks[t].ids[r[3]], r[3])
      BY <1>1, <1>3, <1>4 DEF TaskSound
    <3>2. QED
      BY <1>5, <3>1 DEF Spans, Named
  <2>4. QED
    BY <1>1, <1>2, <1>5, <2>1, <2>2, <2>3, TaskDecides
<1>6. CASE tasks' = [tasks EXCEPT ![t].op = [kind |-> "edge", rel |-> r]] /\ asserted' = asserted
  <2> DEFINE op == [kind |-> "edge", rel |-> r]
  <2>1. op \in Writes /\ op.kind = "edge" /\ op.rel = r
    BY <1>3 DEF Writes
  <2>2. tasks' = [tasks EXCEPT ![t].op = op]
    BY <1>6
  <2> HIDE DEF op
  <2>3. PICK k \in TaskStates : /\ tasks' = [tasks EXCEPT ![t] = k] /\ k.pc = tasks[t].pc /\ k.op = op
                                /\ k.ids = tasks[t].ids
    BY <1>1, <2>1, <2>2, TakesOp
  <2>4. TaskSound(k, nodes, ~raced')
    BY <1>1, <1>2, <1>4, <2>1, <2>3 DEF TaskSound, Doing
  <2>5. QED
    BY <1>1, <1>2, <1>6, <2>3, <2>4, TaskDecides
<1>7. QED
  BY <1>5, <1>6 DEF FindEdge

\* Unless a merge was under way, both nodes match and the edge is made.
LEMMA EdgeMade ==
    ASSUME GraphSound, NEW t \in Task, CreateEdge(t),
           raced' = (raced \/ merge # None), UNCHANGED comentions
    PROVE  GraphSound'
<1>1. /\ tasks \in [Task -> TaskStates] /\ tasks[t].op \in Writes
      /\ tasks[t].ids \in [Name -> Nat \cup {None}]
      /\ raced' \in BOOLEAN /\ (raced => raced')
      /\ TaskSound(tasks[t], nodes, ~raced')
  BY TaskAt
<1> DEFINE r == tasks[t].op.rel
           from == tasks[t].ids[r[1]]
           to == tasks[t].ids[r[3]]
           made == [id |-> created + 1, from |-> from, label |-> r[2], to |-> to, open |-> TRUE]
<1>2. /\ relates' = relates \cup (IF {from, to} \subseteq Live THEN {made} ELSE {})
      /\ tasks' = [tasks EXCEPT ![t].op = None, ![t].rels = @ \ {r}]
      /\ asserted' = asserted \cup {r} /\ created' = created + 1 /\ nodes' = nodes
  BY DEF CreateEdge
<1>3. r \in Triples
  BY <1>1 DEF CreateEdge, Writes
<1>4. from # None /\ to # None
  BY <1>1 DEF TaskSound, Doing, CreateEdge
<1>5. tasks[t].pc # "done"
  BY <1>1 DEF TaskSound, CreateEdge
<1> HIDE DEF r
<1>6. r[1] \in Name /\ r[2] \in Label /\ r[3] \in Name
  BY <1>3 DEF Triples
<1>7. ~raced' => Named(nodes, from, r[1]) /\ Named(nodes, to, r[3])
  BY <1>1, <1>4, <1>6 DEF TaskSound
<1>8. from \in Nat /\ to \in Nat
  BY <1>1, <1>4, <1>6
<1>9. /\ created \in Nat /\ nodes \in [Live -> EntityNodes] /\ Live \subseteq 1 .. created
      /\ \A j \in Live : IsFiniteSet(nodes[j].aliases)
      /\ relates \subseteq Relations
  BY DEF GraphSound, GraphTypes
<1>10. PICK k \in TaskStates : /\ tasks' = [tasks EXCEPT ![t] = k] /\ k.pc = tasks[t].pc /\ k.op = None
                               /\ k.ids = tasks[t].ids
  BY <1>1, <1>2, DropsRelation
<1> HIDE DEF from, to
<1>11. made \in Relations /\ made.from = from /\ made.to = to /\ made.label = r[2]
  BY <1>6, <1>8, <1>9 DEF Relations
<1> HIDE DEF made
<1>12. TaskSound(k, nodes', ~raced')
  BY <1>1, <1>2, <1>5, <1>10 DEF TaskSound, Doing
<1>13. ~raced' => Spans(relates', nodes', r)
  <2>1. SUFFICES ASSUME ~raced'
                 PROVE  Spans(relates', nodes', r)
    OBVIOUS
  <2>2. /\ from \in Live /\ nodes[from].name = r[1] /\ to \in Live /\ nodes[to].name = r[3]
    BY <1>7, <2>1 DEF Named, Live
  <2>3. made \in relates'
    BY <1>2, <2>2
  <2>4. QED
    BY <1>2, <1>11, <2>2, <2>3 DEF Spans, Live
<1>14. \A q : Spans(relates, nodes, q) => Spans(relates', nodes', q)
  BY <1>2 DEF Spans
<1>15. /\ created' \in Nat /\ created <= created' /\ nodes' \in [Live' -> EntityNodes]
       /\ Live' \subseteq 1 .. created' /\ (\A i \in Live' : IsFiniteSet(nodes'[i].aliases))
       /\ Live \subseteq Live' /\ (\A i \in Live : nodes'[i].name = nodes[i].name)
       /\ relates' \subseteq Relations
  BY <1>2, <1>9, <1>11 DEF Live
<1>16. ~raced' => \A q \in asserted' : q \in asserted \/ Spans(relates', nodes', q)
  BY <1>2, <1>13
<1>17. tasks' = [tasks EXCEPT ![t] = k]
  BY <1>10
<1>18. QED
  BY <1>1, <1>12, <1>14, <1>15, <1>16, <1>17, TaskMoves

LEMMA IngestSound ==
    ASSUME GraphInv, NEW t \in Task, Ingest(t)
    PROVE  GraphInv'
<1>1. /\ GraphSound /\ JobSound /\ TaskStep(t) /\ raced' = (raced \/ merge # None)
      /\ UNCHANGED <<comentions, job, stage, work, merge>>
  BY DEF GraphInv, Ingest
<1>2. CASE nodes' = nodes /\ GraphSound'
  <2>1. Live \subseteq DOMAIN nodes' /\ \A i \in Live : nodes'[i].name = nodes[i].name
    BY <1>2 DEF Live
  <2>2. QED
    BY <1>1, <1>2, <2>1, JobWaits DEF GraphInv
<1>3. CASE StoreMemory(t) \/ AddMentions(t) \/ Finish(t)
  <2>1. nodes' = nodes
    BY <1>3 DEF StoreMemory, AddMentions, Finish
  <2>2. QED
    BY <1>1, <1>2, <1>3, <2>1, TaskGoesOn
<1>4. CASE CreateEntity(t)
  BY <1>1, <1>4, EntityMade, JobWaits DEF GraphInv
<1>5. CASE FoldAliases(t)
  BY <1>1, <1>5, AliasesTaken, JobWaits DEF GraphInv
<1>6. CASE CreateEdge(t)
  <2>1. nodes' = nodes
    BY <1>6 DEF CreateEdge
  <2>2. QED
    BY <1>1, <1>2, <1>6, <2>1, EdgeMade
<1>7. ASSUME NEW n \in Name, LookUp(t, n)
      PROVE  GraphInv'
  <2>1. nodes' = nodes
    BY <1>7 DEF LookUp
  <2>2. QED
    BY <1>1, <1>2, <1>7, <2>1, NameLookedUp
<1>8. ASSUME NEW r \in tasks[t].rels, FindEdge(t, r)
      PROVE  GraphInv'
  <2>1. nodes' = nodes
    BY <1>8 DEF FindEdge
  <2>2. QED
    BY <1>1, <1>2, <1>8, <2>1, EdgeFound
<1>9. QED
  BY <1>1, <1>3, <1>4, <1>5, <1>6, <1>7, <1>8 DEF TaskStep

LEMMA GraphStarts ==
    ASSUME GraphJobsInit
    PROVE  GraphInv
<1>1. /\ nodes = <<>> /\ relates = {} /\ created = 0 /\ asserted = {} /\ comentions = {} /\ raced = FALSE
      /\ tasks = [t \in Task |-> [pc |-> "entities", ids |-> [n \in Name |-> None],
                                  op |-> None, rels |-> Chunk[t].relations]]
      /\ work = {} /\ merge = None /\ stage = "list"
  BY DEF GraphJobsInit, GraphInit
<1>2. Live = {}
  BY <1>1 DEF Live
<1> DEFINE nothing == [n \in Name |-> None]
           first(t) == [pc |-> "entities", ids |-> nothing, op |-> None, rels |-> Chunk[t].relations]
<1>3. nothing \in [Name -> Nat \cup {None}] /\ \A n \in Name : nothing[n] = None
  OBVIOUS
<1>4. tasks = [t \in Task |-> first(t)]
  BY <1>1
<1> HIDE DEF nothing
<1>5. ASSUME NEW t \in Task
      PROVE  first(t) \in TaskStates /\ TaskSound(first(t), nodes, TRUE)
  <2>1. Chunk[t].relations \subseteq Triples
    BY ChunkAssumption DEF ChunkType, Triples
  <2>2. None \in Writes
    BY DEF Writes
  <2>3. first(t) \in TaskStates
    BY <1>3, <2>1, <2>2 DEF TaskStates
  <2>4. first(t).pc = "entities" /\ first(t).ids = nothing /\ first(t).op = None
    OBVIOUS
  <2> HIDE DEF first
  <2>5. TaskSound(first(t), nodes, TRUE)
    BY <1>3, <2>4 DEF TaskSound, Doing
  <2>6. QED
    BY <2>3, <2>5
<1> HIDE DEF first
<1>6. tasks \in [Task -> TaskStates]
  BY <1>4, <1>5
<1>7. nodes \in [Live -> EntityNodes]
  BY <1>1, <1>2
<1>8. GraphTypes
  BY <1>1, <1>2, <1>6, <1>7 DEF GraphTypes
<1>9. \A t \in Task : TaskSound(tasks[t], nodes, ~raced)
  BY <1>1, <1>4, <1>5
<1>10. GraphSound
  BY <1>1, <1>8, <1>9 DEF GraphSound, LowToHigh
<1>11. JobSound
  BY <1>1 DEF JobSound
<1>12. QED
  BY <1>10, <1>11 DEF GraphInv

LEMMA GraphStutters ==
    ASSUME GraphInv, UNCHANGED vars
    PROVE  GraphInv'
<1>1. /\ UNCHANGED <<nodes, created, tasks, relates, comentions, asserted, raced>>
      /\ UNCHANGED <<job, stage, work, merge>>
  BY DEF vars, graphVars, jobVars
<1>2. GraphSound'
  BY <1>1, GraphAlone DEF GraphInv
<1>3. MergeSound => MergeSound'
  BY <1>1 DEF MergeSound, OneEntity, KeyAt, Live
<1>4. MergesApart(work) => MergesApart(work)'
  BY <1>1 DEF MergesApart, OneEntity, KeyAt, Live
<1>5. JobSound'
  BY <1>1, <1>3, <1>4 DEF GraphInv, JobSound
<1>6. QED
  BY <1>2, <1>5 DEF GraphInv

\* Merges, wherever they fail and whatever they run beside, lose no relation that was
\* asserted unless ingestion was under way during one, and double no co-mention.
THEOREM EdgesKept == GraphJobsSpec => []MergesKeepEdges
<1>1. GraphJobsInit => GraphInv
  BY GraphStarts
<1>2. GraphInv /\ [GraphJobsNext]_vars => GraphInv'
  BY JobStepSound, IngestSound, GraphStutters DEF GraphJobsNext
<1>3. GraphInv => MergesKeepEdges
  <2>1. SUFFICES ASSUME GraphInv
                 PROVE  MergesKeepEdges
    OBVIOUS
  <2>2. CoMentionsAreCanonical
    BY <2>1 DEF GraphInv, GraphSound, LowToHigh, CoMentionsAreCanonical
  <2>3. RelationsOutliveMerges
    <3>1. SUFFICES ASSUME ~raced, NEW r \in asserted
                   PROVE  \E e \in relates : /\ KeyAt(e.from) = Key[r[1]] /\ KeyAt(e.to) = Key[r[3]]
                                             /\ Canon[e.label] = Canon[r[2]]
      BY DEF RelationsOutliveMerges
    <3>2. Spans(relates, nodes, r)
      BY <2>1, <3>1 DEF GraphInv, GraphSound
    <3>3. QED
      BY <3>2 DEF Spans, KeyAt
  <2>4. QED
    BY <2>2, <2>3 DEF MergesKeepEdges
<1>4. QED
  BY <1>1, <1>2, <1>3, PTL DEF GraphJobsSpec

-----------------------------------------------------------------------------
(* What a pass of the graph jobs leaves behind *)

\* Every edge has an id of its own.
EdgeIds ==
    /\ \A e \in relates : e.id \in 1 .. created
    /\ \A e, d \in relates : e.id = d.id => e = d

\* Moving edges onto others: ids stay apart, and an edge is one that was moved, or was
\* where it is and is open only if it was or another was moved there.
LEMMA RepointIds ==
    ASSUME relates \subseteq Relations, EdgeIds, NEW image, DOMAIN image \subseteq relates,
           \A e \in DOMAIN image : image[e] \in Relations /\ image[e].id = e.id,
           NEW after \in Repointed(image)
    PROVE  /\ \A d \in after : d.id \in 1 .. created
           /\ \A d, e \in after : d.id = e.id => d = e
           /\ \A d \in after :
                \/ \E r \in DOMAIN image : d = image[r]
                \/ \E e \in relates \ DOMAIN image :
                     /\ PlaceOf(d) = PlaceOf(e)
                     /\ d.open => e.open \/ \E r \in DOMAIN image : PlaceOf(image[r]) = PlaceOf(d)
<1> DEFINE rows == DOMAIN image
           places == {PlaceOf(image[r]) : r \in rows}
           rest == relates \ rows
           held == {PlaceOf(e) : e \in rest}
           kept(pick, e) ==
             IF PlaceOf(e) \in places THEN [e EXCEPT !.open = pick[PlaceOf(e)].open] ELSE e
           picks == {f \in [places -> rows] : \A p \in places : PlaceOf(image[f[p]]) = p}
           made(pick) == {kept(pick, e) : e \in rest} \cup {image[pick[p]] : p \in places \ held}
<1>1. Repointed(image) = {made(pick) : pick \in picks}
  BY DEF Repointed, PlaceOf
<1> HIDE DEF rows, places, held, made, picks
<1>2. PICK pick \in picks : after = made(pick)
  BY <1>1
<1>3. /\ pick \in {f \in [places -> rows] : \A p \in places : PlaceOf(image[f[p]]) = p}
      /\ after = {kept(pick, e) : e \in rest} \cup {image[pick[p]] : p \in places \ held}
  BY <1>2 DEF picks, made
<1>4. rows \subseteq relates /\ \A e \in rows : image[e] \in Relations /\ image[e].id = e.id
  BY DEF rows
<1>5. \A p \in places : pick[p] \in rows /\ PlaceOf(image[pick[p]]) = p
  BY <1>3
<1>6. ASSUME NEW e \in rest
      PROVE  /\ PlaceOf(kept(pick, e)) = PlaceOf(e) /\ kept(pick, e).id = e.id
             /\ PlaceOf(e) \notin places => kept(pick, e) = e
  <2>1. e \in Relations
    OBVIOUS
  <2>2. CASE PlaceOf(e) \in places
    <3>1. pick[PlaceOf(e)] \in Relations
      BY <1>4, <1>5, <2>2
    <3> DEFINE open == pick[PlaceOf(e)].open
    <3>2. open \in BOOLEAN
      BY <3>1 DEF Relations
    <3>3. kept(pick, e) = [e EXCEPT !.open = open]
      BY <2>2
    <3> HIDE DEF open, kept
    <3>4. QED
      BY <2>1, <2>2, <3>2, <3>3 DEF Relations, PlaceOf
  <2>3. CASE PlaceOf(e) \notin places
    BY <2>1, <2>3
  <2>4. QED
    BY <2>2, <2>3
<1> HIDE DEF kept
<1>7. \A d \in after : \/ \E e \in rest : d = kept(pick, e)
                       \/ \E p \in places : d = image[pick[p]]
  BY <1>3
<1>8. \A d \in after : \/ \E e \in rest : d = kept(pick, e) /\ d.id = e.id
                       \/ \E e \in rows : d = image[e] /\ d.id = e.id
  <2>1. TAKE d \in after
  <2>2. CASE \E e \in rest : d = kept(pick, e)
    BY <1>6, <2>2
  <2>3. CASE \E p \in places : d = image[pick[p]]
    BY <1>4, <1>5, <2>3
  <2>4. QED
    BY <1>7, <2>2, <2>3
<1>9. \A e, d \in relates : e.id = d.id => e = d
  BY DEF EdgeIds
<1>10. \A d \in after : d.id \in 1 .. created
  BY <1>4, <1>8 DEF EdgeIds
<1>11. ASSUME NEW d \in after, NEW e \in after, d.id = e.id
       PROVE  d = e
  <2>1. CASE \E c \in rest : d = kept(pick, c) /\ d.id = c.id
    <3>1. PICK c \in rest : d = kept(pick, c) /\ d.id = c.id
      BY <2>1
    <3>2. CASE \E b \in rest : e = kept(pick, b) /\ e.id = b.id
      BY <1>9, <1>11, <3>1, <3>2
    <3>3. CASE \E b \in rows : e = image[b] /\ e.id = b.id
      BY <1>4, <1>9, <1>11, <3>1, <3>3
    <3>4. QED
      BY <1>8, <3>2, <3>3
  <2>2. CASE \E c \in rows : d = image[c] /\ d.id = c.id
    <3>1. PICK c \in rows : d = image[c] /\ d.id = c.id
      BY <2>2
    <3>2. CASE \E b \in rest : e = kept(pick, b) /\ e.id = b.id
      BY <1>4, <1>9, <1>11, <3>1, <3>2
    <3>3. CASE \E b \in rows : e = image[b] /\ e.id = b.id
      BY <1>4, <1>9, <1>11, <3>1, <3>3
    <3>4. QED
      BY <1>8, <3>2, <3>3
  <2>3. QED
    BY <1>8, <2>1, <2>2
<1>12. ASSUME NEW d \in after
       PROVE  \/ \E r \in rows : d = image[r]
              \/ \E e \in rest :
                   /\ PlaceOf(d) = PlaceOf(e)
                   /\ d.open => e.open \/ \E r \in rows : PlaceOf(image[r]) = PlaceOf(d)
  <2>1. CASE \E e \in rest : d = kept(pick, e)
    <3>1. PICK e \in rest : d = kept(pick, e)
      BY <2>1
    <3>2. PlaceOf(d) = PlaceOf(e) /\ (PlaceOf(e) \notin places => d = e)
      BY <1>6, <3>1
    <3>3. PlaceOf(e) \in places => \E r \in rows : PlaceOf(image[r]) = PlaceOf(d)
      BY <3>2 DEF places
    <3>4. QED
      BY <3>2, <3>3
  <2>2. CASE \E p \in places : d = image[pick[p]]
    BY <1>5, <2>2
  <2>3. QED
    BY <1>7, <2>1, <2>2
<1>13. QED
  BY <1>10, <1>11, <1>12 DEF rows

\* A task's query makes one edge at most, under an id that is new.
LEMMA TaskKeepsIds ==
    ASSUME GraphInv, EdgeIds, NEW t \in Task, TaskStep(t)
    PROVE  EdgeIds'
<1>1. created \in Nat
  BY DEF GraphInv, GraphSound, GraphTypes
<1>2. CASE UNCHANGED <<relates, created>>
  BY <1>2 DEF EdgeIds
<1>3. CASE CreateEntity(t)
  <2>1. relates' = relates /\ created' = created + 1
    BY <1>3 DEF CreateEntity
  <2>2. QED
    BY <1>1, <2>1 DEF EdgeIds
<1>4. CASE CreateEdge(t)
  <2> DEFINE r == tasks[t].op.rel
             made == [id |-> created + 1, from |-> tasks[t].ids[r[1]], label |-> r[2],
                      to |-> tasks[t].ids[r[3]], open |-> TRUE]
  <2>1. relates' \subseteq relates \cup {made} /\ created' = created + 1
    BY <1>4 DEF CreateEdge
  <2>2. made.id = created + 1
    OBVIOUS
  <2> HIDE DEF made
  <2>3. \A e \in relates : e.id # made.id
    BY <1>1, <2>2 DEF EdgeIds
  <2>4. \A e \in relates' : e.id \in 1 .. created'
    BY <1>1, <2>1, <2>2 DEF EdgeIds
  <2>5. \A e, d \in relates' : e.id = d.id => e = d
    BY <2>1, <2>3 DEF EdgeIds
  <2>6. QED
    BY <2>4, <2>5 DEF EdgeIds
<1>5. QED
  BY <1>2, <1>3, <1>4 DEF TaskStep, StoreMemory, AddMentions, Finish, FoldAliases, LookUp, FindEdge

\* What a query of a job does to the relations.
LEMMA JobKeepsIds ==
    ASSUME GraphInv, EdgeIds, JobStep \/ FailJob
    PROVE  EdgeIds'
<1>1. relates \subseteq Relations
  BY DEF GraphInv, GraphSound, GraphTypes
<1>2. CASE UNCHANGED <<relates, created>>
  BY <1>2 DEF EdgeIds
<1>3. ASSUME NEW image, DOMAIN image \subseteq relates, created' = created,
             \A e \in DOMAIN image : image[e] \in Relations /\ image[e].id = e.id,
             relates' \in Repointed(image)
      PROVE  EdgeIds'
  <2>1. /\ \A d \in relates' : d.id \in 1 .. created
        /\ \A d, e \in relates' : d.id = e.id => d = e
    BY <1>1, <1>3, RepointIds
  <2>2. QED
    BY <1>3, <2>1 DEF EdgeIds
<1>4. CASE MergeOut \/ MergeIn
  <2>1. PICK from \in {"out", "in"}, to \in {"in", "mentions"} : MergeStep(from, to)
    BY <1>4 DEF MergeOut, MergeIn
  <2>2. merge.dst \in Nat /\ created' = created
    BY <2>1, MergeAt
  <2> DEFINE dst == merge.dst
             out == {d \in relates : d.from = merge.src}
             in == {d \in relates : d.to = merge.src}
             outs == [e \in out |-> [e EXCEPT !.from = dst]]
             ins == [e \in in |-> [e EXCEPT !.to = dst]]
  <2>3. \A e \in relates : /\ [e EXCEPT !.from = dst] \in Relations /\ [e EXCEPT !.from = dst].id = e.id
                           /\ [e EXCEPT !.to = dst] \in Relations /\ [e EXCEPT !.to = dst].id = e.id
    <3> HIDE DEF dst
    <3>1. dst \in Nat
      BY <2>2 DEF dst
    <3>2. QED
      BY <1>1, <3>1 DEF Relations
  <2>4. relates' \in Repointed(outs) \/ relates' \in Repointed(ins)
    BY <1>4 DEF MergeOut, MergeIn
  <2>5. /\ DOMAIN outs \subseteq relates /\ DOMAIN ins \subseteq relates
        /\ \A e \in DOMAIN outs : outs[e] \in Relations /\ outs[e].id = e.id
        /\ \A e \in DOMAIN ins : ins[e] \in Relations /\ ins[e].id = e.id
    BY <2>3
  <2> HIDE DEF outs, ins
  <2>6. QED
    BY <1>3, <2>2, <2>4, <2>5
<1>5. CASE MergeRelations
  <2>1. PICK l \in work :
          relates' \in Repointed([e \in {d \in relates : d.open /\ d.label = l} |->
                                     [e EXCEPT !.label = Canon[l]]])
    BY <1>5 DEF MergeRelations
  <2> DEFINE rows == {d \in relates : d.open /\ d.label = l}
             image == [e \in rows |-> [e EXCEPT !.label = Canon[l]]]
  <2>2. ASSUME NEW e \in rows
        PROVE  image[e] \in Relations /\ image[e].id = e.id
    <3> DEFINE canon == Canon[l]
    <3>1. e \in Relations /\ e.label = l /\ image[e] = [e EXCEPT !.label = canon]
      BY <1>1
    <3>2. canon \in Label
      BY <3>1, GraphMaintenanceAssumption DEF Relations
    <3> HIDE DEF canon, image, rows
    <3>3. QED
      BY <3>1, <3>2 DEF Relations
  <2>3. DOMAIN image \subseteq relates /\ relates' \in Repointed(image) /\ created' = created
    BY <1>5, <2>1 DEF MergeRelations
  <2>4. \A e \in DOMAIN image : image[e] \in Relations /\ image[e].id = e.id
    BY <2>2
  <2> HIDE DEF image
  <2>5. QED
    BY <1>3, <2>3, <2>4
<1>6. CASE DeleteMerged
  <2>1. relates' \subseteq relates /\ created' = created
    BY <1>6 DEF DeleteMerged, MergeStep
  <2>2. QED
    BY <2>1 DEF EdgeIds
<1>7. CASE Prune
  <2>1. PICK v \in work :
          relates' = {IF e.id = v[1] THEN [e EXCEPT !.open = FALSE] ELSE e : e \in relates}
    BY <1>7 DEF Prune
  <2> DEFINE closed(e) == IF e.id = v[1] THEN [e EXCEPT !.open = FALSE] ELSE e
  <2>2. \A e \in relates : closed(e).id = e.id
    BY <1>1 DEF Relations
  <2>3. relates' = {closed(e) : e \in relates} /\ created' = created
    BY <1>7, <2>1 DEF Prune
  <2> HIDE DEF closed
  <2>4. \A d \in relates' : \E e \in relates : d = closed(e) /\ d.id = e.id
    BY <2>2, <2>3
  <2>5. QED
    BY <2>3, <2>4 DEF EdgeIds
<1>8. QED
  BY <1>2, <1>4, <1>5, <1>6, <1>7
     DEF JobStep, FailJob, StartPass, ListDuplicates, TakeMerge, MergesDone, MergeMentions,
         MergeCoMentions, DropSelfLoop, FoldMerged, MergeStep, Visit, VisitsDone, MapNames,
         PairMemories, AssertMentions, PairEntities, RankPairs, AssertCoMention, CoMentionsDone,
         ListLabels, LabelsDone, JobOver, Decide, graphVars

\* A name that node i goes by, and will once the alias lists that were decided on are written.
GoesBy(i, n) ==
    \/ nodes[i].name = n
    \/ /\ n \in nodes[i].aliases
       /\ \A t \in Task : Doing(tasks[t], "fold") /\ tasks[t].op.id = i => n \in tasks[t].op.aliases
Remembered(n) == \E i \in Live : GoesBy(i, n)

\* The list a merge will write has whatever the two nodes are called.
MergeKnows ==
    merge # None =>
      /\ nodes[merge.src].aliases \cup nodes[merge.dst].aliases \subseteq merge.aliases
      /\ nodes[merge.src].name \in merge.aliases
      /\ merge.step = "delete" => merge.aliases \subseteq nodes[merge.dst].aliases

\* What a memory mentions stays known, unless ingestion was under way during a merge.
NamesKept ==
    /\ stored \subseteq Task
    /\ ~raced => /\ MergeKnows
                 /\ \A t \in Task : tasks[t].pc \in {"edges", "done"} =>
                      \A n \in Chunk[t].memory : Remembered(n)

\* A merge's query that is not raced comes when no task is about to write.
LEMMA NothingPending ==
    ASSUME GraphInv, NEW from, NEW to, MergeStep(from, to), ~raced'
    PROVE  ~raced /\ \A t \in Task : tasks[t].op = None
<1>1. ~raced /\ ~InFlight
  BY DEF MergeStep
<1>2. ASSUME NEW t \in Task
      PROVE  tasks[t].op = None
  <2>1. TaskSound(tasks[t], nodes, ~raced)
    BY DEF GraphInv, GraphSound
  <2>2. QED
    BY <1>1, <2>1 DEF InFlight, TaskSound
<1>3. QED
  BY <1>1, <1>2

\* The queries of a merge, seen from the names.
LEMMA MergeKeepsNames ==
    ASSUME GraphInv, NamesKept, NEW from, NEW to, MergeStep(from, to),
           ~raced' => \A i \in Live : \A n : GoesBy(i, n) => Remembered(n)', ~raced' => MergeKnows'
    PROVE  NamesKept'
<1>1. UNCHANGED <<stored, tasks>>
  BY DEF MergeStep
<1>2. ASSUME ~raced', NEW t \in Task, tasks'[t].pc \in {"edges", "done"}, NEW n \in Chunk[t].memory
      PROVE  Remembered(n)'
  <2>1. ~raced
    BY <1>2, NothingPending
  <2>2. Remembered(n)
    BY <1>1, <1>2, <2>1 DEF NamesKept
  <2>3. QED
    BY <1>2, <2>2 DEF Remembered
<1>3. QED
  BY <1>1, <1>2 DEF NamesKept

LEMMA JobKeepsNames ==
    ASSUME GraphInv, NamesKept, JobStep \/ FailJob
    PROVE  NamesKept'
<1>1. CASE UNCHANGED <<nodes, stored, tasks, raced>> /\ merge' \in {merge, None}
  <2>1. \A n : Remembered(n) => Remembered(n)'
    BY <1>1 DEF Remembered, GoesBy, Live
  <2>2. MergeKnows => MergeKnows'
    BY <1>1 DEF MergeKnows
  <2>3. QED
    BY <1>1, <2>1, <2>2 DEF NamesKept
<1>2. CASE TakeMerge
  <2>1. PICK p \in work :
          merge' = [src |-> p[1], dst |-> p[2], step |-> "out",
                    aliases |-> nodes[p[2]].aliases \cup {nodes[p[1]].name} \cup nodes[p[1]].aliases]
    BY <1>2 DEF TakeMerge
  <2>2. UNCHANGED <<nodes, stored, tasks, raced>>
    BY <1>2 DEF TakeMerge, graphVars
  <2>3. \A n : Remembered(n) => Remembered(n)'
    BY <2>2 DEF Remembered, GoesBy, Live
  <2>4. MergeKnows'
    BY <2>1, <2>2 DEF MergeKnows
  <2>5. QED
    BY <2>2, <2>3, <2>4 DEF NamesKept
<1>3. CASE MergeOut \/ MergeIn \/ MergeMentions \/ MergeCoMentions \/ DropSelfLoop
  <2>1. PICK from \in {"out", "in", "mentions", "co", "loop"}, to \in {"in", "mentions", "co", "loop", "alias"} :
          MergeStep(from, to)
    BY <1>3 DEF MergeOut, MergeIn, MergeMentions, MergeCoMentions, DropSelfLoop
  <2>2. nodes' = nodes /\ tasks' = tasks
    BY <1>3 DEF MergeOut, MergeIn, MergeMentions, MergeCoMentions, DropSelfLoop, MergeStep
  <2>3. \A i \in Live : \A n : GoesBy(i, n) => Remembered(n)'
    BY <2>2 DEF Remembered, GoesBy, Live
  <2>4. ASSUME ~raced'
        PROVE  MergeKnows'
    <3>1. MergeKnows /\ merge # None
      BY <2>1, <2>4, NothingPending DEF NamesKept, MergeStep
    <3>2. merge \in Merges /\ merge' = [merge EXCEPT !.step = to]
      BY <2>1, MergeAt DEF MergeStep
    <3>3. merge'.src = merge.src /\ merge'.dst = merge.dst /\ merge'.aliases = merge.aliases /\ merge'.step = to
      BY <3>2 DEF Merges
    <3>4. QED
      BY <2>1, <2>2, <3>1, <3>3 DEF MergeKnows
  <2>5. QED
    BY <2>1, <2>3, <2>4, MergeKeepsNames
<1>4. CASE FoldMerged
  <2>1. MergeStep("alias", "delete") /\ nodes' = [nodes EXCEPT ![merge.dst].aliases = merge.aliases]
    BY <1>4 DEF FoldMerged
  <2>2. /\ merge \in Merges /\ merge.src \in Live /\ merge.dst \in Live /\ merge.src # merge.dst
        /\ tasks' = tasks /\ GraphSound
    BY <2>1, MergeAt
  <2> DEFINE src == merge.src
             dst == merge.dst
             all == merge.aliases
  <2>3. nodes \in [Live -> EntityNodes] /\ dst \in Live /\ src \in Live /\ src # dst
    BY <2>2 DEF GraphSound, GraphTypes
  <2>4. /\ merge' = [merge EXCEPT !.step = "delete"] /\ merge # None
        /\ nodes' = [nodes EXCEPT ![dst].aliases = all]
    BY <2>1 DEF MergeStep
  <2>5. merge'.src = src /\ merge'.dst = dst /\ merge'.aliases = all
    BY <2>2, <2>4 DEF Merges
  <2> HIDE DEF src, dst, all
  <2>6. /\ DOMAIN nodes' = Live /\ \A i \in Live : nodes'[i].name = nodes[i].name
        /\ \A i \in Live : nodes'[i].aliases = IF i = dst THEN all ELSE nodes[i].aliases
    BY <2>3, <2>4 DEF EntityNodes
  <2>7. ASSUME ~raced'
        PROVE  MergeKnows' /\ \A i \in Live : \A n : GoesBy(i, n) => Remembered(n)'
    <3>1. ~raced /\ \A t \in Task : tasks'[t].op = None
      BY <2>1, <2>2, <2>7, NothingPending
    <3>2. nodes[src].aliases \cup nodes[dst].aliases \subseteq all /\ nodes[src].name \in all
      BY <2>4, <3>1 DEF NamesKept, MergeKnows, src, dst, all
    <3>3. MergeKnows'
      BY <2>3, <2>5, <2>6, <3>2 DEF MergeKnows
    <3>4. ASSUME NEW i \in Live, NEW n, GoesBy(i, n)
          PROVE  Remembered(n)'
      <4>1. nodes'[i].name = n \/ n \in nodes'[i].aliases
        BY <2>6, <3>2, <3>4 DEF GoesBy
      <4>2. i \in Live'
        BY <2>6 DEF Live
      <4>3. QED
        BY <3>1, <4>1, <4>2 DEF Remembered, GoesBy, Doing
    <3>5. QED
      BY <3>3, <3>4
  <2>8. QED
    BY <2>1, <2>7, MergeKeepsNames
<1>5. CASE DeleteMerged
  <2>1. MergeStep("delete", "end") /\ merge' = None /\ nodes' = [i \in Live \ {merge.src} |-> nodes[i]]
    BY <1>5 DEF DeleteMerged, MergeStep
  <2>2. /\ merge.src \in Live /\ merge.dst \in Live /\ merge.src # merge.dst /\ merge # None
        /\ merge.step = "delete" /\ tasks' = tasks
    BY <2>1, MergeAt DEF MergeStep
  <2> DEFINE src == merge.src
             dst == merge.dst
  <2>3. DOMAIN nodes' = Live \ {src} /\ \A i \in Live \ {src} : nodes'[i] = nodes[i]
    BY <2>1
  <2>4. ASSUME ~raced', NEW i \in Live, NEW n, GoesBy(i, n)
        PROVE  Remembered(n)'
    <3>1. ~raced /\ \A t \in Task : tasks'[t].op = None
      BY <2>1, <2>2, <2>4, NothingPending
    <3>2. ASSUME NEW j \in Live \ {src}, nodes[j].name = n \/ n \in nodes[j].aliases
          PROVE  Remembered(n)'
      <4>1. j \in Live' /\ (nodes'[j].name = n \/ n \in nodes'[j].aliases)
        BY <2>3, <3>2 DEF Live
      <4>2. QED
        BY <3>1, <4>1 DEF Remembered, GoesBy, Doing
    <3>3. nodes[src].aliases \subseteq nodes[dst].aliases /\ nodes[src].name \in nodes[dst].aliases
      BY <2>2, <3>1 DEF NamesKept, MergeKnows
    <3>4. CASE i = src
      <4>1. n \in nodes[dst].aliases
        BY <2>4, <3>3, <3>4 DEF GoesBy
      <4>2. QED
        BY <2>2, <3>2, <4>1
    <3>5. CASE i # src
      BY <2>4, <3>2, <3>5 DEF GoesBy
    <3>6. QED
      BY <3>4, <3>5
  <2>5. MergeKnows'
    BY <2>1 DEF MergeKnows
  <2>6. QED
    BY <2>1, <2>4, <2>5, MergeKeepsNames
<1>6. QED
  BY <1>1, <1>2, <1>3, <1>4, <1>5
     DEF JobStep, FailJob, StartPass, ListDuplicates, MergesDone, Visit, Prune, VisitsDone, MapNames,
         PairMemories, AssertMentions, PairEntities, RankPairs, AssertCoMention, CoMentionsDone,
         ListLabels, MergeRelations, LabelsDone, JobOver, Begin, Decide, graphVars

\* Whatever a task writes, or decides to write, leaves every name to the node that has it.
LEMMA NamesStay ==
    ASSUME GraphTypes, NEW t \in Task, NEW k, tasks' = [tasks EXCEPT ![t] = k],
           Live \subseteq DOMAIN nodes', \A i \in Live : nodes'[i].name = nodes[i].name,
           \A i \in Live : \A n \in nodes[i].aliases :
             \/ n \in nodes'[i].aliases
             \/ Doing(tasks[t], "fold") /\ tasks[t].op.id = i /\ n \notin tasks[t].op.aliases,
           Doing(k, "fold") =>
             \/ k.op = tasks[t].op
             \/ \A n \in nodes[k.op.id].aliases : n \in k.op.aliases \/ n = nodes[k.op.id].name
    PROVE  \A n : Remembered(n) => Remembered(n)'
<1>1. SUFFICES ASSUME NEW n, NEW i \in Live, GoesBy(i, n)
               PROVE  i \in Live' /\ GoesBy(i, n)'
  BY DEF Remembered
<1>2. i \in Live' /\ nodes'[i].name = nodes[i].name
  BY DEF Live
<1>3. CASE nodes[i].name = n
  BY <1>2, <1>3 DEF GoesBy
<1>4. CASE nodes[i].name # n
  <2>1. /\ n \in nodes[i].aliases
        /\ \A u \in Task : Doing(tasks[u], "fold") /\ tasks[u].op.id = i => n \in tasks[u].op.aliases
    BY <1>1, <1>4 DEF GoesBy
  <2>2. n \in nodes'[i].aliases
    BY <2>1
  <2>3. ASSUME NEW u \in Task, Doing(tasks'[u], "fold"), tasks'[u].op.id = i
        PROVE  n \in tasks'[u].op.aliases
    <3>1. tasks'[u] = IF u = t THEN k ELSE tasks[u]
      BY DEF GraphTypes
    <3>2. CASE u = t
      <4>1. tasks'[u] = k /\ Doing(k, "fold") /\ k.op.id = i
        BY <2>3, <3>1, <3>2
      <4>2. CASE k.op = tasks[t].op
        <5>1. Doing(tasks[t], "fold") /\ tasks[t].op.id = i
          BY <4>1, <4>2 DEF Doing
        <5>2. QED
          BY <2>1, <4>1, <4>2, <5>1
      <4>3. CASE \A m \in nodes[k.op.id].aliases : m \in k.op.aliases \/ m = nodes[k.op.id].name
        BY <1>4, <2>1, <4>1, <4>3
      <4>4. QED
        BY <4>1, <4>2, <4>3
    <3>3. CASE u # t
      BY <2>1, <2>3, <3>1, <3>3
    <3>4. QED
      BY <3>2, <3>3
  <2>4. QED
    BY <1>2, <2>2, <2>3 DEF GoesBy
<1>5. QED
  BY <1>3, <1>4

\* A task that goes on forgets nothing, and has resolved what its memory mentions before it
\* comes to its relations.
LEMMA IngestRecalls ==
    ASSUME GraphInv, NamesKept, NEW t \in Task, TaskStep(t), NEW k, tasks' = [tasks EXCEPT ![t] = k],
           ~raced, \A n : Remembered(n) => Remembered(n)',
           k.pc \in {"edges", "done"} =>
             tasks[t].pc \in {"edges", "done"} \/ \A n \in Chunk[t].memory : Remembered(n)
    PROVE  \A u \in Task : tasks'[u].pc \in {"edges", "done"} =>
             \A n \in Chunk[u].memory : Remembered(n)'
<1>1. SUFFICES ASSUME NEW u \in Task, tasks'[u].pc \in {"edges", "done"}, NEW n \in Chunk[u].memory
               PROVE  Remembered(n)
  OBVIOUS
<1>2. tasks'[u] = IF u = t THEN k ELSE tasks[u]
  BY DEF GraphInv, GraphSound, GraphTypes
<1>3. QED
  BY <1>1, <1>2 DEF NamesKept

LEMMA IngestKeepsNames ==
    ASSUME GraphInv, NamesKept, NEW t \in Task, Ingest(t)
    PROVE  NamesKept'
<1>1. /\ TaskStep(t) /\ raced' = (raced \/ merge # None) /\ merge' = merge
      /\ GraphSound /\ GraphTypes /\ raced \in BOOLEAN /\ stored \subseteq Task
  BY DEF Ingest, GraphInv, GraphSound, NamesKept
<1>2. /\ tasks \in [Task -> TaskStates]
      /\ tasks[t].pc \in {"entities", "mentions", "edges", "done"}
      /\ tasks[t].ids \in [Name -> Nat \cup {None}] /\ tasks[t].op \in Writes
      /\ TaskSound(tasks[t], nodes, ~raced')
  BY <1>1, TaskAt
<1>3. stored' \subseteq Task
  BY <1>1 DEF TaskStep, StoreMemory, AddMentions, Finish, CreateEntity, FoldAliases, CreateEdge,
              LookUp, FindEdge
<1>4. SUFFICES ASSUME ~raced'
               PROVE  \A u \in Task : tasks'[u].pc \in {"edges", "done"} =>
                        \A n \in Chunk[u].memory : Remembered(n)'
  BY <1>1, <1>3 DEF NamesKept, MergeKnows
<1>5. ~raced /\ nodes \in [Live -> EntityNodes]
  BY <1>1, <1>4 DEF GraphTypes
<1>6. ASSUME NEW k, tasks' = [tasks EXCEPT ![t] = k], nodes' = nodes, k.pc = tasks[t].pc,
             Doing(k, "fold") =>
               \A n \in nodes[k.op.id].aliases : n \in k.op.aliases \/ n = nodes[k.op.id].name
      PROVE  \A u \in Task : tasks'[u].pc \in {"edges", "done"} =>
               \A n \in Chunk[u].memory : Remembered(n)'
  <2>1. \A n : Remembered(n) => Remembered(n)'
    BY <1>1, <1>6, NamesStay DEF Live
  <2>2. QED
    BY <1>1, <1>5, <1>6, <2>1, IngestRecalls
<1>7. CASE StoreMemory(t)
  <2>1. PICK k \in TaskStates : /\ tasks' = [tasks EXCEPT ![t] = k] /\ k.pc = "mentions" /\ k.op = None
                                /\ k.ids = tasks[t].ids
    BY <1>2, <1>7, GoesTo DEF StoreMemory
  <2>2. \A n : Remembered(n) => Remembered(n)'
    BY <1>1, <1>7, <2>1, NamesStay DEF Live, StoreMemory, Doing
  <2>3. QED
    BY <1>1, <1>5, <2>1, <2>2, IngestRecalls
<1>8. CASE AddMentions(t)
  <2>1. PICK k \in TaskStates : /\ tasks' = [tasks EXCEPT ![t] = k] /\ k.pc = "edges" /\ k.op = None
                                /\ k.ids = tasks[t].ids
    BY <1>2, <1>8, GoesTo DEF AddMentions
  <2>2. \A n : Remembered(n) => Remembered(n)'
    BY <1>1, <1>8, <2>1, NamesStay DEF Live, AddMentions, Doing
  <2>3. ASSUME NEW n \in Chunk[t].memory
        PROVE  Remembered(n)
    <3>1. n \in Name
      BY ChunkAssumption DEF ChunkType
    <3>2. tasks[t].ids[n] # None
      BY <1>8, <2>3 DEF AddMentions, Wanted, Known
    <3>3. Named(nodes, tasks[t].ids[n], n)
      BY <1>2, <1>4, <3>1, <3>2 DEF TaskSound
    <3>4. QED
      BY <3>3 DEF Named, Remembered, GoesBy, Live
  <2>4. QED
    BY <1>1, <1>5, <2>1, <2>2, <2>3, IngestRecalls
<1>9. CASE Finish(t)
  <2> DEFINE k == [tasks[t] EXCEPT !.pc = "done", !.ids = [n \in Name |-> None]]
  <2>1. tasks' = [tasks EXCEPT ![t] = k] /\ nodes' = nodes /\ tasks[t].pc = "edges" /\ tasks[t].op = None
    BY <1>2, <1>9 DEF Finish
  <2>2. k.op = tasks[t].op
    BY <1>2 DEF TaskStates
  <2> HIDE DEF k
  <2>3. \A n : Remembered(n) => Remembered(n)'
    BY <1>1, <2>1, <2>2, NamesStay DEF Live
  <2>4. QED
    BY <1>1, <1>5, <2>1, <2>3, IngestRecalls
<1>10. CASE CreateEntity(t)
  <2> DEFINE n == tasks[t].op.name
             made == [name |-> n, aliases |-> Incoming(t, n) \ {n}]
             i == created + 1
  <2>1. /\ nodes' = [j \in Live \cup {i} |-> IF j = i THEN made ELSE nodes[j]]
        /\ Resolved(t, n, i)
    BY <1>10 DEF CreateEntity
  <2>2. n \in Name
    BY <1>2, <1>10 DEF CreateEntity, Writes
  <2>3. i \in Nat /\ i \notin Live
    BY <1>1 DEF GraphTypes
  <2> HIDE DEF n, made, i
  <2>4. PICK k \in TaskStates : /\ tasks' = [tasks EXCEPT ![t] = k] /\ k.pc = tasks[t].pc /\ k.op = None
                                /\ k.ids = [tasks[t].ids EXCEPT ![n] = i]
    BY <1>2, <2>1, <2>2, <2>3, Resolves
  <2>5. Live \subseteq DOMAIN nodes' /\ \A j \in Live : nodes'[j] = nodes[j]
    BY <2>1, <2>3
  <2>6. \A m : Remembered(m) => Remembered(m)'
    BY <1>1, <2>4, <2>5, NamesStay DEF Doing
  <2>7. QED
    BY <1>1, <1>5, <2>4, <2>6, IngestRecalls
<1>11. CASE FoldAliases(t)
  <2> DEFINE n == tasks[t].op.name
             all == tasks[t].op.aliases
             id == tasks[t].op.id
  <2>1. /\ nodes' = [i \in Live |-> IF i = id THEN [nodes[i] EXCEPT !.aliases = all] ELSE nodes[i]]
        /\ Resolved(t, n, id) /\ Doing(tasks[t], "fold")
    BY <1>11 DEF FoldAliases, Doing
  <2>2. n \in Name /\ id \in Nat
    BY <1>2, <1>11 DEF FoldAliases, Writes
  <2>3. PICK k \in TaskStates : /\ tasks' = [tasks EXCEPT ![t] = k] /\ k.pc = tasks[t].pc /\ k.op = None
                                /\ k.ids = [tasks[t].ids EXCEPT ![n] = id]
    BY <1>2, <2>1, <2>2, Resolves
  <2> HIDE DEF n, all, id
  <2>4. /\ Live \subseteq DOMAIN nodes' /\ \A i \in Live : nodes'[i].name = nodes[i].name
        /\ \A i \in Live : nodes'[i].aliases = IF i = id THEN all ELSE nodes[i].aliases
    BY <1>5, <2>1 DEF EntityNodes
  <2>5. \A m : Remembered(m) => Remembered(m)'
    <3>1. \A i \in Live : \A m \in nodes[i].aliases :
            m \in nodes'[i].aliases \/ (Doing(tasks[t], "fold") /\ tasks[t].op.id = i /\ m \notin tasks[t].op.aliases)
      BY <2>1, <2>4 DEF id, all
    <3>2. QED
      BY <1>1, <2>3, <2>4, <3>1, NamesStay DEF Doing
  <2>6. QED
    BY <1>1, <1>5, <2>3, <2>5, IngestRecalls
<1>12. CASE CreateEdge(t)
  <2> DEFINE r == tasks[t].op.rel
  <2>1. tasks' = [tasks EXCEPT ![t].op = None, ![t].rels = @ \ {r}] /\ nodes' = nodes
    BY <1>12 DEF CreateEdge
  <2>2. PICK k \in TaskStates : /\ tasks' = [tasks EXCEPT ![t] = k] /\ k.pc = tasks[t].pc /\ k.op = None
                                /\ k.ids = tasks[t].ids
    BY <1>2, <2>1, DropsRelation
  <2>3. QED
    BY <1>6, <2>1, <2>2 DEF Doing
<1>13. ASSUME NEW r \in tasks[t].rels, FindEdge(t, r)
       PROVE  \A u \in Task : tasks'[u].pc \in {"edges", "done"} =>
                \A n \in Chunk[u].memory : Remembered(n)'
  <2>1. nodes' = nodes /\ tasks[t].op = None
    BY <1>13 DEF FindEdge
  <2>2. CASE tasks' = [tasks EXCEPT ![t].rels = @ \ {r}]
    <3>1. PICK k \in TaskStates : /\ tasks' = [tasks EXCEPT ![t] = k] /\ k.pc = tasks[t].pc /\ k.op = None
                                  /\ k.ids = tasks[t].ids
      BY <1>2, <2>1, <2>2, DropsRelation
    <3>2. QED
      BY <1>6, <2>1, <3>1 DEF Doing
  <2>3. CASE tasks' = [tasks EXCEPT ![t].op = [kind |-> "edge", rel |-> r]]
    <3> DEFINE op == [kind |-> "edge", rel |-> r]
    <3>1. op \in Writes /\ op.kind = "edge"
      <4>1. tasks[t].rels \subseteq Triples
        BY <1>2 DEF TaskStates
      <4>2. QED
        BY <1>13, <4>1 DEF Writes
    <3> HIDE DEF op
    <3>2. tasks' = [tasks EXCEPT ![t].op = op]
      BY <2>3 DEF op
    <3>3. PICK k \in TaskStates : /\ tasks' = [tasks EXCEPT ![t] = k] /\ k.pc = tasks[t].pc /\ k.op = op
                                  /\ k.ids = tasks[t].ids
      BY <1>2, <3>1, <3>2, TakesOp
    <3>4. QED
      BY <1>6, <2>1, <3>1, <3>3 DEF Doing
  <2>4. QED
    BY <1>13, <2>2, <2>3 DEF FindEdge
<1>14. ASSUME NEW n \in Name, LookUp(t, n)
       PROVE  \A u \in Task : tasks'[u].pc \in {"edges", "done"} =>
                \A m \in Chunk[u].memory : Remembered(m)'
  <2>1. nodes' = nodes /\ tasks[t].op = None
    BY <1>14 DEF LookUp
  <2>2. CASE tasks' = [tasks EXCEPT ![t].op = [kind |-> "create", name |-> n]]
    <3> DEFINE op == [kind |-> "create", name |-> n]
    <3>1. op \in Writes /\ op.kind = "create"
      BY <1>14 DEF Writes
    <3> HIDE DEF op
    <3>2. tasks' = [tasks EXCEPT ![t].op = op]
      BY <2>2 DEF op
    <3>3. PICK k \in TaskStates : /\ tasks' = [tasks EXCEPT ![t] = k] /\ k.pc = tasks[t].pc /\ k.op = op
                                  /\ k.ids = tasks[t].ids
      BY <1>2, <3>1, <3>2, TakesOp
    <3>4. QED
      BY <1>6, <2>1, <3>1, <3>3 DEF Doing
  <2>3. ASSUME NEW i \in Live, Resolved(t, n, i)
        PROVE  \A u \in Task : tasks'[u].pc \in {"edges", "done"} =>
                 \A m \in Chunk[u].memory : Remembered(m)'
    <3>1. i \in Nat
      BY <1>1 DEF GraphTypes
    <3>2. PICK k \in TaskStates : /\ tasks' = [tasks EXCEPT ![t] = k] /\ k.pc = tasks[t].pc /\ k.op = None
                                  /\ k.ids = [tasks[t].ids EXCEPT ![n] = i]
      BY <1>2, <1>14, <2>3, <3>1, Resolves
    <3>3. QED
      BY <1>6, <2>1, <3>2 DEF Doing
  <2>4. ASSUME NEW i \in Live, nodes[i].name = n,
               tasks' = [tasks EXCEPT ![t].op =
                           [kind |-> "fold", name |-> n, id |-> i,
                            aliases |-> (nodes[i].aliases \cup Incoming(t, n)) \ {n}]]
        PROVE  \A u \in Task : tasks'[u].pc \in {"edges", "done"} =>
                 \A m \in Chunk[u].memory : Remembered(m)'
    <3> DEFINE all == (nodes[i].aliases \cup Incoming(t, n)) \ {n}
               op == [kind |-> "fold", name |-> n, id |-> i, aliases |-> all]
    <3>1. Incoming(t, n) \in SUBSET Name
      <4>1. Chunk[t].aliases[n] \in SUBSET Name
        BY <1>14, ChunkAssumption DEF ChunkType
      <4>2. QED
        BY <4>1 DEF Incoming
    <3>2. all \in SUBSET Name /\ i \in Nat
      BY <1>1, <1>5, <3>1 DEF EntityNodes, GraphTypes
    <3>3. tasks' = [tasks EXCEPT ![t].op = op]
      BY <2>4
    <3>4. \A m \in nodes[i].aliases : m \in all \/ m = nodes[i].name
      BY <2>4
    <3> HIDE DEF all
    <3>5. op \in Writes /\ op.id = i /\ op.aliases = all
      BY <1>14, <3>2 DEF Writes
    <3> HIDE DEF op
    <3>6. PICK k \in TaskStates : /\ tasks' = [tasks EXCEPT ![t] = k] /\ k.pc = tasks[t].pc /\ k.op = op
                                  /\ k.ids = tasks[t].ids
      BY <1>2, <3>3, <3>5, TakesOp
    <3>7. QED
      BY <1>6, <2>1, <3>4, <3>5, <3>6 DEF Doing
  <2>5. QED
    BY <1>14, <2>2, <2>3, <2>4 DEF LookUp
<1>15. QED
  BY <1>1, <1>7, <1>8, <1>9, <1>10, <1>11, <1>12, <1>13, <1>14 DEF TaskStep

\* What the jobs of an undisturbed pass achieve, and what of it is still to come while they
\* are about it: nodes left over are about to be merged, relations over the cap are about to
\* be pruned unless the visit is still to come, the names are mapped and paired, and the
\* labels that are not canonical are listed.
OneEach == \A i, j \in Live : KeyAt(i) = KeyAt(j) => i = j
Leaves(i) == (\E p \in work : p[1] = i) \/ (merge # None /\ merge.src = i)
TwinsLeave == \A i, j \in Live : KeyAt(i) = KeyAt(j) => i = j \/ Leaves(i) \/ Leaves(j)

PlacesOf(E) == {PlaceOf(e) : e \in E}
Within(E) == Cardinality(PlacesOf(E)) <= MaxDegree
Shadowed(i) == \E j \in Live \ {i} : nodes[i].name \in nodes[j].aliases
Capped == \A i \in Live : Shadowed(i) \/ Within(OpenAt(i))
Remaining(i) == {e \in OpenAt(i) : <<e.id, "prune">> \notin work}
Visiting == \A i \in Live : Shadowed(i) \/ <<i, "visit">> \in work \/ Within(Remaining(i))

Linked ==
    \A m \in stored : \A n \in Chunk[m].memory :
        Called(n) # {} => \E i \in Called(n) : <<m, i>> \in mentions
Mapped == \A n \in Name : Called(n) # {} => \E i \in Called(n) : <<n, i>> \in work
Paired ==
    \A m \in stored : \A n \in Chunk[m].memory :
        Called(n) # {} => \E i \in Called(n) : <<m, i>> \in work

Canonized == \A e \in relates : e.open => Canon[e.label] = e.label
Relabels ==
    /\ \A e \in relates : e.open /\ Canon[e.label] # e.label => e.label \in work
    /\ \A l \in work : l \in Label /\ Canon[l] # l

PassAt ==
    /\ \A t \in Task : tasks[t].pc = "done"
    /\ AtStage("resolution", "merge") => TwinsLeave
    /\ AtStage("resolution", "visit") => OneEach /\ Visiting
    /\ job # "resolution" => OneEach /\ Capped
    /\ AtStage("mentions", "map") => Mapped
    /\ AtStage("mentions", "assert") => Paired
    /\ job \notin {"resolution", "mentions"} => Linked
    /\ AtStage("relnorm", "assert") => Relabels
    /\ job \in {"dedup", "idle"} => Canonized
    /\ AtStage("dedup", "merge") => StageDone

JobKnown == job \in Jobs \cup {"idle"} /\ (stage = "merge" => job \in {"resolution", "dedup"})
PassInv == EdgeIds /\ NamesKept /\ JobKnown /\ (clean => PassAt)

\* What is said of the graph stays true while the graph stays.
LEMMA GraphStays ==
    ASSUME UNCHANGED <<nodes, relates, mentions, stored>>
    PROVE  /\ OneEach => OneEach'
           /\ Capped => Capped'
           /\ Linked => Linked'
           /\ Canonized => Canonized'
<1>1. Live' = Live
  BY DEF Live
<1>2. OneEach => OneEach'
  BY <1>1 DEF OneEach, KeyAt
<1>3. Capped => Capped'
  BY <1>1 DEF Capped, Shadowed, Within, PlacesOf, OpenAt, PlaceOf
<1>4. Linked => Linked'
  BY <1>1 DEF Linked, Called
<1>5. Canonized => Canonized'
  BY DEF Canonized
<1>6. QED
  BY <1>2, <1>3, <1>4, <1>5

\* There are finitely many relations: each has an id of its own among those given out.
LEMMA FiniteRelates ==
    ASSUME GraphInv, EdgeIds
    PROVE  IsFiniteSet(relates)
<1> DEFINE ids == 1 .. created
           id == [e \in relates |-> e.id]
<1>1. IsFiniteSet(ids)
  <2>1. created \in Int /\ 1 \in Int
    BY DEF GraphInv, GraphSound, GraphTypes
  <2>2. QED
    BY <2>1, FS_Interval
<1>2. id \in Injection(relates, ids)
  BY DEF EdgeIds, Injection, IsInjective
<1> HIDE DEF ids, id
<1>3. QED
  BY <1>1, <1>2, FS_Injection

\* Of two nodes of one key, a listing finds one to merge away; of nodes that are apart, none.
LEMMA TwinsListed ==
    ASSUME GraphTypes
    PROVE  \A i, j \in Live : KeyAt(i) = KeyAt(j) => i = j \/ \E p \in Duplicates(SameKey) : p[1] \in {i, j}
<1>1. SUFFICES ASSUME NEW i \in Live, NEW j \in Live, KeyAt(i) = KeyAt(j), i # j
               PROVE  \E p \in Duplicates(SameKey) : p[1] \in {i, j}
  OBVIOUS
<1> DEFINE n == nodes[i].name
           group == {x \in Live : SameKey[nodes[x].name] = SameKey[n]}
           s == Survivor(group)
<1>2. n \in {m \in Name : \E x \in Live : nodes[x].name = m}
  BY DEF GraphTypes, EntityNodes
<1>3. i \in group /\ j \in group
  BY <1>1 DEF SameKey, KeyAt
<1>4. (group \ {s}) \X {s} \subseteq Duplicates(SameKey)
  BY <1>2 DEF Duplicates
<1> HIDE DEF group, s
<1>5. PICK x \in {i, j} : x # s
  BY <1>1
<1>6. <<x, s>> \in Duplicates(SameKey)
  BY <1>3, <1>4, <1>5
<1>7. QED
  BY <1>6

LEMMA NoTwinsListed ==
    ASSUME GraphTypes, OneEach
    PROVE  Duplicates(SameName) = {}
<1>1. \A n, m \in Name : SameName[n] = SameName[m] => Key[n] = Key[m]
  BY DEF SameName
<1>2. MergesApart(Duplicates(SameName))
  BY <1>1, DuplicatesApart
<1>3. QED
  BY <1>2 DEF MergesApart, OneEntity, OneEach

\* The queries of a merge belong to entity resolution, as the pass is undisturbed.
LEMMA MergeInPass ==
    ASSUME GraphInv, PassInv, clean, NEW from, NEW to, MergeStep(from, to)
    PROVE  /\ job = "resolution" /\ stage = "merge" /\ TwinsLeave /\ PassAt
           /\ merge \in Merges /\ merge # None /\ UNCHANGED <<tasks, job, stage, work, stored>>
<1>1. /\ stage = "merge" /\ merge # None /\ PassAt /\ JobKnown
      /\ UNCHANGED <<tasks, job, stage, work, stored>>
  BY DEF MergeStep, PassInv
<1>2. job # "dedup"
  BY <1>1 DEF PassAt, AtStage, StageDone
<1>3. job = "resolution"
  BY <1>1, <1>2 DEF JobKnown
<1>4. QED
  BY <1>1, <1>3, MergeAt DEF PassAt, AtStage

\* Entity resolution merges away all but one node of a key; at the end of the pass there is
\* nothing left for the dedup to merge.
LEMMA MergesPass ==
    ASSUME GraphInv, PassInv, clean,
           \/ ListDuplicates \/ TakeMerge \/ MergesDone \/ MergeOut \/ MergeIn \/ MergeMentions
           \/ MergeCoMentions \/ DropSelfLoop \/ FoldMerged \/ DeleteMerged
    PROVE  PassAt'
<1>1. PassAt /\ GraphTypes /\ (merge # None => stage = "merge")
  BY DEF PassInv, GraphInv, GraphSound, JobSound, MergeSound
<1>2. CASE ListDuplicates
  <2>1. /\ merge' = None /\ stage' = "merge" /\ job' = job /\ UNCHANGED <<nodes, relates, mentions, stored, tasks>>
        /\ merge = None
    BY <1>1, <1>2 DEF ListDuplicates, Decide, graphVars
  <2>2. CASE job = "resolution" /\ work' = Duplicates(SameKey)
    <3>1. \A i, j \in Live : KeyAt(i) = KeyAt(j) => i = j \/ \E p \in work' : p[1] \in {i, j}
      BY <1>1, <2>2, TwinsListed
    <3>2. TwinsLeave'
      BY <2>1, <3>1 DEF TwinsLeave, Leaves, KeyAt, Live
    <3>3. QED
      BY <1>1, <2>1, <2>2, <3>2 DEF PassAt, AtStage
  <2>3. CASE job = "dedup" /\ work' = Duplicates(SameName)
    <3>1. OneEach /\ Capped /\ Linked /\ Canonized
      BY <1>1, <2>3 DEF PassAt
    <3>2. OneEach' /\ Capped' /\ Linked' /\ Canonized'
      BY <2>1, <3>1, GraphStays
    <3>3. StageDone'
      BY <1>1, <2>1, <2>3, <3>1, NoTwinsListed DEF StageDone
    <3>4. QED
      BY <1>1, <2>1, <2>3, <3>2, <3>3 DEF PassAt, AtStage
  <2>4. QED
    BY <1>2, <2>2, <2>3 DEF ListDuplicates, Decide
<1>3. CASE TakeMerge
  <2>1. PICK p \in work :
          /\ work' = work \ {p}
          /\ merge' = [src |-> p[1], dst |-> p[2], step |-> "out",
                       aliases |-> nodes[p[2]].aliases \cup {nodes[p[1]].name}
                                     \cup nodes[p[1]].aliases]
    BY <1>3 DEF TakeMerge
  <2>2. merge'.src = p[1]
    BY <2>1
  <2>3. merge' # None
    <3> DEFINE src == p[1]
               dst == p[2]
               all == nodes[p[2]].aliases \cup {nodes[p[1]].name} \cup nodes[p[1]].aliases
    <3>1. src \in Live /\ dst \in Live
      BY <1>3 DEF GraphInv, JobSound, MergesApart, OneEntity, TakeMerge
    <3>2. merge' = [src |-> src, dst |-> dst, step |-> "out", aliases |-> all]
      BY <2>1
    <3>3. all = nodes[dst].aliases \cup {nodes[src].name} \cup nodes[src].aliases
      OBVIOUS
    <3> HIDE DEF src, dst, all
    <3>4. src \in Nat /\ dst \in Nat /\ all \in SUBSET Name
      BY <1>1, <3>1, <3>3 DEF GraphTypes, EntityNodes
    <3>5. merge' \in Merges
      BY <3>2, <3>4 DEF Merges
    <3>6. QED
      BY <3>5, GraphMaintenanceAssumption
  <2>4. /\ UNCHANGED <<nodes, tasks, job, stage>> /\ stage = "merge" /\ work # {} /\ merge = None
    BY <1>3 DEF TakeMerge, graphVars
  <2>5. job = "resolution"
    BY <1>1, <2>4 DEF PassInv, JobKnown, PassAt, AtStage, StageDone
  <2>6. TwinsLeave
    BY <1>1, <2>4, <2>5 DEF PassAt, AtStage
  <2>7. \A i \in Live : Leaves(i) => Leaves(i)'
    BY <2>1, <2>4, <2>2, <2>3 DEF Leaves
  <2>8. TwinsLeave'
    BY <2>4, <2>6, <2>7 DEF TwinsLeave, KeyAt, Live
  <2>9. QED
    BY <1>1, <2>4, <2>5, <2>8 DEF PassAt, AtStage
<1>4. CASE MergeOut \/ MergeIn \/ MergeMentions \/ MergeCoMentions \/ DropSelfLoop \/ FoldMerged
  <2>1. PICK from \in {"out", "in", "mentions", "co", "loop", "alias"},
             to \in {"in", "mentions", "co", "loop", "alias", "delete"} : MergeStep(from, to)
    BY <1>4 DEF MergeOut, MergeIn, MergeMentions, MergeCoMentions, DropSelfLoop, FoldMerged
  <2>2. /\ job = "resolution" /\ stage = "merge" /\ TwinsLeave /\ merge \in Merges /\ merge # None
        /\ UNCHANGED <<tasks, job, stage, work, stored>>
    BY <2>1, MergeInPass
  <2>3. Live' = Live /\ \A i \in Live : KeyAt(i)' = KeyAt(i)
    <3>1. CASE nodes' = nodes
      BY <3>1 DEF Live, KeyAt
    <3>2. CASE FoldMerged
      <4> DEFINE dst == merge.dst
                 all == merge.aliases
      <4>1. nodes' = [nodes EXCEPT ![dst].aliases = all] /\ nodes \in [Live -> EntityNodes]
        BY <1>1, <3>2 DEF FoldMerged, GraphTypes
      <4> HIDE DEF dst, all
      <4>2. DOMAIN nodes' = Live /\ \A i \in Live : nodes'[i].name = nodes[i].name
        BY <4>1 DEF EntityNodes
      <4>3. QED
        BY <4>2 DEF Live, KeyAt
    <3>3. QED
      BY <1>4, <3>1, <3>2 DEF MergeOut, MergeIn, MergeMentions, MergeCoMentions, DropSelfLoop
  <2>4. merge' # None /\ merge'.src = merge.src
    <3>1. merge' = [merge EXCEPT !.step = to]
      BY <2>1 DEF MergeStep
    <3>2. merge' \in Merges /\ merge'.src = merge.src
      BY <2>1, <2>2, <3>1 DEF Merges
    <3>3. QED
      BY <3>2, GraphMaintenanceAssumption
  <2>5. \A i : Leaves(i) => Leaves(i)'
    BY <2>2, <2>4 DEF Leaves
  <2>6. TwinsLeave'
    BY <2>2, <2>3, <2>5 DEF TwinsLeave
  <2>7. QED
    BY <1>1, <2>2, <2>6 DEF PassAt, AtStage
<1>5. CASE DeleteMerged
  <2>1. MergeStep("delete", "end") /\ merge' = None /\ nodes' = [i \in Live \ {merge.src} |-> nodes[i]]
    BY <1>5 DEF DeleteMerged, MergeStep
  <2>2. /\ job = "resolution" /\ stage = "merge" /\ TwinsLeave /\ merge # None
        /\ UNCHANGED <<tasks, job, stage, work, stored>>
    BY <2>1, MergeInPass
  <2>3. Live' = Live \ {merge.src} /\ \A i \in Live' : KeyAt(i)' = KeyAt(i)
    BY <2>1 DEF Live, KeyAt
  <2>4. \A i \in Live' : Leaves(i) => Leaves(i)'
    BY <2>1, <2>2, <2>3 DEF Leaves
  <2>5. TwinsLeave'
    BY <2>2, <2>3, <2>4 DEF TwinsLeave
  <2>6. QED
    BY <1>1, <2>2, <2>5 DEF PassAt, AtStage
<1>6. CASE MergesDone
  <2>1. stage = "merge" /\ work = {} /\ merge = None
    BY <1>6 DEF MergesDone, StageDone
  <2>2. CASE job = "dedup" /\ JobOver
    <3>1. OneEach /\ Capped /\ Linked /\ Canonized
      BY <1>1, <2>2 DEF PassAt
    <3>2. job' = "idle" /\ stage' = "list" /\ UNCHANGED <<nodes, relates, mentions, stored, tasks>>
      BY <2>2 DEF JobOver, Begin, NextJob, graphVars
    <3>3. OneEach' /\ Capped' /\ Linked' /\ Canonized'
      BY <3>1, <3>2, GraphStays
    <3>4. QED
      BY <1>1, <3>2, <3>3 DEF PassAt, AtStage
  <2>3. CASE job = "resolution" /\ Decide("visit", Live \X {"visit"})
    <3>1. /\ job' = "resolution" /\ stage' = "visit" /\ work' = Live \X {"visit"}
          /\ UNCHANGED <<nodes, relates, mentions, stored, tasks>>
      BY <2>3 DEF Decide, graphVars
    <3>2. TwinsLeave
      BY <1>1, <2>1, <2>3 DEF PassAt, AtStage
    <3>3. OneEach
      BY <2>1, <3>2 DEF TwinsLeave, Leaves, OneEach
    <3>4. OneEach'
      BY <3>1, <3>3, GraphStays
    <3>5. Visiting'
      BY <3>1 DEF Visiting, Live
    <3>6. QED
      BY <1>1, <3>1, <3>4, <3>5 DEF PassAt, AtStage
  <2>4. QED
    BY <1>6, <2>2, <2>3 DEF MergesDone
<1>7. QED
  BY <1>2, <1>3, <1>4, <1>5, <1>6

\* A visit leaves a node, if it is the one that was asked for, as many relations as are kept.
LEMMA VisitCaps ==
    ASSUME GraphInv, EdgeIds, NEW i,
           \A e \in OpenAt(i) : Cardinality({d \in OpenAt(i) : d.id > e.id}) >= MaxDegree =>
             <<e.id, "prune">> \in work'
    PROVE  Within({e \in OpenAt(i) : <<e.id, "prune">> \notin work'})
<1> DEFINE S == OpenAt(i)
           R == {p \in S \X S : p[1].id > p[2].id}
           left == {e \in S : <<e.id, "prune">> \notin work'}
           first == Firsts(S, R, MaxDegree)
<1>1. IsFiniteSet(S) /\ S \subseteq relates
  <2>1. S \subseteq relates
    BY DEF OpenAt
  <2>2. QED
    BY <2>1, FiniteRelates, FS_Subset
<1>2. \A e \in S : e.id \in Nat
  BY <1>1 DEF GraphInv, GraphSound, GraphTypes, Relations
<1>3. \A d, e \in S : d.id = e.id => d = e
  BY <1>1 DEF EdgeIds
<1>4. \A d, e \in S : <<d, e>> \in R <=> d.id > e.id
  OBVIOUS
<1>5. MaxDegree \in Nat
  BY GraphMaintenanceAssumption
<1>6. \A e \in left : e \in S /\ ~ (Cardinality({d \in S : d.id > e.id}) >= MaxDegree)
  OBVIOUS
<1> HIDE DEF S, R
<1>7. Ranks(R, S)
  BY <1>2, <1>3, <1>4 DEF Ranks
<1>8. ASSUME NEW e \in left
      PROVE  e \in first
  <2> DEFINE before == {d \in S : <<d, e>> \in R}
  <2>1. before = {d \in S : d.id > e.id}
    BY <1>4, <1>6
  <2>2. before \subseteq S
    OBVIOUS
  <2>3. ~ (Cardinality(before) >= MaxDegree)
    BY <1>6, <2>1
  <2> HIDE DEF before
  <2>4. Cardinality(before) \in Nat
    BY <1>1, <2>2, FS_Subset, FS_CardinalityType
  <2>5. Cardinality(before) < MaxDegree
    BY <1>5, <2>3, <2>4
  <2>6. QED
    BY <1>6, <2>5 DEF Firsts, before
<1> HIDE DEF left
<1>9. Cardinality(first) \in Nat /\ Cardinality(first) <= MaxDegree /\ first \subseteq S
  BY <1>1, <1>5, <1>7, FirstsCount
<1> HIDE DEF first
<1>10. /\ IsFiniteSet(first) /\ IsFiniteSet(left)
       /\ Cardinality(left) \in Nat /\ Cardinality(left) <= Cardinality(first)
  <2>1. IsFiniteSet(first) /\ left \subseteq first
    BY <1>1, <1>8, <1>9, FS_Subset
  <2>2. QED
    BY <2>1, FS_Subset, FS_CardinalityType
<1>11. Within(left)
  <2> DEFINE f == [e \in left |-> PlaceOf(e)]
             places == {f[e] : e \in left}
  <2>1. PlacesOf(left) = places
    BY DEF PlacesOf
  <2> HIDE DEF f
  <2>2. IsFiniteSet(places) /\ Cardinality(places) <= Cardinality(left)
    BY <1>10, FiniteImages
  <2> HIDE DEF places
  <2>3. Cardinality(places) \in Nat
    BY <2>2, FS_CardinalityType
  <2>4. QED
    BY <1>5, <1>9, <1>10, <2>1, <2>2, <2>3 DEF Within
<1>12. QED
  BY <1>11 DEF left, S

\* Entity resolution's visits: what is over the cap is about to be pruned, then it is.
LEMMA VisitsPass ==
    ASSUME GraphInv, PassInv, clean, Visit \/ Prune \/ VisitsDone
    PROVE  PassAt'
<1>1. /\ PassAt /\ EdgeIds /\ AtStage("resolution", "visit") /\ tasks' = tasks
      /\ nodes' = nodes
  BY DEF PassInv, Visit, Prune, VisitsDone, JobOver, graphVars
<1>2. OneEach /\ Visiting
  BY <1>1 DEF PassAt
<1>3. Live' = Live /\ \A i : Shadowed(i)' = Shadowed(i)
  BY <1>1 DEF Live, Shadowed
<1>4. OneEach'
  BY <1>1, <1>2, <1>3 DEF OneEach, KeyAt
<1>5. \A E \in SUBSET relates : IsFiniteSet(E)
  BY <1>1, FiniteRelates, FS_Subset
<1>6. ASSUME NEW E, NEW i \in Live, E \in SUBSET PlacesOf(Remaining(i)), Within(Remaining(i))
      PROVE  Cardinality(E) <= MaxDegree
  <2> DEFINE S == Remaining(i)
             f == [e \in S |-> PlaceOf(e)]
             places == {f[e] : e \in S}
  <2>1. IsFiniteSet(S)
    BY <1>5 DEF Remaining, OpenAt
  <2>2. PlacesOf(S) = places
    BY DEF PlacesOf
  <2> HIDE DEF S, f
  <2>3. IsFiniteSet(places)
    BY <2>1, FiniteImages
  <2> HIDE DEF places
  <2>4. Cardinality(E) <= Cardinality(places) /\ Cardinality(E) \in Nat /\ Cardinality(places) \in Nat
    BY <1>6, <2>2, <2>3, FS_Subset, FS_CardinalityType DEF S
  <2>5. Cardinality(places) <= MaxDegree /\ MaxDegree \in Nat
    BY <1>6, <2>2, GraphMaintenanceAssumption DEF Within, S
  <2>6. QED
    BY <2>4, <2>5
<1>7. CASE Visit
  <2>1. \A w \in work : w[2] = "visit"
    BY <1>7 DEF Visit
  <2>2. PICK v \in work : \E named \in Called(nodes[v[1]].name) :
          work' = (work \ {v}) \cup
            {<<e.id, "prune">> : e \in {d \in OpenAt(named) :
                                          Cardinality({c \in OpenAt(named) : c.id > d.id}) >= MaxDegree}}
    BY <1>7 DEF Visit
  <2>3. PICK named \in Called(nodes[v[1]].name) :
          work' = (work \ {v}) \cup
            {<<e.id, "prune">> : e \in {d \in OpenAt(named) :
                                          Cardinality({c \in OpenAt(named) : c.id > d.id}) >= MaxDegree}}
    BY <2>2
  <2>4. UNCHANGED <<relates, job, stage, merge>> /\ \A i : OpenAt(i)' = OpenAt(i)
    BY <1>7 DEF Visit, graphVars, OpenAt
  <2>5. \A i : PlacesOf(Remaining(i))' = PlacesOf({e \in OpenAt(i) : <<e.id, "prune">> \notin work'})
    BY <2>4 DEF PlacesOf, Remaining, PlaceOf
  <2>6. ASSUME NEW i \in Live, ~Shadowed(i), <<i, "visit">> \notin work'
        PROVE  Within(Remaining(i))'
    <3>1. CASE <<i, "visit">> \in work
      <4>1. v = <<i, "visit">>
        BY <2>3, <2>6, <3>1
      <4>2. v[1] = i
        BY <4>1
      <4>3. named = i
        <5>1. named \in Live /\ (nodes[named].name = nodes[i].name \/ nodes[i].name \in nodes[named].aliases)
          BY <4>2 DEF Called
        <5>2. QED
          BY <1>2, <2>6, <5>1 DEF Shadowed, OneEach, KeyAt
      <4>4. \A e \in OpenAt(i) : Cardinality({d \in OpenAt(i) : d.id > e.id}) >= MaxDegree =>
              <<e.id, "prune">> \in work'
        BY <2>3, <4>3
      <4>5. Within({e \in OpenAt(i) : <<e.id, "prune">> \notin work'})
        BY <1>1, <4>4, VisitCaps
      <4>6. QED
        BY <2>5, <4>5 DEF Within
    <3>2. CASE <<i, "visit">> \notin work
      <4>1. Within(Remaining(i))
        BY <1>2, <2>6, <3>2 DEF Visiting
      <4>2. Remaining(i) = OpenAt(i)
        <5>1. \A e \in OpenAt(i) : <<e.id, "prune">> \notin work
          BY <2>1
        <5>2. QED
          BY <5>1 DEF Remaining
      <4> DEFINE left == {e \in OpenAt(i) : <<e.id, "prune">> \notin work'}
      <4>3. PlacesOf(left) \subseteq PlacesOf(OpenAt(i))
        BY DEF PlacesOf
      <4>4. PlacesOf(Remaining(i))' \subseteq PlacesOf(Remaining(i))
        BY <2>5, <4>2, <4>3
      <4>5. QED
        BY <1>6, <4>1, <4>4 DEF Within
    <3>3. QED
      BY <3>1, <3>2
  <2>7. Visiting'
    BY <1>3, <2>6 DEF Visiting
  <2>8. QED
    BY <1>1, <1>4, <2>4, <2>7 DEF PassAt, AtStage
<1>8. CASE Prune
  <2>1. PICK v \in work :
          /\ v[2] = "prune" /\ work' = work \ {v}
          /\ relates' = {IF e.id = v[1] THEN [e EXCEPT !.open = FALSE] ELSE e : e \in relates}
    BY <1>8 DEF Prune
  <2>2. UNCHANGED <<job, stage, merge>> /\ relates \subseteq Relations
    BY <1>8 DEF Prune, GraphInv, GraphSound, GraphTypes
  <2>3. ASSUME NEW d \in relates', d.open
        PROVE  d \in relates /\ d.id # v[1]
    <3>1. PICK e \in relates : d = IF e.id = v[1] THEN [e EXCEPT !.open = FALSE] ELSE e
      BY <2>1
    <3>2. [e EXCEPT !.open = FALSE].open = FALSE
      BY <2>2 DEF Relations
    <3>3. QED
      BY <2>3, <3>1, <3>2
  <2>4. ASSUME NEW i \in Live, ~Shadowed(i), <<i, "visit">> \notin work'
        PROVE  Within(Remaining(i))'
    <3>1. <<i, "visit">> # v
      BY <2>1
    <3>2. Within(Remaining(i))
      BY <1>2, <2>1, <2>4, <3>1 DEF Visiting
    <3>3. ASSUME NEW d \in Remaining(i)'
          PROVE  d \in Remaining(i)
      <4>1. d \in relates' /\ d.open /\ i \in {d.from, d.to} /\ <<d.id, "prune">> \notin work'
        BY DEF Remaining, OpenAt
      <4>2. d \in relates /\ d.id # v[1]
        BY <2>3, <4>1
      <4>3. <<d.id, "prune">> \notin work
        BY <2>1, <4>1, <4>2
      <4>4. QED
        BY <4>1, <4>2, <4>3 DEF Remaining, OpenAt
    <3>4. PlacesOf(Remaining(i))' \subseteq PlacesOf(Remaining(i))
      BY <3>3 DEF PlacesOf, PlaceOf
    <3>5. QED
      BY <1>6, <3>2, <3>4 DEF Within
  <2>5. Visiting'
    BY <1>3, <2>4 DEF Visiting
  <2>6. QED
    BY <1>1, <1>4, <2>2, <2>5 DEF PassAt, AtStage
<1>9. CASE VisitsDone
  <2>1. /\ job' = "mentions" /\ stage' = "list" /\ UNCHANGED <<nodes, relates, mentions, stored>>
        /\ work = {}
    BY <1>1, <1>9 DEF VisitsDone, JobOver, Begin, NextJob, AtStage, StageDone, graphVars
  <2>2. \A i : Remaining(i) = OpenAt(i)
    BY <2>1 DEF Remaining
  <2>3. Capped
    BY <1>2, <2>1, <2>2 DEF Visiting, Capped
  <2>4. Capped'
    BY <2>1, <2>3, GraphStays
  <2>5. QED
    BY <1>1, <1>4, <2>1, <2>4 DEF PassAt, AtStage
<1>10. QED
  BY <1>7, <1>8, <1>9

\* The mentions job leaves every stored memory linked under each of its names.
LEMMA MentionsPass ==
    ASSUME GraphInv, PassInv, clean, MapNames \/ PairMemories \/ AssertMentions
    PROVE  PassAt'
<1>1. PassAt /\ job = "mentions" /\ stored \subseteq Task /\ UNCHANGED <<nodes, relates, stored, tasks>>
  BY DEF PassInv, NamesKept, MapNames, PairMemories, AssertMentions, AtStage, Decide, graphVars
<1>2. OneEach' /\ Capped'
  <2>1. OneEach /\ Capped
    BY <1>1 DEF PassAt
  <2>2. Live' = Live
    BY <1>1 DEF Live
  <2>3. QED
    BY <1>1, <2>1, <2>2
       DEF OneEach, KeyAt, Capped, Shadowed, Within, PlacesOf, OpenAt, PlaceOf
<1>3. \A n : Called(n)' = Called(n)
  BY <1>1 DEF Called, Live
<1>4. CASE MapNames
  <2>1. PICK map \in SUBSET {p \in Name \X Live : p[2] \in Called(p[1])} :
          /\ {p[1] : p \in map} = {p[1] : p \in {q \in Name \X Live : q[2] \in Called(q[1])}}
          /\ work' = map /\ stage' = "map" /\ job' = job
    BY <1>4 DEF MapNames, Decide
  <2>2. ASSUME NEW n \in Name, NEW i \in Called(n)
        PROVE  \E j \in Called(n) : <<n, j>> \in work'
    <3>1. <<n, i>> \in {q \in Name \X Live : q[2] \in Called(q[1])}
      BY <2>2 DEF Called
    <3>2. n \in {p[1] : p \in map}
      BY <2>1, <3>1
    <3>3. PICK p \in map : p[1] = n
      BY <3>2
    <3>4. p[2] \in Called(n) /\ p = <<n, p[2]>>
      BY <3>3
    <3>5. QED
      BY <2>1, <3>4
  <2>3. Mapped'
    BY <1>3, <2>2 DEF Mapped
  <2>4. QED
    BY <1>1, <1>2, <2>1, <2>3 DEF PassAt, AtStage
<1>5. CASE PairMemories
  <2>1. /\ work' = {p \in stored \X Live : \E w \in work : w[2] = p[2] /\ w[1] \in Chunk[p[1]].memory}
        /\ job' = job /\ stage' = "assert" /\ stage = "map"
    BY <1>5 DEF PairMemories, Decide, AtStage
  <2>2. Mapped
    BY <1>1, <2>1 DEF PassAt, AtStage
  <2>3. ASSUME NEW m \in stored, NEW n \in Chunk[m].memory, Called(n) # {}
        PROVE  \E i \in Called(n) : <<m, i>> \in work'
    <3>1. n \in Name
      BY <1>1, ChunkAssumption DEF ChunkType
    <3>2. PICK i \in Called(n) : <<n, i>> \in work
      BY <2>2, <2>3, <3>1 DEF Mapped
    <3>3. i \in Live
      BY DEF Called
    <3>4. <<m, i>> \in work'
      BY <2>1, <3>2, <3>3
    <3>5. QED
      BY <3>4
  <2>4. Paired'
    BY <1>1, <1>3, <2>3 DEF Paired
  <2>5. QED
    BY <1>1, <1>2, <2>1, <2>4 DEF PassAt, AtStage
<1>6. CASE AssertMentions
  <2>1. /\ mentions' = mentions \cup {p \in work : p[2] \in Live}
        /\ job' = "comention" /\ stage' = "list" /\ stage = "assert"
    BY <1>6 DEF AssertMentions, Begin, NextJob, AtStage
  <2>2. Paired
    BY <1>1, <2>1 DEF PassAt, AtStage
  <2>3. Linked'
    BY <1>1, <1>3, <2>1, <2>2 DEF Linked, Paired, Called
  <2>4. QED
    BY <1>1, <1>2, <2>1, <2>3 DEF PassAt, AtStage
<1>7. QED
  BY <1>4, <1>5, <1>6

\* Relabelling raises nobody's number of relations: one that opens at a canonical place
\* stands for one that was open there under the label.
LEMMA RelabelledWithin ==
    ASSUME GraphInv, EdgeIds, NEW l \in Label, Canon[l] # l,
           relates' \in Repointed([e \in {d \in relates : d.open /\ d.label = l} |->
                                      [e EXCEPT !.label = Canon[l]]])
    PROVE  /\ \A d \in relates' : d.open =>
                Canon[d.label] = d.label \/ (d.label # l /\ \E e \in relates : e.open /\ e.label = d.label)
           /\ \A i : Within(OpenAt(i)) => Within(OpenAt(i))'
<1> DEFINE rows == {d \in relates : d.open /\ d.label = l}
           c == Canon[l]
           image == [e \in rows |-> [e EXCEPT !.label = c]]
<1>1. relates' \in Repointed(image) /\ DOMAIN image = rows /\ rows \subseteq relates
  OBVIOUS
<1>2. c \in Label /\ Canon[c] = c /\ c # l
  BY GraphMaintenanceAssumption
<1>3. relates \subseteq Relations
  BY DEF GraphInv, GraphSound, GraphTypes
<1> HIDE DEF c
<1>4. \A e \in rows : /\ image[e] \in Relations /\ image[e].id = e.id /\ image[e].from = e.from
                      /\ image[e].to = e.to /\ image[e].label = c /\ e.open /\ e.label = l
  BY <1>2, <1>3 DEF Relations
<1> HIDE DEF image, rows
<1>5. \A d \in relates' :
        \/ \E r \in rows : d = image[r]
        \/ \E e \in relates \ rows :
             /\ PlaceOf(d) = PlaceOf(e)
             /\ d.open => e.open \/ \E r \in rows : PlaceOf(image[r]) = PlaceOf(d)
  BY <1>1, <1>3, <1>4, RepointIds
<1>6. ASSUME NEW d \in relates', d.open
      PROVE  \/ d.label = c /\ \E r \in rows : r.from = d.from /\ r.to = d.to
             \/ d.label # l /\ \E e \in relates : e.open /\ PlaceOf(e) = PlaceOf(d)
  <2>1. CASE \E r \in rows : PlaceOf(d) = PlaceOf(image[r])
    <3>1. PICK r \in rows : PlaceOf(d) = PlaceOf(image[r])
      BY <2>1
    <3>2. d.from = image[r].from /\ d.label = image[r].label /\ d.to = image[r].to
      BY <3>1 DEF PlaceOf
    <3>3. QED
      BY <1>4, <3>2
  <2>2. CASE \E e \in relates \ rows : PlaceOf(d) = PlaceOf(e) /\ e.open
    <3>1. PICK e \in relates \ rows : PlaceOf(d) = PlaceOf(e) /\ e.open
      BY <2>2
    <3>2. e.label # l
      BY <3>1 DEF rows
    <3>3. d.label = e.label
      BY <3>1 DEF PlaceOf
    <3>4. QED
      BY <3>1, <3>2, <3>3
  <2>3. QED
    BY <1>5, <1>6, <2>1, <2>2
<1>7. \A d \in relates' : d.open =>
        Canon[d.label] = d.label \/ (d.label # l /\ \E e \in relates : e.open /\ e.label = d.label)
  BY <1>2, <1>6 DEF PlaceOf
<1>8. ASSUME NEW i, Within(OpenAt(i))
      PROVE  Within(OpenAt(i))'
  <2> DEFINE old == PlacesOf(OpenAt(i))
             new == PlacesOf(OpenAt(i)')
             from(p) == IF p \in old THEN p ELSE <<p[1], l, p[3]>>
             g == [p \in new |-> from(p)]
  <2>1. old = {PlaceOf(e) : e \in {d \in relates : d.open /\ i \in {d.from, d.to}}}
    BY DEF PlacesOf, OpenAt
  <2>2. new = {PlaceOf(e) : e \in {d \in relates' : d.open /\ i \in {d.from, d.to}}}
    BY DEF PlacesOf, OpenAt
  <2> HIDE DEF old, new
  <2>3. ASSUME NEW p \in new
        PROVE  /\ p = <<p[1], p[2], p[3]>> /\ p[2] # l
               /\ p \in old \/ (p[2] = c /\ <<p[1], l, p[3]>> \in old)
    <3>1. PICK d \in relates' : d.open /\ i \in {d.from, d.to} /\ p = <<d.from, d.label, d.to>>
      BY <2>2 DEF PlaceOf
    <3>2. CASE d.label = c /\ \E r \in rows : r.from = d.from /\ r.to = d.to
      <4>1. PICK r \in rows : r.from = d.from /\ r.to = d.to
        BY <3>2
      <4>2. r \in relates /\ r.open /\ r.label = l
        BY <1>1, <1>4
      <4>3. PlaceOf(r) = <<d.from, l, d.to>>
        BY <4>1, <4>2 DEF PlaceOf
      <4>4. <<d.from, l, d.to>> \in old
        BY <2>1, <3>1, <4>1, <4>2, <4>3
      <4>5. QED
        BY <1>2, <3>1, <3>2, <4>4
    <3>3. CASE d.label # l /\ \E e \in relates : e.open /\ PlaceOf(e) = PlaceOf(d)
      <4>1. PICK e \in relates : e.open /\ PlaceOf(e) = PlaceOf(d)
        BY <3>3
      <4>2. e.from = d.from /\ e.to = d.to /\ PlaceOf(e) = p
        BY <3>1, <4>1 DEF PlaceOf
      <4>3. p \in old
        BY <2>1, <3>1, <4>1, <4>2
      <4>4. QED
        BY <3>1, <3>3, <4>3
    <3>4. QED
      BY <1>6, <3>1, <3>2, <3>3
  <2>4. \A p \in new : g[p] \in old
    BY <2>3
  <2>5. ASSUME NEW p \in new, NEW q \in new, g[p] = g[q]
        PROVE  p = q
    <3>1. p = <<p[1], p[2], p[3]>> /\ p[2] # l /\ (p \notin old => p[2] = c)
      BY <2>3
    <3>2. q = <<q[1], q[2], q[3]>> /\ q[2] # l /\ (q \notin old => q[2] = c)
      BY <2>3
    <3>3. from(p) = from(q)
      BY <2>5
    <3>4. QED
      BY <3>1, <3>2, <3>3
  <2>6. g \in Injection(new, old)
    <3>1. g \in [new -> old]
      BY <2>4
    <3> HIDE DEF g
    <3>2. QED
      BY <2>5, <3>1 DEF Injection, IsInjective
  <2> HIDE DEF g
  <2>7. IsFiniteSet(old)
    <3> DEFINE S == OpenAt(i)
               f == [e \in S |-> PlaceOf(e)]
               places == {f[e] : e \in S}
    <3>1. S \subseteq relates
      BY DEF OpenAt
    <3>2. IsFiniteSet(S)
      BY <3>1, FiniteRelates, FS_Subset
    <3>3. old = places
      BY DEF old, PlacesOf
    <3> HIDE DEF S, f
    <3>4. QED
      BY <3>2, <3>3, FiniteImages
  <2>8. IsFiniteSet(new) /\ Cardinality(new) <= Cardinality(old)
    BY <2>6, <2>7, FS_Injection
  <2>9. Cardinality(new) \in Nat /\ Cardinality(old) \in Nat /\ MaxDegree \in Nat
    BY <2>7, <2>8, FS_CardinalityType, GraphMaintenanceAssumption
  <2>10. Cardinality(old) <= MaxDegree
    BY <1>8 DEF old, Within
  <2>11. Cardinality(new) <= MaxDegree
    BY <2>8, <2>9, <2>10
  <2>12. QED
    BY <2>11 DEF new, Within, PlacesOf, PlaceOf
<1>9. QED
  BY <1>7, <1>8

\* Relation normalisation leaves only canonical labels open.
LEMMA LabelsPass ==
    ASSUME GraphInv, PassInv, clean, ListLabels \/ MergeRelations \/ LabelsDone
    PROVE  PassAt'
<1>1. /\ PassAt /\ EdgeIds /\ job = "relnorm" /\ OneEach /\ Capped /\ Linked
      /\ UNCHANGED <<nodes, mentions, stored, tasks>>
  BY DEF PassInv, PassAt, ListLabels, MergeRelations, LabelsDone, AtStage, JobOver, Decide, graphVars
<1>2. relates \subseteq Relations
  BY DEF GraphInv, GraphSound, GraphTypes
<1>3. CASE ListLabels
  <2>1. /\ work' = {e.label : e \in {d \in relates : d.open /\ Canon[d.label] # d.label}}
        /\ stage' = "assert" /\ job' = job /\ relates' = relates
    BY <1>3 DEF ListLabels, Decide, graphVars
  <2>2. OneEach' /\ Capped' /\ Linked'
    BY <1>1, <2>1, GraphStays
  <2>3. Relabels'
    BY <1>2, <2>1 DEF Relabels, Relations
  <2>4. QED
    BY <1>1, <2>1, <2>2, <2>3 DEF PassAt, AtStage
<1>4. CASE MergeRelations
  <2>1. PICK l \in work :
          /\ work' = work \ {l}
          /\ relates' \in Repointed([e \in {d \in relates : d.open /\ d.label = l} |->
                                        [e EXCEPT !.label = Canon[l]]])
    BY <1>4 DEF MergeRelations
  <2>2. stage = "assert" /\ stage' = stage /\ job' = job
    BY <1>4 DEF MergeRelations, AtStage
  <2>3. Relabels
    BY <1>1, <2>2 DEF PassAt, AtStage
  <2>4. l \in Label /\ Canon[l] # l
    BY <2>3 DEF Relabels
  <2>5. /\ \A d \in relates' : d.open =>
             Canon[d.label] = d.label \/ (d.label # l /\ \E e \in relates : e.open /\ e.label = d.label)
        /\ \A i : Within(OpenAt(i)) => Within(OpenAt(i))'
    BY <1>1, <2>1, <2>4, RelabelledWithin
  <2>6. Relabels'
    BY <2>1, <2>3, <2>5 DEF Relabels
  <2>7. Live' = Live /\ (\A n : Called(n)' = Called(n)) /\ \A i : Shadowed(i)' = Shadowed(i)
    BY <1>1 DEF Live, Called, Shadowed
  <2>8. OneEach' /\ Linked'
    BY <1>1, <2>7 DEF OneEach, KeyAt, Linked
  <2>9. Capped'
    BY <1>1, <2>5, <2>7 DEF Capped
  <2>10. QED
    BY <1>1, <2>2, <2>6, <2>8, <2>9 DEF PassAt, AtStage
<1>5. CASE LabelsDone
  <2>1. /\ work = {} /\ stage = "assert" /\ job' = "dedup" /\ stage' = "list" /\ relates' = relates
    BY <1>1, <1>5 DEF LabelsDone, AtStage, StageDone, JobOver, Begin, NextJob, graphVars
  <2>2. Canonized
    BY <1>1, <2>1 DEF PassAt, AtStage, Relabels, Canonized
  <2>3. OneEach' /\ Capped' /\ Linked' /\ Canonized'
    BY <1>1, <2>1, <2>2, GraphStays
  <2>4. QED
    BY <1>1, <2>1, <2>3 DEF PassAt, AtStage
<1>6. QED
  BY <1>3, <1>4, <1>5

\* The other steps: a pass begins after the last task, and its co-mentions change nothing that
\* the other jobs achieve.
LEMMA OthersPass ==
    ASSUME GraphInv, PassInv, clean,
           PairEntities \/ RankPairs \/ AssertCoMention \/ CoMentionsDone
    PROVE  PassAt'
<1>1. /\ PassAt /\ job = "comention" /\ OneEach /\ Capped /\ Linked
      /\ UNCHANGED <<nodes, relates, mentions, stored, tasks>>
  BY DEF PassInv, PassAt, PairEntities, RankPairs, AssertCoMention, CoMentionsDone, AtStage, JobOver,
         Decide, graphVars
<1>2. \/ job' = "comention" \/ (job' = "relnorm" /\ stage' = "list")
  BY <1>1 DEF PairEntities, RankPairs, AssertCoMention, CoMentionsDone, JobOver, Begin, NextJob, Decide
<1>3. OneEach' /\ Capped' /\ Linked'
  BY <1>1, GraphStays
<1>4. QED
  BY <1>1, <1>2, <1>3 DEF PassAt, AtStage

LEMMA JobStaysKnown ==
    ASSUME GraphInv, JobKnown, JobStep \/ FailJob
    PROVE  JobKnown'
<1>1. \A j \in Jobs : NextJob[j] \in Jobs \cup {"idle"}
  BY DEF Jobs, NextJob
<1>2. /\ job \in Jobs \cup {"idle"} /\ (stage = "merge" => job \in {"resolution", "dedup"})
      /\ merge # None => stage = "merge"
  BY DEF JobKnown, GraphInv, JobSound, MergeSound
<1>3. CASE UNCHANGED <<job, stage>>
  BY <1>2, <1>3 DEF JobKnown
<1>4. ASSUME NEW j \in Jobs \cup {"idle"}, job' = j, stage' = "list"
      PROVE  JobKnown'
  BY <1>4 DEF JobKnown
<1>5. CASE job' = job /\ stage' \in {"map", "assert", "rank", "visit"}
  BY <1>2, <1>5 DEF JobKnown
<1>6. CASE ListDuplicates
  BY <1>2, <1>6 DEF ListDuplicates, Decide, JobKnown
<1>7. CASE StartPass
  <2>1. "resolution" \in Jobs
    BY DEF Jobs
  <2>2. QED
    BY <1>4, <1>7, <2>1 DEF StartPass, Begin
<1>8. CASE job \in Jobs /\ Begin(NextJob[job])
  BY <1>1, <1>4, <1>8 DEF Begin
<1>9. CASE FailJob
  <2>1. job \in Jobs
    BY <1>2, <1>9 DEF FailJob, Jobs
  <2>2. QED
    BY <1>8, <1>9, <2>1 DEF FailJob
<1>10. CASE MergesDone
  <2>1. CASE job = "dedup" /\ JobOver
    BY <1>8, <2>1 DEF JobOver, Jobs
  <2>2. QED
    BY <1>5, <1>10, <2>1 DEF MergesDone, Decide
<1>11. CASE VisitsDone \/ AssertMentions \/ CoMentionsDone \/ LabelsDone
  BY <1>8, <1>11 DEF VisitsDone, AssertMentions, CoMentionsDone, LabelsDone, AtStage, JobOver, Jobs
<1>12. CASE MapNames \/ PairMemories \/ PairEntities \/ RankPairs \/ ListLabels
  BY <1>5, <1>12 DEF MapNames, PairMemories, PairEntities, RankPairs, ListLabels, Decide
<1>13. QED
  BY <1>3, <1>6, <1>7, <1>9, <1>10, <1>11, <1>12
     DEF JobStep, TakeMerge, MergeOut, MergeIn, MergeMentions, MergeCoMentions, DropSelfLoop,
         FoldMerged, DeleteMerged, MergeStep, Visit, Prune, AssertCoMention, MergeRelations

\* A pass that is not to be disturbed begins after the last task.
LEMMA StartsPass ==
    ASSUME GraphInv, PassInv, StartPass, clean'
    PROVE  PassAt'
<1>1. /\ job' = "resolution" /\ stage' = "list" /\ tasks' = tasks
      /\ \A t \in Task : tasks[t].pc = "done"
  BY DEF StartPass, Begin, graphVars
<1>2. QED
  BY <1>1 DEF PassAt, AtStage

LEMMA JobPass ==
    ASSUME GraphInv, PassInv, JobStep \/ FailJob
    PROVE  PassInv'
<1>1. EdgeIds' /\ NamesKept' /\ JobKnown'
  BY JobKeepsIds, JobKeepsNames, JobStaysKnown DEF PassInv
<1>2. CASE StartPass
  BY <1>1, <1>2, StartsPass DEF PassInv
<1>3. CASE FailJob
  BY <1>1, <1>3 DEF PassInv, FailJob
<1>4. CASE ~StartPass /\ ~FailJob
  <2>1. clean' = clean
    BY <1>4
       DEF JobStep, ListDuplicates, TakeMerge, MergesDone, MergeOut, MergeIn, MergeMentions,
           MergeCoMentions, DropSelfLoop, FoldMerged, DeleteMerged, MergeStep, Visit, Prune,
           VisitsDone, MapNames, PairMemories, AssertMentions, PairEntities, RankPairs,
           AssertCoMention, CoMentionsDone, ListLabels, MergeRelations, LabelsDone, JobOver, Decide
  <2>2. ASSUME clean
        PROVE  PassAt'
    BY <1>4, <2>2, MergesPass, VisitsPass, MentionsPass, LabelsPass, OthersPass DEF JobStep
  <2>3. QED
    BY <1>1, <2>1, <2>2 DEF PassInv
<1>5. QED
  BY <1>2, <1>3, <1>4

\* While a pass is undisturbed no task moves; any other time a task's step is its own affair.
LEMMA IngestPass ==
    ASSUME GraphInv, PassInv, NEW t \in Task, Ingest(t)
    PROVE  PassInv'
<1>1. TaskStep(t) /\ UNCHANGED <<job, stage, clean>>
  BY DEF Ingest
<1>2. EdgeIds' /\ NamesKept'
  BY <1>1, TaskKeepsIds, IngestKeepsNames DEF PassInv
<1>3. JobKnown'
  BY <1>1 DEF PassInv, JobKnown
<1>4. ASSUME clean
      PROVE  FALSE
  <2>1. tasks[t].pc = "done"
    BY <1>4 DEF PassInv, PassAt
  <2>2. TaskSound(tasks[t], nodes, ~raced)
    BY DEF GraphInv, GraphSound
  <2>3. tasks[t].op = None
    BY <2>1, <2>2 DEF TaskSound
  <2>4. QED
    BY <1>1, <2>1, <2>3
       DEF TaskStep, LookUp, CreateEntity, FoldAliases, StoreMemory, AddMentions, FindEdge,
           CreateEdge, Finish, Wanted
<1>5. QED
  BY <1>1, <1>2, <1>3, <1>4 DEF PassInv

LEMMA PassStutters ==
    ASSUME PassInv, UNCHANGED vars
    PROVE  PassInv'
<1>1. UNCHANGED <<nodes, mentions, relates, stored, created, tasks, asserted>>
      /\ UNCHANGED <<comentions, job, stage, work, merge, failures, raced, clean>>
  BY DEF vars, graphVars, jobVars
<1>2. EdgeIds' /\ NamesKept' /\ JobKnown'
  <2>1. \A n : Remembered(n) => Remembered(n)'
    BY <1>1 DEF Remembered, GoesBy, Live
  <2>2. MergeKnows => MergeKnows'
    BY <1>1 DEF MergeKnows
  <2>3. QED
    BY <1>1, <2>1, <2>2 DEF PassInv, EdgeIds, NamesKept, JobKnown
<1>3. OneEach => OneEach'
  BY <1>1 DEF OneEach, KeyAt, Live
<1>4. ASSUME PassAt
      PROVE  PassAt'
  <2>1. Live' = Live /\ (\A i : Leaves(i)' = Leaves(i)) /\ \A n : Called(n)' = Called(n)
    BY <1>1 DEF Live, Leaves, Called
  <2>2. TwinsLeave => TwinsLeave'
    BY <1>1, <2>1 DEF TwinsLeave, KeyAt
  <2>3. Visiting => Visiting'
    BY <1>1, <2>1 DEF Visiting, Shadowed, Remaining, OpenAt, Within, PlacesOf, PlaceOf
  <2>4. (Mapped => Mapped') /\ (Paired => Paired')
    BY <1>1, <2>1 DEF Mapped, Paired
  <2>5. Relabels => Relabels'
    BY <1>1 DEF Relabels
  <2>6. /\ Capped => Capped'
        /\ Linked => Linked'
        /\ Canonized => Canonized'
        /\ OneEach => OneEach'
    BY <1>1, GraphStays
  <2>7. QED
    BY <1>1, <1>4, <2>2, <2>3, <2>4, <2>5, <2>6 DEF PassAt, AtStage, StageDone
<1>5. QED
  BY <1>1, <1>2, <1>4 DEF PassInv

LEMMA PassBegins == GraphJobsInit => PassInv
<1>1. SUFFICES ASSUME GraphJobsInit PROVE PassInv
  OBVIOUS
<1>2. /\ relates = {} /\ stored = {} /\ merge = None /\ clean = FALSE /\ job = "idle" /\ stage = "list"
      /\ \A t \in Task : tasks[t].pc = "entities"
  BY <1>1 DEF GraphJobsInit, GraphInit
<1>3. QED
  BY <1>2 DEF PassInv, EdgeIds, NamesKept, MergeKnows, JobKnown

\* What the names kept and the stages done come to when the pass is over.
LEMMA PassOver ==
    ASSUME GraphInv, PassInv
    PROVE  PassSettles
<1>1. SUFFICES ASSUME job = "idle", clean
               PROVE  Settled
  BY DEF PassSettles
<1>2. /\ OneEach /\ Capped /\ Linked /\ Canonized
      /\ \A t \in Task : tasks[t].pc = "done"
  BY <1>1 DEF PassInv, PassAt
<1>3. ASSUME NEW m \in stored, NEW n \in Chunk[m].memory
      PROVE  \/ \E i \in Live : <<m, i>> \in mentions /\ (KeyAt(i) = Key[n] \/ n \in nodes[i].aliases)
             \/ Forgotten(n)
  <2>1. CASE Called(n) # {}
    <3>1. PICK i \in Called(n) : <<m, i>> \in mentions
      BY <1>2, <2>1 DEF Linked
    <3>2. i \in Live /\ (nodes[i].name = n \/ n \in nodes[i].aliases)
      BY DEF Called
    <3>3. QED
      BY <3>1, <3>2 DEF KeyAt
  <2>2. CASE Called(n) = {}
    <3>1. \A i \in Live : nodes[i].name # n /\ n \notin nodes[i].aliases
      BY <2>2 DEF Called
    <3>2. raced
      <4>1. ~Remembered(n)
        BY <3>1 DEF Remembered, GoesBy
      <4>2. QED
        BY <1>2, <1>3, <4>1 DEF PassInv, NamesKept
    <3>3. QED
      BY <3>1, <3>2 DEF Forgotten
  <2>3. QED
    BY <2>1, <2>2
<1>4. ASSUME NEW i \in Live
      PROVE  \/ Cardinality({<<e.from, e.label, e.to>> : e \in OpenAt(i)}) <= MaxDegree
             \/ \E j \in Live \ {i} : nodes[i].name \in nodes[j].aliases
  BY <1>2 DEF Capped, Shadowed, Within, PlacesOf, PlaceOf
<1>5. QED
  BY <1>2, <1>3, <1>4 DEF Settled, OneEach, Canonized

\* However ingestion, earlier passes and failing jobs interleaved, a pass that began after the
\* last task and in which no job fails leaves one node per entity, every stored memory linked
\* under each name it mentions, every open label canonical and every degree within the cap.
THEOREM PassLeavesSettled == GraphJobsSpec => []PassSettles
<1>1. GraphJobsInit => GraphInv /\ PassInv
  BY GraphStarts, PassBegins
<1>2. GraphInv /\ PassInv /\ [GraphJobsNext]_vars => GraphInv' /\ PassInv'
  <2>1. SUFFICES ASSUME GraphInv, PassInv, [GraphJobsNext]_vars
                 PROVE  GraphInv' /\ PassInv'
    OBVIOUS
  <2>2. CASE JobStep \/ FailJob
    BY <2>1, <2>2, JobPass, JobStepSound
  <2>3. ASSUME NEW t \in Task, Ingest(t)
        PROVE  GraphInv' /\ PassInv'
    BY <2>1, <2>3, IngestPass, IngestSound
  <2>4. CASE UNCHANGED vars
    BY <2>1, <2>4, PassStutters, GraphStutters
  <2>5. QED
    BY <2>1, <2>2, <2>3, <2>4 DEF GraphJobsNext
<1>3. GraphInv /\ PassInv => PassSettles
  BY PassOver
<1>4. QED
  BY <1>1, <1>2, <1>3, PTL DEF GraphJobsSpec

-----------------------------------------------------------------------------
(* What the console shows of the memories *)

\* The function that SumOf computes with.
Sums(iter, f, S) ==
    iter = [s \in SUBSET S |->
              IF s = {} THEN 0 ELSE f[CHOOSE x \in s : TRUE] + iter[s \ {CHOOSE x \in s : TRUE}]]

\* A sum is what that function says of the whole set.
LEMMA SumIs ==
    ASSUME NEW f, NEW S
    PROVE  SumOf(f, S) = (CHOOSE iter : Sums(iter, f, S))[S]
BY DEF SumOf, MapThenSumSet, MapThenFoldSet, Sums

\* The union of what D has at the members of s.
Joint(D, s) == UNION {D[k] : k \in s}

\* Numbers of members of disjoint sets add up to the number of members of their union.
LEMMA CountsAddUp ==
    ASSUME NEW f, NEW S, IsFiniteSet(S), NEW D, IsFiniteSet(Joint(D, S)),
           \A k \in S : f[k] = Cardinality(D[k]),
           \A k, l \in S : k # l => D[k] \cap D[l] = {}
    PROVE  SumOf(f, S) = Cardinality(Joint(D, S))
<1> DEFINE pick(s) == CHOOSE x \in s : TRUE
           g == [s \in SUBSET S |-> Cardinality(Joint(D, s))]
           F == CHOOSE iter : Sums(iter, f, S)
<1>1. Joint(D, {}) = {} /\ Cardinality({}) = 0
  BY FS_EmptySet DEF Joint
<1>2. ASSUME NEW s \in SUBSET S, NEW x \in s
      PROVE  Cardinality(Joint(D, s)) = f[x] + Cardinality(Joint(D, s \ {x}))
  <2> DEFINE rest == Joint(D, s \ {x})
  <2>1. Joint(D, s) = D[x] \cup rest
    BY DEF Joint
  <2>2. D[x] \cap rest = {}
    BY DEF Joint
  <2>3. D[x] \in SUBSET Joint(D, S) /\ rest \in SUBSET Joint(D, S)
    BY DEF Joint
  <2> HIDE DEF rest
  <2>4. IsFiniteSet(D[x]) /\ IsFiniteSet(rest)
    BY <2>3, FS_Subset
  <2>5. Cardinality(D[x] \cup rest) = Cardinality(D[x]) + Cardinality(rest) - Cardinality(D[x] \cap rest)
    BY <2>4, FS_Union
  <2>6. Cardinality(D[x]) \in Nat /\ Cardinality(rest) \in Nat
    BY <2>4, FS_CardinalityType
  <2>7. Cardinality(D[x] \cap rest) = 0
    BY <2>2, FS_EmptySet
  <2>8. f[x] = Cardinality(D[x])
    OBVIOUS
  <2>9. QED
    BY <2>1, <2>5, <2>6, <2>7, <2>8 DEF rest
<1>3. \A s \in SUBSET S : s # {} => pick(s) \in s
  OBVIOUS
<1>4. Sums(g, f, S)
  <2>1. ASSUME NEW s \in SUBSET S
        PROVE  g[s] = IF s = {} THEN 0 ELSE f[pick(s)] + g[s \ {pick(s)}]
    <3>1. CASE s = {}
      BY <1>1, <3>1
    <3>2. CASE s # {}
      <4>1. pick(s) \in s /\ s \ {pick(s)} \in SUBSET S
        BY <1>3, <3>2
      <4>2. g[s] = Cardinality(Joint(D, s))
            /\ g[s \ {pick(s)}] = Cardinality(Joint(D, s \ {pick(s)}))
        BY <4>1
      <4> HIDE DEF pick, g
      <4>3. Cardinality(Joint(D, s)) = f[pick(s)] + Cardinality(Joint(D, s \ {pick(s)}))
        BY <1>2, <4>1
      <4>4. QED
        BY <3>2, <4>2, <4>3
    <3>3. QED
      BY <3>1, <3>2
  <2> DEFINE h == [s \in SUBSET S |-> IF s = {} THEN 0 ELSE f[pick(s)] + g[s \ {pick(s)}]]
  <2>2. g = h
    BY <2>1
  <2>3. QED
    BY <2>2 DEF Sums
<1>5. Sums(F, f, S)
  <2> HIDE DEF g
  <2>1. QED
    BY <1>4
<1>6. \A s \in SUBSET S : F[s] = IF s = {} THEN 0 ELSE f[pick(s)] + F[s \ {pick(s)}]
  <2> HIDE DEF F
  <2>1. QED
    BY <1>5 DEF Sums
<1> HIDE DEF F
<1> DEFINE T == {n \in Nat : \A s \in SUBSET S :
                    Cardinality(s) = n => F[s] = Cardinality(Joint(D, s))}
<1>7. \A s \in SUBSET S : IsFiniteSet(s) /\ Cardinality(s) \in Nat
  BY FS_Subset, FS_CardinalityType
<1>8. 0 \in T
  <2>1. ASSUME NEW s \in SUBSET S, Cardinality(s) = 0
        PROVE  F[s] = Cardinality(Joint(D, s))
    <3>1. s = {}
      BY <1>7, <2>1, FS_EmptySet
    <3>2. QED
      BY <1>1, <1>6, <3>1
  <2>2. QED
    BY <2>1
<1>9. ASSUME NEW n \in Nat, n \in T
      PROVE  n + 1 \in T
  <2>1. ASSUME NEW s \in SUBSET S, Cardinality(s) = n + 1
        PROVE  F[s] = Cardinality(Joint(D, s))
    <3>1. s # {}
      BY <1>1, <2>1
    <3>2. pick(s) \in s
      BY <1>3, <3>1
    <3> DEFINE x == pick(s)
               r == s \ {x}
    <3>3. r \in SUBSET S /\ x \in s
      BY <3>2
    <3>4. F[s] = f[x] + F[r]
      BY <1>6, <3>1
    <3> HIDE DEF x
    <3>5. Cardinality(r) = n
      <4>1. Cardinality(s \ {x}) = Cardinality(s) - 1
        BY <1>7, <3>3, FS_RemoveElement
      <4>2. QED
        BY <2>1, <4>1
    <3>6. Cardinality(Joint(D, s)) = f[x] + Cardinality(Joint(D, r))
      BY <1>2, <3>3
    <3>7. F[r] = Cardinality(Joint(D, r))
      BY <1>9, <3>3, <3>5
    <3>8. QED
      BY <3>4, <3>6, <3>7
  <2>2. QED
    BY <2>1
<1>10. Nat \subseteq T
  <2> HIDE DEF T
  <2>1. QED
    BY <1>8, <1>9, CountingUp
<1>11. F[S] = Cardinality(Joint(D, S))
  <2>1. S \in SUBSET S /\ Cardinality(S) \in T
    BY <1>7, <1>10
  <2>2. QED
    BY <2>1
<1>12. QED
  BY <1>11, SumIs DEF F

\* What the counts and chains of the console rest on: windows open before they close and
\* both are past, and only finitely many memories were ever made.
ViewsInv ==
    /\ clock \in 0..MaxStamps /\ DOMAIN windows = Row
    /\ \A r \in Row : /\ windows[r].from \in Nat /\ windows[r].to \in Nat
                      /\ windows[r].at # "absent" => windows[r].from < clock
                      /\ windows[r].to # Open => /\ windows[r].from < windows[r].to
                                                 /\ windows[r].to < clock
    /\ IsFiniteSet({r \in Row : windows[r].at # "absent"})

\* At the start there is none.
LEMMA ViewsStart == ViewsInit => ViewsInv
<1>1. SUFFICES ASSUME ViewsInit
               PROVE  ViewsInv
  OBVIOUS
<1>2. MaxStamps \in Nat /\ clock = 0 /\ DOMAIN windows = Row
  BY <1>1, ViewsAssumption DEF ViewsInit
<1>3. \A r \in Row : windows[r].at = "absent" /\ windows[r].from = 0 /\ windows[r].to = Open
  BY <1>1 DEF ViewsInit, Absent
<1>4. {r \in Row : windows[r].at # "absent"} = {}
  BY <1>3
<1>5. IsFiniteSet({r \in Row : windows[r].at # "absent"})
  BY <1>4, FS_EmptySet
<1>6. clock \in 0..MaxStamps /\ Open \in Nat
  BY <1>2 DEF Open
<1>7. QED
  BY <1>2, <1>3, <1>5, <1>6 DEF ViewsInv

\* What a step does to one window: it stays, opens, is stored or closes.
WindowMoves(r) ==
    \/ windows'[r] = windows[r]
    \/ /\ windows[r].at = "absent"
       /\ windows'[r].at = "held" /\ windows'[r].from = clock /\ windows'[r].to = Open
    \/ /\ windows[r].at # "absent"
       /\ windows'[r].from = windows[r].from
       /\ windows'[r].to = windows[r].to \/ windows'[r].to = clock

\* Every step moves the clock, and a window at a time is new.
LEMMA WindowsMove ==
    ASSUME ViewsInv, NEW s \in Row, Extract(s) \/ Upsert(s) \/ Retire(s)
    PROVE  /\ clock < MaxStamps /\ clock' = clock + 1 /\ DOMAIN windows' = Row
           /\ \A r \in Row : WindowMoves(r)
           /\ \A r \in Row \ {s} : windows[r].at = "absent" => windows'[r] = windows[r]
<1> USE DEF WindowMoves
<1>1. DOMAIN windows = Row
  BY DEF ViewsInv
<1>2. CASE Extract(s)
  <2> DEFINE new == [at |-> "held", from |-> clock, to |-> Open]
  <2>1. new.at = "held" /\ new.from = clock /\ new.to = Open
    OBVIOUS
  <2> HIDE DEF new
  <2>2. windows' = [windows EXCEPT ![s] = new] /\ Stamp /\ windows[s].at = "absent"
    BY <1>2 DEF Extract, new
  <2>3. QED
    BY <1>1, <2>1, <2>2 DEF Stamp
<1>3. CASE Upsert(s)
  <2>1. PICK old \in SUBSET StillOpen :
             windows' = [o \in Row |-> IF o = s THEN [windows[s] EXCEPT !.at = "stored"]
                                      ELSE IF o \in old THEN [windows[o] EXCEPT !.to = clock]
                                      ELSE windows[o]]
    BY <1>3 DEF Upsert
  <2>2. Stamp /\ windows[s].at = "held"
    BY <1>3 DEF Upsert
  <2>3. \A o \in old : o \in Row /\ windows[o].at = "stored"
    BY <2>1 DEF StillOpen, Kept
  <2>4. ASSUME NEW o \in Row
        PROVE  WindowMoves(o) /\ (o # s /\ windows[o].at = "absent" => windows'[o] = windows[o])
    <3>1. CASE o = s
      <4> DEFINE w == windows[o]
                 put == [w EXCEPT !.at = "stored"]
      <4>1. put.from = w.from /\ put.to = w.to
        OBVIOUS
      <4>2. windows'[o] = put
        BY <2>1, <3>1
      <4>3. QED
        BY <2>2, <3>1, <4>1, <4>2
    <3>2. CASE o # s /\ o \in old
      <4> DEFINE w == windows[o]
                 shut == [w EXCEPT !.to = clock]
      <4>1. shut.from = w.from /\ (shut.to = clock \/ shut.to = w.to)
        OBVIOUS
      <4>2. windows'[o] = shut
        BY <2>1, <3>2
      <4>3. QED
        BY <2>3, <3>2, <4>1, <4>2
    <3>3. CASE o # s /\ o \notin old
      BY <2>1, <3>3
    <3>4. QED
      BY <3>1, <3>2, <3>3
  <2>5. DOMAIN windows' = Row
    BY <2>1
  <2>6. QED
    BY <2>2, <2>4, <2>5 DEF Stamp
<1>4. CASE Retire(s)
  <2> DEFINE w == windows[s]
             shut == [w EXCEPT !.to = clock]
  <2>1. shut.from = w.from /\ (shut.to = clock \/ shut.to = w.to)
    OBVIOUS
  <2>2. windows' = [windows EXCEPT ![s] = shut] /\ Stamp /\ windows[s].at = "stored"
    BY <1>4 DEF Retire, StillOpen, Kept
  <2> HIDE DEF shut
  <2>3. QED
    BY <1>1, <2>1, <2>2 DEF Stamp
<1>5. QED
  BY <1>2, <1>3, <1>4

\* And through every step.
LEMMA ViewsKept == ViewsInv /\ [ViewsNext]_viewVars => ViewsInv'
<1>1. SUFFICES ASSUME ViewsInv, [ViewsNext]_viewVars
               PROVE  ViewsInv'
  OBVIOUS
<1> DEFINE made == {r \in Row : windows[r].at # "absent"}
<1>2. CASE UNCHANGED viewVars \/ Browse
  BY <1>1, <1>2 DEF ViewsInv, viewVars, Browse
<1>3. CASE \E s \in Row : Extract(s) \/ Upsert(s) \/ Retire(s)
  <2>1. PICK s \in Row : Extract(s) \/ Upsert(s) \/ Retire(s)
    BY <1>3
  <2>2. /\ clock < MaxStamps /\ clock' = clock + 1 /\ DOMAIN windows' = Row
        /\ \A r \in Row : WindowMoves(r)
        /\ \A r \in Row \ {s} : windows[r].at = "absent" => windows'[r] = windows[r]
    BY <1>1, <2>1, WindowsMove
  <2>3. MaxStamps \in Nat /\ clock \in 0..MaxStamps
    BY <1>1, ViewsAssumption DEF ViewsInv
  <2>4. clock \in Nat /\ clock' \in 0..MaxStamps /\ Open \in Nat /\ clock < Open
    BY <2>2, <2>3 DEF Open
  <2>5. ASSUME NEW r \in Row
        PROVE  /\ windows'[r].from \in Nat /\ windows'[r].to \in Nat
               /\ windows'[r].at # "absent" => windows'[r].from < clock'
               /\ windows'[r].to # Open => /\ windows'[r].from < windows'[r].to
                                           /\ windows'[r].to < clock'
    <3>1. /\ windows[r].from \in Nat /\ windows[r].to \in Nat
          /\ windows[r].at # "absent" => windows[r].from < clock
          /\ windows[r].to # Open => windows[r].from < windows[r].to /\ windows[r].to < clock
      BY <1>1 DEF ViewsInv
    <3>2. WindowMoves(r)
      BY <2>2
    <3>3. QED
      BY <2>2, <2>4, <3>1, <3>2 DEF WindowMoves
  <2>6. IsFiniteSet({r \in Row : windows'[r].at # "absent"})
    <3> DEFINE after == {r \in Row : windows'[r].at # "absent"}
    <3>1. after \subseteq made \cup {s}
      BY <2>2
    <3>2. IsFiniteSet(made)
      BY <1>1 DEF ViewsInv
    <3> HIDE DEF made, after
    <3>3. IsFiniteSet(made \cup {s})
      BY <3>2, FS_AddElement
    <3>4. IsFiniteSet(after)
      BY <3>1, <3>3, FS_Subset
    <3>5. QED
      BY <3>4 DEF after
  <2>7. Open' = Open
    BY DEF Open
  <2>8. QED
    BY <2>2, <2>4, <2>5, <2>6, <2>7 DEF ViewsInv
<1>4. QED
  BY <1>1, <1>2, <1>3 DEF ViewsNext

\* The chain of a memory, derived from either end, is one chain.
LEMMA ChainsHold ==
    ASSUME ViewsInv
    PROVE  ChainsAgree
<1>1. SUFFICES ASSUME NEW r \in Kept, NEW o \in Kept,
                      r \in ListPage({p \in Kept : Lies[p] = Lies[r]}, 0, PageMax),
                      o \in ListPage({p \in Kept : Lies[p] = Lies[r]}, 0, PageMax)
               PROVE  /\ (o \in SupersededBy(r)) <=> (r \in Supersedes(o))
                      /\ ~ (o \in Supersedes(r) /\ o \in SupersededBy(r))
  BY DEF ChainsAgree
<1>2. Lies[o] = Lies[r]
  BY <1>1 DEF ListPage
<1>3. o \in Peers(r) <=> r \in Peers(o)
  BY <1>1, <1>2 DEF Peers, Overlap
<1>4. /\ windows[r].from \in Nat /\ windows[r].to \in Nat /\ windows[o].from \in Nat /\ windows[o].to \in Nat
      /\ windows[r].to # Open => windows[r].from < windows[r].to
      /\ windows[o].to # Open => windows[o].from < windows[o].to
  BY DEF ViewsInv, Kept
<1>5. r \in Supersedes(o) <=> /\ r \in Peers(o) /\ windows[r].to # Open
                              /\ windows[r].from <= windows[o].from
                              /\ windows[r].to <= windows[o].from
  BY DEF Supersedes
<1>6. o \in Supersedes(r) <=> /\ o \in Peers(r) /\ windows[o].to # Open
                              /\ windows[o].from <= windows[r].from
                              /\ windows[o].to <= windows[r].from
  BY DEF Supersedes
<1>7. o \in SupersededBy(r) <=> /\ o \in Peers(r) /\ o \notin Supersedes(r)
                                /\ windows[r].to # Open /\ windows[o].from >= windows[r].to
  BY DEF SupersededBy
<1>8. QED
  BY <1>3, <1>4, <1>5, <1>6, <1>7

\* A prefix has the same segments, as far as it goes.
LEMMA PrefixIs ==
    ASSUME NEW p \in Seq(STRING), NEW q \in Seq(STRING)
    PROVE  Prefix(p, q) <=> Len(p) <= Len(q) /\ \A i \in 1..Len(p) : p[i] = q[i]
<1>1. CASE Len(p) <= Len(q)
  <2> DEFINE c == SubSeq(q, 1, Len(p))
  <2>1. c \in Seq(STRING) /\ Len(c) = Len(p) /\ \A i \in 1..Len(p) : c[i] = q[i]
    BY <1>1
  <2> HIDE DEF c
  <2>2. c = p <=> \A i \in 1..Len(p) : c[i] = p[i]
    BY <2>1
  <2>3. QED
    BY <1>1, <2>1, <2>2 DEF Prefix, c
<1>2. CASE ~ (Len(p) <= Len(q))
  BY <1>2 DEF Prefix
<1>3. QED
  BY <1>1, <1>2

\* The memories at a scope and below it.
Below(p) == {r \in Kept : RollsUp(Lies[r], p)}

\* A segment is cut off a path.
LEMMA CutPath ==
    ASSUME NEW q \in Seq(STRING), NEW k \in 0..Len(q)
    PROVE  /\ SubSeq(q, 1, k) \in Seq(STRING) /\ Len(SubSeq(q, 1, k)) = k
           /\ Prefix(SubSeq(q, 1, k), q)
<1> DEFINE c == SubSeq(q, 1, k)
<1>1. c \in Seq(STRING) /\ Len(c) = k /\ \A i \in 1..k : c[i] = q[i]
  OBVIOUS
<1>2. Len(c) <= Len(q) /\ Len(q) \in Nat
  BY <1>1
<1> HIDE DEF c
<1>3. Prefix(c, q)
  BY <1>1, <1>2, PrefixIs
<1>4. QED
  BY <1>1, <1>3 DEF c

\* The nodes of the navigator are paths, each with what is below it.
LEMMA NodesAre ==
    /\ \A r \in Kept : Lies[r] \in Seq(STRING)
    /\ \A p \in TreeNodes : p \in Seq(STRING)
    /\ \A r \in Kept : \A k \in 0..Len(Lies[r]) : SubSeq(Lies[r], 1, k) \in TreeNodes
    /\ <<>> \in TreeNodes
    /\ \A p \in TreeNodes : p # <<>> => \E r \in Kept : Len(p) <= Len(Lies[r])
    /\ \A p \in Seq(STRING) : Below(p) = {r \in Kept : Prefix(p, Lies[r])}
<1>1. \A r \in Kept : Lies[r] \in Seq(STRING)
  BY ViewsAssumption DEF Kept
<1>2. \A r \in Kept : \A k \in 0..Len(Lies[r]) :
         SubSeq(Lies[r], 1, k) \in Seq(STRING) /\ Len(SubSeq(Lies[r], 1, k)) = k
  BY <1>1, CutPath
<1>3. \A p \in TreeNodes : p = <<>> \/ \E r \in Kept : \E k \in 0..Len(Lies[r]) : p = SubSeq(Lies[r], 1, k)
  BY DEF TreeNodes
<1>4. \A p \in TreeNodes : p \in Seq(STRING)
  <2>1. <<>> \in Seq(STRING)
    OBVIOUS
  <2>2. QED
    BY <1>2, <1>3, <2>1
<1>5. \A r \in Kept : \A k \in 0..Len(Lies[r]) : SubSeq(Lies[r], 1, k) \in TreeNodes
  BY DEF TreeNodes
<1>6. \A p \in TreeNodes : p # <<>> => \E r \in Kept : Len(p) <= Len(Lies[r])
  <2>1. SUFFICES ASSUME NEW p \in TreeNodes, p # <<>>
                 PROVE  \E r \in Kept : Len(p) <= Len(Lies[r])
    OBVIOUS
  <2>2. PICK r \in Kept : \E k \in 0..Len(Lies[r]) : p = SubSeq(Lies[r], 1, k)
    BY <1>3, <2>1
  <2>3. PICK k \in 0..Len(Lies[r]) : p = SubSeq(Lies[r], 1, k)
    BY <2>2
  <2>4. Len(p) = k
    BY <1>2, <2>3
  <2>5. k <= Len(Lies[r])
    OBVIOUS
  <2>6. QED
    BY <2>4, <2>5
<1>7. ASSUME NEW p \in Seq(STRING)
      PROVE  Below(p) = {r \in Kept : Prefix(p, Lies[r])}
  <2>1. p = <<>> => \A r \in Kept : Prefix(p, Lies[r])
    <3>1. SUFFICES ASSUME p = <<>>, NEW r \in Kept
                   PROVE  Prefix(p, Lies[r])
      OBVIOUS
    <3>2. Len(p) = 0 /\ Len(Lies[r]) \in Nat
      BY <1>1, <3>1
    <3>3. Len(p) <= Len(Lies[r]) /\ \A i \in 1..Len(p) : p[i] = Lies[r][i]
      BY <3>2
    <3>4. QED
      BY <1>1, <3>3, PrefixIs
  <2>2. QED
    BY <2>1 DEF Below, RollsUp
<1>8. QED
  BY <1>1, <1>4, <1>5, <1>6, <1>7 DEF TreeNodes

\* A node's own memories and those below its children are what is below it, each once.
LEMMA Subtrees ==
    ASSUME NEW p \in TreeNodes
    PROVE  /\ Below(p) = {r \in Kept : Lies[r] = p} \cup UNION {Below(c) : c \in Children(p)}
           /\ \A c \in Children(p) : \A r \in Below(c) : Lies[r] # p
           /\ \A c, d \in Children(p) : c # d => Below(c) \cap Below(d) = {}
           /\ \A c \in Children(p) : \E r \in Below(p) : c = SubSeq(Lies[r], 1, Len(p) + 1)
           /\ \A c \in Children(p) : c \in TreeNodes /\ Len(c) = Len(p) + 1
<1>1. p \in Seq(STRING) /\ Len(p) \in Nat
  BY NodesAre
<1>2. \A r \in Kept : Lies[r] \in Seq(STRING) /\ Len(Lies[r]) \in Nat
  BY NodesAre
<1>3. \A c \in Children(p) : c \in TreeNodes /\ Len(c) = Len(p) + 1 /\ Prefix(p, c) /\ c \in Seq(STRING)
  BY NodesAre DEF Children
<1>4. /\ \A q \in Seq(STRING) : \A r \in Kept : r \in Below(q) <=> Prefix(q, Lies[r])
      /\ \A q : Below(q) \subseteq Kept
  BY NodesAre DEF Below
<1>5. \A q \in Seq(STRING) : \A r \in Kept :
         r \in Below(q) <=> /\ Len(q) <= Len(Lies[r])
                            /\ \A i \in 1..Len(q) : q[i] = Lies[r][i]
  BY <1>2, <1>4, PrefixIs
<1>6. ASSUME NEW r \in Kept, r \in Below(p), Lies[r] # p
      PROVE  /\ SubSeq(Lies[r], 1, Len(p) + 1) \in Children(p)
             /\ r \in Below(SubSeq(Lies[r], 1, Len(p) + 1))
  <2> DEFINE n == Len(p) + 1
             c == SubSeq(Lies[r], 1, n)
  <2>1. Len(p) <= Len(Lies[r]) /\ \A i \in 1..Len(p) : p[i] = Lies[r][i]
    BY <1>1, <1>5, <1>6
  <2>2. Len(p) # Len(Lies[r])
    <3>1. SUFFICES ASSUME Len(p) = Len(Lies[r])
                   PROVE  p = Lies[r]
      BY <1>6
    <3>2. QED
      BY <1>1, <1>2, <2>1, <3>1
  <2>3. n \in 0..Len(Lies[r])
    BY <1>1, <1>2, <2>1, <2>2
  <2>4. c \in Seq(STRING) /\ Len(c) = n /\ Prefix(c, Lies[r])
    <3> HIDE DEF n
    <3>1. QED
      BY <1>2, <2>3, CutPath
  <2>5. c \in TreeNodes
    <3> HIDE DEF n
    <3>1. QED
      BY <2>3, NodesAre
  <2>6. \A i \in 1..n : c[i] = Lies[r][i]
    <3> HIDE DEF c, n
    <3>1. QED
      BY <1>2, <2>4, PrefixIs
  <2>7. Prefix(p, c)
    <3>1. Len(p) <= Len(c) /\ \A i \in 1..Len(p) : p[i] = c[i]
      <4> HIDE DEF c
      <4>1. QED
        BY <1>1, <2>1, <2>4, <2>6
    <3> HIDE DEF c
    <3>2. QED
      BY <1>1, <2>4, <3>1, PrefixIs
  <2>8. c \in Children(p) /\ r \in Below(c)
    <3> HIDE DEF c
    <3>1. QED
      BY <1>4, <2>4, <2>5, <2>7 DEF Children
  <2>9. QED
    BY <2>8
<1>7. ASSUME NEW c \in Children(p), NEW r \in Below(c)
      PROVE  r \in Below(p) /\ Lies[r] # p /\ c = SubSeq(Lies[r], 1, Len(p) + 1)
  <2>1. r \in Kept /\ Len(c) <= Len(Lies[r]) /\ (\A i \in 1..Len(c) : c[i] = Lies[r][i]) /\ Prefix(c, Lies[r])
    BY <1>3, <1>4, <1>5
  <2>2. Len(p) <= Len(c) /\ (\A i \in 1..Len(p) : p[i] = c[i]) /\ Len(c) = Len(p) + 1
    BY <1>1, <1>3, PrefixIs
  <2>3. Len(p) <= Len(Lies[r]) /\ (\A i \in 1..Len(p) : p[i] = Lies[r][i]) /\ Len(Lies[r]) # Len(p)
    BY <1>1, <1>2, <2>1, <2>2
  <2>4. r \in Below(p)
    BY <1>1, <1>5, <2>1, <2>3
  <2>5. SubSeq(Lies[r], 1, Len(c)) = c
    BY <2>1 DEF Prefix
  <2>6. QED
    BY <2>2, <2>3, <2>4, <2>5
<1>8. ASSUME NEW c \in Children(p)
      PROVE  \E r \in Below(c) : TRUE
  <2>1. c \in TreeNodes /\ Len(c) = Len(p) + 1 /\ c \in Seq(STRING)
    BY <1>3
  <2>2. c # <<>>
    BY <1>1, <2>1
  <2>3. PICK r \in Kept : \E k \in 0..Len(Lies[r]) : c = SubSeq(Lies[r], 1, k)
    BY <2>1, <2>2 DEF TreeNodes
  <2>4. PICK k \in 0..Len(Lies[r]) : c = SubSeq(Lies[r], 1, k)
    BY <2>3
  <2>5. Prefix(c, Lies[r])
    BY <1>2, <2>4, CutPath
  <2>6. QED
    BY <1>4, <2>1, <2>5
<1>9. \A r \in Kept : Lies[r] = p => r \in Below(p)
  <2>1. SUFFICES ASSUME NEW r \in Kept, Lies[r] = p
                 PROVE  r \in Below(p)
    OBVIOUS
  <2>2. Len(p) <= Len(Lies[r]) /\ \A i \in 1..Len(p) : p[i] = Lies[r][i]
    BY <1>1, <2>1
  <2>3. QED
    BY <1>1, <1>5, <2>2
<1>10. Below(p) = {r \in Kept : Lies[r] = p} \cup UNION {Below(c) : c \in Children(p)}
  BY <1>4, <1>6, <1>7, <1>9
<1>11. \A c, d \in Children(p) : c # d => Below(c) \cap Below(d) = {}
  BY <1>7
<1>12. \A c \in Children(p) : \E r \in Below(p) : c = SubSeq(Lies[r], 1, Len(p) + 1)
  BY <1>7, <1>8
<1>13. QED
  BY <1>3, <1>7, <1>10, <1>11, <1>12

\* The children's sum, for a function that counts what is below each of them.
LEMMA ChildrenSum ==
    ASSUME ViewsInv, NEW p \in TreeNodes, NEW f, \A c \in Children(p) : f[c] = Cardinality(Below(c))
    PROVE  CountAt(p) + SumOf(f, Children(p)) = Cardinality(Below(p))
<1> DEFINE at == {r \in Kept : Lies[r] = p}
           D == [c \in Children(p) |-> Below(c)]
           deeper == UNION {Below(c) : c \in Children(p)}
<1>1. IsFiniteSet(Kept) /\ \A q : Below(q) \in SUBSET Kept
  <2>1. Kept \subseteq {r \in Row : windows[r].at # "absent"}
    BY DEF Kept
  <2>2. IsFiniteSet(Kept)
    BY <2>1, FS_Subset DEF ViewsInv
  <2>3. QED
    BY <2>2 DEF Below
<1>2. IsFiniteSet(Below(p))
  BY <1>1, FS_Subset
<1>3. Below(p) = at \cup deeper
  BY Subtrees
<1>4. at \cap deeper = {}
  BY Subtrees
<1>5. IsFiniteSet(at) /\ IsFiniteSet(deeper)
  <2> HIDE DEF at, deeper
  <2>1. at \in SUBSET Below(p) /\ deeper \in SUBSET Below(p)
    BY <1>3
  <2>2. QED
    BY <1>2, <2>1, FS_Subset
<1>6. IsFiniteSet(Children(p))
  <2> DEFINE cut == [r \in Below(p) |-> SubSeq(Lies[r], 1, Len(p) + 1)]
  <2>1. IsFiniteSet({cut[r] : r \in Below(p)})
    <3> HIDE DEF cut
    <3>1. QED
      BY <1>2, FiniteImages
  <2>2. Children(p) \subseteq {cut[r] : r \in Below(p)}
    BY Subtrees
  <2> HIDE DEF cut
  <2>3. QED
    BY <2>1, <2>2, FS_Subset
<1>7. Joint(D, Children(p)) = deeper
  BY DEF Joint
<1>8. SumOf(f, Children(p)) = Cardinality(deeper)
  <2>1. \A c \in Children(p) : D[c] = Below(c) /\ f[c] = Cardinality(D[c])
    OBVIOUS
  <2>2. \A c, d \in Children(p) : c # d => D[c] \cap D[d] = {}
    BY <2>1, Subtrees
  <2> HIDE DEF D, deeper
  <2>3. SumOf(f, Children(p)) = Cardinality(Joint(D, Children(p)))
    BY <1>5, <1>6, <1>7, <2>1, <2>2, CountsAddUp
  <2>4. QED
    BY <1>7, <2>3
<1>9. CountAt(p) = Cardinality(at)
  <2>1. Filtered({p}, "any") = at
    BY DEF Filtered
  <2>2. QED
    BY <2>1 DEF CountAt
<1>10. Cardinality(at \cup deeper) = Cardinality(at) + Cardinality(deeper)
  <2> HIDE DEF at, deeper
  <2>1. Cardinality(at \cup deeper) = Cardinality(at) + Cardinality(deeper) - Cardinality(at \cap deeper)
    BY <1>5, FS_Union
  <2>2. Cardinality(at \cap deeper) = 0 /\ Cardinality(at) \in Nat /\ Cardinality(deeper) \in Nat
    BY <1>4, <1>5, FS_EmptySet, FS_CardinalityType
  <2>3. QED
    BY <2>1, <2>2
<1>11. QED
  BY <1>3, <1>8, <1>9, <1>10

\* The function that TotalCount computes with.
Totals(f) == f = [p \in TreeNodes |-> CountAt(p) + SumOf(f, Children(p))]

\* The roll-up of a scope is the number of memories at it and below it.
LEMMA RollUpCounts ==
    ASSUME ViewsInv
    PROVE  \A p \in TreeNodes : TotalCount[p] = Cardinality(Below(p))
<1> DEFINE F == CHOOSE f : Totals(f)
           g == [p \in TreeNodes |-> Cardinality(Below(p))]
<1>1. TotalCount = F
  BY DEF TotalCount, Totals
<1>2. Totals(g)
  <2>1. \A q \in TreeNodes : g[q] = Cardinality(Below(q))
    OBVIOUS
  <2> HIDE DEF g
  <2>2. ASSUME NEW p \in TreeNodes
        PROVE  g[p] = CountAt(p) + SumOf(g, Children(p))
    <3>1. \A c \in Children(p) : g[c] = Cardinality(Below(c))
      BY <2>1, Subtrees
    <3>2. QED
      BY <2>1, <3>1, ChildrenSum
  <2> DEFINE h == [p \in TreeNodes |-> CountAt(p) + SumOf(g, Children(p))]
  <2>3. g = h
    BY <2>2 DEF g
  <2>4. QED
    BY <2>3 DEF Totals
<1> HIDE DEF g
<1>3. Totals(F)
  BY <1>2
<1> HIDE DEF F
<1>4. \A p \in TreeNodes : F[p] = CountAt(p) + SumOf(F, Children(p))
  BY <1>3 DEF Totals
<1>5. PICK M \in Nat : \A p \in TreeNodes : Len(p) <= M
  <2>1. \A p \in TreeNodes : Len(p) \in Nat
    BY NodesAre
  <2>2. IsFiniteSet(Kept)
    <3>1. Kept \subseteq {r \in Row : windows[r].at # "absent"}
      BY DEF Kept
    <3>2. QED
      BY <3>1, FS_Subset DEF ViewsInv
  <2>3. CASE Kept = {}
    <3>1. \A p \in TreeNodes : p = <<>>
      BY <2>3, NodesAre
    <3>2. QED
      BY <3>1
  <2>4. CASE Kept # {}
    <3> DEFINE deep == [r \in Kept |-> Len(Lies[r])]
    <3>1. \A r \in Kept : deep[r] \in Nat /\ deep[r] \in Int /\ deep[r] = Len(Lies[r])
      BY NodesAre
    <3> HIDE DEF deep
    <3>2. PICK s \in Kept : \A r \in Kept : deep[r] <= deep[s]
      BY <2>2, <2>4, <3>1, FarthestExists
    <3>3. ASSUME NEW p \in TreeNodes
          PROVE  Len(p) <= deep[s]
      <4>1. CASE p = <<>>
        BY <3>1, <4>1
      <4>2. CASE p # <<>>
        <5>1. PICK r \in Kept : Len(p) <= Len(Lies[r])
          BY <4>2, NodesAre
        <5>2. QED
          BY <2>1, <3>1, <3>2, <5>1
      <4>3. QED
        BY <4>1, <4>2
    <3>4. QED
      BY <3>1, <3>3
  <2>5. QED
    BY <2>3, <2>4
<1> DEFINE T == {n \in Nat : \A p \in TreeNodes : Len(p) + n > M => F[p] = Cardinality(Below(p))}
<1>6. \A p \in TreeNodes : Len(p) \in Nat
  BY NodesAre
<1>7. 0 \in T
  BY <1>5, <1>6
<1>8. ASSUME NEW n \in Nat, n \in T
      PROVE  n + 1 \in T
  <2>1. ASSUME NEW p \in TreeNodes, Len(p) + (n + 1) > M
        PROVE  F[p] = Cardinality(Below(p))
    <3>1. \A c \in Children(p) : F[c] = Cardinality(Below(c))
      <4>1. \A c \in Children(p) : c \in TreeNodes /\ Len(c) = Len(p) + 1
        BY Subtrees
      <4>2. \A c \in Children(p) : Len(c) + n > M
        BY <1>6, <2>1, <4>1
      <4>3. QED
        BY <1>8, <4>1, <4>2
    <3>2. CountAt(p) + SumOf(F, Children(p)) = Cardinality(Below(p))
      BY <3>1, ChildrenSum
    <3>3. QED
      BY <1>4, <3>2
  <2>2. QED
    BY <2>1
<1>9. Nat \subseteq T
  <2> HIDE DEF T
  <2>1. QED
    BY <1>7, <1>8, CountingUp
<1>10. M + 1 \in T
  <2>1. M + 1 \in Nat
    OBVIOUS
  <2> HIDE DEF T
  <2>2. QED
    BY <1>9, <2>1
<1>11. \A p \in TreeNodes : F[p] = Cardinality(Below(p))
  BY <1>6, <1>10
<1>12. QED
  BY <1>1, <1>11

\* A number is so many times another and a rest, which is less.
LEMMA Divided ==
    ASSUME NEW d \in Nat \ {0}, NEW a \in Nat
    PROVE  \E n \in Nat : d * n <= a /\ a < d * n + d
<1> DEFINE T == {m \in Nat : \E n \in Nat : d * n <= m /\ m < d * n + d}
<1>1. 0 \in T
  <2>1. d * 0 <= 0 /\ 0 < d * 0 + d
    OBVIOUS
  <2>2. QED
    BY <2>1
<1>2. ASSUME NEW m \in Nat, m \in T
      PROVE  m + 1 \in T
  <2>1. PICK n \in Nat : d * n <= m /\ m < d * n + d
    BY <1>2
  <2>2. d * (n + 1) = d * n + d /\ d * n \in Nat
    OBVIOUS
  <2>3. CASE m + 1 < d * n + d
    BY <2>1, <2>2, <2>3
  <2>4. CASE ~ (m + 1 < d * n + d)
    <3> DEFINE next == n + 1
    <3>1. next \in Nat /\ d * next <= m + 1 /\ m + 1 < d * next + d
      BY <2>1, <2>2, <2>4
    <3> HIDE DEF next
    <3>2. QED
      BY <3>1
  <2>5. QED
    BY <2>3, <2>4
<1>3. Nat \subseteq T
  <2> HIDE DEF T
  <2>1. QED
    BY <1>1, <1>2, CountingUp
<1>4. QED
  BY <1>3

\* And in one way.
LEMMA DividedOnce ==
    ASSUME NEW d \in Nat \ {0}, NEW a \in Nat, NEW b \in Nat, NEW m \in Nat, NEW n \in Nat,
           d * m <= a, a < d * m + d, d * n <= b, b < d * n + d, a <= b
    PROVE  m <= n
<1>1. SUFFICES ASSUME n + 1 <= m
               PROVE  FALSE
  OBVIOUS
<1>2. PICK k \in Nat : m = n + 1 + k
  <2>1. m - (n + 1) \in Nat /\ m = n + 1 + (m - (n + 1))
    BY <1>1
  <2>2. QED
    BY <2>1
<1>3. d * m = d * n + d + d * k /\ d * k \in Nat /\ d * n \in Nat
  BY <1>2
<1>4. QED
  BY <1>3

\* Days are counted from the first.
LEMMA Days ==
    ASSUME NEW a \in Nat, NEW b \in Nat, a <= b
    PROVE  Day(a) \in Nat /\ Day(b) \in Nat /\ Day(a) <= Day(b)
<1>1. DayLength \in Nat \ {0}
  BY ViewsAssumption
<1>2. \A t \in Nat : Day(t) \in Nat /\ DayLength * Day(t) <= t /\ t < DayLength * Day(t) + DayLength
  BY <1>1 DEF Day
<1>3. Day(a) \in Nat /\ DayLength * Day(a) <= a /\ a < DayLength * Day(a) + DayLength
  BY <1>2
<1>4. Day(b) \in Nat /\ DayLength * Day(b) <= b /\ b < DayLength * Day(b) + DayLength
  BY <1>2
<1>5. QED
  BY <1>1, <1>3, <1>4, DividedOnce

\* What has grown at a scope since the first day is what is at it and below it.
LEMMA GrownCounts ==
    ASSUME ViewsInv, NEW p
    PROVE  Grown(p, Day(clock) + 1) = Cardinality(Below(p))
<1> DEFINE days == Day(clock) + 1
           born(k) == {r \in Kept : RollsUp(Lies[r], p) /\ Day(windows[r].from) = k - 1}
           D == [k \in 1..days |-> born(k)]
           f == Growth(p, days)
<1>1. clock \in Nat /\ Day(clock) \in Nat /\ days \in Nat
  <2>1. MaxStamps \in Nat /\ clock \in 0..MaxStamps
    BY ViewsAssumption DEF ViewsInv
  <2>2. clock \in Nat
    BY <2>1
  <2>3. QED
    BY <2>2, Days
<1>2. ASSUME NEW r \in Kept
      PROVE  Day(windows[r].from) \in Nat /\ Day(windows[r].from) + 1 \in 1..days
  <2>1. windows[r].from \in Nat /\ windows[r].from <= clock
    BY <1>1 DEF ViewsInv, Kept
  <2>2. Day(windows[r].from) \in Nat /\ Day(windows[r].from) <= Day(clock)
    BY <1>1, <2>1, Days
  <2>3. QED
    BY <1>1, <2>2
<1>3. ASSUME NEW k \in 1..days
      PROVE  f[k] = Cardinality(D[k]) /\ D[k] = born(k)
  <2>1. Day(clock) - days + k = k - 1
    BY <1>1
  <2>2. f[k] = Daily(p, Day(clock) - days + k)
    BY DEF Growth
  <2>3. Daily(p, k - 1) = Cardinality(born(k))
    BY DEF Daily
  <2> HIDE DEF born, days
  <2>4. QED
    BY <2>1, <2>2, <2>3
<1>4. \A k, l \in 1..days : k # l => D[k] \cap D[l] = {}
  <2>1. SUFFICES ASSUME NEW k \in 1..days, NEW l \in 1..days, NEW r \in born(k), r \in born(l)
                 PROVE  k = l
    BY <1>3
  <2>2. k - 1 = l - 1 /\ k \in Int /\ l \in Int
    BY <2>1
  <2>3. QED
    BY <2>2
<1>5. Joint(D, 1..days) = Below(p)
  <2>1. \A k \in 1..days : D[k] \subseteq Below(p)
    BY <1>3 DEF Below
  <2>2. ASSUME NEW r \in Below(p)
        PROVE  \E k \in 1..days : r \in D[k]
    <3> DEFINE k == Day(windows[r].from) + 1
    <3>1. r \in Kept /\ RollsUp(Lies[r], p)
      BY DEF Below
    <3>2. k \in 1..days /\ Day(windows[r].from) = k - 1
      BY <1>2, <3>1
    <3> HIDE DEF k, days
    <3>3. r \in born(k)
      BY <3>1, <3>2
    <3>4. QED
      BY <1>3, <3>2, <3>3
  <2>3. QED
    BY <2>1, <2>2 DEF Joint
<1>6. IsFiniteSet(Below(p))
  <2>1. Below(p) \subseteq {r \in Row : windows[r].at # "absent"}
    BY DEF Below, Kept
  <2>2. QED
    BY <2>1, FS_Subset DEF ViewsInv
<1>7. IsFiniteSet(1..days)
  <2>1. 1 \in Int /\ days \in Int
    BY <1>1
  <2> HIDE DEF days
  <2>2. QED
    BY <2>1, FS_Interval
<1>8. SumOf(f, 1..days) = Cardinality(Joint(D, 1..days))
  <2> DEFINE window == 1..days
  <2>1. /\ \A k \in window : f[k] = Cardinality(D[k])
        /\ \A k, l \in window : k # l => D[k] \cap D[l] = {}
        /\ IsFiniteSet(window) /\ IsFiniteSet(Joint(D, window))
    BY <1>3, <1>4, <1>5, <1>6, <1>7
  <2> HIDE DEF f, D, window
  <2>2. SumOf(f, window) = Cardinality(Joint(D, window))
    BY <2>1, CountsAddUp
  <2>3. QED
    BY <2>2 DEF window
<1>9. QED
  BY <1>5, <1>8 DEF Grown

\* Every row is on one page of the table.
LEMMA PagesShow ==
    ASSUME ViewsInv, NEW r \in Kept
    PROVE  Cardinality({n \in 0..Cardinality(Kept) - 1 :
                           r \in ListPage(Filtered(Everywhere, "any"), PageMax * n, PageMax)}) = 1
<1> DEFINE newer == {o \in Kept : Newer(o, r)}
           rank == Cardinality(newer)
           size == Cardinality(Kept)
           pages == {n \in 0..size - 1 : r \in ListPage(Filtered(Everywhere, "any"), PageMax * n, PageMax)}
<1>1. Filtered(Everywhere, "any") = Kept
  BY DEF Filtered, Everywhere, Kept
<1>2. IsFiniteSet(Kept)
  <2>1. Kept \subseteq {o \in Row : windows[o].at # "absent"}
    BY DEF Kept
  <2>2. QED
    BY <2>1, FS_Subset DEF ViewsInv
<1>3. rank \in Nat /\ size \in Nat /\ rank < size
  <2>1. windows[r].from \in Nat
    BY DEF ViewsInv, Kept
  <2>2. newer \in SUBSET Kept /\ newer # Kept
    BY <2>1 DEF Newer
  <2> HIDE DEF newer
  <2>3. IsFiniteSet(newer) /\ rank <= size /\ rank # size
    BY <1>2, <2>2, FS_Subset
  <2>4. rank \in Nat /\ size \in Nat
    BY <1>2, <2>3, FS_CardinalityType
  <2> HIDE DEF rank, size
  <2>5. QED
    BY <2>3, <2>4
<1>4. PageMax \in Nat \ {0}
  BY ViewsAssumption
<1>5. \A n : r \in ListPage(Kept, PageMax * n, PageMax) <=> PageMax * n <= rank /\ rank < PageMax * n + PageMax
  BY DEF ListPage
<1> HIDE DEF rank, size
<1>6. PICK n \in Nat : PageMax * n <= rank /\ rank < PageMax * n + PageMax
  BY <1>3, <1>4, Divided
<1>7. n \in 0..size - 1
  <2>1. PICK m \in Nat : PageMax = m + 1
    <3>1. PageMax - 1 \in Nat /\ PageMax = (PageMax - 1) + 1
      BY <1>4
    <3>2. QED
      BY <3>1
  <2>2. PageMax * n = m * n + n /\ m * n \in Nat
    BY <2>1
  <2>3. n <= rank
    BY <1>3, <1>6, <2>2
  <2>4. QED
    BY <1>3, <2>3
<1>8. pages = {n}
  <2>1. n \in pages
    BY <1>1, <1>5, <1>6, <1>7
  <2>2. ASSUME NEW k \in pages
        PROVE  k = n
    <3>1. k \in 0..size - 1 /\ PageMax * k <= rank /\ rank < PageMax * k + PageMax
      BY <1>1, <1>5
    <3>2. k \in Nat
      BY <3>1
    <3>3. k <= n /\ n <= k
      BY <1>3, <1>4, <1>6, <3>1, <3>2, DividedOnce
    <3>4. QED
      BY <3>2, <3>3
  <2>3. QED
    BY <2>1, <2>2
<1>9. QED
  BY <1>8, FS_Singleton DEF size

\* The operator console, for all memories, scopes, page sizes and lengths of a day: the
\* table's pages show every row once, the top bar, the table, the navigator and the trend
\* count alike at every scope, and a supersession chain is the same from either end.
THEOREM ViewsTellOneStory == ViewsSpec => []ViewsAgree
<1>1. ASSUME ViewsInv
      PROVE  ViewsAgree
  <2>1. IsFiniteSet(Kept)
    <3>1. Kept \subseteq {r \in Row : windows[r].at # "absent"}
      BY DEF Kept
    <3>2. QED
      BY <1>1, <3>1, FS_Subset DEF ViewsInv
  <2>2. Stats.total = TotalCount[<<>>]
    <3>1. Below(<<>>) = Kept
      BY DEF Below, RollsUp
    <3>2. TotalCount[<<>>] = Cardinality(Below(<<>>))
      BY <1>1, RollUpCounts, NodesAre
    <3>3. Stats.total = Cardinality(Kept)
      BY DEF Stats
    <3>4. QED
      BY <3>1, <3>2, <3>3
  <2>3. Stats.active = Cardinality(Filtered(Everywhere, "yes"))
    <3>1. Filtered(Everywhere, "yes") = StillOpen
      BY DEF Filtered, Everywhere, StillOpen, Kept
    <3>2. QED
      BY <3>1 DEF Stats
  <2>4. Stats.superseded = Cardinality(Filtered(Everywhere, "no"))
    <3>1. Filtered(Everywhere, "no") = Kept \ StillOpen
      BY DEF Filtered, Everywhere, StillOpen, Kept
    <3>2. Cardinality(Kept \ StillOpen) = Cardinality(Kept) - Cardinality(Kept \cap StillOpen)
      BY <2>1, FS_Difference
    <3>3. Kept \cap StillOpen = StillOpen
      BY DEF StillOpen
    <3>4. QED
      BY <3>1, <3>2, <3>3 DEF Stats
  <2>5. \A p \in TreeNodes : TotalCount[p] = Grown(p, Day(clock) + 1)
    BY <1>1, RollUpCounts, GrownCounts
  <2>6. CountsAgree
    BY <1>1, <2>2, <2>3, <2>4, <2>5, PagesShow DEF CountsAgree
  <2>7. QED
    BY <1>1, <2>6, ChainsHold DEF ViewsAgree
<1>2. QED
  BY <1>1, ViewsStart, ViewsKept, PTL DEF ViewsSpec

-----------------------------------------------------------------------------
(* The activity feed *)

\* What a feed tells, and what of it a query asks for.
ToldIn(f) == {f[k] : k \in DOMAIN f}
Distinct(f) == \A j, k \in DOMAIN f : j # k => f[j] # f[k]
MatchedIn(T, q) == {d \in T : Matches(q, d)}

\* What is listed before d, newest first.
NewerThan(ds, S, d) == {e \in S : ds[e].ts > ds[d].ts}

\* The persistent log filters after it has cut the page.
PagesWhole(l, q) == ~ (l = "falkor" /\ q.ref # "any")

\* What a reader is owed it has seen or will find on a page to come: the rows before it
\* have only become more since it began.
ReaderInv(r, l, T, ds) ==
    /\ DOMAIN r = DOMAIN Away /\ r.pc \in {"idle", "reading", "read"} /\ r.offset \in Nat
    /\ r.pc = "idle" => r.wanted = {}
    /\ r.wanted \subseteq MatchedIn(T, r.query)
    /\ PagesWhole(l, r.query) =>
         /\ r.pc = "reading" =>
              \A d \in r.wanted \ r.seen :
                 r.offset <= Cardinality(NewerThan(ds, MatchedIn(T, r.query), d))
         /\ r.pc = "read" => r.wanted \subseteq r.seen

Stages == {"todo", "failed", "recording", "over", "cut"}
FeedTypes ==
    /\ log \in {"null", "memory", "falkor"} /\ time \in Nat /\ faults \in Nat
    /\ deeds \in [Deed -> [pc : Stages, ts : Nat]]
    /\ feed \in Seq(Deed) /\ appending \subseteq Deed

\* What has been done has a time of its own.
Stamped ==
    /\ \A d \in Deed : deeds[d].pc \in {"recording", "over", "cut"} => deeds[d].ts < time
    /\ \A d, e \in Deed :
         /\ {deeds[d].pc, deeds[e].pc} \subseteq {"recording", "over", "cut"}
         /\ deeds[d].ts = deeds[e].ts
         => d = e

\* An append under way is of something that was done and is not told yet; the null log
\* is never appended to.
Recorded ==
    /\ \A d \in Told : deeds[d].pc = "over"
    /\ Distinct(feed)
    /\ \A d \in appending : deeds[d].pc = "over" /\ d \notin Told /\ d \notin Awaits
    /\ \A d \in Deed : deeds[d].pc = "recording" => d \notin Told /\ d \in Awaits
    /\ log = "null" =>
         appending = {} /\ Told = {} /\ \A d \in Deed : deeds[d].pc # "recording"

FeedInv ==
    /\ FeedTypes /\ Stamped /\ Recorded /\ OperatorIsTold
    /\ ReaderInv(reader, log, Told, deeds)
    /\ ~ up => reader = Away

\* A feed that grows tells one thing more, unless it drops another.
LEMMA FeedGrows ==
    ASSUME feed \in Seq(Deed), NEW d \in Deed, d \notin Told, Distinct(feed)
    PROVE  /\ Appended(d) \in Seq(Deed) /\ Distinct(Appended(d))
           /\ ToldIn(Appended(d)) \subseteq Told \cup {d}
           /\ Len(Appended(d)) # Len(feed) => ToldIn(Appended(d)) = Told \cup {d}
           /\ log # "memory" => Len(Appended(d)) # Len(feed)
<1> DEFINE longer == Append(feed, d)
           N == Len(feed)
<1>1. /\ longer \in Seq(Deed) /\ N \in Nat /\ DOMAIN longer = 1 .. N + 1 /\ DOMAIN feed = 1 .. N
      /\ Len(longer) = N + 1 /\ longer[N + 1] = d /\ \A k \in 1 .. N : longer[k] = feed[k]
  OBVIOUS
<1> HIDE DEF longer
<1>2. ToldIn(longer) = Told \cup {d}
  <2>1. \A k \in 1 .. N + 1 : longer[k] \in Told \cup {d}
    BY <1>1 DEF Told
  <2>2. Told \cup {d} \subseteq ToldIn(longer)
    BY <1>1 DEF Told, ToldIn
  <2>3. QED
    BY <1>1, <2>1, <2>2 DEF ToldIn
<1>3. Distinct(longer)
  <2>1. \A k \in 1 .. N : longer[k] # d
    BY <1>1 DEF Told
  <2>2. \A j, k \in 1 .. N : j # k => longer[j] # longer[k]
    BY <1>1 DEF Distinct
  <2>3. \A k \in 1 .. N + 1 : k \in 1 .. N \/ k = N + 1
    BY <1>1
  <2>4. QED
    BY <1>1, <2>1, <2>2, <2>3 DEF Distinct
<1>4. CASE Appended(d) = longer
  <2> HIDE DEF N
  <2>1. Len(longer) = N + 1 /\ N # N + 1
    BY <1>1
  <2>2. Len(Appended(d)) = N + 1
    BY <1>4, <2>1
  <2>3. QED
    BY <1>1, <1>2, <1>3, <1>4, <2>1, <2>2 DEF N
<1>5. CASE log = "memory" /\ Appended(d) = Tail(longer)
  <2> DEFINE shorter == Tail(longer)
  <2>1. /\ shorter \in Seq(Deed) /\ Len(shorter) = N /\ DOMAIN shorter = 1 .. N
        /\ \A k \in 1 .. N : shorter[k] = longer[k + 1]
    BY <1>1
  <2> HIDE DEF shorter
  <2>2. Distinct(shorter)
    <3>1. \A k \in 1 .. N : k + 1 \in 1 .. N + 1
      BY <1>1
    <3>2. QED
      BY <1>1, <1>3, <2>1, <3>1 DEF Distinct
  <2>3. ToldIn(shorter) \subseteq ToldIn(longer)
    BY <1>1, <2>1 DEF ToldIn
  <2>4. QED
    BY <1>2, <1>5, <2>1, <2>2, <2>3 DEF shorter, N
<1>6. QED
  BY <1>4, <1>5 DEF Appended, longer

\* Nothing a reader is owed gets lost when the feed tells more and times stay.
LEMMA ReaderStays ==
    ASSUME NEW r, NEW l, NEW T, NEW ds, ReaderInv(r, l, T, ds),
           NEW more, T \subseteq more, IsFiniteSet(more), NEW es, \A d \in T : es[d].ts = ds[d].ts
    PROVE  ReaderInv(r, l, more, es)
<1> DEFINE M == MatchedIn(T, r.query)
           K == MatchedIn(more, r.query)
<1>1. M \subseteq K /\ M \subseteq T /\ K \subseteq more /\ r.wanted \subseteq M
  BY DEF MatchedIn, ReaderInv
<1> HIDE DEF M, K
<1>2. ASSUME NEW d \in r.wanted, r.offset \in Nat, r.offset <= Cardinality(NewerThan(ds, M, d))
      PROVE  r.offset <= Cardinality(NewerThan(es, K, d))
  <2> DEFINE A == NewerThan(ds, M, d)
             B == NewerThan(es, K, d)
  <2>1. A \subseteq B /\ B \subseteq more
    BY <1>1 DEF NewerThan
  <2> HIDE DEF A, B
  <2>2. IsFiniteSet(B) /\ IsFiniteSet(A)
    BY <2>1, FS_Subset
  <2>3. Cardinality(A) <= Cardinality(B) /\ Cardinality(A) \in Nat /\ Cardinality(B) \in Nat
    BY <2>1, <2>2, FS_Subset, FS_CardinalityType
  <2>4. QED
    BY <1>2, <2>3 DEF A, B
<1>3. QED
  BY <1>1, <1>2 DEF ReaderInv, M, K

\* A page that is short is the last: all that is owed has been seen.
LEMMA ShortPageIsLast ==
    ASSUME NEW M, IsFiniteSet(M), NEW offset \in Nat,
           \A d \in M : deeds[d].ts \in Nat,
           \A d, e \in M : deeds[d].ts = deeds[e].ts => d = e,
           NEW d \in M, d \notin Slice(M, offset), offset <= Cardinality(NewerThan(deeds, M, d))
    PROVE  /\ offset + PageSize <= Cardinality(NewerThan(deeds, M, d))
           /\ ~ (Cardinality(Slice(M, offset)) < PageSize)
<1> DEFINE R == {p \in M \X M : deeds[p[1]].ts > deeds[p[2]].ts}
           near == Firsts(M, R, offset)
           far == Firsts(M, R, offset + PageSize)
           rank(e) == Cardinality({f \in M : deeds[f].ts > deeds[e].ts})
<1>1. \A e, f \in M : <<e, f>> \in R <=> deeds[e].ts > deeds[f].ts
  OBVIOUS
<1>2. Ranks(R, M)
  BY <1>1 DEF Ranks
<1>3. PageSize \in Nat /\ offset + PageSize \in Nat
  BY FeedAssumption
<1>4. \A e \in M : rank(e) \in Nat
  BY FS_Subset, FS_CardinalityType
<1>5. /\ near = {e \in M : rank(e) < offset} /\ far = {e \in M : rank(e) < offset + PageSize}
  <2>1. ASSUME NEW e \in M
        PROVE  {f \in M : <<f, e>> \in R} = {f \in M : deeds[f].ts > deeds[e].ts}
    BY <1>1
  <2>2. \A e \in M : Cardinality({f \in M : <<f, e>> \in R}) = rank(e)
    BY <2>1
  <2> HIDE DEF rank, R
  <2>3. /\ near = {e \in M : Cardinality({f \in M : <<f, e>> \in R}) < offset}
        /\ far = {e \in M : Cardinality({f \in M : <<f, e>> \in R}) < offset + PageSize}
    BY DEF Firsts
  <2> HIDE DEF near, far
  <2>4. QED
    BY <2>2, <2>3
<1>6. Slice(M, offset) = {e \in M : offset <= rank(e) /\ rank(e) < offset + PageSize}
  BY DEF Slice
<1>7. rank(d) = Cardinality(NewerThan(deeds, M, d))
  BY DEF NewerThan
<1> HIDE DEF R, rank
<1>8. /\ near \subseteq M /\ Cardinality(near) \in Nat /\ Cardinality(near) <= offset
  BY <1>2, FirstsCount
<1>9. /\ far \subseteq M /\ Cardinality(far) \in Nat
      /\ far = M \/ Cardinality(far) = offset + PageSize
  BY <1>2, <1>3, FirstsCount
<1> HIDE DEF near, far
<1>10. offset + PageSize <= rank(d)
  BY <1>3, <1>4, <1>6, <1>7
<1>11. Cardinality(far) = offset + PageSize
  BY <1>3, <1>4, <1>5, <1>9, <1>10
<1>12. Slice(M, offset) = far \ near
  BY <1>4, <1>5, <1>6
<1>13. Cardinality(far \ near) = Cardinality(far) - Cardinality(far \cap near)
  BY <1>9, FS_Subset, FS_Difference
<1>14. Cardinality(far \cap near) <= Cardinality(near) /\ Cardinality(far \cap near) \in Nat
  <2>1. IsFiniteSet(near) /\ far \cap near \subseteq near
    BY <1>8, FS_Subset
  <2>2. QED
    BY <2>1, FS_Subset, FS_CardinalityType
<1>15. QED
  BY <1>3, <1>7, <1>8, <1>10, <1>11, <1>12, <1>13, <1>14

LEMMA ToldFinite ==
    ASSUME NEW f \in Seq(Deed)
    PROVE  IsFiniteSet(ToldIn(f)) /\ ToldIn(f) \subseteq Deed
<1>1. Len(f) \in Nat /\ DOMAIN f = 1 .. Len(f) /\ \A k \in 1 .. Len(f) : f[k] \in Deed
  OBVIOUS
<1>2. IsFiniteSet(DOMAIN f)
  BY <1>1, FS_Interval
<1> DEFINE g == [k \in DOMAIN f |-> f[k]]
<1>3. g \in Surjection(DOMAIN f, ToldIn(f))
  BY DEF ToldIn, Surjection
<1>4. QED
  BY <1>1, <1>2, <1>3, FS_Surjection DEF ToldIn

LEMMA FeedStart == FeedInit => FeedInv
<1>1. SUFFICES ASSUME FeedInit
               PROVE  FeedInv
  OBVIOUS
<1> USE DEF FeedInit
<1>2. Told = {}
  BY <1>1 DEF Told
<1>3. FeedTypes
  BY <1>1 DEF FeedTypes, Stages
<1>4. Stamped
  BY <1>1 DEF Stamped
<1>5. Recorded
  BY <1>1, <1>2 DEF Recorded, Distinct
<1>6. OperatorIsTold
  BY <1>1, FeedAssumption DEF OperatorIsTold
<1>7. ReaderInv(reader, log, Told, deeds)
  BY <1>1 DEF ReaderInv, Away
<1>8. QED
  BY <1>1, <1>3, <1>4, <1>5, <1>6, <1>7 DEF FeedInv

\* A reader that is away is owed nothing.
LEMMA AwayStays ==
    ASSUME NEW l, NEW T, NEW ds
    PROVE  ReaderInv(Away, l, T, ds)
<1>1. /\ Away.pc = "idle" /\ Away.offset = 0 /\ Away.wanted = {}
  BY DEF Away
<1>2. QED
  BY <1>1 DEF ReaderInv

\* Doing something, or failing to.
LEMMA DoingKept ==
    ASSUME FeedInv, NEW d \in Deed, Do(d) \/ DoFails(d)
    PROVE  FeedInv'
<1>1. /\ UNCHANGED <<log, feed, up, reader>> /\ deeds[d].pc = "todo" /\ Told' = Told
  BY DEF Do, DoFails, Told
<1>2. FeedTypes /\ Stamped /\ Recorded /\ OperatorIsTold /\ d \notin Told /\ d \notin appending
  BY <1>1 DEF FeedInv, Recorded
<1>3. \A e \in Deed \ {d} : deeds'[e] = deeds[e]
  BY <1>2 DEF Do, DoFails, FeedTypes
<1>4. ReaderInv(reader', log', Told', deeds') /\ (~ up' => reader' = Away)
  <2>1. IsFiniteSet(Told) /\ Told \subseteq Deed
    BY <1>2, ToldFinite DEF FeedTypes, Told, ToldIn
  <2>2. \A e \in Told : deeds'[e].ts = deeds[e].ts
    BY <1>2, <1>3, <2>1
  <2>3. ReaderInv(reader, log, Told, deeds')
    BY <2>1, <2>2, ReaderStays DEF FeedInv
  <2>4. QED
    BY <1>1, <2>3 DEF FeedInv
<1>5. CASE Do(d)
  <2> DEFINE pc == IF d \in Awaits /\ log # "null" THEN "recording" ELSE "over"
  <2>1. /\ deeds' = [deeds EXCEPT ![d] = [pc |-> pc, ts |-> time]] /\ time' = time + 1
        /\ appending' = IF log = "null" \/ d \in Awaits THEN appending ELSE appending \cup {d}
        /\ faults' = faults
    BY <1>5 DEF Do
  <2>2. pc \in Stages /\ time \in Nat
    BY <1>2 DEF Stages, FeedTypes
  <2>3. deeds'[d].pc = pc /\ deeds'[d].ts = time
    BY <1>2, <2>1 DEF FeedTypes
  <2>4. FeedTypes'
    BY <1>1, <1>2, <2>1, <2>2 DEF FeedTypes
  <2>5. Stamped'
    <3>1. ASSUME NEW e \in Deed, deeds'[e].pc \in {"recording", "over", "cut"}
          PROVE  deeds'[e].ts < time'
      <4>1. CASE e = d
        BY <2>1, <2>2, <2>3, <4>1
      <4>2. CASE e # d
        <5>1. deeds[e].ts < time /\ deeds[e].ts \in Nat
          BY <1>2, <1>3, <3>1, <4>2 DEF Stamped, FeedTypes
        <5>2. QED
          BY <1>3, <2>1, <2>2, <4>2, <5>1
      <4>3. QED
        BY <4>1, <4>2
    <3>2. ASSUME NEW e \in Deed, e # d, deeds'[e].pc \in {"recording", "over", "cut"}
          PROVE  deeds'[e].ts # deeds'[d].ts
      <4>1. deeds[e].ts < time /\ deeds[e].ts \in Nat
        BY <1>2, <1>3, <3>2 DEF Stamped, FeedTypes
      <4>2. QED
        BY <1>3, <2>2, <2>3, <3>2, <4>1
    <3>3. ASSUME NEW e \in Deed \ {d}, NEW f \in Deed \ {d}, deeds'[e].ts = deeds'[f].ts,
                 {deeds'[e].pc, deeds'[f].pc} \subseteq {"recording", "over", "cut"}
          PROVE  e = f
      BY <1>2, <1>3, <3>3 DEF Stamped
    <3>4. QED
      BY <3>1, <3>2, <3>3 DEF Stamped
  <2>6. Recorded'
    <3>1. \A e \in Told' : deeds'[e].pc = "over"
      <4>1. Told \subseteq Deed
        BY <1>2, ToldFinite DEF FeedTypes, Told, ToldIn
      <4>2. QED
        BY <1>1, <1>2, <1>3, <4>1 DEF Recorded
    <3>2. Distinct(feed')
      BY <1>1, <1>2 DEF Recorded
    <3>3. \A e \in appending' : deeds'[e].pc = "over" /\ e \notin Told' /\ e \notin Awaits
      <4>1. TAKE e \in appending'
      <4>2. CASE e = d
        BY <1>1, <1>2, <2>1, <2>3, <4>2
      <4>3. CASE e # d
        BY <1>1, <1>2, <1>3, <2>1, <4>3 DEF Recorded, FeedTypes
      <4>4. QED
        BY <4>2, <4>3
    <3>4. \A e \in Deed : deeds'[e].pc = "recording" => e \notin Told' /\ e \in Awaits
      BY <1>1, <1>2, <1>3, <2>3 DEF Recorded
    <3>5. log' = "null" =>
            appending' = {} /\ Told' = {} /\ \A e \in Deed : deeds'[e].pc # "recording"
      BY <1>1, <1>2, <1>3, <2>1, <2>3 DEF Recorded
    <3>6. QED
      BY <3>1, <3>2, <3>3, <3>4, <3>5 DEF Recorded
  <2>7. OperatorIsTold'
    <3>1. ASSUME NEW e \in Awaits, deeds'[e].pc = "over", log' = "falkor", faults' = 0
          PROVE  e \in Told'
      <4>1. e # d /\ e \in Deed
        BY <1>1, <2>3, <3>1, FeedAssumption
      <4>2. QED
        BY <1>1, <1>2, <1>3, <2>1, <3>1, <4>1 DEF OperatorIsTold
    <3>2. QED
      BY <3>1 DEF OperatorIsTold
  <2>8. QED
    BY <1>4, <2>4, <2>5, <2>6, <2>7 DEF FeedInv
<1>6. CASE DoFails(d)
  <2>1. /\ deeds' = [deeds EXCEPT ![d].pc = "failed"] /\ faults' = faults + 1
        /\ UNCHANGED <<time, appending>>
    BY <1>6 DEF DoFails, Fault
  <2>2. deeds'[d].pc = "failed"
    BY <1>2, <2>1 DEF FeedTypes
  <2>3. FeedTypes'
    BY <1>1, <1>2, <2>1 DEF FeedTypes, Stages
  <2>4. Stamped'
    BY <1>2, <1>3, <2>1, <2>2 DEF Stamped
  <2>5. Recorded'
    <3>1. Told \subseteq Deed
      BY <1>2, ToldFinite DEF FeedTypes, Told, ToldIn
    <3>2. QED
      BY <1>1, <1>2, <1>3, <2>1, <2>2, <3>1 DEF Recorded, FeedTypes
  <2>6. OperatorIsTold'
    BY <1>2, <2>1 DEF OperatorIsTold, FeedTypes
  <2>7. QED
    BY <1>4, <2>3, <2>4, <2>5, <2>6 DEF FeedInv
<1>7. QED
  BY <1>5, <1>6

\* Who has awaited an append is over after it, and nobody else changes.
LEMMA AppendStep ==
    ASSUME FeedTypes, Recorded, NEW d \in Deed, AppendEnds(d)
    PROVE  /\ up /\ d \notin Told /\ log # "null"
           /\ deeds' \in [Deed -> [pc : Stages, ts : Nat]]
           /\ deeds'[d].pc = "over" /\ \A e \in Deed : deeds'[e].ts = deeds[e].ts
           /\ \A e \in Deed \ {d} : deeds'[e] = deeds[e]
           /\ deeds[d].pc \in {"recording", "over"}
           /\ appending' \subseteq appending \ {d}
<1>1. CASE d \in appending /\ appending' = appending \ {d} /\ UNCHANGED deeds
  BY <1>1 DEF AppendEnds, FeedTypes, Recorded
<1>2. CASE deeds[d].pc = "recording" /\ Over(d) /\ UNCHANGED appending
  <2>1. deeds' = [deeds EXCEPT ![d].pc = "over"]
    BY <1>2 DEF Over
  <2>2. d \notin appending /\ d \notin Told /\ log # "null"
    BY <1>2 DEF Recorded
  <2>3. QED
    BY <1>2, <2>1, <2>2 DEF AppendEnds, FeedTypes, Stages
<1>3. QED
  BY <1>1, <1>2 DEF AppendEnds

\* An append that ends, well or not.
LEMMA RecordingKept ==
    ASSUME FeedInv, NEW d \in Deed, Record(d) \/ RecordFails(d)
    PROVE  FeedInv'
<1>1. /\ AppendEnds(d) /\ UNCHANGED <<log, time, up>>
      /\ FeedTypes /\ Stamped /\ Recorded /\ OperatorIsTold
  BY DEF Record, RecordFails, FeedInv
<1>2. /\ up /\ d \notin Told /\ log # "null"
      /\ deeds' \in [Deed -> [pc : Stages, ts : Nat]]
      /\ deeds'[d].pc = "over" /\ \A e \in Deed : deeds'[e].ts = deeds[e].ts
      /\ \A e \in Deed \ {d} : deeds'[e] = deeds[e]
      /\ deeds[d].pc \in {"recording", "over"}
      /\ appending' \subseteq appending \ {d}
  BY <1>1, AppendStep
<1>3. Stamped'
  <2>1. \A e \in Deed : deeds'[e].pc \in {"recording", "over", "cut"}
                          => deeds[e].pc \in {"recording", "over", "cut"}
    BY <1>2
  <2>2. QED
    BY <1>1, <1>2, <2>1 DEF Stamped
<1>4. Told \subseteq Deed /\ IsFiniteSet(Told)
  BY <1>1, ToldFinite DEF FeedTypes, Told, ToldIn
<1>5. ASSUME feed' \in Seq(Deed), Distinct(feed'), Told' \subseteq Told \cup {d},
             log = "falkor" /\ faults' = 0 => Told' = Told \cup {d} /\ faults = 0,
             faults' \in Nat, ReaderInv(reader', log, Told', deeds')
      PROVE  FeedInv'
  <2>1. FeedTypes'
    BY <1>1, <1>2, <1>5 DEF FeedTypes
  <2>2. Recorded'
    <3>1. \A e \in Told' : deeds'[e].pc = "over"
      BY <1>1, <1>2, <1>4, <1>5 DEF Recorded
    <3>2. \A e \in appending' : deeds'[e].pc = "over" /\ e \notin Told' /\ e \notin Awaits
      <4>1. \A e \in appending' : e \in appending /\ e # d /\ e \in Deed
        BY <1>1, <1>2 DEF FeedTypes
      <4>2. QED
        BY <1>1, <1>2, <1>5, <4>1 DEF Recorded
    <3>3. \A e \in Deed : deeds'[e].pc = "recording" => e \notin Told' /\ e \in Awaits
      BY <1>1, <1>2, <1>5 DEF Recorded
    <3>4. QED
      BY <1>1, <1>2, <1>5, <3>1, <3>2, <3>3 DEF Recorded
  <2>3. OperatorIsTold'
    <3>1. ASSUME NEW e \in Awaits, deeds'[e].pc = "over", log' = "falkor", faults' = 0
          PROVE  e \in Told'
      <4>1. Told' = Told \cup {d} /\ faults = 0 /\ e \in Deed
        BY <1>1, <1>5, <3>1, FeedAssumption
      <4>2. CASE e = d
        BY <4>1, <4>2
      <4>3. CASE e # d
        BY <1>1, <1>2, <3>1, <4>1, <4>3 DEF OperatorIsTold
      <4>4. QED
        BY <4>2, <4>3
    <3>2. QED
      BY <3>1 DEF OperatorIsTold
  <2>4. QED
    BY <1>1, <1>2, <1>3, <1>5, <2>1, <2>2, <2>3 DEF FeedInv
<1>6. \A e \in Told : deeds'[e].ts = deeds[e].ts
  BY <1>2, <1>4
<1>7. ReaderInv(reader, log, Told, deeds)
  BY DEF FeedInv
<1>8. CASE Record(d)
  <2>1. /\ feed' = Appended(d) /\ faults' = faults
        /\ reader' = IF Len(feed') = Len(feed) THEN [reader EXCEPT !.wanted = {}] ELSE reader
    BY <1>8 DEF Record
  <2>2. Told' = ToldIn(feed')
    BY DEF Told, ToldIn
  <2>3. /\ feed' \in Seq(Deed) /\ Distinct(feed') /\ Told' \subseteq Told \cup {d}
        /\ Len(feed') # Len(feed) => Told' = Told \cup {d}
        /\ log # "memory" => Len(feed') # Len(feed)
    BY <1>1, <1>2, <2>1, <2>2, FeedGrows DEF FeedTypes, Recorded
  <2>4. ReaderInv(reader', log, Told', deeds')
    <3>1. CASE Len(feed') # Len(feed)
      <4>1. Told' = Told \cup {d} /\ reader' = reader
        BY <2>1, <2>3, <3>1
      <4>2. Told \subseteq Told' /\ IsFiniteSet(Told')
        BY <1>4, <4>1, FS_AddElement
      <4>3. QED
        BY <1>6, <1>7, <4>1, <4>2, ReaderStays
    <3>2. CASE Len(feed') = Len(feed)
      <4>1. reader' = [reader EXCEPT !.wanted = {}] /\ DOMAIN reader = DOMAIN Away
        BY <1>7, <2>1, <3>2 DEF ReaderInv
      <4>2. /\ DOMAIN reader' = DOMAIN Away /\ reader'.pc = reader.pc /\ reader'.wanted = {}
            /\ reader'.offset = reader.offset
        BY <4>1 DEF Away
      <4>3. QED
        BY <1>7, <4>2 DEF ReaderInv
    <3>3. QED
      BY <3>1, <3>2
  <2>5. QED
    BY <1>1, <1>5, <2>1, <2>3, <2>4 DEF FeedTypes
<1>9. CASE RecordFails(d)
  <2>1. /\ feed' = feed /\ faults' = faults + 1 /\ reader' = reader /\ Told' = Told
    BY <1>9 DEF RecordFails, Fault, Told
  <2>2. ReaderInv(reader', log, Told', deeds')
    BY <1>4, <1>6, <1>7, <2>1, ReaderStays
  <2>3. faults' \in Nat /\ faults' # 0
    BY <1>1, <2>1 DEF FeedTypes
  <2>4. QED
    BY <1>1, <1>5, <2>1, <2>2, <2>3 DEF FeedTypes, Recorded
<1>10. QED
  BY <1>8, <1>9

\* The process ends and starts again: nothing is under way and nobody reads.
LEMMA ProcessKept ==
    ASSUME FeedInv, Stop \/ Start
    PROVE  FeedInv'
<1>1. /\ UNCHANGED <<log, time, faults>> /\ reader' = Away
      /\ FeedTypes /\ Stamped /\ Recorded /\ OperatorIsTold
  BY DEF Stop, Start, FeedInv
<1>2. ReaderInv(reader', log', Told', deeds')
  BY <1>1, AwayStays
<1>3. Told \subseteq Deed
  BY <1>1, ToldFinite DEF FeedTypes, Told, ToldIn
<1>4. CASE Stop
  <2>1. /\ appending' = {} /\ feed' = feed /\ Told' = Told
        /\ deeds' = [d \in Deed |-> IF deeds[d].pc = "recording" THEN [deeds[d] EXCEPT !.pc = "cut"]
                                    ELSE deeds[d]]
    BY <1>4 DEF Stop, Told
  <2>2. \A d \in Deed : /\ deeds'[d].ts = deeds[d].ts
                        /\ deeds'[d].pc = IF deeds[d].pc = "recording" THEN "cut" ELSE deeds[d].pc
    BY <1>1, <2>1 DEF FeedTypes
  <2>3. FeedTypes'
    BY <1>1, <2>1 DEF FeedTypes, Stages
  <2>4. Stamped'
    <3>1. \A d \in Deed : deeds'[d].pc \in {"recording", "over", "cut"}
                            => deeds[d].pc \in {"recording", "over", "cut"}
      BY <2>2
    <3>2. QED
      BY <1>1, <2>2, <3>1 DEF Stamped
  <2>5. Recorded'
    BY <1>1, <1>3, <2>1, <2>2 DEF Recorded
  <2>6. OperatorIsTold'
    BY <1>1, <2>1, <2>2, FeedAssumption DEF OperatorIsTold
  <2>7. QED
    BY <1>1, <1>2, <2>3, <2>4, <2>5, <2>6 DEF FeedInv
<1>5. CASE Start
  <2>1. /\ UNCHANGED <<deeds, appending>> /\ up' = TRUE
        /\ feed' = IF log = "falkor" THEN feed ELSE <<>>
    BY <1>5 DEF Start
  <2>2. /\ log = "falkor" => Told' = Told
        /\ Told' \subseteq Told /\ Distinct(feed') /\ feed' \in Seq(Deed)
    BY <1>1, <2>1 DEF Told, Distinct, FeedTypes, Recorded
  <2>3. FeedTypes' /\ Stamped'
    BY <1>1, <2>1, <2>2 DEF FeedTypes, Stamped
  <2>4. Recorded'
    BY <1>1, <2>1, <2>2 DEF Recorded
  <2>5. OperatorIsTold'
    BY <1>1, <2>1, <2>2 DEF OperatorIsTold
  <2>6. QED
    BY <1>1, <1>2, <2>1, <2>3, <2>4, <2>5 DEF FeedInv
<1>6. QED
  BY <1>4, <1>5

\* A page that is read.
LEMMA PageKept ==
    ASSUME FeedInv, ReadPage
    PROVE  ReaderInv(reader', log, Told, deeds)
<1> DEFINE q == reader.query
           M == MatchedIn(Told, q)
           rows == PageAt(q, reader.offset)
           pc == IF Cardinality(rows) < PageSize THEN "read" ELSE "reading"
<1>1. /\ reader.pc = "reading" /\ ReaderInv(reader, log, Told, deeds)
      /\ reader' = [reader EXCEPT !.seen = @ \cup rows, !.offset = @ + PageSize, !.pc = pc]
      /\ FeedTypes /\ Stamped /\ Recorded
  BY DEF ReadPage, FeedInv
<1> HIDE DEF rows
<1>2. /\ DOMAIN reader' = DOMAIN Away /\ reader'.pc = pc /\ reader'.query = q
      /\ reader'.wanted = reader.wanted /\ reader'.seen = reader.seen \cup rows
      /\ reader'.offset = reader.offset + PageSize
  <2>1. DOMAIN reader = DOMAIN Away
    BY <1>1 DEF ReaderInv
  <2> HIDE DEF pc
  <2>2. QED
    BY <1>1, <2>1 DEF Away
<1>3. /\ reader.offset \in Nat /\ reader'.offset \in Nat /\ reader.wanted \subseteq M
      /\ pc \in {"read", "reading"}
  BY <1>1, <1>2, FeedAssumption DEF ReaderInv
<1>4. M \subseteq Told /\ IsFiniteSet(M) /\ M \subseteq Deed
  <2>1. M \subseteq Told
    BY DEF MatchedIn
  <2>2. QED
    BY <1>1, <2>1, ToldFinite, FS_Subset DEF FeedTypes, Told, ToldIn
<1>5. /\ \A d \in M : deeds[d].ts \in Nat
      /\ \A d, e \in M : deeds[d].ts = deeds[e].ts => d = e
  <2>1. \A d \in M : deeds[d].pc = "over"
    BY <1>1, <1>4 DEF Recorded
  <2>2. QED
    BY <1>1, <1>4, <2>1 DEF Stamped, FeedTypes
<1>6. ASSUME PagesWhole(log, q), M # {}
      PROVE  rows = Slice(M, reader.offset)
  <2>1. log # "null"
    BY <1>1, <1>4, <1>6 DEF Recorded
  <2>2. CASE log = "memory"
    BY <2>2 DEF rows, PageAt, MemoryPage, MatchedIn
  <2>3. CASE log = "falkor"
    <3>1. q.ref = "any"
      BY <1>6, <2>3 DEF PagesWhole
    <3>2. \A d : Touching(q, d) = TRUE
      BY <3>1 DEF Touching
    <3>3. M = {d \in Told : KindMatches(q, d)}
      BY <3>2 DEF MatchedIn, Matches
    <3>4. rows = {d \in Slice({e \in Told : KindMatches(q, e)}, reader.offset) : Touching(q, d)}
      BY <2>3 DEF rows, PageAt, FalkorPage
    <3>5. QED
      BY <3>2, <3>3, <3>4
  <2>4. QED
    BY <1>1, <2>1, <2>2, <2>3 DEF FeedTypes
<1>7. ASSUME PagesWhole(log, q), NEW d \in reader.wanted \ reader'.seen
      PROVE  pc = "reading" /\ reader'.offset <= Cardinality(NewerThan(deeds, M, d))
  <2>1. d \in M /\ d \notin rows /\ rows = Slice(M, reader.offset)
    BY <1>2, <1>3, <1>6, <1>7
  <2>2. reader.offset <= Cardinality(NewerThan(deeds, M, d))
    BY <1>1, <1>2, <1>7 DEF ReaderInv
  <2> HIDE DEF M
  <2>3. /\ reader.offset + PageSize <= Cardinality(NewerThan(deeds, M, d))
        /\ ~ (Cardinality(Slice(M, reader.offset)) < PageSize)
    BY <1>3, <1>4, <1>5, <2>1, <2>2, ShortPageIsLast
  <2>4. QED
    BY <1>2, <2>1, <2>3
<1> HIDE DEF pc
<1>8. QED
  BY <1>2, <1>3, <1>7 DEF ReaderInv

\* However deeds, late and failing appends, restarts and pages interleave, the feed tells
\* each thing once and only what was done; what an operator did is told before the request
\* is answered; and a reader to the last page misses nothing he was owed (src/mnemozine/
\* activity/log.py, WEBUI_PRD.md Q3).
THEOREM FeedHolds == FeedSpec => []FeedIsReliable
<1>1. FeedInv /\ [FeedNext]_feedVars => FeedInv'
  <2>1. SUFFICES ASSUME FeedInv, [FeedNext]_feedVars
                 PROVE  FeedInv'
    OBVIOUS
  <2>2. CASE UNCHANGED feedVars
    BY <2>1, <2>2 DEF feedVars, FeedInv, FeedTypes, Stamped, Recorded, OperatorIsTold, Told
  <2>3. ASSUME UNCHANGED <<log, time, deeds, feed, appending, up, faults>>, up,
               ReaderInv(reader', log, Told, deeds)
        PROVE  FeedInv'
    BY <2>1, <2>3 DEF FeedInv, FeedTypes, Stamped, Recorded, OperatorIsTold, Told
  <2>4. CASE ReadPage
    BY <2>1, <2>3, <2>4, PageKept DEF ReadPage
  <2>5. CASE StartReading
    <3>1. PICK q \in Queries :
            reader' = [pc |-> "reading", query |-> q, offset |-> 0, seen |-> {},
                       wanted |-> {d \in Told : Matches(q, d)}]
      BY <2>5 DEF StartReading
    <3> DEFINE M == MatchedIn(Told, q)
    <3>2. reader' = [pc |-> "reading", query |-> q, offset |-> 0, seen |-> {}, wanted |-> M]
      BY <3>1 DEF MatchedIn
    <3>3. \A d \in M : Cardinality(NewerThan(deeds, M, d)) \in Nat
      <4>1. IsFiniteSet(M)
        BY <2>1, ToldFinite, FS_Subset DEF FeedInv, FeedTypes, Told, ToldIn, MatchedIn
      <4> HIDE DEF M
      <4>2. QED
        BY <4>1, FS_Subset, FS_CardinalityType DEF NewerThan
    <3> HIDE DEF M
    <3>4. ReaderInv(reader', log, Told, deeds)
      BY <3>2, <3>3 DEF ReaderInv, Away, M
    <3>5. QED
      BY <2>3, <2>5, <3>4 DEF StartReading
  <2>6. CASE CloseScreen
    <3>1. reader' = Away /\ reader # Away
      BY <2>6 DEF CloseScreen, Away
    <3>2. up
      BY <2>1, <2>6, <3>1 DEF FeedInv
    <3>3. QED
      BY <2>1, <2>3, <2>6, <3>1, <3>2, AwayStays DEF CloseScreen
  <2>7. QED
    BY <2>1, <2>2, <2>4, <2>5, <2>6, DoingKept, RecordingKept, ProcessKept DEF FeedNext, DeedStep
<1>2. FeedInv => FeedIsReliable
  BY DEF FeedInv, FeedIsReliable, FeedIsTrue, Recorded, Distinct, PagesMissNothing, ReaderInv,
     PagesWhole
<1>3. QED
  BY <1>1, <1>2, FeedStart, PTL DEF FeedSpec

-----------------------------------------------------------------------------
(* The labelling page *)

Answers == [state : {"none", "asked", "read"}, choices : [Candidate -> Choice]]
LabelCalls == [n : Nat, verb : {"label"}, candidate : Candidate, choice : Choice, taken : BOOLEAN]
FinishCalls == [n : Nat, verb : {"finish"}, taken : BOOLEAN]

LabelTypes ==
    /\ queue \in [Candidate -> Choice] /\ page \in [Candidate -> Choice]
    /\ calls \subseteq LabelCalls \cup FinishCalls
    /\ fetch \in Answers
    /\ choices \in Nat /\ blind \in BOOLEAN
    /\ chosen \in [Candidate -> SUBSET Choice]
    /\ agreed \in [known : BOOLEAN, shown : [Candidate -> Choice], folded : BOOLEAN]

\* A page or a reading is up to date unless a taken request will have it read again.
PageCatchesUp ==
    ~blind /\ (\A call \in calls : ~call.taken)
        => /\ fetch.state = "none" => page = queue
           /\ fetch.state = "read" => fetch.choices = queue

\* From a finish pressed with nothing under way on, only that finish is, and the queue
\* stays what the page showed until it is folded.
Agreement ==
    agreed.known =>
        /\ \A call, other \in calls : call = other /\ call.verb = "finish"
        /\ ~agreed.folded => agreed.shown = queue
        /\ agreed.folded => /\ \A call \in calls : call.taken
                            /\ gold = Folded(agreed.shown)

\* What is queued, under way or folded, an operator has chosen.
ChosenByOperator ==
    /\ \A c \in Candidate : queue[c] \in chosen[c] \cup {"unreviewed"}
    /\ \A call \in calls : call.verb = "label" => call.choice \in chosen[call.candidate]
    /\ DOMAIN gold \subseteq Candidate
    /\ \A c \in DOMAIN gold : gold[c] \in chosen[c]

LabelInv == LabelTypes /\ PageCatchesUp /\ Agreement /\ ChosenByOperator

-----------------------------------------------------------------------------
\* Every queue folds to a gold set of its candidates (candidates_to_gold_set).
LEMMA FoldedGold ==
    ASSUME NEW labels
    PROVE  /\ DOMAIN Folded(labels) \subseteq Candidate
           /\ \A c \in DOMAIN Folded(labels) :
                labels[c] \in MemoryType /\ Folded(labels)[c] = labels[c]
  BY DEF Folded

\* Before anything is labelled the page, the queue and the gold set are empty.
LEMMA LabelStart == LabelInit => LabelInv
  <1> SUFFICES ASSUME LabelInit PROVE LabelInv
    OBVIOUS
  <1> USE DEF LabelInit
  <1>1. LabelTypes
    BY DEF LabelTypes, Unreviewed, NoFetch, Unknown, Choice, Answers
  <1>2. PageCatchesUp
    BY DEF PageCatchesUp, NoFetch
  <1>3. Agreement
    BY DEF Agreement, Unknown
  <1>4. ChosenByOperator
    BY DEF ChosenByOperator, Unreviewed
  <1>5. QED
    BY <1>1, <1>2, <1>3, <1>4 DEF LabelInv

\* Taking a request (label_candidate, finish_bootstrap) only marks it as taken.
LEMMA TakenCall ==
    ASSUME LabelTypes, NEW call \in calls, Take(call)
    PROVE  /\ calls' \subseteq LabelCalls \cup FinishCalls
           /\ \E other \in calls' : other.taken
           /\ \A other \in calls' \ calls :
                /\ other.taken /\ other.verb = call.verb
                /\ other.verb = "label" =>
                     other.choice = call.choice /\ other.candidate = call.candidate
           /\ \A other \in calls' : other \in calls \/ other.taken
           /\ ~call.taken
           /\ (\A other \in calls : other = call) => \A a, b \in calls' : a = b /\ a.taken
  <1> DEFINE done == [call EXCEPT !.taken = TRUE]
  <1>1. calls' = (calls \ {call}) \cup {done} /\ ~call.taken
    BY DEF Take
  <1>2. CASE call \in LabelCalls
    <2>1. done \in LabelCalls /\ done.taken /\ done.verb = call.verb /\ done # call
          /\ done.choice = call.choice /\ done.candidate = call.candidate
      BY <1>1, <1>2 DEF LabelCalls
    <2>2. QED
      BY <1>1, <2>1 DEF LabelTypes
  <1>3. CASE call \in FinishCalls
    <2>1. done \in FinishCalls /\ done.taken /\ done.verb = "finish" /\ call.verb = "finish" /\ done # call
      BY <1>1, <1>3 DEF FinishCalls
    <2>2. QED
      BY <1>1, <2>1 DEF LabelTypes
  <1>4. QED
    BY <1>2, <1>3 DEF LabelTypes

-----------------------------------------------------------------------------
\* A choice (applyChoice) adds a request that is chosen and not yet taken.
LEMMA ChooseKeeps ==
    ASSUME LabelInv, NEW c \in Candidate, NEW choice \in Choice, Choose(c, choice)
    PROVE  LabelInv'
  <1> USE DEF LabelInv, Choose
  <1> DEFINE new == [n |-> choices, verb |-> "label", candidate |-> c, choice |-> choice, taken |-> FALSE]
  <1>1. new \in LabelCalls /\ ~new.taken
    BY DEF LabelTypes, LabelCalls
  <1>2. LabelTypes'
    <2>1. calls' \subseteq LabelCalls \cup FinishCalls
      BY <1>1 DEF LabelTypes
    <2>2. chosen' \in [Candidate -> SUBSET Choice]
      BY DEF LabelTypes
    <2>3. agreed' \in [known : BOOLEAN, shown : [Candidate -> Choice], folded : BOOLEAN]
      BY DEF Unknown, Unreviewed, Choice
    <2>4. QED
      BY <2>1, <2>2, <2>3 DEF LabelTypes
  <1>3. PageCatchesUp'
    BY <1>1 DEF PageCatchesUp
  <1>4. Agreement'
    BY DEF Agreement, Unknown
  <1>5. ChosenByOperator'
    <2>1. \A d \in Candidate : chosen[d] \subseteq chosen'[d]
      BY DEF LabelTypes
    <2>2. choice \in chosen'[c]
      BY DEF LabelTypes
    <2>3. \A call \in calls' : call.verb = "label" => call.choice \in chosen'[call.candidate]
      <3> SUFFICES ASSUME NEW call \in calls', call.verb = "label"
                   PROVE  call.choice \in chosen'[call.candidate]
        OBVIOUS
      <3>1. CASE call = new
        BY <2>2, <3>1
      <3>2. CASE call \in calls
        <4>1. call.candidate \in Candidate
          BY <3>2 DEF LabelTypes, LabelCalls, FinishCalls
        <4>2. QED
          BY <2>1, <3>2, <4>1 DEF ChosenByOperator
      <3>3. QED
        BY <3>1, <3>2
    <2>4. QED
      BY <2>1, <2>3 DEF ChosenByOperator
  <1>6. QED
    BY <1>2, <1>3, <1>4, <1>5

\* Finish is pressed (the page): with nothing under way, what is shown is the queue.
LEMMA FinishKeeps == ASSUME LabelInv, FinishLabelling PROVE LabelInv'
  <1> USE DEF LabelInv, FinishLabelling
  <1> DEFINE new == [n |-> choices, verb |-> "finish", taken |-> FALSE]
  <1>1. new \in FinishCalls /\ ~new.taken
    BY DEF LabelTypes, FinishCalls
  <1>2. LabelTypes'
    BY <1>1 DEF LabelTypes, Unknown, Unreviewed, Choice
  <1>3. PageCatchesUp'
    BY <1>1 DEF PageCatchesUp
  <1>4. Agreement'
    <2>1. CASE Quiet
      BY <1>1, <2>1 DEF Quiet, Agreement, PageCatchesUp
    <2>2. CASE ~Quiet
      BY <2>2 DEF Agreement, Unknown
    <2>3. QED
      BY <2>1, <2>2
  <1>5. ChosenByOperator'
    BY <1>1 DEF ChosenByOperator
  <1>6. QED
    BY <1>2, <1>3, <1>4, <1>5

\* An answer (onSuccess) has the queue read again.
LEMMA AnsweredKeeps == ASSUME LabelInv, NEW call \in calls, Answered(call) PROVE LabelInv'
  <1> USE DEF LabelInv, Answered
  <1>1. LabelTypes'
    BY DEF LabelTypes, Invalidated, Asked, Unreviewed, Choice, Answers
  <1>2. PageCatchesUp'
    BY DEF PageCatchesUp, Invalidated, Asked
  <1>3. Agreement' /\ ChosenByOperator'
    BY DEF Agreement, ChosenByOperator
  <1>4. QED
    BY <1>1, <1>2, <1>3

\* A refetch is under way.
LEMMA RefetchKeeps == ASSUME LabelInv, Refetch PROVE LabelInv'
  <1> USE DEF LabelInv, Refetch
  <1>1. LabelTypes'
    BY DEF LabelTypes, Asked, Unreviewed, Choice, Answers
  <1>2. PageCatchesUp'
    BY DEF PageCatchesUp, Asked
  <1>3. Agreement' /\ ChosenByOperator'
    BY DEF Agreement, ChosenByOperator
  <1>4. QED
    BY <1>1, <1>2, <1>3

\* A reading is shown.
LEMMA ShowKeeps == ASSUME LabelInv, Show PROVE LabelInv'
  <1> USE DEF LabelInv, Show
  <1>1. LabelTypes'
    BY DEF LabelTypes, NoFetch, Unreviewed, Choice, Answers
  <1>2. PageCatchesUp'
    BY DEF PageCatchesUp, NoFetch
  <1>3. Agreement' /\ ChosenByOperator'
    BY DEF Agreement, ChosenByOperator
  <1>4. QED
    BY <1>1, <1>2, <1>3

\* The queue is read (bootstrap_candidates).
LEMMA ReadQueueKeeps == ASSUME LabelInv, ReadQueue PROVE LabelInv'
  <1> USE DEF LabelInv, ReadQueue
  <1>1. LabelTypes'
    BY DEF LabelTypes, Answers
  <1>2. PageCatchesUp'
    BY DEF PageCatchesUp
  <1>3. Agreement' /\ ChosenByOperator'
    BY DEF Agreement, ChosenByOperator
  <1>4. QED
    BY <1>1, <1>2, <1>3

\* A label is taken (label_candidate): it changes the queue, and is under way as taken.
LEMMA TakeLabelKeeps == ASSUME LabelInv, NEW call \in calls, TakeLabel(call) PROVE LabelInv'
  <1> USE DEF LabelInv, TakeLabel
  <1>1. /\ calls' \subseteq LabelCalls \cup FinishCalls
        /\ \E other \in calls' : other.taken
        /\ \A other \in calls' \ calls :
             other.verb = "label" => other.choice = call.choice /\ other.candidate = call.candidate
    BY TakenCall
  <1>2. call.candidate \in Candidate /\ call.choice \in Choice
    BY DEF LabelTypes, LabelCalls, FinishCalls
  <1>3. LabelTypes'
    BY <1>1, <1>2 DEF LabelTypes
  <1>4. PageCatchesUp'
    BY <1>1 DEF PageCatchesUp
  <1>5. Agreement'
    BY DEF Agreement
  <1>6. ChosenByOperator'
    BY <1>1, <1>2 DEF ChosenByOperator, LabelTypes
  <1>7. QED
    BY <1>3, <1>4, <1>5, <1>6

\* A finish is taken (finish_bootstrap), and the file written or not.
LEMMA TakeFinishKeeps ==
    ASSUME LabelInv, NEW call \in calls, TakeFinish(call) \/ TakeFinishUnsaved(call)
    PROVE  LabelInv'
  <1> USE DEF LabelInv
  <1>1. /\ calls' \subseteq LabelCalls \cup FinishCalls
        /\ \E other \in calls' : other.taken
        /\ \A other \in calls' \ calls :
             other.verb = call.verb
             /\ (other.verb = "label" => other.choice = call.choice /\ other.candidate = call.candidate)
        /\ ~call.taken /\ call.verb = "finish"
        /\ (\A other \in calls : other = call) => \A a, b \in calls' : a = b /\ a.taken
    BY TakenCall DEF TakeFinish, TakeFinishUnsaved
  <1>2. LabelTypes'
    <2>1. agreed' \in [known : BOOLEAN, shown : [Candidate -> Choice], folded : BOOLEAN]
      <3>1. CASE TakeFinish(call)
        BY <3>1 DEF LabelTypes, TakeFinish
      <3>2. CASE TakeFinishUnsaved(call)
        BY <3>2 DEF TakeFinishUnsaved, Unknown, Unreviewed, Choice
      <3>3. QED
        BY <3>1, <3>2
    <2>2. /\ queue' = queue /\ page' = page /\ fetch' = fetch /\ choices' = choices
          /\ blind' = blind /\ chosen' = chosen
      BY DEF TakeFinish, TakeFinishUnsaved
    <2>3. QED
      BY <1>1, <2>1, <2>2 DEF LabelTypes
  <1>3. PageCatchesUp'
    BY <1>1 DEF PageCatchesUp
  <1>4. ChosenByOperator'
    <2>1. \A other \in calls' : other.verb = "label" => other \in calls
      BY <1>1
    <2>2. queue' = queue /\ chosen' = chosen
      BY DEF TakeFinish, TakeFinishUnsaved
    <2>3. CASE TakeFinishUnsaved(call)
      BY <2>1, <2>2, <2>3 DEF ChosenByOperator, TakeFinishUnsaved
    <2>4. CASE TakeFinish(call)
      <3>1. gold' = Folded(queue)
        BY <2>4 DEF TakeFinish
      <3>2. DOMAIN gold' \subseteq Candidate /\ \A c \in DOMAIN gold' : gold'[c] \in chosen'[c]
        BY <2>2, <3>1, FoldedGold, LabelAssumption DEF ChosenByOperator
      <3>3. QED
        BY <2>1, <2>2, <3>2 DEF ChosenByOperator
    <2>5. QED
      BY <2>3, <2>4
  <1>5. Agreement'
    <2>1. CASE TakeFinishUnsaved(call)
      BY <2>1 DEF Agreement, TakeFinishUnsaved, Unknown
    <2>2. CASE TakeFinish(call)
      <3> SUFFICES ASSUME agreed.known
                   PROVE  /\ \A a, b \in calls' : a = b /\ a.verb = "finish" /\ a.taken
                          /\ gold' = Folded(agreed.shown)
        BY <2>2 DEF Agreement, TakeFinish, LabelTypes
      <3>1. ~agreed.folded /\ agreed.shown = queue /\ \A other \in calls : other = call
        BY <1>1 DEF Agreement, LabelTypes
      <3>2. gold' = Folded(agreed.shown)
        BY <2>2, <3>1 DEF TakeFinish
      <3>3. QED
        BY <1>1, <3>2 DEF Agreement
    <2>3. QED
      BY <2>1, <2>2
  <1>6. QED
    BY <1>2, <1>3, <1>4, <1>5

\* The web process restarts, and the page is blind until it has read the queue again.
LEMMA RestartKeeps == ASSUME LabelInv, Restart PROVE LabelInv'
  <1> USE DEF LabelInv, Restart
  <1>1. LabelTypes'
    BY DEF LabelTypes, Asked, Unknown, Unreviewed, Choice, Answers
  <1>2. PageCatchesUp'
    BY DEF PageCatchesUp
  <1>3. Agreement'
    BY DEF Agreement, Unknown
  <1>4. ChosenByOperator'
    BY DEF ChosenByOperator, Unreviewed
  <1>5. QED
    BY <1>1, <1>2, <1>3, <1>4

-----------------------------------------------------------------------------
\* A page with nothing under way shows the queue of the web process, a gold set folded
\* from such a page is what it showed, and nothing is in it but as the operator chose
\* (the label and finish routes, and the page that drives them).
THEOREM GoldStaysTheOperators == LabelSpec => []GoldIsTheOperators
  <1>1. LabelInit => LabelInv
    BY LabelStart
  <1>2. LabelInv /\ [LabelNext]_labelVars => LabelInv'
    <2> SUFFICES ASSUME LabelInv, [LabelNext]_labelVars PROVE LabelInv'
      OBVIOUS
    <2>1. ASSUME NEW c \in Candidate, NEW choice \in Choice, Choose(c, choice) PROVE LabelInv'
      BY <2>1, ChooseKeeps
    <2>2. CASE FinishLabelling
      BY <2>2, FinishKeeps
    <2>3. ASSUME NEW call \in calls, Answered(call) PROVE LabelInv'
      BY <2>3, AnsweredKeeps
    <2>4. ASSUME NEW call \in calls, TakeLabel(call) PROVE LabelInv'
      BY <2>4, TakeLabelKeeps
    <2>5. ASSUME NEW call \in calls, TakeFinish(call) \/ TakeFinishUnsaved(call) PROVE LabelInv'
      BY <2>5, TakeFinishKeeps
    <2>6. CASE Refetch \/ Show \/ ReadQueue \/ Restart
      BY <2>6, RefetchKeeps, ShowKeeps, ReadQueueKeeps, RestartKeeps
    <2>7. CASE UNCHANGED labelVars
      BY <2>7 DEF labelVars, LabelInv, LabelTypes, PageCatchesUp, Agreement, ChosenByOperator
    <2>8. QED
      BY <2>1, <2>2, <2>3, <2>4, <2>5, <2>6, <2>7 DEF LabelNext
  <1>3. LabelInv => GoldIsTheOperators
    BY DEF LabelInv, PageCatchesUp, Agreement, ChosenByOperator, GoldIsTheOperators, Quiet
  <1>4. QED
    BY <1>1, <1>2, <1>3, PTL DEF LabelSpec

=============================================================================
