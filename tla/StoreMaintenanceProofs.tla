------------------------ MODULE StoreMaintenanceProofs ------------------------
(***************************************************************************)
(* Theorems about the jobs that rewrite memories.                          *)
(*                                                                         *)
(* StoreMaintenance: the jobs that rewrite the memory store while any      *)
(* number of writers, and the operator, go on writing to it.  They rest on *)
(* what MemoryStoreProofs shows of one step of a write; each step of a job *)
(* is then shown to be either a write that begins or a step that sets one  *)
(* field of one memory.                                                    *)
(*                                                                         *)
(* Relabelling: the jobs that rewrite the tags, each from a listing that   *)
(* grows stale.  What a listing may write back is shown to be as good as   *)
(* what was there (HomeInv, KeptInv); and a merge of categories, whose     *)
(* targets are chosen by counts that it changes, to end with the ones that *)
(* were canonical when it was listed (MergeInv).                           *)
(***************************************************************************)
EXTENDS StoreMaintenance, Relabelling, MemoryStoreProofs, FiniteOrders

-----------------------------------------------------------------------------
(* The invariant *)

\* The types of the jobs' variables.  The job that is under way runs in one of
\* the writers.
JobTypes ==
    /\ conPc \in {"idle", "cluster", "synthesize", "upsert", "archive"}
    /\ conPc # "idle" => Consolidator \in Writers
    /\ listed \subseteq Listing /\ IsFiniteSet(listed)
    /\ cluster \subseteq Listing /\ IsFiniteSet(cluster)
    /\ redundant \in [Dedupers -> SUBSET Ids]

\* The unit a write answers with is in the scope it wrote to, and a write that is
\* done has one.
ResultInScope ==
    \A w \in Writers :
        /\ current[w] # None => mem[current[w]].scope = stmt[w].scope
        /\ pc[w] = "done" => current[w] # None

\* A cluster is within one scope, and the theme written for it in the same one.
ClusterInScope ==
    /\ conPc = "synthesize" => cluster # {} /\ \A l, k \in cluster :
                                    mem[l.id].scope = mem[k.id].scope
    /\ conPc \in {"upsert", "archive"} => \A l \in cluster :
                                    mem[l.id].scope = stmt[Consolidator].scope
    /\ conPc = "archive" => pc[Consolidator] = "done"

\* What a duplicate pass is about to close has a copy.
RedundantHaveCopies ==
    \A d \in Dedupers : \A i \in redundant[d] : \E j \in Ids \ {i} : SameKey(i, j)

\* The part of the invariant that needs nothing of the duplicate passes.
JobInv ==
    /\ WriterInv
    /\ JobTypes
    /\ ResultInScope
    /\ ClusterInScope

MaintenanceInv ==
    /\ JobInv
    /\ RedundantHaveCopies
    /\ ClosedHasHeir

\* Only global memories are superseded.
SupersedesGlobalOnly ==
    \A w \in Writers : \A i \in todo[w] : mem[i].scope = GlobalScope

\* A project fact that a duplicate pass is about to close has an open copy that
\* the pass keeps.
ProjectCopiesKept ==
    \A d \in Dedupers : \A i \in redundant[d] :
        mem[i].scope # GlobalScope =>
            \E k \in Active \ redundant[d] : SameKey(i, k)

FactsInv ==
    /\ JobInv
    /\ SupersedesGlobalOnly
    /\ ProjectCopiesKept
    /\ ProjectFactsAreNeverForgotten

-----------------------------------------------------------------------------
(* What every step leaves in place *)

\* Kept memories keep their scopes and their keys, and listings stay listings.
LEMMA KeysKept ==
    ASSUME Kept
    PROVE  /\ Ids \subseteq Ids'
           /\ Listing \subseteq Listing'
           /\ \A i \in Ids : mem'[i].scope = mem[i].scope
           /\ \A i, j \in Ids : SameKey(i, j) => SameKey(i, j)'
<1>1. Ids \subseteq Ids' /\ \A i \in Ids : mem'[i].scope = mem[i].scope
                                       /\ mem'[i].content = mem[i].content
  BY DEF Kept, Ids
<1>2. Listing \subseteq Listing'
  BY <1>1 DEF Listing
<1>3. QED
  BY <1>1, <1>2 DEF SameKey

\* A write's queries leave its statement alone, and the other writers; a write
\* that is done takes no further step.
LEMMA WriteStepLocal ==
    ASSUME WriterInv, NEW w \in Writers, WriteStep(w)
    PROVE  /\ stmt' = stmt /\ pc[w] \notin {"idle", "done"}
           /\ \A u \in Writers \ {w} : pc'[u] = pc[u] /\ current'[u] = current[u]
                                      /\ todo'[u] = todo[u]
BY DEF WriterInv, TypeOK, WriteStep, ReadCandidates, JudgeContradictions,
       CloseSuperseded, Insert, Reinforce, FailWrite, Writing

\* Whatever a write answers with is in the scope it wrote to.
LEMMA WriteStepResult ==
    ASSUME WriterInv, ResultInScope, NEW w \in Writers, WriteStep(w)
    PROVE  ResultInScope'
<1>0. TypeOK /\ mem \in Seq(Unit) /\ Kept
  BY WriteKeeps DEF WriterInv, TypeOK
<1>1. \A i \in Ids : mem'[i].scope = mem[i].scope
  BY <1>0, KeysKept
<1>2. \A u \in Writers : current[u] # None => current[u] \in Ids
  BY <1>0 DEF TypeOK
<1>3. \A u \in Writers \ {w} :
         /\ current'[u] # None => mem'[current'[u]].scope = stmt'[u].scope
         /\ pc'[u] = "done" => current'[u] # None
  BY <1>1, <1>2, WriteStepLocal DEF ResultInScope
<1>4. stmt'[w] = stmt[w]
  BY WriteStepLocal
<1>5. /\ current'[w] # None => mem'[current'[w]].scope = stmt[w].scope
      /\ pc'[w] = "done" => current'[w] # None
  <2>1. CASE ReadCandidates(w)
    <3>1. PICK C \in CandidateSets(stmt[w]) :
            /\ pc' = [pc EXCEPT ![w] = "reinforce"] \/ pc' = [pc EXCEPT ![w] = "contradicts"]
            /\ \/ \E i \in EquivalentIn(C, stmt[w]) \cup StrongerIn(C, stmt[w]) :
                     current' = [current EXCEPT ![w] = i]
               \/ UNCHANGED current
      BY <2>1 DEF ReadCandidates
    <3>2. \A i \in C : i \in Ids /\ mem[i].scope = stmt[w].scope
      BY CandidatesAreActive DEF Related
    <3>3. pc'[w] # "done"
      BY <1>0, <3>1 DEF TypeOK
    <3>4. \/ \E i \in C : current'[w] = i
          \/ current'[w] = current[w]
      BY <1>0, <3>1 DEF TypeOK, EquivalentIn, StrongerIn
    <3>5. QED
      BY <1>1, <1>2, <3>2, <3>3, <3>4 DEF ResultInScope
  <2>2. CASE JudgeContradictions(w) \/ CloseSuperseded(w)
    <3>1. current' = current /\ (pc'[w] = "done" => current[w] # None)
      BY <1>0, <2>2 DEF JudgeContradictions, CloseSuperseded, TypeOK
    <3>2. QED
      BY <1>1, <1>2, <3>1 DEF ResultInScope
  <2>3. CASE Insert(w)
    <3>1. InsertUnit(stmt[w]) /\ current'[w] = Len(mem) + 1 /\ stmt[w] \in Statement
      BY <1>0, <2>3 DEF Insert, TypeOK
    <3>2. mem'[Len(mem) + 1] = NewUnit(stmt[w])
      BY <1>0, <3>1, InsertEffect
    <3>3. Len(mem) + 1 \in Nat
      BY <1>0
    <3>4. QED
      BY <3>1, <3>2, <3>3, StoreAssumption DEF NewUnit
  <2>4. CASE Reinforce(w)
    <3>1. current' = current /\ current[w] \in Ids
      BY <2>4 DEF Reinforce, WriterInv, ReinforceReady
    <3>2. Ids \subseteq Nat
      BY <1>0 DEF Ids
    <3>3. QED
      BY <1>1, <3>1, <3>2, StoreAssumption DEF ResultInScope
  <2>5. CASE FailWrite(w)
    BY <1>0, <2>5 DEF FailWrite, TypeOK
  <2>6. QED
    BY <2>1, <2>2, <2>3, <2>4, <2>5 DEF WriteStep
<1>6. QED
  BY <1>3, <1>4, <1>5 DEF ResultInScope

\* A write that begins has no answer yet.
LEMMA BeginResult ==
    ASSUME WriterInv, ResultInScope, NEW w \in Writers, NEW s \in Statement,
           BeginWrite(w, s)
    PROVE  ResultInScope'
<1>1. current'[w] = None /\ pc'[w] = "candidates"
  BY DEF BeginWrite, WriterInv, TypeOK
<1>2. /\ mem' = mem
      /\ \A u \in Writers \ {w} : pc'[u] = pc[u] /\ stmt'[u] = stmt[u] /\ current'[u] = current[u]
  BY BeginKeeps
<1>3. QED
  BY <1>1, <1>2 DEF ResultInScope

\* Setting a field of a memory disturbs nothing the writers and the jobs rely on.
LEMMA SetKeepsJobs ==
    ASSUME JobInv, mem' \in Seq(Unit), Ids' = Ids, Kept,
           UNCHANGED <<writerVars, orphaned>>
    PROVE  WriterInv' /\ ResultInScope'
<1>1. WriterInv'
  BY OthersKeep DEF JobInv
<1>2. \A u \in Writers : current[u] # None => current[u] \in Ids
  BY DEF JobInv, WriterInv, TypeOK
<1>3. ResultInScope'
  BY <1>2, KeysKept DEF JobInv, ResultInScope, writerVars
<1>4. QED
  BY <1>1, <1>3

-----------------------------------------------------------------------------
(* The theme of a cluster *)

\* A finite set that is not empty has a member of the highest confidence: the one
\* that the fewest others surpass.
LEMMA HighestExists ==
    ASSUME NEW C, IsFiniteSet(C), C # {}, \A l \in C : l.confidence \in Nat
    PROVE  \E l \in C : \A k \in C : k.confidence <= l.confidence
<1> DEFINE Above(l) == {k \in C : k.confidence > l.confidence}
           F == {Above(l) : l \in C}
<1>1. F \subseteq FiniteSubsetsOf(C) /\ F # {}
  <2>1. FiniteSubsetsOf(C) = SUBSET C
    BY FS_FiniteSubsetsOfFinite
  <2>2. \A l \in C : Above(l) \subseteq C
    OBVIOUS
  <2>3. F # {}
    <3>1. PICK l \in C : TRUE
      OBVIOUS
    <3>2. Above(l) \in F
      OBVIOUS
    <3>3. QED
      BY <3>2
  <2>4. F \subseteq SUBSET C
    BY <2>2
  <2>5. QED
    BY <2>1, <2>3, <2>4
<1>2. IsWellFoundedOn(StrictSubsetOrdering(C), FiniteSubsetsOf(C))
  BY FS_StrictSubsetOrderingWellFounded
<1>3. PICK x \in F : \A y \in F : <<y, x>> \notin StrictSubsetOrdering(C)
  BY <1>1, <1>2, WFMin
<1>4. PICK l \in C : x = Above(l)
  OBVIOUS
<1>5. ASSUME NEW k \in C, ~(k.confidence <= l.confidence)
      PROVE  FALSE
  <2>1. k.confidence > l.confidence
    BY <1>5
  <2>2. Above(k) \subseteq Above(l) /\ k \in Above(l) /\ k \notin Above(k)
    BY <2>1
  <2>3. <<Above(k), Above(l)>> \in StrictSubsetOrdering(C)
    BY <2>2 DEF StrictSubsetOrdering
  <2>4. QED
    BY <1>3, <1>4, <2>3
<1>6. QED
  BY <1>5

\* The theme is a statement like any other, in the scope of the cluster.
LEMMA ThemeIsStatement ==
    ASSUME TypeOK, NEW C, C \subseteq Listing, IsFiniteSet(C), C # {},
           NEW text \in Content
    PROVE  /\ Theme(C, text) \in Statement
           /\ \E l \in C : Theme(C, text).scope = mem[l.id].scope
<1> DEFINE seed == CHOOSE i \in IdsOf(C) : TRUE
           top == CHOOSE l \in C : \A k \in C : k.confidence <= l.confidence
           es == UNION {mem[i].entities : i \in IdsOf(C)}
<1>1. IdsOf(C) # {} /\ IdsOf(C) \subseteq Ids
  BY DEF IdsOf, Listing
<1>2. seed \in IdsOf(C)
  BY <1>1
<1>3. \A i \in Ids : mem[i] \in Unit
  BY DEF TypeOK, Ids
<1>4. \A i \in Ids : mem[i].scope \in Scope /\ mem[i].category \in Category
                    /\ mem[i].entities \subseteq Entity
  BY <1>3 DEF Unit
<1>5. \A l \in C : l.confidence \in Confidence /\ l.confidence \in Nat
  BY StoreAssumption DEF Listing
<1>6. \E l \in C : \A k \in C : k.confidence <= l.confidence
  BY <1>5, HighestExists
<1>7. top \in C
  BY <1>6
<1>8. es \subseteq Entity
  BY <1>1, <1>4
<1>9. Theme(C, text) = [content |-> text, scope |-> mem[seed].scope, entities |-> es,
                        category |-> mem[seed].category, confidence |-> top.confidence]
  BY DEF Theme
<1> HIDE DEF seed, top, es
<1>10. Theme(C, text) \in Statement
  BY <1>1, <1>2, <1>4, <1>5, <1>7, <1>8, <1>9 DEF Statement
<1>11. QED
  BY <1>2, <1>9, <1>10 DEF IdsOf

-----------------------------------------------------------------------------
(* The steps of the writers, the operator and the jobs *)

\* A step of a write leaves the jobs' part of the invariant as it is.
LEMMA WriterKeepsJobs ==
    ASSUME JobInv, WriterStep
    PROVE  /\ JobInv' /\ Kept
           /\ \A j \in Ids : mem'[j].active => mem[j].active
<1>0. /\ WriterInv /\ JobTypes /\ ResultInScope /\ ClusterInScope
      /\ UNCHANGED <<conPc, listed, cluster, redundant>>
  BY DEF JobInv, WriterStep, consolidationVars
<1>1. PICK w \in Writers :
        \/ w # Consolidator /\ \E s \in Extracted : BeginWrite(w, s)
        \/ WriteStep(w)
  BY DEF WriterStep
<1>2. CASE w # Consolidator /\ \E s \in Extracted : BeginWrite(w, s)
  <2>1. PICK s \in Statement : BeginWrite(w, s)
    BY <1>2, StoreAssumption
  <2>2. WriterInv' /\ ResultInScope'
    BY <1>0, <2>1, BeginKeeps, BeginResult
  <2>3. /\ mem' = mem
        /\ Consolidator \in Writers => stmt'[Consolidator] = stmt[Consolidator]
                                     /\ pc'[Consolidator] = pc[Consolidator]
    BY <1>0, <1>2, <2>1, BeginKeeps
  <2>4. JobTypes'
    BY <1>0, <2>3 DEF JobTypes, Listing, Ids
  <2>5. ClusterInScope'
    BY <1>0, <2>3 DEF ClusterInScope, JobTypes
  <2>6. QED
    BY <2>2, <2>3, <2>4, <2>5 DEF JobInv, Kept, Ids
<1>3. CASE WriteStep(w)
  <2>1. /\ WriterInv' /\ Kept /\ ResultInScope'
        /\ \A j \in Ids : mem'[j].active => mem[j].active
    BY <1>0, <1>3, WriteKeeps, WriteStepResult
  <2>2. /\ Ids \subseteq Ids' /\ Listing \subseteq Listing'
        /\ \A i \in Ids : mem'[i].scope = mem[i].scope
    BY <2>1, KeysKept
  <2>3. /\ stmt' = stmt
        /\ pc[Consolidator] = "done" /\ Consolidator \in Writers
              => pc'[Consolidator] = "done"
    BY <1>0, <1>3, WriteStepLocal
  <2>4. JobTypes'
    BY <1>0, <2>2 DEF JobTypes
  <2>5. \A l \in cluster : mem'[l.id].scope = mem[l.id].scope
    BY <1>0, <2>2 DEF JobTypes, Listing
  <2>6. ClusterInScope'
    BY <1>0, <2>3, <2>5 DEF ClusterInScope, JobTypes
  <2>7. QED
    BY <2>1, <2>4, <2>6 DEF JobInv
<1>4. QED
  BY <1>1, <1>2, <1>3

\* A step that sets a field of a memory, of the operator or of a job, leaves the
\* consolidation's scopes as they are.
LEMMA SetKeepsCluster ==
    ASSUME JobInv, Ids' = Ids, Kept, UNCHANGED <<writerVars, conPc, cluster>>
    PROVE  ClusterInScope'
<1>1. \A l \in cluster : mem'[l.id].scope = mem[l.id].scope
  BY KeysKept DEF JobInv, JobTypes, Listing
<1>2. QED
  BY <1>1 DEF JobInv, ClusterInScope, writerVars

\* The list of a consolidation, and its step from cluster to cluster.
LEMMA ClusteringKeepsJobs ==
    ASSUME JobInv, ListForConsolidation \/ NextCluster
    PROVE  JobInv'
<1>1. mem' = mem /\ UNCHANGED <<writerVars, orphaned, redundant>>
  BY DEF ListForConsolidation, NextCluster, storeVars
<1>2. WriterInv' /\ ResultInScope'
  <2>1. mem' \in Seq(Unit) /\ Ids' = Ids /\ Kept
    BY <1>1 DEF JobInv, WriterInv, TypeOK, Kept, Ids
  <2>2. QED
    BY <1>1, <2>1, SetKeepsJobs
<1>3. JobTypes /\ ClusterInScope /\ Ids' = Ids /\ Listing' = Listing
  BY <1>1 DEF JobInv, Ids, Listing
<1>4. CASE ListForConsolidation
  <2>1. ActiveHot \subseteq Ids /\ IsFiniteSet(ActiveHot)
    <3>1. Ids = 1 .. Len(mem) /\ Len(mem) \in Nat
      BY DEF JobInv, WriterInv, TypeOK, Ids
    <3>2. IsFiniteSet(Ids)
      BY <3>1, FS_Interval
    <3>3. ActiveHot \in SUBSET Ids
      BY DEF ActiveHot, Active
    <3>4. QED
      BY <3>2, <3>3, FS_Subset
  <2>2. listed' \subseteq Listing
    <3>1. \A i \in Ids : mem[i] \in Unit
      BY DEF JobInv, WriterInv, TypeOK, Ids
    <3>2. \A i \in Ids : Listed(i) \in Listing
      BY <3>1 DEF Listed, Listing, Unit
    <3>3. QED
      BY <1>4, <2>1, <3>2 DEF ListForConsolidation
  <2>3. IsFiniteSet(listed')
    <3> DEFINE f == [i \in ActiveHot |-> Listed(i)]
    <3>1. listed' = {f[i] : i \in ActiveHot}
      BY <1>4 DEF ListForConsolidation
    <3>2. f \in Surjection(ActiveHot, listed')
      BY <3>1 DEF Surjection
    <3>3. QED
      BY <2>1, <3>2, FS_Surjection
  <2>4. JobTypes'
    BY <1>3, <1>4, <2>2, <2>3 DEF JobTypes, ListForConsolidation
  <2>5. ClusterInScope'
    BY <1>4 DEF ListForConsolidation, ClusterInScope
  <2>6. QED
    BY <1>2, <2>4, <2>5 DEF JobInv
<1>5. CASE NextCluster
  <2>1. PICK u \in listed :
          LET C == {u} \cup {v \in listed : Joins(u.id, v.id)} IN
          /\ conPc = "cluster"
          /\ listed' = listed \ C
          /\ \/ conPc' = "synthesize" /\ cluster' = C
             \/ UNCHANGED <<conPc, cluster>>
    BY <1>5 DEF NextCluster
  <2> DEFINE C == {u} \cup {v \in listed : Joins(u.id, v.id)}
  <2>2. C \subseteq listed /\ C # {} /\ listed' \subseteq listed
    BY <2>1
  <2>3. IsFiniteSet(C) /\ IsFiniteSet(listed')
    BY <1>3, <2>2, FS_Subset DEF JobTypes
  <2>4. \A l, k \in C : mem[l.id].scope = mem[k.id].scope
    BY DEF Joins
  <2>5. JobTypes'
    BY <1>1, <1>3, <2>1, <2>2, <2>3 DEF JobTypes
  <2>6. ClusterInScope'
    BY <1>1, <2>1, <2>2, <2>4 DEF ClusterInScope
  <2>7. QED
    BY <1>2, <2>5, <2>6 DEF JobInv
<1>6. QED
  BY <1>4, <1>5

\* The upsert of a theme begins, in the scope of its cluster.
LEMMA SynthesizeKeepsJobs ==
    ASSUME JobInv, Synthesize
    PROVE  JobInv' /\ mem' = mem
<1>0. /\ WriterInv /\ JobTypes /\ ResultInScope /\ ClusterInScope /\ TypeOK
      /\ conPc = "synthesize" /\ conPc' = "upsert" /\ Consolidator \in Writers
      /\ UNCHANGED <<listed, cluster, redundant>>
  BY DEF JobInv, WriterInv, Synthesize, JobTypes
<1>1. PICK text \in Content : BeginWrite(Consolidator, Theme(cluster, text))
  BY DEF Synthesize
<1>2. cluster # {} /\ \A l, k \in cluster : mem[l.id].scope = mem[k.id].scope
  BY <1>0 DEF ClusterInScope
<1>3. /\ Theme(cluster, text) \in Statement
      /\ \E l \in cluster : Theme(cluster, text).scope = mem[l.id].scope
  BY <1>0, <1>2, ThemeIsStatement DEF JobTypes
<1>4. /\ WriterInv' /\ ResultInScope' /\ mem' = mem
      /\ stmt'[Consolidator] = Theme(cluster, text)
  BY <1>0, <1>1, <1>3, BeginKeeps, BeginResult
<1>5. JobTypes'
  BY <1>0, <1>4 DEF JobTypes, Listing, Ids
<1>6. ClusterInScope'
  BY <1>0, <1>2, <1>3, <1>4 DEF ClusterInScope
<1>7. QED
  BY <1>4, <1>5, <1>6 DEF JobInv

\* A consolidation gives a cluster up, goes on to archive it, or ends.
LEMMA ControlKeepsJobs ==
    ASSUME JobInv, SynthesisFails \/ UpsertReturned \/ EndConsolidation
    PROVE  JobInv'
<1>1. UNCHANGED <<storeVars, redundant>>
  BY DEF SynthesisFails, UpsertReturned, EndConsolidation
<1>2. WriterInv' /\ ResultInScope'
  <2>1. mem' \in Seq(Unit) /\ Ids' = Ids /\ Kept
    BY <1>1 DEF JobInv, WriterInv, TypeOK, Kept, Ids, storeVars
  <2>2. QED
    BY <1>1, <2>1, SetKeepsJobs DEF storeVars
<1>3. /\ listed' \in {listed, {}} /\ cluster' \in {cluster, {}}
      /\ conPc # "idle"
      /\ \/ conPc' \in {"idle", "cluster"}
         \/ conPc = "upsert" /\ conPc' = "archive" /\ pc[Consolidator] = "done" /\ cluster' = cluster
  BY DEF SynthesisFails, UpsertReturned, EndConsolidation
<1>4. JobTypes'
  BY <1>1, <1>3, FS_EmptySet DEF JobInv, JobTypes, storeVars, Ids, Listing
<1>5. ClusterInScope'
  BY <1>1, <1>3 DEF JobInv, ClusterInScope, storeVars, writerVars
<1>6. QED
  BY <1>2, <1>4, <1>5 DEF JobInv

\* A source of the cluster in hand is archived.
LEMMA ArchiveKeepsJobs ==
    ASSUME JobInv, ArchiveSource
    PROVE  JobInv' /\ Kept /\ Ids' = Ids /\ \A j \in Ids : mem'[j].active = mem[j].active
<1>0. /\ JobTypes /\ ClusterInScope /\ mem \in Seq(Unit)
      /\ conPc = "archive" /\ conPc' \in {"cluster", "archive"}
      /\ UNCHANGED <<writerVars, orphaned, listed, redundant>>
  BY DEF JobInv, WriterInv, TypeOK, ArchiveSource
<1>1. PICK l \in cluster : Archive(l.id) /\ cluster' = cluster \ {l}
  BY DEF ArchiveSource
<1>2. l.id \in Ids
  BY <1>0 DEF JobTypes, Listing
<1>3. /\ mem' \in Seq(Unit) /\ Ids' = Ids /\ Kept
      /\ \A j \in Ids : mem'[j].active = mem[j].active
  BY <1>0, <1>1, <1>2, SetTierEffect DEF Archive, Ids
<1>4. WriterInv' /\ ResultInScope'
  BY <1>0, <1>3, SetKeepsJobs
<1>5. JobTypes'
  <2>1. IsFiniteSet(cluster') /\ cluster' \subseteq cluster
    BY <1>0, <1>1, FS_Subset DEF JobTypes
  <2>2. QED
    BY <1>0, <1>3, <2>1 DEF JobTypes, Listing
<1>6. ClusterInScope'
  <2>1. \A k \in cluster : mem'[k.id].scope = mem[k.id].scope
    BY <1>0, <1>3, KeysKept DEF JobTypes, Listing
  <2>2. QED
    BY <1>0, <1>1, <2>1 DEF ClusterInScope, writerVars
<1>7. QED
  BY <1>3, <1>4, <1>5, <1>6 DEF JobInv

\* A duplicate pass closes a memory of its list.
LEMMA CloseDuplicateEffect ==
    ASSUME JobInv, NEW d \in Dedupers, NEW k \in redundant[d], CloseWindow(k),
           redundant' = [redundant EXCEPT ![d] = @ \ {k}],
           UNCHANGED <<writerVars, orphaned, consolidationVars>>
    PROVE  /\ JobInv' /\ Kept /\ Ids' = Ids
           /\ \A j \in Ids : mem'[j].active = (mem[j].active /\ j # k)
           /\ redundant'[d] = redundant[d] \ {k}
           /\ \A e \in Dedupers \ {d} : redundant'[e] = redundant[e]
<1>0. JobTypes /\ mem \in Seq(Unit) /\ k \in Ids
  BY DEF JobInv, WriterInv, TypeOK, JobTypes
<1>1. /\ mem' \in Seq(Unit) /\ Ids' = Ids /\ Kept
      /\ \A j \in Ids : mem'[j].active = (mem[j].active /\ j # k)
  BY <1>0, CloseWindowEffect DEF Ids
<1>2. WriterInv' /\ ResultInScope'
  BY <1>1, SetKeepsJobs
<1>3. JobTypes'
  BY <1>0, <1>1 DEF JobTypes, Listing, consolidationVars
<1>4. ClusterInScope'
  BY <1>1, SetKeepsCluster DEF consolidationVars
<1>5. QED
  BY <1>0, <1>1, <1>2, <1>3, <1>4 DEF JobInv, JobTypes

\* The other steps of a duplicate pass only set its list.
LEMMA DedupListKeepsJobs ==
    ASSUME JobInv, NEW d \in Dedupers, ListDuplicates(d) \/ FailDedup(d)
    PROVE  /\ JobInv' /\ UNCHANGED <<storeVars, consolidationVars>>
           /\ \A e \in Dedupers \ {d} : redundant'[e] = redundant[e]
           /\ \/ redundant'[d] = {}
              \/ \E keep \in SUBSET ActiveHot :
                    /\ Survivors(keep, ActiveHot)
                    /\ redundant'[d] = ActiveHot \ keep
<1>0. /\ JobTypes /\ mem \in Seq(Unit)
      /\ UNCHANGED <<storeVars, consolidationVars>>
  BY DEF JobInv, WriterInv, TypeOK, ListDuplicates, FailDedup
<1>1. PICK R \in SUBSET Ids :
        /\ redundant' = [redundant EXCEPT ![d] = R]
        /\ \/ R = {}
           \/ \E keep \in SUBSET ActiveHot :
                 Survivors(keep, ActiveHot) /\ R = ActiveHot \ keep
  <2>1. CASE FailDedup(d)
    BY <2>1 DEF FailDedup
  <2>2. CASE ListDuplicates(d)
    <3>1. PICK keep \in SUBSET ActiveHot :
            /\ Survivors(keep, ActiveHot)
            /\ redundant' = [redundant EXCEPT ![d] = ActiveHot \ keep]
      BY <2>2 DEF ListDuplicates
    <3>2. ActiveHot \ keep \in SUBSET Ids
      BY DEF ActiveHot, Active
    <3>3. QED
      BY <3>1, <3>2
  <2>3. QED
    BY <2>1, <2>2
<1>2. mem' \in Seq(Unit) /\ Ids' = Ids /\ Kept
  BY <1>0 DEF Kept, Ids, storeVars
<1>3. WriterInv' /\ ResultInScope'
  BY <1>0, <1>2, SetKeepsJobs DEF storeVars
<1>4. JobTypes'
  BY <1>0, <1>1, <1>2 DEF JobTypes, Listing, consolidationVars
<1>5. ClusterInScope'
  BY <1>0, <1>2, SetKeepsCluster DEF consolidationVars, storeVars
<1>6. QED
  BY <1>0, <1>1, <1>3, <1>4, <1>5 DEF JobInv, JobTypes

\* The operator's corrections.
LEMMA CorrectionKeepsJobs ==
    ASSUME JobInv, CorrectionStep
    PROVE  /\ JobInv' /\ Kept /\ Ids' = Ids
           /\ \A j \in Ids : mem'[j].active = mem[j].active
<1>1. /\ mem' \in Seq(Unit) /\ Ids' = Ids /\ Kept
      /\ \A j \in Ids : mem'[j].active = mem[j].active
      /\ UNCHANGED <<writerVars, orphaned, conPc, listed, cluster, redundant>>
  BY OperatorEffect DEF JobInv, WriterInv, CorrectionStep, jobVars, consolidationVars
<1>2. WriterInv' /\ ResultInScope'
  BY <1>1, SetKeepsJobs
<1>3. JobTypes'
  BY <1>1 DEF JobInv, JobTypes, Listing
<1>4. ClusterInScope'
  BY <1>1, SetKeepsCluster
<1>5. QED
  BY <1>1, <1>2, <1>3, <1>4 DEF JobInv

\* Every step keeps the jobs' part of the invariant, keeps every memory, and
\* reopens no window.
LEMMA JobKeeps ==
    ASSUME JobInv, [MaintenanceNext]_vars
    PROVE  /\ JobInv' /\ Kept
           /\ \A j \in Ids : mem'[j].active => mem[j].active
<1>1. CASE WriterStep
  BY <1>1, WriterKeepsJobs
<1>2. CASE CorrectionStep
  BY <1>2, CorrectionKeepsJobs
<1>3. CASE Consolidation
  <2>1. CASE ListForConsolidation \/ NextCluster
    BY <2>1, ClusteringKeepsJobs
        DEF ListForConsolidation, NextCluster, storeVars, Kept, Ids
  <2>2. CASE Synthesize
    BY <2>2, SynthesizeKeepsJobs DEF Kept, Ids
  <2>3. CASE SynthesisFails \/ UpsertReturned \/ EndConsolidation
    BY <2>3, ControlKeepsJobs
        DEF SynthesisFails, UpsertReturned, EndConsolidation, storeVars, Kept, Ids
  <2>4. CASE ArchiveSource
    BY <2>4, ArchiveKeepsJobs
  <2>5. QED
    BY <1>3, <2>1, <2>2, <2>3, <2>4 DEF Consolidation
<1>4. CASE Dedup
  <2>1. PICK d \in Dedupers : ListDuplicates(d) \/ CloseDuplicate(d) \/ FailDedup(d)
    BY <1>4 DEF Dedup
  <2>2. CASE ListDuplicates(d) \/ FailDedup(d)
    BY <2>2, DedupListKeepsJobs DEF storeVars, Kept, Ids
  <2>3. CASE CloseDuplicate(d)
    BY <2>3, CloseDuplicateEffect DEF CloseDuplicate
  <2>4. QED
    BY <2>1, <2>2, <2>3
<1>5. CASE UNCHANGED vars
  BY <1>5 DEF vars, storeVars, writerVars, jobVars, consolidationVars, JobInv, WriterInv,
              TypeOK, ReinforceReady, WriteOnSubject, Related, JobTypes, ResultInScope,
              ClusterInScope, Listing, Kept, Ids
<1>6. QED
  BY <1>1, <1>2, <1>3, <1>4, <1>5 DEF MaintenanceNext

\* The initial state.
LEMMA JobInit == MaintenanceInit => JobInv
<1> SUFFICES ASSUME MaintenanceInit PROVE JobInv
  OBVIOUS
<1>1. TypeOK
  BY InitType DEF MaintenanceInit
<1>2. ReinforceReady /\ WriteOnSubject
  BY DEF MaintenanceInit, Init, ReinforceReady, WriteOnSubject
<1>3. JobTypes /\ ClusterInScope
  BY FS_EmptySet DEF MaintenanceInit, JobTypes, ClusterInScope
<1>4. ResultInScope
  BY DEF MaintenanceInit, Init, ResultInScope
<1>5. QED
  BY <1>1, <1>2, <1>3, <1>4 DEF JobInv, WriterInv

-----------------------------------------------------------------------------
(* Scopes and history *)

\* The jobs' part of the invariant holds throughout.
LEMMA JobInvariant == MaintenanceSpec => []JobInv
<1>1. MaintenanceInit => JobInv
  BY JobInit
<1>2. JobInv /\ [MaintenanceNext]_vars => JobInv'
  BY JobKeeps
<1>3. QED
  BY <1>1, <1>2, PTL DEF MaintenanceSpec

\* FR-MNT-2 "We never cross scope boundaries", for any number of writers that
\* interleave with the consolidation: from the upsert of its theme to the archiving
\* of its last source, the theme, the unit the store answered with and every source
\* are in one scope.
THEOREM ConsolidationKeepsScope == MaintenanceSpec => []ConsolidationStaysInScope
<1>1. JobInv => ConsolidationStaysInScope
  <2> SUFFICES ASSUME JobInv, conPc \in {"upsert", "archive"}, NEW l \in cluster
               PROVE  /\ mem[l.id].scope = stmt[Consolidator].scope
                      /\ conPc = "archive" =>
                           mem[current[Consolidator]].scope = mem[l.id].scope
    BY DEF ConsolidationStaysInScope, IdsOf
  <2>1. mem[l.id].scope = stmt[Consolidator].scope
    BY DEF JobInv, ClusterInScope
  <2>2. ASSUME conPc = "archive"
        PROVE  mem[current[Consolidator]].scope = stmt[Consolidator].scope
    BY <2>2 DEF JobInv, ClusterInScope, JobTypes, ResultInScope
  <2>3. QED
    BY <2>1, <2>2
<1>2. QED
  BY <1>1, JobInvariant, PTL

\* FR-STO-1 with the jobs running: neither a consolidation nor a duplicate pass
\* drops or rewrites a memory or brings one back, and they let no writer do so.
THEOREM MaintenanceKeepsHistory == MaintenanceSpec => HistoryIsKept
<1>1. JobInv /\ [MaintenanceNext]_vars
        => [\A i \in Ids :
              /\ i \in DOMAIN mem'
              /\ mem'[i].content = mem[i].content
              /\ mem'[i].scope = mem[i].scope
              /\ mem'[i].active => mem[i].active]_mem
  BY JobKeeps DEF Kept
<1>2. QED
  BY <1>1, JobInvariant, PTL DEF MaintenanceSpec, HistoryIsKept

-----------------------------------------------------------------------------
(* A closed window has its reason *)

\* Why memory i may be closed while the jobs run.
ClosedReason(i) == HasReason(i) \/ \E j \in Ids \ {i} : SameKey(i, j)

\* ClosedHasHeir, in these words.
LEMMA HeirIsReason == ClosedHasHeir <=> \A i \in Ids \ Active : ClosedReason(i)
BY DEF ClosedHasHeir, ClosedReason, HasReason

\* A step that leaves the writers' closes alone takes no reason away.
LEMMA ReasonKept ==
    ASSUME WriterInv, Kept, orphaned' = orphaned,
           \A u \in Writers : pc[u] \in {"close", "insert"} =>
                pc'[u] = pc[u] /\ superseded'[u] = superseded[u],
           NEW i \in Ids, ClosedReason(i)
    PROVE  ClosedReason(i)'
<1>1. /\ Ids \subseteq Ids'
      /\ \A k, j \in Ids : SameSubject(k, j) => SameSubject(k, j)'
      /\ \A k, j \in Ids : SameKey(k, j) => SameKey(k, j)'
  BY SubjectsKept, KeysKept
<1>2. QED
  BY <1>1 DEF ClosedReason, HasReason

\* A write step, of an ingester or of the consolidation's upsert.
LEMMA WriteKeepsHeirs ==
    ASSUME WriterInv, ClosedHasHeir, NEW w \in Writers, WriteStep(w)
    PROVE  ClosedHasHeir'
<1>1. Kept
  BY WriteKeeps
<1>2. ASSUME NEW i \in (Ids \ Active)' PROVE ClosedReason(i)'
  <2>1. CASE HasReason(i)'
    BY <2>1 DEF ClosedReason
  <2>2. CASE i \in Ids \ Active /\ ~HasReason(i)
    <3>1. \E j \in Ids \ {i} : SameKey(i, j)
      BY <2>2, HeirIsReason DEF ClosedReason
    <3>2. QED
      BY <1>1, <2>2, <3>1, KeysKept DEF ClosedReason
  <2>3. QED
    BY <1>1, <2>1, <2>2, WriteStepHeir
<1>3. QED
  BY <1>2 DEF ClosedHasHeir, ClosedReason, HasReason

\* A write that begins.
LEMMA BeginKeepsHeirs ==
    ASSUME WriterInv, ClosedHasHeir, NEW w \in Writers, NEW s \in Statement,
           BeginWrite(w, s)
    PROVE  ClosedHasHeir'
<1>1. /\ UNCHANGED <<mem, superseded, orphaned>> /\ pc[w] \in {"idle", "done"}
      /\ \A u \in Writers \ {w} : pc'[u] = pc[u]
  BY BeginKeeps
<1>2. QED
  BY <1>1 DEF ClosedHasHeir, Ids, Active, SameSubject, SameKey

\* A step that closes no window and leaves the writers alone.
LEMMA OthersKeepHeirs ==
    ASSUME WriterInv, ClosedHasHeir, Kept, Ids' = Ids,
           \A j \in Ids : mem'[j].active = mem[j].active,
           UNCHANGED <<writerVars, orphaned>>
    PROVE  ClosedHasHeir'
<1>1. (Ids \ Active)' = Ids \ Active
  BY DEF Active, Ids
<1>2. pc' = pc /\ superseded' = superseded /\ orphaned' = orphaned
  BY DEF writerVars
<1>3. \A i \in Ids \ Active : ClosedReason(i)'
  BY <1>2, HeirIsReason, ReasonKept
<1>4. QED
  BY <1>1, <1>3 DEF ClosedHasHeir, ClosedReason, HasReason

\* What a pass lists as redundant has a copy that it keeps.
LEMMA ListedHaveCopies ==
    ASSUME NEW keep \in SUBSET ActiveHot, Survivors(keep, ActiveHot),
           NEW i \in ActiveHot \ keep
    PROVE  \E k \in keep : k \in Active /\ k # i /\ SameKey(i, k)
BY DEF Survivors, ActiveHot

\* What the steps do to the lists of the duplicate passes: a list loses members, or
\* is what a new listing finds redundant.
LEMMA DedupLists ==
    ASSUME JobInv, [MaintenanceNext]_vars, NEW d \in Dedupers
    PROVE  \/ redundant'[d] \subseteq redundant[d]
           \/ /\ mem' = mem
              /\ \E keep \in SUBSET ActiveHot :
                    /\ Survivors(keep, ActiveHot)
                    /\ redundant'[d] = ActiveHot \ keep
<1>1. CASE Dedup
  <2>1. PICK e \in Dedupers : ListDuplicates(e) \/ CloseDuplicate(e) \/ FailDedup(e)
    BY <1>1 DEF Dedup
  <2>2. CASE ListDuplicates(e) \/ FailDedup(e)
    BY <2>2, DedupListKeepsJobs DEF storeVars
  <2>3. CASE CloseDuplicate(e)
    BY <2>3, CloseDuplicateEffect DEF CloseDuplicate
  <2>4. QED
    BY <2>1, <2>2, <2>3
<1>2. CASE ~Dedup
  BY <1>2 DEF MaintenanceNext, WriterStep, CorrectionStep, Consolidation,
     ListForConsolidation, NextCluster, Synthesize, SynthesisFails, UpsertReturned,
     ArchiveSource, EndConsolidation, vars, jobVars
<1>3. QED
  BY <1>1, <1>2

\* What a pass is about to close keeps its copy.
LEMMA CopiesStep ==
    ASSUME JobInv, RedundantHaveCopies, [MaintenanceNext]_vars
    PROVE  RedundantHaveCopies'
<1>1. Kept /\ \A d \in Dedupers : redundant[d] \subseteq Ids
  BY JobKeeps DEF JobInv, JobTypes
<1> SUFFICES ASSUME NEW d \in Dedupers, NEW i \in redundant'[d]
             PROVE  \E j \in Ids' \ {i} : SameKey(i, j)'
  BY DEF RedundantHaveCopies
<1>2. CASE i \in redundant[d]
  BY <1>1, <1>2, KeysKept DEF RedundantHaveCopies
<1>3. CASE i \notin redundant[d]
  <2>1. PICK keep \in SUBSET ActiveHot :
          Survivors(keep, ActiveHot) /\ redundant'[d] = ActiveHot \ keep
    BY <1>3, DedupLists
  <2>2. \E k \in keep : k \in Active /\ k # i /\ SameKey(i, k)
    BY <2>1, ListedHaveCopies
  <2>3. QED
    BY <1>1, <2>1, <2>2, KeysKept DEF ActiveHot, Active
<1>4. QED
  BY <1>2, <1>3

\* The reasons survive every step.
LEMMA HeirStep ==
    ASSUME MaintenanceInv, [MaintenanceNext]_vars
    PROVE  ClosedHasHeir'
<1>0. JobInv /\ WriterInv /\ ClosedHasHeir /\ RedundantHaveCopies
  BY DEF MaintenanceInv, JobInv
<1>1. CASE WriterStep
  <2>1. PICK w \in Writers : (\E s \in Extracted : BeginWrite(w, s)) \/ WriteStep(w)
    BY <1>1 DEF WriterStep
  <2>2. QED
    BY <1>0, <2>1, BeginKeepsHeirs, WriteKeepsHeirs, StoreAssumption
<1>2. CASE CorrectionStep
  BY <1>0, <1>2, CorrectionKeepsJobs, OthersKeepHeirs
      DEF CorrectionStep, OperatorStep, OperatorArchive, OperatorPromote
<1>3. CASE Consolidation
  <2>1. CASE Synthesize
    <3>1. PICK text \in Content : BeginWrite(Consolidator, Theme(cluster, text))
      BY <2>1 DEF Synthesize
    <3>2. /\ conPc = "synthesize" /\ cluster # {} /\ Consolidator \in Writers
          /\ cluster \subseteq Listing /\ IsFiniteSet(cluster) /\ TypeOK
      BY <1>0, <2>1 DEF Synthesize, JobInv, JobTypes, ClusterInScope, WriterInv
    <3>3. Theme(cluster, text) \in Statement
      BY <3>2, ThemeIsStatement
    <3>4. QED
      BY <1>0, <3>1, <3>2, <3>3, BeginKeepsHeirs
  <2>2. CASE ArchiveSource
    BY <1>0, <2>2, ArchiveKeepsJobs, OthersKeepHeirs DEF ArchiveSource
  <2>3. CASE ListForConsolidation \/ NextCluster \/ SynthesisFails \/ UpsertReturned
                \/ EndConsolidation
    <3>1. UNCHANGED storeVars
      BY <2>3 DEF ListForConsolidation, NextCluster, SynthesisFails, UpsertReturned,
                  EndConsolidation
    <3>2. QED
      BY <1>0, <3>1, OthersKeepHeirs DEF storeVars, Kept, Ids
  <2>4. QED
    BY <1>3, <2>1, <2>2, <2>3 DEF Consolidation
<1>4. CASE Dedup
  <2>1. PICK d \in Dedupers : ListDuplicates(d) \/ CloseDuplicate(d) \/ FailDedup(d)
    BY <1>4 DEF Dedup
  <2>2. CASE ListDuplicates(d) \/ FailDedup(d)
    BY <1>0, <2>2, DedupListKeepsJobs, OthersKeepHeirs DEF storeVars, Kept, Ids
  <2>3. CASE CloseDuplicate(d)
    <3>1. PICK k \in redundant[d] :
            /\ CloseWindow(k)
            /\ redundant' = [redundant EXCEPT ![d] = @ \ {k}]
            /\ UNCHANGED <<writerVars, orphaned, consolidationVars>>
      BY <2>3 DEF CloseDuplicate
    <3>2. /\ Kept /\ Ids' = Ids
          /\ \A j \in Ids : mem'[j].active = (mem[j].active /\ j # k)
      BY <1>0, <3>1, CloseDuplicateEffect
    <3>3. \A i \in (Ids \ Active)' : i = k \/ i \in Ids \ Active
      BY <3>2 DEF Active, Ids
    <3>4. k \in Ids /\ \E j \in Ids \ {k} : SameKey(k, j)
      BY <1>0 DEF RedundantHaveCopies, JobInv, JobTypes
    <3>5. \A i \in (Ids \ Active)' : i \in Ids /\ ClosedReason(i)
      BY <1>0, <3>3, <3>4, HeirIsReason DEF ClosedReason
    <3>6. pc' = pc /\ superseded' = superseded /\ orphaned' = orphaned
      BY <3>1 DEF writerVars
    <3>7. \A i \in (Ids \ Active)' : ClosedReason(i)'
      BY <1>0, <3>2, <3>5, <3>6, ReasonKept
    <3>8. QED
      BY <3>7 DEF ClosedHasHeir, ClosedReason, HasReason
  <2>4. QED
    BY <2>1, <2>2, <2>3
<1>5. CASE UNCHANGED vars
  BY <1>0, <1>5, OthersKeepHeirs DEF vars, storeVars, Kept, Ids
<1>6. QED
  BY <1>1, <1>2, <1>3, <1>4, <1>5 DEF MaintenanceNext

\* FR-MNT-1 and FR-MNT-2 together: however many writers, consolidations' upserts
\* and duplicate passes interleave, and wherever they fail, a closed window has a
\* later memory on its subject, a copy in the same words, or a write that is about
\* to insert one or has failed.
THEOREM ClosedKeepsHeir == MaintenanceSpec => []ClosedHasHeir
<1>1. MaintenanceInit => MaintenanceInv
  <2> SUFFICES ASSUME MaintenanceInit PROVE MaintenanceInv
    OBVIOUS
  <2>1. RedundantHaveCopies
    BY DEF MaintenanceInit, RedundantHaveCopies
  <2>2. ClosedHasHeir
    BY DEF MaintenanceInit, Init, ClosedHasHeir, Ids
  <2>3. QED
    BY <2>1, <2>2, JobInit DEF MaintenanceInv
<1>2. MaintenanceInv /\ [MaintenanceNext]_vars => MaintenanceInv'
  BY JobKeeps, CopiesStep, HeirStep DEF MaintenanceInv
<1>3. MaintenanceInv => ClosedHasHeir
  BY DEF MaintenanceInv
<1>4. QED
  BY <1>1, <1>2, <1>3, PTL DEF MaintenanceSpec

-----------------------------------------------------------------------------
(* A project's facts *)

\* A write judges global memories only, so these are the ones it can close.
LEMMA SupersedeStep ==
    ASSUME JobInv, SupersedesGlobalOnly, [MaintenanceNext]_vars
    PROVE  SupersedesGlobalOnly'
<1>0. /\ TypeOK /\ Kept
      /\ \A u \in Writers : todo[u] \subseteq Ids
  BY JobKeeps DEF JobInv, WriterInv, TypeOK
<1>1. \A i \in Ids : mem'[i].scope = mem[i].scope
  BY <1>0, KeysKept
<1>2. CASE UNCHANGED todo
  BY <1>0, <1>1, <1>2 DEF SupersedesGlobalOnly
<1>3. ASSUME NEW w \in Writers, WriteStep(w) PROVE SupersedesGlobalOnly'
  <2>1. \A u \in Writers \ {w} : todo'[u] = todo[u]
    BY <1>3, WriteStepLocal DEF JobInv
  <2>2. \A i \in todo'[w] : i \in Ids /\ mem[i].scope = GlobalScope
    <3>1. CASE ReadCandidates(w)
      <4>1. PICK C \in CandidateSets(stmt[w]) :
              UNCHANGED todo \/ todo' = [todo EXCEPT ![w] = PrefCandidates(C)]
        BY <3>1 DEF ReadCandidates
      <4>2. C \subseteq Ids
        BY CandidatesAreActive
      <4>3. todo'[w] = todo[w] \/ todo'[w] = PrefCandidates(C)
        BY <1>0, <4>1 DEF TypeOK
      <4>4. QED
        BY <1>0, <4>2, <4>3 DEF SupersedesGlobalOnly, PrefCandidates
    <3>2. CASE JudgeContradictions(w)
      <4>1. PICK V \in Verdicts(w) : todo' = [todo EXCEPT ![w] = V]
        BY <3>2 DEF JudgeContradictions
      <4>2. V \subseteq todo[w] /\ todo'[w] = V
        BY <1>0, <4>1 DEF Verdicts, Reversed, TypeOK
      <4>3. QED
        BY <1>0, <4>2 DEF SupersedesGlobalOnly
    <3>3. CASE CloseSuperseded(w) \/ Insert(w) \/ Reinforce(w) \/ FailWrite(w)
      <4>1. todo'[w] \subseteq todo[w]
        BY <1>0, <3>3 DEF CloseSuperseded, Insert, Reinforce, FailWrite, TypeOK
      <4>2. QED
        BY <1>0, <4>1 DEF SupersedesGlobalOnly
    <3>4. QED
      BY <1>3, <3>1, <3>2, <3>3 DEF WriteStep
  <2>3. QED
    BY <1>0, <1>1, <2>1, <2>2 DEF SupersedesGlobalOnly
<1>4. CASE ~\E w \in Writers : WriteStep(w)
  <2>1. UNCHANGED todo
    BY <1>4 DEF MaintenanceNext, WriterStep, CorrectionStep, OperatorStep,
       OperatorArchive, OperatorPromote, BeginWrite, Consolidation,
       ListForConsolidation, NextCluster, Synthesize, SynthesisFails,
       UpsertReturned, ArchiveSource, EndConsolidation, Dedup, ListDuplicates,
       CloseDuplicate, FailDedup, vars, storeVars, writerVars
  <2>2. QED
    BY <1>2, <2>1
<1>5. QED
  BY <1>3, <1>4

\* A write closes what it has judged, and what it inserts is open.
LEMMA WriteCloses ==
    ASSUME WriterInv, NEW w \in Writers, WriteStep(w)
    PROVE  /\ \A i \in Ids : mem[i].active => mem'[i].active \/ i \in todo[w]
           /\ \A i \in Ids' \ Ids : mem'[i].active
<1>0. TypeOK /\ mem \in Seq(Unit)
  BY DEF WriterInv, TypeOK
<1>1. CASE ReadCandidates(w) \/ JudgeContradictions(w) \/ Reinforce(w) \/ FailWrite(w)
  BY <1>1, QuietStep
<1>2. CASE CloseSuperseded(w)
  <2>1. PICK k \in todo[w] : CloseWindow(k)
    BY <1>2 DEF CloseSuperseded
  <2>2. k \in Ids
    BY <1>0 DEF TypeOK
  <2>3. Ids' = Ids /\ \A j \in Ids : mem'[j].active = (mem[j].active /\ j # k)
    BY <1>0, <2>1, <2>2, CloseWindowEffect DEF Ids
  <2>4. QED
    BY <2>3
<1>3. CASE Insert(w)
  <2>1. stmt[w] \in Statement /\ InsertUnit(stmt[w])
    BY <1>0, <1>3 DEF Insert, TypeOK
  <2>2. /\ Ids' = Ids \cup {Len(mem) + 1}
        /\ \A j \in Ids : mem'[j] = mem[j]
        /\ mem'[Len(mem) + 1] = NewUnit(stmt[w])
    BY <1>0, <2>1, InsertEffect DEF Ids
  <2>3. NewUnit(stmt[w]).active
    BY DEF NewUnit
  <2>4. QED
    BY <2>2, <2>3
<1>4. QED
  BY <1>1, <1>2, <1>3 DEF WriteStep

\* Only a supersede of a global memory and a duplicate pass close a window.
LEMMA StepCloses ==
    ASSUME JobInv, SupersedesGlobalOnly, [MaintenanceNext]_vars
    PROVE  /\ \A i \in Ids : mem[i].active => \/ mem'[i].active
                                             \/ mem[i].scope = GlobalScope
                                             \/ \E d \in Dedupers : i \in redundant[d]
           /\ \A i \in Ids' \ Ids : mem'[i].active
<1>1. ASSUME NEW w \in Writers, WriteStep(w)
      PROVE  /\ \A i \in Ids : mem[i].active => mem'[i].active \/ mem[i].scope = GlobalScope
             /\ \A i \in Ids' \ Ids : mem'[i].active
  BY <1>1, WriteCloses DEF JobInv, SupersedesGlobalOnly
<1>2. CASE UNCHANGED mem
  BY <1>2 DEF Ids
<1>3. CASE CorrectionStep \/ ArchiveSource
  BY <1>3, CorrectionKeepsJobs, ArchiveKeepsJobs
<1>4. ASSUME NEW d \in Dedupers, CloseDuplicate(d)
      PROVE  /\ Ids' = Ids
             /\ \A i \in Ids : mem[i].active => mem'[i].active \/ i \in redundant[d]
  <2>1. PICK k \in redundant[d] :
          /\ Ids' = Ids
          /\ \A j \in Ids : mem'[j].active = (mem[j].active /\ j # k)
    BY <1>4, CloseDuplicateEffect DEF CloseDuplicate
  <2>2. QED
    BY <2>1
<1>5. CASE /\ ~\E w \in Writers : WriteStep(w)
           /\ ~CorrectionStep /\ ~ArchiveSource
           /\ ~\E d \in Dedupers : CloseDuplicate(d)
  <2>1. UNCHANGED mem
    BY <1>5 DEF MaintenanceNext, WriterStep, BeginWrite, Consolidation,
       ListForConsolidation, NextCluster, Synthesize, SynthesisFails,
       UpsertReturned, EndConsolidation, Dedup, ListDuplicates, FailDedup,
       vars, storeVars
  <2>2. QED
    BY <1>2, <2>1
<1>6. QED
  BY <1>1, <1>3, <1>4, <1>5

\* Goal: a project's facts are merged, never retired.  For any number of writers,
\* with consolidations and the operator at work and with failures anywhere, every
\* text that was ever stored in a project scope is still said by an open memory of
\* that scope, as long as duplicate passes do not overlap.  (The code does not rule
\* an overlap out, and of two passes each may close the copy that the other kept.)
THEOREM ProjectFactsKept ==
    ASSUME \A d, e \in Dedupers : d = e
    PROVE  MaintenanceSpec => []ProjectFactsAreNeverForgotten
<1>1. MaintenanceInit => FactsInv
  <2> SUFFICES ASSUME MaintenanceInit PROVE FactsInv
    OBVIOUS
  <2>1. SupersedesGlobalOnly
    BY DEF MaintenanceInit, Init, SupersedesGlobalOnly
  <2>2. ProjectCopiesKept
    BY DEF MaintenanceInit, ProjectCopiesKept
  <2>3. ProjectFactsAreNeverForgotten
    BY DEF MaintenanceInit, Init, ProjectFactsAreNeverForgotten, Ids
  <2>4. QED
    BY <2>1, <2>2, <2>3, JobInit DEF FactsInv
<1>2. FactsInv /\ [MaintenanceNext]_vars => FactsInv'
  <2> SUFFICES ASSUME FactsInv, [MaintenanceNext]_vars
               PROVE  FactsInv'
    OBVIOUS
  <2>0. /\ JobInv /\ SupersedesGlobalOnly
        /\ \A d \in Dedupers : redundant[d] \subseteq Ids
    BY DEF FactsInv, JobInv, JobTypes
  <2>1. JobInv' /\ Kept /\ SupersedesGlobalOnly'
    BY <2>0, JobKeeps, SupersedeStep
  <2>2. /\ Ids \subseteq Ids'
        /\ \A i \in Ids : mem'[i].scope = mem[i].scope
        /\ \A i, j \in Ids : SameKey(i, j) => SameKey(i, j)'
    BY <2>1, KeysKept
  <2>3. ASSUME NEW d \in Dedupers, NEW k \in Active \ redundant[d],
               mem[k].scope # GlobalScope
        PROVE  k \in Ids /\ k \in Active'
    BY <2>0, <2>2, <2>3, StepCloses DEF Active
  <2>4. ProjectCopiesKept'
    <3> SUFFICES ASSUME NEW d \in Dedupers, NEW i \in redundant'[d],
                        mem'[i].scope # GlobalScope
                 PROVE  \E k \in Active' \ redundant'[d] : SameKey(i, k)'
      BY DEF ProjectCopiesKept
    <3>1. CASE redundant'[d] \subseteq redundant[d]
      <4>1. i \in Ids /\ mem[i].scope # GlobalScope
        BY <2>0, <2>2, <3>1
      <4>2. PICK k \in Active \ redundant[d] : SameKey(i, k)
        BY <3>1, <4>1 DEF FactsInv, ProjectCopiesKept
      <4>3. k \in Ids /\ k \in Active'
        BY <2>3, <4>1, <4>2 DEF SameKey
      <4>4. QED
        BY <2>2, <3>1, <4>1, <4>2, <4>3
    <3>2. CASE ~(redundant'[d] \subseteq redundant[d])
      <4>1. PICK keep \in SUBSET ActiveHot :
              /\ mem' = mem
              /\ Survivors(keep, ActiveHot) /\ redundant'[d] = ActiveHot \ keep
        BY <2>0, <3>2, DedupLists
      <4>2. PICK k \in keep : k \in Active /\ SameKey(i, k)
        BY <4>1, ListedHaveCopies
      <4>3. QED
        BY <4>1, <4>2 DEF Active, Ids, SameKey
    <3>3. QED
      BY <3>1, <3>2
  <2>5. ProjectFactsAreNeverForgotten'
    <3> SUFFICES ASSUME NEW i \in Ids', mem'[i].scope # GlobalScope
                 PROVE  \E j \in Active' : SameKey(i, j)'
      BY DEF ProjectFactsAreNeverForgotten
    <3>1. CASE i \in Ids
      <4>1. PICK j \in Active : SameKey(i, j)
        BY <2>2, <3>1 DEF FactsInv, ProjectFactsAreNeverForgotten
      <4>2. j \in Ids /\ mem[j].scope # GlobalScope
        BY <2>2, <3>1, <4>1 DEF SameKey, Active
      <4>3. CASE j \in Active'
        BY <2>2, <3>1, <4>1, <4>2, <4>3
      <4>4. CASE j \notin Active'
        <5>1. PICK d \in Dedupers : j \in redundant[d]
          BY <2>0, <2>2, <4>1, <4>2, <4>4, StepCloses DEF Active
        <5>2. PICK k \in Active \ redundant[d] : SameKey(j, k)
          BY <4>2, <5>1 DEF FactsInv, ProjectCopiesKept
        <5>3. k \in Ids /\ k \in Active' /\ SameKey(i, k)
          BY <2>3, <4>1, <4>2, <5>2 DEF SameKey
        <5>4. QED
          BY <2>2, <3>1, <5>3
      <4>5. QED
        BY <4>3, <4>4
    <3>2. CASE i \notin Ids
      <4>1. i \in Active'
        BY <2>0, <3>2, StepCloses DEF Active
      <4>2. QED
        BY <4>1 DEF SameKey
    <3>3. QED
      BY <3>1, <3>2
  <2>6. QED
    BY <2>1, <2>4, <2>5 DEF FactsInv
<1>3. FactsInv => ProjectFactsAreNeverForgotten
  BY DEF FactsInv
<1>4. QED
  BY <1>1, <1>2, <1>3, PTL DEF MaintenanceSpec

-----------------------------------------------------------------------------
(* Relabelling: types *)

\* Every memory has its four tags, and the job's list is of its kind.
TagsOK ==
    /\ Known \subseteq Memo
    /\ tags = [m \in Known |-> tags[m]]
    /\ \A m \in Known :
         tags[m] = [scope |-> tags[m].scope, category |-> tags[m].category,
                    seed |-> tags[m].seed, open |-> tags[m].open]
    /\ placed = [m \in Memo |-> placed[m]]
    /\ everybodys \subseteq Known
    /\ task = [kind |-> task.kind, todo |-> task.todo]
    /\ task.kind \in {"none", "reclassify", "rescope", "merge"}
    /\ task.kind = "none" => task.todo = {}
    /\ task.kind \in {"reclassify", "rescope"} => \A item \in task.todo : item.id \in Known

\* The answers that a reclassification may go by.
Said == Answers \cup {Unparsed}

\* The steps, with the two ways in which an answer comes about as one.
LEMMA RelabelCases ==
    ASSUME [RelabelNext]_tagVars
    PROVE  \/ \E m \in Memo : \/ \E answer \in Answers : Extract(m, answer)
                              \/ \E fix \in Corrections : Correct(m, fix)
                              \/ Retire(m)
           \/ ListForReclassify \/ ListGlobals \/ ListCategories \/ EndJob
           \/ \E item \in task.todo : \/ \E answer \in Said : Reclassify(item, answer)
                                      \/ ClassifyFails(item) \/ RescopeOne(item) \/ MergeOne(item)
           \/ UNCHANGED tagVars
  BY DEF RelabelNext, JobStep, ClassifyOne, ClassifyUnparsed, Said

\* A listing begins a job and leaves the rest alone.
LEMMA ListingEffect ==
    ASSUME TagsOK, NEW kind, NEW list, Begin(kind, list)
    PROVE  /\ task'.kind = kind /\ task'.todo = list /\ quiet' = TRUE
           /\ UNCHANGED <<tags, placed, everybodys, corrections>>
  BY DEF Begin

\* An item is crossed off.
LEMMA ItemEffect ==
    ASSUME TagsOK, NEW kind, NEW item, Doing(kind, item), Done(item)
    PROVE  /\ item \in task.todo /\ task.kind = kind
           /\ task' = [kind |-> kind, todo |-> task.todo \ {item}]
           /\ task'.kind = kind /\ task'.todo = task.todo \ {item}
  BY DEF TagsOK, Doing, Done

\* What the writers do to the tags.
LEMMA ExtractEffect ==
    ASSUME TagsOK, NEW m \in Memo, NEW answer, Extract(m, answer)
    PROVE  /\ Known' = Known \cup {m} /\ m \notin Known
           /\ tags' = [k \in Known' |-> tags'[k]]
           /\ \A k \in Known : tags'[k] = tags[k]
           /\ tags'[m] = [scope |-> ScopeFor(answer.decision, ProjectScope(m)),
                          category |-> Slug[answer.label], seed |-> answer.seed, open |-> TRUE]
           /\ Filed(m, tags'[m])
           /\ quiet' = FALSE /\ UNCHANGED <<task, placed>>
<1> DEFINE new == [scope |-> ScopeFor(answer.decision, ProjectScope(m)),
                   category |-> Slug[answer.label], seed |-> answer.seed, open |-> TRUE]
<1>1. /\ m \notin Known /\ tags' = [k \in Known \cup {m} |-> IF k = m THEN new ELSE tags[k]]
      /\ Filed(m, new) /\ quiet' = FALSE /\ UNCHANGED <<task, placed>>
  BY DEF Extract
<1> HIDE DEF new
<1>2. DOMAIN tags' = Known \cup {m} /\ tags'[m] = new
      /\ \A k \in Known : tags'[k] = tags[k]
  BY <1>1
<1>3. QED
  BY <1>1, <1>2 DEF new, Known

LEMMA CorrectEffect ==
    ASSUME TagsOK, NEW m \in Memo, NEW fix, Correct(m, fix)
    PROVE  /\ m \in Known /\ Known' = Known /\ tags' = [k \in Known' |-> tags'[k]]
           /\ \A k \in Known \ {m} : tags'[k] = tags[k]
           /\ tags'[m] = [scope |-> fix.scope, category |-> Slug[fix.label], seed |-> fix.seed,
                          open |-> tags[m].open]
           /\ IF task.kind = "rescope" THEN everybodys' = everybodys \ {m} ELSE Filed(m, tags'[m])
           /\ placed'[m] = placed[m] \cup {fix.scope[k] : k \in DOMAIN fix.scope}
           /\ \A k \in Memo \ {m} : placed'[k] = placed[k]
           /\ placed' = [k \in Memo |-> placed'[k]]
           /\ quiet' = FALSE /\ UNCHANGED task
<1> DEFINE new == [tags[m] EXCEPT !.scope = fix.scope, !.category = Slug[fix.label],
                                  !.seed = fix.seed]
           names == {fix.scope[k] : k \in DOMAIN fix.scope}
<1>1. /\ m \in Known /\ tags' = [tags EXCEPT ![m] = new]
      /\ IF task.kind = "rescope" THEN everybodys' = everybodys \ {m} ELSE Filed(m, new)
      /\ placed' = [placed EXCEPT ![m] = placed[m] \cup names]
      /\ quiet' = FALSE /\ UNCHANGED task
  BY DEF Correct
<1>2. new = [scope |-> fix.scope, category |-> Slug[fix.label], seed |-> fix.seed,
             open |-> tags[m].open]
  <2>1. tags[m] = [scope |-> tags[m].scope, category |-> tags[m].category,
                   seed |-> tags[m].seed, open |-> tags[m].open]
    BY <1>1 DEF TagsOK
  <2> DEFINE s == fix.scope
             c == Slug[fix.label]
             f == fix.seed
  <2>2. new = [tags[m] EXCEPT !.scope = s, !.category = c, !.seed = f]
    OBVIOUS
  <2> HIDE DEF new, s, c, f
  <2>3. new = [scope |-> s, category |-> c, seed |-> f, open |-> tags[m].open]
    BY <2>1, <2>2
  <2>4. QED
    BY <2>3 DEF s, c, f
<1> HIDE DEF new, names
<1>3. DOMAIN tags' = Known /\ tags'[m] = new /\ \A k \in Known \ {m} : tags'[k] = tags[k]
  BY <1>1 DEF TagsOK, Known
<1>4. /\ placed'[m] = placed[m] \cup names /\ \A k \in Memo \ {m} : placed'[k] = placed[k]
      /\ placed' = [k \in Memo |-> placed'[k]]
  <2>1. placed = [k \in Memo |-> placed[k]]
    BY DEF TagsOK
  <2>2. QED
    BY <1>1, <2>1
<1>5. QED
  BY <1>1, <1>2, <1>3, <1>4 DEF names, Known

LEMMA RetireEffect ==
    ASSUME TagsOK, NEW m, Retire(m)
    PROVE  /\ m \in Known /\ Known' = Known /\ tags' = [k \in Known' |-> tags'[k]]
           /\ \A k \in Known \ {m} : tags'[k] = tags[k]
           /\ tags'[m] = [scope |-> tags[m].scope, category |-> tags[m].category,
                          seed |-> tags[m].seed, open |-> FALSE]
           /\ quiet' = FALSE /\ UNCHANGED <<task, placed, everybodys>>
<1>1. /\ m \in Known /\ tags' = [tags EXCEPT ![m].open = FALSE]
      /\ quiet' = FALSE /\ UNCHANGED <<task, placed, everybodys>>
  BY DEF Retire
<1>2. tags[m] = [scope |-> tags[m].scope, category |-> tags[m].category,
                 seed |-> tags[m].seed, open |-> tags[m].open]
  BY <1>1 DEF TagsOK
<1>3. tags = [k \in Known |-> tags[k]]
  BY DEF TagsOK
<1>4. /\ DOMAIN tags' = Known /\ \A k \in Known \ {m} : tags'[k] = tags[k]
      /\ tags' = [k \in Known |-> tags'[k]] /\ tags'[m] = [tags[m] EXCEPT !.open = FALSE]
  BY <1>1, <1>3 DEF Known
<1>5. [tags[m] EXCEPT !.open = FALSE] = [scope |-> tags[m].scope, category |-> tags[m].category,
                                         seed |-> tags[m].seed, open |-> FALSE]
  <2> DEFINE closed == FALSE
  <2> HIDE DEF closed
  <2>1. [tags[m] EXCEPT !.open = closed]
           = [scope |-> tags[m].scope, category |-> tags[m].category,
              seed |-> tags[m].seed, open |-> closed]
    BY <1>2
  <2>2. QED
    BY <2>1 DEF closed
<1>6. QED
  BY <1>1, <1>4, <1>5 DEF Known

\* What the jobs do to them.
LEMMA ReclassifyEffect ==
    ASSUME TagsOK, NEW item, NEW answer, Reclassify(item, answer)
    PROVE  LET i == item.id
               scope == ScopeFor(answer.decision,
                                 IF item.was.scope = <<>> THEN <<>> ELSE <<item.was.scope[1]>>)
           IN  /\ task.kind = "reclassify" /\ item \in task.todo /\ i \in Known
               /\ task' = [kind |-> "reclassify", todo |-> task.todo \ {item}]
               /\ Known' = Known /\ tags' = [k \in Known' |-> tags'[k]]
               /\ \A k \in Known \ {i} : tags'[k] = tags[k]
               /\ tags'[i] = [scope |-> tags'[i].scope, category |-> tags'[i].category,
                              seed |-> tags'[i].seed, open |-> tags[i].open]
               /\ tags'[i].scope \in {scope, tags[i].scope}
               /\ (tags'[i] = tags[i] /\ UNCHANGED everybodys) \/ Filed(i, tags'[i])
               /\ UNCHANGED <<quiet, placed>>
<1> DEFINE i == item.id
           scope == ScopeFor(answer.decision,
                             IF item.was.scope = <<>> THEN <<>> ELSE <<item.was.scope[1]>>)
           new == [tags[i] EXCEPT
                     !.scope = IF scope # item.was.scope THEN scope ELSE @,
                     !.category = IF Slug[answer.label] # item.was.category
                                  THEN Slug[answer.label] ELSE @,
                     !.seed = IF answer.seed # item.was.seed THEN answer.seed ELSE @]
<1>1. /\ task.kind = "reclassify" /\ item \in task.todo
      /\ task' = [kind |-> "reclassify", todo |-> task.todo \ {item}]
  BY ItemEffect DEF Reclassify
<1>2. i \in Known
  BY <1>1 DEF TagsOK
<1>3. /\ tags' = [tags EXCEPT ![i] = new]
      /\ IF new # tags[i] THEN Filed(i, new) ELSE UNCHANGED everybodys
      /\ UNCHANGED <<quiet, placed>>
  BY DEF Reclassify
<1>4. new.scope \in {scope, tags[i].scope} /\ new.open = tags[i].open
      /\ new = [scope |-> new.scope, category |-> new.category, seed |-> new.seed, open |-> new.open]
  <2>1. tags[i] = [scope |-> tags[i].scope, category |-> tags[i].category,
                   seed |-> tags[i].seed, open |-> tags[i].open]
    BY <1>2 DEF TagsOK
  <2> DEFINE s == IF scope # item.was.scope THEN scope ELSE tags[i].scope
             c == IF Slug[answer.label] # item.was.category THEN Slug[answer.label]
                  ELSE tags[i].category
             f == IF answer.seed # item.was.seed THEN answer.seed ELSE tags[i].seed
  <2>2. new = [tags[i] EXCEPT !.scope = s, !.category = c, !.seed = f]
    OBVIOUS
  <2>3. s \in {scope, tags[i].scope}
    OBVIOUS
  <2> HIDE DEF new, scope, s, c, f
  <2>4. new = [scope |-> s, category |-> c, seed |-> f, open |-> tags[i].open]
    BY <2>1, <2>2
  <2>5. QED
    BY <2>3, <2>4
<1> HIDE DEF new, scope
<1>5. /\ DOMAIN tags' = Known /\ tags'[i] = new
      /\ \A k \in Known \ {i} : tags'[k] = tags[k]
      /\ tags' = [k \in Known |-> tags'[k]]
  BY <1>2, <1>3 DEF TagsOK, Known
<1>6. QED
  BY <1>1, <1>2, <1>3, <1>4, <1>5 DEF Known, scope

LEMMA RescopeEffect ==
    ASSUME TagsOK, NEW item, RescopeOne(item)
    PROVE  LET i == item.id
           IN  /\ task.kind = "rescope" /\ item \in task.todo /\ i \in Known
               /\ task' = [kind |-> "rescope", todo |-> task.todo \ {item}]
               /\ Known' = Known /\ tags' = [k \in Known' |-> tags'[k]]
               /\ \A k \in Known \ {i} : tags'[k] = tags[k]
               /\ tags'[i] = [scope |-> tags'[i].scope, category |-> tags[i].category,
                              seed |-> tags[i].seed, open |-> tags[i].open]
               /\ \/ tags'[i].scope = tags[i].scope
                  \/ /\ item.was.category \notin KeepGlobal /\ Transcript[i].place = "projects"
                     /\ tags'[i].scope = <<DerivedScope(Transcript[i], FALSE)[1]>>
               /\ UNCHANGED <<quiet, placed, everybodys>>
<1> DEFINE i == item.id
<1>1. /\ task.kind = "rescope" /\ item \in task.todo
      /\ task' = [kind |-> "rescope", todo |-> task.todo \ {item}]
  BY ItemEffect DEF RescopeOne
<1>2. i \in Known
  BY <1>1 DEF TagsOK
<1>3. UNCHANGED <<quiet, placed, everybodys>>
  BY DEF RescopeOne
<1>4. CASE item.was.category \in KeepGlobal \/ SourceScope(i) = {}
  <2>1. UNCHANGED tags
    BY <1>4 DEF RescopeOne
  <2>2. QED
    BY <1>1, <1>2, <1>3, <2>1 DEF TagsOK, Known
<1>5. CASE ~(item.was.category \in KeepGlobal \/ SourceScope(i) = {})
  <2> DEFINE s == <<DerivedScope(Transcript[i], FALSE)[1]>>
  <2>1. Transcript[i].place = "projects" /\ SourceScope(i) = {s}
    BY <1>5 DEF SourceScope
  <2> HIDE DEF s
  <2>2. tags' = [tags EXCEPT ![i].scope = s]
    BY <1>5, <2>1 DEF RescopeOne
  <2>3. /\ DOMAIN tags' = Known /\ \A k \in Known \ {i} : tags'[k] = tags[k]
        /\ tags' = [k \in Known |-> tags'[k]] /\ tags'[i] = [tags[i] EXCEPT !.scope = s]
    BY <1>2, <2>2 DEF TagsOK, Known
  <2>4. [tags[i] EXCEPT !.scope = s] = [scope |-> s, category |-> tags[i].category,
                                        seed |-> tags[i].seed, open |-> tags[i].open]
    <3>1. tags[i] = [scope |-> tags[i].scope, category |-> tags[i].category,
                     seed |-> tags[i].seed, open |-> tags[i].open]
      BY <1>2 DEF TagsOK
    <3>2. QED
      BY <3>1
  <2>5. QED
    BY <1>1, <1>2, <1>3, <1>5, <2>1, <2>3, <2>4 DEF Known, s
<1>6. QED
  BY <1>4, <1>5

LEMMA MergeEffect ==
    ASSUME TagsOK, NEW pair, MergeOne(pair)
    PROVE  /\ task.kind = "merge" /\ pair \in task.todo
           /\ task' = [kind |-> "merge", todo |-> task.todo \ {pair}]
           /\ Known' = Known /\ tags' = [k \in Known' |-> tags'[k]]
           /\ \A m \in Known :
                tags'[m] = [scope |-> tags[m].scope,
                            category |-> IF tags[m].category = pair[1] THEN pair[2]
                                         ELSE tags[m].category,
                            seed |-> tags[m].seed, open |-> tags[m].open]
           /\ UNCHANGED <<quiet, placed, everybodys>>
<1>1. /\ task.kind = "merge" /\ pair \in task.todo
      /\ task' = [kind |-> "merge", todo |-> task.todo \ {pair}]
  BY ItemEffect DEF MergeOne
<1>2. /\ tags' = [m \in Known |-> IF tags[m].category = pair[1]
                                  THEN [tags[m] EXCEPT !.category = pair[2]] ELSE tags[m]]
      /\ UNCHANGED <<quiet, placed, everybodys>>
  BY DEF MergeOne
<1>3. \A m \in Known : [tags[m] EXCEPT !.category = pair[2]]
                          = [scope |-> tags[m].scope, category |-> pair[2],
                             seed |-> tags[m].seed, open |-> tags[m].open]
  BY DEF TagsOK
<1>4. DOMAIN tags' = Known
  BY <1>2
<1>5. \A m \in Known : tags'[m] = IF tags[m].category = pair[1]
                                  THEN [tags[m] EXCEPT !.category = pair[2]] ELSE tags[m]
  BY <1>2
<1>6. \A m \in Known :
        tags'[m] = [scope |-> tags[m].scope,
                    category |-> IF tags[m].category = pair[1] THEN pair[2] ELSE tags[m].category,
                    seed |-> tags[m].seed, open |-> tags[m].open]
  BY <1>3, <1>5 DEF TagsOK
<1>7. tags' = [k \in DOMAIN tags' |-> tags'[k]]
  BY <1>2
<1>8. QED
  BY <1>1, <1>2, <1>4, <1>6, <1>7 DEF Known

\* The types are kept.
LEMMA TagTypes ==
    ASSUME TagsOK, [RelabelNext]_tagVars
    PROVE  TagsOK'
<1> DEFINE Shape(t) == t = [scope |-> t.scope, category |-> t.category, seed |-> t.seed,
                            open |-> t.open]
<1>1. \A m \in Known : Shape(tags[m])
  BY DEF TagsOK
<1>2. ASSUME \A m \in Known' : Shape(tags'[m]), Known' \subseteq Memo, Known \subseteq Known',
             tags' = [m \in Known' |-> tags'[m]],
             placed' = [m \in Memo |-> placed'[m]], everybodys' \subseteq Known',
             \/ UNCHANGED task
             \/ task' = [kind |-> task.kind, todo |-> task'.todo] /\ task'.todo \subseteq task.todo
      PROVE  TagsOK'
  <2>1. /\ task' = [kind |-> task'.kind, todo |-> task'.todo] /\ task'.kind = task.kind
        /\ task'.todo \subseteq task.todo
    BY <1>2 DEF TagsOK
  <2>2. QED
    BY <1>2, <2>1 DEF TagsOK, Known
<1>3. ASSUME UNCHANGED <<tags, placed, everybodys>>, NEW kind, NEW list,
             task' = [kind |-> kind, todo |-> list],
             kind \in {"none", "reclassify", "rescope", "merge"}, kind = "none" => list = {},
             kind \in {"reclassify", "rescope"} => \A item \in list : item.id \in Known
      PROVE  TagsOK'
  BY <1>3 DEF TagsOK, Known
<1>4. ASSUME NEW m \in Memo, NEW answer \in Answers, Extract(m, answer)
      PROVE  TagsOK'
  <2>1. \A k \in Known' : Shape(tags'[k])
    BY <1>1, <1>4, ExtractEffect
  <2>2. everybodys' \subseteq Known'
    BY <1>4, ExtractEffect DEF TagsOK, Filed
  <2>3. /\ Known' = Known \cup {m} /\ tags' = [k \in Known' |-> tags'[k]]
        /\ UNCHANGED <<task, placed>>
    BY <1>4, ExtractEffect
  <2>4. QED
    BY <1>2, <2>1, <2>2, <2>3 DEF TagsOK
<1>5. ASSUME NEW m \in Memo, NEW fix \in Corrections, Correct(m, fix)
      PROVE  TagsOK'
  <2>1. \A k \in Known' : Shape(tags'[k])
    BY <1>1, <1>5, CorrectEffect
  <2>2. everybodys' \subseteq Known'
    BY <1>5, CorrectEffect DEF TagsOK, Filed
  <2>3. /\ Known' = Known /\ tags' = [k \in Known' |-> tags'[k]]
        /\ placed' = [k \in Memo |-> placed'[k]] /\ UNCHANGED task
    BY <1>5, CorrectEffect
  <2>4. QED
    BY <1>2, <2>1, <2>2, <2>3 DEF TagsOK
<1>6. ASSUME NEW m \in Memo, Retire(m)
      PROVE  TagsOK'
  <2>1. \A k \in Known' : Shape(tags'[k])
    BY <1>1, <1>6, RetireEffect
  <2>2. /\ Known' = Known /\ tags' = [k \in Known' |-> tags'[k]]
        /\ UNCHANGED <<task, placed, everybodys>>
    BY <1>6, RetireEffect
  <2>3. QED
    BY <1>2, <2>1, <2>2 DEF TagsOK
<1>7. CASE ListForReclassify \/ ListGlobals
  <2>1. PICK kind \in {"reclassify", "rescope"}, chosen \in SUBSET Known :
          Begin(kind, Records(chosen))
    BY <1>7 DEF ListForReclassify, ListGlobals
  <2>2. \A item \in Records(chosen) : item.id \in Known
    BY DEF Records
  <2>3. /\ task' = [kind |-> kind, todo |-> Records(chosen)]
        /\ UNCHANGED <<tags, placed, everybodys>>
    BY <2>1 DEF Begin
  <2>4. QED
    BY <1>3, <2>2, <2>3
<1>8. CASE ListCategories
  BY <1>3, <1>8 DEF ListCategories, Begin
<1>9. CASE EndJob
  BY <1>3, <1>9 DEF EndJob, NoTask
<1>10. ASSUME NEW item \in task.todo, NEW answer \in Said, Reclassify(item, answer)
       PROVE  TagsOK'
  <2>1. \A k \in Known' : Shape(tags'[k])
    BY <1>1, <1>10, ReclassifyEffect
  <2>2. everybodys' \subseteq Known'
    BY <1>10, ReclassifyEffect DEF TagsOK, Filed
  <2>3. /\ Known' = Known /\ tags' = [k \in Known' |-> tags'[k]] /\ UNCHANGED placed
        /\ task' = [kind |-> task.kind, todo |-> task.todo \ {item}]
    BY <1>10, ReclassifyEffect
  <2>4. QED
    BY <1>2, <2>1, <2>2, <2>3 DEF TagsOK
<1>11. ASSUME NEW item \in task.todo, ClassifyFails(item)
       PROVE  TagsOK'
  <2>1. task' = [kind |-> task.kind, todo |-> task.todo \ {item}]
        /\ UNCHANGED <<tags, placed, everybodys>>
    BY <1>11, ItemEffect DEF ClassifyFails
  <2>2. QED
    BY <1>1, <1>2, <2>1 DEF TagsOK, Known
<1>12. ASSUME NEW item \in task.todo, RescopeOne(item)
       PROVE  TagsOK'
  <2>1. \A k \in Known' : Shape(tags'[k])
    BY <1>1, <1>12, RescopeEffect
  <2>2. /\ Known' = Known /\ tags' = [k \in Known' |-> tags'[k]]
        /\ UNCHANGED <<placed, everybodys>>
        /\ task' = [kind |-> task.kind, todo |-> task.todo \ {item}]
    BY <1>12, RescopeEffect
  <2>3. QED
    BY <1>2, <2>1, <2>2 DEF TagsOK
<1>13. ASSUME NEW pair \in task.todo, MergeOne(pair)
       PROVE  TagsOK'
  <2>1. \A k \in Known' : Shape(tags'[k])
    <3>1. TAKE k \in Known'
    <3> DEFINE c == IF tags[k].category = pair[1] THEN pair[2] ELSE tags[k].category
    <3>2. tags'[k] = [scope |-> tags[k].scope, category |-> c, seed |-> tags[k].seed,
                      open |-> tags[k].open]
      BY <1>13, MergeEffect
    <3> HIDE DEF c
    <3>3. QED
      BY <3>2
  <2>2. /\ Known' = Known /\ tags' = [k \in Known' |-> tags'[k]]
        /\ UNCHANGED <<placed, everybodys>>
        /\ task' = [kind |-> task.kind, todo |-> task.todo \ {pair}]
    BY <1>13, MergeEffect
  <2>3. QED
    BY <1>2, <2>1, <2>2 DEF TagsOK
<1>14. CASE UNCHANGED tagVars
  BY <1>14 DEF tagVars, TagsOK, Known
<1>15. QED
  BY RelabelCases, <1>4, <1>5, <1>6, <1>7, <1>8, <1>9, <1>10, <1>11, <1>12, <1>13, <1>14

-----------------------------------------------------------------------------
(* Relabelling: scopes *)

\* Every memory is where it belongs; and so is what a reclassification's listing has
\* of it, to which that job may take it back.
HomeInv ==
    /\ \A m \in Known : AtHome(m, tags[m].scope, placed[m])
    /\ task.kind = "reclassify" =>
         \A item \in task.todo : AtHome(item.id, item.was.scope, placed[item.id])

\* What the path says of a memory's project is one of its homes.
LEMMA DerivedIsHome ==
    ASSUME NEW m, NEW others
    PROVE  /\ AtHome(m, ProjectScope(m), others)
           /\ Transcript[m].place = "projects" =>
                AtHome(m, <<DerivedScope(Transcript[m], FALSE)[1]>>, others)
<1>1. \A t, withCwd :
        /\ DerivedScope(t, withCwd)[1] = IF withCwd /\ t.cwd THEN t.home ELSE t.decoded
        /\ DerivedScope(t, withCwd) # <<>>
  BY DEF DerivedScope
<1>2. AtHome(m, ProjectScope(m), others)
  <2>1. CASE Transcript[m].place # "none"
    <3>1. ProjectScope(m) = DerivedScope(Transcript[m], TRUE)
      BY <2>1 DEF ProjectScope
    <3>2. QED
      BY <1>1, <3>1 DEF AtHome, Homes
  <2>2. CASE Transcript[m].place = "none" /\ Transcript[m].home # ""
    <3>1. ProjectScope(m) = <<Transcript[m].home>>
      BY <2>2 DEF ProjectScope
    <3>2. QED
      BY <3>1 DEF AtHome, Homes
  <2>3. CASE Transcript[m].place = "none" /\ Transcript[m].home = ""
    <3>1. ProjectScope(m) = <<>>
      BY <2>3 DEF ProjectScope
    <3>2. QED
      BY <3>1 DEF AtHome
  <2>4. QED
    BY <2>1, <2>2, <2>3
<1>3. ASSUME Transcript[m].place = "projects"
      PROVE  AtHome(m, <<DerivedScope(Transcript[m], FALSE)[1]>>, others)
  BY <1>1, <1>3 DEF AtHome, Homes
<1>4. QED
  BY <1>2, <1>3

\* A memory that is where it belongs stays so when the operator has been to more places,
\* and is so wherever the operator puts it.
LEMMA HomeGrows ==
    ASSUME NEW m, NEW scope, NEW before, NEW after, before \subseteq after
    PROVE  /\ AtHome(m, scope, before) => AtHome(m, scope, after)
           /\ AtHome(m, <<>>, after)
           /\ scope[1] \in after => AtHome(m, scope, after)
           /\ AtHome(m, scope, before) /\ scope # <<>> => AtHome(m, <<scope[1]>>, before)
  BY DEF AtHome

\* Every step keeps the memories where they belong.
LEMMA HomeStep ==
    ASSUME TagsOK, HomeInv, [RelabelNext]_tagVars
    PROVE  HomeInv'
<1>2. ASSUME UNCHANGED placed, \A m \in Known' : AtHome(m, tags'[m].scope, placed[m]),
             task'.kind = "reclassify" =>
               \/ task.kind = "reclassify" /\ task'.todo \subseteq task.todo
               \/ \A item \in task'.todo : AtHome(item.id, item.was.scope, placed[item.id])
      PROVE  HomeInv'
  BY <1>2 DEF HomeInv, Known
<1>3. ASSUME NEW m \in Memo, NEW answer \in Answers, Extract(m, answer)
      PROVE  HomeInv'
  <2>1. /\ Known' = Known \cup {m} /\ UNCHANGED <<task, placed>>
        /\ \A k \in Known : tags'[k] = tags[k]
    BY <1>3, ExtractEffect
  <2>2. tags'[m].scope = ScopeFor(answer.decision, ProjectScope(m))
    <3> DEFINE s == ScopeFor(answer.decision, ProjectScope(m))
               c == Slug[answer.label]
               f == answer.seed
    <3>1. tags'[m] = [scope |-> s, category |-> c, seed |-> f, open |-> TRUE]
      BY <1>3, ExtractEffect
    <3> HIDE DEF s, c, f
    <3>2. tags'[m].scope = s
      BY <3>1
    <3>3. QED
      BY <3>2 DEF s
  <2>3. AtHome(m, ScopeFor(answer.decision, ProjectScope(m)), placed[m])
    BY DerivedIsHome, HomeGrows DEF ScopeFor
  <2>4. \A k \in Known' : AtHome(k, tags'[k].scope, placed[k])
    BY <2>1, <2>2, <2>3 DEF HomeInv
  <2>5. QED
    BY <1>2, <2>1, <2>4 DEF HomeInv
<1>4. ASSUME NEW m \in Memo, NEW fix \in Corrections, Correct(m, fix)
      PROVE  HomeInv'
  <2>1. /\ Known' = Known /\ UNCHANGED task /\ m \in Known
        /\ \A k \in Known \ {m} : tags'[k] = tags[k]
        /\ \A k \in Memo \ {m} : placed'[k] = placed[k]
    BY <1>4, CorrectEffect
  <2>8. placed'[m] = placed[m] \cup {fix.scope[k] : k \in DOMAIN fix.scope}
    <3> DEFINE names == {fix.scope[k] : k \in DOMAIN fix.scope}
    <3>1. placed' = [placed EXCEPT ![m] = placed[m] \cup names] /\ placed = [k \in Memo |-> placed[k]]
      BY <1>4 DEF Correct, TagsOK
    <3> HIDE DEF names
    <3>2. placed'[m] = placed[m] \cup names
      BY <3>1
    <3>3. QED
      BY <3>2 DEF names
  <2>2. tags'[m].scope = fix.scope
    <3> DEFINE c == Slug[fix.label]
               f == fix.seed
               o == tags[m].open
    <3>1. tags'[m] = [scope |-> fix.scope, category |-> c, seed |-> f, open |-> o]
      BY <1>4, CorrectEffect
    <3> HIDE DEF c, f, o
    <3>2. QED
      BY <3>1
  <2>3. \A k \in Memo : placed[k] \subseteq placed'[k]
    BY <2>1, <2>8
  <2>4. AtHome(m, fix.scope, placed'[m])
    <3>1. fix.scope = <<>> \/ fix.scope[1] \in placed'[m]
      BY <2>1, <2>8, RelabellingAssumption
    <3>2. QED
      BY <3>1, HomeGrows
  <2>5. ASSUME NEW k \in Known'
        PROVE  AtHome(k, tags'[k].scope, placed'[k])
    <3>1. CASE k = m
      BY <2>2, <2>4, <3>1
    <3>2. CASE k # m
      <4>1. k \in Memo /\ tags'[k] = tags[k] /\ AtHome(k, tags[k].scope, placed[k])
        BY <2>1, <3>2 DEF HomeInv, TagsOK
      <4>2. QED
        BY <2>3, <4>1, HomeGrows
    <3>3. QED
      BY <3>1, <3>2
  <2>6. ASSUME task'.kind = "reclassify", NEW item \in task'.todo
        PROVE  AtHome(item.id, item.was.scope, placed'[item.id])
    <3>1. item.id \in Memo /\ AtHome(item.id, item.was.scope, placed[item.id])
      BY <2>1, <2>6 DEF HomeInv, TagsOK
    <3>2. QED
      BY <2>3, <3>1, HomeGrows
  <2>7. QED
    BY <2>5, <2>6 DEF HomeInv, Known
<1>5. ASSUME NEW m \in Memo, Retire(m)
      PROVE  HomeInv'
  <2>1. /\ Known' = Known /\ UNCHANGED <<task, placed>>
        /\ \A k \in Known \ {m} : tags'[k] = tags[k]
    BY <1>5, RetireEffect
  <2>2. tags'[m].scope = tags[m].scope
    <3> DEFINE closed == FALSE
    <3>1. tags'[m] = [scope |-> tags[m].scope, category |-> tags[m].category,
                      seed |-> tags[m].seed, open |-> closed]
      BY <1>5, RetireEffect
    <3> HIDE DEF closed
    <3>2. QED
      BY <3>1
  <2>3. \A k \in Known' : AtHome(k, tags'[k].scope, placed[k])
    BY <2>1, <2>2 DEF HomeInv
  <2>4. QED
    BY <1>2, <2>1, <2>3 DEF HomeInv
<1>6. CASE ListForReclassify
  <2>1. task'.kind = "reclassify" /\ task'.todo = Records(Known) /\ UNCHANGED <<tags, placed>>
    BY <1>6, ListingEffect DEF ListForReclassify
  <2>2. \A item \in Records(Known) : AtHome(item.id, item.was.scope, placed[item.id])
    BY DEF Records, HomeInv
  <2>3. QED
    BY <1>2, <2>1, <2>2 DEF HomeInv, Known
<1>7. CASE ListGlobals \/ ListCategories
  <2>1. PICK kind \in {"rescope", "merge"} : \E list : Begin(kind, list)
    BY <1>7 DEF ListGlobals, ListCategories
  <2>2. task'.kind # "reclassify" /\ UNCHANGED <<tags, placed>>
    BY <2>1, ListingEffect
  <2>3. QED
    BY <1>2, <2>2 DEF HomeInv, Known
<1>8. CASE EndJob \/ UNCHANGED tagVars
  <2>1. UNCHANGED <<tags, placed>> /\ (UNCHANGED task \/ task'.kind # "reclassify")
    BY <1>8 DEF EndJob, NoTask, tagVars
  <2>2. QED
    BY <1>2, <2>1 DEF HomeInv, Known
<1>9. ASSUME NEW item \in task.todo, NEW answer \in Said, Reclassify(item, answer)
      PROVE  HomeInv'
  <2> DEFINE i == item.id
             scope == ScopeFor(answer.decision,
                               IF item.was.scope = <<>> THEN <<>> ELSE <<item.was.scope[1]>>)
  <2>1. /\ task.kind = "reclassify" /\ i \in Known /\ Known' = Known /\ UNCHANGED placed
        /\ \A k \in Known \ {i} : tags'[k] = tags[k]
        /\ tags'[i].scope \in {scope, tags[i].scope}
        /\ task' = [kind |-> "reclassify", todo |-> task.todo \ {item}]
    BY <1>9, ReclassifyEffect
  <2>2. AtHome(i, scope, placed[i])
    <3>1. AtHome(i, item.was.scope, placed[i])
      BY <1>9, <2>1 DEF HomeInv
    <3>2. AtHome(i, <<>>, placed[i])
          /\ (item.was.scope # <<>> => AtHome(i, <<item.was.scope[1]>>, placed[i]))
      BY <3>1, HomeGrows
    <3>3. QED
      BY <3>2 DEF ScopeFor
  <2> HIDE DEF scope
  <2>3. \A k \in Known' : AtHome(k, tags'[k].scope, placed[k])
    BY <2>1, <2>2 DEF HomeInv
  <2>4. QED
    BY <1>2, <2>1, <2>3
<1>10. ASSUME NEW item \in task.todo, ClassifyFails(item)
       PROVE  HomeInv'
  <2>1. /\ UNCHANGED <<tags, placed>>
        /\ task'.kind = "reclassify" /\ task'.todo \subseteq task.todo /\ task.kind = "reclassify"
    BY <1>10, ItemEffect DEF ClassifyFails
  <2>2. QED
    BY <1>2, <2>1 DEF HomeInv, Known
<1>11. ASSUME NEW item \in task.todo, RescopeOne(item)
       PROVE  HomeInv'
  <2> DEFINE i == item.id
  <2>1. /\ task'.kind = "rescope" /\ i \in Known /\ Known' = Known /\ UNCHANGED placed
        /\ \A k \in Known \ {i} : tags'[k] = tags[k]
    <3>1. /\ task' = [kind |-> "rescope", todo |-> task.todo \ {item}]
          /\ i \in Known /\ Known' = Known /\ UNCHANGED placed
          /\ \A k \in Known \ {i} : tags'[k] = tags[k]
      BY <1>11, RescopeEffect, Zenon
    <3>2. QED
      BY <3>1
  <2>8. \/ tags'[i].scope = tags[i].scope
        \/ /\ Transcript[i].place = "projects"
           /\ tags'[i].scope = <<DerivedScope(Transcript[i], FALSE)[1]>>
    BY <1>11, RescopeEffect, Zenon
  <2>2. AtHome(i, tags'[i].scope, placed[i])
    BY <2>1, <2>8, DerivedIsHome DEF HomeInv
  <2>3. \A k \in Known' : AtHome(k, tags'[k].scope, placed[k])
    BY <2>1, <2>2 DEF HomeInv
  <2>4. QED
    BY <1>2, <2>1, <2>3
<1>12. ASSUME NEW pair \in task.todo, MergeOne(pair)
       PROVE  HomeInv'
  <2>1. task'.kind = "merge" /\ Known' = Known /\ UNCHANGED placed
    BY <1>12, MergeEffect
  <2>2. ASSUME NEW k \in Known
        PROVE  tags'[k].scope = tags[k].scope
    <3> DEFINE c == IF tags[k].category = pair[1] THEN pair[2] ELSE tags[k].category
    <3>1. tags'[k] = [scope |-> tags[k].scope, category |-> c, seed |-> tags[k].seed,
                      open |-> tags[k].open]
      BY <1>12, MergeEffect
    <3> HIDE DEF c
    <3>2. QED
      BY <3>1
  <2>3. QED
    BY <1>2, <2>1, <2>2 DEF HomeInv
<1>13. QED
  BY RelabelCases, <1>3, <1>4, <1>5, <1>6, <1>7, <1>8, <1>9, <1>10, <1>11, <1>12

-----------------------------------------------------------------------------
(* Relabelling: the category merge *)

\* A category is counted when an open memory has it.
LEMMA CountFacts ==
    ASSUME TagsOK, NEW c
    PROVE  /\ Count(c) \in Nat
           /\ Count(c) > 0 <=> \E m \in Known : tags[m].open /\ tags[m].category = c
<1> DEFINE S == {m \in Known : tags[m].open /\ tags[m].category = c}
<1>1. IsFiniteSet(S)
  <2>1. S \subseteq Memo
    BY DEF TagsOK
  <2>2. IsFiniteSet(Memo)
    BY RelabellingAssumption
  <2> HIDE DEF S
  <2>3. QED
    BY <2>1, <2>2, FS_Subset
<1>2. Count(c) = Cardinality(S)
  BY DEF Count
<1>3. Cardinality(S) \in Nat /\ (Cardinality(S) = 0 <=> S = {})
  <2> HIDE DEF S
  <2>1. QED
    BY <1>1, FS_CardinalityType, FS_EmptySet
<1>4. S # {} <=> \E m \in Known : tags[m].open /\ tags[m].category = c
  OBVIOUS
<1> HIDE DEF S
<1>5. QED
  BY <1>2, <1>3, <1>4

\* The order in which clusters are started is a strict total one.
LEMMA BeforeOrders ==
    ASSUME TagsOK
    PROVE  /\ \A c, d, e \in InUse : Before(c, d) /\ Before(d, e) => Before(c, e)
           /\ \A c \in InUse : ~ Before(c, c)
           /\ \A c, d \in InUse : c # d => Before(c, d) \/ Before(d, c)
<1>1. \A c : Count(c) \in Nat
  BY CountFacts
<1>2. \A c \in InUse : Rank[c] \in Nat
  BY RelabellingAssumption DEF InUse
<1>3. \A c, d \in InUse : Rank[c] = Rank[d] => c = d
  BY RelabellingAssumption DEF InUse
<1> HIDE DEF InUse
<1>4. \A c, d, e \in InUse : Before(c, d) /\ Before(d, e) => Before(c, e)
  BY <1>1, <1>2 DEF Before
<1>5. \A c \in InUse : ~ Before(c, c)
  BY <1>1, <1>2 DEF Before
<1>6. \A c, d \in InUse : c # d => Before(c, d) \/ Before(d, c)
  BY <1>1, <1>2, <1>3 DEF Before
<1>7. QED
  BY <1>4, <1>5, <1>6

\* Categories in use have one that comes last, and one that comes first ...
LEMMA EndsExist ==
    ASSUME TagsOK, NEW S \in SUBSET InUse, S # {}
    PROVE  /\ \E c \in S : \A d \in S \ {c} : Before(d, c)
           /\ \E c \in S : \A d \in S \ {c} : Before(c, d)
<1>1. IsFiniteSet(S)
  <2>1. S \subseteq DOMAIN Rank /\ IsFiniteSet(DOMAIN Rank)
    BY RelabellingAssumption DEF InUse
  <2>2. QED
    BY <2>1, FS_Subset
<1> DEFINE R == {p \in S \X S : Before(p[1], p[2])}
           Q == {p \in S \X S : Before(p[2], p[1])}
<1>2. /\ \A c, d \in S : <<c, d>> \in R <=> Before(c, d)
      /\ \A c, d \in S : <<c, d>> \in Q <=> Before(d, c)
  OBVIOUS
<1> HIDE DEF R, Q
<1>3. /\ \A c, d, e \in S : Before(c, d) /\ Before(d, e) => Before(c, e)
      /\ \A c \in S : ~ Before(c, c)
      /\ \A c, d \in S : c # d => Before(c, d) \/ Before(d, c)
  BY BeforeOrders
<1>4. \E c \in S : \A d \in S : <<c, d>> \notin R
  <2>1. \A c, d, e \in S : <<c, d>> \in R /\ <<d, e>> \in R => <<c, e>> \in R
    BY <1>2, <1>3
  <2>2. \A c \in S : <<c, c>> \notin R
    BY <1>2, <1>3
  <2>3. QED
    BY <1>1, <2>1, <2>2, EndExists
<1>5. \E c \in S : \A d \in S : <<c, d>> \notin Q
  <2>1. \A c, d, e \in S : <<c, d>> \in Q /\ <<d, e>> \in Q => <<c, e>> \in Q
    BY <1>2, <1>3
  <2>2. \A c \in S : <<c, c>> \notin Q
    BY <1>2, <1>3
  <2>3. QED
    BY <1>1, <2>1, <2>2, EndExists
<1>6. QED
  BY <1>2, <1>3, <1>4, <1>5

\* The categories of S that are taken by none of the canonical ones L, and no others.
Stand(S, L) ==
    /\ L \subseteq S
    /\ \A c \in S : c \in L <=> ~ \E l \in L : Before(l, c) /\ <<l, c>> \in Alike

\* ... so that the canonical ones exist: were there sets of categories without any, a
\* smallest of those would have some once its last category is put aside.
LEMMA StandExists ==
    ASSUME TagsOK
    PROVE  \E L : Stand(InUse, L)
<1>1. IsFiniteSet(InUse)
  <2>1. InUse \subseteq DOMAIN Rank /\ IsFiniteSet(DOMAIN Rank)
    BY RelabellingAssumption DEF InUse
  <2>2. QED
    BY <2>1, FS_Subset
<1> DEFINE Bad == {S \in SUBSET InUse : ~ \E L : Stand(S, L)}
<1>2. SUFFICES ASSUME InUse \in Bad
               PROVE  FALSE
  OBVIOUS
<1>3. FiniteSubsetsOf(InUse) = SUBSET InUse
  BY <1>1, FS_FiniteSubsetsOfFinite
<1>4. IsWellFoundedOn(StrictSubsetOrdering(InUse), FiniteSubsetsOf(InUse))
  BY FS_StrictSubsetOrderingWellFounded
<1>5. PICK S \in Bad : \A T \in Bad : <<T, S>> \notin StrictSubsetOrdering(InUse)
  <2>1. Bad \subseteq FiniteSubsetsOf(InUse) /\ Bad # {}
    BY <1>2, <1>3
  <2> HIDE DEF Bad
  <2>2. QED
    BY <1>4, <2>1, WFMin
<1>6. S \in SUBSET InUse /\ ~ \E L : Stand(S, L)
  OBVIOUS
<1>7. S # {}
  <2>1. Stand({}, {})
    BY DEF Stand
  <2>2. QED
    BY <1>6, <2>1
<1>9. PICK c \in S : \A d \in S \ {c} : Before(d, c)
  BY <1>6, <1>7, EndsExist
<1>10. PICK L : Stand(S \ {c}, L)
  <2>1. S \ {c} \in SUBSET InUse /\ <<S \ {c}, S>> \in StrictSubsetOrdering(InUse)
    BY <1>6, <1>9 DEF StrictSubsetOrdering
  <2>2. S \ {c} \notin Bad
    BY <1>5, <2>1
  <2>3. QED
    BY <2>1, <2>2
<1>11. /\ \A d \in S \ {c} : ~ Before(c, d)
       /\ ~ Before(c, c)
  BY <1>6, <1>9, BeforeOrders
<1>12. L \subseteq S \ {c}
  BY <1>10 DEF Stand
<1>13. CASE \E l \in L : Before(l, c) /\ <<l, c>> \in Alike
  <2>1. Stand(S, L)
    BY <1>10, <1>12, <1>13 DEF Stand
  <2>2. QED
    BY <1>6, <2>1
<1>14. CASE ~ \E l \in L : Before(l, c) /\ <<l, c>> \in Alike
  <2>1. Stand(S, L \cup {c})
    BY <1>9, <1>10, <1>11, <1>12, <1>14 DEF Stand
  <2>2. QED
    BY <1>6, <2>1
<1>15. QED
  BY <1>13, <1>14

\* What the canonical categories are, and that every other one has a target among them.
LEMMA CanonicalFacts ==
    ASSUME TagsOK
    PROVE  /\ Stand(InUse, Canonical)
           /\ \A c, d \in Canonical : c # d => <<c, d>> \notin Alike
           /\ \A c \in InUse \ Canonical : /\ Target(c) \in Canonical
                                           /\ <<Target(c), c>> \in Alike
<1>1. PICK L : Stand(InUse, L)
  BY StandExists
<1>2. Stand(InUse, Canonical)
  <2>1. L \in SUBSET InUse
    BY <1>1 DEF Stand
  <2>2. \E K \in SUBSET InUse :
          \A c \in InUse : c \in K <=> ~ \E l \in K : Before(l, c) /\ <<l, c>> \in Alike
    BY <1>1, <2>1 DEF Stand
  <2>3. QED
    BY <2>2 DEF Canonical, Stand
<1>3. Canonical \subseteq InUse
  BY <1>2 DEF Stand
<1>4. ASSUME NEW c \in Canonical, NEW d \in Canonical, c # d, <<c, d>> \in Alike
      PROVE  FALSE
  <2>1. c \in DOMAIN Rank /\ d \in DOMAIN Rank /\ c \in InUse /\ d \in InUse
    BY <1>3 DEF InUse
  <2>2. <<d, c>> \in Alike
    BY <1>4, <2>1, RelabellingAssumption
  <2>3. Before(c, d) \/ Before(d, c)
    BY <1>4, <2>1, BeforeOrders
  <2>4. QED
    BY <1>2, <1>4, <2>1, <2>2, <2>3 DEF Stand
<1>5. ASSUME NEW c \in InUse \ Canonical
      PROVE  Target(c) \in Canonical /\ <<Target(c), c>> \in Alike
  <2> DEFINE Near == {l \in Canonical : <<l, c>> \in Alike}
             Takers == {l \in Near : Before(l, c)}
  <2>1. Near \subseteq InUse /\ \E t \in Near : Before(t, c)
    BY <1>2, <1>3, <1>5 DEF Stand
  <2>2. PICK l \in Near : \A k \in Near \ {l} : Before(l, k)
    BY <2>1, EndsExist
  <2>3. Before(l, c) /\ \A k \in Near : ~ Before(k, l)
    <3>1. PICK t \in Near : Before(t, c)
      BY <2>1
    <3>2. l \in InUse /\ t \in InUse /\ c \in InUse
      BY <2>1, <1>5
    <3>3. Before(l, c)
      BY <2>2, <3>1, <3>2, BeforeOrders
    <3>4. ASSUME NEW k \in Near, Before(k, l)
          PROVE  FALSE
      <4>1. k \in InUse
        BY <2>1
      <4>2. QED
        BY <2>2, <3>2, <3>4, <4>1, BeforeOrders
    <3>5. QED
      BY <3>3, <3>4
  <2>4. \E t \in Canonical : /\ Before(t, c) /\ <<t, c>> \in Alike
                             /\ \A k \in Canonical : <<k, c>> \in Alike => ~ Before(k, t)
    BY <2>3
  <2> HIDE DEF Near
  <2>6. /\ Target(c) \in Canonical /\ Before(Target(c), c) /\ <<Target(c), c>> \in Alike
    BY <2>4 DEF Target
  <2>7. QED
    BY <2>6
<1>6. QED
  BY <1>2, <1>4, <1>5

\* A merge folds look-alikes only, and while nobody else writes, whatever is open is of
\* a category that was canonical at the listing or of one that is still to be folded.
MergeInv ==
    task.kind = "merge" =>
      /\ \A p \in task.todo : <<p[2], p[1]>> \in Alike
      /\ quiet => \E L \in SUBSET DOMAIN Rank :
           /\ \A c, d \in L : c # d => <<c, d>> \notin Alike
           /\ \A p \in task.todo : p[2] \in L
           /\ \A m \in Known : tags[m].open /\ tags[m].category \in DOMAIN Rank =>
                tags[m].category \in L \/ \E p \in task.todo : p[1] = tags[m].category

\* Every step keeps that.
LEMMA MergeStep ==
    ASSUME TagsOK, MergeInv, [RelabelNext]_tagVars
    PROVE  MergeInv'
<1>1. ASSUME task'.kind # "merge"
      PROVE  MergeInv'
  BY <1>1 DEF MergeInv
<1>2. ASSUME UNCHANGED task, quiet' = FALSE
      PROVE  MergeInv'
  BY <1>2 DEF MergeInv
<1>3. ASSUME NEW m \in Memo,
             \/ \E answer \in Answers : Extract(m, answer)
             \/ \E fix \in Corrections : Correct(m, fix)
             \/ Retire(m)
      PROVE  MergeInv'
  <2>1. UNCHANGED task /\ quiet' = FALSE
    BY <1>3 DEF Extract, Correct, Retire
  <2>2. QED
    BY <1>2, <2>1
<1>4. CASE ListForReclassify \/ ListGlobals
  <2>1. task'.kind # "merge"
    BY <1>4 DEF ListForReclassify, ListGlobals, Begin
  <2>2. QED
    BY <1>1, <2>1
<1>5. CASE EndJob
  BY <1>1, <1>5 DEF EndJob, NoTask
<1>6. CASE ListCategories
  <2>1. task'.todo = Proposals /\ UNCHANGED tags
    BY <1>6 DEF ListCategories, Begin
  <2>2. \A p \in Proposals : /\ p[1] \in InUse \ Canonical /\ p[2] \in Canonical
                             /\ <<p[2], p[1]>> \in Alike
    BY CanonicalFacts DEF Proposals
  <2>3. Canonical \in SUBSET DOMAIN Rank
    BY CanonicalFacts DEF Stand, InUse
  <2>4. ASSUME NEW m \in Known, tags[m].open, tags[m].category \in DOMAIN Rank
        PROVE  \/ tags[m].category \in Canonical
               \/ \E p \in Proposals : p[1] = tags[m].category
    <3> DEFINE c == tags[m].category
    <3>1. c \in InUse
      BY <2>4, CountFacts DEF InUse
    <3> HIDE DEF c
    <3>2. ASSUME c \notin Canonical
          PROVE  \E p \in Proposals : p[1] = c
      <4>1. <<c, Target(c)>> \in Proposals
        BY <3>1, <3>2 DEF Proposals
      <4>2. QED
        BY <4>1
    <3>3. QED
      BY <3>2 DEF c
  <2>5. \A c, d \in Canonical : c # d => <<c, d>> \notin Alike
    BY CanonicalFacts
  <2>6. \E L \in SUBSET DOMAIN Rank :
           /\ \A c, d \in L : c # d => <<c, d>> \notin Alike
           /\ \A p \in task'.todo : p[2] \in L
           /\ \A m \in Known' : tags'[m].open /\ tags'[m].category \in DOMAIN Rank =>
                tags'[m].category \in L \/ \E p \in task'.todo : p[1] = tags'[m].category
    <3>1. Known' = Known
      BY <2>1 DEF Known
    <3> WITNESS Canonical \in SUBSET DOMAIN Rank
    <3> QED
      BY <2>1, <2>2, <2>4, <2>5, <3>1
  <2>7. QED
    BY <2>1, <2>2, <2>6 DEF MergeInv
<1>7. ASSUME NEW item \in task.todo,
             \/ \E answer \in Said : Reclassify(item, answer)
             \/ RescopeOne(item)
      PROVE  MergeInv'
  <2>1. PICK kind \in {"reclassify", "rescope"} : Doing(kind, item) /\ Done(item)
    BY <1>7 DEF Reclassify, RescopeOne
  <2>2. task'.kind # "merge"
    BY <2>1, ItemEffect
  <2>3. QED
    BY <1>1, <2>2
<1>8. ASSUME NEW item \in task.todo, ClassifyFails(item)
      PROVE  MergeInv'
  <2>1. task'.kind # "merge"
    BY <1>8, ItemEffect DEF ClassifyFails
  <2>2. QED
    BY <1>1, <2>1
<1>9. ASSUME NEW pair \in task.todo, MergeOne(pair)
      PROVE  MergeInv'
  <2>1. /\ task.kind = "merge" /\ Known' = Known /\ UNCHANGED quiet
        /\ task' = [kind |-> "merge", todo |-> task.todo \ {pair}]
    BY <1>9, MergeEffect
  <2>2. task'.todo = task.todo \ {pair}
    BY <2>1
  <2>3. ASSUME NEW m \in Known
        PROVE  /\ tags'[m].category = IF tags[m].category = pair[1] THEN pair[2]
                                      ELSE tags[m].category
               /\ tags'[m].open = tags[m].open
    <3> DEFINE c == IF tags[m].category = pair[1] THEN pair[2] ELSE tags[m].category
    <3>1. tags'[m] = [scope |-> tags[m].scope, category |-> c, seed |-> tags[m].seed,
                      open |-> tags[m].open]
      BY <1>9, MergeEffect
    <3> HIDE DEF c
    <3>2. tags'[m].category = c /\ tags'[m].open = tags[m].open
      BY <3>1
    <3>3. QED
      BY <3>2 DEF c
  <2>4. ASSUME quiet
        PROVE  \E L \in SUBSET DOMAIN Rank :
           /\ \A c, d \in L : c # d => <<c, d>> \notin Alike
           /\ \A p \in task'.todo : p[2] \in L
           /\ \A m \in Known' : tags'[m].open /\ tags'[m].category \in DOMAIN Rank =>
                tags'[m].category \in L \/ \E p \in task'.todo : p[1] = tags'[m].category
    <3>1. PICK L \in SUBSET DOMAIN Rank :
           /\ \A c, d \in L : c # d => <<c, d>> \notin Alike
           /\ \A p \in task.todo : p[2] \in L
           /\ \A m \in Known : tags[m].open /\ tags[m].category \in DOMAIN Rank =>
                tags[m].category \in L \/ \E p \in task.todo : p[1] = tags[m].category
      BY <2>1, <2>4 DEF MergeInv
    <3>2. ASSUME NEW m \in Known, tags'[m].open, tags'[m].category \in DOMAIN Rank
          PROVE  tags'[m].category \in L \/ \E p \in task'.todo : p[1] = tags'[m].category
      <4>1. CASE tags[m].category = pair[1]
        BY <2>3, <3>1, <4>1
      <4>2. CASE tags[m].category # pair[1]
        <5>1. tags'[m].category = tags[m].category /\ tags[m].open
          BY <2>3, <3>2, <4>2
        <5>2. tags[m].category \in L \/ \E p \in task.todo : p[1] = tags[m].category
          BY <3>1, <3>2, <5>1
        <5>3. \A p \in task.todo : p[1] = tags[m].category => p \in task'.todo
          BY <2>2, <4>2
        <5>4. QED
          BY <5>1, <5>2, <5>3
      <4>3. QED
        BY <4>1, <4>2
    <3>3. \A p \in task'.todo : p[2] \in L
      BY <2>2, <3>1
    <3>4. QED
      BY <2>1, <3>1, <3>2, <3>3
  <2>5. \A p \in task'.todo : <<p[2], p[1]>> \in Alike
    BY <2>1, <2>2 DEF MergeInv
  <2>6. QED
    BY <2>1, <2>4, <2>5 DEF MergeInv
<1>10. CASE UNCHANGED tagVars
  BY <1>10 DEF MergeInv, tagVars, Known
<1>11. QED
  BY RelabelCases, <1>3, <1>4, <1>5, <1>6, <1>7, <1>8, <1>9, <1>10

\* When the list of a quiet merge is done, no two categories in use are look-alikes, so
\* each is canonical.
LEMMA MergeDone ==
    ASSUME TagsOK, MergeInv
    PROVE  MergeSettles
<1> SUFFICES ASSUME task.kind = "merge", task.todo = {}, quiet
             PROVE  Proposals = {}
  BY DEF MergeSettles
<1>1. PICK L \in SUBSET DOMAIN Rank :
        /\ \A c, d \in L : c # d => <<c, d>> \notin Alike
        /\ \A m \in Known : tags[m].open /\ tags[m].category \in DOMAIN Rank => tags[m].category \in L
  BY DEF MergeInv
<1>2. \A c \in InUse : c \in L
  BY <1>1, CountFacts DEF InUse
<1>3. \A c \in InUse : c \in Canonical
  BY <1>1, <1>2, CanonicalFacts, BeforeOrders DEF Stand
<1>4. QED
  BY <1>3 DEF Proposals

-----------------------------------------------------------------------------
(* Relabelling: kinds that are kept for everybody *)

\* No category that is kept for everybody resembles one that is not.
KeptKindsStandApart ==
    \A p \in Alike : p[1] \in KeepGlobal <=> p[2] \in KeepGlobal

\* What was filed under everybody's kinds is global and of such a kind; and the listing
\* of a rescope has it as of one.
KeptInv ==
    /\ \A m \in everybodys : tags[m].scope = <<>> /\ tags[m].category \in KeepGlobal
    /\ task.kind = "rescope" =>
         \A item \in task.todo : item.id \in everybodys => item.was.category \in KeepGlobal

\* Every step keeps that, a merge because it stays within the kinds.
LEMMA KeptStep ==
    ASSUME KeptKindsStandApart, TagsOK, MergeInv, KeptInv, [RelabelNext]_tagVars
    PROVE  KeptInv'
<1>1. everybodys \subseteq Known /\ \A m \in Known : m \in Memo
  BY DEF TagsOK
<1>2. ASSUME task'.kind = "rescope" => UNCHANGED task /\ everybodys' \subseteq everybodys,
             \A m \in everybodys' : tags'[m].scope = <<>> /\ tags'[m].category \in KeepGlobal
      PROVE  KeptInv'
  BY <1>2 DEF KeptInv
<1>3. ASSUME NEW m \in Memo, NEW answer \in Answers, Extract(m, answer)
      PROVE  KeptInv'
  <2>1. /\ m \notin Known /\ UNCHANGED task /\ \A k \in Known : tags'[k] = tags[k]
    BY <1>3, ExtractEffect
  <2>2. Filed(m, tags'[m])
    BY <1>3, ExtractEffect
  <2>3. \A k \in everybodys' : tags'[k].scope = <<>> /\ tags'[k].category \in KeepGlobal
    BY <1>1, <2>1, <2>2 DEF KeptInv, Filed
  <2>4. ASSUME task.kind = "rescope", NEW item \in task.todo, item.id \in everybodys'
        PROVE  item.was.category \in KeepGlobal
    <3>1. item.id \in everybodys
      BY <2>1, <2>2, <2>4 DEF Filed, TagsOK
    <3>2. QED
      BY <2>4, <3>1 DEF KeptInv
  <2>5. QED
    BY <2>1, <2>3, <2>4 DEF KeptInv
<1>4. ASSUME NEW m \in Memo, NEW fix \in Corrections, Correct(m, fix)
      PROVE  KeptInv'
  <2>1. UNCHANGED task /\ m \in Known /\ \A k \in Known \ {m} : tags'[k] = tags[k]
    BY <1>4, CorrectEffect
  <2>2. IF task.kind = "rescope" THEN everybodys' = everybodys \ {m} ELSE Filed(m, tags'[m])
    BY <1>4, CorrectEffect
  <2>3. \A k \in everybodys' : tags'[k].scope = <<>> /\ tags'[k].category \in KeepGlobal
    BY <1>1, <2>1, <2>2 DEF KeptInv, Filed
  <2>4. task.kind = "rescope" => everybodys' \subseteq everybodys
    BY <2>2
  <2>5. QED
    BY <1>2, <2>1, <2>3, <2>4
<1>5. ASSUME NEW m \in Memo, Retire(m)
      PROVE  KeptInv'
  <2>1. UNCHANGED <<task, everybodys>> /\ \A k \in Known \ {m} : tags'[k] = tags[k]
    BY <1>5, RetireEffect
  <2>2. tags'[m].scope = tags[m].scope /\ tags'[m].category = tags[m].category
    <3> DEFINE closed == FALSE
    <3>1. tags'[m] = [scope |-> tags[m].scope, category |-> tags[m].category,
                      seed |-> tags[m].seed, open |-> closed]
      BY <1>5, RetireEffect
    <3> HIDE DEF closed
    <3>2. QED
      BY <3>1
  <2>3. \A k \in everybodys' : tags'[k].scope = <<>> /\ tags'[k].category \in KeepGlobal
    BY <1>1, <2>1, <2>2 DEF KeptInv
  <2>4. QED
    BY <1>2, <2>1, <2>3
<1>6. CASE ListForReclassify \/ ListCategories
  <2>1. task'.kind # "rescope" /\ UNCHANGED <<tags, everybodys>>
    BY <1>6 DEF ListForReclassify, ListCategories, Begin
  <2>2. QED
    BY <1>2, <2>1 DEF KeptInv
<1>7. CASE ListGlobals
  <2>1. /\ task'.todo = Records({m \in Known : tags[m].scope = <<>>})
        /\ UNCHANGED <<tags, everybodys>>
    BY <1>7 DEF ListGlobals, Begin
  <2>2. \A item \in task'.todo : item.was = tags[item.id]
    BY <2>1 DEF Records
  <2>3. QED
    BY <2>1, <2>2 DEF KeptInv
<1>8. CASE EndJob
  <2>1. task'.kind # "rescope" /\ UNCHANGED <<tags, everybodys>>
    BY <1>8 DEF EndJob, NoTask
  <2>2. QED
    BY <1>2, <2>1 DEF KeptInv
<1>9. ASSUME NEW item \in task.todo, NEW answer \in Said, Reclassify(item, answer)
      PROVE  KeptInv'
  <2> DEFINE i == item.id
  <2>1. /\ i \in Known /\ task' = [kind |-> "reclassify", todo |-> task.todo \ {item}]
        /\ \A k \in Known \ {i} : tags'[k] = tags[k]
        /\ (tags'[i] = tags[i] /\ UNCHANGED everybodys) \/ Filed(i, tags'[i])
    BY <1>9, ReclassifyEffect
  <2>2. \A k \in everybodys' : tags'[k].scope = <<>> /\ tags'[k].category \in KeepGlobal
    BY <1>1, <2>1 DEF KeptInv, Filed
  <2>3. task'.kind # "rescope"
    BY <2>1
  <2>4. QED
    BY <1>2, <2>2, <2>3
<1>10. ASSUME NEW item \in task.todo, ClassifyFails(item)
       PROVE  KeptInv'
  <2>1. task'.kind # "rescope" /\ UNCHANGED <<tags, everybodys>>
    BY <1>10, ItemEffect DEF ClassifyFails
  <2>2. QED
    BY <1>2, <2>1 DEF KeptInv
<1>11. ASSUME NEW item \in task.todo, RescopeOne(item)
       PROVE  KeptInv'
  <2> DEFINE i == item.id
  <2>1. /\ task.kind = "rescope" /\ i \in Known /\ UNCHANGED everybodys
        /\ task' = [kind |-> "rescope", todo |-> task.todo \ {item}]
        /\ \A k \in Known \ {i} : tags'[k] = tags[k]
    BY <1>11, RescopeEffect, Zenon
  <2>2. tags'[i].scope = tags[i].scope \/ item.was.category \notin KeepGlobal
    BY <1>11, RescopeEffect, Zenon
  <2>3. tags'[i].category = tags[i].category
    <3> DEFINE s == tags'[i].scope
    <3>1. tags'[i] = [scope |-> s, category |-> tags[i].category, seed |-> tags[i].seed,
                      open |-> tags[i].open]
      BY <1>11, RescopeEffect
    <3> HIDE DEF s
    <3>2. QED
      BY <3>1
  <2>4. i \in everybodys => tags'[i].scope = tags[i].scope
    BY <1>11, <2>1, <2>2 DEF KeptInv
  <2>5. \A k \in everybodys' : tags'[k].scope = <<>> /\ tags'[k].category \in KeepGlobal
    BY <1>1, <2>1, <2>3, <2>4 DEF KeptInv
  <2>6. task'.todo \subseteq task.todo
    BY <2>1
  <2>7. QED
    BY <2>1, <2>5, <2>6 DEF KeptInv
<1>12. ASSUME NEW pair \in task.todo, MergeOne(pair)
       PROVE  KeptInv'
  <2>1. /\ task.kind = "merge" /\ UNCHANGED everybodys
        /\ task' = [kind |-> "merge", todo |-> task.todo \ {pair}]
    BY <1>12, MergeEffect
  <2>2. pair[1] \in KeepGlobal <=> pair[2] \in KeepGlobal
    <3>1. <<pair[2], pair[1]>> \in Alike
      BY <1>12, <2>1 DEF MergeInv
    <3>2. QED
      BY <3>1 DEF KeptKindsStandApart
  <2>3. ASSUME NEW k \in Known
        PROVE  /\ tags'[k].scope = tags[k].scope
               /\ tags[k].category \in KeepGlobal => tags'[k].category \in KeepGlobal
    <3> DEFINE c == IF tags[k].category = pair[1] THEN pair[2] ELSE tags[k].category
    <3>1. tags'[k] = [scope |-> tags[k].scope, category |-> c, seed |-> tags[k].seed,
                      open |-> tags[k].open]
      BY <1>12, MergeEffect
    <3>2. tags[k].category \in KeepGlobal => c \in KeepGlobal
      BY <2>2
    <3> HIDE DEF c
    <3>3. QED
      BY <3>1, <3>2
  <2>4. \A k \in everybodys' : tags'[k].scope = <<>> /\ tags'[k].category \in KeepGlobal
    BY <1>1, <2>1, <2>3 DEF KeptInv
  <2>5. task'.kind # "rescope"
    BY <2>1
  <2>6. QED
    BY <1>2, <2>4, <2>5
<1>13. CASE UNCHANGED tagVars
  BY <1>13 DEF KeptInv, tagVars
<1>14. QED
  BY RelabelCases, <1>3, <1>4, <1>5, <1>6, <1>7, <1>8, <1>9, <1>10, <1>11, <1>12, <1>13

\* The beginning.
LEMMA RelabelStart ==
    ASSUME RelabelInit
    PROVE  TagsOK /\ HomeInv /\ MergeInv /\ KeptInv
<1>1. Known = {} /\ everybodys = {} /\ task = NoTask
  BY DEF RelabelInit, Known
<1>2. task.kind = "none" /\ task.todo = {} /\ task = [kind |-> task.kind, todo |-> task.todo]
  BY <1>1 DEF NoTask
<1>3. placed = [m \in Memo |-> placed[m]]
  BY DEF RelabelInit
<1>4. tags = [m \in Known |-> tags[m]]
  BY DEF RelabelInit, Known
<1>5. QED
  BY <1>1, <1>2, <1>3, <1>4 DEF TagsOK, HomeInv, MergeInv, KeptInv

\* Relabelling!RelabelledStaysHome, where no kind that is kept for everybody resembles
\* one that is not: no order of extractions, corrections, reclassifications, rescopes
\* and merges takes a memory to a project that it does not belong to, or one of
\* everybody's to any.
THEOREM RelabelledHome ==
    ASSUME KeptKindsStandApart
    PROVE  RelabelSpec => []RelabelledStaysHome
<1>1. RelabelInit => TagsOK /\ HomeInv /\ MergeInv /\ KeptInv
  BY RelabelStart
<1>2. TagsOK /\ HomeInv /\ MergeInv /\ KeptInv /\ [RelabelNext]_tagVars
        => TagsOK' /\ HomeInv' /\ MergeInv' /\ KeptInv'
  BY TagTypes, HomeStep, MergeStep, KeptStep
<1>3. HomeInv /\ KeptInv => RelabelledStaysHome
  BY DEF HomeInv, KeptInv, RelabelledStaysHome
<1>4. QED
  BY <1>1, <1>2, <1>3, PTL DEF RelabelSpec

\* Relabelling!MergeSettles: a category merge that nobody wrote into leaves nothing to
\* merge.
THEOREM MergesSettle == RelabelSpec => []MergeSettles
<1>1. RelabelInit => TagsOK /\ MergeInv
  BY RelabelStart
<1>2. TagsOK /\ MergeInv /\ [RelabelNext]_tagVars => TagsOK' /\ MergeInv'
  BY TagTypes, MergeStep
<1>3. TagsOK /\ MergeInv => MergeSettles
  BY MergeDone
<1>4. QED
  BY <1>1, <1>2, <1>3, PTL DEF RelabelSpec

=============================================================================
