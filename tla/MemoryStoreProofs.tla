-------------------------- MODULE MemoryStoreProofs --------------------------
(***************************************************************************)
(* Theorems about MemoryStore, for every set of writers, every store size  *)
(* and every relation the embeddings and the LLM may induce on texts.      *)
(*                                                                         *)
(* The second part is what the 4-way write guarantees when writes do not   *)
(* overlap: one writer, and a candidate cap that no store of this size can *)
(* exceed.  Both conditions are needed: with two writers, or with a cap of *)
(* one, TLC violates what is proved here.  The last part shows that such a *)
(* writer implements the reference store, for every size of the store.     *)
(***************************************************************************)
EXTENDS MemoryRefinement, SequenceTheorems, FiniteSetTheorems, TLAPS

-----------------------------------------------------------------------------
(* What one query does to the store *)

\* No memory of the store is dropped or changes what it says or where it belongs.
Kept ==
    \A j \in Ids :
        /\ j \in DOMAIN mem'
        /\ mem'[j].content = mem[j].content
        /\ mem'[j].scope = mem[j].scope
        /\ mem'[j].entities = mem[j].entities

\* A memory can only get a field set: the store keeps its size and its type.
LEMMA SetUnit ==
    ASSUME mem \in Seq(Unit), NEW i \in Ids, NEW u \in Unit,
           mem' = [mem EXCEPT ![i] = u]
    PROVE  /\ mem' \in Seq(Unit)
           /\ DOMAIN mem' = Ids
           /\ Len(mem') = Len(mem)
           /\ mem'[i] = u
           /\ \A j \in Ids \ {i} : mem'[j] = mem[j]
<1>1. i \in 1 .. Len(mem)
  BY DEF Ids
<1>2. mem' \in Seq(Unit) /\ Len(mem') = Len(mem)
  BY <1>1, ExceptSeq
<1>3. QED
  BY <1>1, <1>2 DEF Ids

\* close_validity_window closes one window and changes nothing else.
LEMMA CloseWindowEffect ==
    ASSUME mem \in Seq(Unit), NEW i \in Ids, CloseWindow(i)
    PROVE  /\ mem' \in Seq(Unit)
           /\ DOMAIN mem' = Ids
           /\ Kept
           /\ \A j \in Ids : mem'[j].active = (mem[j].active /\ j # i)
           /\ \A j \in Ids : mem'[j].confidence = mem[j].confidence
<1> DEFINE u == [mem[i] EXCEPT !.active = FALSE]
<1>1. mem[i] \in Unit
  BY DEF Ids
<1>2. u \in Unit
  BY <1>1 DEF Unit
<1>3. mem' = [mem EXCEPT ![i] = u]
  BY DEF CloseWindow
<1> HIDE DEF u
<1>4. /\ mem' \in Seq(Unit)
      /\ DOMAIN mem' = Ids
      /\ mem'[i] = u
      /\ \A j \in Ids \ {i} : mem'[j] = mem[j]
  BY <1>2, <1>3, SetUnit
<1>5. /\ u.content = mem[i].content
      /\ u.scope = mem[i].scope
      /\ u.entities = mem[i].entities
      /\ u.confidence = mem[i].confidence
      /\ u.active = FALSE
  BY <1>1 DEF u, Unit
<1>6. \A j \in Ids : mem[j].active \in BOOLEAN
  <2>1. \A j \in Ids : mem[j] \in Unit
    BY DEF Ids
  <2>2. QED
    BY <2>1 DEF Unit
<1>7. QED
  BY <1>4, <1>5, <1>6 DEF Kept

\* archive, promote and the reinforce write leave every window as it is.
LEMMA SetTierEffect ==
    ASSUME mem \in Seq(Unit), NEW i \in Ids, NEW t \in {"hot", "archive"},
           mem' = [mem EXCEPT ![i].tier = t]
    PROVE  /\ mem' \in Seq(Unit)
           /\ DOMAIN mem' = Ids
           /\ Kept
           /\ \A j \in Ids : mem'[j].active = mem[j].active
           /\ \A j \in Ids : mem'[j].confidence = mem[j].confidence
<1> DEFINE u == [mem[i] EXCEPT !.tier = t]
<1>1. mem[i] \in Unit
  BY DEF Ids
<1>2. u \in Unit
  BY <1>1 DEF Unit
<1>3. mem' = [mem EXCEPT ![i] = u]
  OBVIOUS
<1> HIDE DEF u
<1>4. /\ mem' \in Seq(Unit)
      /\ DOMAIN mem' = Ids
      /\ mem'[i] = u
      /\ \A j \in Ids \ {i} : mem'[j] = mem[j]
  BY <1>2, <1>3, SetUnit
<1>5. /\ u.content = mem[i].content
      /\ u.scope = mem[i].scope
      /\ u.entities = mem[i].entities
      /\ u.confidence = mem[i].confidence
      /\ u.active = mem[i].active
  BY <1>1 DEF u, Unit
<1>6. QED
  BY <1>4, <1>5 DEF Kept

LEMMA SetConfidenceEffect ==
    ASSUME mem \in Seq(Unit), NEW i \in Ids, NEW c \in Confidence,
           mem' = [mem EXCEPT ![i].confidence = c]
    PROVE  /\ mem' \in Seq(Unit)
           /\ DOMAIN mem' = Ids
           /\ Kept
           /\ \A j \in Ids : mem'[j].active = mem[j].active
<1> DEFINE u == [mem[i] EXCEPT !.confidence = c]
<1>1. mem[i] \in Unit
  BY DEF Ids
<1>2. u \in Unit
  BY <1>1 DEF Unit
<1>3. mem' = [mem EXCEPT ![i] = u]
  OBVIOUS
<1> HIDE DEF u
<1>4. /\ mem' \in Seq(Unit)
      /\ DOMAIN mem' = Ids
      /\ mem'[i] = u
      /\ \A j \in Ids \ {i} : mem'[j] = mem[j]
  BY <1>2, <1>3, SetUnit
<1>5. /\ u.content = mem[i].content
      /\ u.scope = mem[i].scope
      /\ u.entities = mem[i].entities
      /\ u.active = mem[i].active
  BY <1>1 DEF u, Unit
<1>6. QED
  BY <1>4, <1>5 DEF Kept

\* _insert adds one open memory at the end of the store.
LEMMA InsertEffect ==
    ASSUME mem \in Seq(Unit), NEW s \in Statement, InsertUnit(s)
    PROVE  /\ mem' \in Seq(Unit)
           /\ DOMAIN mem' = Ids \cup {Len(mem) + 1}
           /\ Len(mem) + 1 \notin Ids
           /\ \A j \in Ids : j < Len(mem) + 1
           /\ Kept
           /\ \A j \in Ids : mem'[j] = mem[j]
           /\ mem'[Len(mem) + 1] = NewUnit(s)
<1>1. NewUnit(s) \in Unit
  BY DEF NewUnit, Statement, Unit
<1>2. mem' = Append(mem, NewUnit(s))
  BY DEF InsertUnit
<1>3. Len(mem) \in Nat
  OBVIOUS
<1>4. /\ mem' \in Seq(Unit)
      /\ Len(mem') = Len(mem) + 1
      /\ \A j \in 1 .. Len(mem) : mem'[j] = mem[j]
      /\ mem'[Len(mem) + 1] = NewUnit(s)
  BY <1>1, <1>2, AppendProperties
<1>5. DOMAIN mem' = 1 .. Len(mem) + 1 /\ Ids = 1 .. Len(mem)
  BY <1>4 DEF Ids
<1>6. QED
  BY <1>3, <1>4, <1>5 DEF Kept

-----------------------------------------------------------------------------
(* Type correctness *)

\* A write on its way to a reinforce has the unit and the confidence to store.
ReinforceReady ==
    \A w \in Writers :
        pc[w] = "reinforce" => current[w] \in Ids /\ raised[w] \in Confidence

\* What the candidate query returns are open memories of the store.
LEMMA CandidatesAreActive ==
    ASSUME NEW s, NEW C \in CandidateSets(s)
    PROVE  /\ C \subseteq Active
           /\ C \subseteq Ids
           /\ \A i \in C : Related(i, s)
<1>1. C \subseteq Matching(s)
  BY DEF CandidateSets
<1>2. QED
  BY <1>1 DEF Matching, Active

\* The write's local variables keep their types when the store only grows.
LEMMA LocalsKeepTypes ==
    ASSUME TypeOK, mem' \in Seq(Unit), Ids \subseteq DOMAIN mem',
           UNCHANGED <<writerVars, orphaned>>
    PROVE  TypeOK'
BY DEF TypeOK, Ids, writerVars

\* The initial state has the declared types.
LEMMA InitType == Init => TypeOK
<1> SUFFICES ASSUME Init
             PROVE  TypeOK
  OBVIOUS
<1>1. mem \in Seq(Unit)
  BY DEF Init
<1>2. (CHOOSE s \in Extracted : TRUE) \in Statement
  BY StoreAssumption
<1>3. QED
  BY <1>1, <1>2 DEF Init, TypeOK

\* Each query of a write keeps the types, whatever the other writers do.
LEMMA WriteStepType ==
    ASSUME TypeOK, ReinforceReady, NEW w \in Writers, WriteStep(w)
    PROVE  TypeOK'
<1>0. /\ mem \in Seq(Unit)
      /\ stmt[w] \in Statement
      /\ \A i \in Ids : mem[i] \in Unit
  BY DEF TypeOK, Ids
<1>1. CASE ReadCandidates(w)
  <2>1. PICK C \in CandidateSets(stmt[w]) :
          \/ \E i \in EquivalentIn(C, stmt[w]) :
              /\ pc' = [pc EXCEPT ![w] = "reinforce"]
              /\ current' = [current EXCEPT ![w] = i]
              /\ raised' = [raised EXCEPT ![w] =
                              Higher(mem[i].confidence, stmt[w].confidence)]
              /\ UNCHANGED todo
          \/ /\ EquivalentIn(C, stmt[w]) = {}
             /\ pc' = [pc EXCEPT ![w] = "contradicts"]
             /\ \/ \E i \in StrongerIn(C, stmt[w]) :
                      current' = [current EXCEPT ![w] = i]
                \/ StrongerIn(C, stmt[w]) = {} /\ UNCHANGED current
             /\ todo' = [todo EXCEPT ![w] = PrefCandidates(C)]
             /\ UNCHANGED raised
    BY <1>1 DEF ReadCandidates
  <2>2. C \subseteq Ids
    BY CandidatesAreActive
  <2>3. /\ EquivalentIn(C, stmt[w]) \subseteq Ids
        /\ StrongerIn(C, stmt[w]) \subseteq Ids
        /\ PrefCandidates(C) \subseteq Ids
    BY <2>2 DEF EquivalentIn, StrongerIn, PrefCandidates
  <2>4. \A i \in Ids : Higher(mem[i].confidence, stmt[w].confidence) \in Confidence
    BY <1>0 DEF Higher, Unit, Statement
  <2>5. UNCHANGED <<mem, stmt, superseded, orphaned>>
    BY <1>1 DEF ReadCandidates
  <2>6. /\ pc' \in [Writers -> {"idle", "candidates", "contradicts", "close",
                                "insert", "reinforce", "done"}]
        /\ current' \in [Writers -> Ids \cup {None}]
        /\ raised' \in [Writers -> Confidence \cup {None}]
        /\ todo' \in [Writers -> SUBSET Ids]
    BY <2>1, <2>3, <2>4 DEF TypeOK
  <2>7. QED
    BY <2>5, <2>6 DEF TypeOK, Ids
<1>2. CASE JudgeContradictions(w)
  <2>1. \A V \in Verdicts(w) : V \subseteq Ids
    BY DEF Verdicts, Reversed, TypeOK
  <2>2. QED
    BY <1>2, <2>1 DEF JudgeContradictions, TypeOK, Ids
<1>3. CASE CloseSuperseded(w)
  <2>1. PICK i \in todo[w] :
          /\ CloseWindow(i)
          /\ todo' = [todo EXCEPT ![w] = @ \ {i}]
          /\ superseded' = [superseded EXCEPT ![w] = @ \cup {i}]
          /\ pc' = [pc EXCEPT ![w] = IF todo[w] = {i} THEN "insert" ELSE "close"]
    BY <1>3 DEF CloseSuperseded
  <2>2. i \in Ids
    BY DEF TypeOK
  <2>3. mem' \in Seq(Unit) /\ Ids' = Ids
    BY <1>0, <2>1, <2>2, CloseWindowEffect DEF Ids
  <2>4. /\ todo' \in [Writers -> SUBSET Ids]
        /\ superseded' \in [Writers -> SUBSET Ids]
        /\ pc' \in [Writers -> {"idle", "candidates", "contradicts", "close",
                                "insert", "reinforce", "done"}]
    BY <2>1, <2>2 DEF TypeOK
  <2>5. QED
    BY <1>3, <2>3, <2>4 DEF CloseSuperseded, TypeOK
<1>4. CASE Insert(w)
  <2>1. /\ mem' \in Seq(Unit)
        /\ Ids' = Ids \cup {Len(mem) + 1}
    BY <1>0, <1>4, InsertEffect DEF Insert, Ids
  <2>2. QED
    BY <1>4, <2>1 DEF Insert, TypeOK
<1>5. CASE Reinforce(w)
  <2>1. current[w] \in Ids /\ raised[w] \in Confidence
    BY <1>5 DEF Reinforce, ReinforceReady
  <2>2. mem' \in Seq(Unit) /\ Ids' = Ids
    BY <1>0, <1>5, <2>1, SetConfidenceEffect DEF Reinforce, Ids
  <2>3. QED
    BY <1>5, <2>2 DEF Reinforce, TypeOK
<1>6. CASE FailWrite(w)
  <2>1. orphaned \cup superseded[w] \subseteq Ids
    BY DEF TypeOK
  <2>2. QED
    BY <1>6, <2>1 DEF FailWrite, TypeOK, Ids
<1>7. QED
  BY <1>1, <1>2, <1>3, <1>4, <1>5, <1>6 DEF WriteStep

\* A write sets out to reinforce only with a unit and a confidence in hand.
LEMMA WriteStepReady ==
    ASSUME TypeOK, ReinforceReady, NEW w \in Writers, WriteStep(w),
           Ids \subseteq Ids'
    PROVE  ReinforceReady'
<1> SUFFICES ASSUME NEW u \in Writers, (pc[u] = "reinforce")'
             PROVE  (current[u] \in Ids /\ raised[u] \in Confidence)'
  BY DEF ReinforceReady
<1>1. CASE u # w
  <2>1. pc'[u] = pc[u] /\ current'[u] = current[u] /\ raised'[u] = raised[u]
    BY <1>1 DEF WriteStep, ReadCandidates, JudgeContradictions, CloseSuperseded,
                Insert, Reinforce, FailWrite, TypeOK
  <2>2. QED
    BY <2>1 DEF ReinforceReady
<1>2. CASE u = w
  <2>1. ReadCandidates(w)
    BY <1>2 DEF WriteStep, ReadCandidates, JudgeContradictions, CloseSuperseded,
                Insert, Reinforce, FailWrite, TypeOK
  <2>2. PICK C \in CandidateSets(stmt[w]) :
          \E i \in EquivalentIn(C, stmt[w]) :
             /\ current' = [current EXCEPT ![w] = i]
             /\ raised' = [raised EXCEPT ![w] =
                             Higher(mem[i].confidence, stmt[w].confidence)]
    BY <1>2, <2>1 DEF ReadCandidates, TypeOK
  <2>3. \A i \in C : mem[i] \in Unit /\ i \in Ids
    BY CandidatesAreActive DEF TypeOK, Ids
  <2>4. stmt[w] \in Statement
    BY DEF TypeOK
  <2>5. \A i \in C : Higher(mem[i].confidence, stmt[w].confidence) \in Confidence
    BY <2>3, <2>4 DEF Higher, Unit, Statement
  <2>6. QED
    BY <1>2, <2>2, <2>3, <2>5 DEF EquivalentIn, TypeOK
<1>3. QED
  BY <1>1, <1>2

\* An operator's correction moves one unit between the tiers.
LEMMA OperatorEffect ==
    ASSUME TypeOK, OperatorStep
    PROVE  /\ mem' \in Seq(Unit)
           /\ Ids' = Ids
           /\ Kept
           /\ \A j \in Ids : mem'[j].active = mem[j].active
           /\ UNCHANGED <<writerVars, orphaned>>
<1>1. PICK i \in Ids : OperatorArchive(i) \/ OperatorPromote(i)
  BY DEF OperatorStep
<1>2. PICK t \in {"hot", "archive"} : mem' = [mem EXCEPT ![i].tier = t]
  BY <1>1 DEF OperatorArchive, OperatorPromote, Archive, Promote
<1>3. mem \in Seq(Unit)
  BY DEF TypeOK
<1>4. QED
  BY <1>1, <1>2, <1>3, SetTierEffect DEF OperatorArchive, OperatorPromote, Ids

\* No step of the store's actors drops a memory or changes what it says or where
\* it belongs, and none opens a window that was closed.
LEMMA NextKeeps ==
    ASSUME TypeOK, ReinforceReady, Next
    PROVE  /\ Kept
           /\ \A j \in Ids : mem'[j].active => mem[j].active
<1>0. mem \in Seq(Unit)
  BY DEF TypeOK
<1>1. ASSUME NEW w \in Writers, NEW s \in Extracted, BeginWrite(w, s)
      PROVE  /\ Kept
             /\ \A j \in Ids : mem'[j].active => mem[j].active
  BY <1>1 DEF BeginWrite, Kept, Ids
<1>2. ASSUME NEW w \in Writers, WriteStep(w)
      PROVE  /\ Kept
             /\ \A j \in Ids : mem'[j].active => mem[j].active
  <2>1. CASE ReadCandidates(w) \/ JudgeContradictions(w) \/ FailWrite(w)
    BY <2>1 DEF ReadCandidates, JudgeContradictions, FailWrite, Kept, Ids
  <2>2. CASE CloseSuperseded(w)
    <3>1. PICK i \in Ids : CloseWindow(i)
      BY <2>2 DEF CloseSuperseded, TypeOK
    <3>2. QED
      BY <1>0, <3>1, CloseWindowEffect
  <2>3. CASE Insert(w)
    <3>1. stmt[w] \in Statement
      BY DEF TypeOK
    <3>2. QED
      BY <1>0, <2>3, <3>1, InsertEffect DEF Insert
  <2>4. CASE Reinforce(w)
    <3>1. current[w] \in Ids /\ raised[w] \in Confidence
      BY <2>4 DEF Reinforce, ReinforceReady
    <3>2. QED
      BY <1>0, <2>4, <3>1, SetConfidenceEffect DEF Reinforce
  <2>5. QED
    BY <1>2, <2>1, <2>2, <2>3, <2>4 DEF WriteStep
<1>3. CASE OperatorStep
  BY <1>3, OperatorEffect
<1>4. QED
  BY <1>1, <1>2, <1>3 DEF Next

\* The two facts together are inductive.
LEMMA TypeStep ==
    ASSUME TypeOK, ReinforceReady, [Next]_storeVars
    PROVE  TypeOK' /\ ReinforceReady'
<1>1. ASSUME NEW w \in Writers, NEW s \in Extracted, BeginWrite(w, s)
      PROVE  TypeOK' /\ ReinforceReady'
  <2>1. s \in Statement
    BY StoreAssumption
  <2>2. TypeOK'
    BY <1>1, <2>1 DEF BeginWrite, TypeOK, Ids
  <2>3. \A u \in Writers : u # w => pc'[u] = pc[u] /\ current'[u] = current[u]
    BY <1>1 DEF BeginWrite, TypeOK
  <2>4. pc'[w] = "candidates"
    BY <1>1 DEF BeginWrite, TypeOK
  <2>5. QED
    BY <1>1, <2>2, <2>3, <2>4 DEF BeginWrite, ReinforceReady, Ids
<1>2. ASSUME NEW w \in Writers, WriteStep(w)
      PROVE  TypeOK' /\ ReinforceReady'
  <2>1. Next
    BY <1>2 DEF Next
  <2>2. Ids \subseteq Ids'
    BY <2>1, NextKeeps DEF Kept, Ids
  <2>3. QED
    BY <1>2, <2>2, WriteStepType, WriteStepReady
<1>3. CASE OperatorStep
  <2>1. TypeOK'
    BY <1>3, OperatorEffect, LocalsKeepTypes DEF Ids
  <2>2. QED
    BY <1>3, <2>1, OperatorEffect DEF ReinforceReady, writerVars
<1>4. CASE UNCHANGED storeVars
  BY <1>4 DEF storeVars, writerVars, TypeOK, ReinforceReady, Ids
<1>5. QED
  BY <1>1, <1>2, <1>3, <1>4 DEF Next

\* The store and every writer's local variables are well typed in every
\* behaviour of the specification.
THEOREM TypeCorrect == Spec => [](TypeOK /\ ReinforceReady)
<1>1. Init => TypeOK /\ ReinforceReady
  <2>1. Init => ReinforceReady
    BY DEF Init, ReinforceReady
  <2>2. QED
    BY <2>1, InitType
<1>2. TypeOK /\ ReinforceReady /\ [Next]_storeVars => TypeOK' /\ ReinforceReady'
  BY TypeStep
<1>3. QED
  BY <1>1, <1>2, PTL DEF Spec

-----------------------------------------------------------------------------
(* History *)

\* FR-STO-1: whatever the writers and the operator do, no memory is dropped or
\* rewritten, and a closed window stays closed.
THEOREM HistoryKept == Spec => HistoryIsKept
<1>1. TypeOK /\ ReinforceReady /\ [Next]_storeVars
        => [\A i \in Ids :
              /\ i \in DOMAIN mem'
              /\ mem'[i].content = mem[i].content
              /\ mem'[i].scope = mem[i].scope
              /\ mem'[i].active => mem[i].active]_mem
  BY NextKeeps DEF Kept, storeVars
<1>2. QED
  BY <1>1, TypeCorrect, PTL DEF Spec, HistoryIsKept

-----------------------------------------------------------------------------
(* A closed preference leaves an heir *)

\* What a write has still to close, and what it has closed, is on the subject of
\* the memory it is going to insert; and a write that is not between its closes
\* and its insert has closed nothing.
WriteOnSubject ==
    \A w \in Writers :
        /\ pc[w] \in {"contradicts", "close"} =>
              \A i \in todo[w] : Related(i, stmt[w])
        /\ \A i \in superseded[w] : Related(i, stmt[w])
        /\ pc[w] \notin {"close", "insert"} => superseded[w] = {}

\* What holds of the writers whatever else writes to the store.
WriterInv == TypeOK /\ ReinforceReady /\ WriteOnSubject

HeirInv == WriterInv /\ SupersededHasHeir

\* What is on a subject stays on it while the store is kept.
LEMMA SubjectsKept ==
    ASSUME Kept
    PROVE  /\ Ids \subseteq Ids'
           /\ \A i \in Ids, s \in Statement :
                Related(i, s) => /\ mem'[i].scope = s.scope
                                 /\ mem'[i].entities \cap s.entities # {}
           /\ \A i, j \in Ids : SameSubject(i, j) => SameSubject(i, j)'
BY DEF Kept, Related, SameSubject, Ids

\* The effects of a write step that closes no window and inserts nothing.
LEMMA QuietStep ==
    ASSUME WriterInv, NEW w \in Writers,
           ReadCandidates(w) \/ JudgeContradictions(w) \/ Reinforce(w) \/ FailWrite(w)
    PROVE  /\ Kept
           /\ Ids' = Ids
           /\ \A i \in Ids : mem'[i].active = mem[i].active
<1>1. CASE ReadCandidates(w) \/ JudgeContradictions(w) \/ FailWrite(w)
  BY <1>1 DEF ReadCandidates, JudgeContradictions, FailWrite, Kept, Ids
<1>2. CASE Reinforce(w)
  <2>1. current[w] \in Ids /\ raised[w] \in Confidence
    BY <1>2 DEF Reinforce, ReinforceReady, WriterInv
  <2>2. mem \in Seq(Unit)
    BY DEF WriterInv, TypeOK
  <2>3. QED
    BY <1>2, <2>1, <2>2, SetConfidenceEffect DEF Reinforce, Ids
<1>3. QED
  BY <1>1, <1>2

\* Every step of a write keeps its closes on its subject.
LEMMA WriteStepOnSubject ==
    ASSUME WriterInv, NEW w \in Writers, WriteStep(w), Kept
    PROVE  WriteOnSubject'
<1>0. /\ TypeOK
      /\ stmt' = stmt
      /\ \A u \in Writers : stmt[u] \in Statement
      /\ \A u \in Writers : todo[u] \subseteq Ids /\ superseded[u] \subseteq Ids
  BY DEF WriterInv, TypeOK, WriteStep, ReadCandidates, JudgeContradictions,
         CloseSuperseded, Insert, Reinforce, FailWrite
<1>1. \A u \in Writers : \A i \in Ids :
         Related(i, stmt[u]) => Related(i, stmt[u])'
  BY <1>0, SubjectsKept DEF Related
<1> SUFFICES ASSUME NEW u \in Writers
             PROVE  (/\ pc[u] \in {"contradicts", "close"} =>
                          \A i \in todo[u] : Related(i, stmt[u])
                     /\ \A i \in superseded[u] : Related(i, stmt[u])
                     /\ pc[u] \notin {"close", "insert"} => superseded[u] = {})'
  BY DEF WriteOnSubject
<1>2. /\ pc[u] \in {"contradicts", "close"} =>
            \A i \in todo[u] : Related(i, stmt[u])
      /\ \A i \in superseded[u] : Related(i, stmt[u])
      /\ pc[u] \notin {"close", "insert"} => superseded[u] = {}
  BY DEF WriterInv, WriteOnSubject
<1>3. CASE u # w
  <2>1. pc'[u] = pc[u] /\ todo'[u] = todo[u] /\ superseded'[u] = superseded[u]
    BY <1>0, <1>3 DEF WriteStep, ReadCandidates, JudgeContradictions,
                CloseSuperseded, Insert, Reinforce, FailWrite, TypeOK
  <2>2. QED
    BY <1>0, <1>1, <1>2, <2>1
<1>4. CASE u = w
  <2>1. CASE ReadCandidates(w)
    <3>1. PICK C \in CandidateSets(stmt[w]) :
            \/ pc' = [pc EXCEPT ![w] = "reinforce"]
            \/ /\ pc' = [pc EXCEPT ![w] = "contradicts"]
               /\ todo' = [todo EXCEPT ![w] = PrefCandidates(C)]
      BY <2>1 DEF ReadCandidates
    <3>2. \A i \in PrefCandidates(C) : i \in Ids /\ Related(i, stmt[w])
      BY CandidatesAreActive DEF PrefCandidates
    <3>3. superseded'[u] = {}
      BY <1>2, <1>4, <2>1 DEF ReadCandidates
    <3>4. QED
      BY <1>0, <1>1, <1>4, <3>1, <3>2, <3>3 DEF TypeOK
  <2>2. CASE JudgeContradictions(w)
    <3>1. todo'[w] \subseteq todo[w] /\ superseded' = superseded
      <4>1. PICK V \in Verdicts(w) : todo' = [todo EXCEPT ![w] = V]
        BY <2>2 DEF JudgeContradictions
      <4>2. V \subseteq todo[w]
        BY DEF Verdicts, Reversed
      <4>3. QED
        BY <1>0, <2>2, <4>1, <4>2 DEF JudgeContradictions, TypeOK
    <3>2. pc[w] = "contradicts"
      BY <2>2 DEF JudgeContradictions
    <3>3. QED
      BY <1>0, <1>1, <1>2, <1>4, <3>1, <3>2
  <2>3. CASE CloseSuperseded(w)
    <3>1. PICK i \in todo[w] :
            /\ todo' = [todo EXCEPT ![w] = @ \ {i}]
            /\ superseded' = [superseded EXCEPT ![w] = @ \cup {i}]
            /\ pc' = [pc EXCEPT ![w] = IF todo[w] = {i} THEN "insert" ELSE "close"]
      BY <2>3 DEF CloseSuperseded
    <3>2. pc[w] = "close" /\ pc'[w] \in {"close", "insert"}
      BY <1>0, <2>3, <3>1 DEF CloseSuperseded, TypeOK
    <3>3. /\ todo'[w] = todo[w] \ {i}
          /\ superseded'[w] = superseded[w] \cup {i}
      BY <1>0, <3>1 DEF TypeOK
    <3>4. QED
      BY <1>0, <1>1, <1>2, <1>4, <3>2, <3>3
  <2>4. CASE Insert(w) \/ FailWrite(w)
    BY <1>0, <1>4, <2>4 DEF Insert, FailWrite, TypeOK
  <2>5. CASE Reinforce(w)
    BY <1>0, <1>1, <1>2, <1>4, <2>5 DEF Reinforce, TypeOK
  <2>6. QED
    BY <2>1, <2>2, <2>3, <2>4, <2>5 DEF WriteStep
<1>5. QED
  BY <1>3, <1>4

\* Why memory i may be closed: an heir, or a write that is about to insert one or
\* has failed before it could.
HasReason(i) ==
    \/ \E j \in Ids : i < j /\ SameSubject(i, j)
    \/ \E u \in Writers : pc[u] \in {"close", "insert"} /\ i \in superseded[u]
    \/ i \in orphaned

\* A step of a write closes no window without a reason, and takes no reason away.
LEMMA WriteStepHeir ==
    ASSUME WriterInv, NEW w \in Writers, WriteStep(w), Kept,
           NEW i \in (Ids \ Active)'
    PROVE  HasReason(i)' \/ (i \in Ids \ Active /\ ~HasReason(i))
<1>0. TypeOK /\ WriteOnSubject /\ mem \in Seq(Unit)
  BY DEF WriterInv, TypeOK
<1> SUFFICES ASSUME i \in Ids \ Active => HasReason(i)
             PROVE  HasReason(i)'
  OBVIOUS
<1>1. ASSUME i \in Ids \ Active,
             \E j \in Ids : i < j /\ SameSubject(i, j)
      PROVE  (\E j \in Ids : i < j /\ SameSubject(i, j))'
  BY <1>1, SubjectsKept
<1>2. \A u \in Writers \ {w} : pc'[u] = pc[u] /\ superseded'[u] = superseded[u]
  BY <1>0 DEF WriteStep, ReadCandidates, JudgeContradictions,
              CloseSuperseded, Insert, Reinforce, FailWrite, TypeOK
<1>3. orphaned \subseteq orphaned'
  BY DEF WriteStep, ReadCandidates, JudgeContradictions,
         CloseSuperseded, Insert, Reinforce, FailWrite
<1>4. CASE ReadCandidates(w) \/ JudgeContradictions(w) \/ Reinforce(w) \/ FailWrite(w)
  <2>1. i \in Ids \ Active
    BY <1>4, QuietStep DEF Active, Ids
  <2>2. \/ superseded[w] = {}
        \/ superseded[w] \subseteq orphaned'
    BY <1>0, <1>4 DEF ReadCandidates, JudgeContradictions, Reinforce, FailWrite,
                      WriteOnSubject
  <2>3. QED
    BY <1>0, <1>1, <1>2, <1>3, <2>1, <2>2 DEF HasReason
<1>5. CASE CloseSuperseded(w)
  <2>1. PICK k \in todo[w] :
          /\ CloseWindow(k)
          /\ superseded' = [superseded EXCEPT ![w] = @ \cup {k}]
          /\ pc' = [pc EXCEPT ![w] = IF todo[w] = {k} THEN "insert" ELSE "close"]
    BY <1>5 DEF CloseSuperseded
  <2>2. k \in Ids
    BY <1>0 DEF TypeOK
  <2>3. /\ pc'[w] \in {"close", "insert"}
        /\ superseded'[w] = superseded[w] \cup {k}
    BY <1>0, <2>1 DEF TypeOK
  <2>4. /\ Ids' = Ids
        /\ \A j \in Ids : mem'[j].active = (mem[j].active /\ j # k)
    BY <1>0, <2>1, <2>2, CloseWindowEffect DEF Ids
  <2>5. i = k \/ i \in Ids \ Active
    BY <2>4 DEF Active, Ids
  <2>6. QED
    BY <1>0, <1>1, <1>2, <1>3, <2>3, <2>5 DEF HasReason
<1>6. CASE Insert(w)
  <2>0. stmt[w] \in Statement /\ InsertUnit(stmt[w])
    BY <1>0, <1>6 DEF TypeOK, Insert
  <2>1. PICK n \in Nat :
          /\ Ids' = Ids \cup {n}
          /\ \A j \in Ids : j < n
          /\ \A j \in Ids : mem'[j] = mem[j]
          /\ mem'[n] = NewUnit(stmt[w])
    <3>1. Len(mem) + 1 \in Nat
      BY <1>0
    <3>2. QED
      BY <1>0, <2>0, <3>1, InsertEffect DEF Ids
  <2>2. i \in Ids \ Active
    BY <2>1 DEF Active, Ids, NewUnit
  <2>3. CASE i \in superseded[w]
    <3>1. Related(i, stmt[w])
      BY <1>0, <2>3 DEF WriteOnSubject
    <3>2. SameSubject(i, n)'
      BY <2>1, <2>2, <3>1 DEF SameSubject, Related, NewUnit
    <3>3. QED
      BY <2>1, <2>2, <3>2 DEF HasReason
  <2>4. CASE i \notin superseded[w]
    BY <1>0, <1>1, <1>2, <1>3, <2>2, <2>4 DEF HasReason
  <2>5. QED
    BY <2>3, <2>4
<1>7. QED
  BY <1>4, <1>5, <1>6 DEF WriteStep

\* A write begins, with any statement.
LEMMA BeginKeeps ==
    ASSUME WriterInv, NEW w \in Writers, NEW s \in Statement, BeginWrite(w, s)
    PROVE  /\ WriterInv'
           /\ pc[w] \in {"idle", "done"} /\ pc'[w] = "candidates" /\ stmt'[w] = s
           /\ \A u \in Writers \ {w} : pc'[u] = pc[u] /\ stmt'[u] = stmt[u] /\ current'[u] = current[u]
           /\ UNCHANGED <<mem, todo, superseded, orphaned>>
<1>1. /\ pc[w] \in {"idle", "done"} /\ pc'[w] = "candidates" /\ stmt'[w] = s
      /\ superseded[w] = {}
      /\ \A u \in Writers \ {w} : pc'[u] = pc[u] /\ stmt'[u] = stmt[u] /\ current'[u] = current[u]
      /\ UNCHANGED <<mem, raised, todo, superseded, orphaned>>
  BY DEF BeginWrite, WriterInv, TypeOK, WriteOnSubject
<1>2. TypeOK'
  BY DEF BeginWrite, WriterInv, TypeOK, Ids
<1>3. ReinforceReady'
  BY <1>1 DEF WriterInv, ReinforceReady, Ids
<1>4. WriteOnSubject'
  BY <1>1 DEF WriterInv, WriteOnSubject, Related
<1>5. QED
  BY <1>1, <1>2, <1>3, <1>4 DEF WriterInv

\* Each query of a write.
LEMMA WriteKeeps ==
    ASSUME WriterInv, NEW w \in Writers, WriteStep(w)
    PROVE  /\ WriterInv' /\ Kept
           /\ \A j \in Ids : mem'[j].active => mem[j].active
<1>1. Kept /\ \A j \in Ids : mem'[j].active => mem[j].active
  BY NextKeeps DEF Next, WriterInv
<1>2. Ids \subseteq Ids'
  BY <1>1 DEF Kept, Ids
<1>3. TypeOK' /\ ReinforceReady'
  BY <1>2, WriteStepType, WriteStepReady DEF WriterInv
<1>4. QED
  BY <1>1, <1>3, WriteStepOnSubject DEF WriterInv

\* Anybody else who sets a field of a memory (the operator, a job).
LEMMA OthersKeep ==
    ASSUME WriterInv, mem' \in Seq(Unit), Ids' = Ids, Kept,
           UNCHANGED <<writerVars, orphaned>>
    PROVE  WriterInv'
<1>1. TypeOK'
  BY LocalsKeepTypes DEF WriterInv, Ids
<1>2. ReinforceReady'
  BY DEF WriterInv, ReinforceReady, writerVars
<1>3. WriteOnSubject'
  <2>1. \A u \in Writers :
          /\ todo[u] \subseteq Ids /\ superseded[u] \subseteq Ids /\ stmt[u] \in Statement
          /\ pc'[u] = pc[u] /\ stmt'[u] = stmt[u] /\ todo'[u] = todo[u]
          /\ superseded'[u] = superseded[u]
    BY DEF WriterInv, TypeOK, writerVars
  <2>2. \A u \in Writers, i \in Ids : Related(i, stmt[u]) => Related(i, stmt[u])'
    BY <2>1, SubjectsKept DEF Related
  <2>3. QED
    BY <2>1, <2>2 DEF WriterInv, WriteOnSubject
<1>4. QED
  BY <1>1, <1>2, <1>3 DEF WriterInv

\* FR-MNT-1 supersede, for any number of writers and however they interleave or
\* fail: a closed preference has a later memory on its subject, or the write that
\* closed it is about to insert one or has failed.
THEOREM ClosedPreferenceHasHeir == Spec => []SupersededHasHeir
<1>1. Init => HeirInv
  <2>1. Init => WriteOnSubject
    BY DEF Init, WriteOnSubject
  <2>2. Init => SupersededHasHeir
    BY DEF Init, SupersededHasHeir, Ids
  <2>3. Init => ReinforceReady
    BY DEF Init, ReinforceReady
  <2>4. QED
    BY <2>1, <2>2, <2>3, InitType DEF HeirInv, WriterInv
<1>2. HeirInv /\ [Next]_storeVars => HeirInv'
  <2> SUFFICES ASSUME HeirInv, [Next]_storeVars
               PROVE  HeirInv'
    OBVIOUS
  <2>1. WriterInv
    BY DEF HeirInv
  <2>2. ASSUME NEW w \in Writers, NEW s \in Extracted, BeginWrite(w, s)
        PROVE  HeirInv'
    <3>1. s \in Statement
      BY StoreAssumption
    <3>2. /\ WriterInv'
          /\ pc[w] \in {"idle", "done"}
          /\ \A u \in Writers \ {w} : pc'[u] = pc[u]
          /\ UNCHANGED <<mem, superseded, orphaned>>
      BY <2>1, <2>2, <3>1, BeginKeeps
    <3>3. SupersededHasHeir'
      BY <3>2 DEF HeirInv, SupersededHasHeir, Ids, Active, SameSubject
    <3>4. QED
      BY <3>2, <3>3 DEF HeirInv
  <2>3. ASSUME NEW w \in Writers, WriteStep(w)
        PROVE  HeirInv'
    <3>1. WriterInv' /\ Kept
      BY <2>1, <2>3, WriteKeeps
    <3>2. \A i \in (Ids \ Active)' : HasReason(i)'
      BY <2>1, <2>3, <3>1, WriteStepHeir DEF HeirInv, SupersededHasHeir, HasReason
    <3>3. QED
      BY <3>1, <3>2 DEF HeirInv, SupersededHasHeir, HasReason
  <2>4. ASSUME OperatorStep
        PROVE  HeirInv'
    <3>1. /\ mem' \in Seq(Unit) /\ Kept
          /\ Ids' = Ids
          /\ \A i \in Ids : mem'[i].active = mem[i].active
          /\ UNCHANGED <<writerVars, orphaned>>
      BY <2>1, <2>4, OperatorEffect DEF WriterInv
    <3>2. SupersededHasHeir'
      BY <3>1, SubjectsKept DEF HeirInv, SupersededHasHeir, Active, Ids, writerVars
    <3>3. QED
      BY <2>1, <3>1, <3>2, OthersKeep DEF HeirInv
  <2>5. ASSUME UNCHANGED storeVars
        PROVE  HeirInv'
    BY <2>5 DEF storeVars, writerVars, HeirInv, WriterInv, WriteOnSubject, SupersededHasHeir,
                TypeOK, ReinforceReady, Related, Ids, Active, SameSubject
  <2>6. QED
    BY <2>2, <2>3, <2>4, <2>5 DEF Next
<1>3. HeirInv => SupersededHasHeir
  BY DEF HeirInv
<1>4. QED
  BY <1>1, <1>2, <1>3, PTL DEF Spec

-----------------------------------------------------------------------------
(* One writer *)

\* Room is kept for the insert of the write in progress.
RoomKept(w) ==
    /\ Len(mem) <= MaxMemories
    /\ pc[w] \in {"contradicts", "close", "insert"} => Len(mem) < MaxMemories

\* Past the candidate read, no open memory says what the write says.
NothingEquivalent(w) ==
    pc[w] \in {"contradicts", "close", "insert"} =>
        \A i \in Active :
            Related(i, stmt[w]) => <<stmt[w].content, mem[i].content>> \notin Equivalent

\* Open global memories on the write's subject that it reverses.
OpenReversals(w) ==
    {i \in Active : /\ Related(i, stmt[w])
                    /\ mem[i].scope = GlobalScope
                    /\ <<stmt[w].content, mem[i].content>> \in Reverses}

\* They are all on the write's list until it has closed them.
ReversalsAreListed(w) ==
    /\ pc[w] \in {"contradicts", "close"} => OpenReversals(w) \subseteq todo[w]
    /\ pc[w] = "insert" => OpenReversals(w) = {}

SerialInv(w) ==
    /\ TypeOK
    /\ ReinforceReady
    /\ RoomKept(w)
    /\ NothingEquivalent(w)
    /\ NoDuplicateBeliefs

-----------------------------------------------------------------------------
\* A store no larger than the cap is read in full.
LEMMA AllMatchesAreRead ==
    ASSUME TypeOK, Len(mem) <= MaxMemories, MaxMemories <= CandidateCap, NEW s
    PROVE  CandidateSets(s) = {Matching(s)}
<1>1. Len(mem) \in Nat /\ Ids = 1 .. Len(mem)
  BY DEF TypeOK, Ids
<1>2. IsFiniteSet(1 .. Len(mem)) /\ Cardinality(1 .. Len(mem)) = Len(mem)
  BY <1>1, FS_Interval
<1>3. Matching(s) \subseteq 1 .. Len(mem)
  BY <1>1 DEF Matching, Active
<1>4. Cardinality(Matching(s)) <= Len(mem) /\ Cardinality(Matching(s)) \in Nat
  BY <1>2, <1>3, FS_Subset, FS_CardinalityType
<1>5. Cardinality(Matching(s)) <= CandidateCap
  BY <1>1, <1>4, StoreAssumption
<1>6. QED
  BY <1>5 DEF CandidateSets

\* Shrinking the set of open memories cannot create a conflict.
LEMMA FewerBeliefs ==
    ASSUME Kept, Ids' = Ids, \A j \in Ids : mem'[j].active => mem[j].active
    PROVE  /\ Active' \subseteq Active
           /\ NoDuplicateBeliefs => NoDuplicateBeliefs'
           /\ NoStandingReversal => NoStandingReversal'
BY DEF Kept, Ids, Active, NoDuplicateBeliefs, NoStandingReversal, SameSubject

\* What a step of the sole writer, other than its insert, does to the store.
LEMMA OnlyInsertAdds ==
    ASSUME TypeOK, ReinforceReady, NEW w \in Writers, WriteStep(w), ~Insert(w)
    PROVE  /\ Kept
           /\ Ids' = Ids
           /\ \A j \in Ids : mem'[j].active => mem[j].active
<1>1. /\ Kept
      /\ \A j \in Ids : mem'[j].active => mem[j].active
  BY NextKeeps DEF Next
<1>2. Ids' = Ids
  <2>0. mem \in Seq(Unit)
    BY DEF TypeOK
  <2>1. CASE ReadCandidates(w) \/ JudgeContradictions(w) \/ FailWrite(w)
    BY <2>1 DEF ReadCandidates, JudgeContradictions, FailWrite, Ids
  <2>2. CASE CloseSuperseded(w)
    <3>1. PICK i \in Ids : CloseWindow(i)
      BY <2>2 DEF CloseSuperseded, TypeOK
    <3>2. QED
      BY <2>0, <3>1, CloseWindowEffect DEF Ids
  <2>3. CASE Reinforce(w)
    <3>1. current[w] \in Ids /\ raised[w] \in Confidence
      BY <2>3 DEF Reinforce, ReinforceReady
    <3>2. QED
      BY <2>0, <2>3, <3>1, SetConfidenceEffect DEF Reinforce, Ids
  <2>4. QED
    BY <2>1, <2>2, <2>3 DEF WriteStep
<1>3. QED
  BY <1>1, <1>2

\* The memory an insert adds is what the write states.
LEMMA InsertAdds ==
    ASSUME TypeOK, NEW w \in Writers, Insert(w)
    PROVE  \E n \in Nat :
             /\ Ids' = Ids \cup {n}
             /\ Len(mem') = Len(mem) + 1
             /\ \A j \in Ids : j < n
             /\ \A j \in Ids : mem'[j] = mem[j]
             /\ mem'[n].content = stmt[w].content
             /\ mem'[n].scope = stmt[w].scope
             /\ mem'[n].entities = stmt[w].entities
<1>1. mem \in Seq(Unit) /\ stmt[w] \in Statement /\ InsertUnit(stmt[w])
  BY DEF TypeOK, Insert
<1>2. Len(mem) + 1 \in Nat
  BY <1>1
<1>3. Len(mem') = Len(mem) + 1
  BY <1>1 DEF InsertUnit
<1>4. /\ Ids' = Ids \cup {Len(mem) + 1}
      /\ \A j \in Ids : j < Len(mem) + 1
      /\ \A j \in Ids : mem'[j] = mem[j]
      /\ mem'[Len(mem) + 1] = NewUnit(stmt[w])
  BY <1>1, InsertEffect DEF Ids
<1>5. QED
  BY <1>2, <1>3, <1>4 DEF NewUnit

-----------------------------------------------------------------------------
(* add-or-reinforce *)

\* The sole writer's steps keep room for its insert.
LEMMA RoomStep ==
    ASSUME NEW w, Writers = {w}, TypeOK, ReinforceReady, RoomKept(w), Next
    PROVE  RoomKept(w)'
<1>0. mem \in Seq(Unit) /\ Len(mem) \in Nat /\ MaxMemories \in Nat
  BY StoreAssumption DEF TypeOK
<1>1. ASSUME NEW s \in Extracted, BeginWrite(w, s)
      PROVE  RoomKept(w)'
  BY <1>0, <1>1 DEF BeginWrite, RoomKept, TypeOK
<1>2. ASSUME WriteStep(w), ~Insert(w)
      PROVE  RoomKept(w)'
  <2>1. Ids' = Ids
    BY <1>2, OnlyInsertAdds
  <2>2. mem' \in Seq(Unit)
    BY <1>2, TypeStep DEF Next, TypeOK
  <2>3. Len(mem') = Len(mem)
    BY <1>0, <2>1, <2>2 DEF Ids
  <2>4. CASE ReadCandidates(w)
    <3>1. CASE pc'[w] = "reinforce"
      BY <2>3, <3>1 DEF RoomKept
    <3>2. CASE pc'[w] # "reinforce"
      <4>1. RoomForInsert /\ pc[w] = "candidates"
        BY <2>4, <3>2 DEF ReadCandidates, TypeOK
      <4>2. MayInsert = {}
        BY <4>1 DEF MayInsert
      <4>3. Cardinality(MayInsert) = 0
        BY <4>2, FS_EmptySet
      <4>4. Len(mem) < MaxMemories
        BY <1>0, <4>1, <4>3 DEF RoomForInsert
      <4>5. QED
        BY <1>0, <2>3, <4>4 DEF RoomKept
    <3>3. QED
      BY <3>1, <3>2
  <2>5. CASE ~ReadCandidates(w)
    <3>1. pc'[w] \in {"contradicts", "close", "insert"}
            => pc[w] \in {"contradicts", "close", "insert"}
      BY <1>2, <2>5 DEF WriteStep, JudgeContradictions, CloseSuperseded, Reinforce,
                        FailWrite, TypeOK
    <3>2. QED
      BY <2>3, <3>1 DEF RoomKept
  <2>6. QED
    BY <2>4, <2>5
<1>3. ASSUME Insert(w)
      PROVE  RoomKept(w)'
  <2>1. Len(mem') = Len(mem) + 1
    BY <1>3, InsertAdds
  <2>2. pc'[w] = "done" /\ pc[w] = "insert"
    BY <1>3 DEF Insert, TypeOK
  <2>3. QED
    BY <1>0, <2>1, <2>2 DEF RoomKept
<1>4. ASSUME OperatorStep
      PROVE  RoomKept(w)'
  <2>1. mem' \in Seq(Unit) /\ Ids' = Ids /\ pc' = pc
    BY <1>4, OperatorEffect DEF writerVars
  <2>2. Len(mem') = Len(mem)
    BY <1>0, <2>1 DEF Ids
  <2>3. QED
    BY <2>1, <2>2 DEF RoomKept
<1>5. QED
  BY <1>1, <1>2, <1>3, <1>4 DEF Next

\* Past the read, the sole writer knows that nothing equivalent is open.
LEMMA NothingEquivalentStep ==
    ASSUME NEW w, Writers = {w}, MaxMemories <= CandidateCap, SerialInv(w), Next
    PROVE  NothingEquivalent(w)'
<1>0. TypeOK /\ ReinforceReady /\ NothingEquivalent(w) /\ Len(mem) <= MaxMemories
  BY DEF SerialInv, RoomKept
<1> SUFFICES ASSUME (pc[w] \in {"contradicts", "close", "insert"})',
                    NEW i \in Active', Related(i, stmt[w])'
             PROVE  (<<stmt[w].content, mem[i].content>> \notin Equivalent)'
  BY DEF NothingEquivalent
<1>1. ASSUME NEW s \in Extracted, BeginWrite(w, s)
      PROVE  FALSE
  BY <1>0, <1>1 DEF BeginWrite, TypeOK
<1>2. ASSUME WriteStep(w)
      PROVE  (<<stmt[w].content, mem[i].content>> \notin Equivalent)'
  <2>1. /\ stmt' = stmt
        /\ ~Insert(w)
        /\ ReadCandidates(w) \/ pc[w] \in {"contradicts", "close", "insert"}
    BY <1>0, <1>2 DEF WriteStep, ReadCandidates, JudgeContradictions,
         CloseSuperseded, Insert, Reinforce, FailWrite, TypeOK
  <2>2. Kept /\ Ids' = Ids /\ Active' \subseteq Active
    BY <1>0, <1>2, <2>1, OnlyInsertAdds, FewerBeliefs
  <2>3. i \in Active /\ Related(i, stmt[w]) /\ mem'[i].content = mem[i].content
    BY <2>1, <2>2 DEF Kept, Related, Active
  <2>4. CASE ReadCandidates(w)
    <3>1. EquivalentIn(Matching(stmt[w]), stmt[w]) = {}
      BY <1>0, <2>4, AllMatchesAreRead DEF ReadCandidates, TypeOK
    <3>2. i \in Matching(stmt[w])
      BY <2>3 DEF Matching
    <3>3. QED
      BY <2>1, <2>3, <3>1, <3>2 DEF EquivalentIn
  <2>5. CASE pc[w] \in {"contradicts", "close", "insert"}
    BY <1>0, <2>1, <2>3, <2>5 DEF NothingEquivalent
  <2>6. QED
    BY <2>1, <2>4, <2>5
<1>3. ASSUME OperatorStep
      PROVE  (<<stmt[w].content, mem[i].content>> \notin Equivalent)'
  <2>1. /\ Kept /\ Ids' = Ids /\ Active' \subseteq Active
        /\ pc' = pc /\ stmt' = stmt
    BY <1>0, <1>3, OperatorEffect, FewerBeliefs DEF writerVars
  <2>2. QED
    BY <1>0, <2>1 DEF NothingEquivalent, Kept, Related, Active
<1>4. QED
  BY <1>1, <1>2, <1>3 DEF Next

\* No step of the sole writer creates a duplicate.
LEMMA NoDuplicateStep ==
    ASSUME NEW w, Writers = {w}, SerialInv(w), Next
    PROVE  NoDuplicateBeliefs'
<1>0. TypeOK /\ ReinforceReady /\ NothingEquivalent(w) /\ NoDuplicateBeliefs
  BY DEF SerialInv
<1>1. ASSUME NEW s \in Extracted, BeginWrite(w, s)
      PROVE  NoDuplicateBeliefs'
  BY <1>0, <1>1 DEF BeginWrite, NoDuplicateBeliefs, Active, Ids, SameSubject
<1>2. ASSUME WriteStep(w), ~Insert(w)
      PROVE  NoDuplicateBeliefs'
  BY <1>0, <1>2, OnlyInsertAdds, FewerBeliefs
<1>3. ASSUME Insert(w)
      PROVE  NoDuplicateBeliefs'
  <2>1. PICK n \in Nat :
          /\ Ids' = Ids \cup {n}
          /\ \A j \in Ids : j < n
          /\ \A j \in Ids : mem'[j] = mem[j]
          /\ mem'[n].content = stmt[w].content
          /\ mem'[n].scope = stmt[w].scope
          /\ mem'[n].entities = stmt[w].entities
    BY <1>0, <1>3, InsertAdds
  <2> SUFFICES ASSUME NEW i \in Active', NEW j \in Active',
                      i < j, SameSubject(i, j)'
               PROVE  (<<mem[j].content, mem[i].content>> \notin Equivalent)'
    BY DEF NoDuplicateBeliefs
  <2>2. Ids \subseteq Nat /\ n \notin Ids
    BY <1>0, <2>1 DEF TypeOK, Ids
  <2>3. i \in Ids /\ i \in Active
    BY <2>1, <2>2 DEF Active, Ids
  <2>4. CASE j = n
    <3>1. Related(i, stmt[w])
      BY <2>1, <2>3, <2>4 DEF Related, SameSubject
    <3>2. <<stmt[w].content, mem[i].content>> \notin Equivalent
      BY <1>0, <1>3, <2>3, <3>1 DEF NothingEquivalent, Insert
    <3>3. QED
      BY <2>1, <2>3, <2>4, <3>2
  <2>5. CASE j # n
    <3>1. j \in Active /\ SameSubject(i, j)
      BY <2>1, <2>3, <2>5 DEF Active, Ids, SameSubject
    <3>2. <<mem[j].content, mem[i].content>> \notin Equivalent
      BY <1>0, <2>3, <3>1 DEF NoDuplicateBeliefs
    <3>3. QED
      BY <2>1, <2>3, <3>1, <3>2 DEF Active
  <2>6. QED
    BY <2>4, <2>5
<1>4. ASSUME OperatorStep
      PROVE  NoDuplicateBeliefs'
  BY <1>0, <1>4, OperatorEffect, FewerBeliefs
<1>5. QED
  BY <1>1, <1>2, <1>3, <1>4 DEF Next

-----------------------------------------------------------------------------
(* supersede *)

\* The sole writer's list holds every open memory it reverses until it is closed.
LEMMA ReversalsAreListedStep ==
    ASSUME NEW w, Writers = {w}, MaxMemories <= CandidateCap, ~LlmMayFail,
           SerialInv(w), ReversalsAreListed(w), Next
    PROVE  ReversalsAreListed(w)'
<1>0. TypeOK /\ ReinforceReady /\ Len(mem) <= MaxMemories
  BY DEF SerialInv, RoomKept
<1>1. ASSUME NEW s \in Extracted, BeginWrite(w, s)
      PROVE  ReversalsAreListed(w)'
  BY <1>0, <1>1 DEF BeginWrite, TypeOK, ReversalsAreListed
<1>2. ASSUME WriteStep(w)
      PROVE  ReversalsAreListed(w)'
  <2>1. CASE Insert(w) \/ Reinforce(w) \/ FailWrite(w)
    BY <1>0, <2>1 DEF Insert, Reinforce, FailWrite, TypeOK, ReversalsAreListed
  <2>2. CASE ReadCandidates(w)
    <3>1. /\ UNCHANGED <<mem, stmt>>
          /\ \/ pc'[w] = "reinforce"
             \/ /\ pc'[w] = "contradicts"
                /\ todo'[w] = PrefCandidates(Matching(stmt[w]))
      BY <1>0, <2>2, AllMatchesAreRead DEF ReadCandidates, TypeOK
    <3>2. OpenReversals(w) \subseteq PrefCandidates(Matching(stmt[w]))
      BY DEF OpenReversals, PrefCandidates, Matching
    <3>3. OpenReversals(w)' = OpenReversals(w)
      BY <3>1 DEF OpenReversals, Active, Ids, Related
    <3>4. QED
      BY <3>1, <3>2, <3>3 DEF ReversalsAreListed
  <2>3. CASE JudgeContradictions(w)
    <3>1. /\ UNCHANGED <<mem, stmt>>
          /\ todo'[w] = Reversed(w)
          /\ \/ pc'[w] = "close" /\ todo'[w] # {}
             \/ pc'[w] \in {"insert", "done"} /\ todo'[w] = {}
          /\ OpenReversals(w) \subseteq todo[w]
      BY <1>0, <2>3 DEF JudgeContradictions, Verdicts, TypeOK, ReversalsAreListed
    <3>2. OpenReversals(w) \subseteq Reversed(w)
      BY <3>1 DEF OpenReversals, Reversed
    <3>3. OpenReversals(w)' = OpenReversals(w)
      BY <3>1 DEF OpenReversals, Active, Ids, Related
    <3>4. QED
      BY <3>1, <3>2, <3>3 DEF ReversalsAreListed
  <2>4. CASE CloseSuperseded(w)
    <3>1. PICK i \in todo[w] :
            /\ CloseWindow(i)
            /\ todo' = [todo EXCEPT ![w] = @ \ {i}]
            /\ pc' = [pc EXCEPT ![w] = IF todo[w] = {i} THEN "insert" ELSE "close"]
      BY <2>4 DEF CloseSuperseded
    <3>2. i \in Ids /\ mem \in Seq(Unit) /\ stmt' = stmt
      BY <1>0, <2>4 DEF TypeOK, CloseSuperseded
    <3>3. /\ Kept
          /\ Ids' = Ids
          /\ \A j \in Ids : mem'[j].active = (mem[j].active /\ j # i)
      BY <3>1, <3>2, CloseWindowEffect DEF Ids
    <3>4. OpenReversals(w)' \subseteq OpenReversals(w) \ {i}
      BY <3>2, <3>3 DEF OpenReversals, Active, Ids, Related, Kept
    <3>5. OpenReversals(w) \subseteq todo[w]
      BY <2>4 DEF CloseSuperseded, ReversalsAreListed
    <3>6. /\ todo'[w] = todo[w] \ {i}
          /\ pc'[w] = IF todo[w] = {i} THEN "insert" ELSE "close"
      BY <1>0, <3>1 DEF TypeOK
    <3>7. QED
      BY <3>4, <3>5, <3>6 DEF ReversalsAreListed
  <2>5. QED
    BY <1>2, <2>1, <2>2, <2>3, <2>4 DEF WriteStep
<1>3. ASSUME OperatorStep
      PROVE  ReversalsAreListed(w)'
  <2>1. /\ Kept /\ Ids' = Ids /\ Active' \subseteq Active
        /\ pc' = pc /\ stmt' = stmt /\ todo' = todo
    BY <1>0, <1>3, OperatorEffect, FewerBeliefs DEF writerVars
  <2>2. OpenReversals(w)' \subseteq OpenReversals(w)
    BY <2>1 DEF OpenReversals, Active, Kept, Related
  <2>3. QED
    BY <2>1, <2>2 DEF ReversalsAreListed
<1>4. QED
  BY <1>1, <1>2, <1>3 DEF Next

\* No step of the sole writer lets a reversed preference stand.
LEMMA NoReversalStep ==
    ASSUME NEW w, Writers = {w}, TypeOK, ReinforceReady, ReversalsAreListed(w),
           NoStandingReversal, Next
    PROVE  NoStandingReversal'
<1>1. ASSUME NEW s \in Extracted, BeginWrite(w, s)
      PROVE  NoStandingReversal'
  BY <1>1 DEF BeginWrite, NoStandingReversal, Active, Ids, SameSubject
<1>2. ASSUME WriteStep(w), ~Insert(w)
      PROVE  NoStandingReversal'
  BY <1>2, OnlyInsertAdds, FewerBeliefs
<1>3. ASSUME Insert(w)
      PROVE  NoStandingReversal'
  <2>1. PICK n \in Nat :
          /\ Ids' = Ids \cup {n}
          /\ \A j \in Ids : j < n
          /\ \A j \in Ids : mem'[j] = mem[j]
          /\ mem'[n].content = stmt[w].content
          /\ mem'[n].scope = stmt[w].scope
          /\ mem'[n].entities = stmt[w].entities
    BY <1>3, InsertAdds
  <2> SUFFICES ASSUME NEW i \in Active', NEW j \in Active',
                      i < j, SameSubject(i, j)', mem'[i].scope = GlobalScope
               PROVE  (<<mem[j].content, mem[i].content>> \notin Reverses)'
    BY DEF NoStandingReversal
  <2>2. Ids \subseteq Nat /\ n \notin Ids
    BY <2>1 DEF TypeOK, Ids
  <2>3. i \in Ids /\ i \in Active /\ mem[i].scope = GlobalScope
    BY <2>1, <2>2 DEF Active, Ids
  <2>4. CASE j = n
    <3>1. Related(i, stmt[w])
      BY <2>1, <2>3, <2>4 DEF Related, SameSubject
    <3>2. <<stmt[w].content, mem[i].content>> \notin Reverses
      BY <1>3, <2>3, <3>1 DEF ReversalsAreListed, OpenReversals, Insert
    <3>3. QED
      BY <2>1, <2>3, <2>4, <3>2
  <2>5. CASE j # n
    <3>1. j \in Active /\ SameSubject(i, j)
      BY <2>1, <2>3, <2>5 DEF Active, Ids, SameSubject
    <3>2. <<mem[j].content, mem[i].content>> \notin Reverses
      BY <2>3, <3>1 DEF NoStandingReversal
    <3>3. QED
      BY <2>1, <2>3, <3>1, <3>2 DEF Active
  <2>6. QED
    BY <2>4, <2>5
<1>4. ASSUME OperatorStep
      PROVE  NoStandingReversal'
  BY <1>4, OperatorEffect, FewerBeliefs
<1>5. QED
  BY <1>1, <1>2, <1>3, <1>4 DEF Next

\* The whole invariant of a sole writer.
LEMMA SerialStep ==
    ASSUME NEW w, Writers = {w}, MaxMemories <= CandidateCap,
           SerialInv(w), [Next]_storeVars
    PROVE  SerialInv(w)'
<1>1. TypeOK' /\ ReinforceReady'
  BY TypeStep DEF SerialInv
<1>2. CASE Next
  BY <1>1, <1>2, RoomStep, NothingEquivalentStep, NoDuplicateStep DEF SerialInv
<1>3. CASE UNCHANGED storeVars
  <2>1. RoomKept(w)' /\ NothingEquivalent(w)' /\ NoDuplicateBeliefs'
    BY <1>3 DEF SerialInv, RoomKept, NothingEquivalent, NoDuplicateBeliefs,
                storeVars, writerVars, Active, Ids, Related, SameSubject
  <2>2. QED
    BY <1>1, <2>1 DEF SerialInv
<1>4. QED
  BY <1>2, <1>3

\* It holds of the empty store.
LEMMA SerialInit ==
    ASSUME NEW w, Writers = {w}, Init
    PROVE  SerialInv(w)
<1>1. TypeOK
  BY InitType
<1>2. Ids = {} /\ Len(mem) = 0 /\ pc[w] = "idle"
  BY DEF Init, Ids
<1>3. ReinforceReady /\ NothingEquivalent(w) /\ NoDuplicateBeliefs
  BY <1>2 DEF Init, ReinforceReady, NothingEquivalent, NoDuplicateBeliefs, Active
<1>4. RoomKept(w)
  BY <1>2, StoreAssumption DEF RoomKept
<1>5. QED
  BY <1>1, <1>3, <1>4 DEF SerialInv

-----------------------------------------------------------------------------
(* The theorems *)

\* FR-MNT-1 add-or-reinforce: a sole writer whose candidate read sees the whole
\* store never leaves two open memories on one subject of which the later merely
\* restates the earlier, whatever the writes say and wherever they fail.
THEOREM SerialWritesNeverDuplicate ==
    ASSUME NEW w, Writers = {w}, MaxMemories <= CandidateCap
    PROVE  Spec => []NoDuplicateBeliefs
<1>1. Init => SerialInv(w)
  BY SerialInit
<1>2. SerialInv(w) /\ [Next]_storeVars => SerialInv(w)'
  BY SerialStep
<1>3. SerialInv(w) => NoDuplicateBeliefs
  BY DEF SerialInv
<1>4. QED
  BY <1>1, <1>2, <1>3, PTL DEF Spec

\* FR-MNT-1 supersede: with contradiction calls that do not fail, a sole writer
\* whose candidate read sees the whole store never leaves an open global memory
\* beside a later open memory on its subject that reverses it.
THEOREM SerialWritesSupersede ==
    ASSUME NEW w, Writers = {w}, MaxMemories <= CandidateCap, ~LlmMayFail
    PROVE  Spec => []NoStandingReversal
<1> DEFINE Inv == SerialInv(w) /\ ReversalsAreListed(w) /\ NoStandingReversal
<1>1. Init => Inv
  <2> SUFFICES ASSUME Init
               PROVE  Inv
    OBVIOUS
  <2>1. ReversalsAreListed(w) /\ NoStandingReversal
    BY DEF Init, ReversalsAreListed, NoStandingReversal, Active, Ids
  <2>2. QED
    BY <2>1, SerialInit
<1>2. Inv /\ [Next]_storeVars => Inv'
  <2> SUFFICES ASSUME Inv, [Next]_storeVars
               PROVE  Inv'
    OBVIOUS
  <2>1. SerialInv(w)'
    BY SerialStep
  <2>2. CASE Next
    <3>1. ReversalsAreListed(w)'
      BY <2>2, ReversalsAreListedStep
    <3>2. NoStandingReversal'
      BY <2>2, NoReversalStep DEF SerialInv
    <3>3. QED
      BY <2>1, <3>1, <3>2
  <2>3. CASE UNCHANGED storeVars
    <3>1. ReversalsAreListed(w)' /\ NoStandingReversal'
      BY <2>3 DEF ReversalsAreListed, OpenReversals, NoStandingReversal, storeVars,
                  writerVars, Active, Ids, Related, SameSubject
    <3>2. QED
      BY <2>1, <3>1
  <2>4. QED
    BY <2>2, <2>3
<1>3. QED
  BY <1>1, <1>2, PTL DEF Spec

-----------------------------------------------------------------------------
(* The sole writer implements the reference store *)

\* What the reference store holds for the memory j.
Shown(w, j) ==
    IF j \in superseded[w] THEN [mem[j] EXCEPT !.active = TRUE] ELSE mem[j]

\* What the sole writer knows of the store as the reference store sees it.
Decided(w) ==
    /\ pc[w] \in {"contradicts", "close", "insert"} => Reference!Restated(stmt[w]) = {}
    /\ pc[w] = "contradicts" =>
        /\ todo[w] = PrefCandidates(Matching(stmt[w]))
        /\ current[w] = None => Reference!StrongerCopies(stmt[w]) = {}
    /\ pc[w] = "close" =>
        /\ todo[w] # {} /\ todo[w] \subseteq Active
        /\ todo[w] \cup superseded[w] \in Reference!Found(stmt[w])
    /\ pc[w] = "insert" =>
        /\ superseded[w] \in Reference!Found(stmt[w])
        /\ superseded[w] = {} => Reference!StrongerCopies(stmt[w]) = {}
    /\ pc[w] = "reinforce" =>
        /\ current[w] \in EquivalentIn(Matching(stmt[w]), stmt[w])
        /\ raised[w] = Higher(mem[current[w]].confidence, stmt[w].confidence)

\* The windows the write has closed so far.
ClosedSoFar(w) ==
    /\ superseded[w] \cap Active = {}
    /\ pc[w] \notin {"close", "insert"} => superseded[w] = {}

RefinementInv(w) ==
    /\ SerialInv(w)
    /\ stmt[w] \in Extracted
    /\ ClosedSoFar(w)
    /\ Decided(w)

-----------------------------------------------------------------------------
(* The mapped store *)

\* The mapping, memory by memory.
LEMMA Mapped ==
    ASSUME TypeOK, NEW w, Writers = {w}
    PROVE  /\ AsIfAtomic = [j \in Ids |-> Shown(w, j)]
           /\ superseded[w] = {} => AsIfAtomic = mem
<1>1. Underway = superseded[w]
  BY DEF Underway
<1>2. mem = [j \in Ids |-> mem[j]]
  BY DEF TypeOK, Ids
<1>3. QED
  BY <1>1, <1>2 DEF AsIfAtomic, Shown

\* Between two writes the reference's candidates are the store's.
LEMMA SameCandidates ==
    ASSUME TypeOK, NEW w, Writers = {w}, superseded[w] = {}, NEW s
    PROVE  /\ Reference!Candidates(s) = Matching(s)
           /\ Reference!Restated(s) = EquivalentIn(Matching(s), s)
           /\ Reference!StrongerCopies(s) = StrongerIn(Matching(s), s)
           /\ Reference!Contradicted(s) =
                {i \in PrefCandidates(Matching(s)) :
                    <<s.content, mem[i].content>> \in Reverses}
<1>1. AsIfAtomic = mem
  BY Mapped
<1>2. Reference!Candidates(s) = Matching(s)
  BY <1>1 DEF Reference!Candidates, Matching, Related, Active, Ids
<1>3. QED
  BY <1>1, <1>2 DEF Reference!Restated, Reference!StrongerCopies,
       Reference!Contradicted, EquivalentIn, StrongerIn, PrefCandidates

\* What the reference's decisions look at.
SameView ==
    /\ (DOMAIN AsIfAtomic)' = DOMAIN AsIfAtomic
    /\ \A i \in DOMAIN AsIfAtomic :
        /\ AsIfAtomic'[i].content = AsIfAtomic[i].content
        /\ AsIfAtomic'[i].scope = AsIfAtomic[i].scope
        /\ AsIfAtomic'[i].entities = AsIfAtomic[i].entities
        /\ AsIfAtomic'[i].category = AsIfAtomic[i].category
        /\ AsIfAtomic'[i].confidence = AsIfAtomic[i].confidence
        /\ AsIfAtomic'[i].active = AsIfAtomic[i].active

\* Where it does not change, neither do the decisions.
LEMMA SameDecisions ==
    ASSUME NEW w, SameView, stmt'[w] = stmt[w]
    PROVE  /\ Reference!Restated(stmt[w])' = Reference!Restated(stmt[w])
           /\ Reference!StrongerCopies(stmt[w])' = Reference!StrongerCopies(stmt[w])
           /\ Reference!Found(stmt[w])' = Reference!Found(stmt[w])
<1>1. Reference!Candidates(stmt[w])' = Reference!Candidates(stmt[w])
  BY DEF SameView, Reference!Candidates
<1>2. Reference!Candidates(stmt[w]) \subseteq DOMAIN AsIfAtomic
  BY DEF Reference!Candidates
<1>3. Reference!Restated(stmt[w])' = Reference!Restated(stmt[w])
  BY <1>1, <1>2 DEF SameView, Reference!Restated
<1>4. Reference!StrongerCopies(stmt[w])' = Reference!StrongerCopies(stmt[w])
  BY <1>1, <1>2 DEF SameView, Reference!StrongerCopies
<1>5. Reference!Contradicted(stmt[w])' = Reference!Contradicted(stmt[w])
  BY <1>1, <1>2 DEF SameView, Reference!Contradicted
<1>6. QED
  BY <1>3, <1>4, <1>5 DEF Reference!Found

\* A step the reference cannot see changes no decision.
LEMMA UnchangedView == AsIfAtomic' = AsIfAtomic => SameView
BY DEF SameView

\* The mapping, memory by memory, after a step.
LEMMA MappedNext ==
    ASSUME TypeOK', NEW w, Writers = {w}
    PROVE  /\ AsIfAtomic' = [j \in Ids' |-> Shown(w, j)']
           /\ superseded'[w] = {} => AsIfAtomic' = mem'
<1>1. Underway' = superseded'[w]
  BY DEF Underway
<1>2. mem' = [j \in Ids' |-> mem'[j]]
  BY DEF TypeOK, Ids
<1>3. QED
  BY <1>1, <1>2 DEF AsIfAtomic, Shown

\* A write in progress hides what it has closed.
LEMMA CloseIsHidden ==
    ASSUME NEW w, Writers = {w}, RefinementInv(w), CloseSuperseded(w), TypeOK'
    PROVE  AsIfAtomic' = AsIfAtomic
<1>0. TypeOK /\ mem \in Seq(Unit) /\ \A j \in Ids : mem[j] \in Unit
  BY DEF RefinementInv, SerialInv, TypeOK, Ids
<1>1. PICK i \in todo[w] :
        /\ CloseWindow(i)
        /\ superseded' = [superseded EXCEPT ![w] = @ \cup {i}]
  BY DEF CloseSuperseded
<1>2. i \in Ids /\ mem[i].active /\ i \notin superseded[w]
  BY DEF RefinementInv, Decided, ClosedSoFar, CloseSuperseded, Active
<1>3. Ids' = Ids
  BY <1>0, <1>1, <1>2, CloseWindowEffect DEF Ids
<1>4. superseded'[w] = superseded[w] \cup {i}
  BY <1>0, <1>1 DEF TypeOK
<1>5. ASSUME NEW j \in Ids
      PROVE  Shown(w, j)' = Shown(w, j)
  <2>1. CASE j = i
    <3>1. mem'[i] = [mem[i] EXCEPT !.active = FALSE]
      BY <1>0, <1>1, <1>2 DEF CloseWindow, Ids
    <3>2. mem[i] \in Unit /\ mem[i].active = TRUE
      BY <1>0, <1>2 DEF Unit
    <3>3. [mem'[i] EXCEPT !.active = TRUE] = mem[i]
      BY <3>1, <3>2 DEF Unit
    <3>4. QED
      BY <1>2, <1>4, <2>1, <3>3 DEF Shown
  <2>2. CASE j # i
    <3>1. mem'[j] = mem[j]
      BY <1>0, <1>1, <2>2 DEF CloseWindow, Ids
    <3>2. QED
      BY <1>4, <2>2, <3>1 DEF Shown
  <2>3. QED
    BY <2>1, <2>2
<1>6. /\ AsIfAtomic = [j \in Ids |-> Shown(w, j)]
      /\ AsIfAtomic' = [j \in Ids' |-> Shown(w, j)']
  BY <1>0, Mapped, MappedNext
<1>7. QED
  BY <1>3, <1>5, <1>6

\* What the store holds once the hidden closes are shown.
LEMMA ShownClosed ==
    ASSUME TypeOK, NEW w, Writers = {w}, ClosedSoFar(w)
    PROVE  Reference!Closed(superseded[w]) = mem
<1>1. mem = [j \in Ids |-> mem[j]] /\ superseded[w] \subseteq Ids
  BY DEF TypeOK, Ids
<1>2. AsIfAtomic = [j \in Ids |-> Shown(w, j)]
  BY Mapped
<1>3. ASSUME NEW j \in Ids
      PROVE  (IF j \in superseded[w] THEN [AsIfAtomic[j] EXCEPT !.active = FALSE]
              ELSE AsIfAtomic[j]) = mem[j]
  <2>1. mem[j] \in Unit
    BY DEF TypeOK, Ids
  <2>2. CASE j \in superseded[w]
    <3>1. mem[j].active = FALSE
      BY <2>1, <2>2 DEF ClosedSoFar, Active, Unit
    <3>2. AsIfAtomic[j] = [mem[j] EXCEPT !.active = TRUE]
      BY <1>2, <2>2 DEF Shown
    <3>3. [AsIfAtomic[j] EXCEPT !.active = FALSE] = mem[j]
      BY <2>1, <3>1, <3>2 DEF Unit
    <3>4. QED
      BY <2>2, <3>3
  <2>3. CASE j \notin superseded[w]
    BY <1>2, <2>3 DEF Shown
  <2>4. QED
    BY <2>2, <2>3
<1>4. DOMAIN AsIfAtomic = Ids
  BY <1>2
<1>5. QED
  BY <1>1, <1>3, <1>4 DEF Reference!Closed

-----------------------------------------------------------------------------
(* Every step is a step of the reference store, or shows nothing *)

\* Only what is contradicted is ever found to be.
LEMMA FoundIsContradicted ==
    ASSUME NEW s, NEW V \in Reference!Found(s)
    PROVE  V \subseteq Reference!Contradicted(s)
BY DEF Reference!Found

\* The insert is where a write takes effect.
LEMMA InsertTakesEffect ==
    ASSUME NEW w, Writers = {w}, RefinementInv(w), Insert(w), TypeOK'
    PROVE  Reference!Upsert(stmt[w])
<1>0. TypeOK /\ ClosedSoFar(w) /\ Decided(w)
  BY DEF RefinementInv, SerialInv
<1>1. /\ mem' = Append(mem, NewUnit(stmt[w]))
      /\ superseded'[w] = {}
      /\ pc[w] = "insert"
  BY <1>0 DEF Insert, InsertUnit, TypeOK
<1>2. AsIfAtomic' = Append(mem, Reference!Entry(stmt[w]))
  BY <1>1, MappedNext DEF NewUnit, Reference!Entry
<1>3. /\ Reference!Restated(stmt[w]) = {}
      /\ superseded[w] \in Reference!Found(stmt[w])
      /\ superseded[w] = {} => Reference!StrongerCopies(stmt[w]) = {}
  BY <1>0, <1>1 DEF Decided
<1>4. CASE superseded[w] = {}
  <2>1. AsIfAtomic = mem
    BY <1>0, <1>4, Mapped
  <2>2. Reference!Add(stmt[w])
    BY <1>2, <1>3, <1>4, <2>1 DEF Reference!Add
  <2>3. QED
    BY <2>2 DEF Reference!Upsert
<1>5. CASE superseded[w] # {}
  <2>1. Reference!Closed(superseded[w]) = mem
    BY <1>0, ShownClosed
  <2>2. Reference!Supersede(stmt[w])
    BY <1>2, <1>3, <1>5, <2>1 DEF Reference!Supersede
  <2>3. QED
    BY <2>2 DEF Reference!Upsert
<1>6. QED
  BY <1>4, <1>5

\* A write that fails shows what it had closed.
LEMMA FailureShows ==
    ASSUME NEW w, Writers = {w}, RefinementInv(w), FailWrite(w), TypeOK'
    PROVE  Reference!Upsert(stmt[w]) \/ AsIfAtomic' = AsIfAtomic
<1>0. TypeOK /\ ClosedSoFar(w) /\ Decided(w)
  BY DEF RefinementInv, SerialInv
<1>1. mem' = mem /\ superseded'[w] = {}
  BY <1>0 DEF FailWrite, TypeOK
<1>2. AsIfAtomic' = mem
  BY <1>1, MappedNext
<1>3. CASE superseded[w] = {}
  BY <1>0, <1>2, <1>3, Mapped
<1>4. CASE superseded[w] # {}
  <2>1. pc[w] \in {"close", "insert"}
    BY <1>0, <1>4 DEF ClosedSoFar
  <2>2. Reference!Restated(stmt[w]) = {}
    BY <1>0, <2>1 DEF Decided
  <2>3. superseded[w] \subseteq Reference!Contradicted(stmt[w])
    <3>1. CASE pc[w] = "close"
      <4>1. todo[w] \cup superseded[w] \in Reference!Found(stmt[w])
        BY <1>0, <3>1 DEF Decided
      <4>2. QED
        BY <4>1, FoundIsContradicted
    <3>2. CASE pc[w] = "insert"
      <4>1. superseded[w] \in Reference!Found(stmt[w])
        BY <1>0, <3>2 DEF Decided
      <4>2. QED
        BY <4>1, FoundIsContradicted
    <3>3. QED
      BY <2>1, <3>1, <3>2
  <2>4. Reference!Closed(superseded[w]) = mem
    BY <1>0, ShownClosed
  <2>5. Reference!BreakOff(stmt[w])
    BY <1>2, <2>2, <2>3, <2>4 DEF Reference!BreakOff
  <2>6. QED
    BY <2>5 DEF Reference!Upsert
<1>5. QED
  BY <1>3, <1>4

\* A reinforce stores the confidence the reference store would.
LEMMA ReinforceTakesEffect ==
    ASSUME NEW w, Writers = {w}, RefinementInv(w), Reinforce(w), TypeOK'
    PROVE  Reference!Upsert(stmt[w])
<1>0. TypeOK /\ ClosedSoFar(w) /\ Decided(w)
  BY DEF RefinementInv, SerialInv
<1>1. /\ pc[w] = "reinforce"
      /\ mem' = [mem EXCEPT ![current[w]].confidence = raised[w]]
      /\ superseded'[w] = superseded[w]
  BY DEF Reinforce
<1>2. superseded[w] = {}
  BY <1>0, <1>1 DEF ClosedSoFar
<1>3. AsIfAtomic = mem /\ AsIfAtomic' = mem'
  BY <1>0, <1>1, <1>2, Mapped, MappedNext
<1>4. current[w] \in Reference!Restated(stmt[w])
  BY <1>0, <1>1, <1>2, SameCandidates DEF Decided
<1>5. current[w] \in Ids
  BY <1>0, <1>1 DEF Decided, EquivalentIn, Matching, Active
<1>6. raised[w] = IF mem[current[w]].confidence >= stmt[w].confidence
                  THEN mem[current[w]].confidence ELSE stmt[w].confidence
  BY <1>0, <1>1 DEF Decided, Higher
<1>7. mem' = [mem EXCEPT ![current[w]].confidence =
                IF @ >= stmt[w].confidence THEN @ ELSE stmt[w].confidence]
  BY <1>1, <1>5, <1>6
<1>8. Reference!Reinforce(stmt[w])
  BY <1>3, <1>4, <1>7 DEF Reference!Reinforce
<1>9. QED
  BY <1>8 DEF Reference!Upsert

\* An operator's correction is one of the reference store, also while a write has
\* windows to hide.
LEMMA CorrectionTakesEffect ==
    ASSUME NEW w, Writers = {w}, RefinementInv(w), OperatorStep, TypeOK'
    PROVE  /\ \E i \in DOMAIN AsIfAtomic, tier \in {"hot", "archive"} :
                Reference!SetTier(i, tier)
           /\ SameView
<1>0. TypeOK
  BY DEF RefinementInv, SerialInv
<1>1. PICK i \in Ids, t \in {"hot", "archive"} : mem' = [mem EXCEPT ![i].tier = t]
  BY DEF OperatorStep, OperatorArchive, OperatorPromote, Archive, Promote
<1>2. superseded' = superseded /\ Ids' = Ids
  BY <1>0, OperatorEffect DEF writerVars
<1>3. /\ AsIfAtomic = [j \in Ids |-> Shown(w, j)]
      /\ AsIfAtomic' = [j \in Ids |-> Shown(w, j)']
  BY <1>0, <1>2, Mapped, MappedNext
<1>4. \A j \in Ids : mem[j] \in Unit
  BY <1>0 DEF TypeOK, Ids
<1>5. ASSUME NEW j \in Ids
      PROVE  Shown(w, j)' = IF j = i THEN [Shown(w, i) EXCEPT !.tier = t] ELSE Shown(w, j)
  <2>1. CASE j = i
    <3>1. mem'[i] = [mem[i] EXCEPT !.tier = t]
      BY <1>0, <1>1 DEF TypeOK, Ids
    <3>2. [[mem[i] EXCEPT !.tier = t] EXCEPT !.active = TRUE]
            = [[mem[i] EXCEPT !.active = TRUE] EXCEPT !.tier = t]
      BY <1>4 DEF Unit
    <3>3. QED
      BY <1>2, <2>1, <3>1, <3>2 DEF Shown
  <2>2. CASE j # i
    <3>1. mem'[j] = mem[j]
      BY <1>0, <1>1, <2>2 DEF TypeOK, Ids
    <3>2. QED
      BY <1>2, <2>2, <3>1 DEF Shown
  <2>3. QED
    BY <2>1, <2>2
<1>6. AsIfAtomic' = [AsIfAtomic EXCEPT ![i].tier = t]
  BY <1>1, <1>3, <1>5
<1>7. DOMAIN AsIfAtomic = Ids
  BY <1>3
<1>8. SameView
  <2>1. \A j \in Ids : Shown(w, j) \in Unit
    BY <1>4 DEF Shown, Unit
  <2>2. \A j \in Ids : AsIfAtomic[j] \in Unit
    BY <1>3, <2>1
  <2>3. QED
    BY <1>6, <1>7, <2>2 DEF SameView, Unit
<1>9. QED
  BY <1>1, <1>6, <1>7, <1>8 DEF Reference!SetTier

\* The rest of a write is hidden.
LEMMA OtherStepsAreHidden ==
    ASSUME UNCHANGED <<mem, superseded>>
    PROVE  AsIfAtomic' = AsIfAtomic
BY DEF AsIfAtomic, Underway, Ids

\* The step simulation, under the invariant.
LEMMA Simulation ==
    ASSUME NEW w, Writers = {w}, RefinementInv(w), TypeOK', [Next]_storeVars
    PROVE  [Reference!Next]_AsIfAtomic
<1>1. ASSUME NEW s \in Extracted, BeginWrite(w, s)
      PROVE  AsIfAtomic' = AsIfAtomic
  BY <1>1, OtherStepsAreHidden DEF BeginWrite
<1>2. ASSUME WriteStep(w)
      PROVE  AsIfAtomic' = AsIfAtomic \/ Reference!Upsert(stmt[w])
  <2>1. CASE ReadCandidates(w) \/ JudgeContradictions(w)
    BY <2>1, OtherStepsAreHidden DEF ReadCandidates, JudgeContradictions
  <2>2. QED
    BY <1>2, <2>1, CloseIsHidden, InsertTakesEffect, ReinforceTakesEffect, FailureShows
       DEF WriteStep
<1>3. ASSUME OperatorStep
      PROVE  Reference!Next
  BY <1>3, CorrectionTakesEffect DEF Reference!Next
<1>4. CASE UNCHANGED storeVars
  BY <1>4, OtherStepsAreHidden DEF storeVars, writerVars
<1>5. stmt[w] \in Extracted
  BY DEF RefinementInv
<1>6. QED
  BY <1>1, <1>2, <1>3, <1>4, <1>5 DEF Next, Reference!Next

-----------------------------------------------------------------------------
(* The invariant is inductive *)

\* A correction changes nothing the write's queries or decisions look at.
LEMMA CorrectionKeeps ==
    ASSUME NEW w, TypeOK, OperatorStep
    PROVE  /\ Active' = Active
           /\ EquivalentIn(Matching(stmt[w]), stmt[w])' = EquivalentIn(Matching(stmt[w]), stmt[w])
           /\ PrefCandidates(Matching(stmt[w]))' = PrefCandidates(Matching(stmt[w]))
           /\ \A j \in Ids : mem'[j].confidence = mem[j].confidence
<1>1. PICK i \in Ids, t \in {"hot", "archive"} : mem' = [mem EXCEPT ![i].tier = t]
  BY DEF OperatorStep, OperatorArchive, OperatorPromote, Archive, Promote
<1>2. Ids' = Ids /\ \A j \in Ids : mem[j] \in Unit
  BY OperatorEffect DEF TypeOK, Ids
<1>3. mem'[i] = [mem[i] EXCEPT !.tier = t] /\ \A j \in Ids \ {i} : mem'[j] = mem[j]
  BY <1>1, <1>2 DEF TypeOK, Ids
<1>4. \A j \in Ids : /\ mem'[j].content = mem[j].content
                     /\ mem'[j].scope = mem[j].scope
                     /\ mem'[j].entities = mem[j].entities
                     /\ mem'[j].active = mem[j].active
                     /\ mem'[j].confidence = mem[j].confidence
  BY <1>2, <1>3 DEF Unit
<1>5. Active' = Active
  BY <1>2, <1>4 DEF Active
<1>6. stmt' = stmt
  BY OperatorEffect DEF writerVars
<1>7. Matching(stmt[w])' = Matching(stmt[w]) /\ Matching(stmt[w]) \subseteq Ids
  BY <1>4, <1>5, <1>6 DEF Matching, Related, Active
<1>8. QED
  BY <1>4, <1>5, <1>6, <1>7 DEF EquivalentIn, PrefCandidates

\* The read takes its decision from the whole store.
LEMMA ReadDecides ==
    ASSUME NEW w, Writers = {w}, MaxMemories <= CandidateCap, RefinementInv(w),
           ReadCandidates(w)
    PROVE  ClosedSoFar(w)' /\ Decided(w)'
<1>0. TypeOK /\ ClosedSoFar(w) /\ Len(mem) <= MaxMemories
  BY DEF RefinementInv, SerialInv, RoomKept
<1>1. /\ pc[w] = "candidates" /\ superseded[w] = {}
      /\ UNCHANGED <<mem, stmt, superseded>>
      /\ CandidateSets(stmt[w]) = {Matching(stmt[w])}
  BY <1>0, AllMatchesAreRead DEF ReadCandidates, ClosedSoFar
<1>2. /\ Active' = Active
      /\ EquivalentIn(Matching(stmt[w]), stmt[w])' = EquivalentIn(Matching(stmt[w]), stmt[w])
      /\ PrefCandidates(Matching(stmt[w]))' = PrefCandidates(Matching(stmt[w]))
  BY <1>1 DEF Active, Ids, EquivalentIn, PrefCandidates, Matching, Related
<1>3. SameView
  BY <1>1, OtherStepsAreHidden, UnchangedView
<1>4. /\ Reference!Restated(stmt[w])' = EquivalentIn(Matching(stmt[w]), stmt[w])
      /\ Reference!StrongerCopies(stmt[w])' = StrongerIn(Matching(stmt[w]), stmt[w])
  <2>1. /\ Reference!Restated(stmt[w]) = EquivalentIn(Matching(stmt[w]), stmt[w])
        /\ Reference!StrongerCopies(stmt[w]) = StrongerIn(Matching(stmt[w]), stmt[w])
    BY <1>0, <1>1, SameCandidates
  <2>2. stmt'[w] = stmt[w]
    BY <1>1
  <2>3. /\ Reference!Restated(stmt[w])' = Reference!Restated(stmt[w])
        /\ Reference!StrongerCopies(stmt[w])' = Reference!StrongerCopies(stmt[w])
    BY <1>3, <2>2, SameDecisions
  <2>4. QED
    BY <2>1, <2>3
<1>5. ClosedSoFar(w)'
  BY <1>1, <1>2 DEF ClosedSoFar
<1>6. CASE \E i \in EquivalentIn(Matching(stmt[w]), stmt[w]) :
            /\ pc' = [pc EXCEPT ![w] = "reinforce"]
            /\ current' = [current EXCEPT ![w] = i]
            /\ raised' = [raised EXCEPT ![w] = Higher(mem[i].confidence, stmt[w].confidence)]
  <2>1. /\ pc'[w] = "reinforce"
        /\ current'[w] \in EquivalentIn(Matching(stmt[w]), stmt[w])
        /\ raised'[w] = Higher(mem[current'[w]].confidence, stmt[w].confidence)
    BY <1>0, <1>6 DEF TypeOK
  <2>2. QED
    BY <1>1, <1>2, <1>5, <2>1 DEF Decided, Higher
<1>7. CASE /\ EquivalentIn(Matching(stmt[w]), stmt[w]) = {}
           /\ pc' = [pc EXCEPT ![w] = "contradicts"]
           /\ \/ \E i \in StrongerIn(Matching(stmt[w]), stmt[w]) :
                    current' = [current EXCEPT ![w] = i]
              \/ StrongerIn(Matching(stmt[w]), stmt[w]) = {} /\ UNCHANGED current
           /\ todo' = [todo EXCEPT ![w] = PrefCandidates(Matching(stmt[w]))]
  <2>1. pc'[w] = "contradicts" /\ todo'[w] = PrefCandidates(Matching(stmt[w]))
    BY <1>0, <1>7 DEF TypeOK
  <2>2. current'[w] = None => StrongerIn(Matching(stmt[w]), stmt[w]) = {}
    <3>1. StrongerIn(Matching(stmt[w]), stmt[w]) \subseteq Nat
      BY <1>0 DEF StrongerIn, Matching, Active, Ids, TypeOK
    <3>2. None \notin Nat
      BY StoreAssumption
    <3>3. QED
      BY <1>0, <1>7, <3>1, <3>2 DEF TypeOK
  <2>3. QED
    BY <1>2, <1>4, <1>5, <1>7, <2>1, <2>2 DEF Decided
<1>8. QED
  BY <1>1, <1>6, <1>7 DEF ReadCandidates

\* The verdict is one the reference store may find.
LEMMA JudgeDecides ==
    ASSUME NEW w, Writers = {w}, RefinementInv(w), JudgeContradictions(w)
    PROVE  ClosedSoFar(w)' /\ Decided(w)'
<1>0. TypeOK /\ ClosedSoFar(w) /\ Decided(w)
  BY DEF RefinementInv, SerialInv
<1>1. /\ pc[w] = "contradicts" /\ superseded[w] = {}
      /\ UNCHANGED <<mem, stmt, current, superseded>>
  BY <1>0 DEF JudgeContradictions, ClosedSoFar
<1>2. Active' = Active
  BY <1>1 DEF Active, Ids
<1>3. SameView
  BY <1>1, OtherStepsAreHidden, UnchangedView
<1>4. /\ Reference!Restated(stmt[w])' = {}
      /\ current[w] = None => Reference!StrongerCopies(stmt[w])' = {}
      /\ Reference!Found(stmt[w])' = Reference!Found(stmt[w])
  BY <1>0, <1>1, <1>3, SameDecisions DEF Decided
<1>5. Verdicts(w) = Reference!Found(stmt[w])
  <2>1. Reversed(w) = Reference!Contradicted(stmt[w])
    BY <1>0, <1>1, SameCandidates DEF Reversed, Decided
  <2>2. QED
    BY <2>1 DEF Verdicts, Reference!Found
<1>6. todo[w] \subseteq Active
  BY <1>0, <1>1 DEF Decided, PrefCandidates, Matching
<1>7. PICK V \in Verdicts(w) :
        /\ todo'[w] = V
        /\ \/ V # {} /\ pc'[w] = "close"
           \/ V = {} /\ current[w] = None /\ pc'[w] = "insert"
           \/ pc'[w] = "done"
  BY <1>0 DEF JudgeContradictions, TypeOK
<1>8. V \subseteq Active
  BY <1>6, <1>7 DEF Verdicts, Reversed
<1>9. ClosedSoFar(w)'
  BY <1>1, <1>2 DEF ClosedSoFar
<1>10. QED
  BY <1>1, <1>2, <1>4, <1>5, <1>7, <1>8, <1>9 DEF Decided

\* A close moves one memory from what is to be closed to what is.
LEMMA CloseDecides ==
    ASSUME NEW w, Writers = {w}, RefinementInv(w), CloseSuperseded(w), TypeOK'
    PROVE  ClosedSoFar(w)' /\ Decided(w)'
<1>0. TypeOK /\ ClosedSoFar(w) /\ Decided(w) /\ mem \in Seq(Unit)
  BY DEF RefinementInv, SerialInv, TypeOK
<1>1. PICK i \in todo[w] :
        /\ CloseWindow(i)
        /\ todo'[w] = todo[w] \ {i}
        /\ superseded'[w] = superseded[w] \cup {i}
        /\ pc'[w] = IF todo[w] = {i} THEN "insert" ELSE "close"
        /\ pc[w] = "close" /\ stmt' = stmt
  BY <1>0 DEF CloseSuperseded, TypeOK
<1>2. i \in Ids
  BY <1>0, <1>1 DEF TypeOK
<1>3. Ids' = Ids /\ \A j \in Ids : mem'[j].active = (mem[j].active /\ j # i)
  BY <1>0, <1>1, <1>2, CloseWindowEffect DEF Ids
<1>4. Active' = Active \ {i}
  BY <1>3 DEF Active
<1>5. SameView
  BY CloseIsHidden, UnchangedView
<1>6. /\ Reference!Restated(stmt[w])' = {}
      /\ todo[w] \cup superseded[w] \in Reference!Found(stmt[w])'
  BY <1>0, <1>1, <1>5, SameDecisions DEF Decided
<1>7. todo'[w] \cup superseded'[w] = todo[w] \cup superseded[w]
  BY <1>1
<1>8. ClosedSoFar(w)'
  BY <1>0, <1>1, <1>4 DEF ClosedSoFar
<1>9. todo'[w] \subseteq Active'
  BY <1>0, <1>1, <1>4 DEF Decided
<1>10. CASE todo[w] = {i}
  <2>1. todo'[w] = {} /\ pc'[w] = "insert" /\ superseded'[w] # {}
    BY <1>1, <1>10
  <2>2. QED
    BY <1>6, <1>7, <1>8, <2>1 DEF Decided
<1>11. CASE todo[w] # {i}
  <2>1. todo'[w] # {} /\ pc'[w] = "close"
    BY <1>1, <1>11
  <2>2. QED
    BY <1>6, <1>7, <1>8, <1>9, <2>1 DEF Decided
<1>12. QED
  BY <1>10, <1>11

\* A correction leaves every decision standing.
LEMMA CorrectionDecides ==
    ASSUME NEW w, Writers = {w}, RefinementInv(w), OperatorStep, TypeOK'
    PROVE  ClosedSoFar(w)' /\ Decided(w)'
<1>0. TypeOK /\ ClosedSoFar(w) /\ Decided(w)
  BY DEF RefinementInv, SerialInv
<1>1. UNCHANGED writerVars
  BY <1>0, OperatorEffect
<1>2. /\ Active' = Active
      /\ EquivalentIn(Matching(stmt[w]), stmt[w])' = EquivalentIn(Matching(stmt[w]), stmt[w])
      /\ PrefCandidates(Matching(stmt[w]))' = PrefCandidates(Matching(stmt[w]))
      /\ \A j \in Ids : mem'[j].confidence = mem[j].confidence
  BY <1>0, <1>1, CorrectionKeeps DEF writerVars
<1>3. SameView
  BY CorrectionTakesEffect
<1>4. /\ Reference!Restated(stmt[w])' = Reference!Restated(stmt[w])
      /\ Reference!StrongerCopies(stmt[w])' = Reference!StrongerCopies(stmt[w])
      /\ Reference!Found(stmt[w])' = Reference!Found(stmt[w])
  BY <1>1, <1>3, SameDecisions DEF writerVars
<1>5. ClosedSoFar(w)'
  BY <1>0, <1>1, <1>2 DEF ClosedSoFar, writerVars
<1>6. pc[w] = "reinforce" => current[w] \in Ids
  BY <1>0 DEF Decided, EquivalentIn, Matching, Active
<1>7. QED
  BY <1>0, <1>1, <1>2, <1>4, <1>5, <1>6 DEF Decided, writerVars

\* Every step of the sole writer and the operator keeps the invariant.
LEMMA RefinementStep ==
    ASSUME NEW w, Writers = {w}, MaxMemories <= CandidateCap, RefinementInv(w),
           [Next]_storeVars
    PROVE  RefinementInv(w)'
<1>0. TypeOK /\ ClosedSoFar(w) /\ Decided(w) /\ stmt[w] \in Extracted
  BY DEF RefinementInv, SerialInv
<1>1. SerialInv(w)' /\ TypeOK'
  BY SerialStep DEF RefinementInv, SerialInv
<1>2. stmt'[w] \in Extracted
  <2>1. ASSUME NEW s \in Extracted, BeginWrite(w, s)
        PROVE  stmt'[w] \in Extracted
    BY <1>0, <2>1 DEF BeginWrite, TypeOK
  <2>2. CASE WriteStep(w)
    BY <1>0, <2>2 DEF WriteStep, ReadCandidates, JudgeContradictions, CloseSuperseded,
                      Insert, Reinforce, FailWrite
  <2>3. CASE OperatorStep
    BY <1>0, <2>3, OperatorEffect DEF writerVars
  <2>4. CASE UNCHANGED storeVars
    BY <1>0, <2>4 DEF storeVars, writerVars
  <2>5. QED
    BY <2>1, <2>2, <2>3, <2>4 DEF Next
<1>3. ASSUME NEW s \in Extracted, BeginWrite(w, s)
      PROVE  ClosedSoFar(w)' /\ Decided(w)'
  BY <1>0, <1>3 DEF BeginWrite, TypeOK, ClosedSoFar, Decided, Active, Ids
<1>4. ASSUME Insert(w) \/ Reinforce(w) \/ FailWrite(w)
      PROVE  ClosedSoFar(w)' /\ Decided(w)'
  <2>1. pc'[w] \in {"idle", "done"} /\ superseded'[w] = {}
    BY <1>0, <1>4 DEF Insert, Reinforce, FailWrite, TypeOK, ClosedSoFar
  <2>2. QED
    BY <2>1 DEF ClosedSoFar, Decided
<1>5. ASSUME WriteStep(w)
      PROVE  ClosedSoFar(w)' /\ Decided(w)'
  BY <1>1, <1>4, <1>5, ReadDecides, JudgeDecides, CloseDecides DEF WriteStep
<1>6. ASSUME OperatorStep
      PROVE  ClosedSoFar(w)' /\ Decided(w)'
  BY <1>1, <1>6, CorrectionDecides
<1>7. CASE UNCHANGED storeVars
  <2>1. SameView /\ Active' = Active /\ UNCHANGED <<mem, writerVars>>
    BY <1>7, OtherStepsAreHidden, UnchangedView DEF storeVars, writerVars, Active, Ids
  <2>2. /\ Reference!Restated(stmt[w])' = Reference!Restated(stmt[w])
        /\ Reference!StrongerCopies(stmt[w])' = Reference!StrongerCopies(stmt[w])
        /\ Reference!Found(stmt[w])' = Reference!Found(stmt[w])
    BY <2>1, SameDecisions DEF writerVars
  <2>3. /\ EquivalentIn(Matching(stmt[w]), stmt[w])' = EquivalentIn(Matching(stmt[w]), stmt[w])
        /\ PrefCandidates(Matching(stmt[w]))' = PrefCandidates(Matching(stmt[w]))
    BY <2>1 DEF writerVars, EquivalentIn, PrefCandidates, Matching, Related
  <2>4. ClosedSoFar(w)' /\ Decided(w)'
    BY <1>0, <2>1, <2>2, <2>3 DEF ClosedSoFar, Decided, writerVars, Higher
  <2>5. QED
    BY <1>1, <1>2, <2>4 DEF RefinementInv
<1>8. QED
  BY <1>1, <1>2, <1>3, <1>5, <1>6, <1>7 DEF Next, RefinementInv

\* It holds of the empty store, which is the reference's empty store.
LEMMA RefinementInit ==
    ASSUME NEW w, Writers = {w}, Init
    PROVE  RefinementInv(w) /\ Reference!Init
<1>1. SerialInv(w) /\ TypeOK
  BY SerialInit DEF SerialInv
<1>2. /\ pc[w] = "idle" /\ superseded[w] = {} /\ mem = <<>>
      /\ stmt[w] \in Extracted
  BY StoreAssumption DEF Init
<1>3. ClosedSoFar(w) /\ Decided(w)
  BY <1>2 DEF ClosedSoFar, Decided
<1>4. AsIfAtomic = <<>>
  BY <1>1, <1>2, Mapped
<1>5. QED
  BY <1>1, <1>2, <1>3, <1>4 DEF RefinementInv, Reference!Init

\* upsert_memory, "Order matches the InMemory fake so behavior is consistent across
\* backends": with one writer, and a candidate cap no smaller than the store, every
\* behaviour of the backend's interleaved queries, the operator's corrections and
\* failing calls included, is one of the reference store that decides and acts at
\* once.
THEOREM SerialWritesAreAtomic ==
    ASSUME NEW w, Writers = {w}, MaxMemories <= CandidateCap
    PROVE  Spec => ImplementsReference
<1>1. Init => RefinementInv(w) /\ Reference!Init
  BY RefinementInit
<1>2. RefinementInv(w) /\ [Next]_storeVars => RefinementInv(w)'
  BY RefinementStep
<1>3. RefinementInv(w) /\ [Next]_storeVars => [Reference!Next]_AsIfAtomic
  <2> SUFFICES ASSUME RefinementInv(w), [Next]_storeVars
               PROVE  [Reference!Next]_AsIfAtomic
    OBVIOUS
  <2>1. TypeOK'
    BY TypeStep DEF RefinementInv, SerialInv
  <2>2. QED
    BY <2>1, Simulation
<1>4. QED
  BY <1>1, <1>2, <1>3, PTL DEF Spec, ImplementsReference, Reference!Spec

=============================================================================
