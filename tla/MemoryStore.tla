---------------------------- MODULE MemoryStore ----------------------------
(***************************************************************************)
(* The memory store of mnemozine/storage/backend.py and its 4-way write    *)
(* (FR-MNT-1).  upsert_memory is a coroutine: the candidate read, the      *)
(* contradiction verdict, every window close, the insert and the reinforce *)
(* are separate queries with an await between them, so two writers (or a   *)
(* writer and an operator's correction) interleave at exactly those        *)
(* points, and a failing query abandons a write half way.                  *)
(*                                                                         *)
(* Simplifications.                                                        *)
(*  - A memory is its position in mem: ids are handed out in insertion     *)
(*    order, which also stands for valid_from.  Memory nodes are never     *)
(*    deleted by the code.                                                 *)
(*  - Texts are model values.  Equivalent holds the pairs that are equal   *)
(*    after strip() or whose cosine reaches dedup.equivalence_threshold;   *)
(*    Folded maps a text to its lower-cased form; Reverses holds the pairs *)
(*    (new, old) the contradiction prompt answers yes to.                  *)
(*  - Embedding calls only take time, so an embed and the query after it   *)
(*    are one step.                                                        *)
(***************************************************************************)
EXTENDS Naturals, Sequences, FiniteSets

CONSTANTS
    Writers,        \* coroutines that call upsert_memory
    Extracted,      \* the MemoryUnits the extractor hands to them
    Content, Scope, Entity, Category, Confidence,
    GlobalScope,    \* Scope.global_()
    Equivalent, Folded, Reverses,
    CandidateCap,   \* maintenance.contradiction_candidate_cap
    LlmMayFail,     \* TRUE: a contradiction call may raise
    MaxMemories,    \* bound: nodes the store can hold
    None            \* no memory

Statement == [content: Content, scope: Scope, entities: SUBSET Entity,
              category: Category, confidence: Confidence]

ASSUME StoreAssumption ==
    /\ Extracted \subseteq Statement
    /\ Extracted # {}
    /\ Confidence \subseteq Nat
    /\ CandidateCap \in Nat
    /\ MaxMemories \in Nat
    /\ None \notin Nat
    /\ LlmMayFail \in BOOLEAN

\* Equality after strip() is one of the two tests of equivalence, and cosine
\* similarity is symmetric.
ASSUME EquivalenceAssumption ==
    /\ \A c \in Content : <<c, c>> \in Equivalent
    /\ \A c, d \in Content : <<c, d>> \in Equivalent => <<d, c>> \in Equivalent

VARIABLES
    mem,            \* the MnemozineMemory nodes
    pc,             \* pc[w]: where writer w is in upsert_memory
    stmt,           \* stmt[w]: the memory it writes
    current,        \* current[w]: WriteResult.memory, once it is known
    raised,         \* raised[w]: the confidence its reinforce will store, or None
    todo,           \* todo[w]: candidates still to judge, then still to close
    superseded,     \* superseded[w]: windows the write in progress has closed
    orphaned        \* history: windows closed by a write that then failed

writerVars == <<pc, stmt, current, raised, todo, superseded>>
storeVars == <<mem, writerVars, orphaned>>

-----------------------------------------------------------------------------
(* The store *)

Unit == [content: Content, scope: Scope, entities: SUBSET Entity,
         category: Category, confidence: Confidence,
         tier: {"hot", "archive"}, active: BOOLEAN]

Ids == DOMAIN mem

\* MemoryUnit.is_active: valid_to IS NULL.
Active == {i \in Ids : mem[i].active}

Hot == {i \in Ids : mem[i].tier = "hot"}

Related(i, s) ==
    mem[i].scope = s.scope /\ mem[i].entities \cap s.entities # {}

\* Mutant of Matching: only hot memories are candidates.
MatchingHotOnly(s) == {i \in Active \cap Hot : Related(i, s)}

\* Every memory the candidate query matches: same scope, open window, a shared
\* entity.  The tier is not part of the query.
Matching(s) == {i \in Active : Related(i, s)}

\* What the query returns: LIMIT without an ORDER BY, so beyond the cap any
\* CandidateCap of the matches.
CandidateSets(s) ==
    IF Cardinality(Matching(s)) <= CandidateCap
    THEN {Matching(s)}
    ELSE {C \in SUBSET Matching(s) : Cardinality(C) = CandidateCap}

NewUnit(s) ==
    [content |-> s.content, scope |-> s.scope, entities |-> s.entities,
     category |-> s.category, confidence |-> s.confidence,
     tier |-> "hot", active |-> TRUE]

\* _insert
InsertUnit(s) == mem' = Append(mem, NewUnit(s))

\* close_validity_window
CloseWindow(i) == mem' = [mem EXCEPT ![i].active = FALSE]

\* Mutant of Archive: a tier the schema does not have.
ArchiveMisspelt(i) == mem' = [mem EXCEPT ![i].tier = "archived"]

\* archive
Archive(i) == mem' = [mem EXCEPT ![i].tier = "archive"]

\* promote; the re-embed that follows changes nothing modelled here.
Promote(i) == mem' = [mem EXCEPT ![i].tier = "hot"]

\* Mutant of Higher: the new confidence replaces the old one.
Latest(a, b) == b

Higher(a, b) == IF a >= b THEN a ELSE b

-----------------------------------------------------------------------------
(* upsert_memory, one action per awaited query *)

Writing == {w \in Writers : pc[w] \notin {"idle", "done"}}

MayInsert == {w \in Writers : pc[w] \in {"contradicts", "close", "insert"}}

\* Bound: a write that may insert goes on only when there is a slot left for it.
RoomForInsert == Len(mem) + Cardinality(MayInsert) < MaxMemories

BeginWrite(w, s) ==
    /\ pc[w] \in {"idle", "done"}
    /\ pc' = [pc EXCEPT ![w] = "candidates"]
    /\ stmt' = [stmt EXCEPT ![w] = s]
    /\ current' = [current EXCEPT ![w] = None]
    /\ UNCHANGED <<mem, raised, todo, superseded, orphaned>>

EquivalentIn(C, s) == {i \in C : <<s.content, mem[i].content>> \in Equivalent}

\* Mutant of PrefCandidates: project facts are judged as well.
AllCandidates(C) == C

\* The active candidates with a global scope decision.
PrefCandidates(C) == {i \in C : mem[i].scope = GlobalScope}

\* A stronger duplicate of the same category (the no-op branch).
StrongerIn(C, s) ==
    {i \in C : /\ mem[i].category = s.category
               /\ s.confidence < mem[i].confidence
               /\ Folded[mem[i].content] = Folded[s.content]}

\* The read, and the branch it decides.  Everything the later branches use is
\* taken from this snapshot: the confidence a reinforce will write, the
\* candidates to judge and the stronger duplicate of a no-op.
ReadCandidates(w) ==
    /\ pc[w] = "candidates"
    /\ \E C \in CandidateSets(stmt[w]) :
        LET s == stmt[w] IN
        \/ \E i \in EquivalentIn(C, s) :
            /\ pc' = [pc EXCEPT ![w] = "reinforce"]
            /\ current' = [current EXCEPT ![w] = i]
            /\ raised' = [raised EXCEPT ![w] =
                            Higher(mem[i].confidence, s.confidence)]
            /\ UNCHANGED todo
        \/ /\ EquivalentIn(C, s) = {}
           /\ RoomForInsert
           /\ pc' = [pc EXCEPT ![w] = "contradicts"]
           /\ \/ \E i \in StrongerIn(C, s) : current' = [current EXCEPT ![w] = i]
              \/ StrongerIn(C, s) = {} /\ UNCHANGED current
           /\ todo' = [todo EXCEPT ![w] = PrefCandidates(C)]
           /\ UNCHANGED raised
    /\ UNCHANGED <<mem, stmt, superseded, orphaned>>

Reversed(w) == {i \in todo[w] : <<stmt[w].content, mem[i].content>> \in Reverses}

\* make_contradiction_fn asks once per candidate and counts a failed call as
\* "no contradiction".
Verdicts(w) == IF LlmMayFail THEN SUBSET Reversed(w) ELSE {Reversed(w)}

JudgeContradictions(w) ==
    /\ pc[w] = "contradicts"
    /\ \E V \in Verdicts(w) :
        /\ todo' = [todo EXCEPT ![w] = V]
        /\ \/ /\ V # {}
              /\ pc' = [pc EXCEPT ![w] = "close"]
           \/ /\ V = {} /\ current[w] = None
              /\ pc' = [pc EXCEPT ![w] = "insert"]
           \/ /\ V = {} /\ current[w] # None      \* no-op: keep the stronger one
              /\ pc' = [pc EXCEPT ![w] = "done"]
    /\ UNCHANGED <<mem, stmt, current, raised, superseded, orphaned>>

\* Mutant of CloseSuperseded: only the first contradicted memory is closed.
CloseFirstOnly(w) ==
    /\ pc[w] = "close"
    /\ \E i \in todo[w] :
        /\ CloseWindow(i)
        /\ todo' = [todo EXCEPT ![w] = {}]
        /\ superseded' = [superseded EXCEPT ![w] = @ \cup {i}]
        /\ pc' = [pc EXCEPT ![w] = "insert"]
    /\ UNCHANGED <<stmt, current, raised, orphaned>>

\* Mutant of CloseSuperseded: the write returns after its closes.
CloseAndReturn(w) ==
    /\ pc[w] = "close"
    /\ \E i \in todo[w] :
        /\ CloseWindow(i)
        /\ todo' = [todo EXCEPT ![w] = @ \ {i}]
        /\ superseded' = [superseded EXCEPT ![w] = {}]
        /\ pc' = [pc EXCEPT ![w] = IF todo[w] = {i} THEN "done" ELSE "close"]
    /\ UNCHANGED <<stmt, current, raised, orphaned>>

CloseSuperseded(w) ==
    /\ pc[w] = "close"
    /\ \E i \in todo[w] :
        /\ CloseWindow(i)
        /\ todo' = [todo EXCEPT ![w] = @ \ {i}]
        /\ superseded' = [superseded EXCEPT ![w] = @ \cup {i}]
        /\ pc' = [pc EXCEPT ![w] = IF todo[w] = {i} THEN "insert" ELSE "close"]
    /\ UNCHANGED <<stmt, current, raised, orphaned>>

Insert(w) ==
    /\ pc[w] = "insert"
    /\ InsertUnit(stmt[w])
    /\ current' = [current EXCEPT ![w] = Len(mem) + 1]
    /\ pc' = [pc EXCEPT ![w] = "done"]
    /\ superseded' = [superseded EXCEPT ![w] = {}]
    /\ UNCHANGED <<stmt, raised, todo, orphaned>>

\* Mutant of Reinforce: the whole snapshot is written back, open window included.
ReinforceReopens(w) ==
    /\ pc[w] = "reinforce"
    /\ mem' = [mem EXCEPT ![current[w]].confidence = raised[w],
                          ![current[w]].active = TRUE]
    /\ pc' = [pc EXCEPT ![w] = "done"]
    /\ raised' = [raised EXCEPT ![w] = None]
    /\ UNCHANGED <<stmt, current, todo, superseded, orphaned>>

\* _reinforce matches on the id alone and stores the confidence it computed
\* from the snapshot.
Reinforce(w) ==
    /\ pc[w] = "reinforce"
    /\ mem' = [mem EXCEPT ![current[w]].confidence = raised[w]]
    /\ pc' = [pc EXCEPT ![w] = "done"]
    /\ raised' = [raised EXCEPT ![w] = None]
    /\ UNCHANGED <<stmt, current, todo, superseded, orphaned>>

\* A query or the embedding endpoint raises, or the process dies: the write is
\* abandoned where it stands.
FailWrite(w) ==
    /\ w \in Writing
    /\ pc' = [pc EXCEPT ![w] = "idle"]
    /\ orphaned' = orphaned \cup superseded[w]
    /\ current' = [current EXCEPT ![w] = None]
    /\ raised' = [raised EXCEPT ![w] = None]
    /\ todo' = [todo EXCEPT ![w] = {}]
    /\ superseded' = [superseded EXCEPT ![w] = {}]
    /\ UNCHANGED <<mem, stmt>>

WriteStep(w) ==
    \/ ReadCandidates(w)
    \/ JudgeContradictions(w)
    \/ CloseSuperseded(w)
    \/ Insert(w)
    \/ Reinforce(w)
    \/ FailWrite(w)

-----------------------------------------------------------------------------
(* Corrections from the web console: PATCH /api/memories/{id} with a tier *)

OperatorArchive(i) == Archive(i) /\ UNCHANGED <<writerVars, orphaned>>

OperatorPromote(i) == Promote(i) /\ UNCHANGED <<writerVars, orphaned>>

OperatorStep == \E i \in Ids : OperatorArchive(i) \/ OperatorPromote(i)

-----------------------------------------------------------------------------
Init ==
    /\ mem = <<>>
    /\ pc = [w \in Writers |-> "idle"]
    /\ stmt = [w \in Writers |-> CHOOSE s \in Extracted : TRUE]
    /\ current = [w \in Writers |-> None]
    /\ raised = [w \in Writers |-> None]
    /\ todo = [w \in Writers |-> {}]
    /\ superseded = [w \in Writers |-> {}]
    /\ orphaned = {}

Next ==
    \/ \E w \in Writers :
        \/ \E s \in Extracted : BeginWrite(w, s)
        \/ WriteStep(w)
    \/ OperatorStep

Spec == Init /\ [][Next]_storeVars

-----------------------------------------------------------------------------
(* Properties *)

\* The types of the store and of the writers' local variables.
TypeOK ==
    /\ mem \in Seq(Unit)
    /\ pc \in [Writers -> {"idle", "candidates", "contradicts", "close",
                            "insert", "reinforce", "done"}]
    /\ stmt \in [Writers -> Statement]
    /\ current \in [Writers -> Ids \cup {None}]
    /\ raised \in [Writers -> Confidence \cup {None}]
    /\ todo \in [Writers -> SUBSET Ids]
    /\ superseded \in [Writers -> SUBSET Ids]
    /\ orphaned \in SUBSET Ids

\* i and j speak of the same thing to a write: same scope, a shared entity.
SameSubject(i, j) ==
    /\ mem[i].scope = mem[j].scope
    /\ mem[i].entities \cap mem[j].entities # {}

\* A preference never just disappears: whenever upsert_memory has closed a
\* window (FR-MNT-1 supersede), a later memory on the same subject is in the
\* store, or the write that closed it is still on its way to the insert, or that
\* write failed in between.
SupersededHasHeir ==
    \A i \in Ids \ Active :
        \/ \E j \in Ids : i < j /\ SameSubject(i, j)
        \/ \E w \in Writers : pc[w] \in {"close", "insert"} /\ i \in superseded[w]
        \/ i \in orphaned

\* FR-MNT-1 add-or-reinforce: of two open memories on the same subject the later
\* one is not a restatement of the earlier one.
NoDuplicateBeliefs ==
    \A i, j \in Active :
        i < j /\ SameSubject(i, j)
            => <<mem[j].content, mem[i].content>> \notin Equivalent

\* FR-MNT-1 supersede / Goal 2: an open global memory is never contradicted by a
\* later open memory on the same subject.
NoStandingReversal ==
    \A i, j \in Active :
        i < j /\ SameSubject(i, j) /\ mem[i].scope = GlobalScope
            => <<mem[j].content, mem[i].content>> \notin Reverses

\* FR-STO-1: a memory is never dropped, rewritten or brought back once its window
\* is closed, although writers act on snapshots taken before the close.
HistoryIsKept ==
    [][\A i \in Ids :
        /\ i \in DOMAIN mem'
        /\ mem'[i].content = mem[i].content
        /\ mem'[i].scope = mem[i].scope
        /\ mem'[i].active => mem[i].active]_mem

=============================================================================
