--------------------------- MODULE ReferenceStore ---------------------------
(***************************************************************************)
(* What a 4-way write promises (FR-MNT-1), as the in-memory StorageBackend *)
(* of tests/conftest.py computes it: one call decides and acts at once on  *)
(* the whole store.  The storage backend's upsert_memory says it keeps the *)
(* order of this fake "so behavior is consistent across backends".         *)
(*                                                                         *)
(* Two things the fake cannot show are stated here as well: a paraphrase   *)
(* counts as a restatement (Equivalent holds more than equal texts), and a *)
(* call that dies may have closed some of the windows it was to close.     *)
(***************************************************************************)
EXTENDS Naturals, Sequences

CONSTANTS
    Extracted,                          \* what is written
    GlobalScope,                        \* Scope.global_()
    Equivalent, Folded, Reverses,       \* as in MemoryStore
    LlmMayFail                          \* TRUE: the predicate may miss a reversal

VARIABLE book                           \* InMemoryStorage.memories, oldest first

Entry(s) ==
    [content |-> s.content, scope |-> s.scope, entities |-> s.entities,
     category |-> s.category, confidence |-> s.confidence,
     tier |-> "hot", active |-> TRUE]

\* _candidates
Candidates(s) ==
    {i \in DOMAIN book : /\ book[i].active
                         /\ book[i].scope = s.scope
                         /\ book[i].entities \cap s.entities # {}}

Restated(s) == {i \in Candidates(s) : <<s.content, book[i].content>> \in Equivalent}

Contradicted(s) ==
    {i \in Candidates(s) : /\ book[i].scope = GlobalScope
                           /\ <<s.content, book[i].content>> \in Reverses}

StrongerCopies(s) ==
    {i \in Candidates(s) : /\ book[i].category = s.category
                           /\ s.confidence < book[i].confidence
                           /\ Folded[book[i].content] = Folded[s.content]}

Found(s) == IF LlmMayFail THEN SUBSET Contradicted(s) ELSE {Contradicted(s)}

Closed(V) == [i \in DOMAIN book |->
                IF i \in V THEN [book[i] EXCEPT !.active = FALSE] ELSE book[i]]

Reinforce(s) ==
    \E i \in Restated(s) :
        book' = [book EXCEPT ![i].confidence = IF @ >= s.confidence THEN @ ELSE s.confidence]

Supersede(s) ==
    /\ Restated(s) = {}
    /\ \E V \in Found(s) \ {{}} : book' = Append(Closed(V), Entry(s))

\* Neither a restatement, nor a reversal, nor (no-op) weaker than what is there.
Add(s) ==
    /\ Restated(s) = {} /\ {} \in Found(s) /\ StrongerCopies(s) = {}
    /\ book' = Append(book, Entry(s))

\* A call that dies between its first close and its insert.
BreakOff(s) ==
    /\ Restated(s) = {}
    /\ \E V \in SUBSET Contradicted(s) : book' = Closed(V)

Upsert(s) == Reinforce(s) \/ Supersede(s) \/ Add(s) \/ BreakOff(s)

\* archive, promote
SetTier(i, tier) == book' = [book EXCEPT ![i].tier = tier]

Init == book = <<>>

Next ==
    \/ \E s \in Extracted : Upsert(s)
    \/ \E i \in DOMAIN book, tier \in {"hot", "archive"} : SetTier(i, tier)

Spec == Init /\ [][Next]_book

=============================================================================
