-------------------------- MODULE MemoryRefinement --------------------------
(***************************************************************************)
(* The write path of the storage backend against the reference store: the  *)
(* awaits between its queries cannot be told from a call that decides and  *)
(* acts at once, as long as no two writes overlap and the candidate read   *)
(* sees the whole store.                                                   *)
(***************************************************************************)
EXTENDS MemoryStore

\* A window that a write in progress has closed still counts as open: the write
\* takes effect with its insert.
Underway == UNION {superseded[w] : w \in Writers}

AsIfAtomic ==
    IF Underway = {} THEN mem
    ELSE [i \in Ids |-> IF i \in Underway THEN [mem[i] EXCEPT !.active = TRUE] ELSE mem[i]]

Reference == INSTANCE ReferenceStore WITH book <- AsIfAtomic

\* upsert_memory: "Order matches the InMemory fake so behavior is consistent
\* across backends".  Every step of the backend's interleaved queries is a step
\* of the reference store or changes nothing it can show: what a write returns to
\* and what it leaves behind was decided from the store as it is when the write
\* takes effect, the operator's corrections and failed calls included.
ImplementsReference == Reference!Spec

=============================================================================
