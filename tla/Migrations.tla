----------------------------- MODULE Migrations -----------------------------
(***************************************************************************)
(* In-place data migrations (mnemozine/migrations): every memory and every *)
(* raw chunk carries a data_version, and a runner applies the registered   *)
(* migrations whose version is above the lowest one.  Version 1 re-derives *)
(* the scope of memories that were filed under a git worktree, version 2   *)
(* gives the entity nodes their name_key.                                  *)
(*                                                                         *)
(* A runner is the startup hook or the migrate subcommand, two processes   *)
(* that know nothing of each other; both may run while an ingest writes    *)
(* and an operator corrects, and each may die between any two queries.     *)
(*                                                                         *)
(* Simplifications.                                                        *)
(*  - A scope is "worktree" (the stale one), "project" (the one its        *)
(*    transcript's path gives) or "chosen" (an operator's).                *)
(*  - Entity nodes stored by this version of the program are born with     *)
(*    their key, so only those without one are kept.                       *)
(*  - No registered migration re-extracts, so include_reextract and the    *)
(*    extractor play no part.                                              *)
(***************************************************************************)
EXTENDS Integers, FiniteSets

CONSTANTS
    Memory,         \* ids of memory nodes, stored now or later
    Chunk,          \* content hashes of raw chunks, likewise
    Entity,         \* entity nodes stored before name_key existed
    Runners,
    Patches,        \* TRUE: an operator reclassifies memories
    MaxCrashes      \* bound: runs that die

ASSUME MigrationAssumption ==
    /\ Patches \in BOOLEAN
    /\ MaxCrashes \in Nat

Current == 2                \* CURRENT_DATA_VERSION
Version == 0..Current
Baseline == 1
EntityNameKey == 2

VARIABLES
    stored,         \* memory nodes in the store
    version,        \* version[m]: data_version of memory m
    scope,          \* scope[m]
    chunks,         \* RawChunk nodes in the store
    chunkVersion,   \* chunkVersion[c]: data_version of chunk c
    unkeyed,        \* entity nodes without a name_key
    patched,        \* history: memories reclassified by an operator
    crashes,        \* runs that have died
    at,             \* at[r]: what runner r does next
    queue,          \* queue[r]: pending migrations it has not come to
    step,           \* step[r]: the migration it applies, 0 before the first
    floor,          \* floor[r]: lowest memory version it has just read, until used
    todo,           \* todo[r]: memories listed below its migration's version
    todoChunks      \* todoChunks[r]: chunks listed below it

storeVars == <<stored, version, scope, chunks, chunkVersion, unkeyed, patched>>
runnerVars == <<at, queue, step, floor, todo, todoChunks>>
vars == <<storeVars, crashes, runnerVars>>

Least(S) == CHOOSE x \in S : \A y \in S : x <= y

MemoryVersions == {version[m] : m \in stored}
ChunkVersions == {chunkVersion[c] : c \in chunks}

\* The answer of min_data_version to a caller that read the lowest version of the
\* memories before: that of an empty store is Current.
FloorWith(memoryFloor) == Least({memoryFloor, Current} \cup ChunkVersions)

Floor == FloorWith(Least({Current} \cup MemoryVersions))

-----------------------------------------------------------------------------
(* MigrationRunner.run *)

Begin(r) ==
    /\ at[r] = "idle"
    /\ at' = [at EXCEPT ![r] = "plan"]
    /\ step' = [step EXCEPT ![r] = 0]
    /\ UNCHANGED <<storeVars, crashes, queue, floor, todo, todoChunks>>

\* min_data_version asks for the memories' lowest version, then for the chunks'.
ReadMemoryFloor(r) ==
    /\ at[r] \in {"plan", "gate"}
    /\ floor' = [floor EXCEPT ![r] = Least({Current} \cup MemoryVersions)]
    /\ at' = [at EXCEPT ![r] = IF @ = "plan" THEN "pending" ELSE "admit"]
    /\ UNCHANGED <<storeVars, crashes, queue, step, todo, todoChunks>>

\* Where a run goes once nothing holds it at its present migration.
Onward(q) == IF q = {} THEN "idle" ELSE "gate"

\* pending: the migrations above the floor, ascending.
Plan(r) ==
    /\ at[r] = "pending"
    /\ queue' = [queue EXCEPT ![r] = {v \in 1..Current : v > FloorWith(floor[r])}]
    /\ at' = [at EXCEPT ![r] = Onward(queue'[r])]
    /\ floor' = [floor EXCEPT ![r] = Current]
    /\ UNCHANGED <<storeVars, crashes, step, todo, todoChunks>>

\* The resumable gate: a version the store has reached by now is skipped.
Admit(r) ==
    /\ at[r] = "admit"
    /\ LET next == Least(queue[r]) IN
        /\ queue' = [queue EXCEPT ![r] = @ \ {next}]
        /\ IF next <= FloorWith(floor[r])
           THEN /\ at' = [at EXCEPT ![r] = Onward(queue'[r])]
                /\ UNCHANGED step
           ELSE /\ step' = [step EXCEPT ![r] = next]
                /\ at' = [at EXCEPT ![r] = IF next = Baseline THEN "list" ELSE "keys"]
    /\ floor' = [floor EXCEPT ![r] = Current]
    /\ UNCHANGED <<storeVars, crashes, todo, todoChunks>>

\* backfill_entity_name_keys: the first query of version 2.
BackfillNameKeys(r) ==
    /\ at[r] = "keys"
    /\ unkeyed' = {}
    /\ at' = [at EXCEPT ![r] = "list"]
    /\ UNCHANGED <<stored, version, scope, chunks, chunkVersion, patched, crashes,
                   queue, step, floor, todo, todoChunks>>

\* iter_memories_below_version, read to its end; the scopes are compared on the
\* copies it returned.
ListMemories(r) ==
    /\ at[r] = "list"
    /\ todo' = [todo EXCEPT ![r] =
                  {[id |-> m, drifted |-> step[r] = Baseline /\ scope[m] # "project"] :
                     m \in {n \in stored : version[n] < step[r]}}]
    /\ at' = [at EXCEPT ![r] = "migrate"]
    /\ UNCHANGED <<storeVars, crashes, queue, step, floor, todoChunks>>

Drifted(r) == {t \in todo[r] : t.drifted}

\* reclassify_memory with the scope of the transcript's path: it stamps Current.
Rescope(r) ==
    /\ at[r] = "migrate"
    /\ \E t \in Drifted(r) :
        /\ scope' = [scope EXCEPT ![t.id] = "project"]
        /\ version' = [version EXCEPT ![t.id] = Current]
        /\ todo' = [todo EXCEPT ![r] = @ \ {t}]
    /\ UNCHANGED <<stored, chunks, chunkVersion, unkeyed, patched, crashes,
                   at, queue, step, floor, todoChunks>>

\* Mutant of StampMemories: the memories to be re-scoped are stamped with the rest.
StampListed(r) ==
    /\ at[r] = "migrate"
    /\ version' = [m \in Memory |->
         IF \E t \in todo[r] : t.id = m THEN step[r] ELSE version[m]]
    /\ todo' = [todo EXCEPT ![r] = {}]
    /\ at' = [at EXCEPT ![r] = "listChunks"]
    /\ UNCHANGED <<stored, scope, chunks, chunkVersion, unkeyed, patched, crashes,
                   queue, step, floor, todoChunks>>

\* set_data_version of all the others in one query, whatever they are at by now.
StampMemories(r) ==
    /\ at[r] = "migrate"
    /\ Drifted(r) = {}
    /\ version' = [m \in Memory |->
         IF \E t \in todo[r] : t.id = m THEN step[r] ELSE version[m]]
    /\ todo' = [todo EXCEPT ![r] = {}]
    /\ at' = [at EXCEPT ![r] = "listChunks"]
    /\ UNCHANGED <<stored, scope, chunks, chunkVersion, unkeyed, patched, crashes,
                   queue, step, floor, todoChunks>>

\* Mutant of ListChunks: a cheap migration leaves the chunks to the heavy ones.
ListNoChunks(r) ==
    /\ at[r] = "listChunks"
    /\ at' = [at EXCEPT ![r] = "stampChunks"]
    /\ UNCHANGED <<storeVars, crashes, queue, step, floor, todo, todoChunks>>

\* iter_chunks_below_version
ListChunks(r) ==
    /\ at[r] = "listChunks"
    /\ todoChunks' = [todoChunks EXCEPT ![r] =
                        {c \in chunks : chunkVersion[c] < step[r]}]
    /\ at' = [at EXCEPT ![r] = "stampChunks"]
    /\ UNCHANGED <<storeVars, crashes, queue, step, floor, todo>>

\* set_chunk_data_version ends the migration.
StampChunks(r) ==
    /\ at[r] = "stampChunks"
    /\ chunkVersion' = [c \in Chunk |->
         IF c \in todoChunks[r] THEN step[r] ELSE chunkVersion[c]]
    /\ todoChunks' = [todoChunks EXCEPT ![r] = {}]
    /\ at' = [at EXCEPT ![r] = Onward(queue[r])]
    /\ UNCHANGED <<stored, version, scope, chunks, unkeyed, patched, crashes,
                   queue, step, floor, todo>>

\* A query raises and the startup hook logs it, or the process dies.
Crash(r) ==
    /\ at[r] # "idle"
    /\ crashes < MaxCrashes
    /\ crashes' = crashes + 1
    /\ at' = [at EXCEPT ![r] = "idle"]
    /\ queue' = [queue EXCEPT ![r] = {}]
    /\ floor' = [floor EXCEPT ![r] = Current]
    /\ todo' = [todo EXCEPT ![r] = {}]
    /\ todoChunks' = [todoChunks EXCEPT ![r] = {}]
    /\ UNCHANGED <<storeVars, step>>

Run(r) ==
    \/ Begin(r)
    \/ ReadMemoryFloor(r)
    \/ Plan(r)
    \/ Admit(r)
    \/ BackfillNameKeys(r)
    \/ ListMemories(r)
    \/ Rescope(r)
    \/ StampMemories(r)
    \/ ListChunks(r)
    \/ StampChunks(r)

-----------------------------------------------------------------------------
(* The rest of the program, which writes at the current version *)

\* An ingest stores a memory with the scope its transcript gives.
StoreMemory ==
    /\ \E m \in Memory \ stored :
        /\ stored' = stored \cup {m}
        /\ version' = [version EXCEPT ![m] = Current]
        /\ scope' = [scope EXCEPT ![m] = "project"]
    /\ UNCHANGED <<chunks, chunkVersion, unkeyed, patched, crashes, runnerVars>>

\* An ingest stores a raw chunk, or an old one again.
StoreChunk ==
    /\ \E c \in Chunk :
        /\ chunks' = chunks \cup {c}
        /\ chunkVersion' = [chunkVersion EXCEPT ![c] = Current]
    /\ UNCHANGED <<stored, version, scope, unkeyed, patched, crashes, runnerVars>>

\* PATCH /api/memories/{id} of a category or a scope: reclassify_memory, which
\* stamps Current either way.
Patch ==
    /\ Patches
    /\ \E m \in stored :
        /\ \/ scope' = [scope EXCEPT ![m] = "chosen"]
           \/ UNCHANGED scope
        /\ version' = [version EXCEPT ![m] = Current]
        /\ patched' = patched \cup {m}
    /\ UNCHANGED <<stored, chunks, chunkVersion, unkeyed, crashes, runnerVars>>

Others == StoreMemory \/ StoreChunk \/ Patch

-----------------------------------------------------------------------------
\* A store written before the feature: nothing in it has a version, there may be
\* no raw tier, and some scopes are stale.
Init ==
    /\ stored \in SUBSET Memory \ {{}}
    /\ version = [m \in Memory |-> 0]
    /\ scope \in [Memory -> {"worktree", "project"}]
    /\ chunks \in SUBSET Chunk
    /\ chunkVersion = [c \in Chunk |-> 0]
    /\ unkeyed = Entity
    /\ patched = {}
    /\ crashes = 0
    /\ at = [r \in Runners |-> "idle"]
    /\ queue = [r \in Runners |-> {}]
    /\ step = [r \in Runners |-> 0]
    /\ floor = [r \in Runners |-> Current]
    /\ todo = [r \in Runners |-> {}]
    /\ todoChunks = [r \in Runners |-> {}]

Next ==
    \/ \E r \in Runners : Run(r) \/ Crash(r)
    \/ Others

Spec == Init /\ [][Next]_vars

\* A run that has begun goes on until it ends or dies, and migrations are run again.
FairSpec == Spec /\ \A r \in Runners : WF_vars(Run(r))

-----------------------------------------------------------------------------
(* Properties *)

Listing == [id: Memory, drifted: BOOLEAN]

\* The types of the store and of the runners' locals.
TypeOK ==
    /\ stored \in SUBSET Memory
    /\ version \in [Memory -> Version]
    /\ scope \in [Memory -> {"worktree", "project", "chosen"}]
    /\ chunks \in SUBSET Chunk
    /\ chunkVersion \in [Chunk -> Version]
    /\ unkeyed \in SUBSET Entity
    /\ patched \in SUBSET stored
    /\ crashes \in Nat
    /\ at \in [Runners -> {"idle", "plan", "pending", "gate", "admit", "keys", "list",
                            "migrate", "listChunks", "stampChunks"}]
    /\ queue \in [Runners -> SUBSET Version]
    /\ step \in [Runners -> Version]
    /\ floor \in [Runners -> Version]
    /\ todo \in [Runners -> SUBSET Listing]
    /\ todoChunks \in [Runners -> SUBSET Chunk]

\* A stamp keeps its promise: a memory at version 1 or above is no longer filed
\* under a worktree, unless an operator's correction stamped it, although runs
\* overlap, die half way and act on outdated listings.
StampedIsRescoped ==
    \A m \in stored :
        version[m] >= Baseline => scope[m] # "worktree" \/ m \in patched

\* FR-MNT-5, "resumable + safe to re-run": if runs are repeated, from some point on
\* every memory and every chunk is at the current version, whichever runs overlap or
\* die and whatever is written meanwhile.
EventuallyCurrent == <>[](Floor = Current)

\* "An empty list means the store is fully migrated": a store in which nothing is
\* pending has the name keys that version 2 is there to backfill.
NothingPendingMeansMigrated ==
    Floor = Current /\ (\A r \in Runners : at[r] = "idle") => unkeyed = {}

=============================================================================
