----------------------------- MODULE ScheduleProofs -----------------------------
(***************************************************************************)
(* Theorems about what runs over the whole store from time to time: the    *)
(* data migrations (Migrations), and the scheduled, commanded and requested*)
(* runs of the maintenance jobs (MaintenanceSchedule).                     *)
(***************************************************************************)
EXTENDS Migrations, MaintenanceSchedule, SequenceTheorems, TLAPS

-----------------------------------------------------------------------------
(* Migrations *)

(***************************************************************************)
(* For every set of memories, chunks, entities and runners, whatever dies: *)
(* the types, and that a version stamp keeps its promise.                  *)
(*                                                                         *)
(* A version is never lowered to 0 but may fall from 2 to 1, when a runner *)
(* stamps from an outdated listing; and a migration to version 2 lists     *)
(* memories without comparing scopes.  So the promise rests on what a      *)
(* runner that is past version 1 knows: that nothing is left at 0.         *)
(***************************************************************************)

\* Every memory has been through the baseline, or never needed it.
AllBased == \A m \in stored : version[m] >= Baseline

Applying == {"list", "migrate", "listChunks", "stampChunks"}

\* What is queued are migrations, and a run with none left has ended.
QueueSound ==
    \A r \in Runners :
        /\ queue[r] \subseteq {Baseline, EntityNameKey}
        /\ at[r] \in {"gate", "admit"} => queue[r] # {}

\* A runner that has read a floor of 1 or more has seen the last of version 0.
FloorTells ==
    \A r \in Runners :
        floor[r] >= Baseline /\ at[r] \in {"pending", "admit"} => AllBased

\* So has one that is past the baseline, or is about to leave it.
PastBaseline ==
    \A r \in Runners :
        /\ at[r] \in {"gate", "admit"} /\ Baseline \notin queue[r] => AllBased
        /\ at[r] = "keys" => AllBased /\ step[r] = EntityNameKey
        /\ at[r] \in Applying => step[r] \in {Baseline, EntityNameKey}
        /\ at[r] \in Applying /\ step[r] = EntityNameKey => AllBased
        /\ at[r] \in {"listChunks", "stampChunks"} => AllBased

\* What a listing still says of the store when it is acted upon.
ListingHolds ==
    \A r \in Runners :
        /\ todo[r] # {} => at[r] = "migrate"
        /\ \A t \in todo[r] :
            /\ t.id \in stored
            /\ ~t.drifted => scope[t.id] # "worktree" \/ t.id \in patched
        /\ at[r] = "migrate" =>
            \A m \in stored : version[m] >= Baseline \/ \E t \in todo[r] : t.id = m

IInv ==
    /\ TypeOK
    /\ StampedIsRescoped
    /\ QueueSound
    /\ FloorTells
    /\ PastBaseline
    /\ ListingHolds

-----------------------------------------------------------------------------
\* The least of a set of versions is its least member.
LEMMA LeastVersion ==
    ASSUME NEW S \in SUBSET Version, S # {}
    PROVE  Least(S) \in S /\ \A y \in S : Least(S) <= y
<1>1. \E x \in S : \A y \in S : x <= y
  <2>1. CASE 0 \in S
    BY <2>1 DEF Version, Current
  <2>2. CASE 0 \notin S /\ 1 \in S
    BY <2>2 DEF Version, Current
  <2>3. CASE 0 \notin S /\ 1 \notin S
    <3>1. \A x \in S : x = 2
      BY <2>3 DEF Version, Current
    <3> QED
      BY <3>1
  <2> QED
    BY <2>1, <2>2, <2>3
<1> QED
  BY <1>1 DEF Least

\* The lowest memory version is a version, and nothing is at 0 if it is not.
LEMMA MemoryFloor ==
    ASSUME TypeOK
    PROVE  LET f == Least({Current} \cup MemoryVersions) IN
           f \in Version /\ (f >= Baseline => AllBased)
<1>1. {Current} \cup MemoryVersions \in SUBSET Version
  BY DEF TypeOK, MemoryVersions, Version, Current
<1>2. Least({Current} \cup MemoryVersions) \in Version
  BY <1>1, LeastVersion
<1>3. \A y \in {Current} \cup MemoryVersions : Least({Current} \cup MemoryVersions) <= y
  BY <1>1, LeastVersion
<1>4. \A m \in stored : version[m] \in MemoryVersions /\ version[m] \in Version
  BY DEF TypeOK, MemoryVersions
<1>5. ASSUME Least({Current} \cup MemoryVersions) >= Baseline
      PROVE  AllBased
  BY <1>2, <1>3, <1>4, <1>5 DEF AllBased, Baseline, Version, Current
<1> QED
  BY <1>2, <1>5

\* A caller's floor is a version no higher than the memories' part of it.
LEMMA FloorBound ==
    ASSUME TypeOK, NEW f \in Version
    PROVE  FloorWith(f) \in Version /\ FloorWith(f) <= f
<1>1. {f, Current} \cup ChunkVersions \in SUBSET Version
  BY DEF TypeOK, ChunkVersions, Version, Current
<1> QED
  BY <1>1, LeastVersion DEF FloorWith

-----------------------------------------------------------------------------
LEMMA InitIInv == Init => IInv
BY DEF Init, IInv, TypeOK, StampedIsRescoped, QueueSound, FloorTells, PastBaseline, ListingHolds,
       AllBased, Applying, Version, Current, Baseline, EntityNameKey, Listing

LEMMA BeginKeeps ==
    ASSUME IInv, NEW r \in Runners, Begin(r)
    PROVE  IInv'
<1> USE DEF Version, Current, Baseline, EntityNameKey, storeVars, runnerVars
<1>1. TypeOK'
  BY DEF IInv, TypeOK, Begin, Listing, Onward
<1>2. StampedIsRescoped'
  BY DEF IInv, TypeOK, StampedIsRescoped, ListingHolds, Begin, Listing, Drifted
<1>3. FloorTells'
  BY DEF IInv, TypeOK, FloorTells, AllBased, PastBaseline, Begin, Applying
<1>4. PastBaseline'
  BY DEF IInv, TypeOK, FloorTells, AllBased, PastBaseline, Begin, Applying, Onward
<1>5. ListingHolds'
  BY DEF IInv, TypeOK, ListingHolds, StampedIsRescoped, PastBaseline, AllBased, Begin, Listing, Drifted, Applying
<1>6. QueueSound'
  BY DEF IInv, TypeOK, QueueSound, Begin, Onward
<1> QED
  BY <1>1, <1>2, <1>3, <1>4, <1>5, <1>6 DEF IInv

LEMMA ReadMemoryFloorKeeps ==
    ASSUME IInv, NEW r \in Runners, ReadMemoryFloor(r)
    PROVE  IInv'
<1> USE DEF Version, Current, Baseline, EntityNameKey, storeVars, runnerVars
<1> DEFINE f == Least({Current} \cup MemoryVersions)
<1>0. f \in Version /\ (f >= Baseline => AllBased)
  BY MemoryFloor DEF IInv
<1> HIDE DEF f
<1>a. /\ floor' = [floor EXCEPT ![r] = f]
      /\ at' = [at EXCEPT ![r] = IF @ = "plan" THEN "pending" ELSE "admit"]
      /\ at[r] \in {"plan", "gate"}
      /\ UNCHANGED <<storeVars, crashes, queue, step, todo, todoChunks>>
  BY DEF ReadMemoryFloor, f
<1>1. TypeOK'
  BY <1>0, <1>a DEF IInv, TypeOK
<1>2. StampedIsRescoped'
  BY <1>a DEF IInv, StampedIsRescoped
<1>3. FloorTells'
  BY <1>0, <1>a DEF IInv, TypeOK, FloorTells, AllBased
<1>4. PastBaseline'
  BY <1>a DEF IInv, TypeOK, AllBased, PastBaseline, Applying
<1>5. ListingHolds'
  BY <1>a DEF IInv, TypeOK, ListingHolds
<1>6. QueueSound'
  BY <1>a DEF IInv, TypeOK, QueueSound
<1> QED
  BY <1>1, <1>2, <1>3, <1>4, <1>5, <1>6 DEF IInv

LEMMA PlanKeeps ==
    ASSUME IInv, NEW r \in Runners, Plan(r)
    PROVE  IInv'
<1> USE DEF Version, Current, Baseline, EntityNameKey, storeVars, runnerVars
<1> DEFINE q == {v \in 1..Current : v > FloorWith(floor[r])}
<1>0. FloorWith(floor[r]) \in Version /\ FloorWith(floor[r]) <= floor[r]
  BY FloorBound DEF IInv, TypeOK
<1>b. q \in SUBSET {Baseline, EntityNameKey} /\ (Baseline \notin q => AllBased)
  BY <1>0 DEF IInv, TypeOK, FloorTells, Plan
<1> HIDE DEF q
<1>a. /\ queue' = [queue EXCEPT ![r] = q]
      /\ at' = [at EXCEPT ![r] = Onward(q)]
      /\ floor' = [floor EXCEPT ![r] = Current]
      /\ at[r] = "pending"
      /\ UNCHANGED <<storeVars, crashes, step, todo, todoChunks>>
  BY DEF IInv, TypeOK, Plan, q
<1>c. Onward(q) = IF q = {} THEN "idle" ELSE "gate"
  BY DEF Onward
<1>1. TypeOK'
  BY <1>a, <1>b, <1>c DEF IInv, TypeOK
<1>2. StampedIsRescoped'
  BY <1>a DEF IInv, StampedIsRescoped
<1>3. FloorTells'
  BY <1>a, <1>c DEF IInv, TypeOK, FloorTells, AllBased
<1>4. PastBaseline'
  BY <1>a, <1>b, <1>c DEF IInv, TypeOK, AllBased, PastBaseline, Applying
<1>5. ListingHolds'
  BY <1>a, <1>c DEF IInv, TypeOK, ListingHolds
<1>6. QueueSound'
  BY <1>a, <1>b, <1>c DEF IInv, TypeOK, QueueSound
<1> QED
  BY <1>1, <1>2, <1>3, <1>4, <1>5, <1>6 DEF IInv

LEMMA AdmitKeeps ==
    ASSUME IInv, NEW r \in Runners, Admit(r)
    PROVE  IInv'
<1> USE DEF Version, Current, Baseline, EntityNameKey, storeVars, runnerVars
<1> DEFINE next == Least(queue[r])
           q == queue[r] \ {next}
<1>a. /\ queue' = [queue EXCEPT ![r] = q]
      /\ floor' = [floor EXCEPT ![r] = Current]
      /\ at[r] = "admit"
      /\ UNCHANGED <<storeVars, crashes, todo, todoChunks>>
      /\ \/ /\ next <= FloorWith(floor[r])
            /\ at' = [at EXCEPT ![r] = Onward(q)]
            /\ UNCHANGED step
         \/ /\ ~(next <= FloorWith(floor[r]))
            /\ step' = [step EXCEPT ![r] = next]
            /\ at' = [at EXCEPT ![r] = IF next = Baseline THEN "list" ELSE "keys"]
  BY DEF IInv, TypeOK, Admit
<1>b. FloorWith(floor[r]) \in Version /\ FloorWith(floor[r]) <= floor[r]
  BY FloorBound DEF IInv, TypeOK
<1>c. next \in queue[r] /\ \A y \in queue[r] : next <= y
  BY <1>a, LeastVersion DEF IInv, TypeOK, QueueSound
<1>d. /\ next \in {Baseline, EntityNameKey}
      /\ next = EntityNameKey => AllBased
      /\ next <= FloorWith(floor[r]) => AllBased
  BY <1>a, <1>b, <1>c DEF IInv, TypeOK, QueueSound, PastBaseline, FloorTells
<1>e. q \in SUBSET {Baseline, EntityNameKey}
  BY DEF IInv, QueueSound
<1> HIDE DEF next, q
<1>f. Onward(q) = IF q = {} THEN "idle" ELSE "gate"
  BY DEF Onward
<1>1. TypeOK'
  BY <1>a, <1>d, <1>e, <1>f DEF IInv, TypeOK
<1>2. StampedIsRescoped'
  BY <1>a DEF IInv, StampedIsRescoped
<1>3. QueueSound'
  BY <1>a, <1>e, <1>f DEF IInv, TypeOK, QueueSound
<1>4. FloorTells'
  BY <1>a, <1>f DEF IInv, TypeOK, FloorTells, AllBased
<1>5. PastBaseline'
  <2>1. CASE next <= FloorWith(floor[r])
    BY <1>a, <1>d, <1>f, <2>1 DEF IInv, TypeOK, AllBased, PastBaseline, Applying
  <2>2. CASE ~(next <= FloorWith(floor[r]))
    BY <1>a, <1>d, <2>2 DEF IInv, TypeOK, AllBased, PastBaseline, Applying
  <2> QED
    BY <2>1, <2>2
<1>6. ListingHolds'
  BY <1>a, <1>f DEF IInv, TypeOK, ListingHolds
<1> QED
  BY <1>1, <1>2, <1>3, <1>4, <1>5, <1>6 DEF IInv

LEMMA BackfillNameKeysKeeps ==
    ASSUME IInv, NEW r \in Runners, BackfillNameKeys(r)
    PROVE  IInv'
<1> USE DEF Version, Current, Baseline, EntityNameKey, storeVars, runnerVars
<1>1. TypeOK'
  BY DEF IInv, TypeOK, BackfillNameKeys, Listing, Onward
<1>2. StampedIsRescoped'
  BY DEF IInv, TypeOK, StampedIsRescoped, ListingHolds, BackfillNameKeys, Listing, Drifted
<1>3. FloorTells'
  BY DEF IInv, TypeOK, FloorTells, AllBased, PastBaseline, BackfillNameKeys, Applying
<1>4. PastBaseline'
  BY DEF IInv, TypeOK, FloorTells, AllBased, PastBaseline, BackfillNameKeys, Applying, Onward
<1>5. ListingHolds'
  BY DEF IInv, TypeOK, ListingHolds, StampedIsRescoped, PastBaseline, AllBased, BackfillNameKeys, Listing, Drifted, Applying
<1>6. QueueSound'
  BY DEF IInv, TypeOK, QueueSound, BackfillNameKeys, Onward
<1> QED
  BY <1>1, <1>2, <1>3, <1>4, <1>5, <1>6 DEF IInv

LEMMA ListMemoriesKeeps ==
    ASSUME IInv, NEW r \in Runners, ListMemories(r)
    PROVE  IInv'
<1> USE DEF Version, Current, Baseline, EntityNameKey, storeVars, runnerVars
<1> DEFINE stale == {n \in stored : version[n] < step[r]}
           d(m) == step[r] = Baseline /\ scope[m] # "project"
           L == {[id |-> m, drifted |-> d(m)] : m \in stale}
<1>a. /\ todo' = [todo EXCEPT ![r] = L]
      /\ at' = [at EXCEPT ![r] = "migrate"]
      /\ at[r] = "list"
      /\ UNCHANGED <<storeVars, crashes, queue, step, floor, todoChunks>>
  BY DEF ListMemories
<1>s. \A m \in stale : m \in stored /\ m \in Memory /\ d(m) \in BOOLEAN
  BY DEF IInv, TypeOK
<1>t. \A m \in stale : ~d(m) => scope[m] # "worktree" \/ m \in patched
  BY <1>a DEF IInv, TypeOK, StampedIsRescoped, PastBaseline, AllBased, Applying
<1> HIDE DEF d, stale
<1>b. L \in SUBSET Listing
  BY <1>s DEF Listing
<1>c. \A t \in L : /\ t.id \in stored
                   /\ ~t.drifted => scope[t.id] # "worktree" \/ t.id \in patched
  <2> SUFFICES ASSUME NEW m \in stale
               PROVE  LET t == [id |-> m, drifted |-> d(m)] IN
                      /\ t.id \in stored
                      /\ ~t.drifted => scope[t.id] # "worktree" \/ t.id \in patched
    OBVIOUS
  <2> QED
    BY <1>s, <1>t
<1>d. \A m \in stored : version[m] >= Baseline \/ \E t \in L : t.id = m
  <2> SUFFICES ASSUME NEW m \in stored, ~(version[m] >= Baseline)
               PROVE  \E t \in L : t.id = m
    OBVIOUS
  <2>1. m \in stale
    BY <1>a DEF IInv, TypeOK, PastBaseline, Applying, stale
  <2>2. [id |-> m, drifted |-> d(m)] \in L
    BY <2>1
  <2> QED
    BY <2>2
<1> HIDE DEF L
<1>1. TypeOK'
  BY <1>a, <1>b DEF IInv, TypeOK
<1>2. StampedIsRescoped'
  BY <1>a DEF IInv, StampedIsRescoped
<1>3. QueueSound'
  BY <1>a DEF IInv, TypeOK, QueueSound
<1>4. FloorTells'
  BY <1>a DEF IInv, TypeOK, FloorTells, AllBased
<1>5. PastBaseline'
  BY <1>a DEF IInv, TypeOK, AllBased, PastBaseline, Applying
<1>6. ListingHolds'
  BY <1>a, <1>c, <1>d DEF IInv, TypeOK, ListingHolds
<1> QED
  BY <1>1, <1>2, <1>3, <1>4, <1>5, <1>6 DEF IInv

LEMMA RescopeKeeps ==
    ASSUME IInv, NEW r \in Runners, Rescope(r)
    PROVE  IInv'
<1> USE DEF Version, Current, Baseline, EntityNameKey, storeVars, runnerVars
<1>1. TypeOK'
  <2>1. PICK t \in Drifted(r) :
           /\ scope' = [scope EXCEPT ![t.id] = "project"]
           /\ version' = [version EXCEPT ![t.id] = Current]
           /\ todo' = [todo EXCEPT ![r] = @ \ {t}]
           /\ UNCHANGED <<stored, chunks, chunkVersion, unkeyed, patched, crashes,
                          at, queue, step, floor, todoChunks>>
    BY DEF Rescope
  <2>2. t \in Listing /\ t.id \in Memory
    BY DEF IInv, TypeOK, Drifted, Listing
  <2> QED
    BY <2>1, <2>2 DEF IInv, TypeOK
<1>2. StampedIsRescoped'
  BY DEF IInv, TypeOK, StampedIsRescoped, ListingHolds, Rescope, Listing, Drifted
<1>3. FloorTells'
  BY DEF IInv, TypeOK, FloorTells, AllBased, PastBaseline, Rescope, Applying
<1>4. PastBaseline'
  BY DEF IInv, TypeOK, FloorTells, AllBased, PastBaseline, Rescope, Applying, Onward
<1>5. ListingHolds'
  BY DEF IInv, TypeOK, ListingHolds, StampedIsRescoped, PastBaseline, AllBased, Rescope, Listing, Drifted, Applying
<1>6. QueueSound'
  BY DEF IInv, TypeOK, QueueSound, Rescope, Onward
<1> QED
  BY <1>1, <1>2, <1>3, <1>4, <1>5, <1>6 DEF IInv

LEMMA StampMemoriesKeeps ==
    ASSUME IInv, NEW r \in Runners, StampMemories(r)
    PROVE  IInv'
<1> USE DEF Version, Current, Baseline, EntityNameKey, storeVars, runnerVars
<1>1. TypeOK'
  BY DEF IInv, TypeOK, StampMemories, Listing, Onward
<1>2. StampedIsRescoped'
  BY DEF IInv, TypeOK, StampedIsRescoped, ListingHolds, StampMemories, Listing, Drifted
<1>3. FloorTells'
  BY DEF IInv, TypeOK, FloorTells, AllBased, PastBaseline, StampMemories, Applying
<1>4. PastBaseline'
  <2>1. at[r] = "migrate" /\ step[r] \in {Baseline, EntityNameKey}
    BY DEF IInv, PastBaseline, StampMemories, Applying
  <2>2. \A m \in stored : version[m] >= Baseline \/ \E t \in todo[r] : t.id = m
    BY <2>1 DEF IInv, ListingHolds
  <2>3. AllBased'
    BY <2>1, <2>2 DEF IInv, TypeOK, AllBased, StampMemories
  <2>4. /\ at' = [at EXCEPT ![r] = "listChunks"]
        /\ UNCHANGED <<queue, step>>
    BY DEF StampMemories
  <2> QED
    BY <2>1, <2>3, <2>4 DEF IInv, TypeOK, PastBaseline, Applying
<1>5. ListingHolds'
  BY DEF IInv, TypeOK, ListingHolds, StampedIsRescoped, PastBaseline, AllBased, StampMemories, Listing, Drifted, Applying
<1>6. QueueSound'
  BY DEF IInv, TypeOK, QueueSound, StampMemories, Onward
<1> QED
  BY <1>1, <1>2, <1>3, <1>4, <1>5, <1>6 DEF IInv

LEMMA ListChunksKeeps ==
    ASSUME IInv, NEW r \in Runners, ListChunks(r)
    PROVE  IInv'
<1> USE DEF Version, Current, Baseline, EntityNameKey, storeVars, runnerVars
<1>1. TypeOK'
  BY DEF IInv, TypeOK, ListChunks, Listing, Onward
<1>2. StampedIsRescoped'
  BY DEF IInv, TypeOK, StampedIsRescoped, ListingHolds, ListChunks, Listing, Drifted
<1>3. FloorTells'
  BY DEF IInv, TypeOK, FloorTells, AllBased, PastBaseline, ListChunks, Applying
<1>4. PastBaseline'
  BY DEF IInv, TypeOK, FloorTells, AllBased, PastBaseline, ListChunks, Applying, Onward
<1>5. ListingHolds'
  BY DEF IInv, TypeOK, ListingHolds, StampedIsRescoped, PastBaseline, AllBased, ListChunks, Listing, Drifted, Applying
<1>6. QueueSound'
  BY DEF IInv, TypeOK, QueueSound, ListChunks, Onward
<1> QED
  BY <1>1, <1>2, <1>3, <1>4, <1>5, <1>6 DEF IInv

LEMMA StampChunksKeeps ==
    ASSUME IInv, NEW r \in Runners, StampChunks(r)
    PROVE  IInv'
<1> USE DEF Version, Current, Baseline, EntityNameKey, storeVars, runnerVars
<1>1. TypeOK'
  BY DEF IInv, TypeOK, StampChunks, Listing, Onward
<1>2. StampedIsRescoped'
  BY DEF IInv, TypeOK, StampedIsRescoped, ListingHolds, StampChunks, Listing, Drifted
<1>3. FloorTells'
  BY DEF IInv, TypeOK, FloorTells, AllBased, PastBaseline, StampChunks, Applying
<1>4. PastBaseline'
  BY DEF IInv, TypeOK, FloorTells, AllBased, PastBaseline, StampChunks, Applying, Onward
<1>5. ListingHolds'
  BY DEF IInv, TypeOK, ListingHolds, StampedIsRescoped, PastBaseline, AllBased, StampChunks, Listing, Drifted, Applying
<1>6. QueueSound'
  BY DEF IInv, TypeOK, QueueSound, StampChunks, Onward
<1> QED
  BY <1>1, <1>2, <1>3, <1>4, <1>5, <1>6 DEF IInv

LEMMA CrashKeeps ==
    ASSUME IInv, NEW r \in Runners, Crash(r)
    PROVE  IInv'
<1> USE DEF Version, Current, Baseline, EntityNameKey, storeVars, runnerVars
<1>1. TypeOK'
  BY DEF IInv, TypeOK, Crash, Listing, Onward
<1>2. StampedIsRescoped'
  BY DEF IInv, TypeOK, StampedIsRescoped, ListingHolds, Crash, Listing, Drifted
<1>3. FloorTells'
  BY DEF IInv, TypeOK, FloorTells, AllBased, PastBaseline, Crash, Applying
<1>4. PastBaseline'
  BY DEF IInv, TypeOK, FloorTells, AllBased, PastBaseline, Crash, Applying, Onward
<1>5. ListingHolds'
  BY DEF IInv, TypeOK, ListingHolds, StampedIsRescoped, PastBaseline, AllBased, Crash, Listing, Drifted, Applying
<1>6. QueueSound'
  BY DEF IInv, TypeOK, QueueSound, Crash, Onward
<1> QED
  BY <1>1, <1>2, <1>3, <1>4, <1>5, <1>6 DEF IInv

LEMMA StoreMemoryKeeps ==
    ASSUME IInv, StoreMemory
    PROVE  IInv'
<1> USE DEF Version, Current, Baseline, EntityNameKey, storeVars, runnerVars
<1>1. TypeOK'
  BY DEF IInv, TypeOK, StoreMemory, Listing, Onward
<1>2. StampedIsRescoped'
  BY DEF IInv, TypeOK, StampedIsRescoped, ListingHolds, StoreMemory, Listing, Drifted
<1>3. FloorTells'
  BY DEF IInv, TypeOK, FloorTells, AllBased, PastBaseline, StoreMemory, Applying
<1>4. PastBaseline'
  BY DEF IInv, TypeOK, FloorTells, AllBased, PastBaseline, StoreMemory, Applying, Onward
<1>5. ListingHolds'
  BY DEF IInv, TypeOK, ListingHolds, StampedIsRescoped, PastBaseline, AllBased, StoreMemory, Listing, Drifted, Applying
<1>6. QueueSound'
  BY DEF IInv, TypeOK, QueueSound, StoreMemory, Onward
<1> QED
  BY <1>1, <1>2, <1>3, <1>4, <1>5, <1>6 DEF IInv

LEMMA StoreChunkKeeps ==
    ASSUME IInv, StoreChunk
    PROVE  IInv'
<1> USE DEF Version, Current, Baseline, EntityNameKey, storeVars, runnerVars
<1>1. TypeOK'
  BY DEF IInv, TypeOK, StoreChunk, Listing, Onward
<1>2. StampedIsRescoped'
  BY DEF IInv, TypeOK, StampedIsRescoped, ListingHolds, StoreChunk, Listing, Drifted
<1>3. FloorTells'
  BY DEF IInv, TypeOK, FloorTells, AllBased, PastBaseline, StoreChunk, Applying
<1>4. PastBaseline'
  BY DEF IInv, TypeOK, FloorTells, AllBased, PastBaseline, StoreChunk, Applying, Onward
<1>5. ListingHolds'
  BY DEF IInv, TypeOK, ListingHolds, StampedIsRescoped, PastBaseline, AllBased, StoreChunk, Listing, Drifted, Applying
<1>6. QueueSound'
  BY DEF IInv, TypeOK, QueueSound, StoreChunk, Onward
<1> QED
  BY <1>1, <1>2, <1>3, <1>4, <1>5, <1>6 DEF IInv

LEMMA PatchKeeps ==
    ASSUME IInv, Patch
    PROVE  IInv'
<1> USE DEF Version, Current, Baseline, EntityNameKey, storeVars, runnerVars
<1>1. TypeOK'
  BY DEF IInv, TypeOK, Patch, Listing, Onward
<1>2. StampedIsRescoped'
  BY DEF IInv, TypeOK, StampedIsRescoped, ListingHolds, Patch, Listing, Drifted
<1>3. FloorTells'
  BY DEF IInv, TypeOK, FloorTells, AllBased, PastBaseline, Patch, Applying
<1>4. PastBaseline'
  BY DEF IInv, TypeOK, FloorTells, AllBased, PastBaseline, Patch, Applying, Onward
<1>5. ListingHolds'
  BY DEF IInv, TypeOK, ListingHolds, StampedIsRescoped, PastBaseline, AllBased, Patch, Listing, Drifted, Applying
<1>6. QueueSound'
  BY DEF IInv, TypeOK, QueueSound, Patch, Onward
<1> QED
  BY <1>1, <1>2, <1>3, <1>4, <1>5, <1>6 DEF IInv

-----------------------------------------------------------------------------
LEMMA NextKeepsIInv == IInv /\ [Next]_vars => IInv'
<1> SUFFICES ASSUME IInv, [Next]_vars
             PROVE  IInv'
  OBVIOUS
<1>1. CASE \E r \in Runners : Run(r) \/ Crash(r)
  BY <1>1, BeginKeeps, ReadMemoryFloorKeeps, PlanKeeps, AdmitKeeps,
     BackfillNameKeysKeeps, ListMemoriesKeeps, RescopeKeeps, StampMemoriesKeeps,
     ListChunksKeeps, StampChunksKeeps, CrashKeeps DEF Run
<1>2. CASE Others
  BY <1>2, StoreMemoryKeeps, StoreChunkKeeps, PatchKeeps DEF Others
<1>3. CASE UNCHANGED vars
  BY <1>3 DEF vars, storeVars, runnerVars, IInv, TypeOK, StampedIsRescoped, QueueSound,
              FloorTells, PastBaseline, ListingHolds, AllBased
<1> QED
  BY <1>1, <1>2, <1>3 DEF Next

LEMMA SpecIInv == Spec => []IInv
BY InitIInv, NextKeepsIInv, PTL DEF Spec

\* The store and every runner's locals keep their types, whatever overlaps or dies.
THEOREM MigrationTypes == Spec => []TypeOK
BY SpecIInv, PTL DEF IInv

\* For every store and every number of overlapping and dying runs, a memory whose
\* stamp says that it went through the baseline has left the worktree scope, unless
\* an operator's correction put the stamp there.
THEOREM StampsKeepTheirPromise == Spec => []StampedIsRescoped
BY SpecIInv, PTL DEF IInv

-----------------------------------------------------------------------------
(* The schedule of the maintenance jobs *)

(***************************************************************************)
(* Every pass of the maintenance jobs is whole, however much work comes up *)
(* and however many jobs fail, daemons stop and runs overlap.              *)
(*                                                                         *)
(* The argument.  What a run has reported is its plan up to where it is    *)
(* (ReportsFollowPlan).  A run that is quiet has been alone since it began *)
(* (QuietIsAlone), so what it listed is still all there is, and each job   *)
(* it has passed is without work (QuietMeetsAll): the jobs that make work  *)
(* for others come before those (JobOrder), which is the one thing about   *)
(* the order of build_default_jobs that matters here.                      *)
(***************************************************************************)

RunState ==
    [pc : {"idle", "next", "working", "over"}, plan : Seq(Jobs), preview : BOOLEAN, at : Nat,
     upto : Nat, reports : Seq(Jobs \X {"done", "error"}), quiet : BOOLEAN]

ScheduleTypes ==
    /\ brought \in [Jobs -> Nat] /\ met \in [Jobs -> Nat]
    /\ runs \in [Actors -> RunState]
    /\ links \subseteq Actors

Over(a) == runs[a].pc = "over"

\* A run is a pass or a single job, somewhere in its plan or just beyond it.
PlansFit ==
    \A a \in Actors : Busy(a) \/ Over(a) =>
        /\ runs[a].at \in 1..(Len(runs[a].plan) + 1)
        /\ runs[a].pc = "working" => runs[a].at <= Len(runs[a].plan)
        /\ Over(a) => IsPass(a) /\ runs[a].at = Len(runs[a].plan) + 1
        /\ IsPass(a) => ~runs[a].preview

ReportsFollowPlan ==
    \A a \in Actors : Busy(a) \/ Over(a) =>
        /\ Len(runs[a].reports) = runs[a].at - 1
        /\ \A k \in 1..Len(runs[a].reports) : runs[a].reports[k][1] = runs[a].plan[k]

\* No more work is met, or listed, than came up.
MetIsBrought ==
    /\ \A j \in Jobs : met[j] <= brought[j]
    /\ \A a \in Actors : runs[a].pc = "working" => runs[a].upto <= brought[Job(a)]

QuietIsAlone == \A a, b \in Actors : runs[a].quiet /\ a # b => ~Busy(b)

QuietMeetsAll ==
    \A a \in Actors : runs[a].quiet /\ IsPass(a) =>
        /\ \A k \in 1..Len(DefaultJobs) : k < runs[a].at => met[DefaultJobs[k]] = brought[DefaultJobs[k]]
        /\ runs[a].pc = "working" => runs[a].upto = brought[Job(a)]

LinksAreUsed == \A a \in Actors \ {"cron"} : a \in links => Busy(a)

ScheduleInv ==
    /\ ScheduleTypes /\ PlansFit /\ ReportsFollowPlan /\ MetIsBrought
    /\ QuietIsAlone /\ QuietMeetsAll /\ LinksAreUsed

-----------------------------------------------------------------------------
\* No default job makes work for itself or for one before it (build_default_jobs).
LEMMA JobOrder ==
    /\ DefaultJobs \in Seq(Jobs) /\ Len(DefaultJobs) = 9
    /\ \A i, k \in 1..9 : i <= k => DefaultJobs[i] \notin MakesWorkFor(DefaultJobs[k])
    /\ Defaults = {DefaultJobs[k] : k \in 1..9} /\ Defaults \subseteq Jobs
    /\ \A j : <<j>> # DefaultJobs
  <1>1. DOMAIN DefaultJobs = 1..9 /\ Len(DefaultJobs) = 9
    BY DEF DefaultJobs
  <1>2. Defaults = {DefaultJobs[k] : k \in 1..9} /\ Defaults \subseteq Jobs
    BY <1>1 DEF Defaults, Jobs
  <1>3. \A k \in 1..9 : DefaultJobs[k] \in Jobs
    BY <1>2
  <1>4. DefaultJobs \in Seq(Jobs)
    <2>1. /\ "consolidation" \in Jobs /\ "entity_resolution" \in Jobs /\ "mentions" \in Jobs
          /\ "co_mention" \in Jobs /\ "relation_norm" \in Jobs /\ "entity_dedup" \in Jobs
          /\ "category_merge" \in Jobs /\ "decay" \in Jobs /\ "audit" \in Jobs
      BY <1>3 DEF DefaultJobs
    <2>2. QED
      BY <2>1 DEF DefaultJobs
  <1>5. \A i, k \in 1..9 : i <= k => DefaultJobs[i] \notin MakesWorkFor(DefaultJobs[k])
    <2> SUFFICES ASSUME NEW i \in 1..9, NEW k \in 1..9, i <= k
                 PROVE  DefaultJobs[i] \notin MakesWorkFor(DefaultJobs[k])
      OBVIOUS
    <2>1. CASE k = 1
      BY <2>1 DEF DefaultJobs, MakesWorkFor
    <2>2. CASE k = 2
      BY <2>2 DEF DefaultJobs, MakesWorkFor
    <2>3. CASE k = 3
      BY <2>3 DEF DefaultJobs, MakesWorkFor
    <2>4. CASE k \in 4..9
      <3>1. MakesWorkFor(DefaultJobs[k]) = {}
        BY <2>4 DEF DefaultJobs, MakesWorkFor
      <3>2. QED
        BY <3>1
    <2>5. QED
      BY <2>1, <2>2, <2>3, <2>4
  <1>6. \A j : <<j>> # DefaultJobs
    BY DEF DefaultJobs
  <1>7. QED
    BY <1>1, <1>2, <1>4, <1>5, <1>6

\* At the start nobody runs.
LEMMA ScheduleStart == ScheduleInit => ScheduleInv
  <1> SUFFICES ASSUME ScheduleInit PROVE ScheduleInv
    OBVIOUS
  <1>1. Idle \in RunState
    BY EmptySeq DEF Idle, RunState
  <1>2. \A a \in Actors : runs[a].pc = "idle" /\ ~runs[a].quiet
    BY DEF ScheduleInit, Idle
  <1>3. ScheduleTypes
    BY <1>1 DEF ScheduleInit, ScheduleTypes
  <1>4. QED
    BY <1>2, <1>3 DEF ScheduleInit, ScheduleInv, PlansFit, ReportsFollowPlan, MetIsBrought,
                      QuietIsAlone, QuietMeetsAll, LinksAreUsed, Busy, Over

-----------------------------------------------------------------------------
\* What a disturbance leaves of a run: everything but its quiet.
LEMMA DisturbedRuns ==
    ASSUME ScheduleTypes
    PROVE  /\ Disturbed(runs) \in [Actors -> RunState]
           /\ \A a \in Actors :
                /\ Disturbed(runs)[a].pc = runs[a].pc /\ Disturbed(runs)[a].plan = runs[a].plan
                /\ Disturbed(runs)[a].preview = runs[a].preview /\ Disturbed(runs)[a].at = runs[a].at
                /\ Disturbed(runs)[a].upto = runs[a].upto
                /\ Disturbed(runs)[a].reports = runs[a].reports /\ ~Disturbed(runs)[a].quiet
  <1>1. \A a \in Actors : runs[a] \in RunState
    BY DEF ScheduleTypes
  <1>2. QED
    BY <1>1 DEF Disturbed, RunState

\* Work comes up: nobody is quiet any more.
LEMMA BringKeeps == ASSUME ScheduleInv, NEW j \in Brought, BringWork(j) PROVE ScheduleInv'
  <1> USE DEF ScheduleInv
  <1>1. /\ runs' \in [Actors -> RunState]
        /\ \A a \in Actors :
             /\ runs'[a].pc = runs[a].pc /\ runs'[a].plan = runs[a].plan
             /\ runs'[a].preview = runs[a].preview /\ runs'[a].at = runs[a].at
             /\ runs'[a].upto = runs[a].upto /\ runs'[a].reports = runs[a].reports /\ ~runs'[a].quiet
    BY DisturbedRuns DEF BringWork
  <1>2. brought' \in [Jobs -> Nat] /\ \A k \in Jobs : brought[k] <= brought'[k]
    <2>1. brought \in [Jobs -> Nat] /\ brought' = [brought EXCEPT ![j] = @ + 1]
      BY DEF BringWork, ScheduleTypes
    <2>2. \A k \in Jobs : brought'[k] = IF k = j THEN brought[k] + 1 ELSE brought[k]
      BY <2>1
    <2>3. brought' = [k \in Jobs |-> brought'[k]]
      BY <2>1
    <2>4. \A k \in Jobs : brought'[k] \in Nat /\ brought[k] <= brought'[k]
      BY <2>1, <2>2
    <2>5. QED
      BY <2>3, <2>4
  <1>3. met' = met /\ links' = links
    BY DEF BringWork
  <1>4. ScheduleTypes'
    BY <1>1, <1>2, <1>3 DEF ScheduleTypes
  <1>5. PlansFit' /\ ReportsFollowPlan' /\ LinksAreUsed' /\ QuietIsAlone' /\ QuietMeetsAll'
    <2>1. \A a \in Actors : Busy(a)' = Busy(a) /\ Over(a)' = Over(a) /\ IsPass(a)' = IsPass(a)
      BY <1>1 DEF Busy, Over, IsPass
    <2>2. PlansFit'
      BY <1>1, <2>1 DEF PlansFit
    <2>3. ReportsFollowPlan'
      BY <1>1, <2>1 DEF ReportsFollowPlan
    <2>4. LinksAreUsed'
      BY <1>3, <2>1 DEF LinksAreUsed
    <2>5. QuietIsAlone' /\ QuietMeetsAll'
      BY <1>1 DEF QuietIsAlone, QuietMeetsAll
    <2>6. QED
      BY <2>2, <2>3, <2>4, <2>5
  <1>6. MetIsBrought'
    <2>1. \A k \in Jobs : met'[k] <= brought'[k]
      BY <1>2, <1>3 DEF MetIsBrought, ScheduleTypes
    <2>2. ASSUME NEW a \in Actors, runs'[a].pc = "working" PROVE runs'[a].upto <= brought'[Job(a)']
      <3>1. Job(a) \in Jobs /\ Job(a)' = Job(a) /\ runs[a].upto \in Nat
        BY <1>1, <2>2, ElementOfSeq DEF Job, PlansFit, Busy, ScheduleTypes, RunState
      <3>2. QED
        BY <1>1, <1>2, <2>2, <3>1 DEF MetIsBrought, ScheduleTypes
    <2>3. QED
      BY <2>1, <2>2 DEF MetIsBrought
  <1>7. QED
    BY <1>4, <1>5, <1>6

\* A run begins (a tick, a command, a request): it is quiet if it is alone, and nobody
\* else is.
LEMMA BeginsKeeps ==
    ASSUME ScheduleInv, NEW a \in Actors, NEW plan \in Seq(Jobs), NEW preview \in BOOLEAN,
           Begins(a, plan, preview), plan = DefaultJobs => ~preview,
           links' \subseteq links \cup {a}
    PROVE  ScheduleInv'
  <1> USE DEF ScheduleInv
  <1> DEFINE new == [Idle EXCEPT !.pc = "next", !.plan = plan, !.preview = preview,
                                 !.quiet = \A b \in Actors : ~Busy(b)]
  <1>1. /\ new \in RunState /\ new.pc = "next" /\ new.plan = plan /\ new.preview = preview
        /\ new.at = 1 /\ new.reports = <<>> /\ (new.quiet <=> \A b \in Actors : ~Busy(b))
    BY EmptySeq DEF Idle, RunState
  <1>2. runs' = [Disturbed(runs) EXCEPT ![a] = new]
    BY DEF Begins
  <1> HIDE DEF new
  <1>3. /\ runs' \in [Actors -> RunState] /\ runs'[a] = new
        /\ \A b \in Actors \ {a} :
             /\ runs'[b].pc = runs[b].pc /\ runs'[b].plan = runs[b].plan
             /\ runs'[b].preview = runs[b].preview /\ runs'[b].at = runs[b].at
             /\ runs'[b].upto = runs[b].upto /\ runs'[b].reports = runs[b].reports /\ ~runs'[b].quiet
    BY <1>1, <1>2, DisturbedRuns
  <1>4. brought' = brought /\ met' = met
    BY DEF Begins
  <1>5. ScheduleTypes'
    BY <1>3, <1>4 DEF ScheduleTypes
  <1>6. PlansFit'
    BY <1>1, <1>3, LenProperties DEF PlansFit, Busy, Over, IsPass
  <1>7. ReportsFollowPlan'
    BY <1>1, <1>3, EmptySeq DEF ReportsFollowPlan, Busy, Over
  <1>8. MetIsBrought'
    BY <1>1, <1>3, <1>4 DEF MetIsBrought, Job
  <1>9. QuietIsAlone'
    BY <1>1, <1>3 DEF QuietIsAlone, Busy
  <1>10. QuietMeetsAll'
    BY <1>1, <1>3, <1>4 DEF QuietMeetsAll, IsPass
  <1>11. LinksAreUsed'
    BY <1>1, <1>3 DEF LinksAreUsed, Busy
  <1>12. QED
    BY <1>5, <1>6, <1>7, <1>8, <1>9, <1>10, <1>11

\* The work of a job is listed (run_once comes to it).
LEMMA ListKeeps == ASSUME ScheduleInv, NEW a \in Actors, ListWork(a) PROVE ScheduleInv'
  <1> USE DEF ScheduleInv
  <1>1. runs[a] \in RunState /\ runs[a].pc = "next" /\ runs[a].at <= Len(runs[a].plan)
        /\ runs[a].at \in 1..Len(runs[a].plan)
    BY DEF ListWork, ScheduleTypes, PlansFit, Busy, RunState
  <1>2. Job(a) \in Jobs
    BY <1>1, ElementOfSeq DEF Job, RunState
  <1>3. brought[Job(a)] \in Nat
    BY <1>2 DEF ScheduleTypes
  <1>4. /\ runs' \in [Actors -> RunState]
        /\ runs'[a].pc = "working" /\ runs'[a].upto = brought[Job(a)]
        /\ runs'[a].plan = runs[a].plan /\ runs'[a].preview = runs[a].preview
        /\ runs'[a].at = runs[a].at /\ runs'[a].reports = runs[a].reports /\ runs'[a].quiet = runs[a].quiet
        /\ \A b \in Actors \ {a} : runs'[b] = runs[b]
    BY <1>1, <1>3 DEF ListWork, ScheduleTypes, RunState
  <1>5. UNCHANGED <<brought, met, links>>
    BY DEF ListWork
  <1>6. ScheduleTypes'
    BY <1>4, <1>5 DEF ScheduleTypes
  <1>7. PlansFit' /\ ReportsFollowPlan' /\ LinksAreUsed' /\ QuietIsAlone'
    <2>1. \A b \in Actors : Busy(b)' = Busy(b) /\ Over(b)' = Over(b) /\ IsPass(b)' = IsPass(b)
      BY <1>1, <1>4 DEF Busy, Over, IsPass
    <2>2. PlansFit'
      BY <1>1, <1>4, <2>1 DEF PlansFit
    <2>3. ReportsFollowPlan'
      BY <1>4, <2>1 DEF ReportsFollowPlan
    <2>4. LinksAreUsed'
      BY <1>5, <2>1 DEF LinksAreUsed
    <2>5. QuietIsAlone'
      BY <1>4, <2>1 DEF QuietIsAlone
    <2>6. QED
      BY <2>2, <2>3, <2>4, <2>5
  <1>8. MetIsBrought'
    BY <1>3, <1>4, <1>5 DEF MetIsBrought, Job
  <1>9. QuietMeetsAll'
    BY <1>4, <1>5 DEF QuietMeetsAll, IsPass, Job
  <1>10. QED
    BY <1>6, <1>7, <1>8, <1>9

\* What a report changes of a run: the job it is at is the next one.
LEMMA ReportedRun ==
    ASSUME ScheduleInv, NEW a \in Actors, runs[a].pc = "working", NEW what \in {"done", "error"}
    PROVE  /\ Reported(a, what) \in [Actors -> RunState]
           /\ \A b \in Actors \ {a} : Reported(a, what)[b] = runs[b]
           /\ Reported(a, what)[a].pc = "next" /\ Reported(a, what)[a].at = runs[a].at + 1
           /\ Reported(a, what)[a].plan = runs[a].plan
           /\ Reported(a, what)[a].preview = runs[a].preview
           /\ Reported(a, what)[a].quiet = runs[a].quiet
           /\ Len(Reported(a, what)[a].reports) = runs[a].at
           /\ \A k \in 1..runs[a].at : Reported(a, what)[a].reports[k][1] = runs[a].plan[k]
           /\ Job(a) \in Jobs /\ runs[a].at \in 1..Len(runs[a].plan)
  <1> USE DEF ScheduleInv
  <1> DEFINE longer == Append(runs[a].reports, <<Job(a), what>>)
  <1>1. runs[a] \in RunState /\ runs[a].at \in 1..Len(runs[a].plan)
    BY DEF ScheduleTypes, PlansFit, Busy, RunState
  <1>2. Job(a) \in Jobs
    BY <1>1, ElementOfSeq DEF Job, RunState
  <1>3. Len(runs[a].reports) = runs[a].at - 1
        /\ \A k \in 1..Len(runs[a].reports) : runs[a].reports[k][1] = runs[a].plan[k]
    BY DEF ReportsFollowPlan, Busy
  <1>4. runs[a].reports \in Seq(Jobs \X {"done", "error"}) /\ <<Job(a), what>> \in Jobs \X {"done", "error"}
    BY <1>1, <1>2 DEF RunState
  <1>5. /\ longer \in Seq(Jobs \X {"done", "error"}) /\ Len(longer) = Len(runs[a].reports) + 1
        /\ \A k \in 1..Len(runs[a].reports) : longer[k] = runs[a].reports[k]
        /\ longer[Len(runs[a].reports) + 1] = <<Job(a), what>>
    BY <1>4, AppendProperties
  <1> HIDE DEF longer
  <1> DEFINE new == [runs[a] EXCEPT !.pc = "next", !.at = @ + 1, !.reports = longer]
  <1>6. Reported(a, what) = [runs EXCEPT ![a] = new]
    <2>1. runs \in [Actors -> RunState]
      BY DEF ScheduleTypes
    <2>2. QED
      BY <1>1, <2>1 DEF Reported, longer, RunState
  <1>11. /\ new \in RunState /\ new.pc = "next" /\ new.at = runs[a].at + 1
         /\ new.plan = runs[a].plan /\ new.preview = runs[a].preview
         /\ new.quiet = runs[a].quiet /\ new.reports = longer
    <2> DEFINE Reports == Seq(Jobs \X {"done", "error"})
    <2>1. /\ runs[a] \in [pc : {"idle", "next", "working", "over"}, plan : Seq(Jobs), preview : BOOLEAN,
                          at : Nat, upto : Nat, reports : Reports, quiet : BOOLEAN]
          /\ longer \in Reports
      BY <1>1, <1>5 DEF RunState
    <2> HIDE DEF Reports
    <2>2. runs[a].at + 1 \in Nat
      BY <2>1
    <2>3. new \in [pc : {"idle", "next", "working", "over"}, plan : Seq(Jobs), preview : BOOLEAN,
                   at : Nat, upto : Nat, reports : Reports, quiet : BOOLEAN]
      BY <2>1, <2>2
    <2>4. /\ new.pc = "next" /\ new.at = runs[a].at + 1
          /\ new.plan = runs[a].plan /\ new.preview = runs[a].preview
          /\ new.quiet = runs[a].quiet /\ new.reports = longer
      BY <2>1
    <2>5. QED
      BY <2>3, <2>4 DEF RunState, Reports
  <1> HIDE DEF new
  <1>7. /\ Reported(a, what) \in [Actors -> RunState]
        /\ \A b \in Actors \ {a} : Reported(a, what)[b] = runs[b]
        /\ Reported(a, what)[a].pc = "next" /\ Reported(a, what)[a].at = runs[a].at + 1
        /\ Reported(a, what)[a].plan = runs[a].plan
        /\ Reported(a, what)[a].preview = runs[a].preview
        /\ Reported(a, what)[a].quiet = runs[a].quiet
        /\ Reported(a, what)[a].reports = longer
    BY <1>6, <1>11 DEF ScheduleTypes
  <1>8. Len(longer) = runs[a].at
    BY <1>1, <1>3, <1>5 DEF RunState
  <1>9. \A k \in 1..runs[a].at : longer[k][1] = runs[a].plan[k]
    <2> SUFFICES ASSUME NEW k \in 1..runs[a].at PROVE longer[k][1] = runs[a].plan[k]
      OBVIOUS
    <2>1. CASE k = runs[a].at
      BY <1>1, <1>3, <1>5, <2>1 DEF RunState, Job
    <2>2. CASE k # runs[a].at
      <3>1. k \in 1..Len(runs[a].reports)
        BY <1>1, <1>3, <2>2 DEF RunState
      <3>2. QED
        BY <1>3, <1>5, <3>1
    <2>3. QED
      BY <2>1, <2>2
  <1>10. QED
    BY <1>1, <1>2, <1>7, <1>8, <1>9

-----------------------------------------------------------------------------
\* A run that reports a job: its plan, and its quiet, are followed one job further.
LEMMA ReportFollows ==
    ASSUME ScheduleInv, NEW a \in Actors, runs[a].pc = "working", NEW what \in {"done", "error"},
           runs' \in [Actors -> RunState],
           \A b \in Actors \ {a} : runs'[b] = runs[b],
           runs'[a].pc = "next", runs'[a].at = Reported(a, what)[a].at,
           runs'[a].plan = runs[a].plan, runs'[a].preview = runs[a].preview,
           runs'[a].reports = Reported(a, what)[a].reports,
           runs'[a].quiet => runs[a].quiet, links' = links
    PROVE  PlansFit' /\ ReportsFollowPlan' /\ LinksAreUsed' /\ QuietIsAlone'
  <1> USE DEF ScheduleInv
  <1>1. /\ runs'[a].at = runs[a].at + 1 /\ Len(runs'[a].reports) = runs[a].at
        /\ \A k \in 1..runs[a].at : runs'[a].reports[k][1] = runs'[a].plan[k]
        /\ runs[a].at \in 1..Len(runs[a].plan)
    BY ReportedRun
  <1>2. \A b \in Actors : Busy(b)' = Busy(b) /\ Over(b)' = Over(b) /\ IsPass(b)' = IsPass(b)
    BY DEF Busy, Over, IsPass
  <1>3. Busy(a) /\ ~Over(a) /\ runs[a].plan \in Seq(Jobs) /\ Len(runs[a].plan) \in Nat
    BY LenProperties DEF Busy, Over, ScheduleTypes, RunState
  <1>4. PlansFit'
    <2>1. ASSUME NEW b \in Actors \ {a}, (Busy(b) \/ Over(b))'
          PROVE  /\ runs'[b].at \in 1..(Len(runs'[b].plan) + 1)
                 /\ runs'[b].pc = "working" => runs'[b].at <= Len(runs'[b].plan)
                 /\ Over(b)' => IsPass(b)' /\ runs'[b].at = Len(runs'[b].plan) + 1
                 /\ IsPass(b)' => ~runs'[b].preview
      BY <1>2, <2>1 DEF PlansFit
    <2>2. /\ runs'[a].at \in 1..(Len(runs'[a].plan) + 1)
          /\ runs'[a].pc # "working" /\ ~Over(a)' /\ (IsPass(a)' => ~runs'[a].preview)
      BY <1>1, <1>2, <1>3 DEF PlansFit
    <2>3. QED
      BY <2>1, <2>2 DEF PlansFit
  <1>5. ReportsFollowPlan'
    <2>1. ASSUME NEW b \in Actors \ {a}, (Busy(b) \/ Over(b))'
          PROVE  /\ Len(runs'[b].reports) = runs'[b].at - 1
                 /\ \A k \in 1..Len(runs'[b].reports) : runs'[b].reports[k][1] = runs'[b].plan[k]
      BY <1>2, <2>1 DEF ReportsFollowPlan
    <2>2. /\ Len(runs'[a].reports) = runs'[a].at - 1
          /\ \A k \in 1..Len(runs'[a].reports) : runs'[a].reports[k][1] = runs'[a].plan[k]
      BY <1>1, <1>3
    <2>3. QED
      BY <2>1, <2>2 DEF ReportsFollowPlan
  <1>6. LinksAreUsed' /\ QuietIsAlone'
    BY <1>2 DEF LinksAreUsed, QuietIsAlone
  <1>7. QED
    BY <1>4, <1>5, <1>6

\* A job completes: its work is met as far as it was listed, and the work it makes is for
\* jobs that a pass has yet to come to.
LEMMA CompleteKeeps == ASSUME ScheduleInv, NEW a \in Actors, Complete(a) PROVE ScheduleInv'
  <1> USE DEF ScheduleInv
  <1> DEFINE news == ~runs[a].preview /\ runs[a].upto > met[Job(a)]
  <1>1. /\ runs[a].pc = "working" /\ runs' = Reported(a, "done") /\ links' = links
        /\ met' = IF news THEN [met EXCEPT ![Job(a)] = runs[a].upto] ELSE met
        /\ brought' = [k \in Jobs |-> IF news /\ k \in MakesWorkFor(Job(a)) THEN brought[k] + 1
                                      ELSE brought[k]]
    BY DEF Complete
  <1>2. /\ runs' \in [Actors -> RunState] /\ \A b \in Actors \ {a} : runs'[b] = runs[b]
        /\ runs'[a].pc = "next" /\ runs'[a].at = runs[a].at + 1 /\ runs'[a].plan = runs[a].plan
        /\ runs'[a].preview = runs[a].preview /\ runs'[a].quiet = runs[a].quiet
        /\ Job(a) \in Jobs /\ runs[a].at \in 1..Len(runs[a].plan)
    BY <1>1, ReportedRun
  <1>3. runs[a].upto \in Nat /\ met \in [Jobs -> Nat] /\ brought \in [Jobs -> Nat]
    BY DEF ScheduleTypes, RunState
  <1> HIDE DEF news
  <1>4. /\ brought' \in [Jobs -> Nat] /\ \A k \in Jobs : brought[k] <= brought'[k]
        /\ \A k \in Jobs : k \notin MakesWorkFor(Job(a)) => brought'[k] = brought[k]
    BY <1>1, <1>3
  <1>5. /\ met' \in [Jobs -> Nat]
        /\ \A k \in Jobs : k # Job(a) => met'[k] = met[k]
        /\ met'[Job(a)] = IF news THEN runs[a].upto ELSE met[Job(a)]
    BY <1>1, <1>2, <1>3
  <1>6. ScheduleTypes'
    BY <1>1, <1>2, <1>4, <1>5 DEF ScheduleTypes
  <1>7. PlansFit' /\ ReportsFollowPlan' /\ LinksAreUsed' /\ QuietIsAlone'
    BY <1>1, <1>2, ReportFollows
  <1>8. MetIsBrought'
    <2>1. runs[a].upto <= brought[Job(a)]
      BY <1>1 DEF MetIsBrought
    <2>2. ASSUME NEW k \in Jobs PROVE met'[k] <= brought'[k]
      <3>1. met'[k] \in Nat /\ met[k] \in Nat /\ brought[k] \in Nat /\ brought'[k] \in Nat
            /\ met[k] <= brought[k] /\ brought[k] <= brought'[k]
        BY <1>3, <1>4, <1>5 DEF MetIsBrought
      <3>2. met'[k] <= brought[k]
        BY <1>5, <2>1, <3>1
      <3>3. QED
        BY <3>1, <3>2
    <2>3. ASSUME NEW b \in Actors, runs'[b].pc = "working" PROVE runs'[b].upto <= brought'[Job(b)']
      <3>1. b # a /\ runs'[b] = runs[b] /\ Job(b)' = Job(b)
        BY <1>2, <2>3 DEF Job
      <3>2. runs[b].upto \in Nat /\ runs[b].upto <= brought[Job(b)]
        BY <2>3, <3>1 DEF MetIsBrought, ScheduleTypes, RunState
      <3>3. Job(b) \in Jobs
        BY <2>3, <3>1, ReportedRun
      <3>4. QED
        BY <1>3, <1>4, <3>1, <3>2, <3>3
    <2>4. QED
      BY <2>2, <2>3 DEF MetIsBrought
  <1>9. QuietMeetsAll'
    <2> SUFFICES ASSUME NEW b \in Actors, runs'[b].quiet, IsPass(b)'
                 PROVE  /\ \A k \in 1..Len(DefaultJobs) : k < runs'[b].at =>
                             met'[DefaultJobs[k]] = brought'[DefaultJobs[k]]
                        /\ runs'[b].pc = "working" => runs'[b].upto = brought'[Job(b)']
      BY DEF QuietMeetsAll
    <2>1. b = a
      BY <1>1, <1>2 DEF QuietIsAlone, Busy
    <2>2. /\ runs[a].quiet /\ IsPass(a) /\ ~runs[a].preview /\ runs[a].plan = DefaultJobs
          /\ runs[a].upto = brought[Job(a)] /\ runs[a].at \in 1..9
          /\ Job(a) = DefaultJobs[runs[a].at]
      BY <1>1, <1>2, <2>1, JobOrder DEF IsPass, PlansFit, Busy, QuietMeetsAll, Job
    <2>3. ASSUME NEW k \in 1..9, k < runs[a].at + 1
          PROVE  met'[DefaultJobs[k]] = brought'[DefaultJobs[k]]
      <3>1. DefaultJobs[k] \in Jobs /\ DefaultJobs[k] \notin MakesWorkFor(Job(a))
        BY <2>2, <2>3, JobOrder
      <3>2. brought'[DefaultJobs[k]] = brought[DefaultJobs[k]]
        BY <1>4, <3>1
      <3>3. CASE DefaultJobs[k] = Job(a)
        <4>1. met[Job(a)] <= brought[Job(a)] /\ met[Job(a)] \in Nat /\ brought[Job(a)] \in Nat
          BY <1>2, <1>3 DEF MetIsBrought
        <4>2. met'[Job(a)] = brought[Job(a)]
          BY <1>3, <1>5, <2>2, <4>1 DEF news
        <4>3. QED
          BY <3>2, <3>3, <4>2
      <3>4. CASE DefaultJobs[k] # Job(a)
        <4>1. k < runs[a].at
          BY <2>2, <2>3, <3>4
        <4>2. met[DefaultJobs[k]] = brought[DefaultJobs[k]]
          BY <2>2, <4>1, JobOrder DEF QuietMeetsAll
        <4>3. QED
          BY <1>5, <3>1, <3>2, <3>4, <4>2
      <3>5. QED
        BY <3>3, <3>4
    <2>4. QED
      BY <1>2, <2>1, <2>3, JobOrder
  <1>10. QED
    BY <1>6, <1>7, <1>8, <1>9

\* A job of a pass fails: the pass goes on, and is not quiet any more.
LEMMA FailInPassKeeps == ASSUME ScheduleInv, NEW a \in Actors, FailInPass(a) PROVE ScheduleInv'
  <1> USE DEF ScheduleInv
  <1> DEFINE after == Reported(a, "error")
  <1>1. /\ runs[a].pc = "working" /\ runs' = [after EXCEPT ![a].quiet = FALSE]
        /\ UNCHANGED <<brought, met, links>>
    BY DEF FailInPass
  <1>2. /\ after \in [Actors -> RunState] /\ \A b \in Actors \ {a} : after[b] = runs[b]
        /\ after[a].pc = "next" /\ after[a].plan = runs[a].plan /\ after[a].preview = runs[a].preview
    BY <1>1, ReportedRun
  <1> HIDE DEF after
  <1>3. after[a] \in RunState
    BY <1>2
  <1>4. /\ runs' \in [Actors -> RunState] /\ \A b \in Actors \ {a} : runs'[b] = runs[b]
        /\ runs'[a].pc = "next" /\ runs'[a].at = after[a].at /\ runs'[a].plan = runs[a].plan
        /\ runs'[a].preview = runs[a].preview /\ runs'[a].reports = after[a].reports
        /\ ~runs'[a].quiet
    BY <1>1, <1>2, <1>3 DEF RunState
  <1>5. ScheduleTypes'
    BY <1>1, <1>4 DEF ScheduleTypes
  <1>6. PlansFit' /\ ReportsFollowPlan' /\ LinksAreUsed' /\ QuietIsAlone'
    BY <1>1, <1>4, ReportFollows DEF after
  <1>7. MetIsBrought' /\ QuietMeetsAll'
    BY <1>1, <1>4 DEF MetIsBrought, QuietMeetsAll, IsPass, Job
  <1>8. QED
    BY <1>5, <1>6, <1>7

\* A run ends by itself, or is given up: what it was goes, and with it the connection of a
\* command or a request.
LEMMA IdleKeeps ==
    ASSUME ScheduleInv, NEW a \in Actors, runs' = [runs EXCEPT ![a] = Idle],
           links' \subseteq links, a # "cron" => a \notin links', UNCHANGED <<brought, met>>
    PROVE  ScheduleInv'
  <1> USE DEF ScheduleInv
  <1>1. Idle \in RunState /\ Idle.pc = "idle" /\ ~Idle.quiet
    BY EmptySeq DEF Idle, RunState
  <1>2. /\ runs' \in [Actors -> RunState] /\ runs'[a].pc = "idle" /\ ~runs'[a].quiet
        /\ \A b \in Actors \ {a} : runs'[b] = runs[b]
    BY <1>1 DEF ScheduleTypes
  <1>3. ScheduleTypes'
    BY <1>2 DEF ScheduleTypes
  <1>4. PlansFit' /\ ReportsFollowPlan'
    BY <1>2 DEF PlansFit, ReportsFollowPlan, Busy, Over, IsPass
  <1>5. MetIsBrought' /\ QuietMeetsAll'
    BY <1>2 DEF MetIsBrought, QuietMeetsAll, IsPass, Job
  <1>6. QuietIsAlone' /\ LinksAreUsed'
    BY <1>2 DEF QuietIsAlone, LinksAreUsed, Busy
  <1>7. QED
    BY <1>3, <1>4, <1>5, <1>6

\* A pass is over: its reports are kept as they are, and so is its quiet.
LEMMA OverKeeps ==
    ASSUME ScheduleInv, NEW a \in Actors, EndRun(a), IsPass(a) PROVE ScheduleInv'
  <1> USE DEF ScheduleInv
  <1>1. /\ runs[a].pc = "next" /\ runs[a].at > Len(runs[a].plan)
        /\ runs' = [runs EXCEPT ![a] = [runs[a] EXCEPT !.pc = "over"]]
        /\ UNCHANGED <<brought, met>> /\ links' \subseteq links /\ (a # "cron" => a \notin links')
    BY DEF EndRun
  <1>2. runs[a] \in RunState
    BY DEF ScheduleTypes
  <1>3. /\ runs' \in [Actors -> RunState] /\ \A b \in Actors \ {a} : runs'[b] = runs[b]
        /\ runs'[a].pc = "over" /\ runs'[a].at = runs[a].at /\ runs'[a].plan = runs[a].plan
        /\ runs'[a].preview = runs[a].preview /\ runs'[a].reports = runs[a].reports
        /\ runs'[a].quiet = runs[a].quiet
    BY <1>1, <1>2 DEF ScheduleTypes, RunState
  <1>4. ScheduleTypes'
    BY <1>1, <1>3 DEF ScheduleTypes
  <1>5. /\ \A b \in Actors \ {a} : Busy(b)' = Busy(b) /\ Over(b)' = Over(b) /\ IsPass(b)' = IsPass(b)
        /\ Busy(a) /\ Over(a)' /\ ~Busy(a)' /\ IsPass(a)'
    BY <1>1, <1>3 DEF Busy, Over, IsPass
  <1>6. PlansFit'
    <2>1. runs[a].at = Len(runs[a].plan) + 1 /\ ~runs[a].preview
      BY <1>1, <1>2, <1>5, LenProperties DEF PlansFit, RunState
    <2>2. ASSUME NEW b \in Actors \ {a}, (Busy(b) \/ Over(b))'
          PROVE  /\ runs'[b].at \in 1..(Len(runs'[b].plan) + 1)
                 /\ runs'[b].pc = "working" => runs'[b].at <= Len(runs'[b].plan)
                 /\ Over(b)' => IsPass(b)' /\ runs'[b].at = Len(runs'[b].plan) + 1
                 /\ IsPass(b)' => ~runs'[b].preview
      BY <1>3, <1>5, <2>2 DEF PlansFit
    <2>3. /\ runs'[a].at \in 1..(Len(runs'[a].plan) + 1) /\ runs'[a].pc # "working"
          /\ IsPass(a)' /\ runs'[a].at = Len(runs'[a].plan) + 1 /\ ~runs'[a].preview
      BY <1>2, <1>3, <1>5, <2>1, LenProperties DEF RunState
    <2>4. QED
      BY <2>2, <2>3 DEF PlansFit
  <1>7. ReportsFollowPlan'
    BY <1>3, <1>5 DEF ReportsFollowPlan
  <1>8. MetIsBrought' /\ QuietMeetsAll'
    BY <1>1, <1>3 DEF MetIsBrought, QuietMeetsAll, IsPass, Job
  <1>9. QuietIsAlone' /\ LinksAreUsed'
    BY <1>1, <1>3, <1>5 DEF QuietIsAlone, LinksAreUsed
  <1>10. QED
    BY <1>4, <1>6, <1>7, <1>8, <1>9

\* A run ends: of a pass the reports stay, and of anything else nothing does.
LEMMA EndKeeps == ASSUME ScheduleInv, NEW a \in Actors, EndRun(a) PROVE ScheduleInv'
  <1>1. CASE IsPass(a)
    BY <1>1, OverKeeps
  <1>2. CASE ~IsPass(a)
    <2>1. /\ runs' = [runs EXCEPT ![a] = Idle] /\ UNCHANGED <<brought, met>>
          /\ links' \subseteq links /\ (a # "cron" => a \notin links')
      BY <1>2 DEF EndRun
    <2>2. QED
      BY <2>1, IdleKeeps
  <1>3. QED
    BY <1>1, <1>2

\* The daemon stops, with the pass it may be in, and is started again.
LEMMA DaemonKeeps == ASSUME ScheduleInv, StopDaemon \/ StartDaemon PROVE ScheduleInv'
  <1>1. "cron" \in Actors
    BY DEF Actors
  <1>2. CASE StopDaemon
    <2>1. /\ runs' = [runs EXCEPT !["cron"] = Idle] /\ UNCHANGED <<brought, met>>
          /\ links' \subseteq links
      BY <1>2 DEF StopDaemon
    <2>2. QED
      BY <1>1, <2>1, IdleKeeps
  <1>3. CASE StartDaemon
    <2>1. UNCHANGED <<brought, met, runs>> /\ links' = links \cup {"cron"}
      BY <1>3 DEF StartDaemon
    <2>2. QED
      BY <1>1, <2>1 DEF ScheduleInv, ScheduleTypes, PlansFit, ReportsFollowPlan, MetIsBrought,
                        QuietIsAlone, QuietMeetsAll, LinksAreUsed, Busy, Over, IsPass, Job
  <1>4. QED
    BY <1>2, <1>3

\* Every way of starting a run is one of Begins: a pass is never a preview.
LEMMA StartsKeep ==
    ASSUME ScheduleInv,
           Tick \/ RunCommand \/ JobCommand \/ \E j \in Alone \cap Offered : Trigger(j)
    PROVE  ScheduleInv'
  <1>1. {"cron", "command", "console"} = Actors /\ Subcommands \cup Offered \subseteq Jobs
        /\ GraphPreviews \cup MemoryPreviews \subseteq Subcommands
    BY DEF Actors, Jobs, Subcommands
  <1>2. \A j \in Jobs : <<j>> \in Seq(Jobs) /\ <<j>> # DefaultJobs
    BY JobOrder
  <1>3. CASE Tick
    <2>1. Begins("cron", DefaultJobs, FALSE) /\ links' \subseteq links \cup {"cron"}
      BY <1>3 DEF Tick
    <2>2. QED
      BY <1>1, <2>1, JobOrder, BeginsKeeps
  <1>4. CASE RunCommand
    <2>1. Begins("command", DefaultJobs, FALSE) /\ links' \subseteq links \cup {"command"}
      BY <1>4 DEF RunCommand, Command
    <2>2. QED
      BY <1>1, <2>1, JobOrder, BeginsKeeps
  <1>5. CASE JobCommand
    <2>1. PICK j \in Subcommands, p \in BOOLEAN : Command(<<j>>, p)
      BY <1>1, <1>5 DEF JobCommand
    <2>2. Begins("command", <<j>>, p) /\ links' \subseteq links \cup {"command"} /\ j \in Jobs
      BY <1>1, <2>1 DEF Command
    <2>3. QED
      BY <1>1, <1>2, <2>2, BeginsKeeps
  <1>6. CASE \E j \in Alone \cap Offered : Trigger(j)
    <2>1. PICK j \in Offered : Trigger(j)
      BY <1>6
    <2>2. Begins("console", <<j>>, FALSE) /\ links' \subseteq links \cup {"console"} /\ j \in Jobs
      BY <1>1, <2>1 DEF Trigger
    <2>3. QED
      BY <1>1, <1>2, <2>2, BeginsKeeps
  <1>7. QED
    BY <1>3, <1>4, <1>5, <1>6

\* Every step keeps the invariant.
LEMMA ScheduleStep == ScheduleInv /\ [ScheduleNext]_scheduleVars => ScheduleInv'
  <1> SUFFICES ASSUME ScheduleInv, [ScheduleNext]_scheduleVars PROVE ScheduleInv'
    OBVIOUS
  <1>1. CASE Tick \/ RunCommand \/ JobCommand \/ \E j \in Alone \cap Offered : Trigger(j)
    BY <1>1, StartsKeep
  <1>2. CASE StopDaemon \/ StartDaemon
    BY <1>2, DaemonKeeps
  <1>3. CASE \E j \in Brought : BringWork(j)
    BY <1>3, BringKeeps
  <1>4. ASSUME NEW a \in Actors, JobStep(a) PROVE ScheduleInv'
    <2>1. CASE ListWork(a)
      BY <2>1, ListKeeps
    <2>2. CASE Complete(a)
      BY <2>2, CompleteKeeps
    <2>3. CASE FailInPass(a)
      BY <2>3, FailInPassKeeps
    <2>4. CASE FailAlone(a)
      <3>1. runs' = [runs EXCEPT ![a] = Idle] /\ links' = links \ {a} /\ UNCHANGED <<brought, met>>
        BY <2>4 DEF FailAlone
      <3>2. QED
        BY <3>1, IdleKeeps
    <2>5. CASE EndRun(a)
      BY <2>5, EndKeeps
    <2>6. QED
      BY <1>4, <2>1, <2>2, <2>3, <2>4, <2>5 DEF JobStep
  <1>5. CASE UNCHANGED scheduleVars
    BY <1>5 DEF scheduleVars, ScheduleInv, ScheduleTypes, PlansFit, ReportsFollowPlan, MetIsBrought,
                QuietIsAlone, QuietMeetsAll, LinksAreUsed, Busy, Over, IsPass, Job
  <1>6. QED
    BY <1>1, <1>2, <1>3, <1>4, <1>5 DEF ScheduleNext

\* What the invariant says of a pass that is over.
LEMMA WholeWhenOver == ScheduleInv => PassesAreWhole
  <1> SUFFICES ASSUME ScheduleInv PROVE PassesAreWhole
    OBVIOUS
  <1>1. ASSUME NEW a \in Actors, runs[a].pc = "over", IsPass(a)
        PROVE  /\ [k \in DOMAIN runs[a].reports |-> runs[a].reports[k][1]] = DefaultJobs
               /\ runs[a].quiet => \A j \in Defaults : met[j] = brought[j]
    <2>1. runs[a].plan = DefaultJobs /\ runs[a].at = 10 /\ Len(runs[a].reports) = 9
          /\ \A k \in 1..9 : runs[a].reports[k][1] = DefaultJobs[k]
      <3>1. Over(a) /\ runs[a].plan = DefaultJobs /\ Len(DefaultJobs) = 9
        BY <1>1, JobOrder DEF Over, IsPass
      <3>2. runs[a].at = Len(runs[a].plan) + 1
        <4>1. PlansFit
          BY DEF ScheduleInv
        <4>2. QED
          BY <3>1, <4>1 DEF PlansFit
      <3>3. /\ Len(runs[a].reports) = runs[a].at - 1
            /\ \A k \in 1..Len(runs[a].reports) : runs[a].reports[k][1] = runs[a].plan[k]
        <4>1. ReportsFollowPlan
          BY DEF ScheduleInv
        <4>2. QED
          BY <3>1, <4>1 DEF ReportsFollowPlan
      <3>4. runs[a].at = 10 /\ Len(runs[a].reports) = 9
        <4>1. Len(runs[a].plan) = 9
          BY <3>1
        <4>2. runs[a].at = 10
          BY <3>2, <4>1
        <4>3. QED
          BY <3>3, <4>2
      <3>5. QED
        BY <3>1, <3>3, <3>4
    <2>2. runs[a].reports \in Seq(Jobs \X {"done", "error"})
      BY DEF ScheduleInv, ScheduleTypes, RunState
    <2>3. DOMAIN runs[a].reports = 1..9 /\ DefaultJobs = [k \in 1..9 |-> DefaultJobs[k]]
      BY <2>1, <2>2, JobOrder, LenProperties
    <2>4. [k \in DOMAIN runs[a].reports |-> runs[a].reports[k][1]] = DefaultJobs
      BY <2>1, <2>3
    <2>5. ASSUME runs[a].quiet PROVE \A j \in Defaults : met[j] = brought[j]
      <3>1. Len(DefaultJobs) = 9 /\ Defaults = {DefaultJobs[k] : k \in 1..9}
        BY JobOrder
      <3>2. \A k \in 1..9 : met[DefaultJobs[k]] = brought[DefaultJobs[k]]
        BY <1>1, <2>1, <2>5, <3>1 DEF ScheduleInv, QuietMeetsAll
      <3>3. QED
        BY <3>1, <3>2
    <2>6. QED
      BY <2>4, <2>5
  <1>2. QED
    BY <1>1 DEF PassesAreWhole, ScheduleInv, LinksAreUsed

-----------------------------------------------------------------------------
\* Every pass of the jobs that ends has reported each of build_default_jobs once and in
\* order, whatever failed in it; one that nothing failed in and nothing came between leaves
\* no default job with work (MaintenanceRunner.run_once); and a command or request that is
\* done holds no connection.
THEOREM PassesAreAlwaysWhole == ScheduleSpec => []PassesAreWhole
  <1>1. QED
    BY ScheduleStart, ScheduleStep, WholeWhenOver, PTL DEF ScheduleSpec

=============================================================================
