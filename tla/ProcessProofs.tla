---------------------------- MODULE ProcessProofs ----------------------------
(***************************************************************************)
(* Theorems about the processes that share the store.                      *)
(*                                                                         *)
(* RawTier: what a re-extraction closes while any number of ingests store, *)
(* link and write their chunks beside it.  The ids of an extraction are    *)
(* its own (BatchesApart) and belong to its chunk, so whatever is linked   *)
(* to a chunk was extracted from it (LinksOwn), although a link is made    *)
(* before the units are written and most of its ids may never be.  An id   *)
(* is given to one node at most (BornOnce), so closing one node for each   *)
(* linked id leaves none of the linked memories open (Closed).             *)
(*                                                                         *)
(* Orchestrator: the components of the all-in-one process share one        *)
(* connection, for every configuration and any number of requests, crashes *)
(* and failing connections, once the startup check has left one behind;    *)
(* and only a signal or a crash begins a shutdown.  build_storage tests    *)
(* its memo before it awaits, which is a race only while the memo is       *)
(* empty.  The startup check runs alone (Quiescent), so a connection it    *)
(* leaves in the memo is open when the components start (Prepared); from   *)
(* then on nobody opens another (Shared), so nobody replaces the memo, and *)
(* it is closed when all have ended.                                       *)
(***************************************************************************)
EXTENDS RawTier, Orchestrator, MemoryStoreProofs

-----------------------------------------------------------------------------
(* The invariant *)

Offer == [id: Nat, stmt: Extracted]

Task == [chunk: Chunk \cup {NoChunk}, at: {"idle", "extract", "link", "upsert", "await"},
         batch: Seq(Offer)]

\* The types of the tier's variables; a node is born with an id that was offered.
RawTypes ==
    /\ offers \in Seq(Chunk)
    /\ born \in Seq(Nat) /\ Len(born) = Len(mem)
    /\ task \in [Writers -> Task]
    /\ known \subseteq Ids

\* A batch that is being linked or written is not empty, and comes from a chunk.
BatchReady ==
    \A w \in Writers :
        /\ task[w].at \in {"extract", "link", "upsert", "await"} => task[w].chunk \in Chunk
        /\ task[w].at \in {"link", "upsert", "await"} => task[w].batch # <<>>

\* The ids of S were offered for chunk c.
Own(S, c) == \A n \in S : n \in DOMAIN offers /\ offers[n] = c

\* What is in the batches: ids of the chunk in hand, each of them once, and none that
\* a node has already.
BatchOwn ==
    \A w \in Writers : \A k \in DOMAIN task[w].batch :
        /\ task[w].batch[k].id \in DOMAIN offers
        /\ offers[task[w].batch[k].id] = task[w].chunk
        /\ \A i \in Ids : born[i] # task[w].batch[k].id
BatchesApart ==
    \A w, v \in Writers : \A k \in DOMAIN task[w].batch, l \in DOMAIN task[v].batch :
        task[w].batch[k].id = task[v].batch[l].id => w = v /\ k = l

BornOnce ==
    /\ \A i \in Ids : born[i] \in DOMAIN offers
    /\ \A i, j \in Ids : born[i] = born[j] => i = j

\* A chunk is linked to ids that were extracted from it, and so is every listing.
LinksOwn ==
    /\ \A c \in DOMAIN raw : Own(raw[c], c)
    /\ \A r \in chunks \cup inHand \cup done : Own(r.ids, r.chunk)

\* The known memories with an id of S are closed.
Closed(S) == \A i \in known : born[i] \in S => i \notin Active

\* How far the re-extraction has come.
ReindexProgress ==
    /\ phase # "close" => inHand = {}
    /\ \A r \in inHand : closing \subseteq r.ids /\ Closed(r.ids \ closing)
    /\ \A r \in done : Closed(r.ids)

RawInv ==
    /\ WriterInv
    /\ RawTypes
    /\ BatchReady
    /\ BatchOwn
    /\ BatchesApart
    /\ BornOnce
    /\ LinksOwn
    /\ ReindexProgress

-----------------------------------------------------------------------------
(* What the steps leave in place *)

\* The writers' part of the invariant, when the store does not move.
LEMMA StoreSame ==
    ASSUME WriterInv, UNCHANGED storeVars
    PROVE  WriterInv'
BY DEF storeVars, writerVars, WriterInv, TypeOK, ReinforceReady, WriteOnSubject, Related, Ids

\* What was offered for a chunk stays its own while offers are only added.
LEMMA OwnKept ==
    ASSUME \A n \in DOMAIN offers : n \in DOMAIN offers' /\ offers'[n] = offers[n]
    PROVE  \A S, c : Own(S, c) => Own(S, c)'
BY DEF Own

\* Closed memories stay closed while no window is opened and nodes keep their ids.
LEMMA ClosedKept ==
    ASSUME known \subseteq Ids, known' = known,
           \A i \in Ids : born'[i] = born[i] /\ (mem'[i].active => mem[i].active)
    PROVE  \A S : Closed(S) => Closed(S)'
BY DEF Closed, Active

\* A persisted link that is the chunk's own keeps the links in order.
LEMMA PersistKeepsLinks ==
    ASSUME LinksOwn, offers' = offers, UNCHANGED <<chunks, inHand, done>>,
           NEW c, NEW S, Own(S, c), PersistChunk(c, S)
    PROVE  LinksOwn'
<1>1. \A d \in DOMAIN raw' :
        \/ raw'[d] = S /\ d = c
        \/ d \in DOMAIN raw /\ raw'[d] = raw[d]
  <2>1. CASE raw' = [x \in DOMAIN raw \cup {c} |-> IF x = c THEN S ELSE raw[x]]
    BY <2>1
  <2>2. CASE raw' = raw
    BY <2>2
  <2>3. QED
    BY <2>1, <2>2 DEF PersistChunk
<1>2. QED
  BY <1>1 DEF LinksOwn, Own

\* The batches stay in order when they only lose members at the front, if no node
\* takes an id that is left in one.
LEMMA BatchesShrink ==
    ASSUME BatchOwn, BatchesApart, offers' = offers, Ids \subseteq Ids',
           \A w \in Writers : \E o \in {0, 1} : \A k \in DOMAIN task'[w].batch :
               /\ k + o \in DOMAIN task[w].batch
               /\ task'[w].batch[k] = task[w].batch[k + o]
               /\ task'[w].chunk = task[w].chunk
               /\ k \in Nat,
           \A w \in Writers : \A k \in DOMAIN task'[w].batch, i \in Ids' :
               \/ i \in Ids /\ born'[i] = born[i]
               \/ born'[i] # task'[w].batch[k].id
    PROVE  BatchOwn' /\ BatchesApart'
<1>1. BatchOwn'
  BY DEF BatchOwn
<1>2. BatchesApart'
  <2> SUFFICES ASSUME NEW w \in Writers, NEW v \in Writers,
                      NEW k \in DOMAIN task'[w].batch, NEW l \in DOMAIN task'[v].batch,
                      task'[w].batch[k].id = task'[v].batch[l].id
               PROVE  w = v /\ k = l
    BY DEF BatchesApart
  <2>1. PICK o \in {0, 1} : \A n \in DOMAIN task'[w].batch :
          /\ n + o \in DOMAIN task[w].batch
          /\ task'[w].batch[n] = task[w].batch[n + o] /\ n \in Nat
    OBVIOUS
  <2>2. PICK p \in {0, 1} : \A n \in DOMAIN task'[v].batch :
          /\ n + p \in DOMAIN task[v].batch
          /\ task'[v].batch[n] = task[v].batch[n + p] /\ n \in Nat
    OBVIOUS
  <2>3. w = v /\ k + o = l + p
    BY <2>1, <2>2 DEF BatchesApart
  <2>4. CASE o = p
    BY <2>1, <2>2, <2>3, <2>4
  <2>5. CASE o # p
    BY <2>1, <2>2, <2>3, <2>5 DEF BatchesApart
  <2>6. QED
    BY <2>4, <2>5
<1>3. QED
  BY <1>1, <1>2

\* A task that is given up, or begun again, has no batch.
LEMMA TaskWithoutBatch ==
    ASSUME RawInv, NEW w \in Writers, NEW t \in Task,
           t.batch = <<>>, t.at \in {"idle", "extract"},
           t.at = "extract" => t.chunk \in Chunk,
           task' = [task EXCEPT ![w] = t],
           UNCHANGED <<mem, offers, born, known>>
    PROVE  RawTypes' /\ BatchReady' /\ BatchOwn' /\ BatchesApart' /\ BornOnce'
<1>1. /\ RawTypes /\ BatchReady /\ BatchOwn /\ BatchesApart /\ Ids' = Ids
      /\ task'[w] = t /\ \A v \in Writers \ {w} : task'[v] = task[v]
  BY DEF RawInv, RawTypes, Ids
<1>2. RawTypes' /\ BatchReady'
  BY <1>1 DEF RawTypes, BatchReady
<1>3. \A v \in Writers : \A k \in DOMAIN task'[v].batch :
         /\ k + 0 \in DOMAIN task[v].batch /\ k \in Nat
         /\ task'[v].batch[k] = task[v].batch[k + 0]
         /\ task'[v].chunk = task[v].chunk
  <2>1. \A v \in Writers : task[v].batch \in Seq(Offer)
    BY <1>1 DEF RawTypes, Task
  <2>2. DOMAIN t.batch = {}
    OBVIOUS
  <2>3. ASSUME NEW v \in Writers, NEW k \in DOMAIN task'[v].batch
        PROVE  /\ k + 0 \in DOMAIN task[v].batch /\ k \in Nat
               /\ task'[v].batch[k] = task[v].batch[k + 0]
               /\ task'[v].chunk = task[v].chunk
    <3>1. v # w
      BY <1>1, <2>2
    <3>2. task'[v] = task[v] /\ k \in 1 .. Len(task[v].batch)
      BY <1>1, <2>1, <3>1
    <3>3. QED
      BY <2>1, <3>2
  <2>4. QED
    BY <2>3
<1>4. BatchOwn' /\ BatchesApart'
  <2>1. \A v \in Writers : \E o \in {0, 1} : \A k \in DOMAIN task'[v].batch :
               /\ k + o \in DOMAIN task[v].batch
               /\ task'[v].batch[k] = task[v].batch[k + o]
               /\ task'[v].chunk = task[v].chunk
               /\ k \in Nat
    BY <1>3
  <2>2. QED
    BY <1>1, <2>1, BatchesShrink
<1>5. BornOnce'
  BY DEF RawInv, BornOnce, Ids
<1>6. QED
  BY <1>2, <1>4, <1>5

\* Neither the links nor the re-extraction are concerned.
LEMMA ReindexSame ==
    ASSUME RawInv, Ids \subseteq Ids', UNCHANGED <<offers, reindexVars>>,
           \A i \in Ids : born'[i] = born[i] /\ (mem'[i].active => mem[i].active)
    PROVE  ReindexProgress'
<1>1. \A S : Closed(S) => Closed(S)'
  BY ClosedKept DEF RawInv, RawTypes, reindexVars
<1>2. QED
  BY <1>1 DEF RawInv, ReindexProgress, reindexVars

-----------------------------------------------------------------------------
(* Ingesting *)

\* A chunk is stored, before it is extracted.
LEMMA StoreInputStep ==
    ASSUME RawInv, NEW w \in Writers, NEW c \in Chunk, StoreInput(w, c)
    PROVE  RawInv'
<1>1. /\ PersistChunk(c, {})
      /\ task' = [task EXCEPT ![w] = [chunk |-> c, at |-> "extract", batch |-> <<>>]]
      /\ UNCHANGED <<storeVars, offers, born, reindexVars>>
  BY DEF StoreInput
<1>2. UNCHANGED <<mem, offers, born, known, chunks, inHand, done>> /\ Ids' = Ids
  BY <1>1 DEF storeVars, reindexVars, Ids
<1>3. [chunk |-> c, at |-> "extract", batch |-> <<>>] \in Task
  BY DEF Task
<1>4. RawTypes' /\ BatchReady' /\ BatchOwn' /\ BatchesApart' /\ BornOnce'
  BY <1>1, <1>2, <1>3, TaskWithoutBatch
<1>5. LinksOwn'
  <2>1. Own({}, c)
    BY DEF Own
  <2>2. QED
    BY <1>1, <1>2, <2>1, PersistKeepsLinks DEF RawInv
<1>6. ReindexProgress'
  BY <1>1, <1>2, ReindexSame
<1>7. WriterInv'
  BY <1>1, StoreSame DEF RawInv
<1>8. QED
  BY <1>4, <1>5, <1>6, <1>7 DEF RawInv

\* An ingest is given up.
LEMMA AbandonIngestStep ==
    ASSUME RawInv, NEW w \in Writers, AbandonIngest(w)
    PROVE  RawInv'
<1>1. /\ task' = [task EXCEPT ![w] = NoTask]
      /\ UNCHANGED <<storeVars, raw, stale, offers, born, reindexVars>>
  BY DEF AbandonIngest
<1>2. UNCHANGED <<mem, offers, born, known, chunks, inHand, done>> /\ Ids' = Ids
  BY <1>1 DEF storeVars, reindexVars, Ids
<1>3. NoTask \in Task /\ NoTask.batch = <<>> /\ NoTask.at = "idle"
  BY DEF Task, NoTask
<1>4. RawTypes' /\ BatchReady' /\ BatchOwn' /\ BatchesApart' /\ BornOnce'
  BY <1>1, <1>2, <1>3, TaskWithoutBatch
<1>5. LinksOwn'
  BY <1>1, <1>2 DEF RawInv, LinksOwn, Own
<1>6. ReindexProgress'
  BY <1>1, <1>2, ReindexSame
<1>7. WriterInv'
  BY <1>1, StoreSame DEF RawInv
<1>8. QED
  BY <1>4, <1>5, <1>6, <1>7 DEF RawInv

\* A task awaits its next call, with the same batch.
LEMMA TaskMovesOn ==
    ASSUME RawInv, NEW w \in Writers, NEW a \in {"upsert", "await"},
           task[w].at \in {"link", "upsert"},
           task' = [task EXCEPT ![w].at = a],
           UNCHANGED <<mem, offers, born, known>>
    PROVE  RawTypes' /\ BatchReady' /\ BatchOwn' /\ BatchesApart' /\ BornOnce'
<1>1. /\ RawTypes /\ BatchReady /\ BatchOwn /\ BatchesApart /\ BornOnce /\ Ids' = Ids
      /\ \A v \in Writers : task[v] \in Task
  BY DEF RawInv, RawTypes, Ids
<1>2. /\ \A v \in Writers : task'[v].batch = task[v].batch /\ task'[v].chunk = task[v].chunk
      /\ task'[w].at = a /\ \A v \in Writers \ {w} : task'[v] = task[v]
      /\ task' \in [Writers -> Task]
  BY <1>1 DEF Task, RawTypes
<1>3. RawTypes' /\ BornOnce'
  BY <1>1, <1>2 DEF RawTypes, BornOnce
<1>4. BatchReady'
  BY <1>1, <1>2 DEF BatchReady
<1>5. BatchOwn' /\ BatchesApart'
  BY <1>1, <1>2 DEF BatchOwn, BatchesApart
<1>6. QED
  BY <1>3, <1>4, <1>5

\* The units of an answer are linked to their chunk.
LEMMA LinkOutputStep ==
    ASSUME RawInv, NEW w \in Writers, LinkOutput(w)
    PROVE  RawInv'
<1> DEFINE S == {u.id : u \in ToSet(task[w].batch)}
<1>1. /\ PersistChunk(task[w].chunk, S)
      /\ task[w].at = "link" /\ task' = [task EXCEPT ![w].at = "upsert"]
      /\ UNCHANGED <<storeVars, offers, born, reindexVars>>
  BY DEF LinkOutput
<1>2. UNCHANGED <<mem, offers, born, known, chunks, inHand, done>> /\ Ids' = Ids
  BY <1>1 DEF storeVars, reindexVars, Ids
<1>3. RawTypes' /\ BatchReady' /\ BatchOwn' /\ BatchesApart' /\ BornOnce'
  BY <1>1, <1>2, TaskMovesOn
<1>4. LinksOwn'
  <2>1. Own(S, task[w].chunk)
    BY DEF RawInv, BatchOwn, Own, ToSet
  <2> HIDE DEF S
  <2>2. QED
    BY <1>1, <1>2, <2>1, PersistKeepsLinks DEF RawInv
<1>5. ReindexProgress'
  BY <1>1, <1>2, ReindexSame
<1>6. WriterInv'
  BY <1>1, StoreSame DEF RawInv
<1>7. QED
  BY <1>3, <1>4, <1>5, <1>6 DEF RawInv

\* The write of a batch's first unit begins.
LEMMA BeginUpsertStep ==
    ASSUME RawInv, NEW w \in Writers, BeginUpsert(w)
    PROVE  RawInv'
<1>0. /\ task[w].at = "upsert" /\ task' = [task EXCEPT ![w].at = "await"]
      /\ BeginWrite(w, Head(task[w].batch).stmt)
      /\ UNCHANGED <<raw, stale, offers, born, reindexVars>>
  BY DEF BeginUpsert
<1>1. Head(task[w].batch).stmt \in Statement
  <2>1. task[w].batch \in Seq(Offer) /\ task[w].batch # <<>>
    BY <1>0 DEF RawInv, RawTypes, Task, BatchReady
  <2>2. Head(task[w].batch) \in Offer
    BY <2>1
  <2>3. QED
    BY <2>2, StoreAssumption DEF Offer
<1>2. WriterInv' /\ UNCHANGED mem
  BY <1>0, <1>1, BeginKeeps DEF RawInv
<1>3. UNCHANGED <<offers, born, known, chunks, inHand, done, raw>> /\ Ids' = Ids
  BY <1>0, <1>2 DEF reindexVars, Ids
<1>4. RawTypes' /\ BatchReady' /\ BatchOwn' /\ BatchesApart' /\ BornOnce'
  BY <1>0, <1>2, <1>3, TaskMovesOn
<1>5. LinksOwn'
  BY <1>3 DEF RawInv, LinksOwn, Own
<1>6. ReindexProgress'
  BY <1>0, <1>2, <1>3, ReindexSame
<1>7. QED
  BY <1>2, <1>4, <1>5, <1>6 DEF RawInv

\* An extraction returns: its units get ids that nobody has.
LEMMA ExtractStep ==
    ASSUME RawInv, NEW w \in Writers, Extract(w)
    PROVE  RawInv'
<1>0. /\ RawTypes /\ BatchReady /\ BatchOwn /\ BatchesApart /\ BornOnce /\ LinksOwn
      /\ \A v \in Writers : task[v] \in Task
      /\ task[w].at = "extract" /\ task[w].chunk \in Chunk
      /\ UNCHANGED <<storeVars, raw, stale, born, reindexVars>>
  BY DEF Extract, RawInv, RawTypes, BatchReady
<1>1. PICK answer \in Answers :
        /\ offers' = offers \o [k \in DOMAIN answer |-> task[w].chunk]
        /\ task' = [task EXCEPT ![w] =
             IF answer = <<>> THEN NoTask
             ELSE [@ EXCEPT !.at = "link", !.batch = FreshIds(answer)]]
  BY DEF Extract
<1>2. UNCHANGED <<mem, known, chunks, inHand, done>> /\ Ids' = Ids
  BY <1>0 DEF storeVars, reindexVars, Ids
<1>3. answer \in Seq(Extracted) /\ Len(answer) \in Nat /\ Len(offers) \in Nat
      /\ offers \in Seq(Chunk)
  BY <1>0, RawAssumption DEF RawTypes
<1>4. /\ offers' \in Seq(Chunk) /\ Len(offers') = Len(offers) + Len(answer)
      /\ \A n \in 1 .. Len(offers) : offers'[n] = offers[n]
      /\ \A k \in 1 .. Len(answer) : offers'[Len(offers) + k] = task[w].chunk
  <2> DEFINE more == [k \in DOMAIN answer |-> task[w].chunk]
  <2>1. more \in Seq(Chunk) /\ Len(more) = Len(answer)
        /\ \A k \in 1 .. Len(answer) : more[k] = task[w].chunk
    BY <1>0, <1>3
  <2> HIDE DEF more
  <2>2. offers' = offers \o more
    BY <1>1 DEF more
  <2>3. /\ offers' \in Seq(Chunk) /\ Len(offers') = Len(offers) + Len(answer)
        /\ \A i \in 1 .. Len(offers) + Len(answer) :
              offers'[i] = IF i <= Len(offers) THEN offers[i] ELSE more[i - Len(offers)]
    <3>1. /\ offers \o more \in Seq(Chunk) /\ Len(offers \o more) = Len(offers) + Len(more)
          /\ \A i \in 1 .. Len(offers) + Len(more) : (offers \o more)[i] =
                IF i <= Len(offers) THEN offers[i] ELSE more[i - Len(offers)]
      BY <1>3, <2>1, ConcatProperties, Zenon
    <3>2. QED
      BY <2>1, <2>2, <3>1, Zenon
  <2>4. ASSUME NEW k \in 1 .. Len(answer)
        PROVE  offers'[Len(offers) + k] = task[w].chunk
    <3>1. /\ Len(offers) + k \in 1 .. Len(offers) + Len(answer)
          /\ ~(Len(offers) + k <= Len(offers)) /\ (Len(offers) + k) - Len(offers) = k
      BY <1>3
    <3>2. QED
      BY <2>1, <2>3, <3>1
  <2>5. QED
    BY <1>3, <2>3, <2>4
<1>5. /\ DOMAIN offers = 1 .. Len(offers) /\ DOMAIN offers' = 1 .. Len(offers')
      /\ \A n \in DOMAIN offers : n \in DOMAIN offers' /\ offers'[n] = offers[n]
  BY <1>3, <1>4
<1>6. WriterInv'
  BY <1>0, StoreSame DEF RawInv
<1>7. LinksOwn'
  BY <1>0, <1>2, <1>5, OwnKept DEF LinksOwn
<1>8. ReindexProgress'
  <2>1. UNCHANGED reindexVars /\ known \subseteq Ids
    BY <1>0 DEF RawTypes
  <2>2. \A S : Closed(S) => Closed(S)'
    BY <1>0, <1>2, <2>1, ClosedKept
  <2>3. QED
    BY <2>1, <2>2 DEF RawInv, ReindexProgress, reindexVars
<1>9. BornOnce'
  BY <1>0, <1>2, <1>5 DEF BornOnce
<1>10. /\ task' \in [Writers -> Task] /\ BatchReady'
       /\ \A v \in Writers \ {w} : task'[v] = task[v]
       /\ \A k \in DOMAIN task'[w].batch :
             /\ k \in 1 .. Len(answer) /\ task'[w].batch[k].id = Len(offers) + k
             /\ task'[w].chunk = task[w].chunk
  <2>1. FreshIds(answer) \in Seq(Offer) /\ DOMAIN FreshIds(answer) = 1 .. Len(answer)
        /\ \A k \in 1 .. Len(answer) : FreshIds(answer)[k].id = Len(offers) + k
    <3>1. \A k \in 1 .. Len(answer) : answer[k] \in Extracted
      BY <1>3
    <3>2. \A k \in 1 .. Len(answer) : [id |-> Len(offers) + k, stmt |-> answer[k]] \in Offer
      BY <1>3, <3>1 DEF Offer
    <3>3. DOMAIN answer = 1 .. Len(answer)
      BY <1>3
    <3>4. FreshIds(answer) = [k \in 1 .. Len(answer) |-> [id |-> Len(offers) + k, stmt |-> answer[k]]]
      BY <3>3 DEF FreshIds
    <3>5. QED
      BY <1>3, <3>2, <3>4
  <2>2. CASE answer = <<>>
    <3>1. task' = [task EXCEPT ![w] = NoTask]
      BY <1>1, <2>2
    <3>2. NoTask \in Task /\ DOMAIN NoTask.batch = {} /\ NoTask.at = "idle"
      BY DEF NoTask, Task
    <3>3. QED
      BY <1>0, <3>1, <3>2 DEF RawTypes, BatchReady
  <2>3. CASE answer # <<>>
    <3> DEFINE t == [task[w] EXCEPT !.at = "link", !.batch = FreshIds(answer)]
    <3>1. task' = [task EXCEPT ![w] = t]
      BY <1>1, <2>3
    <3>2. t \in Task /\ t.batch = FreshIds(answer) /\ t.chunk = task[w].chunk /\ t.at = "link"
      BY <1>0, <2>1 DEF Task
    <3>3. FreshIds(answer) # <<>>
      BY <1>3, <2>1, <2>3
    <3> HIDE DEF t
    <3>4. QED
      BY <1>0, <2>1, <3>1, <3>2, <3>3 DEF RawTypes, BatchReady
  <2>4. QED
    BY <2>2, <2>3
<1>11. RawTypes'
  BY <1>0, <1>2, <1>4, <1>10 DEF RawTypes
<1>12. BatchOwn'
  <2>1. \A i \in Ids : born[i] \in 1 .. Len(offers)
    BY <1>0, <1>5 DEF BornOnce
  <2>2. \A k \in DOMAIN task'[w].batch :
          /\ task'[w].batch[k].id \in DOMAIN offers'
          /\ offers'[task'[w].batch[k].id] = task'[w].chunk
          /\ \A i \in Ids : born[i] # task'[w].batch[k].id
    BY <1>3, <1>4, <1>5, <1>10, <2>1
  <2>3. QED
    BY <1>0, <1>2, <1>5, <1>10, <2>2 DEF BatchOwn
<1>13. BatchesApart'
  <2>1. \A v \in Writers \ {w} : \A k \in DOMAIN task'[v].batch :
           task'[v].batch[k].id \in 1 .. Len(offers)
    BY <1>0, <1>5, <1>10 DEF BatchOwn
  <2>2. QED
    BY <1>0, <1>3, <1>10, <2>1 DEF BatchesApart
<1>14. QED
  BY <1>6, <1>7, <1>8, <1>9, <1>10, <1>11, <1>12, <1>13 DEF RawInv

\* A sequence of more than one member has a rest, and one that is not empty has one
\* member or more.
LEMMA RestOfSeq ==
    ASSUME NEW S, NEW b \in Seq(S)
    PROVE  /\ Len(b) > 1 => Tail(b) \in Seq(S) /\ Tail(b) # <<>>
           /\ b # <<>> => Len(b) = 1 \/ Len(b) > 1
           /\ Len(b) > 1 => Len(b) # 1
<1>1. ASSUME Len(b) > 1
      PROVE  Tail(b) \in Seq(S) /\ Tail(b) # <<>>
  <2> DEFINE c == Tail(b)
  <2>1. b # <<>>
    BY <1>1
  <2>2. c \in Seq(S) /\ Len(c) = Len(b) - 1
    BY <2>1, HeadTailProperties
  <2> HIDE DEF c
  <2>3. Len(c) # 0
    BY <1>1, <2>2
  <2>4. c # <<>>
    BY <2>3
  <2>5. QED
    BY <2>2, <2>4 DEF c
<1>2. ASSUME b # <<>>
      PROVE  Len(b) = 1 \/ Len(b) > 1
  <2>1. Len(b) \in Nat /\ Len(b) # 0
    BY <1>2
  <2>2. \A n \in Nat : n # 0 => n = 1 \/ n > 1
    OBVIOUS
  <2>3. QED
    BY <2>1, <2>2
<1>3. Len(b) > 1 => Len(b) # 1
  <2>1. \A n \in Nat : n > 1 => n # 1
    OBVIOUS
  <2>2. QED
    BY <2>1
<1>4. QED
  BY <1>1, <1>2, <1>3

\* What a write's step leaves of the batches: those of the others, and the task's own
\* without its first unit once that is written.  A node that is inserted has the id
\* of that unit, and the unit is written.
LEMMA UpsertBatches ==
    ASSUME RawInv, NEW w \in Writers, Upsert(w)
    PROVE  /\ task' \in [Writers -> Task]
           /\ \A v \in Writers \ {w} : task'[v] = task[v]
           /\ \/ task'[w] = task[w] /\ pc'[w] # "done"
              \/ task'[w] = NoTask
              \/ /\ task'[w].batch = Tail(task[w].batch) /\ task'[w].batch # <<>>
                 /\ task'[w].chunk = task[w].chunk
<1>0. /\ task[w] \in Task /\ task \in [Writers -> Task] /\ task[w].at = "await"
      /\ task[w].batch # <<>> /\ Proceeded(w) /\ WriteStep(w)
  BY DEF RawInv, RawTypes, BatchReady, Upsert
<1>1. /\ task[w].batch \in Seq(Offer)
      /\ Len(task[w].batch) = 1 \/ Len(task[w].batch) > 1
      /\ Len(task[w].batch) > 1 => Len(task[w].batch) # 1
  BY <1>0, RestOfSeq DEF Task
<1> DEFINE later == [task[w] EXCEPT !.at = "upsert", !.batch = Tail(task[w].batch)]
<1>2. CASE pc'[w] = "done" /\ Len(task[w].batch) > 1
  <2>1. task' = [task EXCEPT ![w] = later]
    BY <1>0, <1>1, <1>2, Zenon DEF Proceeded
  <2>2. Tail(task[w].batch) \in Seq(Offer) /\ Tail(task[w].batch) # <<>>
    BY <1>1, <1>2, RestOfSeq
  <2>3. later \in Task /\ later.batch = Tail(task[w].batch) /\ later.chunk = task[w].chunk
    BY <1>0, <2>2 DEF Task
  <2> HIDE DEF later
  <2>4. QED
    BY <1>0, <2>1, <2>2, <2>3
<1>3. CASE pc'[w] = "idle" \/ (pc'[w] = "done" /\ Len(task[w].batch) = 1)
  <2>1. task' = [task EXCEPT ![w] = NoTask]
    BY <1>0, <1>1, <1>3, Zenon DEF Proceeded
  <2>2. NoTask \in Task
    BY DEF NoTask, Task
  <2>3. QED
    BY <1>0, <2>1, <2>2
<1>4. CASE pc'[w] \notin {"idle", "done"}
  <2>1. task' = task
    BY <1>0, <1>4 DEF Proceeded
  <2>2. QED
    BY <1>0, <1>4, <2>1
<1>5. QED
  BY <1>1, <1>2, <1>3, <1>4

\* What a write's step does to the nodes: none, or one more, for the batch's first
\* unit.
LEMMA UpsertNodes ==
    ASSUME RawInv, NEW w \in Writers, Upsert(w)
    PROVE  /\ WriterInv' /\ Ids \subseteq Ids'
           /\ born' \in Seq(Nat) /\ Len(born') = Len(mem')
           /\ \A i \in Ids : born'[i] = born[i] /\ (mem'[i].active => mem[i].active)
           /\ \/ Ids' = Ids
              \/ /\ pc'[w] = "done"
                 /\ \A i \in Ids' \ Ids : /\ i = Len(mem) + 1
                                          /\ born'[i] = Head(task[w].batch).id
<1>0. /\ WriterInv /\ TypeOK /\ mem \in Seq(Unit) /\ WriteStep(w) /\ Born(w)
      /\ born \in Seq(Nat) /\ Len(born) = Len(mem) /\ Len(mem) \in Nat
  BY DEF RawInv, RawTypes, WriterInv, TypeOK, Upsert
<1>1. /\ WriterInv' /\ Kept /\ mem' \in Seq(Unit)
      /\ \A j \in Ids : mem'[j].active => mem[j].active
  BY <1>0, WriteKeeps DEF WriterInv, TypeOK
<1>2. Ids = 1 .. Len(mem) /\ Ids' = 1 .. Len(mem') /\ Len(mem') \in Nat
  BY <1>0, <1>1 DEF Ids
<1>3. CASE Insert(w)
  <2>1. stmt[w] \in Statement /\ InsertUnit(stmt[w]) /\ pc'[w] = "done"
    BY <1>0, <1>3 DEF TypeOK, Insert
  <2>2. DOMAIN mem' = Ids \cup {Len(mem) + 1} /\ Len(mem') = Len(mem) + 1
    BY <1>0, <2>1, InsertEffect, AppendProperties DEF InsertUnit
  <2>3. born' = Append(born, Head(task[w].batch).id)
    BY <1>0, <2>2 DEF Born
  <2>4. Head(task[w].batch).id \in Nat
    <3>1. task[w].batch \in Seq(Offer) /\ task[w].batch # <<>>
      BY DEF RawInv, RawTypes, Task, BatchReady, Upsert
    <3>2. Head(task[w].batch) \in Offer
      BY <3>1
    <3>3. QED
      BY <3>2 DEF Offer
  <2>5. /\ born' \in Seq(Nat) /\ Len(born') = Len(born) + 1
        /\ \A i \in 1 .. Len(born) : born'[i] = born[i]
        /\ born'[Len(born) + 1] = Head(task[w].batch).id
    BY <1>0, <2>3, <2>4, AppendProperties
  <2>6. Ids' = Ids \cup {Len(mem) + 1}
    BY <2>2 DEF Ids
  <2>7. QED
    BY <1>0, <1>1, <1>2, <2>1, <2>2, <2>5, <2>6
<1>4. CASE ReadCandidates(w) \/ JudgeContradictions(w) \/ Reinforce(w) \/ FailWrite(w)
           \/ CloseSuperseded(w)
  <2>1. Ids' = Ids
    <3>1. CASE CloseSuperseded(w)
      <4>1. PICK k \in todo[w] : CloseWindow(k)
        BY <3>1 DEF CloseSuperseded
      <4>2. k \in Ids
        BY <1>0 DEF TypeOK
      <4>3. QED
        BY <1>0, <4>1, <4>2, CloseWindowEffect DEF Ids
    <3>2. CASE ~CloseSuperseded(w)
      BY <1>0, <1>4, <3>2, QuietStep
    <3>3. QED
      BY <3>1, <3>2
  <2>2. Len(mem') = Len(mem)
    BY <1>2, <2>1
  <2>3. born' = born
    BY <1>0, <2>2 DEF Born
  <2>4. QED
    BY <1>0, <1>1, <2>1, <2>2, <2>3
<1>5. QED
  BY <1>0, <1>3, <1>4 DEF WriteStep

\* One query of a write.
LEMMA UpsertStep ==
    ASSUME RawInv, NEW w \in Writers, Upsert(w)
    PROVE  RawInv'
<1>0. /\ RawTypes /\ BatchReady /\ BatchOwn /\ BatchesApart /\ BornOnce /\ LinksOwn
      /\ task[w].at = "await" /\ task[w].batch # <<>>
      /\ \A v \in Writers : task[v].batch \in Seq(Offer)
      /\ mem \in Seq(Unit)
      /\ UNCHANGED <<raw, stale, offers, reindexVars>>
  BY DEF RawInv, WriterInv, TypeOK, RawTypes, BatchReady, Task, Upsert
<1>1. /\ task' \in [Writers -> Task]
      /\ \A v \in Writers \ {w} : task'[v] = task[v]
      /\ \/ task'[w] = task[w] /\ pc'[w] # "done"
         \/ task'[w] = NoTask
         \/ /\ task'[w].batch = Tail(task[w].batch) /\ task'[w].batch # <<>>
            /\ task'[w].chunk = task[w].chunk
  BY UpsertBatches
<1> DEFINE id == task[w].batch[1].id
<1>2. /\ WriterInv' /\ Ids \subseteq Ids'
      /\ born' \in Seq(Nat) /\ Len(born') = Len(mem')
      /\ \A i \in Ids : born'[i] = born[i] /\ (mem'[i].active => mem[i].active)
      /\ \/ Ids' = Ids
         \/ /\ pc'[w] = "done"
            /\ \A i \in Ids' \ Ids : i = Len(mem) + 1 /\ born'[i] = id
  BY <1>0, UpsertNodes
<1>3. 1 \in DOMAIN task[w].batch
  BY <1>0
<1>4. RawTypes'
  BY <1>0, <1>1, <1>2 DEF RawTypes, reindexVars
<1>5. BatchReady'
  BY <1>0, <1>1 DEF BatchReady, NoTask
<1>6. \A v \in Writers : \A k \in DOMAIN task[v].batch : k \in Nat /\ k + 0 = k
  BY <1>0
<1>7. task'[w].batch = Tail(task[w].batch) =>
         \A k \in DOMAIN task'[w].batch :
            /\ k \in Nat /\ k + 1 \in DOMAIN task[w].batch /\ k + 1 # 1
            /\ task'[w].batch[k] = task[w].batch[k + 1]
  <2> DEFINE c == Tail(task[w].batch)
  <2>1. /\ c \in Seq(Offer) /\ Len(c) = Len(task[w].batch) - 1
        /\ \A k \in 1 .. Len(c) : c[k] = task[w].batch[k + 1]
    BY <1>0, HeadTailProperties
  <2> HIDE DEF c
  <2>2. \A k \in DOMAIN c : k \in 1 .. Len(c) /\ k \in Nat /\ k + 1 \in 1 .. Len(task[w].batch) /\ k + 1 # 1
    BY <1>0, <2>1
  <2>3. QED
    BY <1>0, <2>1, <2>2 DEF c
<1>8. DOMAIN NoTask.batch = {}
  BY DEF NoTask
<1>9. \A v \in Writers : \E o \in {0, 1} : \A k \in DOMAIN task'[v].batch :
               /\ k + o \in DOMAIN task[v].batch
               /\ task'[v].batch[k] = task[v].batch[k + o]
               /\ task'[v].chunk = task[v].chunk
               /\ k \in Nat
  <2>1. ASSUME NEW v \in Writers, task'[v] = task[v]
        PROVE  \A k \in DOMAIN task'[v].batch :
               /\ k + 0 \in DOMAIN task[v].batch
               /\ task'[v].batch[k] = task[v].batch[k + 0]
               /\ task'[v].chunk = task[v].chunk
               /\ k \in Nat
    BY <1>6, <2>1
  <2>2. CASE task'[w] = NoTask
    BY <1>1, <1>8, <2>1, <2>2
  <2>3. CASE /\ task'[w].batch = Tail(task[w].batch)
             /\ task'[w].chunk = task[w].chunk
    BY <1>1, <1>7, <2>1, <2>3
  <2>4. CASE task'[w] = task[w]
    BY <1>1, <2>1, <2>4
  <2>5. QED
    BY <1>1, <2>2, <2>3, <2>4
<1>10. \A v \in Writers : \A k \in DOMAIN task'[v].batch, i \in Ids' :
          \/ i \in Ids /\ born'[i] = born[i]
          \/ born'[i] # task'[v].batch[k].id
  <2> SUFFICES ASSUME NEW v \in Writers, NEW k \in DOMAIN task'[v].batch,
                      NEW i \in Ids' \ Ids
               PROVE  born'[i] # task'[v].batch[k].id
    BY <1>2
  <2>1. born'[i] = id /\ pc'[w] = "done"
    BY <1>2
  <2>2. CASE v # w
    BY <1>0, <1>1, <1>3, <2>1, <2>2 DEF BatchesApart
  <2>3. CASE v = w
    BY <1>0, <1>1, <1>3, <1>7, <1>8, <2>1, <2>3 DEF BatchesApart
  <2>4. QED
    BY <2>2, <2>3
<1>11. BatchOwn' /\ BatchesApart'
  BY <1>0, <1>2, <1>9, <1>10, BatchesShrink
<1>12. BornOnce'
  <2>1. id \in DOMAIN offers /\ \A i \in Ids : born[i] # id
    BY <1>0, <1>3 DEF BatchOwn
  <2>2. \A i \in Ids' : (i \in Ids /\ born'[i] = born[i]) \/ (i = Len(mem) + 1 /\ born'[i] = id)
    BY <1>2
  <2> HIDE DEF id
  <2>3. QED
    BY <1>0, <2>1, <2>2 DEF BornOnce
<1>13. LinksOwn'
  BY <1>0 DEF LinksOwn, Own, reindexVars
<1>14. ReindexProgress'
  BY <1>0, <1>2, ReindexSame
<1>15. QED
  BY <1>2, <1>4, <1>5, <1>11, <1>12, <1>13, <1>14 DEF RawInv

-----------------------------------------------------------------------------
(* Re-extracting *)

\* The steps of the re-extraction have no part in the batches.
LEMMA BatchesSame ==
    ASSUME RawInv, UNCHANGED ingestVars, Ids' = Ids, Len(mem') = Len(mem),
           known' \subseteq Ids
    PROVE  RawTypes' /\ BatchReady' /\ BatchOwn' /\ BatchesApart' /\ BornOnce'
<1>1. offers' = offers /\ born' = born /\ task' = task
  BY DEF ingestVars
<1>2. RawTypes'
  BY <1>1 DEF RawInv, RawTypes
<1>3. BatchReady' /\ BatchesApart'
  BY <1>1 DEF RawInv, BatchReady, BatchesApart
<1>4. BatchOwn' /\ BornOnce'
  BY <1>1 DEF RawInv, BatchOwn, BornOnce
<1>5. QED
  BY <1>2, <1>3, <1>4

\* The list of chunks is taken, with their links as they are.
LEMMA ListChunksStep ==
    ASSUME RawInv, ListChunks
    PROVE  RawInv'
<1>1. /\ phase = "idle" /\ phase' = "chunks" /\ known' = Active /\ done' = {}
      /\ chunks' = {[chunk |-> c, ids |-> raw[c], stale |-> c \in stale] : c \in DOMAIN raw}
      /\ UNCHANGED <<storeVars, raw, stale, ingestVars, inHand, closing>>
  BY DEF ListChunks
<1>2. UNCHANGED <<mem, offers, born>> /\ Ids' = Ids
  BY <1>1 DEF storeVars, ingestVars, Ids
<1>3. RawTypes' /\ BatchReady' /\ BatchOwn' /\ BatchesApart' /\ BornOnce'
  <2>1. Active \subseteq Ids
    BY DEF Active
  <2>2. QED
    BY <1>1, <1>2, <2>1, BatchesSame
<1>4. inHand = {}
  BY <1>1 DEF RawInv, ReindexProgress
<1>5. LinksOwn'
  BY <1>1, <1>2, <1>4 DEF RawInv, LinksOwn, Own
<1>6. ReindexProgress'
  BY <1>1, <1>4 DEF ReindexProgress
<1>7. WriterInv'
  BY <1>1, StoreSame DEF RawInv
<1>8. QED
  BY <1>3, <1>5, <1>6, <1>7 DEF RawInv

\* A step of the re-extraction that touches neither the store nor the known memories.
LEMMA ControlStep ==
    ASSUME RawInv, TakeChunk \/ FinishChunk \/ ReindexDone \/ FailReindex
    PROVE  RawInv'
<1>1. UNCHANGED <<storeVars, ingestVars>> /\ known' \in {known, {}}
  BY DEF TakeChunk, FinishChunk, ReindexDone, FailReindex
<1>2. UNCHANGED <<mem, offers, born>> /\ Ids' = Ids /\ Active' = Active
  BY <1>1 DEF storeVars, ingestVars, Ids, Active
<1>3. RawTypes' /\ BatchReady' /\ BatchOwn' /\ BatchesApart' /\ BornOnce'
  <2>1. known' \subseteq Ids
    BY <1>1 DEF RawInv, RawTypes
  <2>2. QED
    BY <1>1, <1>2, <2>1, BatchesSame
<1>4. WriterInv' /\ LinksOwn /\ ReindexProgress
  BY <1>1, StoreSame DEF RawInv
<1>5. \A S : Closed(S) => Closed(S)'
  BY <1>1, <1>2 DEF Closed
<1>6. CASE TakeChunk
  <2>1. PICK r \in chunks : inHand' = {r} /\ closing' = r.ids /\ chunks' = chunks \ {r}
    BY <1>6 DEF TakeChunk
  <2>2. UNCHANGED <<raw, done, known>> /\ phase' = "close"
    BY <1>6 DEF TakeChunk
  <2>3. LinksOwn'
    BY <1>2, <1>4, <2>1, <2>2 DEF LinksOwn, Own
  <2>4. Closed(r.ids \ r.ids)'
    BY DEF Closed
  <2>5. ReindexProgress'
    BY <1>4, <1>5, <2>1, <2>2, <2>4 DEF ReindexProgress
  <2>6. QED
    BY <1>3, <1>4, <2>3, <2>5 DEF RawInv
<1>7. CASE FinishChunk
  <2>1. PICK r \in inHand :
          /\ done' = done \cup {r}
          /\ raw' = [raw EXCEPT ![r.chunk] = r.ids] \/ raw' = raw
    BY <1>7 DEF FinishChunk
  <2>2. UNCHANGED <<chunks, closing, known>> /\ inHand' = {} /\ phase' = "chunks" /\ closing = {}
    BY <1>7 DEF FinishChunk
  <2>3. Own(r.ids, r.chunk)
    BY <1>4 DEF LinksOwn
  <2>4. \A c \in DOMAIN raw' : c \in DOMAIN raw /\ (raw'[c] = raw[c] \/ (c = r.chunk /\ raw'[c] = r.ids))
    BY <2>1
  <2>5. LinksOwn'
    BY <1>2, <1>4, <2>1, <2>2, <2>3, <2>4 DEF LinksOwn, Own
  <2>6. Closed(r.ids)
    BY <1>4, <2>2 DEF ReindexProgress, Closed
  <2>7. ReindexProgress'
    BY <1>4, <1>5, <2>1, <2>2, <2>6 DEF ReindexProgress
  <2>8. QED
    BY <1>3, <1>4, <2>5, <2>7 DEF RawInv
<1>8. CASE ReindexDone \/ FailReindex
  <2>1. /\ UNCHANGED <<raw, offers>> /\ done' = {} /\ phase' = "idle"
        /\ chunks' \subseteq chunks
        /\ inHand' = {}
    BY <1>2, <1>4, <1>8 DEF ReindexDone, FailReindex, ReindexProgress
  <2>2. LinksOwn' /\ ReindexProgress'
    BY <1>4, <2>1 DEF LinksOwn, ReindexProgress, Own
  <2>3. QED
    BY <1>3, <1>4, <2>2 DEF RawInv
<1>9. QED
  BY <1>6, <1>7, <1>8

\* A linked id has been seen to: no known memory with this id is open any more.
LEMMA CloseLinkedStep ==
    ASSUME RawInv, CloseLinked
    PROVE  RawInv'
<1>0. /\ RawTypes /\ BornOnce /\ LinksOwn /\ ReindexProgress /\ mem \in Seq(Unit) /\ phase = "close"
      /\ UNCHANGED <<writerVars, orphaned, raw, stale, ingestVars, phase, chunks, inHand, done, known>>
  BY DEF RawInv, WriterInv, TypeOK, CloseLinked
<1>1. PICK n \in closing :
        /\ \/ \E i \in Ids : born[i] = n /\ CloseWindow(i)
           \/ (\A i \in Ids : born[i] # n) /\ UNCHANGED mem
        /\ closing' = closing \ {n}
  BY DEF CloseLinked
<1>2. /\ mem' \in Seq(Unit) /\ Ids' = Ids /\ Kept
      /\ \A j \in Ids : mem'[j].active => mem[j].active /\ born[j] # n
  <2>1. CASE (\A i \in Ids : born[i] # n) /\ UNCHANGED mem
    BY <1>0, <2>1 DEF Ids, Kept
  <2>2. ASSUME NEW i \in Ids, born[i] = n, CloseWindow(i)
        PROVE  /\ mem' \in Seq(Unit) /\ Ids' = Ids /\ Kept
               /\ \A j \in Ids : mem'[j].active => mem[j].active /\ born[j] # n
    <3>1. /\ mem' \in Seq(Unit) /\ Ids' = Ids /\ Kept
          /\ \A j \in Ids : mem'[j].active = (mem[j].active /\ j # i)
      BY <1>0, <2>2, CloseWindowEffect DEF Ids
    <3>2. QED
      BY <1>0, <2>2, <3>1 DEF BornOnce
  <2>3. QED
    BY <1>1, <2>1, <2>2
<1>3. WriterInv'
  BY <1>0, <1>2, OthersKeep DEF RawInv
<1>4. Len(mem') = Len(mem)
  <2>1. Ids = 1 .. Len(mem) /\ Ids' = 1 .. Len(mem') /\ Len(mem) \in Nat /\ Len(mem') \in Nat
    BY <1>0, <1>2 DEF Ids
  <2>2. QED
    BY <1>2, <2>1
<1>5. offers' = offers /\ born' = born
  BY <1>0 DEF ingestVars
<1>6. RawTypes' /\ BatchReady' /\ BatchOwn' /\ BatchesApart' /\ BornOnce'
  BY <1>0, <1>2, <1>4, BatchesSame DEF RawTypes
<1>7. LinksOwn'
  BY <1>0, <1>5 DEF LinksOwn, Own
<1>8. \A S : Closed(S) => Closed(S)'
  BY <1>0, <1>2, <1>5, ClosedKept DEF RawTypes
<1>9. ASSUME NEW r \in inHand
      PROVE  closing' \subseteq r.ids /\ Closed(r.ids \ closing)'
  <2>1. closing \subseteq r.ids /\ Closed(r.ids \ closing)
    BY <1>0 DEF ReindexProgress
  <2>2. \A i \in known : i \in Active' => i \in Active /\ born[i] # n
    BY <1>0, <1>2 DEF RawTypes, Active
  <2>3. QED
    BY <1>0, <1>1, <1>5, <2>1, <2>2 DEF Closed
<1>10. ReindexProgress'
  BY <1>0, <1>8, <1>9 DEF ReindexProgress
<1>11. QED
  BY <1>3, <1>6, <1>7, <1>10 DEF RawInv

-----------------------------------------------------------------------------
(* The theorems *)

\* No chunk is ingested yet, and the legacy ones have no links.
LEMMA RawStart == RawInit => RawInv
<1> SUFFICES ASSUME RawInit PROVE RawInv
  OBVIOUS
<1>1. WriterInv
  BY InitType DEF RawInit, Init, WriterInv, ReinforceReady, WriteOnSubject
<1>2. Ids = {} /\ offers = <<>> /\ born = <<>> /\ mem = <<>>
  BY DEF RawInit, Init, Ids
<1>3. NoTask \in Task /\ DOMAIN NoTask.batch = {} /\ NoTask.at = "idle"
  BY DEF NoTask, Task
<1>4. RawTypes /\ BatchReady
  BY <1>2, <1>3 DEF RawInit, RawTypes, BatchReady
<1>5. BatchOwn /\ BatchesApart /\ BornOnce
  BY <1>2, <1>3 DEF RawInit, BatchOwn, BatchesApart, BornOnce
<1>6. LinksOwn /\ ReindexProgress
  BY DEF RawInit, LinksOwn, Own, ReindexProgress
<1>7. QED
  BY <1>1, <1>4, <1>5, <1>6 DEF RawInv

\* Ingesting and re-extracting keep the invariant.
LEMMA RawInvariant == RawSpec => []RawInv
<1>1. RawInit => RawInv
  BY RawStart
<1>2. RawInv /\ [RawNext]_rawVars => RawInv'
  <2> SUFFICES ASSUME RawInv, [RawNext]_rawVars PROVE RawInv'
    OBVIOUS
  <2>1. ASSUME NEW w \in Writers, Ingest(w) PROVE RawInv'
    BY <2>1, StoreInputStep, ExtractStep, LinkOutputStep, BeginUpsertStep, UpsertStep,
       AbandonIngestStep DEF Ingest
  <2>2. CASE Reindex
    BY <2>2, ListChunksStep, ControlStep, CloseLinkedStep DEF Reindex
  <2>3. CASE UNCHANGED rawVars
    <3>1. UNCHANGED <<storeVars, ingestVars, reindexVars, raw>>
      BY <2>3 DEF rawVars
    <3>2. UNCHANGED <<mem, offers, born, known>> /\ Ids' = Ids
      BY <3>1 DEF storeVars, ingestVars, reindexVars, Ids
    <3>3. WriterInv'
      BY <3>1, StoreSame DEF RawInv
    <3>4. RawTypes' /\ BatchReady' /\ BatchOwn' /\ BatchesApart' /\ BornOnce'
      BY <3>1, <3>2, BatchesSame DEF RawInv, RawTypes
    <3>5. LinksOwn'
      BY <3>1, <3>2 DEF RawInv, LinksOwn, Own, reindexVars
    <3>6. ReindexProgress'
      BY <3>1, <3>2, ReindexSame
    <3>7. QED
      BY <3>3, <3>4, <3>5, <3>6 DEF RawInv
  <2>4. QED
    BY <2>1, <2>2, <2>3 DEF RawNext
<1>3. QED
  BY <1>1, <1>2, PTL DEF RawSpec

\* Once a chunk has been re-extracted, none of the memories that were linked to it
\* when the job listed it is open: whatever ids of the link were never stored, and
\* however many ingests, of the same chunk too, interleave and fail.
THEOREM ReindexCloses == RawSpec => []ReindexClosesLinked
<1>1. RawInv => ReindexClosesLinked
  BY DEF RawInv, ReindexProgress, Closed, ReindexClosesLinked
<1>2. QED
  BY <1>1, RawInvariant, PTL

\* "A re-extraction of a chunk can supersede exactly those": it closes no memory that
\* was inserted for another chunk, although a unit of this chunk may have reinforced
\* it, for any number of ingests beside it.
THEOREM ReindexSpares == RawSpec => ReindexSparesOthers
<1>1. RawInv /\ [RawNext]_rawVars
        => [\A r \in inHand, i \in Active :
              closing' # closing /\ ~mem'[i].active => offers[born[i]] = r.chunk]_rawVars
  <2> SUFFICES ASSUME RawInv, [RawNext]_rawVars, NEW r \in inHand, NEW i \in Active,
                      closing' # closing, ~mem'[i].active
               PROVE  offers[born[i]] = r.chunk
    OBVIOUS
  <2>1. CloseLinked
    BY DEF RawNext, Ingest, StoreInput, Extract, LinkOutput, BeginUpsert, Upsert,
       AbandonIngest, Reindex, ListChunks, TakeChunk, FinishChunk, ReindexDone,
       FailReindex, rawVars, reindexVars, storeVars, Active
  <2>2. PICK n \in closing : \/ \E k \in Ids : born[k] = n /\ CloseWindow(k)
                             \/ UNCHANGED mem
    BY <2>1 DEF CloseLinked
  <2>3. mem \in Seq(Unit) /\ i \in Ids /\ mem[i].active
    BY DEF RawInv, WriterInv, TypeOK, Active
  <2>4. PICK k \in Ids : born[k] = n /\ CloseWindow(k)
    BY <2>2, <2>3
  <2>5. i = k
    BY <2>3, <2>4, CloseWindowEffect
  <2>6. n \in r.ids /\ Own(r.ids, r.chunk)
    BY DEF RawInv, ReindexProgress, LinksOwn
  <2>7. QED
    BY <2>4, <2>5, <2>6 DEF Own
<1>2. QED
  BY <1>1, RawInvariant, PTL DEF RawSpec, ReindexSparesOthers

-----------------------------------------------------------------------------
(* Orchestrator: the invariant *)

Link == Nat \cup {NoLink}
LinkState == {"opening", "open", "broken", "closed"}
Preparing == {"select", "check", "opening", "launch"}
Phase == {"select", "check", "opening", "launch", "waiting", "stopping", "off", "start", "serving",
          "parked", "flushing", "ended", "crashed"}

ProcessTypes ==
    /\ actor \in [Actor -> [pc : Phase, link : Link]]
    /\ memo \in Link /\ connections \in Seq(LinkState)
    /\ warm \in BOOLEAN /\ stop \in BOOLEAN
    /\ settings \in Configuration

\* Until the components are launched, main is alone.
Quiescent ==
    actor["main"].pc \in Preparing =>
        /\ ~warm /\ \A a \in Actor \ {"main"} : At(a, "off") /\ actor[a].link = NoLink

\* The memo is empty until the check's connection is open.
Prepared ==
    /\ actor["main"].pc \in {"select", "check", "opening"} => memo = NoLink
    /\ At("main", "opening") => actor["main"].link \in DOMAIN connections
    /\ At("main", "launch") /\ memo # NoLink => memo \in DOMAIN connections /\ connections[memo] = "open"

\* Only what is selected ever runs.
SelectedRun == \A c \in Component \ Selected : At(c, "off")

\* A component that has ended was cancelled, has crashed, or never was; in particular
\* the ingest loop does not end by itself.
EndedByShutdown ==
    actor["main"].pc \in Preparing \cup {"waiting"} =>
        \A c \in Component : ~At(c, "ended") /\ ~At(c, "flushing")

\* While they run, all components and requests are on the memo's open connection.
Shared ==
    warm /\ actor["main"].pc \in {"waiting", "stopping"} =>
        /\ memo # NoLink /\ memo \in DOMAIN connections /\ connections[memo] = "open"
        /\ \A a \in Actor \ {"main"} : ~At(a, "opening") /\ actor[a].link \in {NoLink, memo}

\* When the process has ended, so have they, and their connection is closed.
Released ==
    warm /\ At("main", "ended") =>
        \A c \in Component : /\ Over(c) \/ At(c, "off")
                             /\ actor[c].link # NoLink => connections[actor[c].link] # "open"

MainPhases == actor["main"].pc \in Preparing \cup {"waiting", "stopping", "ended"}

ProcessInv ==
    /\ ProcessTypes /\ MainPhases /\ Quiescent /\ Prepared /\ SelectedRun
    /\ EndedByShutdown /\ Shared /\ Released

-----------------------------------------------------------------------------
\* The actors are told apart (Container, _run_all, the console's requests).
LEMMA Actors ==
    /\ "main" \in Actor /\ Component \subseteq Actor /\ Request \subseteq Actor
    /\ "main" \notin Component /\ "main" \notin Request /\ Request \cap Component = {}
    /\ NoLink \notin Nat
  BY OrchestratorAssumption DEF Actor, Component

\* Changing the state of one connection keeps their number.
LEMMA ChangeConnection ==
    ASSUME NEW s \in Seq(LinkState), NEW k, NEW v \in LinkState
    PROVE  /\ [s EXCEPT ![k] = v] \in Seq(LinkState)
           /\ DOMAIN [s EXCEPT ![k] = v] = DOMAIN s
           /\ k \in DOMAIN s => [s EXCEPT ![k] = v][k] = v
  <1>1. s \in [1..Len(s) -> LinkState] /\ DOMAIN s = 1..Len(s)
    BY LenProperties
  <1>2. CASE k \in 1..Len(s)
    <2>1. /\ [s EXCEPT ![k] = v] \in Seq(LinkState)
          /\ Len([s EXCEPT ![k] = v]) = Len(s) /\ [s EXCEPT ![k] = v][k] = v
      BY <1>2, ExceptSeq
    <2>2. QED
      BY <1>1, <2>1, LenProperties
  <1>3. CASE k \notin 1..Len(s)
    <2>1. [s EXCEPT ![k] = v] = s
      BY <1>1, <1>3
    <2>2. QED
      BY <1>1, <1>3, <2>1
  <1>4. QED
    BY <1>2, <1>3

\* One actor moves on, and the others stay where they are.
LEMMA GotoEffect ==
    ASSUME ProcessTypes, NEW a \in Actor, NEW to \in Phase, Goto(a, to)
    PROVE  /\ actor' \in [Actor -> [pc : Phase, link : Link]]
           /\ actor'[a].pc = to /\ actor'[a].link = actor[a].link
           /\ \A b \in Actor \ {a} : actor'[b] = actor[b]
  BY DEF ProcessTypes, Goto

-----------------------------------------------------------------------------
\* Before the process selects its components (_run_all) there is nothing.
LEMMA ProcessStart == ProcessInit => ProcessInv
  <1> SUFFICES ASSUME ProcessInit PROVE ProcessInv
    OBVIOUS
  <1> USE DEF ProcessInit
  <1>1. ProcessTypes
    BY Actors, OrchestratorAssumption, EmptySeq DEF ProcessTypes, Link, Phase
  <1>2. actor["main"].pc = "select" /\ \A a \in Actor \ {"main"} : At(a, "off") /\ actor[a].link = NoLink
    BY Actors DEF At
  <1>3. QED
    BY <1>1, <1>2, Actors
       DEF ProcessInv, MainPhases, Preparing, Quiescent, Prepared, SelectedRun, EndedByShutdown,
           Shared, Released, At

\* The components are selected (_select_components).
LEMMA SelectKeeps == ASSUME ProcessInv, Select PROVE ProcessInv'
  <1> DEFINE next == IF Selected = {} THEN "ended" ELSE IF settings.check THEN "check" ELSE "launch"
  <1>1. next \in {"ended", "check", "launch"} /\ Goto("main", next)
    BY DEF Select
  <1>2. /\ actor' \in [Actor -> [pc : Phase, link : Link]] /\ actor'["main"].pc = next
        /\ \A b \in Actor \ {"main"} : actor'[b] = actor[b]
    BY <1>1, GotoEffect, Actors DEF ProcessInv, Phase
  <1>3. ~warm /\ memo = NoLink /\ \A a \in Actor \ {"main"} : At(a, "off") /\ actor[a].link = NoLink
    BY DEF Select, ProcessInv, Quiescent, Prepared, Preparing, At
  <1>4. QED
    BY <1>1, <1>2, <1>3, Actors
       DEF Select, ProcessInv, ProcessTypes, MainPhases, Preparing, Quiescent, Prepared, SelectedRun,
           Selected, EndedByShutdown, Shared, Released, At

\* The startup check asks for the store (_apply_startup_migrations): it is the first.
LEMMA CheckKeeps == ASSUME ProcessInv, Check PROVE ProcessInv'
  <1>1. ~warm /\ memo = NoLink /\ \A a \in Actor \ {"main"} : At(a, "off") /\ actor[a].link = NoLink
    BY DEF Check, ProcessInv, Quiescent, Prepared, Preparing, At
  <1>2. /\ connections' = Append(connections, "opening")
        /\ actor' = [actor EXCEPT !["main"] = [pc |-> "opening", link |-> Len(connections) + 1]]
        /\ UNCHANGED <<settings, memo, stop, warm, faults>>
    BY <1>1 DEF Check, BuildStorage
  <1>3. connections' \in Seq(LinkState) /\ Len(connections) + 1 \in DOMAIN connections'
        /\ Len(connections) + 1 \in Nat
    BY <1>2, AppendProperties, LenProperties DEF ProcessInv, ProcessTypes, LinkState
  <1>4. /\ actor' \in [Actor -> [pc : Phase, link : Link]]
        /\ actor'["main"].pc = "opening" /\ actor'["main"].link = Len(connections) + 1
        /\ \A b \in Actor \ {"main"} : actor'[b] = actor[b]
    BY <1>2, <1>3, Actors DEF ProcessInv, ProcessTypes, Link, Phase
  <1>5. QED
    BY <1>1, <1>2, <1>3, <1>4, Actors
       DEF ProcessInv, ProcessTypes, MainPhases, Preparing, Quiescent, Prepared, SelectedRun,
           Selected, EndedByShutdown, Shared, Released, At

\* The check has its connection, which is the memo from then on, or has failed.
LEMMA CheckOpenedKeeps == ASSUME ProcessInv, CheckOpened PROVE ProcessInv'
  <1>1. At("main", "opening") /\ Goto("main", "launch") /\ UNCHANGED <<settings, stop, warm>>
    BY DEF CheckOpened, Opened, OpeningFails
  <1>2. /\ ~warm /\ memo = NoLink /\ \A a \in Actor \ {"main"} : At(a, "off") /\ actor[a].link = NoLink
        /\ actor["main"].link \in DOMAIN connections
    BY <1>1 DEF ProcessInv, Quiescent, Prepared, Preparing, At
  <1>3. /\ actor' \in [Actor -> [pc : Phase, link : Link]] /\ actor'["main"].pc = "launch"
        /\ \A b \in Actor \ {"main"} : actor'[b] = actor[b]
    BY <1>1, GotoEffect, Actors DEF ProcessInv, Phase
  <1>4. /\ connections' \in Seq(LinkState) /\ memo' \in Link
        /\ memo' # NoLink => memo' \in DOMAIN connections' /\ connections'[memo'] = "open"
    <2>1. CASE Opened("main", "launch")
      <3>1. connections' = [connections EXCEPT ![actor["main"].link] = "open"] /\ memo' = actor["main"].link
        BY <2>1 DEF Opened
      <3>2. QED
        BY <1>2, <3>1, ChangeConnection, Actors DEF ProcessInv, ProcessTypes, LinkState
    <2>2. CASE OpeningFails("main", "launch")
      <3>1. connections' = [connections EXCEPT ![actor["main"].link] = "broken"] /\ memo' = memo
        BY <2>2 DEF OpeningFails
      <3>2. QED
        BY <1>2, <3>1, ChangeConnection DEF ProcessInv, ProcessTypes, LinkState
    <2>3. QED
      BY <2>1, <2>2 DEF CheckOpened
  <1>5. Prepared'
    BY <1>3, <1>4 DEF Prepared, At
  <1>6. Quiescent' /\ EndedByShutdown'
    BY <1>1, <1>2, <1>3, Actors DEF Quiescent, EndedByShutdown, At
  <1>7. SelectedRun'
    BY <1>1, <1>2, <1>3, Actors DEF SelectedRun, Selected, At
  <1>8. ProcessTypes' /\ MainPhases' /\ Shared' /\ Released'
    BY <1>1, <1>3, <1>4 DEF ProcessInv, ProcessTypes, MainPhases, Preparing, Shared, Released, At
  <1>9. QED
    BY <1>5, <1>6, <1>7, <1>8 DEF ProcessInv

\* The components are started (asyncio.create_task for each of them).
LEMMA LaunchKeeps == ASSUME ProcessInv, Launch PROVE ProcessInv'
  <1>1. /\ ~warm /\ At("main", "launch")
        /\ \A a \in Actor \ {"main"} : At(a, "off") /\ actor[a].link = NoLink
        /\ memo # NoLink => memo \in DOMAIN connections /\ connections[memo] = "open"
    BY DEF Launch, ProcessInv, Quiescent, Prepared, Preparing, At
  <1>2. UNCHANGED <<settings, memo, connections, stop, faults>> /\ warm' = (memo # NoLink)
    BY DEF Launch
  <1>3. \A a \in Actor : actor'[a] = IF a = "main" THEN [actor[a] EXCEPT !.pc = "waiting"]
                                     ELSE IF a \in Selected THEN [actor[a] EXCEPT !.pc = "start"]
                                     ELSE actor[a]
    BY DEF Launch
  <1>4. actor' \in [Actor -> [pc : Phase, link : Link]]
    BY DEF Launch, ProcessInv, ProcessTypes, Phase
  <1>5. actor'["main"].pc = "waiting"
    BY <1>3, Actors DEF ProcessInv, ProcessTypes
  <1>6. \A a \in Actor \ {"main"} :
          /\ actor'[a].pc \in {"off", "start"} /\ actor'[a].link = NoLink
          /\ a \notin Selected => actor'[a].pc = "off"
    <2> SUFFICES ASSUME NEW a \in Actor \ {"main"}
                 PROVE  /\ actor'[a].pc \in {"off", "start"} /\ actor'[a].link = NoLink
                        /\ a \notin Selected => actor'[a].pc = "off"
      OBVIOUS
    <2>1. actor[a] \in [pc : Phase, link : Link] /\ actor[a].pc = "off" /\ actor[a].link = NoLink
      BY <1>1 DEF ProcessInv, ProcessTypes, At
    <2>2. CASE a \in Selected
      BY <1>3, <2>1, <2>2
    <2>3. CASE a \notin Selected
      BY <1>3, <2>1, <2>3
    <2>4. QED
      BY <2>2, <2>3
  <1>7. QED
    BY <1>1, <1>2, <1>4, <1>5, <1>6, Actors
       DEF ProcessInv, ProcessTypes, MainPhases, Preparing, Quiescent, Prepared, SelectedRun,
           Selected, EndedByShutdown, Shared, Released, At

\* The shutdown begins (FIRST_COMPLETED).
LEMMA StopAllKeeps == ASSUME ProcessInv, StopAll PROVE ProcessInv'
  <1>1. At("main", "waiting") /\ Goto("main", "stopping")
        /\ UNCHANGED <<settings, memo, connections, stop, warm, faults>>
    BY DEF StopAll
  <1>2. /\ actor' \in [Actor -> [pc : Phase, link : Link]] /\ actor'["main"].pc = "stopping"
        /\ \A b \in Actor \ {"main"} : actor'[b] = actor[b]
    BY <1>1, GotoEffect, Actors DEF ProcessInv, Phase
  <1>3. QED
    BY <1>1, <1>2, Actors
       DEF ProcessInv, ProcessTypes, MainPhases, Preparing, Quiescent, Prepared, SelectedRun,
           Selected, EndedByShutdown, Shared, Released, At

\* The store is closed (container.close) when the last component has ended.
LEMMA CloseKeeps == ASSUME ProcessInv, CloseContainer PROVE ProcessInv'
  <1>1. At("main", "stopping") /\ Goto("main", "ended") /\ memo' = NoLink
        /\ UNCHANGED <<settings, stop, warm, faults>> /\ \A c \in Selected : Over(c)
    BY DEF CloseContainer, Gathered
  <1>2. /\ actor' \in [Actor -> [pc : Phase, link : Link]] /\ actor'["main"].pc = "ended"
        /\ \A b \in Actor \ {"main"} : actor'[b] = actor[b]
    BY <1>1, GotoEffect, Actors DEF ProcessInv, Phase
  <1>3. connections' \in Seq(LinkState)
    BY ChangeConnection DEF CloseContainer, ProcessInv, ProcessTypes, LinkState
  <1>4. warm => connections'[memo] = "closed" /\ \A a \in Actor \ {"main"} : actor[a].link \in {NoLink, memo}
    BY <1>1, ChangeConnection DEF CloseContainer, ProcessInv, ProcessTypes, Shared, At, LinkState
  <1>5. \A c \in Component : Over(c) \/ At(c, "off")
    BY <1>1 DEF ProcessInv, SelectedRun
  <1>6. Released'
    BY <1>1, <1>2, <1>4, <1>5, Actors DEF Released, Over, At
  <1>7. SelectedRun'
    BY <1>1, <1>2, Actors DEF ProcessInv, SelectedRun, Selected, At
  <1>8. QED
    BY <1>1, <1>2, <1>3, <1>6, <1>7, Actors
       DEF ProcessInv, ProcessTypes, Link, MainPhases, Preparing, Quiescent, Prepared,
           EndedByShutdown, Shared, At

-----------------------------------------------------------------------------
\* What a component or a request may do while the process runs: nothing to the others,
\* nothing to the shared connection, and a component does not end by itself.
LEMMA OtherStep ==
    ASSUME ProcessInv, actor["main"].pc \in {"waiting", "stopping"}, NEW a \in Actor \ {"main"},
           actor' \in [Actor -> [pc : Phase, link : Link]], connections' \in Seq(LinkState), memo' \in Link,
           \A b \in Actor \ {a} : actor'[b] = actor[b],
           UNCHANGED <<settings, stop, warm>>,
           a \in Component \ Selected => actor'[a].pc = "off",
           a \in Component /\ At("main", "waiting") => actor'[a].pc \notin {"ended", "flushing"},
           warm => /\ UNCHANGED <<memo, connections>> /\ actor'[a].pc # "opening"
                   /\ actor'[a].link \in {NoLink, memo}
    PROVE  ProcessInv'
  <1>1. actor'["main"] = actor["main"]
    BY Actors
  <1>2. ProcessTypes' /\ MainPhases' /\ Quiescent' /\ Prepared' /\ Released'
    BY <1>1 DEF ProcessInv, ProcessTypes, MainPhases, Quiescent, Prepared, Released, Preparing, At
  <1>3. SelectedRun'
    BY Actors DEF ProcessInv, SelectedRun, Selected, At
  <1>4. EndedByShutdown'
    BY <1>1, Actors DEF ProcessInv, EndedByShutdown, Preparing, At
  <1>5. Shared'
    BY <1>1 DEF ProcessInv, Shared, At
  <1>6. QED
    BY <1>2, <1>3, <1>4, <1>5 DEF ProcessInv

\* Whoever is not off runs in a process that has been launched and has not ended.
LEMMA Launched ==
    ASSUME ProcessInv, Running, NEW a \in Actor \ {"main"}, ~At(a, "off")
    PROVE  /\ actor["main"].pc \in {"waiting", "stopping"}
           /\ a \notin Component \ Selected
  BY Actors DEF ProcessInv, MainPhases, Quiescent, SelectedRun, Running, Preparing, At

\* build_storage hands out the memo, or opens a connection of its own if there is none.
LEMMA BuildKeeps ==
    ASSUME ProcessInv, Running, NEW a \in Actor \ {"main"}, At(a, "start"), BuildStorage(a, "serving")
    PROVE  ProcessInv'
  <1>1. actor["main"].pc \in {"waiting", "stopping"} /\ a \notin Component \ Selected
    BY Launched DEF At
  <1>2. CASE memo # NoLink
    <2>1. actor' = [actor EXCEPT ![a] = [pc |-> "serving", link |-> memo]]
          /\ UNCHANGED <<connections, settings, memo, stop, warm>>
      BY <1>2 DEF BuildStorage
    <2>2. actor' \in [Actor -> [pc : Phase, link : Link]] /\ actor'[a] = [pc |-> "serving", link |-> memo]
          /\ \A b \in Actor \ {a} : actor'[b] = actor[b]
      BY <2>1 DEF ProcessInv, ProcessTypes, Phase
    <2>3. QED
      BY <1>1, <2>1, <2>2, OtherStep DEF ProcessInv, ProcessTypes
  <1>3. CASE memo = NoLink
    <2>1. actor' = [actor EXCEPT ![a] = [pc |-> "opening", link |-> Len(connections) + 1]]
          /\ connections' = Append(connections, "opening") /\ UNCHANGED <<settings, memo, stop, warm>>
      BY <1>3 DEF BuildStorage
    <2>2. connections' \in Seq(LinkState) /\ Len(connections) + 1 \in Link
      BY <2>1, AppendProperties, LenProperties DEF ProcessInv, ProcessTypes, Link, LinkState
    <2>3. actor' \in [Actor -> [pc : Phase, link : Link]] /\ actor'[a].pc = "opening"
          /\ \A b \in Actor \ {a} : actor'[b] = actor[b]
      BY <2>1, <2>2 DEF ProcessInv, ProcessTypes, Phase
    <2>4. ~warm
      BY <1>1, <1>3 DEF ProcessInv, Shared
    <2>5. QED
      BY <1>1, <2>1, <2>2, <2>3, <2>4, OtherStep DEF ProcessInv, ProcessTypes
  <1>4. QED
    BY <1>2, <1>3

\* A connection opens, or fails to: never once the check has left one.
LEMMA ConnectKeeps ==
    ASSUME ProcessInv, Running, NEW a \in Actor \ {"main"}, NEW to \in {"serving", "crashed", "ended"},
           a \in Component => to # "ended", Opened(a, to) \/ OpeningFails(a, to)
    PROVE  ProcessInv'
  <1>1. At(a, "opening") /\ Goto(a, to) /\ UNCHANGED <<settings, stop, warm>>
    BY DEF Opened, OpeningFails
  <1>2. actor["main"].pc \in {"waiting", "stopping"} /\ a \notin Component \ Selected
    BY <1>1, Launched DEF At
  <1>3. ~warm
    BY <1>1, <1>2 DEF ProcessInv, Shared
  <1>4. connections' \in Seq(LinkState) /\ memo' \in Link
    <2>1. CASE Opened(a, to)
      <3>1. connections' = [connections EXCEPT ![actor[a].link] = "open"] /\ memo' = actor[a].link
        BY <2>1 DEF Opened
      <3>2. QED
        BY <3>1, ChangeConnection DEF ProcessInv, ProcessTypes, LinkState
    <2>2. CASE OpeningFails(a, to)
      <3>1. connections' = [connections EXCEPT ![actor[a].link] = "broken"] /\ memo' = memo
        BY <2>2 DEF OpeningFails
      <3>2. QED
        BY <3>1, ChangeConnection DEF ProcessInv, ProcessTypes, LinkState
    <2>3. QED
      BY <2>1, <2>2
  <1>5. /\ actor' \in [Actor -> [pc : Phase, link : Link]] /\ actor'[a].pc = to
        /\ \A b \in Actor \ {a} : actor'[b] = actor[b]
    BY <1>1, GotoEffect DEF ProcessInv, Phase
  <1>6. QED
    BY <1>1, <1>2, <1>3, <1>4, <1>5, OtherStep

\* A component or a request moves on without touching the store.
LEMMA MoveKeeps ==
    ASSUME ProcessInv, Running, NEW a \in Actor \ {"main"}, NEW to \in Phase, Goto(a, to),
           actor["main"].pc \in {"waiting", "stopping"}, a \notin Component \ Selected,
           to # "opening", a \in Component /\ At("main", "waiting") => to \notin {"ended", "flushing"},
           UNCHANGED <<settings, memo, stop, warm>>, connections' \in Seq(LinkState),
           At(a, "opening") \/ UNCHANGED connections
    PROVE  ProcessInv'
  <1>1. /\ actor' \in [Actor -> [pc : Phase, link : Link]]
        /\ actor'[a].pc = to /\ actor'[a].link = actor[a].link
        /\ \A b \in Actor \ {a} : actor'[b] = actor[b]
    BY GotoEffect DEF ProcessInv
  <1>2. warm => ~At(a, "opening") /\ actor[a].link \in {NoLink, memo}
    BY DEF ProcessInv, Shared
  <1>3. QED
    BY <1>1, <1>2, OtherStep DEF ProcessInv, ProcessTypes

\* The steps of the components.
LEMMA ComponentKeeps ==
    ASSUME ProcessInv, Running, NEW c \in Component, ComponentStep(c) \/ CrashComponent(c)
    PROVE  ProcessInv'
  <1>1. c \in Actor \ {"main"}
    BY Actors
  <1>2. ~At(c, "off") => actor["main"].pc \in {"waiting", "stopping"} /\ c \notin Component \ Selected
    BY <1>1, Launched
  <1>3. CASE Start(c)
    <2>1. CASE c = "web" /\ ~settings.mcp
      BY <1>1, <1>2, <1>3, <2>1, MoveKeeps DEF Start, ProcessInv, ProcessTypes, At, Phase
    <2>2. CASE ~(c = "web" /\ ~settings.mcp)
      BY <1>1, <1>3, <2>2, BuildKeeps DEF Start
    <2>3. QED
      BY <2>1, <2>2
  <1>4. CASE ConnectComponent(c)
    BY <1>1, <1>4, ConnectKeeps DEF ConnectComponent
  <1>5. CASE Cancel(c)
    <2> DEFINE to == IF c = "ingest" /\ At(c, "serving") THEN "flushing" ELSE "ended"
    <2>1. Goto(c, to) /\ At("main", "stopping") /\ UNCHANGED <<settings, memo, stop, warm>>
      BY <1>5 DEF Cancel
    <2>2. connections' \in Seq(LinkState) /\ (At(c, "opening") \/ UNCHANGED connections)
      BY <1>5, ChangeConnection DEF Cancel, ProcessInv, ProcessTypes, LinkState
    <2>3. ~At(c, "off")
      BY <1>5 DEF Cancel, At
    <2>4. to \in Phase /\ to # "opening" /\ ~At("main", "waiting")
      BY <2>1 DEF Phase, At
    <2> HIDE DEF to
    <2>5. QED
      BY <1>1, <1>2, <2>1, <2>2, <2>3, <2>4, MoveKeeps
  <1>6. CASE CrashComponent(c)
    BY <1>1, <1>2, <1>6, MoveKeeps DEF CrashComponent, ProcessInv, ProcessTypes, At, Phase
  <1>7. QED
    BY <1>3, <1>4, <1>5, <1>6 DEF ComponentStep

\* The steps of the console's requests.
LEMMA RequestKeeps ==
    ASSUME ProcessInv, Running, NEW r \in Request, Arrive(r) \/ RequestStep(r)
    PROVE  ProcessInv'
  <1>1. r \in Actor \ {"main"} /\ r \notin Component
    BY Actors
  <1>2. ~At(r, "off") => actor["main"].pc \in {"waiting", "stopping"}
    BY <1>1, Launched
  <1>3. CASE Arrive(r)
    <2>1. "web" \in Actor \ {"main"} /\ ~At("web", "off")
      BY <1>3, Actors DEF Arrive, At, Component
    <2>2. actor["main"].pc \in {"waiting", "stopping"}
      BY <2>1, Launched
    <2>3. QED
      BY <1>1, <1>3, <2>2, MoveKeeps DEF Arrive, ProcessInv, ProcessTypes, Phase
  <1>4. CASE Resolve(r)
    BY <1>1, <1>4, BuildKeeps DEF Resolve
  <1>5. CASE ResolveOpened(r)
    BY <1>1, <1>5, ConnectKeeps DEF ResolveOpened
  <1>6. CASE Respond(r)
    BY <1>1, <1>2, <1>6, MoveKeeps DEF Respond, ProcessInv, ProcessTypes, Phase, At
  <1>7. QED
    BY <1>3, <1>4, <1>5, <1>6 DEF RequestStep

\* The ingest loop runs dry and parks, or has flushed after it was cancelled.
LEMMA IngestKeeps == ASSUME ProcessInv, Running, IngestRunsDry \/ Flushed PROVE ProcessInv'
  <1>1. "ingest" \in Actor \ {"main"}
    BY Actors DEF Component
  <1>2. ~At("ingest", "off")
    BY DEF IngestRunsDry, Flushed, At
  <1>3. actor["main"].pc \in {"waiting", "stopping"} /\ "ingest" \notin Component \ Selected
    BY <1>1, <1>2, Launched
  <1>4. CASE IngestRunsDry
    BY <1>1, <1>3, <1>4, MoveKeeps DEF IngestRunsDry, ProcessInv, ProcessTypes, Phase
  <1>5. CASE Flushed
    <2>1. ~At("main", "waiting")
      BY <1>5 DEF Flushed, ProcessInv, EndedByShutdown, Component, At
    <2>2. QED
      BY <1>1, <1>3, <1>5, <2>1, MoveKeeps DEF Flushed, ProcessInv, ProcessTypes, Phase
  <1>6. QED
    BY <1>4, <1>5

\* The invariant holds of every step (_run_all and all that it started).
LEMMA ProcessStep == ProcessInv /\ [ProcessNext]_processVars => ProcessInv'
  <1> SUFFICES ASSUME ProcessInv, [ProcessNext]_processVars PROVE ProcessInv'
    OBVIOUS
  <1>1. CASE Coordinate
    BY <1>1, SelectKeeps, CheckKeeps, CheckOpenedKeeps, LaunchKeeps, StopAllKeeps, CloseKeeps
       DEF Coordinate
  <1>2. CASE Signal
    BY <1>2 DEF Signal, ProcessInv, ProcessTypes, MainPhases, Quiescent, Prepared, SelectedRun,
                Selected, EndedByShutdown, Shared, Released, At, Over
  <1>3. ASSUME Running, NEW c \in Component, ComponentStep(c) \/ CrashComponent(c) PROVE ProcessInv'
    BY <1>3, ComponentKeeps
  <1>4. ASSUME Running, NEW r \in Request, Arrive(r) \/ RequestStep(r) PROVE ProcessInv'
    BY <1>4, RequestKeeps
  <1>5. CASE Running /\ (IngestRunsDry \/ Flushed)
    BY <1>5, IngestKeeps
  <1>6. CASE UNCHANGED processVars
    BY <1>6 DEF processVars, ProcessInv, ProcessTypes, MainPhases, Quiescent, Prepared, SelectedRun,
                Selected, EndedByShutdown, Shared, Released, At, Over
  <1>7. QED
    BY <1>1, <1>2, <1>3, <1>4, <1>5, <1>6 DEF ProcessNext

\* What components and requests do leaves main where it is.
LEMMA MainStays ==
    ASSUME ProcessInv
    PROVE  /\ \A c \in Component : ComponentStep(c) \/ CrashComponent(c) => actor'["main"] = actor["main"]
           /\ \A r \in Request : Arrive(r) \/ RequestStep(r) => actor'["main"] = actor["main"]
           /\ IngestRunsDry \/ Flushed => actor'["main"] = actor["main"]
  <1>1. actor \in [Actor -> [pc : Phase, link : Link]]
    BY DEF ProcessInv, ProcessTypes
  <1>2. ASSUME NEW a \in Actor \ {"main"}, NEW to, BuildStorage(a, to) \/ Goto(a, to)
        PROVE  actor'["main"] = actor["main"]
    BY <1>1, <1>2, Actors DEF BuildStorage, Goto
  <1>3. ASSUME NEW c \in Component, ComponentStep(c) \/ CrashComponent(c)
        PROVE  actor'["main"] = actor["main"]
    BY <1>2, <1>3, Actors
       DEF ComponentStep, CrashComponent, Start, ConnectComponent, Opened, OpeningFails, Cancel
  <1>4. ASSUME NEW r \in Request, Arrive(r) \/ RequestStep(r) PROVE actor'["main"] = actor["main"]
    BY <1>2, <1>4, Actors DEF RequestStep, Arrive, Resolve, ResolveOpened, Opened, OpeningFails, Respond
  <1>5. IngestRunsDry \/ Flushed => actor'["main"] = actor["main"]
    BY <1>2, Actors DEF IngestRunsDry, Flushed, Component
  <1>6. QED
    BY <1>3, <1>4, <1>5

-----------------------------------------------------------------------------
\* After a startup check that reached the store, every component works on the one open
\* connection until it has ended, and none of theirs is open at the end (Container:
\* "a process shares one of each component").
THEOREM StoreIsShared == ProcessSpec => []ComponentsShareTheStore
  <1>1. ProcessInv => ComponentsShareTheStore
    <2> SUFFICES ASSUME ProcessInv, warm, NEW c \in Component
                 PROVE  /\ Uses(c) => actor[c].link = memo /\ connections[memo] = "open"
                        /\ At("main", "ended") /\ actor[c].link # NoLink
                             => connections[actor[c].link] # "open"
      BY DEF ComponentsShareTheStore
    <2>1. c \in Actor \ {"main"} /\ actor["main"].pc \in {"waiting", "stopping", "ended"}
      BY Actors DEF ProcessInv, MainPhases, Quiescent
    <2>2. CASE actor["main"].pc \in {"waiting", "stopping"}
      BY <2>1, <2>2 DEF ProcessInv, Shared, Uses, At
    <2>3. CASE At("main", "ended")
      BY <2>3 DEF ProcessInv, Released, Uses, Over, At
    <2>4. QED
      BY <2>1, <2>2, <2>3 DEF At
  <1>2. QED
    BY <1>1, ProcessStart, ProcessStep, PTL DEF ProcessSpec

\* Nothing but a signal or a crash begins the shutdown: a component never ends by itself
\* (_ingest_component parks when its loop is over).
THEOREM ServingGoesOn == ProcessSpec => ServingSurvivesIngest
  <1>1. ProcessInv /\ [ProcessNext]_processVars =>
          [ At("main", "waiting") /\ actor'["main"].pc = "stopping"
              => stop \/ \E c \in Component : At(c, "crashed") ]_processVars
    <2> SUFFICES ASSUME ProcessInv, ProcessNext, At("main", "waiting"), actor'["main"].pc = "stopping"
                 PROVE  stop \/ \E c \in Component : At(c, "crashed")
      BY DEF processVars
    <2>1. CASE StopAll
      BY <2>1 DEF StopAll, ProcessInv, EndedByShutdown, Selected, Over, At
    <2>2. CASE Select \/ Check \/ CheckOpened \/ Launch \/ CloseContainer
      BY <2>2 DEF Select, Check, CheckOpened, Opened, OpeningFails, Launch, CloseContainer, Gathered, At
    <2>3. CASE Signal \/ IngestRunsDry \/ Flushed
      BY <2>3, MainStays, Actors DEF Signal, At
    <2>4. ASSUME NEW c \in Component, ComponentStep(c) \/ CrashComponent(c) PROVE FALSE
      BY <2>4, MainStays, Actors DEF At
    <2>5. ASSUME NEW r \in Request, Arrive(r) \/ RequestStep(r) PROVE FALSE
      BY <2>5, MainStays, Actors DEF At
    <2>6. QED
      BY <2>1, <2>2, <2>3, <2>4, <2>5 DEF ProcessNext, Coordinate
  <1>2. QED
    BY <1>1, ProcessStart, ProcessStep, PTL DEF ProcessSpec, ServingSurvivesIngest

=============================================================================
