----------------------------- MODULE ActivityFeed -----------------------------
(***************************************************************************)
(* The activity feed (mnemozine/activity): the pipeline and the operator's *)
(* requests record what they have done, and the Logs screen pages through  *)
(* it newest first.  The pipeline does not wait for its record: the append *)
(* is a task of its own, which may come late, fail unseen, or be lost when *)
(* the process ends.  A request of the operator awaits its append.         *)
(*                                                                         *)
(* Simplifications.                                                        *)
(*  - Every event has a time of its own; filters are by kind and by the    *)
(*    memory touched, which stand for the others.                          *)
(*  - A reader follows the pages until one comes back short.               *)
(***************************************************************************)
EXTENDS Naturals, FiniteSets, Sequences

CONSTANTS
    Deed,         \* what is done and recorded
    Awaits,       \* those of the operator (emit_async), the others use emit
    KindOf,       \* [Deed -> ActivityKind]
    Touches,      \* [Deed -> memories], ref_memory_ids
    Queries,      \* [kind, ref]: "any" does not filter
    PageSize,     \* limit
    MaxFeed,    \* InMemoryActivityLog max_events
    MaxFaults     \* bound: deeds and appends that fail

ASSUME FeedAssumption ==
    /\ Awaits \subseteq Deed /\ {PageSize, MaxFeed} \subseteq Nat \ {0} /\ MaxFaults \in Nat
    /\ \A q \in Queries : DOMAIN q = {"kind", "ref"}

VARIABLES
    log,        \* which log the container holds: "null", "memory" or "falkor"
    time,
    deeds,      \* [Deed -> [pc, ts]]
    feed,       \* the events in the log, in the order they came
    appending,  \* background tasks that append
    up,         \* the process is up
    reader,     \* [pc, query, offset, seen, wanted]; wanted: what matched when it began
    faults

feedVars == <<log, time, deeds, feed, appending, up, reader, faults>>

Away == [pc |-> "idle", query |-> [kind |-> "any", ref |-> "any"], offset |-> 0,
         seen |-> {}, wanted |-> {}]

Told == {feed[k] : k \in DOMAIN feed}
Fault == faults < MaxFaults /\ faults' = faults + 1
Over(d) == deeds' = [deeds EXCEPT ![d].pc = "over"]

(***************************************************************************)
(* Doing and recording                                                     *)
(***************************************************************************)
\* Only what was done is recorded: with no log, or the null log, nothing is.
Do(d) ==
    /\ up /\ deeds[d].pc = "todo" /\ time' = time + 1
    /\ deeds' = [deeds EXCEPT ![d] = [pc |-> IF d \in Awaits /\ log # "null" THEN "recording" ELSE "over",
                                      ts |-> time]]
    /\ appending' = IF log = "null" \/ d \in Awaits THEN appending ELSE appending \cup {d}
    /\ UNCHANGED <<log, feed, up, reader, faults>>

DoFails(d) ==
    /\ up /\ deeds[d].pc = "todo" /\ Fault
    /\ deeds' = [deeds EXCEPT ![d].pc = "failed"]
    /\ UNCHANGED <<log, time, feed, appending, up, reader>>

\* The in-memory log drops what came first once it is full.
Appended(d) ==
    LET longer == Append(feed, d)
    IN  IF log = "memory" /\ Len(longer) > MaxFeed THEN Tail(longer) ELSE longer

AppendEnds(d) ==
    /\ up
    /\ \/ d \in appending /\ appending' = appending \ {d} /\ UNCHANGED deeds
       \/ deeds[d].pc = "recording" /\ Over(d) /\ UNCHANGED appending

\* When the in-memory log drops an event, what a reader has yet to see moves up by one
\* row and may slip between two pages: the reader is owed nothing from then on.
Record(d) ==
    /\ AppendEnds(d) /\ feed' = Appended(d)
    /\ reader' = IF Len(feed') = Len(feed) THEN [reader EXCEPT !.wanted = {}] ELSE reader
    /\ UNCHANGED <<log, time, up, faults>>

\* _safe_append: whatever goes wrong is logged and dropped.
RecordFails(d) ==
    /\ AppendEnds(d) /\ Fault
    /\ UNCHANGED <<log, time, feed, up, reader>>

\* Appends under way go with the loop, and so do the reader's requests.
Stop ==
    /\ up /\ up' = FALSE /\ appending' = {} /\ reader' = Away
    /\ deeds' = [d \in Deed |-> IF deeds[d].pc = "recording" THEN [deeds[d] EXCEPT !.pc = "cut"]
                               ELSE deeds[d]]
    /\ UNCHANGED <<log, time, feed, faults>>

\* Only the persistent log outlives the process.
Start ==
    /\ ~up /\ up' = TRUE
    /\ feed' = IF log = "falkor" THEN feed ELSE <<>>
    /\ UNCHANGED <<log, time, deeds, appending, reader, faults>>

(***************************************************************************)
(* Reading it back                                                         *)
(***************************************************************************)
KindMatches(q, d) == q.kind = "any" \/ KindOf[d] = q.kind
Touching(q, d) == q.ref = "any" \/ q.ref \in Touches[d]
Matches(q, d) == KindMatches(q, d) /\ Touching(q, d)

Slice(events, offset) ==
    {d \in events : LET rank == Cardinality({e \in events : deeds[e].ts > deeds[d].ts})
                    IN  offset <= rank /\ rank < offset + PageSize}

\* Mutant of MemoryPage: the slice is taken first.
SliceFirst(q, offset) == {d \in Slice(Told, offset) : Matches(q, d)}

\* InMemoryActivityLog.query
MemoryPage(q, offset) == Slice({d \in Told : Matches(q, d)}, offset)

\* FalkorDBActivityLog.query: the memory touched is filtered after SKIP and LIMIT.
FalkorPage(q, offset) ==
    {d \in Slice({e \in Told : KindMatches(q, e)}, offset) : Touching(q, d)}

PageAt(q, offset) ==
    CASE log = "null" -> {} [] log = "memory" -> MemoryPage(q, offset)
      [] log = "falkor" -> FalkorPage(q, offset)

StartReading ==
    /\ up /\ reader.pc = "idle"
    /\ \E q \in Queries :
        reader' = [pc |-> "reading", query |-> q, offset |-> 0, seen |-> {},
                   wanted |-> {d \in Told : Matches(q, d)}]
    /\ UNCHANGED <<log, time, deeds, feed, appending, up, faults>>

\* list_activity: a page that is not full ends the reading.
ReadPage ==
    /\ up /\ reader.pc = "reading"
    /\ LET page == PageAt(reader.query, reader.offset)
       IN  reader' = [reader EXCEPT !.seen = @ \cup page, !.offset = @ + PageSize,
                                    !.pc = IF Cardinality(page) < PageSize THEN "read" ELSE "reading"]
    /\ UNCHANGED <<log, time, deeds, feed, appending, up, faults>>

CloseScreen ==
    /\ reader.pc = "read" /\ reader' = Away
    /\ UNCHANGED <<log, time, deeds, feed, appending, up, faults>>

(***************************************************************************)
(* The specification                                                       *)
(***************************************************************************)
FeedInit ==
    /\ log \in {"null", "memory", "falkor"} /\ time = 0
    /\ deeds = [d \in Deed |-> [pc |-> "todo", ts |-> 0]]
    /\ feed = <<>> /\ appending = {} /\ up = TRUE /\ faults = 0
    /\ reader = Away

DeedStep(d) == Do(d) \/ DoFails(d) \/ Record(d) \/ RecordFails(d)

FeedNext == Stop \/ Start \/ StartReading \/ ReadPage \/ CloseScreen \/ \E d \in Deed : DeedStep(d)

FeedSpec == FeedInit /\ [][FeedNext]_feedVars

(***************************************************************************)
(* Properties                                                              *)
(***************************************************************************)
\* The feed tells each thing once, and only what was done.
FeedIsTrue ==
    /\ \A d \in Told : deeds[d].pc \in {"over", "recording"}
    /\ \A j, k \in DOMAIN feed : j # k => feed[j] # feed[k]

\* A reader who follows the pages until one is short has seen every event that
\* matched when it began, whatever was appended meanwhile and in what order; not so
\* when the persistent log filters by the memory touched, and not beyond what the
\* in-memory log has dropped.
PagesMissNothing ==
    reader.pc = "read" /\ ~(log = "falkor" /\ reader.query.ref # "any")
        => reader.wanted \subseteq reader.seen

\* What an operator has done is told, unless the append failed, before the request
\* is answered ("so the record is durable before the caller proceeds").
OperatorIsTold ==
    \A d \in Awaits :
        deeds[d].pc = "over" /\ log = "falkor" /\ faults = 0 => d \in Told

\* The feed can be relied on: true, durable for what an operator does, and readable
\* to its end.
FeedIsReliable == FeedIsTrue /\ PagesMissNothing /\ OperatorIsTold

=============================================================================
