--------------------------- MODULE IngestPipeline ---------------------------
(***************************************************************************)
(* The ingest process: mnemozine/ingestion/loop.py with the Claude Code    *)
(* watcher (claude_code/source.py), the chunk accumulator                  *)
(* (claude_code/chunker.py), the ingest service (services.py) and the      *)
(* flush_session a Stop / PreCompact hook calls on that same service.      *)
(*                                                                         *)
(* One producer task per source feeds an unbounded queue; a single         *)
(* consumer takes an event at a time, lets the accumulator group it, and   *)
(* awaits the extraction of every chunk that completes.  A step is the     *)
(* stretch of code between two awaits that really suspend: a put on the    *)
(* unbounded queue does not suspend, a get on it and an extraction do.     *)
(*                                                                         *)
(* Simplifications.                                                        *)
(*  - An event is its session and its text, which stands for its role too. *)
(*    Hashes are injective: a chunk's content hash is its sequence of      *)
(*    texts, without the session, as chunk_content_hash computes it.       *)
(*  - A session has one transcript, which exists once it has a line.       *)
(*    Deleting a transcript adds no event and is left out.                 *)
(*  - The gateway and Hermes producers are tasks that may end; what they   *)
(*    enqueue is grouped like the watcher's events, in sessions of its own.*)
(*  - flush() walks the sessions in the order they were first buffered,    *)
(*    discovery walks the files in path order; here both take any order.   *)
(*  - What an extraction stores is its chunk; MemoryStore models the write.*)
(***************************************************************************)
EXTENDS Naturals, FiniteSets, FiniteSetsExt, SequencesExt

CONSTANTS
    Session, Text,
    Size,           \* characters of a text
    MaxChars,       \* ingest.chunk_max_chars
    MaxMessages,    \* ingest.chunk_max_messages
    OtherSources,   \* the sources there are besides the watcher
    Modes,          \* the ways the program is run, records of the next five
    MaxLines,       \* bound: lines of all transcripts together
    Done,           \* _PRODUCER_DONE
    Nothing         \* no chunk

ASSUME IngestAssumption ==
    /\ IsFiniteSet(Session) /\ IsFiniteSet(OtherSources)
    /\ Size \in [Text -> Nat]
    /\ MaxChars \in Nat
    /\ MaxMessages \in Nat \ {0}
    /\ MaxLines \in Nat
    /\ Modes \subseteq [backfill : BOOLEAN, flushes : BOOLEAN, faults : BOOLEAN,
                        rewrites : BOOLEAN, sources : SUBSET OtherSources, restarts : Nat]
    /\ Done \notin [session : Session, text : Text]
    /\ Nothing \notin [session : Session, texts : Seq(Text)]

VARIABLES
    mode,           \* the way the program is run, chosen at the start
    transcript,     \* transcript[s]: the lines of the session's file
    touched,        \* files changed since the watcher last looked
    watcher,        \* the watcher task: starting, catching up, tailing, ended
    files,          \* transcripts of the initial pass it has still to parse
    yielded,        \* ClaudeCodeSource._seen
    others,         \* the other producer tasks still running
    queue,          \* the fan-in queue
    finished,       \* producers whose end the consumer has seen
    accumulator,    \* the shared ChunkAccumulator
    consumer,       \* the consumer task: running, flushing, returned
    ready,          \* ready[a]: the completed chunks a has still to ingest
    working,        \* working[a]: the chunk whose extraction a awaits
    seen,           \* MnemozineIngestService._seen
    loop,           \* run_ingest_loop: running, ended
    extracted,      \* extracted[a]: the chunks stored for a, in order
    lost,           \* history: chunks taken up and never stored
    skipped,        \* history: chunks suppressed as already emitted or ingested
    restarts        \* times the process was started again

claudeVars == <<transcript, touched>>
sourceVars == <<watcher, files, yielded, others>>
consumerVars == <<finished, accumulator, consumer>>
serviceVars == <<ready, working, seen, skipped>>
storeVars == <<extracted, lost>>
vars == <<claudeVars, sourceVars, queue, consumerVars, serviceVars, storeVars,
          loop, restarts, mode>>

\* mnemozine-ingest --backfill, or the streaming loop.
Backfill == mode.backfill

\* flush_session is called on the shared service.
Flushes == mode.flushes

\* Sources, extractions and storage calls may raise, and shutdown may come.
Faults == mode.faults

\* A resume or rewind may put a line before others.
Rewrites == mode.rewrites

\* The enabled sources besides the watcher.
Sources == mode.sources

Event == [session: Session, text: Text]
Chunk == [session: Session, texts: Seq(Text)]
EventsOf(c) == {[session |-> c.session, text |-> t] : t \in ToSet(c.texts)}

\* The two callers of ingest_chunk.
Callers == {"consumer", "hook"}

-----------------------------------------------------------------------------
(* The chunk accumulator *)

\* completed and suppressed are the chunks one call emits and leaves out.
EmptyAccumulator ==
    [absorbed |-> {}, buffer |-> [s \in Session |-> <<>>], emitted |-> {},
     completed |-> <<>>, suppressed |-> {}]

\* A mutant: a chunk leaves without its buffer being reset.
EmitKeepsBuffer(acc, s) ==
    LET texts == acc.buffer[s] IN
    IF texts = <<>> THEN acc
    ELSE [acc EXCEPT !.emitted = @ \cup {texts},
                     !.completed = Append(@, [session |-> s, texts |-> texts])]

\* _emit: the buffer is reset whether or not its content was emitted before.
Emit(acc, s) ==
    LET texts == acc.buffer[s]
        chunk == [session |-> s, texts |-> texts]
        known == texts \in acc.emitted
    IN IF texts = <<>> THEN acc
       ELSE [acc EXCEPT !.buffer[s] = <<>>,
                        !.emitted = @ \cup {texts},
                        !.completed = IF known THEN @ ELSE Append(@, chunk),
                        !.suppressed = IF known THEN @ \cup {chunk} ELSE @]

Chars(texts) ==
    LET upTo[n \in 0 .. Len(texts)] == IF n = 0 THEN 0 ELSE upTo[n - 1] + Size[texts[n]]
    IN  upTo[Len(texts)]

\* A mutant: the size test looks at the buffer without the new event.
OverflowsLate(texts, t) == texts # <<>> /\ Chars(texts) > MaxChars

Overflows(texts, t) == texts # <<>> /\ Chars(texts) + Size[t] > MaxChars

\* add: an event of a session whose text was absorbed before is dropped; a full
\* buffer is emitted before the event, or with it.
Add(acc, e) ==
    LET s == e.session
        room == IF Overflows(acc.buffer[s], e.text) THEN Emit(acc, s) ELSE acc
        held == [room EXCEPT !.absorbed = @ \cup {e}, !.buffer[s] = Append(@, e.text)]
    IN IF e \in acc.absorbed THEN acc
       ELSE IF Len(held.buffer[s]) >= MaxMessages THEN Emit(held, s)
       ELSE held

\* flush() over every session, in one of the orders.
EmitAll(acc, order) ==
    LET after[n \in 0 .. Len(order)] == IF n = 0 THEN acc ELSE Emit(after[n - 1], order[n])
    IN  after[Len(order)]

Flushed(acc) == {EmitAll(acc, order) : order \in SetToSeqs(Session)}

\* chunk_events over a whole transcript, with an accumulator of its own.
ChunkEvents(s, texts) ==
    LET after[n \in 0 .. Len(texts)] ==
          IF n = 0 THEN EmptyAccumulator
          ELSE Add(after[n - 1], [session |-> s, text |-> texts[n]])
    IN  Emit(after[Len(texts)], s)

\* What stays of an accumulator between two calls.
AtRest(acc) == [acc EXCEPT !.completed = <<>>, !.suppressed = {}]

-----------------------------------------------------------------------------
(* The ingest service *)

\* Mutants: the chunk is not marked; the chunks after the first are dropped.
ProceedUnmarked(a, chunks) ==
    LET fresh == {i \in DOMAIN chunks : chunks[i].texts \notin seen}
        next == Min(fresh)
    IN /\ ready' = [ready EXCEPT ![a] = IF fresh = {} THEN <<>>
                                        ELSE SubSeq(chunks, next + 1, Len(chunks))]
       /\ working' = [working EXCEPT ![a] = IF fresh = {} THEN Nothing ELSE chunks[next]]
       /\ UNCHANGED seen
ProceedWithOne(a, chunks) ==
    LET fresh == {i \in DOMAIN chunks : chunks[i].texts \notin seen}
        next == Min(fresh)
    IN /\ ready' = [ready EXCEPT ![a] = <<>>]
       /\ working' = [working EXCEPT ![a] = IF fresh = {} THEN Nothing ELSE chunks[next]]
       /\ seen' = IF fresh = {} THEN seen ELSE seen \cup {chunks[next].texts}

\* Caller a goes on to the first of chunks that was never ingested, marks it
\* and awaits its extraction; the ones before it are skipped.
Proceed(a, chunks) ==
    LET fresh == {i \in DOMAIN chunks : chunks[i].texts \notin seen}
        next == Min(fresh)
    IN IF fresh = {}
       THEN /\ ready' = [ready EXCEPT ![a] = <<>>]
            /\ working' = [working EXCEPT ![a] = Nothing]
            /\ UNCHANGED seen
       ELSE /\ ready' = [ready EXCEPT ![a] = SubSeq(chunks, next + 1, Len(chunks))]
            /\ working' = [working EXCEPT ![a] = chunks[next]]
            /\ seen' = seen \cup {chunks[next].texts}

\* The chunks Proceed leaves out.
SkippedOf(chunks) ==
    {chunks[i] : i \in {j \in DOMAIN chunks :
                          \A k \in 1 .. j : chunks[k].texts \in seen}}

\* The consumer in phase goes on with chunks; at the end of its flush it returns.
ConsumerProceeds(phase, chunks) ==
    /\ Proceed("consumer", chunks)
    /\ consumer' = IF phase = "flushing" /\ working'["consumer"] = Nothing
                   THEN "returned" ELSE phase

\* Nothing is flushed on the way out of a flush.
AbandonFlush ==
    /\ ready' = [ready EXCEPT !["consumer"] = <<>>]
    /\ working' = [working EXCEPT !["consumer"] = Nothing]
    /\ consumer' = "returned"
    /\ UNCHANGED <<accumulator, seen, skipped>>

\* The finally block: every buffer is emitted and ingested.
FlushAndReturn ==
    \E acc \in Flushed(accumulator) :
        /\ accumulator' = AtRest(acc)
        /\ ConsumerProceeds("flushing", acc.completed)
        /\ skipped' = skipped \cup acc.suppressed \cup SkippedOf(acc.completed)

\* The chunk caller a awaits and the ones it has still to ingest.
InHand(a) == ToSet(ready[a]) \cup ({working[a]} \ {Nothing})

-----------------------------------------------------------------------------
(* Claude Code writes transcripts *)

\* A line is appended; after a resume or rewind it may come before others.
WriteLine(s, t) ==
    /\ MapThenSumSet(LAMBDA x : Len(transcript[x]), Session) < MaxLines
    /\ \E k \in 1 .. Len(transcript[s]) + 1 :
        /\ Rewrites \/ k = Len(transcript[s]) + 1
        /\ transcript' = [transcript EXCEPT ![s] = InsertAt(@, k, t)]
    /\ touched' = IF watcher = "tailing" THEN touched \cup {s} ELSE touched
    /\ UNCHANGED <<sourceVars, queue, consumerVars, serviceVars, storeVars, loop,
                   restarts, mode>>

-----------------------------------------------------------------------------
(* The producers *)

\* _events_from: the events of a file not yielded before, in file order.
FreshEvents(s) ==
    LET lines == transcript[s]
        event(n) == [session |-> s, text |-> lines[n]]
        upTo[n \in 0 .. Len(lines)] ==
          IF n = 0 THEN <<>>
          ELSE LET out == upTo[n - 1]
               IN  IF event(n) \in yielded \cup ToSet(out) THEN out ELSE Append(out, event(n))
    IN  upTo[Len(lines)]

\* discover_transcripts: the files there are now.
Discover ==
    /\ loop = "running" /\ watcher = "starting"
    /\ files' = {s \in Session : transcript[s] # <<>>}
    /\ watcher' = "catching up"
    /\ UNCHANGED <<claudeVars, yielded, others, queue, consumerVars, serviceVars,
                   storeVars, loop, restarts, mode>>

Yield(s) ==
    /\ queue' = queue \o FreshEvents(s)
    /\ yielded' = yielded \cup ToSet(FreshEvents(s))

ParseFile(s) ==
    /\ watcher = "catching up" /\ s \in files
    /\ Yield(s)
    /\ files' = files \ {s}
    /\ UNCHANGED <<claudeVars, watcher, others, consumerVars, serviceVars, storeVars,
                   loop, restarts, mode>>

\* The initial pass is over: a backfill ends, the stream begins to watch.
EndCatchUp ==
    /\ watcher = "catching up" /\ files = {}
    /\ IF Backfill THEN watcher' = "ended" /\ queue' = Append(queue, Done)
                   ELSE watcher' = "tailing" /\ UNCHANGED queue
    /\ UNCHANGED <<claudeVars, files, yielded, others, consumerVars, serviceVars,
                   storeVars, loop, restarts, mode>>

\* awatch reported a change.
ParseTouched(s) ==
    /\ watcher = "tailing" /\ s \in touched
    /\ Yield(s)
    /\ touched' = touched \ {s}
    /\ UNCHANGED <<transcript, watcher, files, others, consumerVars, serviceVars,
                   storeVars, loop, restarts, mode>>

\* A read that raises ends the watcher.
WatcherFails ==
    /\ Faults
    /\ \/ watcher = "catching up" /\ files # {}
       \/ watcher = "tailing" /\ touched # {}
    /\ watcher' = "ended"
    /\ queue' = Append(queue, Done)
    /\ UNCHANGED <<claudeVars, files, yielded, others, consumerVars, serviceVars,
                   storeVars, loop, restarts, mode>>

\* The watcher is the first task started, and nothing in its initial pass
\* suspends it: no other task runs before that pass is over.
EventLoopFree == watcher \in {"tailing", "ended"}

\* Another producer reaches the end of its backlog, or raises.
OtherEnds(p) ==
    /\ EventLoopFree /\ p \in others
    /\ Backfill \/ Faults
    /\ others' = others \ {p}
    /\ queue' = Append(queue, Done)
    /\ UNCHANGED <<claudeVars, watcher, files, yielded, consumerVars, serviceVars,
                   storeVars, loop, restarts, mode>>

-----------------------------------------------------------------------------
(* The consumer *)

ConsumerIdle ==
    EventLoopFree /\ consumer = "running" /\ working["consumer"] = Nothing /\ queue # <<>>

ConsumeEvent ==
    /\ ConsumerIdle /\ Head(queue) # Done
    /\ queue' = Tail(queue)
    /\ LET acc == Add(accumulator, Head(queue)) IN
        /\ accumulator' = AtRest(acc)
        /\ ConsumerProceeds("running", acc.completed)
        /\ skipped' = skipped \cup acc.suppressed \cup SkippedOf(acc.completed)
    /\ UNCHANGED <<claudeVars, sourceVars, finished, storeVars, loop, restarts, mode>>

\* A mutant: the consumer waits for a sentinel too many.
OneTooMany(n) == Backfill /\ n > Cardinality(Sources) + 1

\* drain_to_completion and finished >= producer_count.
AllFinished(n) == Backfill /\ n >= Cardinality(Sources) + 1

\* A producer's sentinel; after the last one a backfill flushes and returns.
ConsumeDone ==
    /\ ConsumerIdle /\ Head(queue) = Done
    /\ queue' = Tail(queue)
    /\ finished' = finished + 1
    /\ IF AllFinished(finished + 1)
       THEN FlushAndReturn
       ELSE UNCHANGED <<accumulator, consumer, serviceVars>>
    /\ UNCHANGED <<claudeVars, sourceVars, storeVars, loop, restarts, mode>>

\* Caller a's extraction is stored and it goes on to its next chunk.
Extracted(a) ==
    /\ EventLoopFree /\ working[a] # Nothing
    /\ extracted' = [extracted EXCEPT ![a] = Append(@, working[a])]
    /\ skipped' = skipped \cup SkippedOf(ready[a])
    /\ IF a = "consumer" THEN ConsumerProceeds(consumer, ready[a])
                         ELSE Proceed(a, ready[a]) /\ UNCHANGED consumer
    /\ UNCHANGED <<claudeVars, sourceVars, queue, finished, accumulator, lost, loop,
                   restarts, mode>>

\* The consumer's extraction or a storage call raises: the chunks in hand are
\* dropped, a running consumer flushes and returns, a flushing one returns.
ConsumerFails ==
    /\ Faults /\ EventLoopFree /\ working["consumer"] # Nothing
    /\ lost' = lost \cup InHand("consumer")
    /\ IF consumer = "running" THEN FlushAndReturn ELSE AbandonFlush
    /\ UNCHANGED <<claudeVars, sourceVars, queue, finished, extracted, loop, restarts, mode>>

-----------------------------------------------------------------------------
(* The hook *)

\* flush_session: the whole transcript is parsed, chunked and ingested.
HookFlush(s) ==
    /\ Flushes /\ loop = "running" /\ EventLoopFree /\ working["hook"] = Nothing
    /\ LET acc == ChunkEvents(s, transcript[s]) IN
        /\ acc.completed # <<>>
        /\ Proceed("hook", acc.completed)
        /\ skipped' = skipped \cup SkippedOf(acc.completed)
    /\ UNCHANGED <<claudeVars, sourceVars, queue, consumerVars, storeVars, loop, restarts, mode>>

HookFails ==
    /\ Faults /\ EventLoopFree /\ working["hook"] # Nothing
    /\ lost' = lost \cup InHand("hook")
    /\ ready' = [ready EXCEPT !["hook"] = <<>>]
    /\ working' = [working EXCEPT !["hook"] = Nothing]
    /\ UNCHANGED <<claudeVars, sourceVars, queue, consumerVars, seen, skipped, extracted,
                   loop, restarts, mode>>

-----------------------------------------------------------------------------
(* The loop ends *)

ProducersEnded == watcher = "ended" /\ others = {}

\* What run_ingest_loop waits for: the consumer of a backfill, the producers of
\* a stream.
WaitIsOver == IF Backfill THEN consumer = "returned" ELSE ProducersEnded

\* consumer.cancel(): what it awaits raises CancelledError.
CancelConsumer ==
    IF consumer = "returned"
    THEN UNCHANGED <<accumulator, consumer, serviceVars, storeVars>>
    ELSE /\ lost' = lost \cup InHand("consumer")
         /\ IF consumer = "running" THEN FlushAndReturn ELSE AbandonFlush
         /\ UNCHANGED extracted

\* The finally block of run_ingest_loop: the wait is over, or it is cancelled at
\* shutdown, and every task still running is cancelled.  A cancelled producer
\* leaves its sentinel, which nobody reads.
EndLoop ==
    /\ loop = "running" /\ EventLoopFree
    /\ WaitIsOver \/ Faults
    /\ loop' = "ended"
    /\ watcher' = "ended" /\ others' = {}
    /\ CancelConsumer
    /\ UNCHANGED <<claudeVars, files, yielded, queue, finished, restarts, mode>>

\* The process dies, or has ended, and is started again: what it kept in memory
\* is gone, transcripts and the store are not.
Restart ==
    /\ restarts < mode.restarts
    /\ restarts' = restarts + 1
    /\ loop' = "running" /\ watcher' = "starting" /\ consumer' = "running"
    /\ touched' = {} /\ files' = {} /\ yielded' = {} /\ others' = Sources
    /\ queue' = <<>> /\ finished' = 0
    /\ accumulator' = EmptyAccumulator
    /\ ready' = [a \in Callers |-> <<>>]
    /\ working' = [a \in Callers |-> Nothing]
    /\ seen' = {} /\ lost' = {} /\ skipped' = {}
    /\ UNCHANGED <<transcript, extracted, mode>>

-----------------------------------------------------------------------------
Init ==
    /\ mode \in Modes
    /\ transcript \in [Session -> {<<>>} \cup {<<t>> : t \in Text}]
    /\ touched = {} /\ files = {} /\ yielded = {}
    /\ watcher = "starting" /\ others = Sources
    /\ queue = <<>> /\ finished = 0
    /\ accumulator = EmptyAccumulator
    /\ consumer = "running" /\ loop = "running"
    /\ ready = [a \in Callers |-> <<>>]
    /\ working = [a \in Callers |-> Nothing]
    /\ seen = {} /\ extracted = [a \in Callers |-> <<>>] /\ lost = {} /\ skipped = {}
    /\ restarts = 0

ClaudeCode == \E s \in Session, t \in Text : WriteLine(s, t)

Producers ==
    \/ Discover \/ EndCatchUp \/ WatcherFails
    \/ \E s \in Session : ParseFile(s) \/ ParseTouched(s)
    \/ \E p \in OtherSources : OtherEnds(p)

Consumer == ConsumeEvent \/ ConsumeDone \/ Extracted("consumer") \/ ConsumerFails

Hook == Extracted("hook") \/ HookFails \/ \E s \in Session : HookFlush(s)

Next == ClaudeCode \/ Producers \/ Consumer \/ Hook \/ EndLoop \/ Restart

Spec == Init /\ [][Next]_vars

-----------------------------------------------------------------------------
(* Properties *)

Stored == UNION {ToSet(extracted[a]) : a \in Callers}
Started == Stored \cup lost \cup InHand("consumer") \cup InHand("hook")

Buffered ==
    UNION {EventsOf([session |-> s, texts |-> accumulator.buffer[s]]) : s \in Session}

EventsIn(chunks) == UNION {EventsOf(c) : c \in chunks}

\* Types, and how the tasks' states go together.
TypeOK ==
    /\ transcript \in [Session -> Seq(Text)]
    /\ touched \cup files \subseteq Session
    /\ watcher \in {"starting", "catching up", "tailing", "ended"}
    /\ yielded \cup accumulator.absorbed \subseteq Event
    /\ others \subseteq Sources
    /\ ToSet(queue) \subseteq Event \cup {Done}
    /\ finished \in 0 .. Cardinality(Sources) + 1
    /\ accumulator.buffer \in [Session -> Seq(Text)]
    /\ accumulator = AtRest(accumulator)
    /\ consumer \in {"running", "flushing", "returned"}
    /\ Started \cup skipped \subseteq Chunk
    /\ \A a \in Callers : working[a] = Nothing => ready[a] = <<>>
    /\ consumer = "flushing" => working["consumer"] # Nothing
    /\ consumer = "returned" => working["consumer"] = Nothing
    /\ loop \in {"running", "ended"}
    /\ loop = "ended" => ProducersEnded /\ consumer # "running"
    /\ restarts \in 0 .. mode.restarts

\* FR-ING-5 within one life of the process: no event is in two chunks that the
\* consumer stored, whatever is rewritten, fails or is cancelled; and the consumer
\* and a hook that meet on the same content never both extract it, because the
\* service marks a chunk before it awaits its extraction.
ExtractedOnce ==
    LET chunks == extracted["consumer"]
        texts(a) == [i \in DOMAIN extracted[a] |-> extracted[a][i].texts]
    IN  restarts = 0 =>
        /\ \A i, j \in DOMAIN chunks :
             i < j => EventsOf(chunks[i]) \cap EventsOf(chunks[j]) = {}
        /\ \A a \in Callers : IsInjective(texts(a))
        /\ Range(texts("consumer")) \cap Range(texts("hook")) = {}

\* Every event the watcher yielded is queued, buffered or in a chunk that was
\* taken up, or in one skipped because a chunk of its content was taken up.
NothingVanishes ==
    /\ yielded \subseteq ToSet(queue) \cup Buffered \cup EventsIn(Started \cup skipped)
    /\ \A c \in skipped : \E d \in Started : c.texts = d.texts

\* However the consumer ends, no event is left in a buffer (the finally of
\* _consume).
FlushedAtTheEnd == consumer = "returned" => Buffered = {}

\* What was yielded can be told the whereabouts of, to the end.
NothingIsLost == NothingVanishes /\ FlushedAtTheEnd

\* FR-ING-6: a chunk is within both bounds, unless it is one event too large.
ChunkWithinBounds ==
    \A c \in Started \cup skipped :
        /\ Len(c.texts) \in 1 .. MaxMessages
        /\ Len(c.texts) = 1 \/ Chars(c.texts) <= MaxChars

\* Types and chunk bounds together: what the loop hands on is well formed.
ChunksAreWellFormed == TypeOK /\ ChunkWithinBounds

FirstLine(s, t) == Min({k \in DOMAIN transcript[s] : transcript[s][k] = t})

\* The consumer extracts a session's events in the order of its transcript, across
\* chunks and through failures and the final flush (transcripts only grow).
OrderKept ==
    ~ Rewrites /\ restarts = 0 =>
    \A i, j \in DOMAIN extracted["consumer"] :
        LET c == extracted["consumer"][i]
            d == extracted["consumer"][j]
        IN c.session = d.session =>
           \A m \in DOMAIN c.texts, n \in DOMAIN d.texts :
              i < j \/ (i = j /\ m < n)
                => FirstLine(c.session, c.texts[m]) < FirstLine(c.session, d.texts[n])

\* What the consumer extracts it extracts once, and in order.
ExtractedOnceInOrder == ExtractedOnce /\ OrderKept

\* services.py: "re-flushing a session the watcher already tailed is a no-op";
\* tailed, when every line of its transcript is in a stored chunk.  Chunks are
\* recognized because transcripts are cut alike from their first line on; a
\* rewind that puts a line in front of stored ones (Rewrites) breaks this, and a
\* restarted process no longer knows what it has ingested.
ReflushIsNoOp ==
    [][ (~ Rewrites /\ restarts = 0 /\ working["hook"] = Nothing /\ working'["hook"] # Nothing)
          => LET s == working'["hook"].session
             IN ~ EventsOf([session |-> s, texts |-> transcript[s]])
                    \subseteq EventsIn(Stored) ]_vars

\* What the event loop may still have to run of a backfill, transcripts, hooks,
\* faults and shutdown apart: the initial pass, a producer, the consumer, the
\* extraction it awaits, or run_ingest_loop, whose wait is over.
SomethingToRun ==
    \/ ~ EventLoopFree \/ others # {}
    \/ ConsumerIdle \/ working["consumer"] # Nothing
    \/ WaitIsOver

\* A backfill never hangs: as long as it has not returned the event loop has
\* something of it to run, so every producer's end reaches the consumer, which
\* flushes and returns (run_ingest_loop: "the call returns once all producers have
\* completed and the accumulator has been flushed").
BackfillNeverHangs == Backfill /\ loop = "running" => SomethingToRun

\* After a backfill every event of the files it found is stored, or a chunk of
\* its content is; also when the process died in between and was run again.
BackfillIsComplete ==
    Backfill /\ loop = "ended" => yielded \subseteq EventsIn(Stored \cup skipped)

\* run_ingest_loop: "The consumer never returns on its own here".
StreamKeepsItsConsumer ==
    ~ Backfill /\ loop = "running" => consumer # "returned"

=============================================================================
