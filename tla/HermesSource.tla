---------------------------- MODULE HermesSource ----------------------------
(***************************************************************************)
(* The Hermes adapter: an instrumented VM pushes its turns with feed or    *)
(* afeed, and the ingest loop takes their events from stream().  feed      *)
(* never waits, and spills what the queue has no room for into _pending;   *)
(* afeed waits for room; stream() empties _pending once, when it starts,   *)
(* and then takes from the queue only.                                     *)
(*                                                                         *)
(* Simplifications.  A payload is the sequence of its messages' kinds; an  *)
(* event is the number of its push and its position there.  The VM is      *)
(* external.  The loop starts stream() once.                               *)
(***************************************************************************)
EXTENDS Integers, Sequences, SequencesExt, FiniteSetsExt

CONSTANTS
    Payload,        \* what a push may hold: sequences of message kinds
    HermesQueueMax, \* ingest.hermes_queue_max
    MaxPushes       \* bound: pushes

ASSUME HermesAssumption ==
    /\ Payload \subseteq Seq({"text", "tool", "call"})
    /\ HermesQueueMax \in Nat \ {0} /\ MaxPushes \in Nat

VARIABLES
    pushes,     \* history: for each push its events and whether it was awaited
    buffer,     \* _queue
    pending,    \* _pending
    blocked,    \* push -> the events its afeed has still to put
    reader,     \* stream(): not started, draining _pending, at the queue
    passedOn,   \* what stream() has yielded
    stranded    \* history: events spilled when _pending was no longer read

hermesVars == <<pushes, buffer, pending, blocked, reader, passedOn, stranded>>

\* events_from_hermes_turn: tool results, and answers without text, are dropped.
EventsOfPush(n, payload) ==
    [i \in 1 .. Cardinality({k \in DOMAIN payload : payload[k] = "text"}) |-> <<n, i>>]

Room == HermesQueueMax - Len(buffer)
Fit(events) == SubSeq(events, 1, Min({Room, Len(events)}))
Rest(events) == SubSeq(events, Min({Room, Len(events)}) + 1, Len(events))

\* A push begins; awaited tells afeed from feed.
Push(events, awaited) ==
    /\ Len(pushes) < MaxPushes
    /\ pushes' = Append(pushes, [events |-> events, awaited |-> awaited])
    /\ buffer' = buffer \o Fit(events)

\* feed: event by event, to the queue while it has room and then to _pending.
Feed(payload) ==
    LET events == EventsOfPush(Len(pushes) + 1, payload)
    IN  /\ Push(events, FALSE)
        /\ pending' = pending \o Rest(events)
        /\ stranded' = IF reader = "tailing" THEN stranded \cup ToSet(Rest(events)) ELSE stranded
        /\ blocked' = Append(blocked, <<>>)
        /\ UNCHANGED <<reader, passedOn>>

\* afeed: puts what fits without yielding, and waits with the rest.
AFeed(payload) ==
    LET events == EventsOfPush(Len(pushes) + 1, payload)
    IN  /\ Push(events, TRUE)
        /\ blocked' = Append(blocked, Rest(events))
        /\ UNCHANGED <<pending, reader, passedOn, stranded>>

\* There is room again, and one of those who wait is the first to run; a feed
\* may have been faster.
Unblock(n) ==
    /\ blocked[n] # <<>> /\ Room > 0
    /\ buffer' = buffer \o Fit(blocked[n])
    /\ blocked' = [blocked EXCEPT ![n] = Rest(@)]
    /\ UNCHANGED <<pushes, pending, reader, passedOn, stranded>>

\* Mutant of StartStream: what was spilled before it is left behind.
StartAtTheQueue ==
    /\ reader = "off" /\ reader' = "tailing"
    /\ UNCHANGED <<pushes, buffer, pending, blocked, passedOn, stranded>>

StartStream ==
    /\ reader = "off" /\ reader' = "draining"
    /\ UNCHANGED <<pushes, buffer, pending, blocked, passedOn, stranded>>

DrainPending ==
    /\ reader = "draining"
    /\ IF pending # <<>>
       THEN /\ passedOn' = Append(passedOn, Head(pending)) /\ pending' = Tail(pending)
            /\ UNCHANGED reader
       ELSE reader' = "tailing" /\ UNCHANGED <<passedOn, pending>>
    /\ UNCHANGED <<pushes, buffer, blocked, stranded>>

TakeNext ==
    /\ reader = "tailing" /\ buffer # <<>>
    /\ passedOn' = Append(passedOn, Head(buffer)) /\ buffer' = Tail(buffer)
    /\ UNCHANGED <<pushes, pending, blocked, reader, stranded>>

HermesInit ==
    /\ pushes = <<>> /\ buffer = <<>> /\ pending = <<>> /\ blocked = <<>>
    /\ reader = "off" /\ passedOn = <<>> /\ stranded = {}

HermesNext ==
    \/ \E payload \in Payload : Feed(payload) \/ AFeed(payload)
    \/ \E n \in DOMAIN blocked : Unblock(n)
    \/ StartStream \/ DrainPending \/ TakeNext

HermesSpec == HermesInit /\ [][HermesNext]_hermesVars

(***************************************************************************)
(* Properties                                                              *)
(***************************************************************************)
Pushed == UNION {ToSet(pushes[n].events) : n \in DOMAIN pushes}

\* Nothing is streamed twice, and backpressure keeps order: the events of one
\* awaited push come in their order, however pushes that wait and pushes that
\* spill contend for the queue.
StreamedInOrder ==
    \A i, j \in DOMAIN passedOn :
        i < j => /\ passedOn[i] # passedOn[j]
                 /\ passedOn[i][1] = passedOn[j][1] /\ pushes[passedOn[i][1]].awaited
                      => passedOn[i][2] < passedOn[j][2]

\* When the loop waits at an empty queue and nobody waits to put, it has had every
\* event ever pushed, but for those that feed spilled while the stream was already
\* running: "an internal buffer that stream drains first" is drained at the start
\* only.
PushedIsStreamed ==
    /\ StreamedInOrder
    /\ reader = "tailing" /\ buffer = <<>> /\ (\A n \in DOMAIN blocked : blocked[n] = <<>>)
         => ToSet(passedOn) = Pushed \ stranded

=============================================================================
