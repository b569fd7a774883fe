--------------------------- MODULE GatewaySource ---------------------------
(***************************************************************************)
(* The gateway callback: agents talk to a model through a LiteLLM proxy,   *)
(* every completion that succeeds is logged to the callback, which turns   *)
(* it into events, and the ingest loop takes the events from its queue.    *)
(* A chat request resends the whole conversation, so the callback keeps    *)
(* only the turns after the last answer; when the queue is full the oldest *)
(* event goes.                                                             *)
(*                                                                         *)
(* Simplifications.                                                        *)
(*  - The proxy and the agents are external: an agent appends turns, calls *)
(*    tools, asks again after a failure (a completion that fails is not    *)
(*    logged and leaves no trace) and may discard an answer and ask anew.  *)
(*  - A turn is its number in the conversation, its role, and whether it   *)
(*    has text; the project, the model and the timestamps are left out.    *)
(*  - _pending stays empty: put_nowait needs no running loop, and a queue  *)
(*    that is full has an oldest event to give up.                         *)
(***************************************************************************)
EXTENDS Integers, Sequences, SequencesExt, FiniteSetsExt

CONSTANTS
    Conversation,   \* session ids the agents thread through the metadata
    QueueMax,       \* ingest.gateway_queue_max
    MaxTurns        \* bound: turns of all conversations

ASSUME GatewayAssumption == QueueMax \in Nat \ {0} /\ MaxTurns \in Nat

VARIABLES
    history,    \* history[c]: the messages the agent would send now
    emitted,    \* history: every event ever made, in order
    waiting,    \* _queue: positions in emitted
    streamed,   \* what stream() has yielded, positions in emitted
    turns,      \* turns so far
    redone      \* history: conversations in which an answer was discarded

gatewayVars == <<history, emitted, waiting, streamed, turns, redone>>

Roles == {"user", "assistant", "tool", "system"}
Turn(role, text, call) == [id |-> turns + 1, role |-> role, text |-> text, call |-> call]

(***************************************************************************)
(* events_from_completion                                                  *)
(***************************************************************************)
\* _role_of and _coerce_text: tool results and instructions are dropped, and so
\* is an answer that only calls tools.
EventTurns == [id : Nat, role : {"user", "assistant"}, text : {TRUE}, call : BOOLEAN]

\* What of s is among kept, in order.
Among(s, kept) ==
    LET upTo[n \in 0 .. Len(s)] ==
          IF n = 0 THEN <<>>
          ELSE IF s[n] \in kept THEN Append(upTo[n - 1], s[n]) ELSE upTo[n - 1]
    IN  upTo[Len(s)]

\* Mutant of TrailingTurns: an off-by-one keeps the last answer.
FromLastAnswer(messages) ==
    SubSeq(messages, Max({1} \cup {i \in DOMAIN messages : messages[i].role = "assistant"}),
           Len(messages))

\* _trailing_request_turns: what follows the last answer of the request.
TrailingTurns(messages) ==
    SubSeq(messages, Max({0} \cup {i \in DOMAIN messages : messages[i].role = "assistant"}) + 1,
           Len(messages))

CompletionEvents(request, reply) == Among(TrailingTurns(request) \o <<reply>>, EventTurns)

\* _enqueue, event by event: when the queue is full its oldest goes.
Enqueue(queue, events) ==
    LET all == queue \o events IN SubSeq(all, Max({1, Len(all) - QueueMax + 1}), Len(all))

(***************************************************************************)
(* The agent, the callback, the loop                                       *)
(***************************************************************************)
LastRole(c) == IF history[c] = <<>> THEN "none" ELSE Last(history[c]).role
Speak(c, turn) ==
    /\ turns < MaxTurns /\ turns' = turns + 1
    /\ history' = [history EXCEPT ![c] = Append(@, turn)]

\* The operator says something, also when the last thing said was not answered.
Say(c) ==
    /\ Speak(c, Turn("user", TRUE, FALSE))
    /\ LastRole(c) = "assistant" => ~Last(history[c]).call
    /\ UNCHANGED <<emitted, waiting, streamed, redone>>

Instruct(c) ==
    /\ history[c] = <<>> /\ Speak(c, Turn("system", TRUE, FALSE))
    /\ UNCHANGED <<emitted, waiting, streamed, redone>>

ReturnFromTool(c) ==
    /\ LastRole(c) = "assistant" /\ Last(history[c]).call
    /\ Speak(c, Turn("tool", TRUE, FALSE))
    /\ UNCHANGED <<emitted, waiting, streamed, redone>>

\* The completion succeeds; log_success_event maps and enqueues it.
Complete(c, text, call) ==
    /\ LastRole(c) \in {"user", "tool"} /\ (text \/ call)
    /\ LET reply == Turn("assistant", text, call)
           events == CompletionEvents(history[c], reply)
       IN  /\ Speak(c, reply)
           /\ emitted' = emitted \o [i \in DOMAIN events |-> <<c, events[i].id>>]
           /\ waiting' = Enqueue(waiting, [i \in DOMAIN events |-> Len(emitted) + i])
    /\ UNCHANGED <<streamed, redone>>

\* The agent discards the answer and will ask again.
Discard(c) ==
    /\ LastRole(c) = "assistant"
    /\ history' = [history EXCEPT ![c] = Front(@)]
    /\ redone' = redone \cup {c}
    /\ UNCHANGED <<emitted, waiting, streamed, turns>>

\* stream(): the oldest first.
Stream ==
    /\ waiting # <<>>
    /\ streamed' = Append(streamed, Head(waiting)) /\ waiting' = Tail(waiting)
    /\ UNCHANGED <<history, emitted, turns, redone>>

GatewayInit ==
    /\ history = [c \in Conversation |-> <<>>]
    /\ emitted = <<>> /\ waiting = <<>> /\ streamed = <<>>
    /\ turns = 0 /\ redone = {}

GatewayNext ==
    \/ \E c \in Conversation :
        \/ Say(c) \/ Instruct(c) \/ ReturnFromTool(c) \/ Discard(c)
        \/ \E text, call \in BOOLEAN : Complete(c, text, call)
    \/ Stream

GatewaySpec == GatewayInit /\ [][GatewayNext]_gatewayVars

(***************************************************************************)
(* Properties                                                              *)
(***************************************************************************)
\* What was said in a conversation up to its last answer.
Said(c) ==
    LET answered == {i \in DOMAIN history[c] : history[c][i].role = "assistant"}
        kept == Among(SubSeq(history[c], 1, Max({0} \cup answered)), EventTurns)
    IN  [i \in DOMAIN kept |-> <<c, kept[i].id>>]
EmittedOf(c) == Among(emitted, {c} \X Nat)

\* "Only the new request turns are emitted, not the whole history", over whole
\* conversations: through tool loops, failed completions and questions asked
\* twice, the events of a conversation are exactly what was said in it, each turn
\* once and in order; an answer that was discarded costs repetitions only.
EachTurnIsCapturedOnce ==
    \A c \in Conversation :
        IF c \in redone THEN ToSet(Said(c)) \subseteq ToSet(EmittedOf(c))
        ELSE EmittedOf(c) = Said(c)

\* Under overload the newest events are the ones kept, and the loop gets what it
\* gets in the order it was said: the queue is the end of all that was emitted,
\* and everything streamed lies before it.
OverloadDropsTheOldest ==
    /\ \A i \in DOMAIN waiting : waiting[i] = Len(emitted) - Len(waiting) + i
    /\ \A i \in DOMAIN streamed :
        /\ streamed[i] <= Len(emitted) - Len(waiting)
        /\ i > 1 => streamed[i - 1] < streamed[i]

\* The gateway's promise to the ingest loop: what conversations say becomes events
\* once each, and what is lost of them is the oldest that nobody has taken.
ConversationsAreCaptured == EachTurnIsCapturedOnce /\ OverloadDropsTheOldest

=============================================================================
