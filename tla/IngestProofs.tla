----------------------------- MODULE IngestProofs -----------------------------
(***************************************************************************)
(* Theorems about IngestPipeline, for all sets of sessions and texts, all  *)
(* sizes and limits and all modes, and at the end about the push sources.  *)
(*                                                                         *)
(* A call keeps an accumulator sound (Sound), whoever holds it; a step is  *)
(* then of one of a few kinds (StepKinds), and each keeps what is known of *)
(* where events are (Kept), of who has ended (Tasks) and of the order in   *)
(* which events will be extracted (InOrder).  That a re-flush is a no-op   *)
(* needs that transcripts are cut alike by whoever cuts them (CutAlike).   *)
(***************************************************************************)
EXTENDS IngestPipeline, HermesSource, GatewaySource, FiniteOrders, SequenceTheorems, TLAPS

-----------------------------------------------------------------------------
(* Sequences *)

\* What a sequence holds when it grows or is cut.
LEMMA HoldsOf ==
    ASSUME NEW S, NEW q \in Seq(S)
    PROVE  /\ ToSet(q) \subseteq S
           /\ \A x \in S : ToSet(Append(q, x)) = ToSet(q) \cup {x}
           /\ \A r \in Seq(S) : ToSet(q \o r) = ToSet(q) \cup ToSet(r)
           /\ q # <<>> => ToSet(q) = {Head(q)} \cup ToSet(Tail(q)) /\ Tail(q) \in Seq(S)
<1>1. ToSet(q) \subseteq S
  BY DEF ToSet
<1>2. ASSUME NEW x \in S
      PROVE  ToSet(Append(q, x)) = ToSet(q) \cup {x}
  <2>1. /\ DOMAIN Append(q, x) = 1 .. Len(q) + 1 /\ Append(q, x)[Len(q) + 1] = x
        /\ DOMAIN q = 1 .. Len(q) /\ \A i \in 1 .. Len(q) : Append(q, x)[i] = q[i]
        /\ Len(q) \in Nat
    OBVIOUS
  <2> DEFINE more == Append(q, x)
  <2> HIDE DEF more
  <2>2. \A y : y \in {more[i] : i \in DOMAIN more} <=> y \in {q[i] : i \in DOMAIN q} \cup {x}
    BY <2>1 DEF more
  <2>3. QED
    BY <2>2 DEF ToSet, more
<1>3. ASSUME NEW r \in Seq(S)
      PROVE  ToSet(q \o r) = ToSet(q) \cup ToSet(r)
  <2> DEFINE both == q \o r
  <2>1. /\ DOMAIN both = 1 .. Len(q) + Len(r) /\ Len(q) \in Nat /\ Len(r) \in Nat
        /\ DOMAIN q = 1 .. Len(q) /\ DOMAIN r = 1 .. Len(r)
        /\ \A i \in 1 .. Len(q) + Len(r) : both[i] = IF i <= Len(q) THEN q[i] ELSE r[i - Len(q)]
    OBVIOUS
  <2> HIDE DEF both
  <2>2. ASSUME NEW i \in DOMAIN q
        PROVE  q[i] \in ToSet(both)
    <3>1. i \in DOMAIN both /\ both[i] = q[i]
      BY <2>1
    <3>2. QED
      BY <3>1 DEF ToSet
  <2>3. ASSUME NEW i \in DOMAIN r
        PROVE  r[i] \in ToSet(both)
    <3>1. Len(q) + i \in DOMAIN both /\ both[Len(q) + i] = r[i]
      BY <2>1
    <3>2. QED
      BY <3>1 DEF ToSet
  <2>4. ASSUME NEW i \in DOMAIN both
        PROVE  both[i] \in ToSet(q) \cup ToSet(r)
    <3>1. \/ i \in DOMAIN q /\ both[i] = q[i]
          \/ i - Len(q) \in DOMAIN r /\ both[i] = r[i - Len(q)]
      BY <2>1
    <3>2. QED
      BY <3>1 DEF ToSet
  <2>5. ToSet(both) = ToSet(q) \cup ToSet(r)
    <3>1. ToSet(both) \subseteq ToSet(q) \cup ToSet(r)
      BY <2>4 DEF ToSet
    <3>2. ToSet(q) \subseteq ToSet(both) /\ ToSet(r) \subseteq ToSet(both)
      BY <2>2, <2>3 DEF ToSet
    <3>3. QED
      BY <3>1, <3>2
  <2>6. QED
    BY <2>5 DEF both
<1>4. ASSUME q # <<>>
      PROVE  ToSet(q) = {Head(q)} \cup ToSet(Tail(q)) /\ Tail(q) \in Seq(S)
  <2>1. /\ Tail(q) \in Seq(S) /\ DOMAIN Tail(q) = 1 .. Len(q) - 1 /\ 1 \in DOMAIN q
        /\ Head(q) = q[1] /\ \A i \in 1 .. Len(q) - 1 : Tail(q)[i] = q[i + 1]
    BY <1>4
  <2>2. \A i \in DOMAIN q : i = 1 \/ (i - 1 \in DOMAIN Tail(q) /\ Tail(q)[i - 1] = q[i])
    BY <2>1
  <2>3. \A i \in DOMAIN Tail(q) : i + 1 \in DOMAIN q /\ Tail(q)[i] = q[i + 1]
    BY <2>1
  <2> DEFINE rest == Tail(q)
             first == Head(q)
  <2> HIDE DEF rest, first
  <2>4. \A y : y \in {q[i] : i \in DOMAIN q} <=> y \in {first} \cup {rest[i] : i \in DOMAIN rest}
    BY <2>1, <2>2, <2>3 DEF rest, first
  <2>5. QED
    BY <2>1, <2>4 DEF ToSet, rest, first
<1>5. QED
  BY <1>1, <1>2, <1>3, <1>4

-----------------------------------------------------------------------------
(* The chunk accumulator *)

Accumulators ==
    [absorbed : SUBSET Event, buffer : [Session -> Seq(Text)], emitted : SUBSET Seq(Text),
     completed : Seq(Chunk), suppressed : SUBSET Chunk]

\* What is buffered of a session.
Held(acc, s) == [session |-> s, texts |-> acc.buffer[s]]

\* The event is appended to its session's buffer.
Put(acc, e) ==
    [acc EXCEPT !.absorbed = @ \cup {e}, !.buffer[e.session] = Append(@, e.text)]

\* There is room for the event.
Roomy(acc, e) == IF Overflows(acc.buffer[e.session], e.text) THEN Emit(acc, e.session) ELSE acc

\* add, in terms of these.
LEMMA AddSteps ==
    ASSUME NEW acc, NEW e
    PROVE  Add(acc, e) = IF e \in acc.absorbed THEN acc
                         ELSE IF Len(Put(Roomy(acc, e), e).buffer[e.session]) >= MaxMessages
                         THEN Emit(Put(Roomy(acc, e), e), e.session)
                         ELSE Put(Roomy(acc, e), e)
  BY DEF Add, Put, Roomy

\* What _emit does.
LEMMA EmitEffect ==
    ASSUME NEW acc \in Accumulators, NEW s \in Session
    PROVE  /\ Emit(acc, s) \in Accumulators
           /\ Emit(acc, s).absorbed = acc.absorbed
           /\ Emit(acc, s).buffer[s] = <<>>
           /\ \A r \in Session \ {s} : Emit(acc, s).buffer[r] = acc.buffer[r]
           /\ acc.buffer[s] = <<>> => Emit(acc, s) = acc
           /\ acc.buffer[s] # <<>> /\ acc.buffer[s] \in acc.emitted =>
                /\ Emit(acc, s).emitted = acc.emitted
                /\ Emit(acc, s).completed = acc.completed
                /\ Emit(acc, s).suppressed = acc.suppressed \cup {Held(acc, s)}
           /\ acc.buffer[s] # <<>> /\ acc.buffer[s] \notin acc.emitted =>
                /\ Emit(acc, s).emitted = acc.emitted \cup {acc.buffer[s]}
                /\ Emit(acc, s).completed = Append(acc.completed, Held(acc, s))
                /\ Emit(acc, s).suppressed = acc.suppressed
<1>1. acc = [absorbed |-> acc.absorbed, buffer |-> acc.buffer, emitted |-> acc.emitted,
             completed |-> acc.completed, suppressed |-> acc.suppressed]
      /\ acc.absorbed \in SUBSET Event /\ acc.buffer \in [Session -> Seq(Text)]
      /\ acc.emitted \in SUBSET Seq(Text) /\ acc.completed \in Seq(Chunk)
      /\ acc.suppressed \in SUBSET Chunk
  BY DEF Accumulators
<1>2. CASE acc.buffer[s] = <<>>
  <2>1. Emit(acc, s) = acc
    BY <1>2 DEF Emit
  <2>2. QED
    BY <1>2, <2>1
<1>3. CASE acc.buffer[s] # <<>>
  <2> DEFINE texts == acc.buffer[s]
             chunk == Held(acc, s)
             known == texts \in acc.emitted
             done == IF known THEN acc.completed ELSE Append(acc.completed, chunk)
             left == IF known THEN acc.suppressed \cup {chunk} ELSE acc.suppressed
             rest == [acc.buffer EXCEPT ![s] = <<>>]
             out == acc.emitted \cup {texts}
  <2>1. Emit(acc, s) = [absorbed |-> acc.absorbed, buffer |-> rest, emitted |-> out,
                        completed |-> done, suppressed |-> left]
    <3>1. Emit(acc, s) = [acc EXCEPT !.buffer[s] = <<>>, !.emitted = @ \cup {texts},
                                     !.completed = IF known THEN @ ELSE Append(@, chunk),
                                     !.suppressed = IF known THEN @ \cup {chunk} ELSE @]
      BY <1>3 DEF Emit, Held
    <3>2. Emit(acc, s) = [acc EXCEPT !.buffer = rest, !.emitted = out,
                                     !.completed = done, !.suppressed = left]
      BY <3>1
    <3> HIDE DEF rest, out, done, left
    <3>3. QED
      BY <1>1, <3>2
  <2>2. chunk \in Chunk /\ texts \in Seq(Text) /\ rest \in [Session -> Seq(Text)]
    BY <1>1 DEF Held, Chunk
  <2>3. done \in Seq(Chunk) /\ left \in SUBSET Chunk /\ out \in SUBSET Seq(Text)
    BY <1>1, <2>2
  <2>4. Emit(acc, s) \in Accumulators
    <3> HIDE DEF rest, out, done, left
    <3>1. QED
      BY <1>1, <2>1, <2>2, <2>3 DEF Accumulators
  <2>5. rest[s] = <<>> /\ \A r \in Session \ {s} : rest[r] = acc.buffer[r]
    BY <1>1
  <2>6. known => out = acc.emitted
    OBVIOUS
  <2>7. /\ Emit(acc, s).absorbed = acc.absorbed /\ Emit(acc, s).buffer = rest
        /\ Emit(acc, s).emitted = out /\ Emit(acc, s).completed = done
        /\ Emit(acc, s).suppressed = left
    <3> HIDE DEF rest, out, done, left
    <3>1. QED
      BY <2>1
  <2> HIDE DEF rest, out, chunk
  <2>8. QED
    BY <1>3, <2>4, <2>5, <2>6, <2>7 DEF chunk, out
<1>4. QED
  BY <1>2, <1>3

\* What putting an event in its buffer does.
LEMMA PutEffect ==
    ASSUME NEW acc \in Accumulators, NEW e \in Event
    PROVE  /\ Put(acc, e) \in Accumulators
           /\ Put(acc, e).absorbed = acc.absorbed \cup {e}
           /\ Put(acc, e).buffer[e.session] = Append(acc.buffer[e.session], e.text)
           /\ \A r \in Session \ {e.session} : Put(acc, e).buffer[r] = acc.buffer[r]
           /\ Put(acc, e).emitted = acc.emitted /\ Put(acc, e).completed = acc.completed
           /\ Put(acc, e).suppressed = acc.suppressed
<1>1. acc = [absorbed |-> acc.absorbed, buffer |-> acc.buffer, emitted |-> acc.emitted,
             completed |-> acc.completed, suppressed |-> acc.suppressed]
      /\ acc.absorbed \in SUBSET Event /\ acc.buffer \in [Session -> Seq(Text)]
      /\ acc.emitted \in SUBSET Seq(Text) /\ acc.completed \in Seq(Chunk)
      /\ acc.suppressed \in SUBSET Chunk
  BY DEF Accumulators
<1>2. e.session \in Session /\ e.text \in Text
  BY DEF Event
<1> DEFINE more == [acc.buffer EXCEPT ![e.session] = Append(@, e.text)]
           taken == acc.absorbed \cup {e}
<1>3. Put(acc, e) = [absorbed |-> taken, buffer |-> more, emitted |-> acc.emitted,
                     completed |-> acc.completed, suppressed |-> acc.suppressed]
  <2>1. Put(acc, e) = [acc EXCEPT !.absorbed = taken, !.buffer = more]
    BY DEF Put
  <2> HIDE DEF more, taken
  <2>2. QED
    BY <1>1, <2>1
<1>4. /\ more \in [Session -> Seq(Text)] /\ more[e.session] = Append(acc.buffer[e.session], e.text)
      /\ \A r \in Session \ {e.session} : more[r] = acc.buffer[r]
      /\ taken \in SUBSET Event
  BY <1>1, <1>2
<1> HIDE DEF more
<1>5. QED
  BY <1>1, <1>3, <1>4 DEF Accumulators

\* The function that Chars computes with.
Sums(f, texts) ==
    f = [n \in 0 .. Len(texts) |-> IF n = 0 THEN 0 ELSE f[n - 1] + Size[texts[n]]]

\* There is one.
LEMMA SumsExist ==
    ASSUME NEW texts \in Seq(Text)
    PROVE  \E f : Sums(f, texts) /\ \A n \in 0 .. Len(texts) : f[n] \in Nat
<1> DEFINE g == [p \in (1 .. Len(texts)) \X Nat |-> p[2] + Size[texts[p[1]]]]
<1>1. /\ \A n \in 1 .. Len(texts) : \A x \in Nat : g[<<n, x>>] \in Nat
      /\ \A n \in 1 .. Len(texts) : \A x \in Nat : g[<<n, x>>] = x + Size[texts[n]]
  <2>1. \A n \in 1 .. Len(texts) : Size[texts[n]] \in Nat
    BY IngestAssumption
  <2>2. QED
    BY <2>1
<1> HIDE DEF g
<1>2. Len(texts) \in Nat /\ 0 \in Nat
  OBVIOUS
<1> DEFINE N == Len(texts)
<1>3. PICK f : Follows(f, Nat, 0, N, g)
  <2>1. StaysIn(Nat, N, g)
    BY <1>1 DEF StaysIn
  <2>2. N \in Nat
    BY <1>2
  <2> HIDE DEF N
  <2>3. QED
    BY <2>1, <2>2, Iterated
<1>4. /\ f \in [0 .. N -> Nat] /\ f[0] = 0
      /\ \A n \in 1 .. N : f[n] = g[<<n, f[n - 1]>>]
  BY <1>3 DEF Follows
<1>5. ASSUME NEW n \in 0 .. N
      PROVE  f[n] \in Nat /\ f[n] = IF n = 0 THEN 0 ELSE f[n - 1] + Size[texts[n]]
  <2>1. CASE n = 0
    BY <1>4, <2>1
  <2>2. CASE n # 0
    <3>1. n \in 1 .. N /\ n - 1 \in 0 .. N
      BY <1>2, <2>2
    <3>2. f[n] \in Nat /\ f[n - 1] \in Nat /\ f[n] = g[<<n, f[n - 1]>>]
      BY <1>4, <3>1
    <3>3. QED
      BY <1>1, <2>2, <3>1, <3>2
  <2>3. QED
    BY <2>1, <2>2
<1>6. f = [n \in 0 .. N |-> IF n = 0 THEN 0 ELSE f[n - 1] + Size[texts[n]]]
  <2> HIDE DEF N
  <2>1. QED
    BY <1>4, <1>5
<1>7. QED
  BY <1>5, <1>6 DEF Sums

\* Sizes add up to a number.
LEMMA CharsNat ==
    ASSUME NEW texts \in Seq(Text)
    PROVE  Chars(texts) \in Nat
<1> DEFINE F == CHOOSE f : Sums(f, texts)
<1>1. Sums(F, texts)
  BY SumsExist
<1>2. PICK f : Sums(f, texts) /\ \A n \in 0 .. Len(texts) : f[n] \in Nat
  BY SumsExist
<1>3. Chars(texts) = F[Len(texts)]
  BY DEF Chars, Sums
<1> HIDE DEF F
<1> DEFINE T == {n \in Nat : n <= Len(texts) => F[n] = f[n]}
<1>4. \A n \in 0 .. Len(texts) : /\ F[n] = IF n = 0 THEN 0 ELSE F[n - 1] + Size[texts[n]]
                                 /\ f[n] = IF n = 0 THEN 0 ELSE f[n - 1] + Size[texts[n]]
  BY <1>1, <1>2 DEF Sums
<1>5. Len(texts) \in Nat
  OBVIOUS
<1>6. 0 \in T
  BY <1>4, <1>5
<1>7. ASSUME NEW n \in Nat, n \in T
      PROVE  n + 1 \in T
  BY <1>4, <1>5, <1>7
<1>8. Len(texts) \in T
  <2> HIDE DEF T
  <2>1. QED
    BY <1>5, <1>6, <1>7, CountingUp
<1>9. QED
  BY <1>2, <1>3, <1>5, <1>8

\* Each further text adds its size.
LEMMA CharsGrow ==
    ASSUME NEW texts \in Seq(Text), NEW t \in Text
    PROVE  Chars(Append(texts, t)) = Chars(texts) + Size[t]
<1> DEFINE more == Append(texts, t)
           F == CHOOSE f : Sums(f, texts)
           G == CHOOSE f : Sums(f, more)
<1>1. /\ more \in Seq(Text) /\ Len(more) = Len(texts) + 1 /\ Len(texts) \in Nat
      /\ more[Len(texts) + 1] = t /\ \A n \in 1 .. Len(texts) : more[n] = texts[n]
  OBVIOUS
<1>2. Chars(texts) = F[Len(texts)] /\ Chars(more) = G[Len(more)]
  BY DEF Chars, Sums
<1> HIDE DEF more
<1>3. Sums(F, texts) /\ Sums(G, more)
  BY <1>1, SumsExist
<1>4. \A n \in 0 .. Len(texts) : F[n] = IF n = 0 THEN 0 ELSE F[n - 1] + Size[texts[n]]
  BY <1>3 DEF Sums
<1>5. \A n \in 0 .. Len(more) : G[n] = IF n = 0 THEN 0 ELSE G[n - 1] + Size[more[n]]
  BY <1>3 DEF Sums
<1> HIDE DEF F, G
<1> DEFINE T == {n \in Nat : n <= Len(texts) => F[n] = G[n]}
<1>6. 0 \in T
  BY <1>1, <1>4, <1>5
<1>7. ASSUME NEW n \in Nat, n \in T
      PROVE  n + 1 \in T
  <2>1. SUFFICES ASSUME n + 1 <= Len(texts)
                 PROVE  F[n + 1] = G[n + 1]
    OBVIOUS
  <2>2. F[n] = G[n]
    BY <1>1, <1>7, <2>1
  <2>3. F[n + 1] = F[n] + Size[texts[n + 1]] /\ G[n + 1] = G[n] + Size[more[n + 1]]
    BY <1>1, <1>4, <1>5, <2>1
  <2>4. QED
    BY <1>1, <2>1, <2>2, <2>3
<1>8. Len(texts) \in T
  <2> HIDE DEF T
  <2>1. QED
    BY <1>1, <1>6, <1>7, CountingUp
<1>9. F[Len(texts)] = G[Len(texts)]
  BY <1>1, <1>8
<1>10. G[Len(texts) + 1] = G[Len(texts)] + Size[t]
  BY <1>1, <1>5
<1>11. QED
  BY <1>1, <1>2, <1>9, <1>10 DEF more

-----------------------------------------------------------------------------
(* What the accumulator keeps: bounds, and every event accounted for *)

\* Within both bounds, unless it is one event.
Fits(texts) == Len(texts) <= MaxMessages /\ (Len(texts) <= 1 \/ Chars(texts) <= MaxChars)

\* The chunks that leave with a call.
Leaving(acc) == ToSet(acc.completed) \cup acc.suppressed

\* The event is in a buffer, or in a chunk that leaves.
Within(acc, e) ==
    \/ \E s \in Session : e \in EventsOf(Held(acc, s))
    \/ \E c \in Leaving(acc) : e \in EventsOf(c)

\* Buffers and chunks fit; what is in them was absorbed, and what was absorbed is in
\* them or among the events in past; what was emitted is among the contents in known
\* or that of a chunk that is completed.
Sound(acc, past, known) ==
    /\ acc \in Accumulators
    /\ \A s \in Session : Fits(acc.buffer[s])
    /\ \A c \in Leaving(acc) : Fits(c.texts) /\ c.texts # <<>>
    /\ \A e \in Event : Within(acc, e) => e \in acc.absorbed
    /\ \A e \in acc.absorbed : e \in past \/ Within(acc, e)
    /\ \A x \in acc.emitted : x \in known \/ \E c \in ToSet(acc.completed) : c.texts = x
    /\ \A c \in acc.suppressed : c.texts \in acc.emitted

\* Emitting keeps that.
LEMMA EmitSound ==
    ASSUME NEW acc, NEW past, NEW known, Sound(acc, past, known), NEW s \in Session
    PROVE  Sound(Emit(acc, s), past, known)
<1> DEFINE new == Emit(acc, s)
           chunk == Held(acc, s)
<1>1. acc \in Accumulators
  BY DEF Sound
<1>2. /\ new \in Accumulators /\ new.buffer[s] = <<>> /\ new.absorbed = acc.absorbed
      /\ \A r \in Session \ {s} : new.buffer[r] = acc.buffer[r]
  BY <1>1, EmitEffect
<1>3. CASE acc.buffer[s] = <<>>
  BY <1>1, <1>3, EmitEffect
<1>4. CASE acc.buffer[s] # <<>>
  <2>1. \/ /\ acc.buffer[s] \in acc.emitted /\ new.emitted = acc.emitted
           /\ new.completed = acc.completed
           /\ new.suppressed = acc.suppressed \cup {chunk}
        \/ /\ new.emitted = acc.emitted \cup {acc.buffer[s]}
           /\ new.completed = Append(acc.completed, chunk)
           /\ new.suppressed = acc.suppressed
    BY <1>1, <1>4, EmitEffect
  <2>2. chunk.texts = acc.buffer[s] /\ chunk \in Chunk /\ acc.completed \in Seq(Chunk)
    BY <1>1 DEF Held, Chunk, Accumulators
  <2>3. \A r \in Session \ {s} : Held(new, r) = Held(acc, r)
    BY <1>2 DEF Held
  <2>4. Fits(new.buffer[s])
    BY <1>2, IngestAssumption DEF Fits
  <2>5. \/ /\ acc.buffer[s] \in acc.emitted /\ new.emitted = acc.emitted
           /\ ToSet(new.completed) = ToSet(acc.completed)
           /\ new.suppressed = acc.suppressed \cup {chunk}
        \/ /\ new.emitted = acc.emitted \cup {acc.buffer[s]}
           /\ ToSet(new.completed) = ToSet(acc.completed) \cup {chunk}
           /\ new.suppressed = acc.suppressed
    <3>1. ToSet(Append(acc.completed, chunk)) = ToSet(acc.completed) \cup {chunk}
      BY <2>2, HoldsOf
    <3> HIDE DEF new, chunk
    <3>2. QED
      BY <2>1, <3>1
  <2>6. EventsOf(Held(new, s)) = {}
    BY <1>2 DEF EventsOf, Held, ToSet
  <2> HIDE DEF new
  <2>7. Leaving(new) = Leaving(acc) \cup {chunk}
    BY <2>5 DEF Leaving
  <2>8. \A e : Within(new, e) <=> Within(acc, e)
    <3> HIDE DEF chunk
    <3>1. ASSUME NEW e, Within(new, e)
          PROVE  Within(acc, e)
      <4>1. CASE \E r \in Session : e \in EventsOf(Held(new, r))
        BY <2>3, <2>6, <4>1 DEF Within
      <4>2. CASE \E c \in Leaving(new) : e \in EventsOf(c)
        BY <2>7, <4>2 DEF Within, chunk
      <4>3. QED
        BY <3>1, <4>1, <4>2 DEF Within
    <3>2. ASSUME NEW e, Within(acc, e)
          PROVE  Within(new, e)
      <4>1. CASE \E r \in Session : e \in EventsOf(Held(acc, r))
        BY <2>3, <2>7, <4>1 DEF Within, chunk
      <4>2. CASE \E c \in Leaving(acc) : e \in EventsOf(c)
        BY <2>7, <4>2 DEF Within
      <4>3. QED
        BY <3>2, <4>1, <4>2 DEF Within
    <3>3. QED
      BY <3>1, <3>2
  <2> HIDE DEF chunk
  <2>9. \A r \in Session : Fits(new.buffer[r])
    BY <1>2, <2>4 DEF Sound
  <2>10. \A c \in Leaving(new) : Fits(c.texts) /\ c.texts # <<>>
    BY <1>4, <2>2, <2>7 DEF Sound
  <2>11. \A x \in new.emitted : x \in known \/ \E c \in ToSet(new.completed) : c.texts = x
    BY <2>2, <2>5 DEF Sound
  <2>12. \A c \in new.suppressed : c.texts \in new.emitted
    BY <2>2, <2>5 DEF Sound
  <2>13. /\ \A e \in Event : Within(new, e) => e \in new.absorbed
         /\ \A e \in new.absorbed : e \in past \/ Within(new, e)
    BY <1>2, <2>8 DEF Sound
  <2>14. Sound(new, past, known)
    BY <1>2, <2>9, <2>10, <2>11, <2>12, <2>13 DEF Sound
  <2>15. QED
    BY <2>14 DEF new
<1>5. QED
  BY <1>3, <1>4

\* So does putting an event into a buffer with room for it.
LEMMA PutSound ==
    ASSUME NEW acc, NEW past, NEW known, Sound(acc, past, known), NEW e \in Event,
           Len(acc.buffer[e.session]) < MaxMessages,
           ~ Overflows(acc.buffer[e.session], e.text)
    PROVE  Sound(Put(acc, e), past, known)
<1> DEFINE new == Put(acc, e)
           s == e.session
<1>1. acc \in Accumulators /\ s \in Session /\ e.text \in Text /\ acc.buffer[s] \in Seq(Text)
  BY DEF Sound, Event, Accumulators
<1>2. /\ new \in Accumulators /\ new.buffer[s] = Append(acc.buffer[s], e.text)
      /\ new.absorbed = acc.absorbed \cup {e}
      /\ \A r \in Session \ {s} : new.buffer[r] = acc.buffer[r]
      /\ new.emitted = acc.emitted /\ new.completed = acc.completed
      /\ new.suppressed = acc.suppressed
  BY <1>1, PutEffect
<1>3. \A r \in Session \ {s} : Held(new, r) = Held(acc, r)
  BY <1>2 DEF Held
<1>4. Fits(new.buffer[s])
  <2>1. /\ Len(new.buffer[s]) = Len(acc.buffer[s]) + 1 /\ Len(acc.buffer[s]) \in Nat
        /\ Chars(new.buffer[s]) = Chars(acc.buffer[s]) + Size[e.text]
        /\ (acc.buffer[s] = <<>> => Len(acc.buffer[s]) = 0)
    BY <1>1, <1>2, CharsGrow
  <2>2. MaxMessages \in Nat
    BY IngestAssumption
  <2>3. acc.buffer[s] = <<>> \/ Chars(new.buffer[s]) <= MaxChars
    <3>1. acc.buffer[s] = <<>> \/ ~(Chars(acc.buffer[s]) + Size[e.text] > MaxChars)
      BY DEF Overflows
    <3>2. Chars(acc.buffer[s]) \in Nat /\ Size[e.text] \in Nat /\ MaxChars \in Nat
      BY <1>1, CharsNat, IngestAssumption
    <3>3. QED
      BY <2>1, <3>1, <3>2
  <2>4. QED
    BY <2>1, <2>2, <2>3 DEF Fits
<1>5. EventsOf(Held(new, s)) = EventsOf(Held(acc, s)) \cup {e}
  <2>1. ToSet(new.buffer[s]) = ToSet(acc.buffer[s]) \cup {e.text}
    BY <1>1, <1>2, HoldsOf
  <2>2. e = [session |-> s, text |-> e.text]
    BY DEF Event
  <2>3. EventsOf(Held(new, s)) = {[session |-> s, text |-> t] : t \in ToSet(new.buffer[s])}
        /\ EventsOf(Held(acc, s)) = {[session |-> s, text |-> t] : t \in ToSet(acc.buffer[s])}
    BY DEF EventsOf, Held
  <2> HIDE DEF new
  <2>4. QED
    BY <2>1, <2>2, <2>3
<1> HIDE DEF new
<1>6. Leaving(new) = Leaving(acc)
  BY <1>2 DEF Leaving
<1>7. \A d : Within(new, d) <=> Within(acc, d) \/ d = e
  <2> HIDE DEF s
  <2>1. ASSUME NEW d
        PROVE  (\E r \in Session : d \in EventsOf(Held(new, r)))
                 <=> (\E r \in Session : d \in EventsOf(Held(acc, r))) \/ d = e
    <3>1. ASSUME NEW r \in Session, d \in EventsOf(Held(new, r))
          PROVE  (\E q \in Session : d \in EventsOf(Held(acc, q))) \/ d = e
      BY <1>3, <1>5, <3>1
    <3>2. ASSUME NEW r \in Session, d \in EventsOf(Held(acc, r))
          PROVE  \E q \in Session : d \in EventsOf(Held(new, q))
      BY <1>3, <1>5, <3>2
    <3>3. d = e => d \in EventsOf(Held(new, s))
      BY <1>5
    <3>4. QED
      BY <1>1, <3>1, <3>2, <3>3
  <2>2. QED
    BY <1>6, <2>1 DEF Within
<1>8. \A r \in Session : Fits(new.buffer[r])
  BY <1>2, <1>4 DEF Sound
<1>9. /\ \A d \in Event : Within(new, d) => d \in new.absorbed
      /\ \A d \in new.absorbed : d \in past \/ Within(new, d)
  BY <1>2, <1>7 DEF Sound
<1>10. Sound(new, past, known)
  BY <1>2, <1>6, <1>8, <1>9 DEF Sound
<1>11. QED
  BY <1>10 DEF new

\* No buffer is full: what is true of it between two calls.
Small(acc) == \A s \in Session : Len(acc.buffer[s]) < MaxMessages

\* What emitting keeps, and putting an event there is room for, add keeps too; it
\* absorbs the event and leaves no buffer full.
LEMMA AddStays ==
    ASSUME NEW A, A \subseteq Accumulators, NEW acc \in A, NEW e \in Event, Small(acc),
           \A a \in A : \A s \in Session : Emit(a, s) \in A,
           \A a \in A : a.absorbed = acc.absorbed /\ e \notin a.absorbed
                          /\ Len(a.buffer[e.session]) < MaxMessages
                          /\ ~ Overflows(a.buffer[e.session], e.text)
                          => Put(a, e) \in A
    PROVE  /\ Add(acc, e) \in A /\ Small(Add(acc, e))
           /\ Add(acc, e).absorbed = acc.absorbed \cup {e}
<1> DEFINE s == e.session
           room == Roomy(acc, e)
           held == Put(room, e)
<1>1. s \in Session /\ acc \in Accumulators /\ MaxMessages \in Nat \ {0}
  BY IngestAssumption DEF Event
<1>2. CASE e \in acc.absorbed
  <2>1. Add(acc, e) = acc
    BY <1>2, AddSteps
  <2>2. QED
    BY <1>2, <2>1
<1>3. CASE e \notin acc.absorbed
  <2>1. /\ room \in A /\ room.absorbed = acc.absorbed
        /\ Len(room.buffer[s]) < MaxMessages /\ ~ Overflows(room.buffer[s], e.text)
        /\ \A r \in Session \ {s} : room.buffer[r] = acc.buffer[r]
    <3>1. CASE Overflows(acc.buffer[s], e.text)
      <4>1. room = Emit(acc, s)
        BY <3>1 DEF Roomy
      <4>2. room \in A
        BY <1>1, <4>1
      <4>3. /\ room.absorbed = acc.absorbed /\ room.buffer[s] = <<>>
            /\ \A r \in Session \ {s} : room.buffer[r] = acc.buffer[r]
        BY <1>1, <4>1, EmitEffect
      <4>4. ~ Overflows(<<>>, e.text) /\ Len(<<>>) < MaxMessages
        BY <1>1 DEF Overflows
      <4>5. QED
        BY <4>2, <4>3, <4>4
    <3>2. CASE ~ Overflows(acc.buffer[s], e.text)
      <4>1. room = acc
        BY <3>2 DEF Roomy
      <4>2. QED
        BY <1>1, <3>2, <4>1 DEF Small
    <3>3. QED
      BY <3>1, <3>2
  <2> HIDE DEF room
  <2>2. held \in A
    BY <1>3, <2>1
  <2>3. /\ held.absorbed = acc.absorbed \cup {e}
        /\ \A r \in Session \ {s} : held.buffer[r] = acc.buffer[r]
    BY <2>1, PutEffect
  <2>4. Add(acc, e) = IF Len(held.buffer[s]) >= MaxMessages THEN Emit(held, s) ELSE held
    BY <1>3, AddSteps DEF room
  <2>5. held \in Accumulators /\ held.buffer[s] \in Seq(Text)
    BY <1>1, <2>2 DEF Accumulators
  <2> HIDE DEF held, s
  <2>6. CASE Len(held.buffer[s]) >= MaxMessages
    <3>1. Add(acc, e) = Emit(held, s)
      BY <2>4, <2>6
    <3>2. /\ Add(acc, e) \in A /\ Add(acc, e).absorbed = acc.absorbed \cup {e}
          /\ Add(acc, e).buffer[s] = <<>>
          /\ \A r \in Session \ {s} : Add(acc, e).buffer[r] = acc.buffer[r]
      BY <1>1, <2>2, <2>3, <2>5, <3>1, EmitEffect
    <3>3. Len(<<>>) < MaxMessages
      BY <1>1
    <3>4. QED
      BY <3>2, <3>3 DEF Small
  <2>7. CASE ~(Len(held.buffer[s]) >= MaxMessages)
    <3>1. Add(acc, e) = held
      BY <2>4, <2>7
    <3>2. Len(held.buffer[s]) < MaxMessages
      BY <1>1, <2>5, <2>7
    <3>3. QED
      BY <2>2, <2>3, <3>1, <3>2 DEF Small
  <2>8. QED
    BY <2>6, <2>7
<1>4. QED
  BY <1>2, <1>3

\* An order of a finite set has all of it.
LEMMA OrderHasAll ==
    ASSUME NEW S, IsFiniteSet(S), NEW order \in SetToSeqs(S)
    PROVE  /\ order \in Seq(S) /\ Len(order) \in Nat
           /\ \A s \in S : \E i \in 1 .. Len(order) : order[i] = s
<1> DEFINE N == Cardinality(S)
<1>1. N \in Nat
  BY FS_CardinalityType
<1>2. order \in [1 .. N -> S] /\ \A i, j \in 1 .. N : i # j => order[i] # order[j]
  BY DEF SetToSeqs
<1> HIDE DEF N
<1>3. order \in Seq(S) /\ Len(order) = N
  BY <1>1, <1>2
<1>4. IsFiniteSet(1 .. N) /\ Cardinality(1 .. N) = N
  BY <1>1, FS_Interval
<1>5. order \in Injection(1 .. N, S)
  BY <1>2 DEF Injection, IsInjective
<1>6. order \in Surjection(1 .. N, S)
  <2>1. Cardinality(1 .. N) = Cardinality(S)
    BY <1>4 DEF N
  <2>2. QED
    BY <1>5, <2>1, FS_Injection
<1>7. QED
  BY <1>1, <1>3, <1>6 DEF Surjection

\* The function that EmitAll computes with.
Emits(f, acc, order) ==
    f = [n \in 0 .. Len(order) |-> IF n = 0 THEN acc ELSE Emit(f[n - 1], order[n])]

\* What emitting keeps, a flush keeps; it leaves every buffer empty.
LEMMA EmitAllStays ==
    ASSUME NEW A, A \subseteq Accumulators, NEW acc \in A, NEW order \in SetToSeqs(Session),
           \A a \in A : \A s \in Session : Emit(a, s) \in A
    PROVE  /\ EmitAll(acc, order) \in A
           /\ EmitAll(acc, order).absorbed = acc.absorbed
           /\ \A s \in Session : EmitAll(acc, order).buffer[s] = <<>>
<1>1. /\ order \in Seq(Session) /\ Len(order) \in Nat
      /\ \A s \in Session : \E i \in 1 .. Len(order) : order[i] = s
  BY IngestAssumption, OrderHasAll
<1> DEFINE N == Len(order)
           g == [p \in (1 .. N) \X A |-> Emit(p[2], order[p[1]])]
<1>2. \A n \in 1 .. N : order[n] \in Session
  BY <1>1
<1>3. \A n \in 1 .. N : \A a \in A : g[<<n, a>>] = Emit(a, order[n])
  OBVIOUS
<1>4. StaysIn(A, N, g)
  BY <1>2, <1>3 DEF StaysIn
<1> HIDE DEF g
<1>5. PICK f : Follows(f, A, acc, N, g)
  <2> HIDE DEF N
  <2>1. N \in Nat
    BY <1>1 DEF N
  <2>2. QED
    BY <1>4, <2>1, Iterated
<1>6. Emits(f, acc, order)
  <2>1. /\ f \in [0 .. N -> A] /\ f[0] = acc
        /\ \A n \in 1 .. N : f[n] = g[<<n, f[n - 1]>>]
    BY <1>5 DEF Follows
  <2>2. ASSUME NEW n \in 0 .. N
        PROVE  f[n] = IF n = 0 THEN acc ELSE Emit(f[n - 1], order[n])
    <3>1. CASE n = 0
      BY <2>1, <3>1
    <3>2. CASE n # 0
      <4>1. n \in 1 .. N /\ n - 1 \in 0 .. N
        BY <1>1, <3>2
      <4>2. f[n - 1] \in A /\ f[n] = g[<<n, f[n - 1]>>]
        BY <2>1, <4>1
      <4>3. QED
        BY <1>3, <3>2, <4>1, <4>2
    <3>3. QED
      BY <3>1, <3>2
  <2> HIDE DEF N
  <2>3. f = [n \in 0 .. N |-> IF n = 0 THEN acc ELSE Emit(f[n - 1], order[n])]
    BY <2>1, <2>2
  <2>4. QED
    BY <2>3 DEF Emits, N
<1> DEFINE F == CHOOSE h : Emits(h, acc, order)
<1>7. Emits(F, acc, order)
  BY <1>6
<1>8. EmitAll(acc, order) = F[N]
  BY DEF EmitAll, Emits
<1> HIDE DEF F
<1>9. \A n \in 0 .. N : F[n] = IF n = 0 THEN acc ELSE Emit(F[n - 1], order[n])
  BY <1>7 DEF Emits
<1> DEFINE T == {n \in Nat : n <= N =>
                   /\ F[n] \in A /\ F[n].absorbed = acc.absorbed
                   /\ \A i \in 1 .. n : F[n].buffer[order[i]] = <<>>}
<1>10. 0 \in T
  BY <1>1, <1>9
<1>11. ASSUME NEW n \in Nat, n \in T
       PROVE  n + 1 \in T
  <2>1. SUFFICES ASSUME n + 1 <= N
                 PROVE  /\ F[n + 1] \in A /\ F[n + 1].absorbed = acc.absorbed
                        /\ \A i \in 1 .. n + 1 : F[n + 1].buffer[order[i]] = <<>>
    OBVIOUS
  <2>2. /\ F[n] \in A /\ F[n].absorbed = acc.absorbed
        /\ \A i \in 1 .. n : F[n].buffer[order[i]] = <<>>
    BY <1>1, <1>11, <2>1
  <2>3. F[n + 1] = Emit(F[n], order[n + 1]) /\ order[n + 1] \in Session
    BY <1>1, <1>2, <1>9, <2>1
  <2>4. /\ F[n + 1] \in A /\ F[n + 1].absorbed = acc.absorbed
        /\ F[n + 1].buffer[order[n + 1]] = <<>>
        /\ \A r \in Session \ {order[n + 1]} : F[n + 1].buffer[r] = F[n].buffer[r]
    BY <2>2, <2>3, EmitEffect
  <2>5. ASSUME NEW i \in 1 .. n + 1
        PROVE  F[n + 1].buffer[order[i]] = <<>>
    <3>1. order[i] \in Session /\ (i = n + 1 \/ i \in 1 .. n)
      BY <1>1, <1>2, <2>1
    <3>2. QED
      BY <2>2, <2>4, <3>1
  <2>6. QED
    BY <2>4, <2>5
<1>12. N \in T
  <2> HIDE DEF T, N
  <2>1. N \in Nat
    BY <1>1 DEF N
  <2>2. QED
    BY <1>10, <1>11, <2>1, CountingUp
<1>13. F[N] \in A /\ F[N].absorbed = acc.absorbed /\ \A i \in 1 .. N : F[N].buffer[order[i]] = <<>>
  BY <1>1, <1>12
<1>14. \A s \in Session : F[N].buffer[s] = <<>>
  BY <1>1, <1>13
<1>15. QED
  BY <1>8, <1>13, <1>14

\* The function that ChunkEvents computes with.
Adds(f, s, texts) ==
    f = [n \in 0 .. Len(texts) |-> IF n = 0 THEN EmptyAccumulator
                                   ELSE Add(f[n - 1], [session |-> s, text |-> texts[n]])]

\* An accumulator that is empty.
LEMMA EmptySound == \A past, known : Sound(EmptyAccumulator, past, known) /\ Small(EmptyAccumulator)
<1> DEFINE acc == EmptyAccumulator
<1>1. /\ acc.absorbed = {} /\ acc.emitted = {} /\ acc.completed = <<>> /\ acc.suppressed = {}
      /\ acc.buffer = [s \in Session |-> <<>>]
  BY DEF EmptyAccumulator
<1>2. acc.buffer \in [Session -> Seq(Text)] /\ acc.completed \in Seq(Chunk)
  BY <1>1
<1>3. acc \in Accumulators
  <2> DEFINE none == [s \in Session |-> <<>>]
  <2>1. acc = [absorbed |-> {}, buffer |-> none, emitted |-> {}, completed |-> <<>>,
               suppressed |-> {}]
    BY DEF EmptyAccumulator
  <2>2. none \in [Session -> Seq(Text)] /\ <<>> \in Seq(Chunk)
    OBVIOUS
  <2> HIDE DEF none
  <2>3. QED
    BY <2>1, <2>2 DEF Accumulators
<1>4. ToSet(<<>>) = {}
  BY DEF ToSet
<1> HIDE DEF acc
<1>5. Leaving(acc) = {}
  BY <1>1, <1>4 DEF Leaving
<1>6. \A s \in Session : acc.buffer[s] = <<>> /\ Held(acc, s).texts = <<>>
  BY <1>1 DEF Held
<1>7. \A e : ~ Within(acc, e)
  BY <1>4, <1>5, <1>6 DEF Within, EventsOf
<1>8. Fits(<<>>) /\ Len(<<>>) < MaxMessages
  BY IngestAssumption DEF Fits
<1>9. Small(acc) /\ \A past, known : Sound(acc, past, known)
  BY <1>1, <1>3, <1>5, <1>6, <1>7, <1>8 DEF Sound, Small
<1>10. QED
  BY <1>9 DEF acc

\* It is as an accumulator is between two calls.
LEMMA EmptyRests == EmptyAccumulator = AtRest(EmptyAccumulator) /\ EmptyAccumulator.absorbed = {}
<1> DEFINE absorbed == {}
           texts == {}
           suppressed == {}
           completed == <<>>
           buffers == [s \in Session |-> <<>>]
           acc == [absorbed |-> absorbed, buffer |-> buffers, emitted |-> texts,
                   completed |-> completed, suppressed |-> suppressed]
<1>1. EmptyAccumulator = acc /\ absorbed = {}
      /\ AtRest(acc) = [acc EXCEPT !.completed = completed, !.suppressed = suppressed]
  BY DEF EmptyAccumulator, AtRest
<1> DEFINE rest == [acc EXCEPT !.completed = completed, !.suppressed = suppressed]
<1>2. acc = [absorbed |-> absorbed, buffer |-> buffers, emitted |-> texts,
             completed |-> completed, suppressed |-> suppressed]
  OBVIOUS
<1>3. rest = [acc EXCEPT !.completed = completed, !.suppressed = suppressed]
  OBVIOUS
<1> HIDE DEF absorbed, texts, suppressed, completed, buffers, acc, rest
<1>4. acc.absorbed = absorbed
  BY <1>2
<1>5. rest = [absorbed |-> absorbed, buffer |-> buffers, emitted |-> texts,
              completed |-> completed, suppressed |-> suppressed]
  BY <1>2, <1>3
<1>6. QED
  BY <1>1, <1>2, <1>4, <1>5 DEF rest

\* add keeps an accumulator sound.
LEMMA AddSound ==
    ASSUME NEW acc, NEW past, NEW known, Sound(acc, past, known), Small(acc), NEW e \in Event
    PROVE  /\ Sound(Add(acc, e), past, known) /\ Small(Add(acc, e))
           /\ Add(acc, e).absorbed = acc.absorbed \cup {e}
<1> DEFINE A == {a \in Accumulators : Sound(a, past, known)}
<1>1. A \subseteq Accumulators /\ acc \in A
  BY DEF Sound
<1>2. \A a \in A : \A s \in Session : Emit(a, s) \in A
  BY EmitSound, EmitEffect
<1>3. \A a \in A : Len(a.buffer[e.session]) < MaxMessages
                    /\ ~ Overflows(a.buffer[e.session], e.text)
                    => Put(a, e) \in A
  BY PutSound, PutEffect
<1>4. \A a \in A : Sound(a, past, known)
  OBVIOUS
<1> HIDE DEF A
<1>5. /\ Add(acc, e) \in A /\ Small(Add(acc, e))
      /\ Add(acc, e).absorbed = acc.absorbed \cup {e}
  <2>1. \A a \in A : a.absorbed = acc.absorbed /\ e \notin a.absorbed
                       /\ Len(a.buffer[e.session]) < MaxMessages
                       /\ ~ Overflows(a.buffer[e.session], e.text)
                       => Put(a, e) \in A
    BY <1>3
  <2>2. QED
    BY <1>1, <1>2, <2>1, AddStays
<1>6. QED
  BY <1>4, <1>5

\* What is known of the accumulator after each line of a transcript, in B, is known of the
\* one that chunk_events emits at the end.
LEMMA ChunkEventsBy ==
    ASSUME NEW s \in Session, NEW texts \in Seq(Text), NEW B, <<0, EmptyAccumulator>> \in B,
           \A n \in 1 .. Len(texts) : \A a :
             /\ Sound(a, Event, Seq(Text)) /\ Small(a) /\ <<n - 1, a>> \in B
             => <<n, Add(a, [session |-> s, text |-> texts[n]])>> \in B
    PROVE  \E a : /\ Sound(a, Event, Seq(Text)) /\ Small(a) /\ <<Len(texts), a>> \in B
                  /\ ChunkEvents(s, texts) = Emit(a, s)
<1> DEFINE A == {a \in Accumulators : Sound(a, Event, Seq(Text)) /\ Small(a)}
           N == Len(texts)
           event(n) == [session |-> s, text |-> texts[n]]
           g == [p \in (1 .. N) \X A |-> Add(p[2], event(p[1]))]
<1>1. N \in Nat /\ \A n \in 1 .. N : event(n) \in Event
  BY DEF Event
<1>2. \A a : a \in A <=> Sound(a, Event, Seq(Text)) /\ Small(a)
  BY DEF Sound
<1>3. EmptyAccumulator \in A
  BY <1>2, EmptySound
<1>4. \A n \in 1 .. N : \A a \in A : g[<<n, a>>] = Add(a, event(n))
  OBVIOUS
<1> HIDE DEF A, g
<1>5. \A a \in A : \A n \in 1 .. N : Add(a, event(n)) \in A
  <2> HIDE DEF event, N
  <2>1. QED
    BY <1>1, <1>2, AddSound
<1>6. PICK f : Follows(f, A, EmptyAccumulator, N, g)
  <2> HIDE DEF N
  <2>1. StaysIn(A, N, g)
    BY <1>4, <1>5 DEF StaysIn
  <2>2. QED
    BY <1>1, <1>3, <2>1, Iterated
<1>7. Adds(f, s, texts)
  <2>1. /\ f \in [0 .. N -> A] /\ f[0] = EmptyAccumulator
        /\ \A n \in 1 .. N : f[n] = g[<<n, f[n - 1]>>]
    BY <1>6 DEF Follows
  <2>2. ASSUME NEW n \in 0 .. N
        PROVE  f[n] = IF n = 0 THEN EmptyAccumulator ELSE Add(f[n - 1], event(n))
    <3>1. CASE n = 0
      BY <2>1, <3>1
    <3>2. CASE n # 0
      <4>1. n \in 1 .. N /\ n - 1 \in 0 .. N
        BY <1>1, <3>2
      <4>2. f[n - 1] \in A /\ f[n] = g[<<n, f[n - 1]>>]
        BY <2>1, <4>1
      <4>3. QED
        BY <1>4, <3>2, <4>1, <4>2
    <3>3. QED
      BY <3>1, <3>2
  <2> HIDE DEF N
  <2>3. f = [n \in 0 .. N |-> IF n = 0 THEN EmptyAccumulator ELSE Add(f[n - 1], event(n))]
    BY <2>1, <2>2
  <2>4. QED
    BY <2>3 DEF Adds, N
<1> DEFINE F == CHOOSE h : Adds(h, s, texts)
<1>8. Adds(F, s, texts)
  BY <1>7
<1>9. ChunkEvents(s, texts) = Emit(F[N], s)
  BY DEF ChunkEvents, Adds
<1> HIDE DEF F
<1>10. \A n \in 0 .. N : F[n] = IF n = 0 THEN EmptyAccumulator ELSE Add(F[n - 1], event(n))
  BY <1>8 DEF Adds
<1> DEFINE T == {n \in Nat : n <= N => F[n] \in A /\ <<n, F[n]>> \in B}
<1>11. 0 \in T
  <2>1. 0 \in 0 .. N
    BY <1>1
  <2>2. F[0] = EmptyAccumulator
    BY <1>10, <2>1
  <2>3. QED
    BY <1>3, <2>2
<1>12. ASSUME NEW n \in Nat, n \in T
       PROVE  n + 1 \in T
  <2>1. SUFFICES ASSUME n + 1 <= N
                 PROVE  F[n + 1] \in A /\ <<n + 1, F[n + 1]>> \in B
    OBVIOUS
  <2>2. /\ F[n] \in A /\ <<n, F[n]>> \in B
        /\ n + 1 \in 0 .. N /\ n + 1 \in 1 .. N /\ n + 1 # 0 /\ (n + 1) - 1 = n
    BY <1>1, <1>12, <2>1
  <2>3. F[n + 1] = Add(F[n], event(n + 1))
    <3> HIDE DEF event
    <3>1. QED
      BY <1>10, <2>2
  <2>4. F[n + 1] \in A
    BY <1>5, <2>2, <2>3
  <2>5. <<n + 1, F[n + 1]>> \in B
    BY <1>2, <2>2, <2>3
  <2>6. QED
    BY <2>4, <2>5
<1>13. N \in T
  <2> HIDE DEF T, N
  <2>1. QED
    BY <1>1, <1>11, <1>12, CountingUp
<1>14. F[N] \in A /\ <<N, F[N]>> \in B
  BY <1>1, <1>13
<1>15. QED
  BY <1>2, <1>9, <1>14

\* So a whole transcript is cut into chunks that fit.
LEMMA ChunkEventsSound ==
    ASSUME NEW s \in Session, NEW texts \in Seq(Text)
    PROVE  Sound(ChunkEvents(s, texts), Event, Seq(Text))
<1> DEFINE B == (0 .. Len(texts)) \X Accumulators
           event(n) == [session |-> s, text |-> texts[n]]
<1>1. <<0, EmptyAccumulator>> \in B
  <2>1. 0 \in 0 .. Len(texts) /\ EmptyAccumulator \in Accumulators
    BY EmptySound DEF Sound
  <2>2. QED
    BY <2>1
<1>2. ASSUME NEW n \in 1 .. Len(texts), NEW a, Sound(a, Event, Seq(Text)), Small(a)
      PROVE  <<n, Add(a, event(n))>> \in B
  <2>1. event(n) \in Event /\ n \in 0 .. Len(texts)
    BY DEF Event
  <2> HIDE DEF event
  <2>2. Add(a, event(n)) \in Accumulators
    BY <1>2, <2>1, AddSound DEF Sound
  <2>3. QED
    BY <2>1, <2>2
<1> HIDE DEF B
<1>3. PICK a : Sound(a, Event, Seq(Text)) /\ ChunkEvents(s, texts) = Emit(a, s)
  BY <1>1, <1>2, ChunkEventsBy
<1>4. QED
  BY <1>3, EmitSound

-----------------------------------------------------------------------------
(* The ingest service *)

Ready == [Callers -> Seq(Chunk)]
Working == [Callers -> Chunk \cup {Nothing}]

\* Caller a goes on to the n-th of chunks, or to none of them.
ProceedsTo(a, chunks, n) ==
    \/ /\ n = Len(chunks) + 1
       /\ working'[a] = Nothing /\ ready'[a] = <<>> /\ seen' = seen
    \/ /\ n \in 1 .. Len(chunks) /\ chunks[n].texts \notin seen
       /\ working'[a] = chunks[n] /\ ready'[a] = SubSeq(chunks, n + 1, Len(chunks))
       /\ seen' = seen \cup {chunks[n].texts}

\* What Proceed does: it goes on to some chunk, the ones before it were seen, and the
\* other caller's are as they were.
LEMMA ProceedEffect ==
    ASSUME NEW a \in Callers, NEW chunks \in Seq(Chunk), Proceed(a, chunks),
           ready \in Ready, working \in Working
    PROVE  /\ ready' \in Ready /\ working' \in Working
           /\ \A b \in Callers \ {a} : ready'[b] = ready[b] /\ working'[b] = working[b]
           /\ working'[a] = Nothing => ready'[a] = <<>>
           /\ \E n \in 1 .. Len(chunks) + 1 :
                /\ ProceedsTo(a, chunks, n)
                /\ \A i \in 1 .. n - 1 : chunks[i].texts \in seen
                /\ SkippedOf(chunks) = {chunks[i] : i \in 1 .. n - 1}
<1> DEFINE fresh == {i \in DOMAIN chunks : chunks[i].texts \notin seen}
           next == Min(fresh)
           N == Len(chunks)
<1>1. DOMAIN chunks = 1 .. N /\ N \in Nat /\ \A i \in 1 .. N : chunks[i] \in Chunk
  OBVIOUS
<1>2. Nothing \notin Chunk
  BY IngestAssumption DEF Chunk
<1>3. CASE fresh = {}
  <2>1. /\ ready' = [ready EXCEPT ![a] = <<>>] /\ working' = [working EXCEPT ![a] = Nothing]
        /\ seen' = seen
    BY <1>3 DEF Proceed
  <2>2. /\ ready' \in Ready /\ working' \in Working /\ working'[a] = Nothing /\ ready'[a] = <<>>
        /\ \A b \in Callers \ {a} : ready'[b] = ready[b] /\ working'[b] = working[b]
    BY <2>1 DEF Ready, Working
  <2>3. \A i \in 1 .. N : chunks[i].texts \in seen
    BY <1>1, <1>3
  <2>4. {j \in DOMAIN chunks : \A k \in 1 .. j : chunks[k].texts \in seen} = 1 .. N
    BY <1>1, <2>3
  <2>5. SkippedOf(chunks) = {chunks[i] : i \in 1 .. N}
    BY <2>4 DEF SkippedOf
  <2> DEFINE m == N + 1
  <2>6. m \in 1 .. N + 1 /\ m - 1 = N /\ ProceedsTo(a, chunks, m)
    BY <1>1, <2>1, <2>2 DEF ProceedsTo
  <2> HIDE DEF m
  <2>7. \E n \in 1 .. N + 1 : /\ ProceedsTo(a, chunks, n)
                              /\ \A i \in 1 .. n - 1 : chunks[i].texts \in seen
                              /\ SkippedOf(chunks) = {chunks[i] : i \in 1 .. n - 1}
    <3> HIDE DEF N
    <3>1. QED
      BY <2>3, <2>5, <2>6
  <2>8. QED
    BY <2>2, <2>7 DEF N
<1>4. CASE fresh # {}
  <2>1. next \in fresh /\ \A i \in fresh : next <= i
    <3> DEFINE id == [i \in fresh |-> i]
    <3>1. IsFiniteSet(fresh)
      <4>1. IsFiniteSet(1 .. N)
        BY <1>1, FS_Interval
      <4>2. fresh \in SUBSET (1 .. N)
        BY <1>1
      <4> HIDE DEF fresh, N
      <4>3. QED
        BY <4>1, <4>2, FS_Subset
    <3>2. \A j \in fresh : id[j] \in Int /\ id[j] = j
      BY <1>1
    <3> HIDE DEF fresh, id
    <3>3. PICK k \in fresh : \A j \in fresh : id[k] <= id[j]
      BY <1>4, <3>1, <3>2, LowestExists
    <3>4. \E l \in fresh : \A j \in fresh : l <= j
      BY <3>2, <3>3
    <3>5. QED
      BY <3>4 DEF Min
  <2>2. next \in 1 .. N /\ chunks[next].texts \notin seen /\ chunks[next] \in Chunk
    BY <1>1, <2>1
  <2>3. \A i \in 1 .. N : i < next => chunks[i].texts \in seen
    <3> HIDE DEF next
    <3>1. QED
      BY <1>1, <2>1
  <2> DEFINE m == next
  <2>4. /\ ready' = [ready EXCEPT ![a] = SubSeq(chunks, m + 1, N)]
        /\ working' = [working EXCEPT ![a] = chunks[m]]
        /\ seen' = seen \cup {chunks[m].texts}
    BY <1>4 DEF Proceed
  <2> HIDE DEF next
  <2>5. m \in 1 .. N /\ m \in 1 .. N + 1 /\ \A i \in 1 .. m - 1 : i \in 1 .. N /\ i < m
    BY <1>1, <2>2
  <2> HIDE DEF m
  <2>6. SubSeq(chunks, m + 1, N) \in Seq(Chunk)
    BY <1>1, <2>5
  <2>7. /\ ready' \in Ready /\ working' \in Working
        /\ working'[a] = chunks[m] /\ ready'[a] = SubSeq(chunks, m + 1, N)
        /\ \A b \in Callers \ {a} : ready'[b] = ready[b] /\ working'[b] = working[b]
    BY <2>2, <2>4, <2>6 DEF Ready, Working, m
  <2>8. chunks[m].texts \notin seen /\ chunks[m] # Nothing
    BY <1>2, <2>2 DEF m
  <2>9. ProceedsTo(a, chunks, m)
    BY <2>4, <2>5, <2>7, <2>8 DEF ProceedsTo
  <2>10. \A i \in 1 .. m - 1 : chunks[i].texts \in seen
    BY <2>3, <2>5 DEF m
  <2>11. SkippedOf(chunks) = {chunks[i] : i \in 1 .. m - 1}
    <3>1. {j \in DOMAIN chunks : \A k \in 1 .. j : chunks[k].texts \in seen} = 1 .. m - 1
      <4>1. ASSUME NEW j \in DOMAIN chunks, \A k \in 1 .. j : chunks[k].texts \in seen
            PROVE  j \in 1 .. m - 1
        BY <1>1, <2>5, <2>8, <4>1
      <4>2. ASSUME NEW j \in 1 .. m - 1
            PROVE  j \in DOMAIN chunks /\ \A k \in 1 .. j : chunks[k].texts \in seen
        BY <1>1, <2>5, <2>10, <4>2
      <4>3. QED
        BY <4>1, <4>2
    <3>2. QED
      BY <3>1 DEF SkippedOf
  <2>12. \E n \in 1 .. N + 1 : /\ ProceedsTo(a, chunks, n)
                               /\ \A i \in 1 .. n - 1 : chunks[i].texts \in seen
                               /\ SkippedOf(chunks) = {chunks[i] : i \in 1 .. n - 1}
    BY <2>5, <2>9, <2>10, <2>11
  <2>13. QED
    BY <2>7, <2>8, <2>12
<1>5. QED
  BY <1>3, <1>4

TextsOf(chunks) == {c.texts : c \in chunks}

\* In sets: what was to be ingested is in hand or skipped, the skipped ones were seen,
\* and the one it works on, if any, is marked now and was not before.
LEMMA ProceedSets ==
    ASSUME NEW a \in Callers, NEW chunks \in Seq(Chunk), Proceed(a, chunks),
           ready \in Ready, working \in Working
    PROVE  /\ InHand(a)' \cup SkippedOf(chunks) = ToSet(chunks)
           /\ \A b \in Callers \ {a} : InHand(b)' = InHand(b)
           /\ TextsOf(SkippedOf(chunks)) \subseteq seen
           /\ \/ working'[a] = Nothing /\ seen' = seen
              \/ /\ working'[a] \in ToSet(chunks) /\ working'[a].texts \notin seen
                 /\ seen' = seen \cup {working'[a].texts}
<1> DEFINE N == Len(chunks)
<1>1. PICK n \in 1 .. N + 1 : /\ ProceedsTo(a, chunks, n)
                              /\ \A i \in 1 .. n - 1 : chunks[i].texts \in seen
                              /\ SkippedOf(chunks) = {chunks[i] : i \in 1 .. n - 1}
  BY ProceedEffect
<1>2. \A b \in Callers \ {a} : ready'[b] = ready[b] /\ working'[b] = working[b]
  BY ProceedEffect
<1>3. DOMAIN chunks = 1 .. N /\ N \in Nat /\ \A i \in 1 .. N : chunks[i] \in Chunk
  OBVIOUS
<1>4. ToSet(chunks) = {chunks[i] : i \in 1 .. N}
  BY <1>3 DEF ToSet
<1>5. TextsOf(SkippedOf(chunks)) \subseteq seen
  BY <1>1 DEF TextsOf
<1>6. Nothing \notin Chunk
  BY IngestAssumption DEF Chunk
<1>7. CASE n = N + 1
  <2>1. working'[a] = Nothing /\ ready'[a] = <<>> /\ seen' = seen
    BY <1>3, <1>7, <1>1 DEF ProceedsTo
  <2>2. InHand(a)' = {}
    BY <2>1 DEF InHand, ToSet
  <2>3. SkippedOf(chunks) = ToSet(chunks)
    BY <1>1, <1>3, <1>4, <1>7
  <2>4. QED
    BY <1>2, <1>5, <2>1, <2>2, <2>3 DEF InHand
<1>8. CASE n # N + 1
  <2>1. /\ n \in 1 .. N /\ chunks[n].texts \notin seen /\ working'[a] = chunks[n]
        /\ ready'[a] = SubSeq(chunks, n + 1, N) /\ seen' = seen \cup {chunks[n].texts}
    BY <1>1, <1>8 DEF ProceedsTo
  <2>2. chunks[n] \in Chunk /\ chunks[n] # Nothing /\ chunks[n] \in ToSet(chunks)
    BY <1>3, <1>4, <1>6, <2>1
  <2>3. ToSet(ready'[a]) = {chunks[i] : i \in n + 1 .. N}
    <3> DEFINE rest == SubSeq(chunks, n + 1, N)
    <3>1. /\ DOMAIN rest = 1 .. N - n
          /\ \A i \in 1 .. N - n : rest[i] = chunks[n + i] /\ n + i \in n + 1 .. N
      BY <1>3, <2>1
    <3>2. \A i \in n + 1 .. N : i - n \in 1 .. N - n /\ n + (i - n) = i
      BY <1>3, <2>1
    <3> HIDE DEF rest, N
    <3>3. {rest[i] : i \in DOMAIN rest} \subseteq {chunks[i] : i \in n + 1 .. N}
      BY <3>1
    <3>4. {chunks[i] : i \in n + 1 .. N} \subseteq {rest[i] : i \in DOMAIN rest}
      <4>1. ASSUME NEW i \in n + 1 .. N
            PROVE  chunks[i] \in {rest[j] : j \in DOMAIN rest}
        <5>1. i - n \in DOMAIN rest /\ rest[i - n] = chunks[i]
          BY <3>1, <3>2
        <5>2. QED
          BY <5>1
      <4>2. QED
        BY <4>1
    <3>5. ToSet(rest) = {chunks[i] : i \in n + 1 .. N}
      BY <3>3, <3>4 DEF ToSet
    <3>6. QED
      BY <2>1, <3>5 DEF rest
  <2>4. InHand(a)' = {chunks[n]} \cup {chunks[i] : i \in n + 1 .. N}
    BY <2>1, <2>2, <2>3 DEF InHand
  <2>5. InHand(a)' \cup SkippedOf(chunks) = ToSet(chunks)
    <3>1. \A i \in 1 .. N : i \in 1 .. n - 1 \/ i = n \/ i \in n + 1 .. N
      BY <1>3, <2>1
    <3>2. \A i : i \in 1 .. n - 1 \/ i = n \/ i \in n + 1 .. N => i \in 1 .. N
      BY <1>3, <2>1
    <3> HIDE DEF N
    <3>3. QED
      BY <1>1, <1>4, <2>4, <3>1, <3>2
  <2>6. QED
    BY <1>2, <1>5, <2>1, <2>2, <2>5 DEF InHand
<1>9. QED
  BY <1>7, <1>8

-----------------------------------------------------------------------------
(* The files *)

\* The first place of t among the lines.
FirstIn(lines, t) == Min({k \in DOMAIN lines : lines[k] = t})

\* It is a place of t, and comes before the others.
LEMMA FirstInIs ==
    ASSUME NEW lines \in Seq(Text), NEW t \in ToSet(lines)
    PROVE  /\ FirstIn(lines, t) \in DOMAIN lines /\ lines[FirstIn(lines, t)] = t
           /\ \A k \in DOMAIN lines : lines[k] = t => FirstIn(lines, t) <= k
<1> DEFINE at == {k \in DOMAIN lines : lines[k] = t}
           id == [k \in at |-> k]
<1>1. DOMAIN lines = 1 .. Len(lines) /\ Len(lines) \in Nat
  OBVIOUS
<1>2. at # {}
  BY DEF ToSet
<1>3. IsFiniteSet(at)
  <2>1. IsFiniteSet(1 .. Len(lines))
    BY <1>1, FS_Interval
  <2>2. at \in SUBSET (1 .. Len(lines))
    BY <1>1
  <2> HIDE DEF at
  <2>3. QED
    BY <2>1, <2>2, FS_Subset
<1>4. \A j \in at : id[j] \in Int /\ id[j] = j
  BY <1>1
<1>5. \E k \in at : \A j \in at : k <= j
  <2> HIDE DEF at, id
  <2>1. PICK k \in at : \A j \in at : id[k] <= id[j]
    BY <1>2, <1>3, <1>4, LowestExists
  <2>2. QED
    BY <1>4, <2>1
<1>6. FirstIn(lines, t) = Min(at)
  BY DEF FirstIn
<1>7. Min(at) \in at /\ \A j \in at : Min(at) <= j
  BY <1>5 DEF Min
<1>8. QED
  BY <1>6, <1>7

\* So is the first line of a text in a file.
LEMMA FirstLineIs ==
    ASSUME NEW s \in Session, transcript[s] \in Seq(Text), NEW t \in ToSet(transcript[s])
    PROVE  /\ FirstLine(s, t) \in DOMAIN transcript[s] /\ transcript[s][FirstLine(s, t)] = t
           /\ \A k \in DOMAIN transcript[s] : transcript[s][k] = t => FirstLine(s, t) <= k
<1>1. FirstLine(s, t) = FirstIn(transcript[s], t)
  BY DEF FirstLine, FirstIn
<1>2. QED
  BY <1>1, FirstInIs

\* The next line of a file adds its event unless it was yielded before.
Fresher(out, e) == IF e \in yielded \cup ToSet(out) THEN out ELSE Append(out, e)

\* The function that FreshEvents computes with.
Freshens(f, s, lines) ==
    f = [n \in 0 .. Len(lines) |->
           IF n = 0 THEN <<>> ELSE Fresher(f[n - 1], [session |-> s, text |-> lines[n]])]

\* A file's fresh events are its lines that were not yielded, each at its first line.
LEMMA FreshEventsAre ==
    ASSUME NEW s \in Session, transcript[s] \in Seq(Text)
    PROVE  /\ FreshEvents(s) \in Seq(Event)
           /\ \A e \in ToSet(FreshEvents(s)) :
                e.session = s /\ e.text \in ToSet(transcript[s]) /\ e \notin yielded
           /\ \A t \in ToSet(transcript[s]) :
                [session |-> s, text |-> t] \in yielded \cup ToSet(FreshEvents(s))
           /\ \A i, j \in DOMAIN FreshEvents(s) :
                i < j => FirstLine(s, FreshEvents(s)[i].text) < FirstLine(s, FreshEvents(s)[j].text)
<1> DEFINE lines == transcript[s]
           N == Len(lines)
           event(n) == [session |-> s, text |-> lines[n]]
           X == Seq(Event)
           g == [p \in (1 .. N) \X X |-> Fresher(p[2], event(p[1]))]
<1>1. /\ lines \in Seq(Text) /\ DOMAIN lines = 1 .. N /\ N \in Nat
      /\ \A n \in 1 .. N : lines[n] \in Text
  OBVIOUS
<1>2. \A n \in 1 .. N : event(n) \in Event /\ event(n).session = s /\ event(n).text = lines[n]
  BY <1>1 DEF Event
<1> HIDE DEF lines
<1>3. \A n \in 1 .. N : \A out \in X : g[<<n, out>>] = Fresher(out, event(n))
  OBVIOUS
<1>4. \A n \in 1 .. N : \A out \in X : Fresher(out, event(n)) \in X
  BY <1>2 DEF Fresher
<1> HIDE DEF g
<1>5. PICK f : Follows(f, X, <<>>, N, g)
  <2>1. StaysIn(X, N, g)
    BY <1>3, <1>4 DEF StaysIn
  <2>2. <<>> \in X
    OBVIOUS
  <2> HIDE DEF N, X
  <2>3. QED
    BY <1>1, <2>1, <2>2, Iterated
<1>6. Freshens(f, s, lines)
  <2>1. /\ f \in [0 .. N -> X] /\ f[0] = <<>>
        /\ \A n \in 1 .. N : f[n] = g[<<n, f[n - 1]>>]
    BY <1>5 DEF Follows
  <2> HIDE DEF X
  <2>2. ASSUME NEW n \in 0 .. N
        PROVE  f[n] = IF n = 0 THEN <<>> ELSE Fresher(f[n - 1], event(n))
    <3>1. CASE n = 0
      BY <2>1, <3>1
    <3>2. CASE n # 0
      <4>1. n \in 1 .. N /\ n - 1 \in 0 .. N
        BY <1>1, <3>2
      <4>2. f[n - 1] \in X /\ f[n] = g[<<n, f[n - 1]>>]
        BY <2>1, <4>1
      <4> HIDE DEF event, N
      <4>3. QED
        BY <1>3, <3>2, <4>1, <4>2
    <3>3. QED
      BY <3>1, <3>2
  <2> HIDE DEF N
  <2>3. f = [n \in 0 .. N |-> IF n = 0 THEN <<>> ELSE Fresher(f[n - 1], event(n))]
    BY <2>1, <2>2
  <2>4. QED
    BY <2>3 DEF Freshens, N
<1> DEFINE F == CHOOSE h : Freshens(h, s, lines)
<1>7. Freshens(F, s, lines)
  BY <1>6
<1>8. FreshEvents(s) = F[N]
  BY DEF FreshEvents, Freshens, Fresher, lines
<1> HIDE DEF F
<1>9. \A n \in 0 .. N : F[n] = IF n = 0 THEN <<>> ELSE Fresher(F[n - 1], event(n))
  BY <1>7 DEF Freshens
<1> DEFINE first(t) == FirstLine(s, t)
           Good(n, out) ==
             /\ out \in X
             /\ \A e \in ToSet(out) : /\ e.session = s /\ e \notin yielded
                                      /\ \E k \in 1 .. n : e.text = lines[k]
             /\ \A k \in 1 .. n : event(k) \in yielded \cup ToSet(out)
             /\ \A i, j \in DOMAIN out : i < j => first(out[i].text) < first(out[j].text)
           T == {n \in Nat : n <= N => Good(n, F[n])}
<1>10. 0 \in T
  <2>1. F[0] = <<>> /\ 0 \in Nat
    <3>1. 0 \in 0 .. N
      BY <1>1
    <3> HIDE DEF event, N
    <3>2. QED
      BY <1>9, <3>1
  <2>2. ToSet(<<>>) = {} /\ DOMAIN <<>> = {} /\ <<>> \in X
    BY DEF ToSet
  <2>3. \A k \in 1 .. 0 : FALSE
    OBVIOUS
  <2>4. Good(0, <<>>)
    BY <2>2, <2>3
  <2> HIDE DEF Good
  <2>5. QED
    BY <2>1, <2>4
<1>11. ASSUME NEW n \in Nat, n \in T
       PROVE  n + 1 \in T
  <2>1. SUFFICES ASSUME n + 1 <= N
                 PROVE  Good(n + 1, F[n + 1])
    OBVIOUS
  <2> DEFINE m == n + 1
             out == F[n]
             e == event(m)
  <2>2. m \in 1 .. N /\ m \in 0 .. N /\ m # 0 /\ m - 1 = n /\ n <= N
        /\ \A k : k \in 1 .. m <=> (k \in 1 .. n \/ k = m)
    BY <1>1, <1>11, <2>1
  <2>3. Good(n, out)
    BY <1>11, <2>2
  <2>4. F[m] = Fresher(out, e)
    <3> HIDE DEF event, m
    <3>1. QED
      BY <1>9, <2>2
  <2>5. e \in Event /\ e.session = s /\ e.text = lines[m]
    BY <1>2, <2>2
  <2> HIDE DEF out, m
  <2>6. CASE e \in yielded \cup ToSet(out)
    <3>1. F[m] = out
      BY <2>4, <2>6 DEF Fresher
    <3>2. Good(m, out)
      BY <2>2, <2>3, <2>6
    <3>3. QED
      BY <3>1, <3>2 DEF m
  <2>7. CASE e \notin yielded \cup ToSet(out)
    <3> DEFINE more == Append(out, e)
    <3>1. F[m] = more
      BY <2>4, <2>7 DEF Fresher
    <3>2. out \in Seq(Event)
      BY <2>3
    <3>3. more \in X /\ ToSet(more) = ToSet(out) \cup {e}
      BY <2>5, <3>2, HoldsOf
    <3>4. \A k \in 1 .. n : lines[k] # lines[m]
      BY <2>3, <2>7
    <3>5. first(lines[m]) = m
      <4>1. lines[m] \in ToSet(lines) /\ m \in DOMAIN lines
        BY <1>1, <2>2 DEF ToSet
      <4>2. first(lines[m]) \in 1 .. N /\ lines[first(lines[m])] = lines[m] /\ first(lines[m]) <= m
        BY <1>1, <4>1, FirstLineIs DEF lines
      <4> HIDE DEF first
      <4>3. ~(first(lines[m]) \in 1 .. n)
        BY <3>4, <4>2
      <4>4. QED
        BY <1>1, <2>2, <4>2, <4>3
    <3>6. \A d \in ToSet(out) : first(d.text) < m
      <4>1. ASSUME NEW d \in ToSet(out)
            PROVE  first(d.text) < m
        <5>1. PICK k \in 1 .. n : d.text = lines[k]
          BY <2>3
        <5>2. k \in 1 .. N /\ k < m /\ lines[k] \in ToSet(lines)
          BY <1>1, <2>2, <5>1 DEF ToSet
        <5>3. first(lines[k]) <= k /\ first(lines[k]) \in 1 .. N
          BY <1>1, <5>2, FirstLineIs DEF lines
        <5> HIDE DEF first
        <5>4. QED
          BY <1>1, <2>2, <5>1, <5>2, <5>3
      <4>2. QED
        BY <4>1
    <3>7. ASSUME NEW i \in DOMAIN more, NEW j \in DOMAIN more, i < j
          PROVE  first(more[i].text) < first(more[j].text)
      <4>1. /\ DOMAIN more = 1 .. Len(out) + 1 /\ DOMAIN out = 1 .. Len(out) /\ Len(out) \in Nat
            /\ more[Len(out) + 1] = e /\ \A k \in 1 .. Len(out) : more[k] = out[k]
        BY <2>5, <3>2
      <4> HIDE DEF more
      <4>2. i \in 1 .. Len(out) /\ more[i] = out[i] /\ out[i] \in ToSet(out)
        BY <3>7, <4>1 DEF ToSet
      <4>3. CASE j \in 1 .. Len(out)
        BY <2>3, <3>7, <4>1, <4>2, <4>3
      <4>4. CASE j = Len(out) + 1
        <5>1. more[j] = e /\ first(more[j].text) = m
          BY <2>5, <3>5, <4>1, <4>4
        <5>2. QED
          BY <3>6, <4>2, <5>1
      <4>5. QED
        BY <4>1, <4>3, <4>4
    <3> HIDE DEF more
    <3>8. Good(m, more)
      <4>1. \A d \in ToSet(more) : /\ d.session = s /\ d \notin yielded
                                   /\ \E k \in 1 .. m : d.text = lines[k]
        BY <2>2, <2>3, <2>5, <2>7, <3>3
      <4>2. \A k \in 1 .. m : event(k) \in yielded \cup ToSet(more)
        BY <2>2, <2>3, <3>3
      <4>3. QED
        BY <3>3, <3>7, <4>1, <4>2
    <3>9. QED
      BY <3>1, <3>8 DEF m
  <2>8. QED
    BY <2>6, <2>7
<1>12. Good(N, F[N])
  <2>1. N \in T
    <3> HIDE DEF T, N
    <3>1. QED
      BY <1>1, <1>10, <1>11, CountingUp
  <2> HIDE DEF Good
  <2>2. QED
    BY <1>1, <2>1
<1>13. \A t \in ToSet(lines) : \E k \in 1 .. N : t = lines[k]
  BY <1>1 DEF ToSet
<1>14. \A k \in 1 .. N : lines[k] \in ToSet(lines)
  BY <1>1 DEF ToSet
<1>15. QED
  BY <1>8, <1>12, <1>13, <1>14 DEF lines

-----------------------------------------------------------------------------
(* The state the proofs are about, and the steps as far as they change it *)

\* The chunks that were marked as seen; the chunks the consumer has had to do with.
Marked == Stored \cup lost \cup ({working[a] : a \in Callers} \ {Nothing})
Mine == Stored \cup lost \cup InHand("consumer") \cup skipped

\* Types; a caller that awaits nothing has nothing left to ingest.
Data ==
    /\ transcript \in [Session -> Seq(Text)]
    /\ yielded \subseteq Event /\ queue \in Seq(Event \cup {Done})
    /\ ready \in Ready /\ working \in Working /\ extracted \in [Callers -> Seq(Chunk)]
    /\ lost \cup skipped \subseteq Chunk
    /\ \A a \in Callers : working[a] = Nothing => ready[a] = <<>>

\* The accumulator between two calls: every event it absorbed is buffered or in a chunk
\* the consumer has had to do with, every content it emitted was taken up.
AccumulatorKept ==
    /\ accumulator = AtRest(accumulator) /\ Small(accumulator)
    /\ Sound(accumulator, EventsIn(Mine), TextsOf(Started))

\* A content is skipped when it was taken up, and marked when it was stored, lost or is
\* being extracted.
MarksKept == seen \subseteq TextsOf(Marked) /\ TextsOf(skipped) \subseteq TextsOf(Started)

\* Every chunk is within bounds.
ChunksFit == \A c \in Started \cup skipped : Fits(c.texts) /\ c.texts # <<>>

\* What was yielded is queued or was absorbed, and only that.
EventsKept == /\ yielded \subseteq ToSet(queue) \cup accumulator.absorbed
              /\ accumulator.absorbed \cup (ToSet(queue) \ {Done}) \subseteq yielded

\* A consumer that flushes or returned has emptied the buffers.
BuffersEmptied == consumer # "running" => \A s \in Session : accumulator.buffer[s] = <<>>

Kept == AccumulatorKept /\ MarksKept /\ ChunksFit /\ EventsKept /\ BuffersEmptied

\* Nothing moves but sentinels.
SentinelMoves ==
    \/ queue' = queue
    \/ queue' = Append(queue, Done)
    \/ queue # <<>> /\ Head(queue) = Done /\ queue' = Tail(queue)
Sentinels ==
    /\ SentinelMoves
    /\ UNCHANGED <<transcript, yielded, accumulator, consumer, serviceVars, storeVars,
                   restarts, mode>>

\* A file is parsed.
Yields(s) ==
    /\ Yield(s)
    /\ UNCHANGED <<transcript, accumulator, consumer, serviceVars, storeVars, restarts, mode>>

\* The consumer, still running, flushes; it loses what it had in hand.
ConsumerFlushes ==
    /\ SentinelMoves /\ consumer = "running" /\ FlushAndReturn
    /\ lost' = lost \cup InHand("consumer")
    /\ UNCHANGED <<transcript, yielded, extracted, restarts, mode>>

\* It gives up its flush.
Abandons ==
    /\ consumer # "running" /\ AbandonFlush
    /\ lost' = lost \cup InHand("consumer")
    /\ UNCHANGED <<transcript, yielded, queue, extracted, restarts, mode>>

\* Every step is one of these, or one of the actions that are named.
LEMMA StepKinds ==
    ASSUME [Next]_vars, Data
    PROVE  \/ Sentinels \/ ConsumerFlushes \/ Abandons \/ ConsumeEvent \/ HookFails \/ Restart
           \/ (\E s \in Session : \E t \in Text : WriteLine(s, t))
           \/ (\E s \in Session : Yields(s) \/ HookFlush(s))
           \/ (\E a \in Callers : Extracted(a))
<1> USE DEF Sentinels, SentinelMoves, serviceVars, storeVars
<1>1. CASE UNCHANGED vars
  BY <1>1 DEF vars, claudeVars, sourceVars, consumerVars
<1>2. CASE ClaudeCode
  BY <1>2 DEF ClaudeCode
<1>3. CASE Discover \/ EndCatchUp \/ WatcherFails
  BY <1>3 DEF Discover, EndCatchUp, WatcherFails, claudeVars, consumerVars
<1>4. CASE \E s \in Session : ParseFile(s) \/ ParseTouched(s)
  BY <1>4 DEF ParseFile, ParseTouched, Yields, claudeVars, consumerVars
<1>5. CASE \E p \in OtherSources : OtherEnds(p)
  BY <1>5 DEF OtherEnds, claudeVars, consumerVars
<1>6. CASE ConsumeEvent
  BY <1>6
<1>7. CASE ConsumeDone
  <2>1. /\ queue # <<>> /\ Head(queue) = Done /\ queue' = Tail(queue) /\ consumer = "running"
        /\ working["consumer"] = Nothing
    BY <1>7 DEF ConsumeDone, ConsumerIdle
  <2>2. InHand("consumer") = {}
    <3>1. ready["consumer"] = <<>>
      BY <2>1 DEF Data, Callers
    <3>2. QED
      BY <2>1, <3>1 DEF InHand, ToSet
  <2>3. CASE AllFinished(finished + 1)
    <3>1. /\ FlushAndReturn
          /\ UNCHANGED <<transcript, yielded, extracted, lost, restarts, mode>>
      BY <1>7, <2>3 DEF ConsumeDone, claudeVars, sourceVars
    <3>2. QED
      BY <2>1, <2>2, <3>1 DEF ConsumerFlushes
  <2>4. CASE ~ AllFinished(finished + 1)
    BY <1>7, <2>1, <2>4 DEF ConsumeDone, claudeVars, sourceVars
  <2>5. QED
    BY <2>3, <2>4
<1>8. CASE Extracted("consumer") \/ Extracted("hook")
  BY <1>8 DEF Callers
<1>9. CASE ConsumerFails
  <2>1. CASE consumer = "running"
    BY <1>9, <2>1 DEF ConsumerFails, ConsumerFlushes, claudeVars, sourceVars
  <2>2. CASE consumer # "running"
    BY <1>9, <2>2 DEF ConsumerFails, Abandons, claudeVars, sourceVars
  <2>3. QED
    BY <2>1, <2>2
<1>10. CASE HookFails
  BY <1>10
<1>11. CASE \E s \in Session : HookFlush(s)
  BY <1>11
<1>12. CASE EndLoop
  <2>1. CancelConsumer /\ UNCHANGED <<transcript, yielded, queue, restarts, mode>>
    BY <1>12 DEF EndLoop, claudeVars
  <2>2. CASE consumer = "returned"
    BY <2>1, <2>2 DEF CancelConsumer
  <2>3. CASE consumer = "running"
    BY <2>1, <2>3 DEF CancelConsumer, ConsumerFlushes
  <2>4. CASE consumer # "returned" /\ consumer # "running"
    BY <2>1, <2>4 DEF CancelConsumer, Abandons
  <2>5. QED
    BY <2>2, <2>3, <2>4
<1>13. CASE Restart
  BY <1>13
<1>14. QED
  BY <1>1, <1>2, <1>3, <1>4, <1>5, <1>6, <1>7, <1>8, <1>9, <1>10, <1>11, <1>12, <1>13
     DEF Next, Producers, Consumer, Hook

\* More may have been accounted for, and more taken up.
LEMMA SoundGrows ==
    ASSUME NEW acc, NEW past, NEW known, Sound(acc, past, known),
           NEW more, NEW further, past \subseteq more, known \subseteq further
    PROVE  Sound(acc, more, further)
  BY DEF Sound

\* Between two calls the chunks that left are elsewhere.
LEMMA RestSound ==
    ASSUME NEW acc, NEW past, NEW known, Sound(acc, past, known), Small(acc)
    PROVE  /\ AtRest(acc) = AtRest(AtRest(acc)) /\ Small(AtRest(acc))
           /\ AtRest(acc).absorbed = acc.absorbed /\ AtRest(acc).buffer = acc.buffer
           /\ Sound(AtRest(acc), past \cup EventsIn(Leaving(acc)),
                    known \cup TextsOf(ToSet(acc.completed)))
<1> DEFINE new == AtRest(acc)
<1>1. acc = [absorbed |-> acc.absorbed, buffer |-> acc.buffer, emitted |-> acc.emitted,
             completed |-> acc.completed, suppressed |-> acc.suppressed]
      /\ acc.absorbed \in SUBSET Event /\ acc.buffer \in [Session -> Seq(Text)]
      /\ acc.emitted \in SUBSET Seq(Text)
  BY DEF Sound, Accumulators
<1>2. new = [absorbed |-> acc.absorbed, buffer |-> acc.buffer, emitted |-> acc.emitted,
             completed |-> <<>>, suppressed |-> {}]
  <2> DEFINE absorbed == acc.absorbed
             buffers == acc.buffer
             texts == acc.emitted
             completed == acc.completed
             suppressed == acc.suppressed
             none == {}
             nobody == <<>>
  <2>1. new = [acc EXCEPT !.completed = nobody, !.suppressed = none]
    BY DEF AtRest
  <2>2. acc = [absorbed |-> absorbed, buffer |-> buffers, emitted |-> texts,
               completed |-> completed, suppressed |-> suppressed]
    BY <1>1
  <2> HIDE DEF absorbed, buffers, texts, completed, suppressed, none, nobody, new
  <2>3. new = [absorbed |-> absorbed, buffer |-> buffers, emitted |-> texts,
               completed |-> nobody, suppressed |-> none]
    BY <2>1, <2>2
  <2>4. QED
    BY <2>3 DEF absorbed, buffers, texts, none, nobody
<1>3. new = AtRest(new)
  BY <1>2 DEF AtRest
<1>4. /\ new.absorbed = acc.absorbed /\ new.buffer = acc.buffer /\ new.emitted = acc.emitted
      /\ new.completed = <<>> /\ new.suppressed = {}
  BY <1>2
<1>5. new \in Accumulators
  <2>1. <<>> \in Seq(Chunk)
    OBVIOUS
  <2>2. QED
    BY <1>1, <1>2, <2>1 DEF Accumulators
<1>6. Leaving(new) = {}
  BY <1>4 DEF Leaving, ToSet
<1> HIDE DEF new
<1>7. \A s : Held(new, s) = Held(acc, s)
  BY <1>4 DEF Held
<1>8. ASSUME NEW e \in Event
      PROVE  /\ Within(new, e) => Within(acc, e)
             /\ Within(acc, e) => Within(new, e) \/ e \in EventsIn(Leaving(acc))
  BY <1>6, <1>7 DEF Within, EventsIn
<1>9. /\ \A e \in Event : Within(new, e) => e \in new.absorbed
      /\ \A e \in new.absorbed : e \in past \cup EventsIn(Leaving(acc)) \/ Within(new, e)
  BY <1>1, <1>4, <1>8 DEF Sound
<1>10. \A x \in new.emitted : x \in known \cup TextsOf(ToSet(acc.completed))
  BY <1>4 DEF Sound, TextsOf
<1>11. \A s \in Session : Fits(new.buffer[s]) /\ Len(new.buffer[s]) < MaxMessages
  BY <1>4 DEF Sound, Small
<1>12. Sound(new, past \cup EventsIn(Leaving(acc)), known \cup TextsOf(ToSet(acc.completed)))
  BY <1>4, <1>5, <1>6, <1>9, <1>10, <1>11 DEF Sound
<1>13. QED
  BY <1>3, <1>4, <1>11, <1>12 DEF new, Small

\* What a caller has in hand.
LEMMA InHandTyped ==
    ASSUME Data, NEW a \in Callers
    PROVE  /\ InHand(a) \subseteq Chunk /\ ToSet(ready[a]) \subseteq InHand(a)
           /\ working[a] # Nothing => working[a] \in InHand(a)
           /\ working[a] = Nothing => InHand(a) = {}
<1>1. ready[a] \in Seq(Chunk) /\ working[a] \in Chunk \cup {Nothing}
  BY DEF Data, Ready, Working
<1>2. ToSet(ready[a]) \subseteq Chunk
  BY <1>1, HoldsOf
<1>3. ToSet(<<>>) = {}
  BY DEF ToSet
<1>4. QED
  BY <1>1, <1>2, <1>3 DEF InHand, Data

\* What was stored are chunks.
LEMMA StoredTyped ==
    ASSUME Data
    PROVE  /\ Stored \subseteq Chunk /\ Started \subseteq Chunk
           /\ \A c : c \in Stored <=> c \in ToSet(extracted["consumer"]) \/ c \in ToSet(extracted["hook"])
           /\ \A c : c \in Marked <=> \/ c \in Stored \cup lost
                                      \/ c # Nothing /\ (c = working["consumer"] \/ c = working["hook"])
           /\ Marked \subseteq Started
<1>1. Callers = {"consumer", "hook"}
  BY DEF Callers
<1>2. \A a \in Callers : ToSet(extracted[a]) \subseteq Chunk
  <2>1. \A a \in Callers : extracted[a] \in Seq(Chunk)
    BY DEF Data
  <2>2. QED
    BY <2>1, HoldsOf
<1>3. Stored = ToSet(extracted["consumer"]) \cup ToSet(extracted["hook"])
  BY <1>1 DEF Stored
<1>4. lost \subseteq Chunk
  BY DEF Data
<1>5. InHand("consumer") \subseteq Chunk /\ InHand("hook") \subseteq Chunk
  BY <1>1, InHandTyped
<1>6. Marked = Stored \cup lost \cup ({working["consumer"], working["hook"]} \ {Nothing})
  BY <1>1 DEF Marked
<1>7. Marked \subseteq Started
  BY <1>1, <1>6, InHandTyped DEF Started
<1>8. QED
  BY <1>1, <1>2, <1>3, <1>4, <1>5, <1>6, <1>7 DEF Started

\* The consumer goes on with what the accumulator hands it.
LEMMA ConsumerGoesOn ==
    ASSUME Data, Kept, NEW acc, Sound(acc, EventsIn(Mine), TextsOf(Started)), Small(acc),
           accumulator' = AtRest(acc), Proceed("consumer", acc.completed),
           skipped' = skipped \cup acc.suppressed \cup SkippedOf(acc.completed),
           lost' = lost \cup InHand("consumer"), extracted' = extracted
    PROVE  /\ ready' \in Ready /\ working' \in Working /\ lost' \cup skipped' \subseteq Chunk
           /\ \A a \in Callers : working'[a] = Nothing => ready'[a] = <<>>
           /\ AccumulatorKept' /\ MarksKept' /\ ChunksFit'
<1> DEFINE C == ToSet(acc.completed)
           SK == SkippedOf(acc.completed)
           H == InHand("consumer")
           K == InHand("hook")
           new == working'["consumer"]
<1>1. /\ acc \in Accumulators /\ acc.completed \in Seq(Chunk) /\ acc.suppressed \subseteq Chunk
      /\ Leaving(acc) = C \cup acc.suppressed /\ acc.emitted \subseteq TextsOf(Started) \cup TextsOf(C)
      /\ TextsOf(acc.suppressed) \subseteq acc.emitted
      /\ \A c \in Leaving(acc) : Fits(c.texts) /\ c.texts # <<>>
  BY DEF Sound, Accumulators, Leaving, TextsOf
<1>2. "consumer" \in Callers /\ "hook" \in Callers \ {"consumer"} /\ Callers = {"consumer", "hook"}
  BY DEF Callers
<1>3. ready \in Ready /\ working \in Working
  BY DEF Data
<1>4. /\ ready' \in Ready /\ working' \in Working
      /\ new = Nothing => ready'["consumer"] = <<>>
      /\ ready'["hook"] = ready["hook"] /\ working'["hook"] = working["hook"]
  BY <1>1, <1>2, <1>3, ProceedEffect
<1>5. /\ H' \cup SK = C /\ K' = K /\ TextsOf(SK) \subseteq seen
      /\ \/ new = Nothing /\ seen' = seen
         \/ new \in C /\ seen' = seen \cup {new.texts}
  BY <1>1, <1>2, <1>3, ProceedSets
<1>6. C \subseteq Chunk /\ H \subseteq Chunk
  BY <1>1, <1>2, HoldsOf, InHandTyped
<1>7. lost' \cup skipped' \subseteq Chunk
  BY <1>1, <1>5, <1>6 DEF Data
<1>8. Stored' = Stored
  BY DEF Stored
<1>9. Started' = Started \cup H'
  BY <1>5, <1>8 DEF Started
<1>10. Mine' = Mine \cup Leaving(acc)
  BY <1>1, <1>5, <1>8 DEF Mine
<1>11. Marked' = Stored \cup lost \cup H \cup ({new, working["hook"]} \ {Nothing})
  BY <1>2, <1>4, <1>8 DEF Marked
<1>12. Marked \subseteq Marked' /\ (new # Nothing => new \in Marked') /\ Marked \subseteq Started
  <2>1. working["consumer"] # Nothing => working["consumer"] \in H
    BY <1>2, InHandTyped
  <2>2. QED
    BY <1>11, <2>1, StoredTyped
<1>13. \A c : c \in Started' => TextsOf({c}) \subseteq TextsOf(Started')
  BY DEF TextsOf
<1>14. \A A, B : TextsOf(A \cup B) = TextsOf(A) \cup TextsOf(B) /\ (A \subseteq B => TextsOf(A) \subseteq TextsOf(B))
  BY DEF TextsOf
<1>15. seen \subseteq TextsOf(Marked) /\ TextsOf(Marked) \subseteq TextsOf(Started)
  BY <1>12, <1>14 DEF Kept, MarksKept
<1>16. seen' \subseteq TextsOf(Marked')
  <2>1. TextsOf(Marked) \subseteq TextsOf(Marked')
    BY <1>12, <1>14
  <2>2. CASE new = Nothing
    <3>1. Nothing \notin C
      BY <1>6, IngestAssumption DEF Chunk
    <3>2. seen' = seen
      BY <1>5, <2>2, <3>1
    <3>3. QED
      BY <1>15, <2>1, <3>2
  <2>3. CASE new # Nothing
    <3>1. new \in Marked' /\ seen' = seen \cup {new.texts}
      BY <1>5, <1>12, <2>3
    <3>2. new.texts \in TextsOf(Marked')
      BY <3>1 DEF TextsOf
    <3>3. QED
      BY <1>15, <2>1, <3>1, <3>2
  <2>4. QED
    BY <2>2, <2>3
<1>17. TextsOf(C) \subseteq TextsOf(Started') /\ TextsOf(Started) \subseteq TextsOf(Started')
  <2>1. TextsOf(Started') = TextsOf(Started) \cup TextsOf(H')
    BY <1>9, <1>14
  <2>2. TextsOf(C) = TextsOf(H') \cup TextsOf(SK)
    BY <1>5, <1>14
  <2>3. TextsOf(SK) \subseteq TextsOf(Started)
    BY <1>5, <1>15
  <2>4. QED
    BY <2>1, <2>2, <2>3
<1>18. TextsOf(skipped') \subseteq TextsOf(Started')
  <2>1. TextsOf(skipped') = TextsOf(skipped) \cup TextsOf(acc.suppressed) \cup TextsOf(SK)
    <3>1. TextsOf(skipped') = TextsOf(skipped \cup acc.suppressed) \cup TextsOf(SK)
      <4>1. skipped' = (skipped \cup acc.suppressed) \cup SK
        OBVIOUS
      <4> HIDE DEF SK
      <4>2. QED
        BY <1>14, <4>1
    <3>2. TextsOf(skipped \cup acc.suppressed) = TextsOf(skipped) \cup TextsOf(acc.suppressed)
      BY <1>14
    <3>3. QED
      BY <3>1, <3>2
  <2>2. TextsOf(skipped) \subseteq TextsOf(Started)
    BY DEF Kept, MarksKept
  <2>3. QED
    BY <1>1, <1>5, <1>15, <1>17, <2>1, <2>2
<1>19. MarksKept'
  BY <1>16, <1>18 DEF MarksKept
<1>20. ChunksFit'
  <2>1. Started' \cup skipped' \subseteq Started \cup skipped \cup Leaving(acc)
    BY <1>1, <1>5, <1>9
  <2>2. QED
    BY <1>1, <2>1 DEF Kept, ChunksFit
<1>21. AccumulatorKept'
  <2>1. /\ AtRest(acc) = AtRest(AtRest(acc)) /\ Small(AtRest(acc))
        /\ Sound(AtRest(acc), EventsIn(Mine) \cup EventsIn(Leaving(acc)),
                 TextsOf(Started) \cup TextsOf(C))
    BY RestSound
  <2>2. EventsIn(Mine) \cup EventsIn(Leaving(acc)) \subseteq EventsIn(Mine')
    BY <1>10 DEF EventsIn
  <2>3. TextsOf(Started) \cup TextsOf(C) \subseteq TextsOf(Started')
    BY <1>17
  <2> HIDE DEF C
  <2>4. Sound(AtRest(acc), EventsIn(Mine'), TextsOf(Started'))
    BY <2>1, <2>2, <2>3, SoundGrows
  <2>5. QED
    BY <2>1, <2>4 DEF AccumulatorKept
<1>22. \A a \in Callers : working'[a] = Nothing => ready'[a] = <<>>
  BY <1>2, <1>4 DEF Data
<1>23. QED
  BY <1>4, <1>7, <1>19, <1>20, <1>21, <1>22

\* A caller stores what it awaited, if anything, and goes on with chunks.
LEMMA CallerGoesOn ==
    ASSUME Data, Kept, NEW a \in Callers, NEW chunks \in Seq(Chunk), Proceed(a, chunks),
           ToSet(ready[a]) \subseteq ToSet(chunks),
           \A c \in ToSet(chunks) : Fits(c.texts) /\ c.texts # <<>>,
           skipped' = skipped \cup SkippedOf(chunks), lost' = lost,
           Stored' = Stored \cup ({working[a]} \ {Nothing}), accumulator' = accumulator
    PROVE  /\ ready' \in Ready /\ working' \in Working /\ lost' \cup skipped' \subseteq Chunk
           /\ \A b \in Callers : working'[b] = Nothing => ready'[b] = <<>>
           /\ AccumulatorKept' /\ MarksKept' /\ ChunksFit'
<1> DEFINE C == ToSet(chunks)
           SK == SkippedOf(chunks)
           new == working'[a]
           H(b) == InHand(b)
<1>1. PICK b \in Callers : b # a /\ Callers = {a, b}
  BY DEF Callers
<1>2. ready \in Ready /\ working \in Working
  BY DEF Data
<1>3. /\ ready' \in Ready /\ working' \in Working
      /\ new = Nothing => ready'[a] = <<>>
      /\ ready'[b] = ready[b] /\ working'[b] = working[b]
  BY <1>1, <1>2, ProceedEffect
<1>4. /\ InHand(a)' \cup SK = C /\ InHand(b)' = InHand(b) /\ TextsOf(SK) \subseteq seen
      /\ \/ new = Nothing /\ seen' = seen
         \/ new \in C /\ seen' = seen \cup {new.texts}
  BY <1>1, <1>2, ProceedSets
<1>5. C \subseteq Chunk /\ Nothing \notin C
  <2>1. C \subseteq Chunk
    BY HoldsOf
  <2>2. QED
    BY <2>1, IngestAssumption DEF Chunk
<1>6. InHand("consumer") \cup InHand("hook") = InHand(a) \cup InHand(b)
      /\ (InHand("consumer") \cup InHand("hook"))' = InHand(a)' \cup InHand(b)'
  <2>1. (a = "consumer" /\ b = "hook") \/ (a = "hook" /\ b = "consumer")
    BY <1>1 DEF Callers
  <2>2. QED
    BY <2>1
<1>7. Started = Stored \cup lost \cup InHand(a) \cup InHand(b)
      /\ Started' = Stored' \cup lost' \cup InHand(a)' \cup InHand(b)'
  BY <1>6 DEF Started
<1>8. InHand(a) = ToSet(ready[a]) \cup ({working[a]} \ {Nothing})
  BY DEF InHand
<1>9. Started \subseteq Started' \cup SK /\ Started' \cup SK = Started \cup C
  BY <1>4, <1>7, <1>8
<1>10. Marked = Stored \cup lost \cup ({working[a], working[b]} \ {Nothing})
       /\ Marked' = Stored' \cup lost' \cup ({new, working[b]} \ {Nothing})
  BY <1>1, <1>3 DEF Marked
<1>11. Marked \subseteq Marked' /\ (new # Nothing => new \in Marked')
  BY <1>10
<1>12. Marked' \subseteq Started' /\ Marked \subseteq Started
  <2>1. \A x \in Callers : working'[x] # Nothing => working'[x] \in InHand(x)'
    BY DEF InHand
  <2>2. \A x \in Callers : working[x] # Nothing => working[x] \in InHand(x)
    BY DEF InHand
  <2>3. QED
    BY <1>1, <1>3, <1>7, <1>10, <2>1, <2>2
<1>13. \A A, B : TextsOf(A \cup B) = TextsOf(A) \cup TextsOf(B) /\ (A \subseteq B => TextsOf(A) \subseteq TextsOf(B))
  BY DEF TextsOf
<1>14. seen \subseteq TextsOf(Marked) /\ TextsOf(skipped) \subseteq TextsOf(Started)
  BY DEF Kept, MarksKept
<1>15. TextsOf(Marked) \subseteq TextsOf(Marked') /\ TextsOf(Marked') \subseteq TextsOf(Started')
  BY <1>11, <1>12, <1>13
<1>16. seen' \subseteq TextsOf(Marked')
  <2>1. CASE new = Nothing
    BY <1>4, <1>5, <1>14, <1>15, <2>1
  <2>2. CASE new # Nothing
    <3>1. new.texts \in TextsOf(Marked') /\ seen' = seen \cup {new.texts}
      BY <1>4, <1>11, <2>2 DEF TextsOf
    <3>2. QED
      BY <1>14, <1>15, <3>1
  <2>3. QED
    BY <2>1, <2>2
<1>17. TextsOf(Started) \subseteq TextsOf(Started') /\ TextsOf(SK) \subseteq TextsOf(Started')
  <2>1. TextsOf(SK) \subseteq TextsOf(Started')
    BY <1>4, <1>14, <1>15
  <2>2. TextsOf(Started' \cup SK) = TextsOf(Started') \cup TextsOf(SK)
    BY <1>13
  <2>3. TextsOf(Started) \subseteq TextsOf(Started' \cup SK)
    BY <1>9, <1>13
  <2>4. QED
    BY <2>1, <2>2, <2>3
<1>18. TextsOf(skipped') \subseteq TextsOf(Started')
  <2>1. TextsOf(skipped') = TextsOf(skipped) \cup TextsOf(SK)
    BY <1>13
  <2>2. QED
    BY <1>14, <1>17, <2>1
<1>19. ChunksFit'
  <2>1. Started' \cup skipped' \subseteq Started \cup skipped \cup C
    BY <1>4, <1>9
  <2>2. QED
    BY <2>1 DEF Kept, ChunksFit
<1>20. Mine \subseteq Mine'
  <2>1. InHand("consumer") \subseteq Stored' \cup InHand("consumer")' \cup SK
    <3>1. CASE a = "consumer"
      BY <1>4, <1>8, <3>1
    <3>2. CASE a = "hook"
      BY <1>1, <1>4, <3>2 DEF Callers
    <3>3. QED
      BY <3>1, <3>2 DEF Callers
  <2>2. QED
    BY <2>1 DEF Mine
<1>21. AccumulatorKept'
  <2>1. /\ accumulator = AtRest(accumulator) /\ Small(accumulator)
        /\ Sound(accumulator, EventsIn(Mine), TextsOf(Started))
    BY DEF Kept, AccumulatorKept
  <2>2. EventsIn(Mine) \subseteq EventsIn(Mine')
    BY <1>20 DEF EventsIn
  <2>3. Sound(accumulator, EventsIn(Mine'), TextsOf(Started'))
    BY <1>17, <2>1, <2>2, SoundGrows
  <2>4. QED
    BY <2>1, <2>3 DEF AccumulatorKept
<1>22. lost' \cup skipped' \subseteq Chunk
  BY <1>4, <1>5 DEF Data
<1>23. \A x \in Callers : working'[x] = Nothing => ready'[x] = <<>>
  BY <1>1, <1>3 DEF Data
<1>24. QED
  BY <1>3, <1>16, <1>18, <1>19, <1>21, <1>22, <1>23 DEF MarksKept

\* A caller gives up what it has in hand.
LEMMA CallerGivesUp ==
    ASSUME Data, Kept, NEW a \in Callers, lost' = lost \cup InHand(a),
           ready' = [ready EXCEPT ![a] = <<>>], working' = [working EXCEPT ![a] = Nothing],
           UNCHANGED <<extracted, skipped, seen, accumulator>>
    PROVE  /\ ready' \in Ready /\ working' \in Working /\ lost' \cup skipped' \subseteq Chunk
           /\ \A b \in Callers : working'[b] = Nothing => ready'[b] = <<>>
           /\ AccumulatorKept' /\ MarksKept' /\ ChunksFit'
<1>1. PICK b \in Callers : b # a /\ Callers = {a, b}
  BY DEF Callers
<1>2. ready \in Ready /\ working \in Working
  BY DEF Data
<1>3. /\ ready' \in Ready /\ working' \in Working
      /\ ready'[a] = <<>> /\ working'[a] = Nothing
      /\ ready'[b] = ready[b] /\ working'[b] = working[b]
  <2>1. <<>> \in Seq(Chunk)
    OBVIOUS
  <2>2. QED
    BY <1>1, <1>2, <2>1 DEF Ready, Working
<1>4. InHand(a)' = {} /\ InHand(b)' = InHand(b)
  <2>1. ToSet(<<>>) = {}
    BY DEF ToSet
  <2>2. QED
    BY <1>3, <2>1 DEF InHand
<1>5. (a = "consumer" /\ b = "hook") \/ (a = "hook" /\ b = "consumer")
  BY <1>1 DEF Callers
<1>6. Stored' = Stored
  BY DEF Stored
<1>7. Started' = Started /\ Mine \subseteq Mine'
  BY <1>4, <1>5, <1>6 DEF Started, Mine
<1>8. Marked \subseteq Marked'
  <2>1. working[a] # Nothing => working[a] \in InHand(a)
    BY InHandTyped
  <2>2. Marked = Stored \cup lost \cup ({working[a], working[b]} \ {Nothing})
        /\ Marked' = Stored \cup lost' \cup ({working'[a], working'[b]} \ {Nothing})
    BY <1>1, <1>6 DEF Marked
  <2>3. QED
    BY <1>3, <2>1, <2>2
<1>9. MarksKept' /\ ChunksFit'
  <2>1. TextsOf(Marked) \subseteq TextsOf(Marked')
    BY <1>8 DEF TextsOf
  <2>2. QED
    BY <1>7, <2>1 DEF Kept, MarksKept, ChunksFit
<1>10. AccumulatorKept'
  <2>1. /\ accumulator = AtRest(accumulator) /\ Small(accumulator)
        /\ Sound(accumulator, EventsIn(Mine), TextsOf(Started))
    BY DEF Kept, AccumulatorKept
  <2>2. EventsIn(Mine) \subseteq EventsIn(Mine') /\ TextsOf(Started) \subseteq TextsOf(Started')
    BY <1>7 DEF EventsIn
  <2>3. Sound(accumulator, EventsIn(Mine'), TextsOf(Started'))
    BY <2>1, <2>2, SoundGrows
  <2>4. QED
    BY <2>1, <2>3 DEF AccumulatorKept
<1>11. lost' \cup skipped' \subseteq Chunk
  BY InHandTyped DEF Data
<1>12. \A x \in Callers : working'[x] = Nothing => ready'[x] = <<>>
  BY <1>1, <1>3 DEF Data
<1>13. QED
  BY <1>3, <1>9, <1>10, <1>11, <1>12

\* Sentinels carry no events.
LEMMA SentinelsCarryNothing ==
    ASSUME SentinelMoves, queue \in Seq(Event \cup {Done})
    PROVE  queue' \in Seq(Event \cup {Done}) /\ ToSet(queue') \ {Done} = ToSet(queue) \ {Done}
<1>1. CASE queue' = queue
  BY <1>1
<1>2. CASE queue' = Append(queue, Done)
  BY <1>2, HoldsOf
<1>3. CASE queue # <<>> /\ Head(queue) = Done /\ queue' = Tail(queue)
  <2>1. ToSet(queue) = {Done} \cup ToSet(queue') /\ queue' \in Seq(Event \cup {Done})
    BY <1>3, HoldsOf
  <2>2. QED
    BY <2>1
<1>4. QED
  BY <1>1, <1>2, <1>3 DEF SentinelMoves

\* A flush keeps an accumulator sound.
LEMMA FlushSound ==
    ASSUME NEW acc, NEW past, NEW known, Sound(acc, past, known), NEW new \in Flushed(acc)
    PROVE  /\ Sound(new, past, known) /\ new.absorbed = acc.absorbed
           /\ \A s \in Session : new.buffer[s] = <<>>
           /\ Small(new)
<1> DEFINE A == {a \in Accumulators : Sound(a, past, known)}
<1>1. A \subseteq Accumulators /\ acc \in A
  BY DEF Sound
<1>2. \A a \in A : \A s \in Session : Emit(a, s) \in A
  BY EmitSound, EmitEffect
<1>3. \A a \in A : Sound(a, past, known)
  OBVIOUS
<1> HIDE DEF A
<1>4. PICK order \in SetToSeqs(Session) : new = EmitAll(acc, order)
  BY DEF Flushed
<1>5. new \in A /\ new.absorbed = acc.absorbed /\ \A s \in Session : new.buffer[s] = <<>>
  BY <1>1, <1>2, <1>4, EmitAllStays
<1>6. Small(new)
  <2>1. Len(<<>>) < MaxMessages
    BY IngestAssumption
  <2>2. QED
    BY <1>5, <2>1 DEF Small
<1>7. QED
  BY <1>3, <1>5, <1>6

\* What the store and the service hold is the same when their variables are.
LEMMA SameChunks ==
    ASSUME UNCHANGED <<ready, working, extracted, lost, skipped, seen, accumulator>>
    PROVE  /\ Started' = Started /\ Mine' = Mine /\ Marked' = Marked
           /\ AccumulatorKept' = AccumulatorKept /\ MarksKept' = MarksKept
           /\ ChunksFit' = ChunksFit
<1>1. Stored' = Stored /\ \A a : InHand(a)' = InHand(a)
  BY DEF Stored, InHand
<1>2. Started' = Started /\ Mine' = Mine /\ Marked' = Marked
  BY <1>1 DEF Started, Mine, Marked
<1>3. QED
  BY <1>2 DEF AccumulatorKept, MarksKept, ChunksFit

\* Steps that move sentinels, or add lines or events, keep what is held.
LEMMA OutsideKeeps ==
    ASSUME Data, Kept,
           \/ Sentinels
           \/ \E s \in Session : \E t \in Text : WriteLine(s, t)
           \/ \E s \in Session : Yields(s)
    PROVE  Data' /\ Kept'
<1>1. /\ UNCHANGED <<ready, working, extracted, lost, skipped, seen, accumulator>>
      /\ consumer' = consumer
  BY DEF Sentinels, Yields, WriteLine, serviceVars, storeVars, consumerVars
<1>2. AccumulatorKept' /\ MarksKept' /\ ChunksFit'
  BY <1>1, SameChunks DEF Kept
<1>3. BuffersEmptied'
  BY <1>1 DEF Kept, BuffersEmptied
<1>4. \A e \in Event : e # Done
  BY IngestAssumption DEF Event
<1>5. CASE Sentinels
  <2>1. queue' \in Seq(Event \cup {Done}) /\ ToSet(queue') \ {Done} = ToSet(queue) \ {Done}
    BY <1>5, SentinelsCarryNothing DEF Sentinels, Data
  <2>2. UNCHANGED <<transcript, yielded>>
    BY <1>5 DEF Sentinels
  <2>3. EventsKept'
    BY <1>1, <1>4, <2>1, <2>2 DEF Kept, EventsKept, Data
  <2>4. Data'
    BY <1>1, <2>1, <2>2 DEF Data
  <2>5. QED
    BY <1>2, <1>3, <2>3, <2>4 DEF Kept
<1>6. CASE \E s \in Session : \E t \in Text : WriteLine(s, t)
  <2>1. PICK s \in Session : \E t \in Text : WriteLine(s, t)
    BY <1>6
  <2>2. PICK t \in Text : WriteLine(s, t)
    BY <2>1
  <2>3. PICK k \in 1 .. Len(transcript[s]) + 1 :
          transcript' = [transcript EXCEPT ![s] = InsertAt(@, k, t)]
    BY <2>2 DEF WriteLine
  <2>4. UNCHANGED <<queue, yielded>>
    BY <2>2 DEF WriteLine, sourceVars
  <2>5. transcript[s] \in Seq(Text) /\ transcript \in [Session -> Seq(Text)]
    BY DEF Data
  <2>6. InsertAt(transcript[s], k, t) \in Seq(Text)
    <3> DEFINE lines == transcript[s]
    <3>1. /\ SubSeq(lines, 1, k - 1) \in Seq(Text)
          /\ SubSeq(lines, k, Len(lines)) \in Seq(Text)
      BY <2>5
    <3>2. QED
      BY <3>1 DEF InsertAt
  <2>7. transcript' \in [Session -> Seq(Text)]
    BY <2>3, <2>5, <2>6
  <2>8. Data' /\ EventsKept'
    BY <1>1, <2>4, <2>7 DEF Data, Kept, EventsKept
  <2>9. QED
    BY <1>2, <1>3, <2>8 DEF Kept
<1>7. CASE \E s \in Session : Yields(s)
  <2>1. PICK s \in Session : Yields(s)
    BY <1>7
  <2> DEFINE new == FreshEvents(s)
  <2>2. transcript[s] \in Seq(Text)
    BY DEF Data
  <2>3. new \in Seq(Event)
    BY <2>2, FreshEventsAre
  <2>4. /\ queue' = queue \o new /\ yielded' = yielded \cup ToSet(new)
        /\ transcript' = transcript
    BY <2>1 DEF Yields, Yield
  <2> HIDE DEF new
  <2>5. /\ new \in Seq(Event \cup {Done}) /\ ToSet(new) \subseteq Event
    BY <2>3, HoldsOf
  <2>6. ToSet(queue') = ToSet(queue) \cup ToSet(new)
    BY <2>4, <2>5, HoldsOf DEF Data
  <2>7. queue' \in Seq(Event \cup {Done})
    BY <2>4, <2>5 DEF Data
  <2>8. Data' /\ EventsKept'
    BY <1>1, <1>4, <2>4, <2>5, <2>6, <2>7 DEF Data, Kept, EventsKept
  <2>9. QED
    BY <1>2, <1>3, <2>8 DEF Kept
<1>8. QED
  BY <1>5, <1>6, <1>7

\* An event absorbed is accounted for.
LEMMA ConsumeKeeps ==
    ASSUME Data, Kept, ConsumeEvent
    PROVE  Data' /\ Kept'
<1> DEFINE e == Head(queue)
           acc == Add(accumulator, e)
<1>1. /\ queue # <<>> /\ e # Done /\ queue' = Tail(queue) /\ consumer = "running"
      /\ working["consumer"] = Nothing /\ accumulator' = AtRest(acc)
      /\ Proceed("consumer", acc.completed) /\ consumer' = "running"
      /\ skipped' = skipped \cup acc.suppressed \cup SkippedOf(acc.completed)
      /\ UNCHANGED <<transcript, yielded, extracted, lost>>
  BY DEF ConsumeEvent, ConsumerIdle, ConsumerProceeds, claudeVars, sourceVars, storeVars
<1>2. /\ ToSet(queue) = {e} \cup ToSet(queue') /\ queue' \in Seq(Event \cup {Done})
      /\ e \in Event
  <2>1. queue \in Seq(Event \cup {Done})
    BY DEF Data
  <2>2. ToSet(queue) = {e} \cup ToSet(queue') /\ queue' \in Seq(Event \cup {Done})
        /\ ToSet(queue) \subseteq Event \cup {Done}
    BY <1>1, <2>1, HoldsOf
  <2>3. QED
    BY <1>1, <2>2
<1>3. /\ Sound(accumulator, EventsIn(Mine), TextsOf(Started)) /\ Small(accumulator)
  BY DEF Kept, AccumulatorKept
<1>4. /\ Sound(acc, EventsIn(Mine), TextsOf(Started)) /\ Small(acc)
      /\ acc.absorbed = accumulator.absorbed \cup {e}
  BY <1>2, <1>3, AddSound
<1>5. lost' = lost \cup InHand("consumer")
  BY <1>1, InHandTyped DEF Callers
<1> HIDE DEF acc, e
<1>6. /\ ready' \in Ready /\ working' \in Working /\ lost' \cup skipped' \subseteq Chunk
      /\ \A a \in Callers : working'[a] = Nothing => ready'[a] = <<>>
      /\ AccumulatorKept' /\ MarksKept' /\ ChunksFit'
  BY <1>1, <1>4, <1>5, ConsumerGoesOn
<1>7. accumulator'.absorbed = accumulator.absorbed \cup {e}
  BY <1>1, <1>4, RestSound
<1>8. EventsKept'
  BY <1>1, <1>2, <1>7 DEF Kept, EventsKept
<1>9. Data'
  BY <1>1, <1>2, <1>6 DEF Data
<1>10. BuffersEmptied'
  BY <1>1 DEF BuffersEmptied
<1>11. QED
  BY <1>6, <1>8, <1>9, <1>10 DEF Kept

\* So is every event when the consumer flushes, and no buffer holds one afterwards.
LEMMA FlushKeeps ==
    ASSUME Data, Kept, ConsumerFlushes
    PROVE  Data' /\ Kept' /\ consumer' \in {"flushing", "returned"}
           /\ \A s \in Session : accumulator'.buffer[s] = <<>>
<1>1. /\ UNCHANGED <<transcript, yielded, extracted>> /\ lost' = lost \cup InHand("consumer")
      /\ SentinelMoves
  BY DEF ConsumerFlushes
<1>2. PICK acc \in Flushed(accumulator) :
        /\ accumulator' = AtRest(acc) /\ ConsumerProceeds("flushing", acc.completed)
        /\ skipped' = skipped \cup acc.suppressed \cup SkippedOf(acc.completed)
  BY DEF ConsumerFlushes, FlushAndReturn
<1>3. Proceed("consumer", acc.completed) /\ consumer' \in {"flushing", "returned"}
  BY <1>2 DEF ConsumerProceeds
<1>4. /\ Sound(accumulator, EventsIn(Mine), TextsOf(Started)) /\ Small(accumulator)
  BY DEF Kept, AccumulatorKept
<1>5. /\ Sound(acc, EventsIn(Mine), TextsOf(Started)) /\ Small(acc)
      /\ acc.absorbed = accumulator.absorbed /\ \A s \in Session : acc.buffer[s] = <<>>
  BY <1>4, FlushSound
<1>6. /\ ready' \in Ready /\ working' \in Working /\ lost' \cup skipped' \subseteq Chunk
      /\ \A a \in Callers : working'[a] = Nothing => ready'[a] = <<>>
      /\ AccumulatorKept' /\ MarksKept' /\ ChunksFit'
  BY <1>1, <1>2, <1>3, <1>5, ConsumerGoesOn
<1>7. accumulator'.absorbed = accumulator.absorbed /\ accumulator'.buffer = acc.buffer
  BY <1>2, <1>5, RestSound
<1>8. queue' \in Seq(Event \cup {Done}) /\ ToSet(queue') \ {Done} = ToSet(queue) \ {Done}
  BY <1>1, SentinelsCarryNothing DEF Data
<1>9. \A e \in Event : e # Done
  BY IngestAssumption DEF Event
<1>10. EventsKept'
  BY <1>1, <1>7, <1>8, <1>9 DEF Kept, EventsKept, Data
<1>11. Data'
  BY <1>1, <1>6, <1>8 DEF Data
<1>12. \A s \in Session : accumulator'.buffer[s] = <<>>
  BY <1>5, <1>7
<1>13. BuffersEmptied'
  BY <1>12 DEF BuffersEmptied
<1>14. QED
  BY <1>3, <1>6, <1>10, <1>11, <1>12, <1>13 DEF Kept

\* Extractions that end, and callers that give up, keep what is held.
LEMMA CallersKeep ==
    ASSUME Data, Kept,
           \/ \E a \in Callers : Extracted(a)
           \/ \E s \in Session : HookFlush(s)
           \/ HookFails
           \/ Abandons
    PROVE  Data' /\ Kept' /\ consumer' \in {consumer, "returned"}
           /\ (consumer = "running" => consumer' = "running")
<1>1. UNCHANGED <<transcript, yielded, queue, accumulator>>
  BY DEF Extracted, HookFlush, HookFails, Abandons, AbandonFlush, claudeVars, sourceVars,
         consumerVars
<1>2. /\ consumer' \in {consumer, "returned"} /\ (consumer = "running" => consumer' = "running")
  BY DEF Extracted, HookFlush, HookFails, Abandons, AbandonFlush, consumerVars,
         ConsumerProceeds, Callers
<1>3. EventsKept' /\ BuffersEmptied'
  <2>1. EventsKept'
    BY <1>1 DEF Kept, EventsKept
  <2>2. BuffersEmptied'
    BY <1>1, <1>2 DEF Kept, BuffersEmptied
  <2>3. QED
    BY <2>1, <2>2
<1>4. /\ ready' \in Ready /\ working' \in Working /\ lost' \cup skipped' \subseteq Chunk
      /\ \A a \in Callers : working'[a] = Nothing => ready'[a] = <<>>
      /\ AccumulatorKept' /\ MarksKept' /\ ChunksFit'
      /\ extracted' \in [Callers -> Seq(Chunk)]
  <2>1. CASE \E a \in Callers : Extracted(a)
    <3>1. PICK a \in Callers : Extracted(a)
      BY <2>1
    <3>2. /\ working[a] # Nothing /\ extracted' = [extracted EXCEPT ![a] = Append(@, working[a])]
          /\ skipped' = skipped \cup SkippedOf(ready[a]) /\ lost' = lost
          /\ Proceed(a, ready[a])
      BY <3>1 DEF Extracted, ConsumerProceeds
    <3>3. working[a] \in Chunk /\ ready[a] \in Seq(Chunk) /\ extracted[a] \in Seq(Chunk)
          /\ extracted \in [Callers -> Seq(Chunk)]
      BY <3>2 DEF Data, Ready, Working
    <3>4. /\ extracted' \in [Callers -> Seq(Chunk)]
          /\ ToSet(extracted'[a]) = ToSet(extracted[a]) \cup {working[a]}
          /\ \A b \in Callers \ {a} : extracted'[b] = extracted[b]
      BY <3>2, <3>3, HoldsOf
    <3>5. Stored' = Stored \cup ({working[a]} \ {Nothing})
      <4>1. Stored = UNION {ToSet(extracted[b]) : b \in Callers}
            /\ Stored' = UNION {ToSet(extracted'[b]) : b \in Callers}
        BY DEF Stored
      <4>2. PICK b \in Callers : b # a /\ Callers = {a, b}
        BY DEF Callers
      <4>3. Stored = ToSet(extracted[a]) \cup ToSet(extracted[b])
            /\ Stored' = ToSet(extracted'[a]) \cup ToSet(extracted'[b])
        BY <4>1, <4>2
      <4>4. QED
        BY <3>2, <3>4, <4>2, <4>3
    <3>6. \A c \in ToSet(ready[a]) : Fits(c.texts) /\ c.texts # <<>>
      <4>1. ToSet(ready[a]) \subseteq Started
        BY InHandTyped DEF Started, Callers
      <4>2. QED
        BY <4>1 DEF Kept, ChunksFit
    <3>7. QED
      BY <1>1, <3>2, <3>3, <3>4, <3>5, <3>6, CallerGoesOn
  <2>2. CASE \E s \in Session : HookFlush(s)
    <3>1. PICK s \in Session : HookFlush(s)
      BY <2>2
    <3> DEFINE acc == ChunkEvents(s, transcript[s])
    <3>2. /\ working["hook"] = Nothing /\ Proceed("hook", acc.completed)
          /\ skipped' = skipped \cup SkippedOf(acc.completed)
          /\ lost' = lost /\ extracted' = extracted
      BY <3>1 DEF HookFlush, storeVars
    <3>3. transcript[s] \in Seq(Text)
      BY DEF Data
    <3>4. Sound(acc, Event, Seq(Text))
      BY <3>3, ChunkEventsSound
    <3>5. acc.completed \in Seq(Chunk)
          /\ \A c \in ToSet(acc.completed) : Fits(c.texts) /\ c.texts # <<>>
      BY <3>4 DEF Sound, Accumulators, Leaving
    <3> HIDE DEF acc
    <3>6. "hook" \in Callers /\ ready["hook"] = <<>> /\ ToSet(<<>>) = {}
      BY <3>2 DEF Data, Callers, ToSet
    <3>7. Stored' = Stored \cup ({working["hook"]} \ {Nothing})
      BY <3>2 DEF Stored
    <3>8. extracted' \in [Callers -> Seq(Chunk)]
      BY <3>2 DEF Data
    <3>9. ToSet(ready["hook"]) \subseteq ToSet(acc.completed)
      BY <3>6
    <3>10. QED
      BY <1>1, <3>2, <3>5, <3>6, <3>7, <3>8, <3>9, CallerGoesOn
  <2>3. CASE HookFails
    <3>1. /\ lost' = lost \cup InHand("hook") /\ "hook" \in Callers
          /\ ready' = [ready EXCEPT !["hook"] = <<>>]
          /\ working' = [working EXCEPT !["hook"] = Nothing]
          /\ UNCHANGED <<extracted, skipped, seen, accumulator>>
      BY <1>1, <2>3 DEF HookFails, Callers
    <3>2. extracted' \in [Callers -> Seq(Chunk)]
      BY <3>1 DEF Data
    <3>3. QED
      BY <3>1, <3>2, CallerGivesUp
  <2>4. CASE Abandons
    <3>1. /\ lost' = lost \cup InHand("consumer") /\ "consumer" \in Callers
          /\ ready' = [ready EXCEPT !["consumer"] = <<>>]
          /\ working' = [working EXCEPT !["consumer"] = Nothing]
          /\ UNCHANGED <<extracted, skipped, seen, accumulator>>
      BY <1>1, <2>4 DEF Abandons, AbandonFlush, Callers
    <3>2. extracted' \in [Callers -> Seq(Chunk)]
      BY <3>1 DEF Data
    <3>3. QED
      BY <3>1, <3>2, CallerGivesUp
  <2>5. QED
    BY <2>1, <2>2, <2>3, <2>4
<1>5. Data'
  BY <1>1, <1>4 DEF Data
<1>6. QED
  BY <1>2, <1>3, <1>4, <1>5 DEF Kept

\* A restart keeps what is stored, and nothing else.
LEMMA RestartKeeps ==
    ASSUME Data, Kept, Restart
    PROVE  Data' /\ Kept'
<1>1. /\ queue' = <<>> /\ yielded' = {} /\ accumulator' = EmptyAccumulator /\ consumer' = "running"
      /\ ready' = [a \in Callers |-> <<>>] /\ working' = [a \in Callers |-> Nothing]
      /\ seen' = {} /\ lost' = {} /\ skipped' = {} /\ UNCHANGED <<transcript, extracted>>
  BY DEF Restart
<1>2. ready' \in Ready /\ working' \in Working
      /\ \A a \in Callers : ready'[a] = <<>> /\ working'[a] = Nothing
  <2>1. <<>> \in Seq(Chunk)
    OBVIOUS
  <2>2. QED
    BY <1>1, <2>1 DEF Ready, Working
<1>3. <<>> \in Seq(Event \cup {Done}) /\ ToSet(<<>>) = {}
  BY DEF ToSet
<1>4. Data'
  BY <1>1, <1>2, <1>3 DEF Data
<1>5. Stored' = Stored /\ \A a \in Callers : InHand(a)' = {}
  BY <1>1, <1>2, <1>3 DEF Stored, InHand
<1>6. Started' = Stored
  BY <1>1, <1>5 DEF Started, Callers
<1>7. MarksKept'
  BY <1>1, <1>6 DEF MarksKept, TextsOf
<1>8. ChunksFit'
  <2>1. Stored \subseteq Started
    BY DEF Started
  <2>2. QED
    BY <1>1, <1>6, <2>1 DEF ChunksFit, Kept
<1>9. EmptyAccumulator = AtRest(EmptyAccumulator) /\ EmptyAccumulator.absorbed = {}
  BY EmptyRests
<1>10. AccumulatorKept' /\ EventsKept'
  <2>1. Sound(EmptyAccumulator, EventsIn(Mine'), TextsOf(Started')) /\ Small(EmptyAccumulator)
    BY EmptySound
  <2>2. QED
    BY <1>1, <1>3, <1>9, <2>1 DEF AccumulatorKept, EventsKept
<1>11. BuffersEmptied'
  BY <1>1 DEF BuffersEmptied
<1>12. QED
  BY <1>4, <1>7, <1>8, <1>10, <1>11 DEF Kept

\* The start.
LEMMA InitKeeps ==
    ASSUME Init
    PROVE  Data /\ Kept
<1>1. /\ queue = <<>> /\ yielded = {} /\ accumulator = EmptyAccumulator /\ consumer = "running"
      /\ ready = [a \in Callers |-> <<>>] /\ working = [a \in Callers |-> Nothing]
      /\ extracted = [a \in Callers |-> <<>>]
      /\ seen = {} /\ lost = {} /\ skipped = {}
      /\ transcript \in [Session -> {<<>>} \cup {<<t>> : t \in Text}]
  BY DEF Init
<1>2. /\ ready \in Ready /\ working \in Working /\ extracted \in [Callers -> Seq(Chunk)]
      /\ \A a \in Callers : ready[a] = <<>> /\ working[a] = Nothing /\ extracted[a] = <<>>
  <2>1. <<>> \in Seq(Chunk)
    OBVIOUS
  <2>2. QED
    BY <1>1, <2>1 DEF Ready, Working
<1>3. <<>> \in Seq(Event \cup {Done}) /\ ToSet(<<>>) = {}
  BY DEF ToSet
<1>4. transcript \in [Session -> Seq(Text)]
  <2>1. <<>> \in Seq(Text) /\ \A t \in Text : <<t>> \in Seq(Text)
    OBVIOUS
  <2>2. QED
    BY <1>1, <2>1
<1>5. Data
  BY <1>1, <1>2, <1>3, <1>4 DEF Data
<1>6. Started = {}
  BY <1>1, <1>2, <1>3 DEF Stored, InHand, Started, Callers
<1>7. MarksKept /\ ChunksFit
  BY <1>1, <1>6 DEF MarksKept, TextsOf, ChunksFit
<1>8. EmptyAccumulator = AtRest(EmptyAccumulator) /\ EmptyAccumulator.absorbed = {}
  BY EmptyRests
<1>9. AccumulatorKept /\ EventsKept
  <2>1. Sound(EmptyAccumulator, EventsIn(Mine), TextsOf(Started)) /\ Small(EmptyAccumulator)
    BY EmptySound
  <2>2. QED
    BY <1>1, <1>3, <1>8, <2>1 DEF AccumulatorKept, EventsKept
<1>10. BuffersEmptied
  BY <1>1 DEF BuffersEmptied
<1>11. QED
  BY <1>5, <1>7, <1>9, <1>10 DEF Kept

\* Every step keeps what is held.
LEMMA StepKeeps ==
    ASSUME Data, Kept, [Next]_vars
    PROVE  Data' /\ Kept'
<1>1. CASE \/ Sentinels
           \/ \E s \in Session : \E t \in Text : WriteLine(s, t)
           \/ \E s \in Session : Yields(s)
  BY <1>1, OutsideKeeps
<1>2. CASE ConsumeEvent
  BY <1>2, ConsumeKeeps
<1>3. CASE ConsumerFlushes
  BY <1>3, FlushKeeps
<1>4. CASE \/ \E a \in Callers : Extracted(a)
           \/ \E s \in Session : HookFlush(s)
           \/ HookFails
           \/ Abandons
  BY <1>4, CallersKeep
<1>5. CASE Restart
  BY <1>5, RestartKeeps
<1>6. QED
  BY <1>1, <1>2, <1>3, <1>4, <1>5, StepKinds

-----------------------------------------------------------------------------
(* How the tasks end *)

\* The sentinels in the queue.
DonesAt(q) == {i \in DOMAIN q : q[i] = Done}
Dones(q) == Cardinality(DonesAt(q))

\* Counting them.
LEMMA DonesOf ==
    ASSUME NEW q \in Seq(Event \cup {Done})
    PROVE  /\ Dones(q) \in Nat
           /\ Dones(Append(q, Done)) = Dones(q) + 1
           /\ \A r \in Seq(Event) : Dones(q \o r) = Dones(q)
           /\ q # <<>> => Dones(q) = Dones(Tail(q)) + (IF Head(q) = Done THEN 1 ELSE 0)
           /\ Dones(q) = 0 => Done \notin ToSet(q)
<1> DEFINE N == Len(q)
           P == DonesAt(q)
<1>1. DOMAIN q = 1 .. N /\ N \in Nat
  OBVIOUS
<1>2. Done \notin Event
  BY IngestAssumption DEF Event
<1>3. ASSUME NEW m \in Nat, NEW A, A \subseteq 1 .. m
      PROVE  IsFiniteSet(A) /\ Cardinality(A) \in Nat
  <2>1. IsFiniteSet(1 .. m)
    BY FS_Interval
  <2>2. A \in SUBSET (1 .. m)
    BY <1>3
  <2>3. IsFiniteSet(A)
    BY <2>1, <2>2, FS_Subset
  <2>4. QED
    BY <2>3, FS_CardinalityType
<1>4. P \subseteq 1 .. N /\ IsFiniteSet(P) /\ Cardinality(P) \in Nat
  <2>1. P \subseteq 1 .. N
    BY <1>1 DEF DonesAt
  <2> HIDE DEF P, N
  <2>2. N \in Nat
    BY <1>1
  <2>3. QED
    BY <1>3, <2>1, <2>2
<1>5. Dones(q) \in Nat
  BY <1>4 DEF Dones
<1>6. Dones(Append(q, Done)) = Dones(q) + 1
  <2> DEFINE more == Append(q, Done)
  <2>1. /\ DOMAIN more = 1 .. N + 1 /\ more[N + 1] = Done /\ \A i \in 1 .. N : more[i] = q[i]
    OBVIOUS
  <2> HIDE DEF more
  <2>2. DonesAt(more) = P \cup {N + 1}
    BY <1>1, <2>1 DEF DonesAt
  <2>3. N + 1 \notin P
    BY <1>1, <1>4
  <2> HIDE DEF P, N
  <2>4. Cardinality(P \cup {N + 1}) = Cardinality(P) + 1
    BY <1>4, <2>3, FS_AddElement
  <2>5. QED
    BY <2>2, <2>4 DEF Dones, more, P
<1>7. ASSUME NEW r \in Seq(Event)
      PROVE  Dones(q \o r) = Dones(q)
  <2> DEFINE both == q \o r
  <2>1. /\ DOMAIN both = 1 .. N + Len(r) /\ Len(r) \in Nat
        /\ \A i \in 1 .. N : both[i] = q[i]
        /\ \A i \in 1 .. N + Len(r) : i > N => both[i] = r[i - N] /\ i - N \in 1 .. Len(r)
    OBVIOUS
  <2>2. \A i \in 1 .. Len(r) : r[i] # Done
    BY <1>2
  <2> HIDE DEF both
  <2>3. DonesAt(both) = P
    <3>1. ASSUME NEW i \in DonesAt(both)
          PROVE  i \in P
      <4>1. i \in 1 .. N + Len(r) /\ both[i] = Done
        BY <2>1, <3>1 DEF DonesAt
      <4>2. ~(i > N)
        BY <2>1, <2>2, <4>1
      <4>3. i \in 1 .. N
        BY <1>1, <2>1, <4>1, <4>2
      <4>4. QED
        BY <1>1, <2>1, <4>1, <4>3 DEF DonesAt
    <3>2. ASSUME NEW i \in P
          PROVE  i \in DonesAt(both)
      <4>1. i \in 1 .. N /\ q[i] = Done
        BY <1>1, <3>2 DEF DonesAt
      <4>2. i \in 1 .. N + Len(r) /\ both[i] = Done
        BY <1>1, <2>1, <4>1
      <4>3. QED
        BY <2>1, <4>2 DEF DonesAt
    <3>3. QED
      BY <3>1, <3>2
  <2>4. QED
    BY <2>3 DEF Dones, both
<1>8. ASSUME q # <<>>
      PROVE  Dones(q) = Dones(Tail(q)) + (IF Head(q) = Done THEN 1 ELSE 0)
  <2> DEFINE rest == Tail(q)
             R == DonesAt(rest)
             f == [i \in R |-> i + 1]
  <2>1. /\ DOMAIN rest = 1 .. N - 1 /\ N - 1 \in Nat /\ Head(q) = q[1] /\ 1 \in 1 .. N
        /\ \A i \in 1 .. N - 1 : rest[i] = q[i + 1] /\ i + 1 \in 1 .. N
    BY <1>8
  <2> HIDE DEF rest
  <2>2. R \subseteq 1 .. N - 1 /\ \A i \in R : i \in 1 .. N - 1 /\ rest[i] = Done
    BY <2>1 DEF DonesAt
  <2>3. IsFiniteSet(R) /\ Cardinality(R) \in Nat
    <3> HIDE DEF R
    <3>1. QED
      BY <1>3, <2>1, <2>2
  <2>4. f \in Bijection(R, P \ {1})
    <3>1. ASSUME NEW i \in R
          PROVE  f[i] \in P \ {1}
      <4>1. i \in 1 .. N - 1 /\ q[i + 1] = Done /\ i + 1 \in 1 .. N /\ i + 1 # 1
        BY <2>1, <2>2
      <4>2. QED
        BY <1>1, <4>1 DEF DonesAt
    <3>2. ASSUME NEW j \in P \ {1}
          PROVE  \E i \in R : f[i] = j
      <4>1. j \in 1 .. N /\ j # 1 /\ q[j] = Done
        BY <1>1 DEF DonesAt
      <4>2. j - 1 \in 1 .. N - 1 /\ rest[j - 1] = Done /\ (j - 1) + 1 = j
        BY <1>1, <2>1, <4>1
      <4>3. j - 1 \in R
        BY <2>1, <4>2 DEF DonesAt
      <4> HIDE DEF R
      <4>4. f[j - 1] = j
        BY <4>2, <4>3
      <4>5. QED
        BY <4>3, <4>4
    <3>3. \A i, j \in R : f[i] = f[j] => i = j
      BY <1>1, <2>2
    <3>4. f \in [R -> P \ {1}]
      BY <3>1
    <3> HIDE DEF f, R, P
    <3>5. f \in Injection(R, P \ {1})
      BY <3>3, <3>4 DEF Injection, IsInjective
    <3>6. f \in Surjection(R, P \ {1})
      BY <3>2, <3>4 DEF Surjection
    <3>7. QED
      BY <3>5, <3>6 DEF Bijection
  <2> HIDE DEF f
  <2>5. Cardinality(P \ {1}) = Cardinality(R)
    <3>1. ExistsBijection(R, P \ {1})
      BY <2>4 DEF ExistsBijection
    <3> HIDE DEF R, P
    <3>2. QED
      BY <2>3, <3>1, FS_Bijection
  <2>6. 1 \in P <=> Head(q) = Done
    BY <1>1, <2>1 DEF DonesAt
  <2>7. Cardinality(P \ {1}) = IF 1 \in P THEN Cardinality(P) - 1 ELSE Cardinality(P)
    <3> HIDE DEF P
    <3>1. QED
      BY <1>4, FS_RemoveElement
  <2>8. Dones(q) = Cardinality(P) /\ Dones(rest) = Cardinality(R)
    BY DEF Dones
  <2> HIDE DEF R, P
  <2>9. Dones(q) = Dones(rest) + (IF Head(q) = Done THEN 1 ELSE 0)
    BY <1>4, <2>3, <2>5, <2>6, <2>7, <2>8
  <2>10. QED
    BY <2>9 DEF rest
<1>9. ASSUME Dones(q) = 0
      PROVE  Done \notin ToSet(q)
  <2>1. P = {}
    <3>1. Cardinality(P) = 0
      BY <1>9 DEF Dones
    <3> HIDE DEF P
    <3>2. QED
      BY <1>4, <3>1, FS_EmptySet
  <2>2. QED
    BY <2>1 DEF DonesAt, ToSet
<1>10. QED
  BY <1>5, <1>6, <1>7, <1>8, <1>9

\* The producers that have ended, the watcher among them.
Ended == Cardinality(Sources \ others) + (IF watcher = "ended" THEN 1 ELSE 0)

\* The tasks' states.
Control ==
    /\ mode \in Modes /\ restarts \in 0 .. mode.restarts
    /\ touched \cup files \subseteq Session
    /\ watcher \in {"starting", "catching up", "tailing", "ended"} /\ others \subseteq Sources
    /\ consumer \in {"running", "flushing", "returned"} /\ loop \in {"running", "ended"}
    /\ consumer = "flushing" => working["consumer"] # Nothing
    /\ consumer = "returned" => working["consumer"] = Nothing
    /\ loop = "ended" => ProducersEnded /\ consumer # "running"

\* Each producer that ended left one sentinel, which the consumer has seen or will; a
\* cancelled one may have left none.
Counted ==
    /\ finished \in Nat /\ finished + Dones(queue) <= Ended
    /\ loop = "running" => finished + Dones(queue) = Ended

\* Nothing comes after the watcher's sentinel but other sentinels.
SentinelsLast ==
    loop = "running" /\ watcher = "ended" => queue = <<>> \/ queue[Len(queue)] = Done

\* A backfill that nothing interrupts loses nothing, and its consumer does not end
\* before the producers have and everything they queued is consumed.
Drained ==
    Backfill /\ ~ Faults =>
        /\ lost = {} /\ (loop = "ended" => consumer = "returned")
        /\ consumer # "running" => queue = <<>> /\ ProducersEnded

Tasks == Control /\ Counted /\ SentinelsLast /\ Drained

\* How many producers can have ended.
LEMMA EndedIsBounded ==
    ASSUME Control
    PROVE  /\ IsFiniteSet(Sources) /\ Cardinality(Sources) \in Nat
           /\ Ended \in 0 .. Cardinality(Sources) + 1
           /\ Ended = Cardinality(Sources) + 1 => ProducersEnded
           /\ \A p \in others : Cardinality(Sources \ (others \ {p})) = Cardinality(Sources \ others) + 1
           /\ Cardinality(Sources \ others) \in Nat
<1> DEFINE gone == Sources \ others
<1>1. Sources \subseteq OtherSources
  <2>1. mode \in [backfill : BOOLEAN, flushes : BOOLEAN, faults : BOOLEAN,
                  rewrites : BOOLEAN, sources : SUBSET OtherSources, restarts : Nat]
    BY IngestAssumption DEF Control
  <2>2. QED
    BY <2>1 DEF Sources
<1>2. IsFiniteSet(OtherSources)
  BY IngestAssumption
<1>3. IsFiniteSet(Sources)
  <2>1. Sources \in SUBSET OtherSources
    BY <1>1
  <2> HIDE DEF Sources
  <2>2. QED
    BY <1>2, <2>1, FS_Subset
<1>4. /\ Cardinality(Sources) \in Nat /\ gone \in SUBSET Sources
      /\ others \subseteq Sources
  BY <1>3, FS_CardinalityType DEF Control
<1>5. /\ IsFiniteSet(gone) /\ Cardinality(gone) <= Cardinality(Sources)
      /\ (Cardinality(Sources) = Cardinality(gone) => Sources = gone)
  <2> HIDE DEF gone
  <2>1. QED
    BY <1>3, <1>4, FS_Subset
<1>6. Cardinality(gone) \in Nat
  <2> HIDE DEF gone
  <2>1. QED
    BY <1>5, FS_CardinalityType
<1>7. Ended \in 0 .. Cardinality(Sources) + 1
      /\ (Ended = Cardinality(Sources) + 1 => Cardinality(gone) = Cardinality(Sources) /\ watcher = "ended")
  <2>1. Ended = Cardinality(gone) + (IF watcher = "ended" THEN 1 ELSE 0)
    BY DEF Ended
  <2> HIDE DEF gone
  <2>2. QED
    BY <1>4, <1>5, <1>6, <2>1
<1>8. Ended = Cardinality(Sources) + 1 => ProducersEnded
  BY <1>4, <1>5, <1>7 DEF ProducersEnded
<1>9. ASSUME NEW p \in others
      PROVE  Cardinality(Sources \ (others \ {p})) = Cardinality(gone) + 1
  <2>1. Sources \ (others \ {p}) = gone \cup {p} /\ p \notin gone
    BY <1>4
  <2> HIDE DEF gone
  <2>2. Cardinality(gone \cup {p}) = Cardinality(gone) + 1
    BY <1>5, <2>1, FS_AddElement
  <2>3. QED
    BY <2>1, <2>2
<1>10. QED
  BY <1>3, <1>4, <1>6, <1>7, <1>8, <1>9

\* What is last in a queue.
LEMMA LastOf ==
    ASSUME NEW q \in Seq(Event \cup {Done})
    PROVE  /\ Append(q, Done)[Len(Append(q, Done))] = Done
           /\ q # <<>> /\ q[Len(q)] = Done => Done \in ToSet(q)
           /\ q # <<>> /\ q[Len(q)] = Done /\ Tail(q) # <<>> => Tail(q)[Len(Tail(q))] = Done
<1>1. /\ Len(Append(q, Done)) = Len(q) + 1 /\ Append(q, Done)[Len(q) + 1] = Done
  OBVIOUS
<1>2. q # <<>> => Len(q) \in DOMAIN q
  OBVIOUS
<1>3. ASSUME q # <<>>, Tail(q) # <<>>
      PROVE  Tail(q)[Len(Tail(q))] = q[Len(q)]
  <2>1. /\ Len(Tail(q)) = Len(q) - 1 /\ Len(q) \in Nat
        /\ \A i \in 1 .. Len(q) - 1 : Tail(q)[i] = q[i + 1]
    BY <1>3
  <2>2. Len(q) - 1 \in 1 .. Len(q) - 1
    BY <1>3, <2>1
  <2>3. QED
    BY <2>1, <2>2
<1>4. QED
  BY <1>1, <1>2, <1>3 DEF ToSet

\* What the counts, the queue's end and a drained consumer depend on.
LEMMA TasksGoOn ==
    ASSUME Tasks, UNCHANGED <<mode, others, finished, loop, lost>>,
           watcher' = watcher \/ (watcher # "ended" /\ watcher' # "ended"),
           consumer' = consumer, queue' = queue
    PROVE  Counted' /\ SentinelsLast' /\ Drained'
<1>1. Sources' = Sources /\ Backfill' = Backfill /\ Faults' = Faults
  BY DEF Sources, Backfill, Faults
<1>2. Ended' = Ended /\ Dones(queue') = Dones(queue)
  BY <1>1 DEF Ended
<1>3. ProducersEnded' = ProducersEnded
  BY DEF ProducersEnded
<1>4. QED
  BY <1>1, <1>2, <1>3 DEF Tasks, Counted, SentinelsLast, Drained

\* The consumer's state after it went on.
LEMMA ProceedingConsumer ==
    ASSUME NEW phase \in {"running", "flushing"}, NEW chunks, ConsumerProceeds(phase, chunks)
    PROVE  /\ consumer' \in {"running", "flushing", "returned"}
           /\ consumer' = "flushing" => working'["consumer"] # Nothing
           /\ consumer' = "returned" => working'["consumer"] = Nothing
           /\ consumer' = "running" <=> phase = "running"
  BY DEF ConsumerProceeds

\* Below a bound there is room for one more.
LEMMA OneMore ==
    ASSUME NEW a, NEW b \in Nat, a \in 0 .. b, a < b
    PROVE  a + 1 \in 0 .. b
  OBVIOUS

\* Every step keeps the tasks' states.
LEMMA ControlStep ==
    ASSUME Control, Data, [Next]_vars
    PROVE  Control'
<1> USE DEF Control, ProducersEnded, Sources
<1>1. ASSUME FlushAndReturn
      PROVE  /\ consumer' \in {"flushing", "returned"}
             /\ consumer' = "flushing" => working'["consumer"] # Nothing
             /\ consumer' = "returned" => working'["consumer"] = Nothing
  <2>1. PICK acc \in Flushed(accumulator) : ConsumerProceeds("flushing", acc.completed)
    BY <1>1 DEF FlushAndReturn
  <2>2. QED
    BY <2>1, ProceedingConsumer
<1>2. ASSUME AbandonFlush
      PROVE  consumer' = "returned" /\ working'["consumer"] = Nothing
  BY <1>2 DEF AbandonFlush, Data, Working, Callers
<1>3. CASE UNCHANGED vars
  BY <1>3 DEF vars, claudeVars, sourceVars, consumerVars, serviceVars
<1>4. CASE ClaudeCode
  BY <1>4 DEF ClaudeCode, WriteLine, sourceVars, consumerVars, serviceVars
<1>5. CASE Discover \/ EndCatchUp \/ WatcherFails
  BY <1>5 DEF Discover, EndCatchUp, WatcherFails, claudeVars, consumerVars, serviceVars
<1>6. CASE \E s \in Session : ParseFile(s) \/ ParseTouched(s)
  BY <1>6 DEF ParseFile, ParseTouched, claudeVars, consumerVars, serviceVars
<1>7. CASE \E p \in OtherSources : OtherEnds(p)
  BY <1>7 DEF OtherEnds, claudeVars, consumerVars, serviceVars
<1>8. CASE ConsumeEvent
  <2> DEFINE acc == Add(accumulator, Head(queue))
  <2>1. /\ consumer = "running" /\ ConsumerProceeds("running", acc.completed)
        /\ UNCHANGED <<claudeVars, sourceVars, loop, restarts, mode>>
    BY <1>8 DEF ConsumeEvent, ConsumerIdle
  <2> HIDE DEF acc
  <2>2. consumer' = "running"
    BY <2>1, ProceedingConsumer
  <2>3. QED
    BY <2>1, <2>2 DEF claudeVars, sourceVars
<1>9. CASE ConsumeDone
  <2>1. /\ consumer = "running" /\ UNCHANGED <<claudeVars, sourceVars, loop, restarts, mode>>
        /\ FlushAndReturn \/ UNCHANGED <<consumer, serviceVars>>
    BY <1>9 DEF ConsumeDone, ConsumerIdle
  <2>2. QED
    BY <1>1, <2>1 DEF claudeVars, sourceVars, serviceVars
<1>10. CASE Extracted("consumer")
  <2>1. /\ consumer \in {"running", "flushing"} /\ ConsumerProceeds(consumer, ready["consumer"])
        /\ UNCHANGED <<claudeVars, sourceVars, loop, restarts, mode>>
    BY <1>10 DEF Extracted
  <2>2. QED
    BY <2>1, ProceedingConsumer DEF claudeVars, sourceVars
<1>11. CASE ConsumerFails
  <2>1. /\ FlushAndReturn \/ AbandonFlush
        /\ UNCHANGED <<claudeVars, sourceVars, loop, restarts, mode>>
    BY <1>11 DEF ConsumerFails
  <2>2. QED
    BY <1>1, <1>2, <2>1 DEF claudeVars, sourceVars
<1>12. CASE Extracted("hook") \/ HookFails \/ \E s \in Session : HookFlush(s)
  <2>1. UNCHANGED <<claudeVars, sourceVars, loop, restarts, mode, consumer>>
    BY <1>12 DEF Extracted, HookFails, HookFlush, consumerVars
  <2>2. working'["consumer"] = working["consumer"]
    <3>1. CASE Extracted("hook")
      <4>1. Proceed("hook", ready["hook"])
        BY <3>1 DEF Extracted
      <4>2. QED
        BY <4>1 DEF Proceed, Data, Working, Callers
    <3>2. CASE HookFails
      BY <3>2 DEF HookFails, Data, Working, Callers
    <3>3. CASE \E s \in Session : HookFlush(s)
      <4>1. PICK s \in Session : HookFlush(s)
        BY <3>3
      <4>2. Proceed("hook", ChunkEvents(s, transcript[s]).completed)
        BY <4>1 DEF HookFlush
      <4>3. QED
        BY <4>2 DEF Proceed, Data, Working, Callers
    <3>4. QED
      BY <1>12, <3>1, <3>2, <3>3
  <2>3. QED
    BY <2>1, <2>2 DEF claudeVars, sourceVars
<1>13. CASE EndLoop
  <2>1. /\ loop' = "ended" /\ watcher' = "ended" /\ others' = {} /\ CancelConsumer
        /\ UNCHANGED <<claudeVars, files, restarts, mode>>
    BY <1>13 DEF EndLoop
  <2>2. \/ consumer = "returned" /\ UNCHANGED <<consumer, working>>
        \/ FlushAndReturn \/ AbandonFlush
    BY <2>1 DEF CancelConsumer, serviceVars
  <2>3. /\ consumer' \in {"flushing", "returned"}
        /\ consumer' = "flushing" => working'["consumer"] # Nothing
        /\ consumer' = "returned" => working'["consumer"] = Nothing
    BY <1>1, <1>2, <2>2
  <2>4. QED
    BY <2>1, <2>3 DEF claudeVars
<1>14. CASE Restart
  <2>1. mode.restarts \in Nat
    <3>1. mode \in [backfill : BOOLEAN, flushes : BOOLEAN, faults : BOOLEAN,
                    rewrites : BOOLEAN, sources : SUBSET OtherSources, restarts : Nat]
      BY IngestAssumption
    <3>2. QED
      BY <3>1
  <2>2. restarts' \in 0 .. mode.restarts
    <3>1. restarts < mode.restarts /\ restarts' = restarts + 1
          /\ restarts \in 0 .. mode.restarts
      BY <1>14 DEF Restart
    <3>2. QED
      BY <2>1, <3>1, OneMore
  <2>3. /\ loop' = "running" /\ watcher' = "starting" /\ consumer' = "running"
        /\ touched' = {} /\ files' = {} /\ others' = Sources /\ mode' = mode
    BY <1>14 DEF Restart
  <2>4. QED
    BY <2>2, <2>3
<1>15. QED
  BY <1>3, <1>4, <1>5, <1>6, <1>7, <1>8, <1>9, <1>10, <1>11, <1>12, <1>13, <1>14
     DEF Next, Producers, Consumer, Hook

\* Every step keeps the counts, and what a drained consumer says.
LEMMA TasksStep ==
    ASSUME Tasks, Data, [Next]_vars
    PROVE  Tasks'
<1>1. Control /\ Counted /\ SentinelsLast /\ Drained
  BY DEF Tasks
<1>2. Control'
  BY <1>1, ControlStep
<1>3. queue \in Seq(Event \cup {Done}) /\ Dones(queue) \in Nat
  BY DonesOf DEF Data
<1>4. CASE \/ UNCHANGED vars
           \/ ClaudeCode \/ Discover
           \/ Extracted("consumer") /\ consumer' = consumer
           \/ Extracted("hook")
           \/ \E s \in Session : HookFlush(s)
  <2>1. /\ UNCHANGED <<mode, others, finished, loop, lost, queue, consumer>>
        /\ watcher' = watcher \/ (watcher # "ended" /\ watcher' # "ended")
    BY <1>4 DEF ClaudeCode, WriteLine, Discover, Extracted, HookFlush, vars, claudeVars, sourceVars,
               consumerVars, serviceVars, storeVars
  <2>2. QED
    BY <1>2, <2>1, TasksGoOn DEF Tasks
<1>5. ASSUME UNCHANGED mode
      PROVE  Sources' = Sources /\ Backfill' = Backfill /\ Faults' = Faults
  BY <1>5 DEF Sources, Backfill, Faults
<1>6. CASE \E s \in Session : ParseFile(s) \/ ParseTouched(s)
  <2>1. PICK s \in Session : ParseFile(s) \/ ParseTouched(s)
    BY <1>6
  <2>2. /\ watcher # "ended" /\ queue' = queue \o FreshEvents(s)
        /\ UNCHANGED <<watcher, mode, others, finished, loop, lost, consumer>>
    BY <2>1 DEF ParseFile, ParseTouched, Yield, consumerVars, storeVars
  <2>3. FreshEvents(s) \in Seq(Event)
    BY FreshEventsAre DEF Data
  <2>4. Dones(queue') = Dones(queue)
    BY <1>3, <2>2, <2>3, DonesOf
  <2>5. Ended' = Ended
    BY <1>5, <2>2 DEF Ended
  <2>6. ~ ProducersEnded
    BY <2>2 DEF ProducersEnded
  <2>7. Counted' /\ SentinelsLast'
    BY <1>1, <2>2, <2>4, <2>5 DEF Counted, SentinelsLast
  <2>8. Drained'
    BY <1>1, <1>5, <2>2, <2>6 DEF Drained
  <2>9. QED
    BY <1>2, <2>7, <2>8 DEF Tasks
<1>7. CASE EndCatchUp \/ WatcherFails
  <2>1. /\ watcher # "ended"
        /\ UNCHANGED <<mode, others, finished, loop, lost, consumer>>
        /\ \/ watcher' = "ended" /\ queue' = Append(queue, Done)
           \/ watcher' = "tailing" /\ queue' = queue
    BY <1>7 DEF EndCatchUp, WatcherFails, consumerVars, storeVars
  <2>2. CASE watcher' = "tailing" /\ queue' = queue
    BY <1>2, <2>1, <2>2, TasksGoOn DEF Tasks
  <2>3. CASE watcher' = "ended" /\ queue' = Append(queue, Done)
    <3>1. Dones(queue') = Dones(queue) + 1
      BY <1>3, <2>3, DonesOf
    <3>2. Ended = Cardinality(Sources \ others) /\ Ended' = Ended + 1 /\ Ended \in Nat
      BY <1>1, <1>5, <2>1, <2>3, EndedIsBounded DEF Ended
    <3>3. Counted'
      BY <1>1, <1>3, <2>1, <3>1, <3>2 DEF Counted
    <3>4. SentinelsLast'
      BY <1>3, <2>3, LastOf DEF SentinelsLast
    <3>5. ~ ProducersEnded
      BY <2>1 DEF ProducersEnded
    <3>6. Drained'
      BY <1>1, <1>5, <2>1, <3>5 DEF Drained
    <3>7. QED
      BY <1>2, <3>3, <3>4, <3>6 DEF Tasks
  <2>4. QED
    BY <2>1, <2>2, <2>3
<1>8. CASE \E p \in OtherSources : OtherEnds(p)
  <2>1. PICK p \in OtherSources : OtherEnds(p)
    BY <1>8
  <2>2. /\ p \in others /\ others' = others \ {p} /\ queue' = Append(queue, Done)
        /\ UNCHANGED <<watcher, mode, finished, loop, lost, consumer>>
    BY <2>1 DEF OtherEnds, consumerVars, storeVars
  <2>3. Dones(queue') = Dones(queue) + 1
    BY <1>3, <2>2, DonesOf
  <2>4. Ended' = Ended + 1 /\ Ended \in Nat
    <3>1. Cardinality(Sources \ (others \ {p})) = Cardinality(Sources \ others) + 1
          /\ Cardinality(Sources \ others) \in Nat
      BY <1>1, <2>2, EndedIsBounded
    <3>2. Ended' = Cardinality(Sources \ (others \ {p})) + (IF watcher = "ended" THEN 1 ELSE 0)
      BY <1>5, <2>2 DEF Ended
    <3>3. QED
      BY <3>1, <3>2 DEF Ended
  <2>5. Counted'
    <3>1. /\ finished \in Nat /\ finished + Dones(queue) <= Ended
          /\ loop = "running" => finished + Dones(queue) = Ended
          /\ finished' = finished /\ loop' = loop
      BY <1>1, <2>2 DEF Counted
    <3>2. /\ finished + (Dones(queue) + 1) <= Ended + 1
          /\ loop = "running" => finished + (Dones(queue) + 1) = Ended + 1
      BY <1>3, <2>4, <3>1
    <3>3. QED
      BY <2>3, <2>4, <3>1, <3>2 DEF Counted
  <2>6. SentinelsLast'
    BY <1>3, <2>2, LastOf DEF SentinelsLast
  <2>7. ~ ProducersEnded
    BY <2>2 DEF ProducersEnded
  <2>8. Drained'
    BY <1>1, <1>5, <2>2, <2>7 DEF Drained
  <2>9. QED
    BY <1>2, <2>5, <2>6, <2>8 DEF Tasks
<1>9. ASSUME queue # <<>>, queue' = Tail(queue), UNCHANGED <<watcher, loop>>
      PROVE  SentinelsLast'
  BY <1>1, <1>3, <1>9, LastOf DEF SentinelsLast
<1>10. CASE ConsumeEvent
  <2> DEFINE acc == Add(accumulator, Head(queue))
  <2>1. /\ queue # <<>> /\ queue' = Tail(queue) /\ Head(queue) # Done /\ consumer = "running"
        /\ ConsumerProceeds("running", acc.completed)
        /\ UNCHANGED <<watcher, others, mode, finished, loop, lost>>
    BY <1>10 DEF ConsumeEvent, ConsumerIdle, sourceVars, storeVars
  <2> HIDE DEF acc
  <2>2. consumer' = "running"
    BY <2>1, ProceedingConsumer
  <2>3. Dones(queue') = Dones(queue) /\ Ended' = Ended
    <3>1. Dones(queue) = Dones(Tail(queue)) + (IF Head(queue) = Done THEN 1 ELSE 0)
      BY <1>3, <2>1, DonesOf
    <3>2. Dones(Tail(queue)) \in Nat
      <4>1. Tail(queue) \in Seq(Event \cup {Done})
        BY <1>3, <2>1
      <4>2. QED
        BY <4>1, DonesOf
    <3>3. QED
      BY <1>5, <2>1, <3>1, <3>2 DEF Ended
  <2>4. Counted' /\ SentinelsLast'
    BY <1>1, <1>9, <2>1, <2>3 DEF Counted
  <2>5. Drained'
    BY <1>1, <1>5, <2>1, <2>2 DEF Drained
  <2>6. QED
    BY <1>2, <2>4, <2>5 DEF Tasks
<1>11. CASE ConsumeDone
  <2>1. /\ queue # <<>> /\ queue' = Tail(queue) /\ Head(queue) = Done /\ consumer = "running"
        /\ finished' = finished + 1 /\ UNCHANGED <<watcher, others, mode, loop, lost>>
        /\ (AllFinished(finished + 1) \/ UNCHANGED consumer)
    BY <1>11 DEF ConsumeDone, ConsumerIdle, sourceVars, storeVars
  <2>2. loop = "running"
    BY <1>1, <2>1 DEF Control
  <2>3. queue' \in Seq(Event \cup {Done}) /\ Dones(queue') \in Nat
    <3>1. queue' \in Seq(Event \cup {Done})
      BY <1>3, <2>1
    <3>2. QED
      BY <3>1, DonesOf
  <2>4. Dones(queue) = Dones(queue') + 1 /\ Ended' = Ended
    <3>1. Dones(queue) = Dones(queue') + (IF Head(queue) = Done THEN 1 ELSE 0)
      BY <1>3, <2>1, DonesOf
    <3>2. QED
      BY <1>5, <2>1, <2>3, <3>1 DEF Ended
  <2>5. finished \in Nat /\ finished + Dones(queue) = Ended
    BY <1>1, <2>2 DEF Counted
  <2>6. Counted' /\ SentinelsLast'
    BY <1>9, <2>1, <2>3, <2>4, <2>5 DEF Counted
  <2>7. CASE UNCHANGED consumer
    <3>1. Drained'
      BY <1>1, <1>5, <2>1, <2>7 DEF Drained
    <3>2. QED
      BY <1>2, <2>6, <3>1 DEF Tasks
  <2>8. CASE AllFinished(finished + 1)
    <3>1. finished + 1 >= Cardinality(Sources) + 1
      BY <2>8 DEF AllFinished
    <3>2. Ended \in 0 .. Cardinality(Sources) + 1 /\ Cardinality(Sources) \in Nat
          /\ (Ended = Cardinality(Sources) + 1 => ProducersEnded)
      BY <1>1, EndedIsBounded
    <3>3. Dones(queue') = 0 /\ Ended = Cardinality(Sources) + 1
      BY <2>3, <2>4, <2>5, <3>1, <3>2
    <3>4. ProducersEnded
      BY <3>2, <3>3
    <3>5. Done \notin ToSet(queue')
      BY <2>3, <3>3, DonesOf
    <3>6. queue' = <<>> \/ queue'[Len(queue')] = Done
      BY <2>1, <2>2, <2>6, <3>4 DEF SentinelsLast, ProducersEnded
    <3>7. queue' = <<>>
      BY <2>3, <3>5, <3>6, LastOf
    <3>8. ProducersEnded'
      BY <2>1, <3>4 DEF ProducersEnded
    <3>9. Drained'
      BY <1>1, <1>5, <2>1, <2>2, <3>7, <3>8 DEF Drained
    <3>10. QED
      BY <1>2, <2>6, <3>9 DEF Tasks
  <2>9. QED
    BY <2>1, <2>7, <2>8
<1>12. CASE Extracted("consumer") /\ consumer' # consumer
  <2>1. UNCHANGED <<watcher, mode, others, finished, loop, lost, queue>>
    BY <1>12 DEF Extracted, sourceVars
  <2>2. consumer = "flushing" /\ consumer' = "returned"
    BY <1>12 DEF Extracted, ConsumerProceeds
  <2>3. Ended' = Ended /\ Dones(queue') = Dones(queue) /\ ProducersEnded' = ProducersEnded
    BY <1>5, <2>1 DEF Ended, ProducersEnded
  <2>4. Counted' /\ SentinelsLast'
    BY <1>1, <2>1, <2>3 DEF Counted, SentinelsLast
  <2>5. Drained'
    BY <1>1, <1>5, <2>1, <2>2, <2>3 DEF Drained
  <2>6. QED
    BY <1>2, <2>4, <2>5 DEF Tasks
<1>13. CASE ConsumerFails \/ HookFails
  <2>1. Faults /\ UNCHANGED <<watcher, mode, others, finished, loop, queue>>
    BY <1>13 DEF ConsumerFails, HookFails, sourceVars, consumerVars
  <2>2. Ended' = Ended /\ Dones(queue') = Dones(queue)
    BY <1>5, <2>1 DEF Ended
  <2>3. Counted' /\ SentinelsLast'
    BY <1>1, <2>1, <2>2 DEF Counted, SentinelsLast
  <2>4. Drained'
    BY <1>5, <2>1 DEF Drained
  <2>5. QED
    BY <1>2, <2>3, <2>4 DEF Tasks
<1>14. CASE EndLoop
  <2>1. /\ loop = "running" /\ loop' = "ended" /\ watcher' = "ended" /\ others' = {}
        /\ WaitIsOver \/ Faults
        /\ CancelConsumer /\ UNCHANGED <<queue, finished, mode>>
    BY <1>14 DEF EndLoop
  <2>2. Ended' = Cardinality(Sources) + 1 /\ Dones(queue') = Dones(queue)
    <3>1. Sources \ {} = Sources
      OBVIOUS
    <3>2. Cardinality(Sources) \in Nat
      BY <1>1, EndedIsBounded
    <3>3. QED
      BY <1>5, <2>1, <3>1, <3>2 DEF Ended
  <2>3. finished \in Nat /\ finished + Dones(queue) <= Cardinality(Sources) + 1
    BY <1>1, <1>3, EndedIsBounded DEF Counted
  <2>4. Counted' /\ SentinelsLast'
    BY <2>1, <2>2, <2>3 DEF Counted, SentinelsLast
  <2>5. ProducersEnded'
    BY <2>1 DEF ProducersEnded
  <2>6. Drained'
    <3>1. CASE ~ Backfill \/ Faults
      BY <1>5, <2>1, <3>1 DEF Drained
    <3>2. CASE Backfill /\ ~ Faults
      <4>1. consumer = "returned"
        BY <2>1, <3>2 DEF WaitIsOver
      <4>2. UNCHANGED <<consumer, lost>>
        BY <2>1, <4>1 DEF CancelConsumer, storeVars
      <4>3. QED
        BY <1>1, <1>5, <2>1, <2>5, <3>2, <4>1, <4>2 DEF Drained
    <3>3. QED
      BY <3>1, <3>2
  <2>7. QED
    BY <1>2, <2>4, <2>6 DEF Tasks
<1>15. CASE Restart
  <2>1. /\ loop' = "running" /\ watcher' = "starting" /\ consumer' = "running"
        /\ others' = Sources /\ queue' = <<>> /\ finished' = 0 /\ lost' = {} /\ mode' = mode
    BY <1>15 DEF Restart
  <2>2. Ended' = 0
    <3>1. Sources' \ others' = {} /\ Cardinality({}) = 0
      BY <1>5, <2>1, FS_EmptySet
    <3>2. Ended' = Cardinality(Sources' \ others') + 0
      BY <2>1 DEF Ended
    <3>3. QED
      BY <3>1, <3>2
  <2>3. Dones(<<>>) = 0
    <3>1. DonesAt(<<>>) = {} /\ Cardinality({}) = 0
      BY FS_EmptySet DEF DonesAt
    <3>2. QED
      BY <3>1 DEF Dones
  <2>4. Counted' /\ SentinelsLast' /\ Drained'
    BY <2>1, <2>2, <2>3 DEF Counted, SentinelsLast, Drained
  <2>5. QED
    BY <1>2, <2>4 DEF Tasks
<1>16. QED
  BY <1>4, <1>6, <1>7, <1>8, <1>10, <1>11, <1>12, <1>13, <1>14, <1>15
     DEF Next, Producers, Consumer, Hook

\* They hold at the start.
LEMMA TasksInit ==
    ASSUME Init
    PROVE  Tasks
<1>1. /\ mode \in Modes /\ loop = "running" /\ watcher = "starting" /\ consumer = "running"
      /\ others = Sources /\ queue = <<>> /\ finished = 0 /\ lost = {} /\ restarts = 0
      /\ touched = {} /\ files = {}
  BY DEF Init
<1>2. Ended = 0
  <2>1. Sources \ others = {} /\ Cardinality({}) = 0
    BY <1>1, FS_EmptySet
  <2>2. Ended = Cardinality(Sources \ others) + 0
    BY <1>1 DEF Ended
  <2>3. QED
    BY <2>1, <2>2
<1>3. Dones(<<>>) = 0
  <2>1. DonesAt(<<>>) = {} /\ Cardinality({}) = 0
    BY FS_EmptySet DEF DonesAt
  <2>2. QED
    BY <2>1 DEF Dones
<1>4. restarts \in 0 .. mode.restarts
  <2>1. mode \in [backfill : BOOLEAN, flushes : BOOLEAN, faults : BOOLEAN,
                  rewrites : BOOLEAN, sources : SUBSET OtherSources, restarts : Nat]
    BY <1>1, IngestAssumption
  <2>2. mode.restarts \in Nat
    BY <2>1
  <2>3. QED
    BY <1>1, <2>2
<1>5. Control
  BY <1>1, <1>4 DEF Control
<1>6. QED
  BY <1>1, <1>2, <1>3, <1>5 DEF Tasks, Counted, SentinelsLast, Drained

-----------------------------------------------------------------------------
(* What holds of every state *)

\* The inductive invariant.
Holds == Data /\ Kept /\ Tasks

\* It holds at the start, and every step keeps it.
LEMMA HoldsAlways == Spec => []Holds
<1>1. Init => Holds
  BY InitKeeps, TasksInit DEF Holds
<1>2. Holds /\ [Next]_vars => Holds'
  BY StepKeeps, TasksStep DEF Holds
<1>3. QED
  BY <1>1, <1>2, PTL DEF Spec

\* Types go with it, and what is handed on is within bounds.
LEMMA HoldsTyped ==
    ASSUME Holds
    PROVE  ChunksAreWellFormed
<1>1. Data /\ Kept /\ Tasks /\ Control /\ Counted
  BY DEF Holds, Tasks
<1>2. /\ ToSet(queue) \subseteq Event \cup {Done} /\ Started \subseteq Chunk /\ skipped \subseteq Chunk
  BY <1>1, HoldsOf, StoredTyped DEF Data
<1>3. accumulator \in Accumulators /\ accumulator = AtRest(accumulator)
  BY <1>1 DEF Kept, AccumulatorKept, Sound
<1>4. accumulator.absorbed \subseteq Event /\ accumulator.buffer \in [Session -> Seq(Text)]
  BY <1>3 DEF Accumulators
<1>5. finished \in 0 .. Cardinality(Sources) + 1
  <2>1. /\ finished \in Nat /\ finished + Dones(queue) <= Ended /\ Dones(queue) \in Nat
        /\ Ended \in 0 .. Cardinality(Sources) + 1 /\ Cardinality(Sources) \in Nat
    BY <1>1, EndedIsBounded, DonesOf DEF Counted, Data
  <2>2. QED
    BY <2>1
<1>6. /\ touched \cup files \subseteq Session /\ others \subseteq Sources
      /\ watcher \in {"starting", "catching up", "tailing", "ended"}
      /\ consumer \in {"running", "flushing", "returned"} /\ loop \in {"running", "ended"}
      /\ restarts \in 0 .. mode.restarts
      /\ consumer = "flushing" => working["consumer"] # Nothing
      /\ consumer = "returned" => working["consumer"] = Nothing
      /\ loop = "ended" => ProducersEnded /\ consumer # "running"
  BY <1>1 DEF Control
<1>7. /\ transcript \in [Session -> Seq(Text)] /\ yielded \subseteq Event
      /\ \A a \in Callers : working[a] = Nothing => ready[a] = <<>>
  BY <1>1 DEF Data
<1>8. TypeOK
  BY <1>2, <1>3, <1>4, <1>5, <1>6, <1>7 DEF TypeOK
<1>9. ChunkWithinBounds
  <2>1. ASSUME NEW c \in Started \cup skipped
        PROVE  Len(c.texts) \in 1 .. MaxMessages /\ (Len(c.texts) = 1 \/ Chars(c.texts) <= MaxChars)
    <3>1. c.texts \in Seq(Text)
      BY <1>2 DEF Chunk
    <3>2. Fits(c.texts) /\ c.texts # <<>>
      BY <1>1 DEF Kept, ChunksFit
    <3>3. Len(c.texts) \in Nat /\ Len(c.texts) # 0
      BY <3>1, <3>2
    <3>4. MaxMessages \in Nat
      BY IngestAssumption
    <3>5. Len(c.texts) <= MaxMessages /\ (Len(c.texts) <= 1 \/ Chars(c.texts) <= MaxChars)
      BY <3>2 DEF Fits
    <3> DEFINE n == Len(c.texts)
    <3>6. n \in Nat /\ n # 0 /\ n <= MaxMessages
      BY <3>3, <3>5
    <3> HIDE DEF n
    <3>7. n \in 1 .. MaxMessages /\ (n <= 1 => n = 1)
      BY <3>4, <3>6
    <3>8. QED
      BY <3>5, <3>7 DEF n
  <2>2. QED
    BY <2>1 DEF ChunkWithinBounds
<1>10. QED
  BY <1>8, <1>9 DEF ChunksAreWellFormed

\* ChunkAccumulator: whatever is fed, flushed, cancelled or started again, every chunk
\* the loop or a hook hands on is within both bounds, unless it is one event, and the
\* tasks' states go together.
THEOREM ChunksWellFormed == Spec => []ChunksAreWellFormed
<1>1. Holds => ChunksAreWellFormed
  BY HoldsTyped
<1>2. QED
  BY <1>1, HoldsAlways, PTL

\* What is in a buffer.
LEMMA BufferedIs == \A e : e \in Buffered <=> \E s \in Session : e \in EventsOf(Held(accumulator, s))
  BY DEF Buffered, Held

\* Between two calls no chunk is leaving.
LEMMA NothingLeaves ==
    ASSUME NEW acc \in Accumulators, acc = AtRest(acc)
    PROVE  Leaving(acc) = {}
<1> DEFINE none == {}
           nobody == <<>>
           rest == [acc EXCEPT !.completed = nobody, !.suppressed = none]
<1>1. acc = rest
  BY DEF AtRest
<1>2. rest.completed = nobody /\ rest.suppressed = none
  <2> HIDE DEF none, nobody
  <2>1. QED
    BY DEF Accumulators
<1> HIDE DEF rest
<1>3. acc.completed = <<>> /\ acc.suppressed = {}
  BY <1>1, <1>2
<1>4. ToSet(<<>>) = {}
  BY DEF ToSet
<1>5. QED
  BY <1>3, <1>4 DEF Leaving

\* Every event that was absorbed is buffered, or in a chunk the consumer had to do with.
LEMMA WhereAbsorbed ==
    ASSUME Holds
    PROVE  accumulator.absorbed \subseteq Buffered \cup EventsIn(Mine)
<1>1. accumulator = AtRest(accumulator) /\ Sound(accumulator, EventsIn(Mine), TextsOf(Started))
  BY DEF Holds, Kept, AccumulatorKept
<1>2. Leaving(accumulator) = {}
  <2>1. accumulator \in Accumulators
    BY <1>1 DEF Sound
  <2>2. QED
    BY <1>1, <2>1, NothingLeaves
<1>3. \A e \in accumulator.absorbed : e \in EventsIn(Mine) \/ Within(accumulator, e)
  BY <1>1 DEF Sound
<1>4. QED
  BY <1>2, <1>3, BufferedIs DEF Within

\* Nothing is buffered once the buffers are empty.
LEMMA NothingBuffered ==
    ASSUME \A s \in Session : accumulator.buffer[s] = <<>>
    PROVE  Buffered = {}
<1>1. ToSet(<<>>) = {}
  BY DEF ToSet
<1>2. \A s \in Session : EventsOf(Held(accumulator, s)) = {}
  BY <1>1 DEF EventsOf, Held
<1>3. QED
  BY <1>2, BufferedIs

\* run_ingest_loop: whatever raises, is cancelled or started again, each event the watcher
\* yielded can be told the whereabouts of, and the consumer leaves no buffer unflushed.
THEOREM LosesNothing == Spec => []NothingIsLost
<1>1. ASSUME Holds
      PROVE  NothingIsLost
  <2>1. Mine \subseteq Started \cup skipped
    BY DEF Mine, Started
  <2>2. EventsIn(Mine) \subseteq EventsIn(Started \cup skipped)
    BY <2>1 DEF EventsIn
  <2>3. yielded \subseteq ToSet(queue) \cup accumulator.absorbed
    BY <1>1 DEF Holds, Kept, EventsKept
  <2>4. yielded \subseteq ToSet(queue) \cup Buffered \cup EventsIn(Started \cup skipped)
    BY <1>1, <2>2, <2>3, WhereAbsorbed
  <2>5. \A c \in skipped : \E d \in Started : c.texts = d.texts
    BY <1>1 DEF Holds, Kept, MarksKept, TextsOf
  <2>6. FlushedAtTheEnd
    BY <1>1, NothingBuffered DEF Holds, Kept, BuffersEmptied, FlushedAtTheEnd
  <2>7. QED
    BY <2>4, <2>5, <2>6 DEF NothingIsLost, NothingVanishes
<1>2. QED
  BY <1>1, HoldsAlways, PTL

\* run_ingest_loop, drain_to_completion: a backfill that nothing interrupts has stored
\* every event of the files it found, or a chunk of its content, when it returns.
THEOREM BackfillCompletes ==
    ASSUME \A m \in Modes : m.backfill => ~ m.faults
    PROVE  Spec => []BackfillIsComplete
<1>1. ASSUME Holds
      PROVE  BackfillIsComplete
  <2>1. SUFFICES ASSUME Backfill, loop = "ended"
                 PROVE  yielded \subseteq EventsIn(Stored \cup skipped)
    BY DEF BackfillIsComplete
  <2>2. Data /\ Kept /\ Tasks /\ Control
    BY <1>1 DEF Holds, Tasks
  <2>3. ~ Faults
    BY <2>1, <2>2 DEF Control, Backfill, Faults
  <2>4. /\ lost = {} /\ consumer = "returned" /\ queue = <<>>
    BY <2>1, <2>2, <2>3 DEF Tasks, Drained
  <2>5. working["consumer"] = Nothing
    BY <2>2, <2>4 DEF Control
  <2>6. InHand("consumer") = {}
    BY <2>2, <2>5, InHandTyped DEF Callers
  <2>7. Mine = Stored \cup skipped
    BY <2>4, <2>6 DEF Mine
  <2>8. Buffered = {}
    BY <2>2, <2>4, NothingBuffered DEF Kept, BuffersEmptied
  <2>9. yielded \subseteq accumulator.absorbed
    <3>1. ToSet(queue) = {}
      BY <2>4 DEF ToSet
    <3>2. QED
      BY <2>2, <3>1 DEF Kept, EventsKept
  <2>10. QED
    BY <1>1, <2>7, <2>8, <2>9, WhereAbsorbed
<1>2. QED
  BY <1>1, HoldsAlways, PTL

\* A backfill's watcher ends with its initial pass, and the consumer leaves its loop
\* when it has seen as many sentinels as there are producers.
Pacing ==
    Backfill => watcher # "tailing" /\ (consumer = "running" => ~ AllFinished(finished))

\* They do from the start, and through every step.
LEMMA PacingAlways == Spec => []Pacing
<1>1. ASSUME Init
      PROVE  Pacing
  <2>1. Control /\ Counted /\ Ended = 0
    <3>1. Tasks /\ others = Sources /\ watcher = "starting"
      BY <1>1, TasksInit DEF Init
    <3>2. Sources \ others = {} /\ Cardinality({}) = 0
      BY <3>1, FS_EmptySet
    <3>3. Ended = Cardinality(Sources \ others) + 0
      BY <3>1 DEF Ended
    <3>4. QED
      BY <3>1, <3>2, <3>3 DEF Tasks
  <2>2. Cardinality(Sources) \in Nat
    BY <2>1, EndedIsBounded
  <2>3. finished = 0 /\ watcher = "starting"
    BY <1>1 DEF Init
  <2>4. ~ AllFinished(finished)
    BY <2>2, <2>3 DEF AllFinished
  <2>5. QED
    BY <2>3, <2>4 DEF Pacing
<1>2. ASSUME Holds, Pacing, [Next]_vars
      PROVE  Pacing'
  <2>1. Data /\ Tasks /\ Control /\ mode \in Modes
    BY <1>2 DEF Holds, Tasks, Control
  <2>2. mode' = mode => Sources' = Sources /\ Backfill' = Backfill
    BY DEF Sources, Backfill
  <2>3. ASSUME UNCHANGED mode, Backfill => watcher' # "tailing",
               consumer' # "running" \/ (consumer = "running" /\ finished' = finished)
        PROVE  Pacing'
    BY <1>2, <2>2, <2>3 DEF Pacing, AllFinished
  <2>4. CASE UNCHANGED vars
    BY <1>2, <2>3, <2>4 DEF vars, claudeVars, sourceVars, consumerVars, Pacing
  <2>5. CASE ClaudeCode
    BY <1>2, <2>3, <2>5 DEF ClaudeCode, WriteLine, sourceVars, consumerVars, Pacing
  <2>6. CASE Discover \/ EndCatchUp \/ WatcherFails
    BY <1>2, <2>3, <2>6 DEF Discover, EndCatchUp, WatcherFails, consumerVars, Pacing
  <2>7. CASE \E s \in Session : ParseFile(s) \/ ParseTouched(s)
    BY <1>2, <2>3, <2>7 DEF ParseFile, ParseTouched, consumerVars, Pacing
  <2>8. CASE \E p \in OtherSources : OtherEnds(p)
    BY <1>2, <2>3, <2>8 DEF OtherEnds, consumerVars, Pacing
  <2>9. CASE ConsumeEvent
    <3>1. /\ consumer = "running" /\ UNCHANGED <<sourceVars, finished, mode>>
      BY <2>9 DEF ConsumeEvent, ConsumerIdle
    <3>2. QED
      BY <1>2, <2>3, <3>1 DEF sourceVars, Pacing
  <2>10. CASE ConsumeDone
    <3>1. UNCHANGED <<sourceVars, mode>> /\ finished' = finished + 1
      BY <2>10 DEF ConsumeDone
    <3>2. CASE AllFinished(finished + 1)
      <4>1. PICK acc \in Flushed(accumulator) : ConsumerProceeds("flushing", acc.completed)
        BY <2>10, <3>2 DEF ConsumeDone, FlushAndReturn
      <4>2. consumer' # "running"
        BY <4>1, ProceedingConsumer
      <4>3. QED
        BY <1>2, <2>3, <3>1, <4>2 DEF sourceVars, Pacing
    <3>3. CASE ~ AllFinished(finished + 1)
      BY <1>2, <2>2, <3>1, <3>3 DEF sourceVars, Pacing, AllFinished
    <3>4. QED
      BY <3>2, <3>3
  <2>11. CASE Extracted("consumer")
    <3>1. /\ ConsumerProceeds(consumer, ready["consumer"]) /\ working["consumer"] # Nothing
          /\ UNCHANGED <<sourceVars, finished, mode>>
      BY <2>11 DEF Extracted
    <3>2. consumer \in {"running", "flushing"}
      BY <2>1, <3>1 DEF Control
    <3>3. consumer' = "running" => consumer = "running"
      BY <3>1, <3>2, ProceedingConsumer
    <3>4. QED
      BY <1>2, <2>3, <3>1, <3>3 DEF sourceVars, Pacing
  <2>12. ASSUME FlushAndReturn \/ AbandonFlush
         PROVE  consumer' # "running"
    <3>1. CASE FlushAndReturn
      <4>1. PICK acc \in Flushed(accumulator) : ConsumerProceeds("flushing", acc.completed)
        BY <3>1 DEF FlushAndReturn
      <4>2. QED
        BY <4>1, ProceedingConsumer
    <3>2. CASE AbandonFlush
      BY <3>2 DEF AbandonFlush
    <3>3. QED
      BY <2>12, <3>1, <3>2
  <2>13. CASE ConsumerFails
    <3>1. /\ FlushAndReturn \/ AbandonFlush
          /\ UNCHANGED <<sourceVars, mode>>
      BY <2>13 DEF ConsumerFails
    <3>2. QED
      BY <1>2, <2>3, <2>12, <3>1 DEF sourceVars, Pacing
  <2>14. CASE Hook
    BY <1>2, <2>3, <2>14 DEF Hook, Extracted, HookFails, HookFlush, sourceVars, consumerVars, Pacing
  <2>15. CASE EndLoop
    <3>1. watcher' = "ended" /\ CancelConsumer /\ mode' = mode
      BY <2>15 DEF EndLoop
    <3>2. consumer' # "running"
      <4>1. CASE consumer = "returned"
        BY <3>1, <4>1 DEF CancelConsumer
      <4>2. CASE consumer # "returned"
        BY <2>12, <3>1, <4>2 DEF CancelConsumer
      <4>3. QED
        BY <4>1, <4>2
    <3>3. QED
      BY <2>3, <3>1, <3>2
  <2>16. CASE Restart
    <3>1. finished' = 0 /\ watcher' = "starting" /\ mode' = mode
      BY <2>16 DEF Restart
    <3>2. Cardinality(Sources) \in Nat
      BY <2>1, EndedIsBounded
    <3>3. ~ AllFinished(finished)'
      BY <2>2, <3>1, <3>2 DEF AllFinished
    <3>4. QED
      BY <3>1, <3>3 DEF Pacing
  <2>17. QED
    BY <1>2, <2>4, <2>5, <2>6, <2>7, <2>8, <2>9, <2>10, <2>11, <2>13, <2>14, <2>15, <2>16
       DEF Next, Producers, Consumer
<1>3. QED
  BY <1>1, <1>2, HoldsAlways, PTL DEF Spec

\* run_ingest_loop, drain_to_completion: a backfill that has not returned has something
\* to run; with its producers ended and the queue read, the consumer is not still waiting
\* for a sentinel.
THEOREM BackfillGoesOn == Spec => []BackfillNeverHangs
<1>1. ASSUME Holds, Pacing
      PROVE  BackfillNeverHangs
  <2>1. SUFFICES ASSUME Backfill, loop = "running", EventLoopFree, others = {}, ~ ConsumerIdle,
                        working["consumer"] = Nothing, consumer # "returned"
                 PROVE  FALSE
    BY DEF BackfillNeverHangs, SomethingToRun, WaitIsOver
  <2>2. Data /\ Tasks /\ Control /\ Counted
    BY <1>1 DEF Holds, Tasks
  <2>3. watcher = "ended" /\ consumer = "running"
    BY <1>1, <2>1, <2>2 DEF Pacing, Control, EventLoopFree
  <2>4. queue = <<>>
    BY <2>1, <2>3 DEF ConsumerIdle
  <2>5. Dones(queue) = 0
    <3>1. DonesAt(<<>>) = {} /\ Cardinality({}) = 0
      BY FS_EmptySet DEF DonesAt
    <3>2. QED
      BY <2>4, <3>1 DEF Dones
  <2>6. finished \in Nat /\ finished + Dones(queue) = Ended
    BY <2>1, <2>2 DEF Counted
  <2>7. Ended = Cardinality(Sources) + 1 /\ Cardinality(Sources) \in Nat
    <3>1. Cardinality(Sources) \in Nat
      BY <2>2, EndedIsBounded
    <3>2. Sources \ others = Sources
      BY <2>1
    <3>3. QED
      BY <2>3, <3>1, <3>2 DEF Ended
  <2>8. AllFinished(finished)
    BY <2>1, <2>5, <2>6, <2>7 DEF AllFinished
  <2>9. QED
    BY <1>1, <2>1, <2>3, <2>8 DEF Pacing
<1>2. QED
  BY <1>1, HoldsAlways, PacingAlways, PTL

-----------------------------------------------------------------------------
(* In what order the consumer extracts *)

\* The m-th event of a chunk.
EventAt(c, m) == [session |-> c.session, text |-> c.texts[m]]

\* R orders the events of a chunk, those of one before those of another, and a row.
Sorted(R, c) == \A m, n \in DOMAIN c.texts : m < n => <<EventAt(c, m), EventAt(c, n)>> \in R
Before(R, c, d) == \A x \in EventsOf(c) : \A y \in EventsOf(d) : <<x, y>> \in R
InRow(R, row) ==
    \A i \in DOMAIN row :
        /\ Sorted(R, row[i])
        /\ \A j \in DOMAIN row : i < j => Before(R, row[i], row[j])

\* Events of different sessions are ordered either way.
Across(R) == \A x, y \in Event : x.session # y.session => <<x, y>> \in R

\* What is completed comes in a row after the chunks of P, and before what is buffered.
Lined(R, P, acc) ==
    /\ InRow(R, acc.completed)
    /\ \A c \in P : \A d \in ToSet(acc.completed) : Before(R, c, d)
    /\ \A s \in Session : Sorted(R, Held(acc, s))
    /\ \A c \in P \cup ToSet(acc.completed) : \A s \in Session : Before(R, c, Held(acc, s))
    /\ \A c \in P : EventsOf(c) \subseteq acc.absorbed

\* A row grows by a chunk that comes after all of it.
LEMMA RowGrows ==
    ASSUME NEW R, NEW S, NEW row \in Seq(S), NEW c \in S, InRow(R, row), Sorted(R, c),
           \A d \in ToSet(row) : Before(R, d, c)
    PROVE  InRow(R, Append(row, c))
<1> DEFINE more == Append(row, c)
<1>1. /\ DOMAIN more = 1 .. Len(row) + 1 /\ DOMAIN row = 1 .. Len(row) /\ Len(row) \in Nat
      /\ more[Len(row) + 1] = c /\ \A i \in 1 .. Len(row) : more[i] = row[i]
  OBVIOUS
<1>2. \A i \in 1 .. Len(row) : row[i] \in ToSet(row)
  BY <1>1 DEF ToSet
<1> HIDE DEF more
<1>3. ASSUME NEW i \in DOMAIN more
      PROVE  Sorted(R, more[i]) /\ \A j \in DOMAIN more : i < j => Before(R, more[i], more[j])
  <2>1. CASE i = Len(row) + 1
    BY <1>1, <2>1
  <2>2. CASE i \in 1 .. Len(row)
    <3>1. more[i] = row[i] /\ Sorted(R, row[i])
      BY <1>1, <2>2 DEF InRow
    <3>2. ASSUME NEW j \in DOMAIN more, i < j
          PROVE  Before(R, row[i], more[j])
      <4>1. CASE j = Len(row) + 1
        BY <1>1, <1>2, <2>2, <4>1
      <4>2. CASE j \in 1 .. Len(row)
        BY <1>1, <2>2, <3>2, <4>2 DEF InRow
      <4>3. QED
        BY <1>1, <4>1, <4>2
    <3>3. QED
      BY <3>1, <3>2
  <2>3. QED
    BY <1>1, <2>1, <2>2
<1>4. QED
  BY <1>3 DEF InRow, more

\* Emitting keeps what is lined up.
LEMMA EmitLined ==
    ASSUME NEW R, Across(R), NEW P, NEW acc, NEW past, NEW known, Sound(acc, past, known),
           Lined(R, P, acc), NEW s \in Session
    PROVE  Lined(R, P, Emit(acc, s))
<1> DEFINE new == Emit(acc, s)
           chunk == Held(acc, s)
<1>1. acc \in Accumulators /\ acc.completed \in Seq(Chunk)
  BY DEF Sound, Accumulators
<1>2. /\ new.buffer[s] = <<>> /\ new.absorbed = acc.absorbed
      /\ \A r \in Session \ {s} : new.buffer[r] = acc.buffer[r]
  BY <1>1, EmitEffect
<1>3. CASE acc.buffer[s] = <<>>
  <2>1. new = acc
    BY <1>1, <1>3, EmitEffect
  <2>2. QED
    BY <2>1
<1>4. CASE acc.buffer[s] # <<>>
  <2>1. \/ new.completed = acc.completed
        \/ new.completed = Append(acc.completed, chunk)
    BY <1>1, <1>4, EmitEffect
  <2>2. chunk \in Chunk /\ chunk.session = s
    BY <1>1 DEF Held, Chunk, Accumulators
  <2>3. \A r \in Session \ {s} : Held(new, r) = Held(acc, r)
    BY <1>2 DEF Held
  <2>4. EventsOf(Held(new, s)) = {} /\ Sorted(R, Held(new, s))
    <3>1. ToSet(<<>>) = {} /\ DOMAIN <<>> = {}
      BY DEF ToSet
    <3>2. Held(new, s).texts = <<>>
      BY <1>2 DEF Held
    <3>3. QED
      BY <3>1, <3>2 DEF EventsOf, Sorted
  <2>5. \A r \in Session : Sorted(R, Held(new, r))
    BY <2>3, <2>4 DEF Lined
  <2>6. \A c \in P \cup ToSet(acc.completed) : \A r \in Session : Before(R, c, Held(new, r))
    <3>1. \A c : Before(R, c, Held(new, s))
      BY <2>4 DEF Before
    <3>2. QED
      BY <2>3, <3>1 DEF Lined
  <2> HIDE DEF new
  <2>7. CASE new.completed = acc.completed
    <3>1. /\ InRow(R, new.completed)
          /\ \A c \in P : \A d \in ToSet(new.completed) : Before(R, c, d)
      BY <2>7 DEF Lined
    <3>2. \A c \in P : EventsOf(c) \subseteq new.absorbed
      BY <1>2 DEF Lined
    <3>3. QED
      BY <2>5, <2>6, <2>7, <3>1, <3>2 DEF Lined, new
  <2>8. CASE new.completed = Append(acc.completed, chunk)
    <3>1. ToSet(new.completed) = ToSet(acc.completed) \cup {chunk}
      BY <1>1, <2>2, <2>8, HoldsOf
    <3>2. /\ Sorted(R, chunk) /\ \A d \in ToSet(acc.completed) : Before(R, d, chunk)
          /\ \A d \in P : Before(R, d, chunk)
      BY DEF Lined
    <3>3. InRow(R, new.completed)
      <4>1. InRow(R, acc.completed)
        BY DEF Lined
      <4> HIDE DEF chunk
      <4>2. QED
        BY <1>1, <2>2, <2>8, <3>2, <4>1, RowGrows
    <3>4. \A r \in Session : Before(R, chunk, Held(new, r))
      <4>1. ASSUME NEW r \in Session, r # s
            PROVE  Before(R, chunk, Held(new, r))
        <5>1. Held(acc, r) \in Chunk /\ Held(acc, r).session = r
          BY <1>1 DEF Held, Chunk, Accumulators
        <5>2. \A x \in EventsOf(chunk) : x \in Event /\ x.session = s
          <6>1. chunk.texts \in Seq(Text)
            BY <2>2 DEF Chunk
          <6>2. ToSet(chunk.texts) \subseteq Text
            BY <6>1, HoldsOf
          <6>3. QED
            BY <2>2, <6>2 DEF EventsOf, Event
        <5>3. \A y \in EventsOf(Held(acc, r)) : y \in Event /\ y.session = r
          <6>1. Held(acc, r).texts \in Seq(Text)
            BY <5>1 DEF Chunk
          <6>2. ToSet(Held(acc, r).texts) \subseteq Text
            BY <6>1, HoldsOf
          <6>3. QED
            BY <5>1, <6>2 DEF EventsOf, Event
        <5> HIDE DEF chunk
        <5>4. Before(R, chunk, Held(acc, r))
          <6>1. ASSUME NEW x \in EventsOf(chunk), NEW y \in EventsOf(Held(acc, r))
                PROVE  <<x, y>> \in R
            <7>1. x \in Event /\ y \in Event /\ x.session # y.session
              BY <4>1, <5>2, <5>3
            <7>2. QED
              BY <7>1 DEF Across
          <6>2. QED
            BY <6>1 DEF Before
        <5>5. QED
          BY <2>3, <4>1, <5>4
      <4>2. Before(R, chunk, Held(new, s))
        BY <2>4 DEF Before
      <4>3. QED
        BY <4>1, <4>2
    <3> HIDE DEF chunk
    <3>5. \A c \in P : \A d \in ToSet(new.completed) : Before(R, c, d)
      BY <3>1, <3>2 DEF Lined
    <3>6. \A c \in P \cup ToSet(new.completed) : \A r \in Session : Before(R, c, Held(new, r))
      BY <2>6, <3>1, <3>4
    <3>7. \A c \in P : EventsOf(c) \subseteq new.absorbed
      BY <1>2 DEF Lined
    <3>8. QED
      BY <2>5, <3>3, <3>5, <3>6, <3>7 DEF Lined, new
  <2>9. QED
    BY <2>1, <2>7, <2>8 DEF new
<1>5. QED
  BY <1>3, <1>4

\* What is completed was absorbed.
LEMMA CompletedAbsorbed ==
    ASSUME NEW acc, NEW past, NEW known, Sound(acc, past, known)
    PROVE  \A c \in ToSet(acc.completed) : EventsOf(c) \subseteq acc.absorbed
<1>1. ASSUME NEW c \in ToSet(acc.completed), NEW x \in EventsOf(c)
      PROVE  x \in acc.absorbed
  <2>1. Within(acc, x)
    BY <1>1 DEF Within, Leaving
  <2>2. x \in Event
    <3>1. acc.completed \in Seq(Chunk)
      BY DEF Sound, Accumulators
    <3>2. c \in Chunk
      BY <3>1, HoldsOf
    <3>3. c.session \in Session /\ ToSet(c.texts) \subseteq Text
      <4>1. c.texts \in Seq(Text) /\ c.session \in Session
        BY <3>2 DEF Chunk
      <4>2. QED
        BY <4>1, HoldsOf
    <3>4. QED
      BY <3>3 DEF EventsOf, Event
  <2>3. QED
    BY <2>1, <2>2 DEF Sound
<1>2. QED
  BY <1>1

\* So does putting an event into a buffer, after all that was absorbed.
LEMMA PutLined ==
    ASSUME NEW R, NEW P, NEW acc, NEW past, NEW known, Sound(acc, past, known),
           Lined(R, P, acc), NEW e \in Event, \A x \in acc.absorbed : <<x, e>> \in R
    PROVE  Lined(R, P, Put(acc, e))
<1> DEFINE new == Put(acc, e)
           s == e.session
           old == Held(acc, s)
           held == Held(new, s)
<1>1. acc \in Accumulators /\ s \in Session /\ e.text \in Text /\ acc.buffer[s] \in Seq(Text)
  BY DEF Sound, Event, Accumulators
<1>2. /\ new.buffer[s] = Append(acc.buffer[s], e.text)
      /\ new.absorbed = acc.absorbed \cup {e}
      /\ \A r \in Session \ {s} : new.buffer[r] = acc.buffer[r]
      /\ new.completed = acc.completed
  BY <1>1, PutEffect
<1>3. \A r \in Session \ {s} : Held(new, r) = Held(acc, r)
  BY <1>2 DEF Held
<1>4. e = [session |-> s, text |-> e.text]
  BY DEF Event
<1>5. old.session = s /\ held.session = s /\ old.texts = acc.buffer[s] /\ held.texts = Append(old.texts, e.text)
  BY <1>2 DEF Held
<1> HIDE DEF new, held, old
<1>6. EventsOf(held) = EventsOf(old) \cup {e}
  <2>1. ToSet(held.texts) = ToSet(old.texts) \cup {e.text}
    BY <1>1, <1>5, HoldsOf
  <2>2. EventsOf(held) = {[session |-> s, text |-> t] : t \in ToSet(held.texts)}
        /\ EventsOf(old) = {[session |-> s, text |-> t] : t \in ToSet(old.texts)}
    BY <1>5 DEF EventsOf
  <2>3. QED
    BY <1>4, <2>1, <2>2
<1>7. ASSUME NEW c, EventsOf(c) \subseteq acc.absorbed, Before(R, c, old)
      PROVE  Before(R, c, held)
  BY <1>6, <1>7 DEF Before
<1>8. \A x \in EventsOf(old) : x \in acc.absorbed
  <2>1. \A x \in EventsOf(old) : x \in Event
    <3>1. ToSet(old.texts) \subseteq Text
      BY <1>1, <1>5, HoldsOf
    <3>2. QED
      BY <1>1, <1>5, <3>1 DEF EventsOf, Event
  <2>2. \A x \in EventsOf(old) : Within(acc, x)
    BY <1>1 DEF Within, old
  <2>3. QED
    BY <2>1, <2>2 DEF Sound
<1>9. Sorted(R, held)
  <2>1. Sorted(R, old)
    BY <1>1 DEF Lined, old
  <2> DEFINE N == Len(old.texts)
  <2>2. /\ DOMAIN held.texts = 1 .. N + 1 /\ DOMAIN old.texts = 1 .. N /\ N \in Nat
        /\ held.texts[N + 1] = e.text /\ \A i \in 1 .. N : held.texts[i] = old.texts[i]
    BY <1>1, <1>5
  <2>3. \A i \in 1 .. N : EventAt(held, i) = EventAt(old, i)
    BY <1>5, <2>2 DEF EventAt
  <2>4. EventAt(held, N + 1) = e
    BY <1>4, <1>5, <2>2 DEF EventAt
  <2>5. \A i \in 1 .. N : EventAt(old, i) \in EventsOf(old)
    BY <1>5, <2>2 DEF EventAt, EventsOf, ToSet
  <2> HIDE DEF N
  <2>6. ASSUME NEW m \in DOMAIN held.texts, NEW n \in DOMAIN held.texts, m < n
        PROVE  <<EventAt(held, m), EventAt(held, n)>> \in R
    <3>1. m \in 1 .. N
      BY <2>2, <2>6
    <3>2. CASE n \in 1 .. N
      BY <2>1, <2>2, <2>3, <2>6, <3>1, <3>2 DEF Sorted
    <3>3. CASE n = N + 1
      <4>1. EventAt(held, m) \in acc.absorbed /\ EventAt(held, n) = e
        BY <1>8, <2>3, <2>4, <2>5, <3>1, <3>3
      <4>2. QED
        BY <4>1
    <3>4. QED
      BY <2>2, <3>2, <3>3
  <2>7. QED
    BY <2>6 DEF Sorted
<1>10. \A c \in ToSet(acc.completed) : EventsOf(c) \subseteq acc.absorbed
  BY CompletedAbsorbed
<1>11. \A r \in Session : Sorted(R, Held(new, r))
  BY <1>3, <1>9 DEF Lined, held
<1>12. \A c \in P \cup ToSet(acc.completed) : \A r \in Session : Before(R, c, Held(new, r))
  <2>1. ASSUME NEW c \in P \cup ToSet(acc.completed), NEW r \in Session
        PROVE  Before(R, c, Held(new, r))
    <3>1. Before(R, c, Held(acc, r)) /\ EventsOf(c) \subseteq acc.absorbed
      BY <1>10 DEF Lined
    <3>2. CASE r = s
      BY <1>7, <3>1, <3>2 DEF held, old
    <3>3. CASE r # s
      BY <1>3, <3>1, <3>3
    <3>4. QED
      BY <3>2, <3>3
  <2>2. QED
    BY <2>1
<1>13. Lined(R, P, new)
  BY <1>2, <1>11, <1>12 DEF Lined
<1>14. QED
  BY <1>13 DEF new

\* What is lined up with P is with any part of it.
LEMMA LinedShrinks ==
    ASSUME NEW R, NEW P, NEW Q \in SUBSET P, NEW acc, Lined(R, P, acc)
    PROVE  Lined(R, Q, acc)
  BY DEF Lined

\* So is an accumulator that hands over what it completed.
LEMMA RestLined ==
    ASSUME NEW R, NEW P, NEW acc, NEW past, NEW known, Sound(acc, past, known), Small(acc),
           Lined(R, P, acc)
    PROVE  Lined(R, P \cup ToSet(acc.completed), AtRest(acc))
<1> DEFINE new == AtRest(acc)
           handed == ToSet(acc.completed)
<1>1. new.absorbed = acc.absorbed /\ new.buffer = acc.buffer
  BY RestSound
<1>2. new.completed = <<>>
  <2>1. acc = [absorbed |-> acc.absorbed, buffer |-> acc.buffer, emitted |-> acc.emitted,
               completed |-> acc.completed, suppressed |-> acc.suppressed]
    BY DEF Sound, Accumulators
  <2>2. QED
    BY <2>1 DEF AtRest
<1>3. \A c \in handed : EventsOf(c) \subseteq acc.absorbed
  BY CompletedAbsorbed
<1>4. \A s : Held(new, s) = Held(acc, s)
  BY <1>1 DEF Held
<1> HIDE DEF new
<1>5. InRow(R, new.completed) /\ ToSet(new.completed) = {}
  BY <1>2 DEF InRow, ToSet
<1>6. \A s \in Session : Sorted(R, Held(new, s))
  BY <1>4 DEF Lined
<1>7. \A c \in P \cup handed : \A s \in Session : Before(R, c, Held(new, s))
  BY <1>4 DEF Lined
<1>8. \A c \in P \cup handed : EventsOf(c) \subseteq new.absorbed
  BY <1>1, <1>3 DEF Lined
<1> HIDE DEF handed
<1>9. Lined(R, P \cup handed, new)
  BY <1>5, <1>6, <1>7, <1>8 DEF Lined
<1>10. QED
  BY <1>9 DEF new, handed

\* add keeps what is lined up if the event, when it is new, comes after all before it.
LEMMA AddLined ==
    ASSUME NEW R, Across(R), NEW P, NEW acc, NEW past, NEW known, Sound(acc, past, known),
           Small(acc), Lined(R, P, acc), NEW e \in Event,
           e \notin acc.absorbed => \A x \in acc.absorbed : <<x, e>> \in R
    PROVE  Lined(R, P, Add(acc, e))
<1> DEFINE A == {a \in Accumulators : Sound(a, past, known) /\ Lined(R, P, a)}
<1>1. A \subseteq Accumulators /\ acc \in A
  BY DEF Sound
<1>2. \A a \in A : \A s \in Session : Emit(a, s) \in A
  BY EmitSound, EmitEffect, EmitLined
<1>3. ASSUME NEW a \in A, a.absorbed = acc.absorbed, e \notin a.absorbed,
             Len(a.buffer[e.session]) < MaxMessages, ~ Overflows(a.buffer[e.session], e.text)
      PROVE  Put(a, e) \in A
  <2>1. Sound(a, past, known) /\ Lined(R, P, a)
    OBVIOUS
  <2>2. Sound(Put(a, e), past, known)
    BY <1>3, <2>1, PutSound
  <2>3. Lined(R, P, Put(a, e))
    BY <1>3, <2>1, PutLined
  <2>4. QED
    BY <2>2, <2>3 DEF Sound
<1>4. \A a \in A : Lined(R, P, a)
  OBVIOUS
<1> HIDE DEF A
<1>5. \A a \in A : a.absorbed = acc.absorbed /\ e \notin a.absorbed
                     /\ Len(a.buffer[e.session]) < MaxMessages
                     /\ ~ Overflows(a.buffer[e.session], e.text)
                     => Put(a, e) \in A
  BY <1>3
<1>6. Add(acc, e) \in A
  BY <1>1, <1>2, <1>5, AddStays
<1>7. QED
  BY <1>4, <1>6

\* So does a flush.
LEMMA FlushLined ==
    ASSUME NEW R, Across(R), NEW P, NEW acc, NEW past, NEW known, Sound(acc, past, known),
           Lined(R, P, acc), NEW new \in Flushed(acc)
    PROVE  Lined(R, P, new)
<1> DEFINE A == {a \in Accumulators : Sound(a, past, known) /\ Lined(R, P, a)}
<1>1. A \subseteq Accumulators /\ acc \in A
  BY DEF Sound
<1>2. \A a \in A : \A s \in Session : Emit(a, s) \in A
  BY EmitSound, EmitEffect, EmitLined
<1>3. \A a \in A : Lined(R, P, a)
  OBVIOUS
<1> HIDE DEF A
<1>4. PICK order \in SetToSeqs(Session) : new = EmitAll(acc, order)
  BY DEF Flushed
<1>5. new \in A
  BY <1>1, <1>2, <1>4, EmitAllStays
<1>6. QED
  BY <1>3, <1>5

\* What is stored comes in a row, as does what is still to be, after it.
Aligned(R, done, rest) ==
    /\ InRow(R, done) /\ InRow(R, rest)
    /\ \A c \in ToSet(done) : \A d \in ToSet(rest) : Before(R, c, d)

\* It does whatever is left out at the front.
LEMMA CutAligned ==
    ASSUME NEW R, NEW S, NEW done, NEW chunks \in Seq(S), Aligned(R, done, chunks),
           NEW n \in 1 .. Len(chunks) + 1
    PROVE  /\ Aligned(R, done, SubSeq(chunks, n, Len(chunks)))
           /\ ToSet(SubSeq(chunks, n, Len(chunks))) \subseteq ToSet(chunks)
<1> DEFINE N == Len(chunks)
           rest == SubSeq(chunks, n, N)
<1>1. N \in Nat /\ DOMAIN chunks = 1 .. N
  OBVIOUS
<1>2. /\ DOMAIN rest = 1 .. N - n + 1
      /\ \A i \in 1 .. N - n + 1 : rest[i] = chunks[n + i - 1] /\ n + i - 1 \in 1 .. N
  BY <1>1
<1> HIDE DEF rest, N
<1>3. ToSet(rest) \subseteq ToSet(chunks)
  BY <1>1, <1>2 DEF ToSet
<1>4. InRow(R, rest)
  <2>1. InRow(R, chunks)
    BY DEF Aligned
  <2>2. ASSUME NEW i \in DOMAIN rest
        PROVE  Sorted(R, rest[i]) /\ \A j \in DOMAIN rest : i < j => Before(R, rest[i], rest[j])
    <3>1. Sorted(R, rest[i])
      BY <1>1, <1>2, <2>1 DEF InRow
    <3>2. ASSUME NEW j \in DOMAIN rest, i < j
          PROVE  Before(R, rest[i], rest[j])
      <4>1. /\ rest[i] = chunks[n + i - 1] /\ n + i - 1 \in DOMAIN chunks
            /\ rest[j] = chunks[n + j - 1] /\ n + j - 1 \in DOMAIN chunks
            /\ n + i - 1 < n + j - 1
        BY <1>1, <1>2, <3>2
      <4>2. QED
        BY <2>1, <4>1 DEF InRow
    <3>3. QED
      BY <3>1, <3>2
  <2>3. QED
    BY <2>2 DEF InRow
<1>5. Aligned(R, done, rest)
  BY <1>3, <1>4 DEF Aligned
<1>6. QED
  BY <1>3, <1>5 DEF rest, N

\* And when the first that was still to be stored is.
LEMMA ShiftAligned ==
    ASSUME NEW R, NEW S, NEW done \in Seq(S), NEW c \in S, NEW rest \in Seq(S),
           Aligned(R, done, <<c>> \o rest)
    PROVE  Aligned(R, Append(done, c), rest)
<1> DEFINE N == Len(rest)
           all == <<c>> \o rest
           more == Append(done, c)
<1>1. /\ N \in Nat /\ DOMAIN rest = 1 .. N /\ DOMAIN all = 1 .. N + 1 /\ all[1] = c
      /\ \A i \in 1 .. N : all[i + 1] = rest[i]
  OBVIOUS
<1>2. ToSet(more) = ToSet(done) \cup {c}
  BY HoldsOf
<1> HIDE DEF all, N, more
<1>3. InRow(R, done) /\ InRow(R, all) /\ \A x \in ToSet(done) : \A y \in ToSet(all) : Before(R, x, y)
  BY DEF Aligned, all
<1>4. c \in ToSet(all) /\ \A i \in 1 .. N : i + 1 \in DOMAIN all /\ rest[i] \in ToSet(all)
  <2>1. 1 \in DOMAIN all /\ \A i \in 1 .. N : i + 1 \in DOMAIN all
    BY <1>1
  <2>2. QED
    BY <1>1, <2>1 DEF ToSet
<1>5. Sorted(R, c) /\ \A i \in 1 .. N : Before(R, c, rest[i])
  <2>1. 1 \in DOMAIN all
    BY <1>1
  <2>2. \A i \in 1 .. N : 1 < i + 1
    BY <1>1
  <2>3. QED
    BY <1>1, <1>3, <1>4, <2>1, <2>2 DEF InRow
<1>6. InRow(R, more)
  BY <1>3, <1>4, <1>5, RowGrows DEF more
<1>7. InRow(R, rest)
  <2>1. ASSUME NEW i \in 1 .. N
        PROVE  Sorted(R, rest[i]) /\ \A j \in 1 .. N : i < j => Before(R, rest[i], rest[j])
    <3>1. \A j \in 1 .. N : i < j => i + 1 < j + 1
      BY <1>1
    <3>2. QED
      BY <1>1, <1>3, <1>4, <3>1 DEF InRow
  <2>2. QED
    BY <1>1, <2>1 DEF InRow
<1>8. \A d \in ToSet(rest) : \E i \in 1 .. N : d = rest[i]
  BY <1>1 DEF ToSet
<1>9. \A x \in ToSet(more) : \A d \in ToSet(rest) : Before(R, x, d)
  BY <1>2, <1>3, <1>4, <1>5, <1>8
<1>10. QED
  BY <1>6, <1>7, <1>9 DEF Aligned, more

\* The events in the queue come in order, and after all that was absorbed.
QueuedIn(R, q, absorbed) ==
    /\ \A i, j \in DOMAIN q : i < j /\ q[i] # Done /\ q[j] # Done => <<q[i], q[j]>> \in R
    /\ \A x \in absorbed : \A y \in ToSet(q) : y # Done => <<x, y>> \in R

\* They do when the first leaves and is absorbed.
LEMMA QueueShrinks ==
    ASSUME NEW R, NEW S, NEW q \in Seq(S), q # <<>>, NEW absorbed, QueuedIn(R, q, absorbed),
           NEW more, more \subseteq absorbed \cup ({Head(q)} \ {Done})
    PROVE  QueuedIn(R, Tail(q), more)
<1> DEFINE N == Len(q)
           rest == Tail(q)
<1>1. /\ N \in Nat \ {0} /\ DOMAIN q = 1 .. N /\ DOMAIN rest = 1 .. N - 1 /\ Head(q) = q[1]
      /\ \A i \in 1 .. N - 1 : rest[i] = q[i + 1] /\ i + 1 \in 1 .. N /\ 1 < i + 1
  OBVIOUS
<1>2. 1 \in DOMAIN q
  BY <1>1
<1> HIDE DEF N, rest
<1>3. ASSUME NEW i \in DOMAIN rest, NEW j \in DOMAIN rest, i < j, rest[i] # Done, rest[j] # Done
      PROVE  <<rest[i], rest[j]>> \in R
  <2>1. rest[i] = q[i + 1] /\ rest[j] = q[j + 1] /\ i + 1 < j + 1
        /\ i + 1 \in DOMAIN q /\ j + 1 \in DOMAIN q
    BY <1>1, <1>3
  <2>2. QED
    BY <1>3, <2>1 DEF QueuedIn
<1>4. ASSUME NEW x \in more, NEW y \in ToSet(rest), y # Done
      PROVE  <<x, y>> \in R
  <2>1. PICK i \in 1 .. N - 1 : y = q[i + 1]
    BY <1>1 DEF ToSet
  <2>2. i + 1 \in DOMAIN q /\ 1 < i + 1 /\ y \in ToSet(q)
    BY <1>1, <2>1 DEF ToSet
  <2>3. CASE x \in absorbed
    BY <1>4, <2>2, <2>3 DEF QueuedIn
  <2>4. CASE x = q[1] /\ x # Done
    BY <1>2, <1>4, <2>1, <2>2, <2>4 DEF QueuedIn
  <2>5. QED
    BY <1>1, <2>3, <2>4
<1>5. QED
  BY <1>3, <1>4 DEF QueuedIn, rest

\* And when more follow that come after all of these.
LEMMA QueueGrows ==
    ASSUME NEW R, NEW S, NEW q \in Seq(S), NEW absorbed, QueuedIn(R, q, absorbed),
           NEW new \in Seq(S), NEW before, QueuedIn(R, new, before),
           absorbed \cup (ToSet(q) \ {Done}) \subseteq before
    PROVE  QueuedIn(R, q \o new, absorbed)
<1> DEFINE N == Len(q)
           M == Len(new)
           all == q \o new
<1>1. /\ N \in Nat /\ M \in Nat /\ DOMAIN q = 1 .. N /\ DOMAIN new = 1 .. M /\ DOMAIN all = 1 .. N + M
      /\ \A i \in 1 .. N + M : all[i] = IF i <= N THEN q[i] ELSE new[i - N]
  OBVIOUS
<1>2. ToSet(all) = ToSet(q) \cup ToSet(new)
  BY HoldsOf
<1> HIDE DEF N, M, all
<1>3. /\ \A i \in 1 .. N : q[i] \in ToSet(q)
      /\ \A i \in 1 .. M : new[i] \in ToSet(new)
  BY <1>1 DEF ToSet
<1>4. ASSUME NEW i \in DOMAIN all, NEW j \in DOMAIN all, i < j, all[i] # Done, all[j] # Done
      PROVE  <<all[i], all[j]>> \in R
  <2>1. CASE j <= N
    <3>1. /\ i \in DOMAIN q /\ j \in DOMAIN q /\ all[i] = q[i] /\ all[j] = q[j]
      BY <1>1, <1>4, <2>1
    <3>2. QED
      BY <1>4, <3>1 DEF QueuedIn
  <2>2. CASE i <= N /\ ~(j <= N)
    <3>1. i \in 1 .. N /\ j - N \in 1 .. M /\ all[i] = q[i] /\ all[j] = new[j - N]
      BY <1>1, <1>4, <2>2
    <3>2. all[i] \in before /\ all[j] \in ToSet(new)
      BY <1>3, <1>4, <3>1
    <3>3. QED
      BY <1>4, <3>2 DEF QueuedIn
  <2>3. CASE ~(i <= N)
    <3>1. /\ i - N \in DOMAIN new /\ j - N \in DOMAIN new /\ i - N < j - N
          /\ all[i] = new[i - N] /\ all[j] = new[j - N]
      BY <1>1, <1>4, <2>3
    <3>2. QED
      BY <1>4, <3>1 DEF QueuedIn
  <2>4. QED
    BY <2>1, <2>2, <2>3
<1>5. ASSUME NEW x \in absorbed, NEW y \in ToSet(all), y # Done
      PROVE  <<x, y>> \in R
  BY <1>2, <1>5 DEF QueuedIn
<1>6. QED
  BY <1>4, <1>5 DEF QueuedIn, all

\* The chunks the consumer has in hand, as they will be stored.
Hand ==
    IF working["consumer"] = Nothing THEN <<>> ELSE <<working["consumer"]>> \o ready["consumer"]

\* What the consumer stored, has in hand and has buffered comes in order.
OrderedIn(R, done, hand, acc) ==
    Aligned(R, done, hand) /\ Lined(R, ToSet(done) \cup ToSet(hand), acc)

\* Going on to the n-th of chunks it has that one in hand and those that follow.
LEMMA HandAfter ==
    ASSUME NEW chunks \in Seq(Chunk), NEW n \in 1 .. Len(chunks) + 1,
           ProceedsTo("consumer", chunks, n)
    PROVE  Hand' = SubSeq(chunks, n, Len(chunks))
<1> DEFINE N == Len(chunks)
           rest == SubSeq(chunks, n + 1, N)
           all == SubSeq(chunks, n, N)
<1>1. N \in Nat /\ \A i \in 1 .. N : chunks[i] \in Chunk
  OBVIOUS
<1>2. Nothing \notin Chunk
  BY IngestAssumption DEF Chunk
<1>3. CASE n = N + 1
  <2>1. all = <<>>
    BY <1>1, <1>3
  <2>2. working'["consumer"] = Nothing
    BY <1>1, <1>3 DEF ProceedsTo
  <2>3. QED
    BY <2>1, <2>2 DEF Hand
<1>4. CASE n \in 1 .. N
  <2>1. /\ working'["consumer"] = chunks[n] /\ ready'["consumer"] = rest /\ chunks[n] # Nothing
    BY <1>1, <1>2, <1>4 DEF ProceedsTo
  <2>2. Hand' = <<chunks[n]>> \o rest
    BY <2>1 DEF Hand
  <2>3. N \in n .. N
    BY <1>1, <1>4
  <2>4. all = <<chunks[n]>> \o rest
    BY <1>4, <2>3, SubSeqRecursiveFirst
  <2>5. QED
    BY <2>2, <2>4
<1>5. QED
  BY <1>1, <1>3, <1>4

\* The consumer goes on with what an accumulator hands it, in order.
LEMMA HandsOver ==
    ASSUME NEW R, Data, NEW done \in Seq(Chunk), NEW acc, NEW past, NEW known,
           Sound(acc, past, known), Small(acc), InRow(R, done), Lined(R, ToSet(done), acc),
           accumulator' = AtRest(acc), Proceed("consumer", acc.completed)
    PROVE  OrderedIn(R, done, Hand', accumulator')
<1> DEFINE chunks == acc.completed
<1>1. chunks \in Seq(Chunk)
  BY DEF Sound, Accumulators
<1>2. Aligned(R, done, chunks)
  BY DEF Aligned, Lined
<1>3. Lined(R, ToSet(done) \cup ToSet(chunks), accumulator')
  BY RestLined
<1> HIDE DEF chunks
<1>4. PICK n \in 1 .. Len(chunks) + 1 : ProceedsTo("consumer", chunks, n)
  <2>1. "consumer" \in Callers /\ ready \in Ready /\ working \in Working
    BY DEF Callers, Data
  <2>2. QED
    BY <1>1, <2>1, ProceedEffect DEF chunks
<1>5. Hand' = SubSeq(chunks, n, Len(chunks))
  BY <1>1, <1>4, HandAfter
<1>6. Aligned(R, done, Hand') /\ ToSet(Hand') \subseteq ToSet(chunks)
  BY <1>1, <1>2, <1>5, CutAligned
<1>7. Lined(R, ToSet(done) \cup ToSet(Hand'), accumulator')
  <2>1. ToSet(done) \cup ToSet(Hand') \in SUBSET (ToSet(done) \cup ToSet(chunks))
    BY <1>6
  <2>2. QED
    BY <1>3, <2>1, LinedShrinks
<1>8. QED
  BY <1>6, <1>7 DEF OrderedIn

\* Every step but a restart and the growing of a file keeps the consumer's order; the
\* order R itself does not change.
LEMMA OrderStep ==
    ASSUME NEW R, Across(R), Data, Kept, QueuedIn(R, queue, accumulator.absorbed),
           OrderedIn(R, extracted["consumer"], Hand, accumulator),
           \/ ConsumeEvent \/ ConsumerFlushes \/ Abandons \/ HookFails
           \/ (\E s \in Session : HookFlush(s)) \/ (\E a \in Callers : Extracted(a))
           \/ UNCHANGED <<serviceVars, storeVars, accumulator>>
    PROVE  OrderedIn(R, extracted'["consumer"], Hand', accumulator')
<1> DEFINE done == extracted["consumer"]
           past == EventsIn(Mine)
           known == TextsOf(Started)
<1>1. /\ "consumer" \in Callers /\ "hook" \in Callers /\ done \in Seq(Chunk)
      /\ ready \in Ready /\ working \in Working
  BY DEF Callers, Data
<1>2. Sound(accumulator, past, known) /\ Small(accumulator)
  BY DEF Kept, AccumulatorKept
<1>3. /\ Aligned(R, done, Hand) /\ Lined(R, ToSet(done) \cup ToSet(Hand), accumulator)
      /\ InRow(R, done) /\ Lined(R, ToSet(done), accumulator)
  <2>1. ToSet(done) \in SUBSET (ToSet(done) \cup ToSet(Hand))
    OBVIOUS
  <2>2. QED
    BY <2>1, LinedShrinks DEF OrderedIn, Aligned
<1>4. ASSUME UNCHANGED <<working, ready, extracted, accumulator>>
      PROVE  OrderedIn(R, extracted'["consumer"], Hand', accumulator')
  BY <1>4 DEF Hand
<1>5. ASSUME working'["consumer"] = working["consumer"], ready'["consumer"] = ready["consumer"],
             extracted'["consumer"] = done, accumulator' = accumulator
      PROVE  OrderedIn(R, extracted'["consumer"], Hand', accumulator')
  BY <1>5 DEF Hand
<1> HIDE DEF done, past, known
<1>6. CASE ConsumeEvent
  <2> DEFINE e == Head(queue)
             acc == Add(accumulator, e)
  <2>1. /\ queue # <<>> /\ e # Done /\ working["consumer"] = Nothing
        /\ accumulator' = AtRest(acc) /\ Proceed("consumer", acc.completed) /\ extracted' = extracted
    BY <1>6 DEF ConsumeEvent, ConsumerIdle, ConsumerProceeds, storeVars
  <2>2. e \in Event /\ e \in ToSet(queue)
    <3>1. queue \in Seq(Event \cup {Done})
      BY DEF Data
    <3>2. e \in ToSet(queue) /\ ToSet(queue) \subseteq Event \cup {Done}
      BY <2>1, <3>1, HoldsOf
    <3>3. QED
      BY <2>1, <3>2
  <2>3. \A x \in accumulator.absorbed : <<x, e>> \in R
    BY <2>1, <2>2 DEF QueuedIn
  <2>4. Sound(acc, past, known) /\ Small(acc)
    BY <1>2, <2>2, AddSound
  <2>5. Lined(R, ToSet(done), acc)
    BY <1>2, <1>3, <2>2, <2>3, AddLined
  <2> HIDE DEF acc, e
  <2>6. OrderedIn(R, done, Hand', accumulator')
    BY <1>1, <1>3, <2>1, <2>4, <2>5, HandsOver
  <2>7. QED
    BY <2>1, <2>6 DEF done
<1>7. CASE ConsumerFlushes
  <2>1. PICK acc \in Flushed(accumulator) :
          accumulator' = AtRest(acc) /\ Proceed("consumer", acc.completed)
    BY <1>7 DEF ConsumerFlushes, FlushAndReturn, ConsumerProceeds
  <2>2. extracted' = extracted
    BY <1>7 DEF ConsumerFlushes
  <2>3. Sound(acc, past, known) /\ Small(acc)
    BY <1>2, FlushSound
  <2>4. Lined(R, ToSet(done), acc)
    BY <1>2, <1>3, FlushLined
  <2>5. OrderedIn(R, done, Hand', accumulator')
    BY <1>1, <1>3, <2>1, <2>3, <2>4, HandsOver
  <2>6. QED
    BY <2>2, <2>5 DEF done
<1>8. CASE Abandons
  <2>1. /\ working' = [working EXCEPT !["consumer"] = Nothing] /\ accumulator' = accumulator
        /\ extracted' = extracted
    BY <1>8 DEF Abandons, AbandonFlush
  <2>2. working'["consumer"] = Nothing
    BY <1>1, <2>1 DEF Working
  <2>3. Hand' = <<>> /\ ToSet(<<>>) = {} /\ InRow(R, <<>>)
    BY <2>2 DEF Hand, ToSet, InRow
  <2>4. Aligned(R, done, <<>>)
    BY <1>3, <2>3 DEF Aligned
  <2>5. ToSet(done) \cup ToSet(<<>>) = ToSet(done)
    BY <2>3
  <2>6. OrderedIn(R, done, <<>>, accumulator)
    BY <1>3, <2>4, <2>5 DEF OrderedIn
  <2>7. QED
    BY <2>1, <2>3, <2>6 DEF done
<1>9. CASE HookFails
  <2>1. /\ ready' = [ready EXCEPT !["hook"] = <<>>] /\ working' = [working EXCEPT !["hook"] = Nothing]
        /\ accumulator' = accumulator /\ extracted' = extracted
    BY <1>9 DEF HookFails, consumerVars
  <2>2. working'["consumer"] = working["consumer"] /\ ready'["consumer"] = ready["consumer"]
    BY <1>1, <2>1 DEF Working, Ready
  <2>3. QED
    BY <1>5, <2>1, <2>2 DEF done
<1>10. CASE \E s \in Session : HookFlush(s)
  <2>1. PICK s \in Session : HookFlush(s)
    BY <1>10
  <2> DEFINE acc == ChunkEvents(s, transcript[s])
  <2>2. /\ Proceed("hook", acc.completed) /\ extracted' = extracted /\ accumulator' = accumulator
    BY <2>1 DEF HookFlush, storeVars, consumerVars
  <2>3. acc.completed \in Seq(Chunk)
    <3>1. transcript[s] \in Seq(Text)
      BY DEF Data
    <3>2. Sound(acc, Event, Seq(Text))
      BY <3>1, ChunkEventsSound
    <3>3. QED
      BY <3>2 DEF Sound, Accumulators
  <2> HIDE DEF acc
  <2>4. working'["consumer"] = working["consumer"] /\ ready'["consumer"] = ready["consumer"]
    BY <1>1, <2>2, <2>3, ProceedEffect
  <2>5. QED
    BY <1>5, <2>2, <2>4 DEF done
<1>11. CASE Extracted("hook")
  <2>1. /\ Proceed("hook", ready["hook"]) /\ accumulator' = accumulator
        /\ extracted' = [extracted EXCEPT !["hook"] = Append(@, working["hook"])]
    BY <1>11 DEF Extracted, ConsumerProceeds
  <2>2. ready["hook"] \in Seq(Chunk)
    BY <1>1 DEF Ready
  <2>3. working'["consumer"] = working["consumer"] /\ ready'["consumer"] = ready["consumer"]
    BY <1>1, <2>1, <2>2, ProceedEffect
  <2>4. extracted'["consumer"] = done
    BY <1>1, <2>1 DEF done, Data
  <2>5. QED
    BY <1>5, <2>1, <2>3, <2>4
<1>12. CASE Extracted("consumer")
  <2> DEFINE c == working["consumer"]
             chunks == ready["consumer"]
             more == Append(done, c)
  <2>1. /\ Proceed("consumer", chunks) /\ accumulator' = accumulator /\ c # Nothing
        /\ extracted' = [extracted EXCEPT !["consumer"] = Append(@, c)]
    BY <1>12 DEF Extracted, ConsumerProceeds
  <2>2. c \in Chunk /\ chunks \in Seq(Chunk)
    BY <1>1, <2>1 DEF Ready, Working
  <2>3. extracted'["consumer"] = more
    BY <1>1, <2>1 DEF done, Data
  <2>4. Hand = <<c>> \o chunks
    BY <2>1 DEF Hand
  <2> HIDE DEF c, chunks
  <2>5. Aligned(R, more, chunks)
    BY <1>1, <1>3, <2>2, <2>4, ShiftAligned
  <2>6. ToSet(more) \cup ToSet(chunks) = ToSet(done) \cup ToSet(Hand)
    <3> DEFINE first == <<c>>
    <3>1. first \in Seq(Chunk) /\ ToSet(first) = {c} /\ Hand = first \o chunks
      BY <2>2, <2>4 DEF ToSet
    <3> HIDE DEF first
    <3>2. ToSet(first \o chunks) = ToSet(first) \cup ToSet(chunks)
      BY <2>2, <3>1, HoldsOf
    <3>3. ToSet(more) = ToSet(done) \cup {c}
      BY <1>1, <2>2, HoldsOf
    <3>4. QED
      BY <3>1, <3>2, <3>3
  <2>7. PICK n \in 1 .. Len(chunks) + 1 : ProceedsTo("consumer", chunks, n)
    BY <1>1, <2>1, <2>2, ProceedEffect
  <2>8. Hand' = SubSeq(chunks, n, Len(chunks))
    BY <2>2, <2>7, HandAfter
  <2> HIDE DEF more
  <2>9. Aligned(R, more, Hand') /\ ToSet(Hand') \subseteq ToSet(chunks)
    BY <2>2, <2>5, <2>8, CutAligned
  <2>10. Lined(R, ToSet(more) \cup ToSet(Hand'), accumulator')
    <3>1. ToSet(more) \cup ToSet(Hand') \in SUBSET (ToSet(done) \cup ToSet(Hand))
      BY <2>6, <2>9
    <3>2. QED
      BY <1>3, <2>1, <3>1, LinedShrinks
  <2>11. QED
    BY <2>3, <2>9, <2>10 DEF OrderedIn
<1>13. CASE UNCHANGED <<serviceVars, storeVars, accumulator>>
  BY <1>4, <1>13 DEF serviceVars, storeVars
<1>14. QED
  BY <1>6, <1>7, <1>8, <1>9, <1>10, <1>11, <1>12, <1>13 DEF Callers

\* No content is stored twice, or stored and in the works, or in the works of both
\* callers: each is marked before it is taken up.
MarkedOnce ==
    /\ \A a \in Callers : \A i, j \in DOMAIN extracted[a] :
         i # j => extracted[a][i].texts # extracted[a][j].texts
    /\ \A a, b \in Callers : \A c \in ToSet(extracted[a]) : \A d \in ToSet(extracted[b]) :
         a # b => c.texts # d.texts
    /\ \A a \in Callers : \A c \in ToSet(extracted[a]) : c.texts \in seen
    /\ \A a \in Callers : working[a] # Nothing =>
         /\ working[a].texts \in seen
         /\ \A b \in Callers : \A c \in ToSet(extracted[b]) : c.texts # working[a].texts
         /\ \A b \in Callers \ {a} : working[b] # Nothing => working[b].texts # working[a].texts

\* That stays so when a caller stores what it worked on, or drops it, and takes up
\* something that is not marked, or nothing.
LEMMA MarksOnce ==
    ASSUME Data, MarkedOnce, NEW a \in Callers,
           \A b \in Callers \ {a} : working'[b] = working[b] /\ extracted'[b] = extracted[b],
           \/ extracted'[a] = extracted[a]
           \/ working[a] # Nothing /\ extracted'[a] = Append(extracted[a], working[a]),
           \/ working'[a] = Nothing /\ seen' = seen
           \/ working'[a].texts \notin seen /\ seen' = seen \cup {working'[a].texts}
    PROVE  MarkedOnce'
<1> DEFINE old == extracted[a]
           new == extracted'[a]
           was == working[a]
           now == working'[a]
<1>1. old \in Seq(Chunk) /\ was \in Chunk \cup {Nothing}
  BY DEF Data, Working
<1>2. \A c \in ToSet(new) : c \in ToSet(old) \/ (was # Nothing /\ c = was)
  <2>1. was # Nothing => ToSet(Append(old, was)) = ToSet(old) \cup {was}
    BY <1>1, HoldsOf
  <2>2. QED
    BY <2>1
<1>3. \A b \in Callers \ {a} : \A c \in ToSet(extracted[b]) : \A d \in ToSet(new) : c.texts # d.texts
  <2>1. \A b \in Callers \ {a} : \A c \in ToSet(extracted[b]) :
          /\ \A d \in ToSet(old) : c.texts # d.texts
          /\ was # Nothing => c.texts # was.texts
    BY DEF MarkedOnce
  <2> HIDE DEF new, old, was
  <2>2. QED
    BY <1>2, <2>1
<1>4. \A c \in ToSet(new) : c.texts \in seen
  <2>1. /\ \A c \in ToSet(old) : c.texts \in seen
        /\ was # Nothing => was.texts \in seen
    BY DEF MarkedOnce
  <2> HIDE DEF new, old, was
  <2>2. QED
    BY <1>2, <2>1
<1>5. ASSUME NEW i \in DOMAIN new, NEW j \in DOMAIN new, i # j
      PROVE  new[i].texts # new[j].texts
  <2>1. \A k, l \in DOMAIN old : k # l => old[k].texts # old[l].texts
    BY DEF MarkedOnce
  <2>2. CASE new = old
    <3> HIDE DEF new, old
    <3>1. QED
      BY <1>5, <2>1, <2>2
  <2>3. CASE was # Nothing /\ new = Append(old, was)
    <3>1. \A c \in ToSet(old) : c.texts # was.texts
      BY <2>3 DEF MarkedOnce
    <3> HIDE DEF new, old, was
    <3>2. /\ DOMAIN old = 1 .. Len(old) /\ Len(old) \in Nat /\ DOMAIN new = 1 .. Len(old) + 1
          /\ new[Len(old) + 1] = was /\ \A k \in 1 .. Len(old) : new[k] = old[k]
      BY <1>1, <2>3
    <3>3. \A k \in 1 .. Len(old) : old[k].texts # was.texts
      BY <3>1, <3>2 DEF ToSet
    <3>4. CASE i = Len(old) + 1
      BY <1>5, <3>2, <3>3, <3>4
    <3>5. CASE j = Len(old) + 1
      BY <1>5, <3>2, <3>3, <3>5
    <3>6. CASE i \in 1 .. Len(old) /\ j \in 1 .. Len(old)
      BY <1>5, <2>1, <3>2, <3>6
    <3>7. QED
      BY <3>2, <3>4, <3>5, <3>6
  <2>4. QED
    BY <2>2, <2>3
<1>6. ASSUME now # Nothing
      PROVE  now.texts \notin seen /\ now.texts \in seen'
  BY <1>6
<1>7. /\ \A b \in Callers \ {a} : \A c \in ToSet(extracted[b]) : c.texts \in seen
      /\ \A b \in Callers \ {a} : working[b] # Nothing => working[b].texts \in seen
      /\ seen \subseteq seen'
  BY DEF MarkedOnce
<1>8. \A b \in Callers \ {a} : \A d \in ToSet(new) :
        working[b] # Nothing => d.texts # working[b].texts
  <2>1. \A b \in Callers \ {a} : working[b] # Nothing =>
          /\ \A d \in ToSet(old) : d.texts # working[b].texts
          /\ was # Nothing => was.texts # working[b].texts
    BY DEF MarkedOnce
  <2> HIDE DEF new, old, was
  <2>2. QED
    BY <1>2, <2>1
<1>9. PICK b \in Callers : b # a /\ Callers = {a, b}
  BY DEF Callers
<1>10. /\ working'[b] = working[b] /\ extracted'[b] = extracted[b]
       /\ \A i, j \in DOMAIN extracted[b] : i # j => extracted[b][i].texts # extracted[b][j].texts
       /\ working[b] # Nothing => \A c \in ToSet(extracted[b]) : c.texts # working[b].texts
  BY <1>9 DEF MarkedOnce
<1> DEFINE M1 == \A x \in Callers : \A i, j \in DOMAIN extracted'[x] :
                   i # j => extracted'[x][i].texts # extracted'[x][j].texts
           M2 == \A x, y \in Callers : \A c \in ToSet(extracted'[x]) : \A d \in ToSet(extracted'[y]) :
                   x # y => c.texts # d.texts
           M3 == \A x \in Callers : \A c \in ToSet(extracted'[x]) : c.texts \in seen'
           M4 == \A x \in Callers : working'[x] # Nothing =>
                   /\ working'[x].texts \in seen'
                   /\ \A y \in Callers : \A c \in ToSet(extracted'[y]) : c.texts # working'[x].texts
                   /\ \A y \in Callers \ {x} : working'[y] # Nothing => working'[y].texts # working'[x].texts
<1>11. M1
  BY <1>5, <1>9, <1>10
<1>12. M2
  BY <1>3, <1>9, <1>10
<1>13. M3
  BY <1>4, <1>7, <1>9, <1>10
<1>14. M4
  BY <1>4, <1>6, <1>7, <1>8, <1>9, <1>10
<1>15. QED
  BY <1>11, <1>12, <1>13, <1>14 DEF MarkedOnce

\* Every step but a restart keeps it.
LEMMA MarkedStep ==
    ASSUME Data, Kept, MarkedOnce,
           \/ ConsumeEvent \/ ConsumerFlushes \/ Abandons \/ HookFails
           \/ (\E s \in Session : HookFlush(s)) \/ (\E a \in Callers : Extracted(a))
           \/ UNCHANGED <<serviceVars, storeVars>>
    PROVE  MarkedOnce'
<1>1. /\ "consumer" \in Callers /\ "hook" \in Callers /\ ready \in Ready /\ working \in Working
      /\ extracted \in [Callers -> Seq(Chunk)]
  BY DEF Callers, Data
<1>2. ASSUME NEW a \in Callers, NEW chunks \in Seq(Chunk), Proceed(a, chunks),
             \A b \in Callers \ {a} : extracted'[b] = extracted[b],
             \/ extracted'[a] = extracted[a]
             \/ working[a] # Nothing /\ extracted'[a] = Append(extracted[a], working[a])
      PROVE  MarkedOnce'
  <2>1. /\ \A b \in Callers \ {a} : working'[b] = working[b]
        /\ \/ working'[a] = Nothing /\ seen' = seen
           \/ working'[a].texts \notin seen /\ seen' = seen \cup {working'[a].texts}
    BY <1>1, <1>2, ProceedEffect, ProceedSets
  <2>2. QED
    BY <1>2, <2>1, MarksOnce
<1>3. ASSUME NEW a \in Callers, working' = [working EXCEPT ![a] = Nothing], seen' = seen,
             extracted' = extracted
      PROVE  MarkedOnce'
  <2>1. working'[a] = Nothing /\ \A b \in Callers \ {a} : working'[b] = working[b]
    BY <1>1, <1>3 DEF Working
  <2>2. QED
    BY <1>3, <2>1, MarksOnce
<1>4. \A acc, past, known : Sound(acc, past, known) => acc.completed \in Seq(Chunk)
  BY DEF Sound, Accumulators
<1>5. Sound(accumulator, EventsIn(Mine), TextsOf(Started)) /\ Small(accumulator)
  BY DEF Kept, AccumulatorKept
<1>6. CASE ConsumeEvent
  <2> DEFINE e == Head(queue)
             acc == Add(accumulator, e)
  <2>1. /\ queue # <<>> /\ e # Done /\ Proceed("consumer", acc.completed) /\ extracted' = extracted
    BY <1>6 DEF ConsumeEvent, ConsumerIdle, ConsumerProceeds, storeVars
  <2>2. e \in Event
    <3>1. queue \in Seq(Event \cup {Done})
      BY DEF Data
    <3>2. QED
      BY <2>1, <3>1, HoldsOf
  <2>3. acc.completed \in Seq(Chunk)
    BY <1>4, <1>5, <2>2, AddSound
  <2> HIDE DEF acc, e
  <2>4. QED
    BY <1>1, <1>2, <2>1, <2>3
<1>7. CASE ConsumerFlushes
  <2>1. PICK acc \in Flushed(accumulator) : Proceed("consumer", acc.completed)
    BY <1>7 DEF ConsumerFlushes, FlushAndReturn, ConsumerProceeds
  <2>2. extracted' = extracted
    BY <1>7 DEF ConsumerFlushes
  <2>3. acc.completed \in Seq(Chunk)
    BY <1>4, <1>5, FlushSound
  <2>4. QED
    BY <1>1, <1>2, <2>1, <2>2, <2>3
<1>8. CASE Abandons
  BY <1>1, <1>3, <1>8 DEF Abandons, AbandonFlush
<1>9. CASE HookFails
  BY <1>1, <1>3, <1>9 DEF HookFails
<1>10. CASE \E s \in Session : HookFlush(s)
  <2>1. PICK s \in Session : HookFlush(s)
    BY <1>10
  <2> DEFINE acc == ChunkEvents(s, transcript[s])
  <2>2. Proceed("hook", acc.completed) /\ extracted' = extracted
    BY <2>1 DEF HookFlush, storeVars
  <2>3. acc.completed \in Seq(Chunk)
    <3>1. transcript[s] \in Seq(Text)
      BY DEF Data
    <3>2. QED
      BY <1>4, <3>1, ChunkEventsSound
  <2> HIDE DEF acc
  <2>4. QED
    BY <1>1, <1>2, <2>2, <2>3
<1>11. CASE \E a \in Callers : Extracted(a)
  <2>1. PICK a \in Callers : Extracted(a)
    BY <1>11
  <2>2. /\ Proceed(a, ready[a]) /\ working[a] # Nothing
        /\ extracted' = [extracted EXCEPT ![a] = Append(@, working[a])]
    BY <2>1 DEF Extracted, ConsumerProceeds
  <2>3. /\ ready[a] \in Seq(Chunk) /\ extracted'[a] = Append(extracted[a], working[a])
        /\ \A b \in Callers \ {a} : extracted'[b] = extracted[b]
    BY <1>1, <2>2 DEF Ready
  <2>4. QED
    BY <1>2, <2>2, <2>3
<1>12. CASE UNCHANGED <<serviceVars, storeVars>>
  BY <1>12 DEF MarkedOnce, serviceVars, storeVars
<1>13. QED
  BY <1>6, <1>7, <1>8, <1>9, <1>10, <1>11, <1>12

\* What is known of two events of which the first must be extracted before the second:
\* they differ, and a session's come in the order of their first lines unless it is
\* rewritten.
Apart ==
    {p \in Event \X Event :
        /\ p[1] # p[2]
        /\ ~ Rewrites /\ p[1].session = p[2].session =>
             FirstLine(p[1].session, p[1].text) < FirstLine(p[2].session, p[2].text)}

\* What was yielded of a file that only grows is all of it up to some line.
YieldedFromStart ==
    ~ Rewrites => \A x \in yielded :
        /\ x.text \in ToSet(transcript[x.session])
        /\ \A k \in DOMAIN transcript[x.session] :
             k <= FirstLine(x.session, x.text)
               => [session |-> x.session, text |-> transcript[x.session][k]] \in yielded

\* Within one life of the process.
InOrder ==
    restarts = 0 => /\ OrderedIn(Apart, extracted["consumer"], Hand, accumulator)
                    /\ QueuedIn(Apart, queue, accumulator.absorbed)
                    /\ MarkedOnce

\* A file that grows keeps the first line of a text it has.
LEMMA FirstLinesStay ==
    ASSUME NEW lines \in Seq(Text), NEW t \in Text, NEW u \in ToSet(lines)
    PROVE  u \in ToSet(Append(lines, t)) /\ FirstIn(Append(lines, t), u) = FirstIn(lines, u)
<1> DEFINE more == Append(lines, t)
           N == Len(lines)
<1>1. /\ more \in Seq(Text) /\ ToSet(more) = ToSet(lines) \cup {t}
      /\ N \in Nat /\ DOMAIN lines = 1 .. N /\ DOMAIN more = 1 .. N + 1
      /\ more[N + 1] = t /\ \A k \in 1 .. N : more[k] = lines[k]
  BY HoldsOf
<1> DEFINE p == FirstIn(lines, u)
           q == FirstIn(more, u)
<1> HIDE DEF more
<1>2. p \in 1 .. N /\ lines[p] = u /\ \A k \in 1 .. N : lines[k] = u => p <= k
  BY <1>1, FirstInIs
<1>3. u \in ToSet(more)
  BY <1>1
<1>4. q \in 1 .. N + 1 /\ more[q] = u /\ \A k \in 1 .. N + 1 : more[k] = u => q <= k
  BY <1>1, <1>3, FirstInIs
<1> HIDE DEF p, q, N
<1>5. p \in 1 .. N + 1 /\ more[p] = u
  BY <1>1, <1>2
<1>6. q <= p
  BY <1>4, <1>5
<1>7. q \in 1 .. N
  BY <1>1, <1>2, <1>4, <1>6
<1>8. p <= q
  BY <1>1, <1>2, <1>4, <1>7
<1>9. p = q
  BY <1>2, <1>4, <1>6, <1>8 DEF N
<1>10. QED
  BY <1>3, <1>9 DEF p, q, more

\* Without a rewind a line is appended.
LEMMA LineAppended ==
    ASSUME Data, ~ Rewrites, NEW s \in Session, NEW t \in Text, WriteLine(s, t)
    PROVE  transcript' = [transcript EXCEPT ![s] = Append(@, t)]
<1> DEFINE lines == transcript[s]
<1>1. lines \in Seq(Text)
  BY DEF Data
<1>2. transcript' = [transcript EXCEPT ![s] = InsertAt(@, Len(lines) + 1, t)]
  BY DEF WriteLine
<1>3. InsertAt(lines, Len(lines) + 1, t) = Append(lines, t)
  <2> HIDE DEF lines
  <2>1. SubSeq(lines, 1, Len(lines)) = lines
    BY <1>1, SubSeqFull
  <2>2. SubSeq(lines, Len(lines) + 1, Len(lines)) = <<>>
    BY <1>1, SubSeqEmpty
  <2>3. (Len(lines) + 1) - 1 = Len(lines)
    BY <1>1
  <2>4. lines \o <<t>> \o <<>> = Append(lines, t)
    BY <1>1
  <2>5. InsertAt(lines, Len(lines) + 1, t)
          = SubSeq(lines, 1, (Len(lines) + 1) - 1) \o <<t>> \o SubSeq(lines, Len(lines) + 1, Len(lines))
    BY Zenon DEF InsertAt
  <2>6. QED
    BY <2>1, <2>2, <2>3, <2>4, <2>5, Zenon
<1>4. QED
  BY <1>2, <1>3

\* So what is known of yielded events stays.
LEMMA ApartStays ==
    ASSUME Data, YieldedFromStart, NEW s \in Session, NEW t \in Text, WriteLine(s, t)
    PROVE  /\ YieldedFromStart'
           /\ \A x, y \in yielded : <<x, y>> \in Apart => <<x, y>> \in Apart'
<1>1. /\ UNCHANGED <<yielded, mode>> /\ Rewrites' = Rewrites
      /\ yielded \subseteq Event /\ transcript \in [Session -> Seq(Text)]
  BY DEF WriteLine, sourceVars, Rewrites, Data
<1>2. CASE Rewrites
  <2>1. YieldedFromStart'
    BY <1>1, <1>2 DEF YieldedFromStart
  <2>2. Apart = {p \in Event \X Event : p[1] # p[2]}
    BY <1>2 DEF Apart
  <2>3. Apart' = {p \in Event \X Event : p[1] # p[2]}
    BY <1>1, <1>2 DEF Apart
  <2>4. QED
    BY <2>1, <2>2, <2>3
<1>3. CASE ~ Rewrites
  <2> DEFINE lines == transcript[s]
  <2>1. lines \in Seq(Text)
    BY <1>1
  <2>2. transcript' = [transcript EXCEPT ![s] = Append(@, t)]
    BY <1>3, LineAppended
  <2>3. ASSUME NEW r \in Session, NEW u \in ToSet(transcript[r])
        PROVE  /\ u \in ToSet(transcript'[r]) /\ FirstLine(r, u)' = FirstLine(r, u)
               /\ FirstLine(r, u) \in DOMAIN transcript[r]
               /\ \A k \in DOMAIN transcript'[r] : k <= FirstLine(r, u)
                    => k \in DOMAIN transcript[r] /\ transcript'[r][k] = transcript[r][k]
    <3>1. /\ FirstLine(r, u) = FirstIn(transcript[r], u)
          /\ FirstLine(r, u)' = FirstIn(transcript'[r], u)
      BY DEF FirstLine, FirstIn
    <3>2. transcript[r] \in Seq(Text)
      BY <1>1
    <3>3. FirstLine(r, u) \in DOMAIN transcript[r]
      BY <3>2, FirstLineIs
    <3>4. CASE r = s
      <4>1. transcript'[r] = Append(transcript[r], t)
        BY <1>1, <2>2, <3>4
      <4>2. u \in ToSet(transcript'[r]) /\ FirstLine(r, u)' = FirstLine(r, u)
        BY <3>1, <3>2, <4>1, FirstLinesStay
      <4>3. \A k \in DOMAIN Append(transcript[r], t) : k <= FirstLine(r, u)
              => k \in DOMAIN transcript[r] /\ Append(transcript[r], t)[k] = transcript[r][k]
        BY <3>2, <3>3
      <4>4. QED
        BY <3>3, <4>1, <4>2, <4>3
    <3>5. CASE r # s
      <4>1. transcript'[r] = transcript[r]
        BY <1>1, <2>2, <3>5
      <4>2. QED
        BY <3>1, <3>3, <4>1
    <3>6. QED
      BY <3>4, <3>5
  <2>4. \A x \in yielded : x.session \in Session /\ x.text \in ToSet(transcript[x.session])
    BY <1>1, <1>3 DEF YieldedFromStart, Event
  <2>5. ASSUME NEW x \in yielded
        PROVE  /\ x.text \in ToSet(transcript'[x.session])
               /\ \A k \in DOMAIN transcript'[x.session] : k <= FirstLine(x.session, x.text)'
                    => [session |-> x.session, text |-> transcript'[x.session][k]] \in yielded'
    <3>1. \A k \in DOMAIN transcript[x.session] : k <= FirstLine(x.session, x.text)
            => [session |-> x.session, text |-> transcript[x.session][k]] \in yielded
      BY <1>3 DEF YieldedFromStart
    <3> DEFINE r == x.session
               u == x.text
    <3>2. r \in Session /\ u \in ToSet(transcript[r])
      BY <2>4
    <3>3. /\ u \in ToSet(transcript'[r]) /\ FirstLine(r, u)' = FirstLine(r, u)
          /\ \A k \in DOMAIN transcript'[r] : k <= FirstLine(r, u)
               => k \in DOMAIN transcript[r] /\ transcript'[r][k] = transcript[r][k]
      BY <2>3, <3>2
    <3>4. \A k \in DOMAIN transcript'[r] : k <= FirstLine(r, u)'
            => [session |-> r, text |-> transcript'[r][k]] \in yielded
      BY <3>1, <3>3
    <3>5. yielded' = yielded
      BY <1>1
    <3>6. QED
      BY <3>3, <3>4, <3>5
  <2>6. YieldedFromStart'
    BY <1>1, <2>5 DEF YieldedFromStart
  <2>7. ASSUME NEW x \in yielded, NEW y \in yielded, <<x, y>> \in Apart
        PROVE  <<x, y>> \in Apart'
    <3>1. /\ FirstLine(x.session, x.text)' = FirstLine(x.session, x.text)
          /\ FirstLine(y.session, y.text)' = FirstLine(y.session, y.text)
      BY <2>3, <2>4
    <3>2. /\ x # y /\ x \in Event /\ y \in Event
          /\ x.session = y.session =>
               FirstLine(x.session, x.text) < FirstLine(y.session, y.text)
      BY <1>3, <2>7 DEF Apart
    <3>3. QED
      BY <3>1, <3>2 DEF Apart
  <2>8. QED
    BY <2>6, <2>7
<1>4. QED
  BY <1>2, <1>3

\* What an order says of absorbed events is enough.
LEMMA OrderedAlike ==
    ASSUME NEW R, NEW Q, NEW done \in Seq(Chunk), NEW hand \in Seq(Chunk),
           NEW acc, NEW past, NEW known, Sound(acc, past, known), OrderedIn(R, done, hand, acc),
           \A x, y \in acc.absorbed : <<x, y>> \in R => <<x, y>> \in Q
    PROVE  OrderedIn(Q, done, hand, acc)
<1> DEFINE Y == acc.absorbed
           P == ToSet(done) \cup ToSet(hand)
           All == P \cup ToSet(acc.completed) \cup {Held(acc, s) : s \in Session}
<1>1. Aligned(R, done, hand) /\ Lined(R, P, acc)
  BY DEF OrderedIn
<1>2. \A c \in All : EventsOf(c) \subseteq Y
  <2>1. \A c \in P \cup ToSet(acc.completed) : EventsOf(c) \subseteq Y
    BY <1>1, CompletedAbsorbed DEF Lined
  <2>2. ASSUME NEW s \in Session, NEW x \in EventsOf(Held(acc, s))
        PROVE  x \in Y
    <3>1. Within(acc, x)
      BY <2>2 DEF Within
    <3>2. x \in Event
      <4>1. acc.buffer[s] \in Seq(Text)
        BY DEF Sound, Accumulators
      <4>2. ToSet(acc.buffer[s]) \subseteq Text
        BY <4>1, HoldsOf
      <4>3. QED
        BY <4>2 DEF EventsOf, Held, Event
    <3>3. QED
      BY <3>1, <3>2 DEF Sound
  <2>3. QED
    BY <2>1, <2>2
<1> HIDE DEF Y
<1>3. \A x, y \in Y : <<x, y>> \in R => <<x, y>> \in Q
  BY DEF Y
<1>4. ASSUME NEW c \in All, Sorted(R, c)
      PROVE  Sorted(Q, c)
  <2>1. \A m \in DOMAIN c.texts : EventAt(c, m) \in EventsOf(c)
    BY DEF EventAt, EventsOf, ToSet
  <2>2. \A m \in DOMAIN c.texts : EventAt(c, m) \in Y
    BY <1>2, <2>1
  <2>3. QED
    BY <1>3, <1>4, <2>2 DEF Sorted
<1>5. ASSUME NEW c \in All, NEW d \in All, Before(R, c, d)
      PROVE  Before(Q, c, d)
  <2>1. EventsOf(c) \subseteq Y /\ EventsOf(d) \subseteq Y
    BY <1>2
  <2>2. QED
    BY <1>3, <1>5, <2>1 DEF Before
<1>6. ASSUME NEW row, ToSet(row) \subseteq All, InRow(R, row)
      PROVE  InRow(Q, row)
  <2>1. \A i \in DOMAIN row : row[i] \in All
    BY <1>6 DEF ToSet
  <2> HIDE DEF All
  <2>2. QED
    BY <1>4, <1>5, <1>6, <2>1 DEF InRow
<1>7. ToSet(done) \subseteq All /\ ToSet(hand) \subseteq All /\ ToSet(acc.completed) \subseteq All
      /\ P \subseteq All /\ \A s \in Session : Held(acc, s) \in All
  OBVIOUS
<1> HIDE DEF All
<1>8. InRow(Q, done) /\ InRow(Q, hand) /\ InRow(Q, acc.completed)
  BY <1>1, <1>6, <1>7 DEF Aligned, Lined
<1>9. \A c \in ToSet(done) : \A d \in ToSet(hand) : Before(Q, c, d)
  BY <1>1, <1>5, <1>7 DEF Aligned
<1>10. /\ \A c \in P : \A d \in ToSet(acc.completed) : Before(Q, c, d)
       /\ \A s \in Session : Sorted(Q, Held(acc, s))
  BY <1>1, <1>4, <1>5, <1>7 DEF Lined
<1>11. \A c \in P \cup ToSet(acc.completed) : \A s \in Session : Before(Q, c, Held(acc, s))
  BY <1>1, <1>5, <1>7 DEF Lined
<1>12. \A c \in P : EventsOf(c) \subseteq acc.absorbed
  BY <1>1 DEF Lined
<1>13. Lined(Q, P, acc)
  BY <1>8, <1>10, <1>11, <1>12 DEF Lined
<1>14. QED
  BY <1>8, <1>9, <1>13 DEF OrderedIn, Aligned

\* The events of a file that were not yielded come in order, after all that were.
LEMMA FreshInOrder ==
    ASSUME Data, YieldedFromStart, NEW s \in Session
    PROVE  QueuedIn(Apart, FreshEvents(s), yielded)
<1> DEFINE fresh == FreshEvents(s)
           lines == transcript[s]
<1>1. lines \in Seq(Text) /\ yielded \subseteq Event
  BY DEF Data
<1>2. /\ fresh \in Seq(Event)
      /\ \A e \in ToSet(fresh) : e.session = s /\ e.text \in ToSet(lines) /\ e \notin yielded
      /\ \A i, j \in DOMAIN fresh :
           i < j => FirstLine(s, fresh[i].text) < FirstLine(s, fresh[j].text)
  BY <1>1, FreshEventsAre
<1>3. ToSet(fresh) \subseteq Event /\ \A i \in DOMAIN fresh : fresh[i] \in ToSet(fresh)
  <2>1. ToSet(fresh) \subseteq Event
    BY <1>2, HoldsOf
  <2>2. QED
    BY <2>1 DEF ToSet
<1>4. \A u \in ToSet(lines) : /\ FirstLine(s, u) \in Nat /\ FirstLine(s, u) \in DOMAIN lines
                              /\ lines[FirstLine(s, u)] = u
  <2>1. DOMAIN lines \subseteq Nat
    BY <1>1
  <2>2. QED
    BY <1>1, <2>1, FirstLineIs
<1> HIDE DEF fresh, lines
<1>5. ASSUME NEW i \in DOMAIN fresh, NEW j \in DOMAIN fresh, i < j
      PROVE  <<fresh[i], fresh[j]>> \in Apart
  <2> DEFINE x == fresh[i]
             y == fresh[j]
  <2>1. /\ x \in Event /\ y \in Event /\ x.session = s /\ y.session = s
        /\ x.text \in ToSet(lines) /\ y.text \in ToSet(lines)
        /\ FirstLine(s, x.text) < FirstLine(s, y.text)
    BY <1>2, <1>3, <1>5
  <2> HIDE DEF x, y
  <2>2. x # y
    BY <1>4, <2>1
  <2>3. <<x, y>> \in Apart
    BY <2>1, <2>2 DEF Apart
  <2>4. QED
    BY <2>3 DEF x, y
<1>6. ASSUME NEW x \in yielded, NEW y \in ToSet(fresh)
      PROVE  <<x, y>> \in Apart
  <2>1. x \in Event /\ y \in Event /\ x # y /\ y.session = s /\ y.text \in ToSet(lines)
        /\ y = [session |-> s, text |-> y.text] /\ y \notin yielded
    <3>1. y \in Event /\ y.session = s /\ y.text \in ToSet(lines) /\ y \notin yielded
      BY <1>2, <1>3
    <3>2. QED
      BY <1>1, <3>1 DEF Event
  <2>2. ASSUME ~ Rewrites, x.session = s
        PROVE  FirstLine(s, x.text) < FirstLine(s, y.text)
    <3>1. /\ x.text \in ToSet(lines)
          /\ \A k \in DOMAIN lines : k <= FirstLine(s, x.text)
               => [session |-> s, text |-> lines[k]] \in yielded
      BY <2>2 DEF YieldedFromStart, lines
    <3>2. ~ (FirstLine(s, y.text) <= FirstLine(s, x.text))
      BY <1>4, <2>1, <3>1
    <3>3. QED
      BY <1>4, <2>1, <3>1, <3>2
  <2>3. QED
    BY <2>1, <2>2 DEF Apart
<1>7. QED
  BY <1>5, <1>6 DEF QueuedIn, fresh

\* A file that is parsed is yielded to its end.
LEMMA YieldedStays ==
    ASSUME Data, YieldedFromStart, NEW s \in Session, Yields(s)
    PROVE  YieldedFromStart'
<1>1. /\ UNCHANGED <<transcript, mode>> /\ yielded' = yielded \cup ToSet(FreshEvents(s))
      /\ Rewrites' = Rewrites /\ transcript[s] \in Seq(Text)
  BY DEF Yields, Yield, Rewrites, Data
<1>2. \A r, u : FirstLine(r, u)' = FirstLine(r, u)
  BY <1>1 DEF FirstLine
<1>3. SUFFICES ASSUME ~ Rewrites, NEW x \in yielded'
               PROVE  /\ x.text \in ToSet(transcript[x.session])
                      /\ \A k \in DOMAIN transcript[x.session] :
                           k <= FirstLine(x.session, x.text)
                             => [session |-> x.session, text |-> transcript[x.session][k]] \in yielded'
  BY <1>1, <1>2 DEF YieldedFromStart
<1>4. CASE x \in yielded
  BY <1>1, <1>3, <1>4 DEF YieldedFromStart
<1>5. CASE x \in ToSet(FreshEvents(s))
  <2>1. x.session = s /\ x.text \in ToSet(transcript[s])
    BY <1>1, <1>5, FreshEventsAre
  <2>2. \A t \in ToSet(transcript[s]) : [session |-> s, text |-> t] \in yielded'
    BY <1>1, FreshEventsAre
  <2>3. \A k \in DOMAIN transcript[s] : transcript[s][k] \in ToSet(transcript[s])
    BY DEF ToSet
  <2>4. QED
    BY <2>1, <2>2, <2>3
<1>6. QED
  BY <1>1, <1>3, <1>4, <1>5

\* Sentinels, and the consumption of an event, leave the queue in order.
LEMMA QueueStep ==
    ASSUME NEW R, Data, Kept, QueuedIn(R, queue, accumulator.absorbed),
           NEW more, more \subseteq accumulator.absorbed, SentinelMoves
    PROVE  QueuedIn(R, queue', more)
<1>1. queue \in Seq(Event \cup {Done})
  BY DEF Data
<1>2. QueuedIn(R, queue, more)
  BY DEF QueuedIn
<1>3. CASE queue' = queue
  BY <1>2, <1>3
<1>4. CASE queue' = Append(queue, Done)
  <2>1. /\ queue' = queue \o <<Done>> /\ <<Done>> \in Seq(Event \cup {Done})
        /\ ToSet(<<Done>>) = {Done} /\ DOMAIN <<Done>> = {1} /\ <<Done>>[1] = Done
    BY <1>1, <1>4 DEF ToSet
  <2> DEFINE before == more \cup (ToSet(queue) \ {Done})
  <2>2. QueuedIn(R, <<Done>>, before)
    BY <2>1 DEF QueuedIn
  <2> HIDE DEF before
  <2>3. more \cup (ToSet(queue) \ {Done}) \subseteq before
    BY DEF before
  <2>4. QueuedIn(R, queue \o <<Done>>, more)
    BY <1>1, <1>2, <2>1, <2>2, <2>3, QueueGrows
  <2>5. QED
    BY <2>1, <2>4
<1>5. CASE queue # <<>> /\ Head(queue) = Done /\ queue' = Tail(queue)
  BY <1>1, <1>2, <1>5, QueueShrinks
<1>6. QED
  BY <1>3, <1>4, <1>5 DEF SentinelMoves

\* The queue stays in order whatever a step does to it, but for a restart or the growing
\* of a file.
LEMMA QueueOrder ==
    ASSUME NEW R, Data, Kept, QueuedIn(R, queue, accumulator.absorbed),
           \/ Sentinels \/ ConsumerFlushes \/ Abandons \/ ConsumeEvent \/ HookFails
           \/ (\E s \in Session : HookFlush(s)) \/ (\E a \in Callers : Extracted(a))
           \/ (\E s \in Session : Yields(s) /\ QueuedIn(R, FreshEvents(s), yielded))
    PROVE  QueuedIn(R, queue', accumulator'.absorbed)
<1>1. queue \in Seq(Event \cup {Done})
  BY DEF Data
<1>2. Sound(accumulator, EventsIn(Mine), TextsOf(Started)) /\ Small(accumulator)
  BY DEF Kept, AccumulatorKept
<1>3. CASE Sentinels
  BY <1>3, QueueStep DEF Sentinels
<1>4. CASE ConsumerFlushes
  <2>1. SentinelMoves
    BY <1>4 DEF ConsumerFlushes
  <2>2. PICK acc \in Flushed(accumulator) : accumulator' = AtRest(acc)
    BY <1>4 DEF ConsumerFlushes, FlushAndReturn
  <2>3. accumulator'.absorbed = accumulator.absorbed
    <3>1. /\ Sound(acc, EventsIn(Mine), TextsOf(Started)) /\ Small(acc)
          /\ acc.absorbed = accumulator.absorbed
      BY <1>2, FlushSound
    <3>2. QED
      BY <2>2, <3>1, RestSound
  <2>4. QED
    BY <2>1, <2>3, QueueStep
<1>5. CASE \/ Abandons \/ HookFails \/ (\E s \in Session : HookFlush(s))
           \/ (\E a \in Callers : Extracted(a))
  <2>1. UNCHANGED <<queue, accumulator>>
    BY <1>5 DEF Abandons, AbandonFlush, HookFails, HookFlush, Extracted, consumerVars
  <2>2. QED
    BY <2>1
<1>6. CASE ConsumeEvent
  <2> DEFINE e == Head(queue)
             acc == Add(accumulator, e)
  <2>1. queue # <<>> /\ e # Done /\ queue' = Tail(queue) /\ accumulator' = AtRest(acc)
    BY <1>6 DEF ConsumeEvent, ConsumerIdle
  <2>2. e \in Event
    BY <1>1, <2>1, HoldsOf
  <2>3. accumulator'.absorbed = accumulator.absorbed \cup {e}
    <3>1. /\ Sound(acc, EventsIn(Mine), TextsOf(Started)) /\ Small(acc)
          /\ acc.absorbed = accumulator.absorbed \cup {e}
      BY <1>2, <2>2, AddSound
    <3> HIDE DEF acc
    <3>2. QED
      BY <2>1, <3>1, RestSound
  <2>4. QED
    BY <1>1, <2>1, <2>3, QueueShrinks
<1>7. CASE \E s \in Session : Yields(s) /\ QueuedIn(R, FreshEvents(s), yielded)
  <2>1. PICK s \in Session : Yields(s) /\ QueuedIn(R, FreshEvents(s), yielded)
    BY <1>7
  <2>2. queue' = queue \o FreshEvents(s) /\ accumulator' = accumulator
    BY <2>1 DEF Yields, Yield
  <2>3. FreshEvents(s) \in Seq(Event \cup {Done})
    <3>1. transcript[s] \in Seq(Text)
      BY DEF Data
    <3>2. FreshEvents(s) \in Seq(Event)
      BY <3>1, FreshEventsAre
    <3> DEFINE new == FreshEvents(s)
    <3> HIDE DEF new
    <3>3. new \in Seq(Event \cup {Done})
      BY <3>2 DEF new
    <3>4. QED
      BY <3>3 DEF new
  <2>4. accumulator.absorbed \cup (ToSet(queue) \ {Done}) \subseteq yielded
    BY DEF Kept, EventsKept
  <2>5. QED
    BY <1>1, <2>1, <2>2, <2>3, <2>4, QueueGrows
<1>8. QED
  BY <1>3, <1>4, <1>5, <1>6, <1>7

\* Every step keeps the order of the consumer's events.
LEMMA InOrderStep ==
    ASSUME Holds, YieldedFromStart, InOrder, [Next]_vars
    PROVE  YieldedFromStart' /\ InOrder'
<1>1. Data /\ Kept
  BY DEF Holds
<1>2. restarts \in Nat
  <2>1. restarts \in 0 .. mode.restarts
    BY HoldsTyped DEF ChunksAreWellFormed, TypeOK
  <2>2. QED
    BY <2>1
<1>3. CASE Restart
  <2>1. restarts' = restarts + 1 /\ yielded' = {}
    BY <1>3 DEF Restart
  <2>2. restarts' # 0
    BY <1>2, <2>1
  <2>3. QED
    BY <2>1, <2>2 DEF YieldedFromStart, InOrder
<1>4. PICK R : R = Apart
  OBVIOUS
<1>5. CASE \E s \in Session : \E t \in Text : WriteLine(s, t)
  <2>1. PICK s \in Session, t \in Text : WriteLine(s, t)
    BY <1>5
  <2>2. PICK Q : Q = Apart'
    OBVIOUS
  <2>3. YieldedFromStart' /\ \A x, y \in yielded : <<x, y>> \in R => <<x, y>> \in Q
    BY <1>1, <1>4, <2>1, <2>2, ApartStays
  <2>4. UNCHANGED <<queue, accumulator, serviceVars, storeVars, restarts>> /\ Hand' = Hand
    BY <2>1 DEF WriteLine, consumerVars, serviceVars, Hand
  <2>5. accumulator.absorbed \cup (ToSet(queue) \ {Done}) \subseteq yielded
    BY <1>1 DEF Kept, EventsKept
  <2>6. ASSUME restarts = 0
        PROVE  /\ OrderedIn(Q, extracted["consumer"], Hand, accumulator)
               /\ QueuedIn(Q, queue, accumulator.absorbed) /\ MarkedOnce
    <3>1. /\ OrderedIn(R, extracted["consumer"], Hand, accumulator)
          /\ QueuedIn(R, queue, accumulator.absorbed) /\ MarkedOnce
      BY <1>4, <2>6 DEF InOrder
    <3>2. Sound(accumulator, EventsIn(Mine), TextsOf(Started))
      BY <1>1 DEF Kept, AccumulatorKept
    <3>3. extracted["consumer"] \in Seq(Chunk) /\ Hand \in Seq(Chunk)
      <4>1. /\ extracted["consumer"] \in Seq(Chunk) /\ ready["consumer"] \in Seq(Chunk)
            /\ working["consumer"] \in Chunk \cup {Nothing}
        BY <1>1 DEF Data, Callers, Ready, Working
      <4>2. QED
        BY <4>1 DEF Hand
    <3>4. \A x, y \in accumulator.absorbed : <<x, y>> \in R => <<x, y>> \in Q
      BY <2>3, <2>5
    <3>5. OrderedIn(Q, extracted["consumer"], Hand, accumulator)
      BY <3>1, <3>2, <3>3, <3>4, OrderedAlike
    <3>6. \A i \in DOMAIN queue : queue[i] \in ToSet(queue)
      BY DEF ToSet
    <3>7. QueuedIn(Q, queue, accumulator.absorbed)
      BY <2>3, <2>5, <3>1, <3>6 DEF QueuedIn
    <3>8. QED
      BY <3>1, <3>5, <3>7
  <2>7. MarkedOnce' = MarkedOnce
    BY <2>4 DEF MarkedOnce, serviceVars, storeVars
  <2>8. InOrder'
    BY <2>2, <2>4, <2>6, <2>7 DEF InOrder, storeVars
  <2>9. QED
    BY <2>3, <2>8
<1>6. ASSUME \/ Sentinels \/ ConsumerFlushes \/ Abandons \/ ConsumeEvent \/ HookFails
             \/ (\E s \in Session : HookFlush(s)) \/ (\E a \in Callers : Extracted(a))
             \/ (\E s \in Session : Yields(s))
      PROVE  YieldedFromStart' /\ InOrder'
  <2>1. UNCHANGED <<transcript, restarts, mode>>
    BY <1>6 DEF Sentinels, ConsumerFlushes, Abandons, ConsumeEvent, HookFails, HookFlush,
                Extracted, Yields, claudeVars
  <2>2. Rewrites' = Rewrites /\ \A r, u : FirstLine(r, u)' = FirstLine(r, u)
    BY <2>1 DEF Rewrites, FirstLine
  <2>3. Apart' = R
    BY <1>4, <2>2 DEF Apart
  <2>4. YieldedFromStart'
    <3>1. CASE \E s \in Session : Yields(s)
      BY <1>1, <3>1, YieldedStays
    <3>2. CASE ~ \E s \in Session : Yields(s)
      <4>1. yielded' = yielded
        BY <1>6, <3>2 DEF Sentinels, ConsumerFlushes, Abandons, ConsumeEvent, HookFails, HookFlush,
                          Extracted, sourceVars
      <4>2. QED
        BY <2>1, <2>2, <4>1 DEF YieldedFromStart
    <3>3. QED
      BY <3>1, <3>2
  <2>5. ASSUME restarts = 0
        PROVE  /\ OrderedIn(R, extracted'["consumer"], Hand', accumulator')
               /\ QueuedIn(R, queue', accumulator'.absorbed) /\ MarkedOnce'
    <3>1. /\ OrderedIn(R, extracted["consumer"], Hand, accumulator)
          /\ QueuedIn(R, queue, accumulator.absorbed) /\ MarkedOnce
      BY <1>4, <2>5 DEF InOrder
    <3>2. Across(R)
      BY <1>4 DEF Across, Apart
    <3>3. \/ ConsumeEvent \/ ConsumerFlushes \/ Abandons \/ HookFails
          \/ (\E s \in Session : HookFlush(s)) \/ (\E a \in Callers : Extracted(a))
          \/ UNCHANGED <<serviceVars, storeVars, accumulator>>
      BY <1>6 DEF Sentinels, Yields
    <3>4. OrderedIn(R, extracted'["consumer"], Hand', accumulator')
      BY <1>1, <3>1, <3>2, <3>3, OrderStep
    <3>5. MarkedOnce'
      BY <1>1, <3>1, <3>3, MarkedStep
    <3>6. \A s \in Session : QueuedIn(R, FreshEvents(s), yielded)
      BY <1>1, <1>4, FreshInOrder
    <3>7. QueuedIn(R, queue', accumulator'.absorbed)
      BY <1>1, <1>6, <3>1, <3>6, QueueOrder
    <3>8. QED
      BY <3>4, <3>5, <3>7
  <2>6. InOrder'
    BY <2>1, <2>3, <2>5 DEF InOrder
  <2>7. QED
    BY <2>4, <2>6
<1>7. QED
  BY <1>1, <1>3, <1>5, <1>6, StepKinds

\* At the start nothing was extracted and nothing yielded.
LEMMA InOrderInit ==
    ASSUME Init
    PROVE  YieldedFromStart /\ InOrder
<1>1. /\ yielded = {} /\ queue = <<>> /\ accumulator = EmptyAccumulator
      /\ extracted = [a \in Callers |-> <<>>] /\ working = [a \in Callers |-> Nothing]
  BY DEF Init
<1>2. /\ extracted["consumer"] = <<>> /\ Hand = <<>> /\ ToSet(<<>>) = {} /\ DOMAIN <<>> = {}
  BY <1>1 DEF Hand, Callers, ToSet
<1> DEFINE acc == EmptyAccumulator
<1>3. /\ acc.absorbed = {} /\ acc.completed = <<>> /\ \A s \in Session : acc.buffer[s] = <<>>
  BY DEF EmptyAccumulator
<1>4. \A s \in Session : Held(acc, s).texts = <<>>
  BY <1>3 DEF Held
<1> HIDE DEF acc
<1>5. PICK R : R = Apart
  OBVIOUS
<1>6. InRow(R, <<>>) /\ Aligned(R, <<>>, <<>>)
  BY <1>2 DEF InRow, Aligned
<1>7. Lined(R, {}, acc)
  <2>1. \A s \in Session : Sorted(R, Held(acc, s))
    BY <1>2, <1>4 DEF Sorted
  <2>2. QED
    BY <1>2, <1>3, <1>6, <2>1 DEF Lined
<1>8. OrderedIn(R, <<>>, <<>>, acc)
  <2>1. ToSet(<<>>) \cup ToSet(<<>>) = {}
    BY <1>2
  <2>2. QED
    BY <1>6, <1>7, <2>1 DEF OrderedIn
<1>9. QueuedIn(R, <<>>, acc.absorbed)
  BY <1>2 DEF QueuedIn
<1>10. MarkedOnce
  BY <1>1, <1>2 DEF MarkedOnce
<1>11. InOrder
  BY <1>1, <1>2, <1>5, <1>8, <1>9, <1>10 DEF InOrder, acc
<1>12. QED
  BY <1>1, <1>11 DEF YieldedFromStart

\* FR-ING-5: within one life of the process no event is in two chunks that the consumer
\* stored, no content is extracted twice by either caller or by both, and a session's
\* events are extracted in the order of its transcript.
THEOREM ExtractedInOrder == Spec => []ExtractedOnceInOrder
<1>1. Init => Holds /\ YieldedFromStart /\ InOrder
  BY InitKeeps, TasksInit, InOrderInit DEF Holds
<1>2. Holds /\ YieldedFromStart /\ InOrder /\ [Next]_vars
        => Holds' /\ YieldedFromStart' /\ InOrder'
  BY StepKeeps, TasksStep, InOrderStep DEF Holds
<1>3. ASSUME Holds, InOrder, restarts = 0
      PROVE  /\ \A i, j \in DOMAIN extracted["consumer"] : i < j =>
                  EventsOf(extracted["consumer"][i]) \cap EventsOf(extracted["consumer"][j]) = {}
             /\ ~ Rewrites => OrderKept
  <2> DEFINE chunks == extracted["consumer"]
  <2>1. InRow(Apart, chunks)
    BY <1>3 DEF InOrder, OrderedIn, Aligned
  <2>2. ASSUME NEW i \in DOMAIN chunks, NEW j \in DOMAIN chunks, i < j,
               NEW x \in EventsOf(chunks[i]), x \in EventsOf(chunks[j])
        PROVE  FALSE
    <3>1. <<x, x>> \in Apart
      BY <2>1, <2>2 DEF InRow, Before
    <3>2. QED
      BY <3>1 DEF Apart
  <2>3. ASSUME ~ Rewrites, NEW i \in DOMAIN chunks, NEW j \in DOMAIN chunks,
               chunks[i].session = chunks[j].session,
               NEW m \in DOMAIN chunks[i].texts, NEW n \in DOMAIN chunks[j].texts,
               i < j \/ (i = j /\ m < n)
        PROVE  FirstLine(chunks[i].session, chunks[i].texts[m])
                 < FirstLine(chunks[i].session, chunks[j].texts[n])
    <3> DEFINE x == EventAt(chunks[i], m)
               y == EventAt(chunks[j], n)
    <3>1. x \in EventsOf(chunks[i]) /\ y \in EventsOf(chunks[j])
      BY DEF EventAt, EventsOf, ToSet
    <3>2. x.session = chunks[i].session /\ x.text = chunks[i].texts[m]
          /\ y.session = chunks[i].session /\ y.text = chunks[j].texts[n]
      BY <2>3 DEF EventAt
    <3>3. <<x, y>> \in Apart
      <4>1. CASE i < j
        BY <2>1, <3>1, <4>1 DEF InRow, Before
      <4>2. CASE i = j /\ m < n
        BY <2>1, <4>2 DEF InRow, Sorted
      <4>3. QED
        BY <2>3, <4>1, <4>2
    <3> HIDE DEF x, y, chunks
    <3>4. QED
      BY <2>3, <3>2, <3>3 DEF Apart
  <2>4. ~ Rewrites => OrderKept
    BY <2>3 DEF OrderKept
  <2>5. QED
    BY <2>2, <2>4
<1>4. ASSUME Holds, InOrder
      PROVE  ExtractedOnceInOrder
  <2>1. ExtractedOnce
    <3>1. SUFFICES ASSUME restarts = 0
                   PROVE  ExtractedOnce
      BY DEF ExtractedOnce
    <3> DEFINE texts(a) == [i \in DOMAIN extracted[a] |-> extracted[a][i].texts]
    <3>2. MarkedOnce
      BY <1>4, <3>1 DEF InOrder
    <3>3. \A a \in Callers : IsInjective(texts(a))
      BY <3>2 DEF MarkedOnce, IsInjective
    <3>4. Range(texts("consumer")) \cap Range(texts("hook")) = {}
      <4>1. ASSUME NEW i \in DOMAIN extracted["consumer"], NEW j \in DOMAIN extracted["hook"]
            PROVE  extracted["consumer"][i].texts # extracted["hook"][j].texts
        <5>1. extracted["consumer"][i] \in ToSet(extracted["consumer"])
              /\ extracted["hook"][j] \in ToSet(extracted["hook"])
          BY DEF ToSet
        <5>2. QED
          BY <3>2, <5>1 DEF MarkedOnce, Callers
      <4>2. QED
        <5>1. ASSUME NEW v \in Range(texts("consumer")), v \in Range(texts("hook"))
              PROVE  FALSE
          <6>1. PICK i \in DOMAIN extracted["consumer"] : v = extracted["consumer"][i].texts
            BY <5>1 DEF Range
          <6>2. PICK j \in DOMAIN extracted["hook"] : v = extracted["hook"][j].texts
            BY <5>1 DEF Range
          <6>3. QED
            BY <4>1, <6>1, <6>2
        <5>2. QED
          BY <5>1
    <3>5. QED
      BY <1>3, <1>4, <3>1, <3>3, <3>4 DEF ExtractedOnce
  <2>2. OrderKept
    BY <1>3, <1>4 DEF OrderKept
  <2>3. QED
    BY <2>1, <2>2 DEF ExtractedOnceInOrder
<1>5. QED
  BY <1>1, <1>2, <1>4, PTL DEF Spec

-----------------------------------------------------------------------------
(* How a transcript is cut, from its first line on *)

\* The texts of the lines up to the n-th.
Upto(lines, n) == {lines[k] : k \in 1 .. n}

\* The chunk that a new text continues or, when it is full, the one it begins.
Longer(x, t) == IF Len(x) < MaxMessages /\ ~ Overflows(x, t) THEN Append(x, t) ELSE <<t>>

\* Cuts(lines)[n] is the chunk the n-th line is in, with the lines there are of it by
\* then; a line whose text was there before adds nothing.
Cuts(lines) ==
    LET cut[n \in 0 .. Len(lines)] ==
          IF n = 0 THEN <<>>
          ELSE IF lines[n] \in Upto(lines, n - 1) THEN cut[n - 1]
          ELSE Longer(cut[n - 1], lines[n])
    IN  cut

\* The function that Cuts is.
IsCut(f, lines) ==
    f = [n \in 0 .. Len(lines) |->
           IF n = 0 THEN <<>>
           ELSE IF lines[n] \in Upto(lines, n - 1) THEN f[n - 1]
           ELSE Longer(f[n - 1], lines[n])]

LEMMA LongerTyped == \A x \in Seq(Text), t \in Text : Longer(x, t) \in Seq(Text)
<1> TAKE x \in Seq(Text), t \in Text
<1>1. Append(x, t) \in Seq(Text) /\ <<t>> \in Seq(Text)
  OBVIOUS
<1>2. QED
  BY <1>1 DEF Longer

\* There is one, and line by line it is as it is defined.
LEMMA CutsAre ==
    ASSUME NEW lines \in Seq(Text)
    PROVE  /\ \A n \in 0 .. Len(lines) : Cuts(lines)[n] \in Seq(Text)
           /\ Cuts(lines)[0] = <<>>
           /\ \A n \in 1 .. Len(lines) :
                Cuts(lines)[n] = IF lines[n] \in Upto(lines, n - 1) THEN Cuts(lines)[n - 1]
                                 ELSE Longer(Cuts(lines)[n - 1], lines[n])
<1> DEFINE N == Len(lines)
           old(n) == lines[n] \in Upto(lines, n - 1)
           g == [p \in (1 .. N) \X Seq(Text) |->
                   IF old(p[1]) THEN p[2] ELSE Longer(p[2], lines[p[1]])]
<1>1. N \in Nat /\ \A n \in 1 .. N : lines[n] \in Text
  OBVIOUS
<1>2. \A n \in 1 .. N : \A x \in Seq(Text) :
        g[<<n, x>>] = IF old(n) THEN x ELSE Longer(x, lines[n])
  OBVIOUS
<1> HIDE DEF g, old
<1>3. StaysIn(Seq(Text), N, g)
  <2> HIDE DEF N
  <2>1. QED
    BY <1>1, <1>2, LongerTyped DEF StaysIn
<1>4. PICK f : Follows(f, Seq(Text), <<>>, N, g)
  <2> HIDE DEF N
  <2>1. <<>> \in Seq(Text)
    OBVIOUS
  <2>2. QED
    BY <1>1, <1>3, <2>1, Iterated
<1>5. IsCut(f, lines)
  <2>1. /\ f \in [0 .. N -> Seq(Text)] /\ f[0] = <<>>
        /\ \A n \in 1 .. N : f[n] = g[<<n, f[n - 1]>>]
    BY <1>4 DEF Follows
  <2>2. ASSUME NEW n \in 0 .. N
        PROVE  f[n] = IF n = 0 THEN <<>> ELSE IF old(n) THEN f[n - 1] ELSE Longer(f[n - 1], lines[n])
    <3>1. CASE n = 0
      BY <2>1, <3>1
    <3>2. CASE n # 0
      <4>1. n \in 1 .. N /\ n - 1 \in 0 .. N
        BY <1>1, <3>2
      <4>2. f[n - 1] \in Seq(Text) /\ f[n] = g[<<n, f[n - 1]>>]
        BY <2>1, <4>1
      <4>3. QED
        BY <1>2, <3>2, <4>1, <4>2
    <3>3. QED
      BY <3>1, <3>2
  <2> HIDE DEF N
  <2>3. f = [n \in 0 .. N |->
               IF n = 0 THEN <<>> ELSE IF old(n) THEN f[n - 1] ELSE Longer(f[n - 1], lines[n])]
    BY <2>1, <2>2
  <2>4. QED
    BY <2>3 DEF IsCut, N, old
<1> DEFINE F == CHOOSE h : IsCut(h, lines)
<1>6. IsCut(F, lines)
  BY <1>5
<1>7. Cuts(lines) = F
  BY DEF Cuts, IsCut
<1> HIDE DEF F
<1>8. \A n \in 0 .. N : F[n] = IF n = 0 THEN <<>>
                               ELSE IF old(n) THEN F[n - 1] ELSE Longer(F[n - 1], lines[n])
  BY <1>6 DEF IsCut, old
<1>9. F[0] = <<>>
  BY <1>1, <1>8
<1>10. \A n \in 1 .. N : F[n] = IF old(n) THEN F[n - 1] ELSE Longer(F[n - 1], lines[n])
  BY <1>1, <1>8
<1> DEFINE T == {n \in Nat : n <= N => F[n] \in Seq(Text)}
<1>11. 0 \in T
  <2>1. F[0] \in Seq(Text)
    <3>1. <<>> \in Seq(Text)
      OBVIOUS
    <3>2. QED
      BY <1>9, <3>1
  <2>2. QED
    BY <2>1
<1>12. ASSUME NEW n \in Nat, n \in T
       PROVE  n + 1 \in T
  <2>1. SUFFICES ASSUME n + 1 <= N
                 PROVE  F[n + 1] \in Seq(Text)
    OBVIOUS
  <2>2. F[n] \in Seq(Text) /\ n + 1 \in 1 .. N /\ (n + 1) - 1 = n
    BY <1>1, <1>12, <2>1
  <2>3. F[n + 1] = IF old(n + 1) THEN F[n] ELSE Longer(F[n], lines[n + 1])
    BY <1>10, <2>2
  <2>4. QED
    BY <1>1, <2>2, <2>3, LongerTyped
<1>13. \A n \in 0 .. N : F[n] \in Seq(Text)
  <2> HIDE DEF T, N
  <2>1. Nat \subseteq T
    BY <1>11, <1>12, CountingUp
  <2>2. \A n \in 0 .. N : n \in T /\ n <= N
    BY <1>1, <2>1
  <2>3. QED
    BY <2>2 DEF T
<1>14. QED
  BY <1>7, <1>9, <1>10, <1>13 DEF old

\* One line more may be one text more.
LEMMA UptoGrows ==
    ASSUME NEW lines \in Seq(Text), NEW n \in 1 .. Len(lines)
    PROVE  /\ Upto(lines, n) = Upto(lines, n - 1) \cup {lines[n]} /\ lines[n] \in Text
           /\ n \in Nat /\ n - 1 \in 0 .. Len(lines) /\ Upto(lines, 0) = {}
<1>1. /\ Len(lines) \in Nat /\ n \in Nat /\ lines[n] \in Text /\ n - 1 \in 0 .. Len(lines)
      /\ \A k : k \in 1 .. n <=> k \in 1 .. n - 1 \/ k = n
      /\ \A k : k \notin 1 .. 0
  OBVIOUS
<1>2. QED
  BY <1>1 DEF Upto

\* A new text begins a chunk or is the last of the one before.
LEMMA LongerHas ==
    ASSUME NEW x \in Seq(Text), NEW t \in Text
    PROVE  /\ t \in ToSet(Longer(x, t)) /\ ToSet(Longer(x, t)) \subseteq ToSet(x) \cup {t}
           /\ \/ Longer(x, t) = Append(x, t) /\ Len(x) < MaxMessages /\ ~ Overflows(x, t)
              \/ Longer(x, t) = <<t>> /\ (Len(x) >= MaxMessages \/ Overflows(x, t))
           /\ ToSet(<<t>>) = {t}
<1>1. ToSet(Append(x, t)) = ToSet(x) \cup {t}
  BY HoldsOf
<1>2. ToSet(<<t>>) = {t}
  <2>1. DOMAIN <<t>> = {1} /\ <<t>>[1] = t
    OBVIOUS
  <2>2. QED
    BY <2>1 DEF ToSet
<1>3. Len(x) \in Nat /\ MaxMessages \in Nat
  BY IngestAssumption
<1>4. QED
  BY <1>1, <1>2, <1>3 DEF Longer

\* The line that was the last to add its text to a chunk.
LastNew(lines, n, i) ==
    /\ i \in 1 .. n /\ lines[i] \notin Upto(lines, i - 1)
    /\ lines[i] \in ToSet(Cuts(lines)[i]) /\ \A m \in i .. n : Cuts(lines)[m] = Cuts(lines)[i]

\* There is one from the first line on, and a chunk has no text from lines to come.
LEMMA CutsHave ==
    ASSUME NEW lines \in Seq(Text)
    PROVE  \A n \in 0 .. Len(lines) :
             /\ ToSet(Cuts(lines)[n]) \subseteq Upto(lines, n)
             /\ n # 0 => \E i \in 1 .. n : LastNew(lines, n, i)
<1> DEFINE N == Len(lines)
           f == Cuts(lines)
           Good(n) == /\ ToSet(f[n]) \subseteq Upto(lines, n)
                      /\ n # 0 => \E i \in 1 .. n : LastNew(lines, n, i)
           T == {n \in Nat : n <= N => Good(n)}
<1>1. N \in Nat
  OBVIOUS
<1>2. 0 \in T
  <2>1. f[0] = <<>>
    BY CutsAre
  <2>2. ToSet(f[0]) = {}
    BY <2>1 DEF ToSet
  <2>3. QED
    BY <2>2
<1>3. ASSUME NEW n \in Nat, n \in T
      PROVE  n + 1 \in T
  <2>1. SUFFICES ASSUME n + 1 <= N
                 PROVE  Good(n + 1)
    OBVIOUS
  <2> DEFINE m == n + 1
             t == lines[m]
  <2>2. m \in 1 .. N /\ m - 1 = n /\ n \in 0 .. N /\ m # 0 /\ m \in 1 .. m /\ \A i \in 1 .. n : i \in 1 .. m
    BY <1>1, <2>1
  <2>3. /\ ToSet(f[n]) \subseteq Upto(lines, n)
        /\ n # 0 => \E i \in 1 .. n : LastNew(lines, n, i)
    BY <1>1, <1>3, <2>1
  <2>4. /\ Upto(lines, m) = Upto(lines, n) \cup {t} /\ t \in Text /\ Upto(lines, 0) = {}
    BY <2>2, UptoGrows
  <2>5. /\ f[n] \in Seq(Text)
        /\ f[m] = IF t \in Upto(lines, n) THEN f[n] ELSE Longer(f[n], t)
    BY <2>2, CutsAre
  <2> HIDE DEF f, m, N
  <2>6. CASE t \in Upto(lines, n)
    <3>1. n # 0 /\ f[m] = f[n]
      BY <2>4, <2>5, <2>6
    <3>2. PICK i \in 1 .. n : LastNew(lines, n, i)
      BY <2>3, <3>1
    <3>3. LastNew(lines, m, i)
      <4>1. \A k \in i .. n : f[k] = f[i]
        BY <3>2 DEF LastNew, f
      <4>2. i \in 1 .. m /\ n \in i .. n /\ \A k \in i .. m : k \in i .. n \/ k = m
        BY <2>2 DEF m
      <4>3. \A k \in i .. m : f[k] = f[i]
        BY <3>1, <4>1, <4>2
      <4>4. QED
        BY <3>2, <4>2, <4>3 DEF LastNew, f
    <3>4. QED
      BY <2>2, <2>3, <2>4, <3>1, <3>3 DEF m
  <2>7. CASE t \notin Upto(lines, n)
    <3>1. f[m] = Longer(f[n], t)
      BY <2>5, <2>7
    <3>2. t \in ToSet(f[m]) /\ ToSet(f[m]) \subseteq ToSet(f[n]) \cup {t}
      BY <2>4, <2>5, <3>1, LongerHas
    <3>3. LastNew(lines, m, m)
      <4>1. \A k \in m .. m : k = m
        BY <2>2
      <4>2. QED
        BY <2>2, <2>7, <3>2, <4>1 DEF LastNew, f
    <3>4. QED
      BY <2>2, <2>3, <2>4, <3>2, <3>3 DEF m
  <2>8. QED
    BY <2>6, <2>7
<1>4. \A n \in 0 .. N : Good(n)
  <2> HIDE DEF Good, N
  <2>1. Nat \subseteq T
    <3> HIDE DEF T
    <3>1. QED
      BY <1>2, <1>3, CountingUp
  <2>2. \A n \in 0 .. N : n \in T /\ n <= N
    BY <1>1, <2>1
  <2>3. QED
    BY <2>2
<1>5. QED
  BY <1>4

\* Lines that repeat others change nothing.
LEMMA CutsAlike ==
    ASSUME NEW lines \in Seq(Text), NEW m \in 0 .. Len(lines), NEW n \in 0 .. Len(lines), m <= n,
           Upto(lines, n) \subseteq Upto(lines, m)
    PROVE  Cuts(lines)[n] = Cuts(lines)[m]
<1> DEFINE N == Len(lines)
           f == Cuts(lines)
           T == {d \in Nat : m + d <= n => f[m + d] = f[m]}
<1>1. N \in Nat /\ m \in Nat /\ n \in Nat /\ n <= N
  OBVIOUS
<1>2. 0 \in T
  BY <1>1
<1>3. ASSUME NEW d \in Nat, d \in T
      PROVE  d + 1 \in T
  <2>1. SUFFICES ASSUME m + (d + 1) <= n
                 PROVE  f[m + (d + 1)] = f[m]
    OBVIOUS
  <2> DEFINE k == m + (d + 1)
  <2>2. /\ k \in 1 .. N /\ k - 1 = m + d /\ m + d <= n /\ k \in 1 .. n
        /\ \A i \in 1 .. m : i \in 1 .. k - 1
    BY <1>1, <2>1
  <2>3. lines[k] \in Upto(lines, k - 1)
    BY <2>2 DEF Upto
  <2>4. f[k] = f[k - 1]
    BY <2>2, <2>3, CutsAre
  <2>5. f[m + d] = f[m]
    BY <1>3, <2>2
  <2>6. QED
    BY <2>2, <2>4, <2>5
<1>4. Nat \subseteq T
  <2> HIDE DEF T
  <2>1. QED
    BY <1>2, <1>3, CountingUp
<1>5. n - m \in Nat /\ m + (n - m) = n
  BY <1>1
<1>6. QED
  BY <1>1, <1>4, <1>5

\* A file that grows is cut as it was, up to its end.
LEMMA CutsGrow ==
    ASSUME NEW lines \in Seq(Text), NEW t \in Text
    PROVE  \A n \in 0 .. Len(lines) : /\ Cuts(Append(lines, t))[n] = Cuts(lines)[n]
                                      /\ Upto(Append(lines, t), n) = Upto(lines, n)
<1> DEFINE N == Len(lines)
           more == Append(lines, t)
           f == Cuts(lines)
           h == Cuts(more)
           T == {n \in Nat : n <= N => h[n] = f[n]}
<1>1. /\ N \in Nat /\ more \in Seq(Text) /\ Len(more) = N + 1
      /\ \A k \in 1 .. N : more[k] = lines[k]
  OBVIOUS
<1>2. /\ h[0] = <<>>
      /\ \A n \in 1 .. N + 1 : h[n] = IF more[n] \in Upto(more, n - 1) THEN h[n - 1]
                                      ELSE Longer(h[n - 1], more[n])
  BY <1>1, CutsAre
<1>3. /\ f[0] = <<>>
      /\ \A n \in 1 .. N : f[n] = IF lines[n] \in Upto(lines, n - 1) THEN f[n - 1]
                                  ELSE Longer(f[n - 1], lines[n])
  BY CutsAre
<1> HIDE DEF N, more, f, h
<1>4. ASSUME NEW n \in 0 .. N
      PROVE  Upto(more, n) = Upto(lines, n)
  <2>1. \A k \in 1 .. n : k \in 1 .. N
    BY <1>1
  <2>2. QED
    BY <1>1, <2>1 DEF Upto
<1>5. 0 \in T
  BY <1>2, <1>3
<1>6. ASSUME NEW n \in Nat, n \in T
      PROVE  n + 1 \in T
  <2>1. SUFFICES ASSUME n + 1 <= N
                 PROVE  h[n + 1] = f[n + 1]
    OBVIOUS
  <2>2. n + 1 \in 1 .. N /\ n + 1 \in 1 .. N + 1 /\ n \in 0 .. N /\ (n + 1) - 1 = n /\ h[n] = f[n]
    BY <1>1, <1>6, <2>1
  <2>3. QED
    BY <1>1, <1>2, <1>3, <1>4, <2>2
<1>7. Nat \subseteq T
  <2> HIDE DEF T
  <2>1. QED
    BY <1>5, <1>6, CountingUp
<1>8. \A n \in 0 .. N : h[n] = f[n]
  BY <1>1, <1>7
<1>9. QED
  BY <1>4, <1>8 DEF N, more, f, h

\* What stays buffered: a chunk leaves with the message that fills it.
Unfilled(x) == IF Len(x) < MaxMessages THEN x ELSE <<>>

\* An accumulator that has absorbed, of a session, the lines up to the n-th has buffered
\* what the cut has by then.
CutLike(acc, s, lines, n) ==
    /\ acc.buffer[s] = Unfilled(Cuts(lines)[n])
    /\ \A k \in DOMAIN lines :
         [session |-> s, text |-> lines[k]] \in acc.absorbed <=> lines[k] \in Upto(lines, n)

\* The chunk that leaves with the n-th line, when that is new: the one it is in, which
\* is full, or the one before, which has no room for it.
CutOff(c, s, lines, n) ==
    /\ lines[n] \notin Upto(lines, n - 1) /\ c.session = s
    /\ \/ c.texts = Cuts(lines)[n] /\ Len(Cuts(lines)[n]) >= MaxMessages
       \/ /\ c.texts = Cuts(lines)[n - 1] /\ c.texts # <<>>
          /\ Cuts(lines)[n] = <<lines[n]>>

\* What leaves an accumulator with an emission.
LEMMA EmitLeaving ==
    ASSUME NEW acc \in Accumulators, NEW s \in Session
    PROVE  \A c \in Leaving(Emit(acc, s)) :
             c \in Leaving(acc) \/ (c = Held(acc, s) /\ c.texts # <<>>)
<1> DEFINE new == Emit(acc, s)
           chunk == Held(acc, s)
<1>1. CASE acc.buffer[s] = <<>>
  BY <1>1, EmitEffect
<1>2. CASE acc.buffer[s] # <<>>
  <2>1. /\ chunk.texts = acc.buffer[s] /\ chunk \in Chunk /\ acc.completed \in Seq(Chunk)
    BY DEF Held, Chunk, Accumulators
  <2>2. \/ /\ new.completed = acc.completed
           /\ new.suppressed = acc.suppressed \cup {chunk}
        \/ /\ new.completed = Append(acc.completed, chunk)
           /\ new.suppressed = acc.suppressed
    BY <1>2, EmitEffect
  <2>3. ToSet(Append(acc.completed, chunk)) = ToSet(acc.completed) \cup {chunk}
    BY <2>1, HoldsOf
  <2> HIDE DEF new, chunk
  <2>4. Leaving(new) \subseteq Leaving(acc) \cup {chunk}
    BY <2>2, <2>3 DEF Leaving
  <2>5. QED
    BY <1>2, <2>1, <2>4 DEF new, chunk
<1>3. QED
  BY <1>1, <1>2

\* add goes on from line to line as the cut does.
LEMMA AddCut ==
    ASSUME NEW acc \in Accumulators, Small(acc), NEW s \in Session, NEW lines \in Seq(Text),
           NEW n \in 1 .. Len(lines), CutLike(acc, s, lines, n - 1),
           NEW e, e = [session |-> s, text |-> lines[n]]
    PROVE  /\ CutLike(Add(acc, e), s, lines, n)
           /\ \A r \in Session \ {s} : Add(acc, e).buffer[r] = acc.buffer[r]
           /\ \A c \in Leaving(Add(acc, e)) : c \in Leaving(acc) \/ CutOff(c, s, lines, n)
<1> DEFINE t == lines[n]
           x == Cuts(lines)[n - 1]
           y == Cuts(lines)[n]
           room == Roomy(acc, e)
           held == Put(room, e)
           new == Add(acc, e)
<1>1. /\ Upto(lines, n) = Upto(lines, n - 1) \cup {t} /\ t \in Text
      /\ n \in DOMAIN lines /\ n - 1 \in 0 .. Len(lines)
  BY UptoGrows
<1>2. e \in Event /\ e.session = s /\ e.text = t
  BY <1>1 DEF Event
<1>3. /\ x \in Seq(Text) /\ y = IF t \in Upto(lines, n - 1) THEN x ELSE Longer(x, t)
  BY <1>1, CutsAre
<1>4. /\ acc.buffer[s] = Unfilled(x)
      /\ \A k \in DOMAIN lines :
           [session |-> s, text |-> lines[k]] \in acc.absorbed <=> lines[k] \in Upto(lines, n - 1)
  BY DEF CutLike
<1>5. e \in acc.absorbed <=> t \in Upto(lines, n - 1)
  BY <1>1, <1>4
<1>6. CASE e \in acc.absorbed
  <2>1. new = acc
    BY <1>6, AddSteps
  <2>2. t \in Upto(lines, n - 1) /\ y = x /\ Upto(lines, n) = Upto(lines, n - 1)
    BY <1>1, <1>3, <1>5, <1>6
  <2>3. CutLike(acc, s, lines, n)
    BY <1>4, <2>2 DEF CutLike
  <2>4. QED
    BY <2>1, <2>3
<1>7. CASE e \notin acc.absorbed
  <2>1. t \notin Upto(lines, n - 1) /\ y = Longer(x, t)
    BY <1>3, <1>5, <1>7
  <2>2. MaxMessages \in Nat \ {0} /\ Len(x) \in Nat /\ acc.buffer[s] \in Seq(Text) /\ Len(<<>>) = 0
    BY <1>3, IngestAssumption DEF Accumulators
  <2>3. /\ room \in Accumulators /\ room.absorbed = acc.absorbed
        /\ \A r \in Session \ {s} : room.buffer[r] = acc.buffer[r]
        /\ Append(room.buffer[s], t) = y
        /\ \A c \in Leaving(room) : c \in Leaving(acc) \/ CutOff(c, s, lines, n)
    <3>1. CASE Overflows(acc.buffer[s], t)
      <4>1. room = Emit(acc, s)
        BY <1>2, <3>1 DEF Roomy
      <4>2. /\ room \in Accumulators /\ room.absorbed = acc.absorbed /\ room.buffer[s] = <<>>
            /\ \A r \in Session \ {s} : room.buffer[r] = acc.buffer[r]
        BY <4>1, EmitEffect
      <4>3. acc.buffer[s] # <<>>
        BY <3>1 DEF Overflows
      <4>4. acc.buffer[s] = x
        BY <1>4, <4>3 DEF Unfilled
      <4>5. y = <<t>>
        BY <2>1, <3>1, <4>4 DEF Longer
      <4>6. Append(room.buffer[s], t) = <<t>>
        <5>1. Append(<<>>, t) = <<t>>
          OBVIOUS
        <5> HIDE DEF room, t
        <5>2. QED
          BY <4>2, <5>1
      <4>7. ASSUME NEW c \in Leaving(room)
            PROVE  c \in Leaving(acc) \/ CutOff(c, s, lines, n)
        <5>1. c \in Leaving(acc) \/ (c = Held(acc, s) /\ c.texts # <<>>)
          BY <4>1, <4>7, EmitLeaving
        <5>2. ASSUME c = Held(acc, s) /\ c.texts # <<>>
              PROVE  CutOff(c, s, lines, n)
          <6>1. c.session = s /\ c.texts = x
            BY <4>4, <5>2 DEF Held
          <6>2. QED
            BY <2>1, <4>5, <5>2, <6>1 DEF CutOff
        <5>3. QED
          BY <5>1, <5>2
      <4> HIDE DEF room, y
      <4>8. QED
        BY <4>2, <4>5, <4>6, <4>7
    <3>2. CASE ~ Overflows(acc.buffer[s], t)
      <4>1. room = acc
        BY <1>2, <3>2 DEF Roomy
      <4>2. Append(acc.buffer[s], t) = y
        <5>1. CASE Len(x) < MaxMessages
          <6>1. acc.buffer[s] = x
            BY <1>4, <5>1 DEF Unfilled
          <6>2. QED
            BY <2>1, <3>2, <5>1, <6>1 DEF Longer
        <5>2. CASE ~(Len(x) < MaxMessages)
          <6>1. acc.buffer[s] = <<>>
            BY <1>4, <5>2 DEF Unfilled
          <6>2. y = <<t>>
            BY <2>1, <5>2 DEF Longer
          <6>3. Append(<<>>, t) = <<t>>
            OBVIOUS
          <6>4. QED
            BY <6>1, <6>2, <6>3
        <5>3. QED
          BY <5>1, <5>2
      <4>3. QED
        BY <4>1, <4>2
    <3>3. QED
      BY <3>1, <3>2
  <2> HIDE DEF room
  <2>4. /\ held \in Accumulators /\ held.absorbed = acc.absorbed \cup {e} /\ held.buffer[s] = y
        /\ \A r \in Session \ {s} : held.buffer[r] = acc.buffer[r]
        /\ Leaving(held) = Leaving(room)
    <3>1. /\ held \in Accumulators /\ held.absorbed = room.absorbed \cup {e}
          /\ held.buffer[s] = Append(room.buffer[s], e.text)
          /\ \A r \in Session \ {s} : held.buffer[r] = room.buffer[r]
          /\ held.completed = room.completed /\ held.suppressed = room.suppressed
      BY <1>2, <2>3, PutEffect
    <3> HIDE DEF held, y, t
    <3>2. held.buffer[s] = y
      BY <1>2, <2>3, <3>1
    <3>3. Leaving(held) = Leaving(room)
      BY <3>1 DEF Leaving
    <3>4. QED
      BY <2>3, <3>1, <3>2, <3>3
  <2>5. new = IF Len(held.buffer[s]) >= MaxMessages THEN Emit(held, s) ELSE held
    BY <1>2, <1>7, AddSteps DEF room
  <2> HIDE DEF held, new
  <2>6. y \in Seq(Text) /\ Len(y) \in Nat
    <3>1. Longer(x, t) \in Seq(Text)
      BY <1>1, <1>3, LongerTyped
    <3> HIDE DEF y
    <3>2. QED
      BY <2>1, <3>1
  <2>7. /\ new.buffer[s] = Unfilled(y) /\ new.absorbed = acc.absorbed \cup {e}
        /\ \A r \in Session \ {s} : new.buffer[r] = acc.buffer[r]
        /\ \A c \in Leaving(new) : c \in Leaving(acc) \/ CutOff(c, s, lines, n)
    <3>1. CASE Len(y) >= MaxMessages
      <4>1. new = Emit(held, s)
        BY <2>4, <2>5, <3>1
      <4>2. /\ new.absorbed = held.absorbed /\ new.buffer[s] = <<>>
            /\ \A r \in Session \ {s} : new.buffer[r] = held.buffer[r]
        BY <2>4, <4>1, EmitEffect
      <4>3. Unfilled(y) = <<>>
        BY <2>2, <2>6, <3>1 DEF Unfilled
      <4>4. ASSUME NEW c \in Leaving(new)
            PROVE  c \in Leaving(acc) \/ CutOff(c, s, lines, n)
        <5>1. c \in Leaving(held) \/ c = Held(held, s)
          BY <2>4, <4>1, <4>4, EmitLeaving
        <5>2. ASSUME c = Held(held, s)
              PROVE  CutOff(c, s, lines, n)
          <6>1. c.session = s /\ c.texts = y
            BY <2>4, <5>2 DEF Held
          <6>2. QED
            BY <2>1, <3>1, <6>1 DEF CutOff
        <5>3. QED
          BY <2>3, <2>4, <5>1, <5>2
      <4>5. QED
        BY <2>4, <4>2, <4>3, <4>4
    <3>2. CASE ~(Len(y) >= MaxMessages)
      <4>1. new = held /\ Unfilled(y) = y
        BY <2>2, <2>4, <2>5, <2>6, <3>2 DEF Unfilled
      <4>2. QED
        BY <2>3, <2>4, <4>1
    <3>3. QED
      BY <3>1, <3>2
  <2>8. ASSUME NEW k \in DOMAIN lines
        PROVE  [session |-> s, text |-> lines[k]] \in new.absorbed <=> lines[k] \in Upto(lines, n)
    <3> DEFINE d == [session |-> s, text |-> lines[k]]
    <3>1. d = e <=> lines[k] = t
      BY <1>2
    <3> HIDE DEF d, t
    <3>2. d \in acc.absorbed <=> lines[k] \in Upto(lines, n - 1)
      BY <1>4 DEF d
    <3>3. d \in new.absorbed <=> lines[k] \in Upto(lines, n)
      BY <1>1, <2>7, <3>1, <3>2
    <3>4. QED
      BY <3>3 DEF d
  <2>9. CutLike(new, s, lines, n)
    BY <2>7, <2>8 DEF CutLike
  <2>10. QED
    BY <2>7, <2>9 DEF new
<1>8. QED
  BY <1>6, <1>7

\* A chunk that is complete after n lines: the i-th was the last to add its text to it,
\* and no cut from there on but the chunk has that text.
WholeBy(c, s, lines, n, i) ==
    /\ i \in 1 .. n /\ lines[i] \notin Upto(lines, i - 1)
    /\ c.session = s /\ c.texts = Cuts(lines)[i] /\ lines[i] \in ToSet(c.texts)
    /\ \A m \in i .. n : Cuts(lines)[m] = c.texts \/ lines[i] \notin ToSet(Cuts(lines)[m])

\* It stays complete, or is full.
Closed(c, s, lines, n) ==
    \E i \in 1 .. n : /\ WholeBy(c, s, lines, n, i)
                      /\ Cuts(lines)[n] = c.texts => Len(c.texts) >= MaxMessages

\* A chunk that is complete stays so with the next line.
LEMMA ClosedStays ==
    ASSUME NEW lines \in Seq(Text), NEW n \in 1 .. Len(lines), NEW c, NEW s,
           Closed(c, s, lines, n - 1)
    PROVE  Closed(c, s, lines, n)
<1> DEFINE f == Cuts(lines)
           t == lines[n]
<1>1. PICK i \in 1 .. n - 1 : /\ WholeBy(c, s, lines, n - 1, i)
                              /\ f[n - 1] = c.texts => Len(c.texts) >= MaxMessages
  BY DEF Closed
<1>2. /\ t \in Text /\ n \in Nat /\ n - 1 \in 0 .. Len(lines) /\ Len(lines) \in Nat
  BY UptoGrows
<1>3. f[n - 1] \in Seq(Text) /\ f[n] = IF t \in Upto(lines, n - 1) THEN f[n - 1] ELSE Longer(f[n - 1], t)
  BY <1>2, CutsAre
<1>4. /\ i \in 1 .. n /\ n - 1 \in i .. n - 1
      /\ \A m \in i .. n : m \in i .. n - 1 \/ m = n
  BY <1>2
<1> HIDE DEF f
<1>5. /\ lines[i] \notin Upto(lines, i - 1) /\ c.session = s /\ c.texts = f[i]
      /\ lines[i] \in ToSet(c.texts)
      /\ \A m \in i .. n - 1 : f[m] = c.texts \/ lines[i] \notin ToSet(f[m])
  BY <1>1 DEF WholeBy, f
<1>6. /\ f[n] = c.texts \/ lines[i] \notin ToSet(f[n])
      /\ f[n] = c.texts => Len(c.texts) >= MaxMessages
  <2>1. CASE t \in Upto(lines, n - 1)
    BY <1>1, <1>3, <1>4, <1>5, <2>1
  <2>2. CASE t \notin Upto(lines, n - 1)
    <3>1. lines[i] \in Upto(lines, n - 1)
      BY DEF Upto
    <3>2. lines[i] # t
      BY <2>2, <3>1
    <3>3. /\ ToSet(f[n]) \subseteq ToSet(f[n - 1]) \cup {t}
          /\ \/ f[n] = <<t>> \/ Len(f[n - 1]) < MaxMessages
          /\ ToSet(<<t>>) = {t}
      BY <1>2, <1>3, <2>2, LongerHas
    <3>4. MaxMessages \in Nat /\ Len(f[n - 1]) \in Nat
      BY <1>3, IngestAssumption
    <3> HIDE DEF t
    <3>5. lines[i] \notin ToSet(f[n])
      <4>1. CASE f[n] = <<t>>
        BY <3>2, <3>3, <4>1
      <4>2. CASE Len(f[n - 1]) < MaxMessages
        <5>1. f[n - 1] # c.texts
          BY <1>1, <3>4, <4>2
        <5>2. lines[i] \notin ToSet(f[n - 1])
          BY <1>4, <1>5, <5>1
        <5>3. QED
          BY <3>2, <3>3, <5>2
      <4>3. QED
        BY <3>3, <4>1, <4>2
    <3>6. f[n] # c.texts
      BY <1>5, <3>5
    <3>7. QED
      BY <3>5, <3>6
  <2>3. QED
    BY <2>1, <2>2
<1>7. \A m \in i .. n : f[m] = c.texts \/ lines[i] \notin ToSet(f[m])
  BY <1>4, <1>5, <1>6
<1>8. WholeBy(c, s, lines, n, i)
  BY <1>4, <1>5, <1>7 DEF WholeBy, f
<1>9. QED
  BY <1>4, <1>6, <1>8 DEF Closed, f

\* The chunk that is being cut, to the line it has come to.
LEMMA CutIsWhole ==
    ASSUME NEW lines \in Seq(Text), NEW n \in 0 .. Len(lines), NEW c, NEW s,
           c.session = s, c.texts = Cuts(lines)[n], c.texts # <<>>
    PROVE  \E i \in 1 .. n : WholeBy(c, s, lines, n, i)
                             /\ \A m \in i .. n : Cuts(lines)[m] = c.texts
<1>1. n # 0
  BY CutsAre
<1>2. PICK i \in 1 .. n : LastNew(lines, n, i)
  BY <1>1, CutsHave
<1>3. n \in i .. n
  OBVIOUS
<1>4. /\ i \in 1 .. n /\ lines[i] \notin Upto(lines, i - 1)
      /\ lines[i] \in ToSet(c.texts) /\ c.texts = Cuts(lines)[i]
      /\ \A m \in i .. n : Cuts(lines)[m] = c.texts
  BY <1>2, <1>3 DEF LastNew
<1>5. QED
  BY <1>4 DEF WholeBy

\* A chunk that a line cuts off is complete.
LEMMA CutOffCloses ==
    ASSUME NEW lines \in Seq(Text), NEW n \in 1 .. Len(lines), NEW c, NEW s,
           CutOff(c, s, lines, n)
    PROVE  Closed(c, s, lines, n)
<1> DEFINE f == Cuts(lines)
           t == lines[n]
<1>1. /\ t \in Text /\ n \in Nat /\ n - 1 \in 0 .. Len(lines) /\ n \in 0 .. Len(lines)
  BY UptoGrows
<1>2. t \notin Upto(lines, n - 1) /\ c.session = s
  BY DEF CutOff
<1>3. f[n] = Longer(f[n - 1], t) /\ f[n - 1] \in Seq(Text)
  BY <1>1, <1>2, CutsAre
<1>4. t \in ToSet(f[n]) /\ ToSet(<<t>>) = {t}
  BY <1>1, <1>3, LongerHas
<1> HIDE DEF f
<1>5. CASE c.texts = f[n] /\ Len(f[n]) >= MaxMessages
  <2>1. n \in 1 .. n /\ \A m \in n .. n : m = n
    BY <1>1
  <2>2. WholeBy(c, s, lines, n, n)
    BY <1>2, <1>4, <1>5, <2>1 DEF WholeBy, f
  <2>3. QED
    BY <1>5, <2>1, <2>2 DEF Closed, f
<1>6. CASE c.texts = f[n - 1] /\ c.texts # <<>> /\ f[n] = <<t>>
  <2>1. PICK i \in 1 .. n - 1 : WholeBy(c, s, lines, n - 1, i)
    BY <1>1, <1>2, <1>6, CutIsWhole DEF f
  <2>2. i \in 1 .. n /\ \A m \in i .. n : m \in i .. n - 1 \/ m = n
    BY <1>1
  <2>3. lines[i] \in Upto(lines, n - 1)
    BY DEF Upto
  <2>4. lines[i] \notin ToSet(f[n])
    BY <1>2, <1>4, <1>6, <2>3
  <2>5. /\ lines[i] \notin Upto(lines, i - 1) /\ c.texts = f[i] /\ lines[i] \in ToSet(c.texts)
        /\ \A m \in i .. n - 1 : f[m] = c.texts \/ lines[i] \notin ToSet(f[m])
    BY <2>1 DEF WholeBy, f
  <2>6. \A m \in i .. n : f[m] = c.texts \/ lines[i] \notin ToSet(f[m])
    BY <2>2, <2>4, <2>5
  <2>7. WholeBy(c, s, lines, n, i)
    BY <1>2, <2>2, <2>5, <2>6 DEF WholeBy, f
  <2>8. f[n] # c.texts
    BY <2>4, <2>5
  <2>9. QED
    BY <2>2, <2>7, <2>8 DEF Closed, f
<1>7. QED
  BY <1>5, <1>6 DEF CutOff, f

\* Nothing of a transcript has been cut yet.
LEMMA EmptyCut ==
    ASSUME NEW s \in Session, NEW lines \in Seq(Text)
    PROVE  CutLike(EmptyAccumulator, s, lines, 0) /\ Leaving(EmptyAccumulator) = {}
<1> DEFINE acc == EmptyAccumulator
<1>1. /\ acc.absorbed = {} /\ acc.completed = <<>> /\ acc.suppressed = {}
      /\ acc.buffer[s] = <<>>
  BY DEF EmptyAccumulator
<1> HIDE DEF acc
<1>2. Cuts(lines)[0] = <<>> /\ ToSet(<<>>) = {} /\ \A t : t \notin Upto(lines, 0)
  BY CutsAre DEF ToSet, Upto
<1>3. CutLike(acc, s, lines, 0)
  BY <1>1, <1>2 DEF CutLike, Unfilled
<1>4. Leaving(acc) = {}
  BY <1>1, <1>2 DEF Leaving
<1>5. QED
  BY <1>3, <1>4 DEF acc

\* Every chunk of a whole transcript is complete.
LEMMA ChunksWhole ==
    ASSUME NEW s \in Session, NEW lines \in Seq(Text)
    PROVE  \A c \in Leaving(ChunkEvents(s, lines)) :
             \E i \in 1 .. Len(lines) : WholeBy(c, s, lines, Len(lines), i)
<1> DEFINE N == Len(lines)
           B == {p \in (0 .. N) \X Accumulators :
                   /\ CutLike(p[2], s, lines, p[1])
                   /\ \A c \in Leaving(p[2]) : Closed(c, s, lines, p[1])}
           event(n) == [session |-> s, text |-> lines[n]]
<1>1. N \in Nat /\ N \in 0 .. N /\ 0 \in 0 .. N
  OBVIOUS
<1>2. \A n \in 0 .. N : \A a \in Accumulators :
        <<n, a>> \in B <=> CutLike(a, s, lines, n) /\ \A c \in Leaving(a) : Closed(c, s, lines, n)
  OBVIOUS
<1>3. \A n, a : <<n, a>> \in B => n \in 0 .. N /\ a \in Accumulators
  OBVIOUS
<1> HIDE DEF B
<1>4. <<0, EmptyAccumulator>> \in B
  BY <1>1, <1>2, EmptyCut, EmptySound DEF Sound
<1>5. ASSUME NEW n \in 1 .. N, NEW a, Sound(a, Event, Seq(Text)), Small(a), <<n - 1, a>> \in B
      PROVE  <<n, Add(a, event(n))>> \in B
  <2>1. /\ n - 1 \in 0 .. N /\ n \in 0 .. N /\ a \in Accumulators /\ lines[n] \in Text
        /\ CutLike(a, s, lines, n - 1) /\ \A c \in Leaving(a) : Closed(c, s, lines, n - 1)
    BY <1>1, <1>2, <1>3, <1>5
  <2>2. Add(a, event(n)) \in Accumulators
    <3>1. event(n) \in Event
      BY <2>1 DEF Event
    <3> HIDE DEF event
    <3>2. QED
      BY <1>5, <3>1, AddSound DEF Sound
  <2>3. /\ CutLike(Add(a, event(n)), s, lines, n)
        /\ \A c \in Leaving(Add(a, event(n))) : c \in Leaving(a) \/ CutOff(c, s, lines, n)
    BY <1>5, <2>1, AddCut
  <2>4. \A c \in Leaving(Add(a, event(n))) : Closed(c, s, lines, n)
    BY <2>1, <2>3, ClosedStays, CutOffCloses
  <2>5. QED
    BY <1>2, <2>1, <2>2, <2>3, <2>4
<1>6. PICK a : /\ Sound(a, Event, Seq(Text)) /\ <<N, a>> \in B
               /\ ChunkEvents(s, lines) = Emit(a, s)
  BY <1>4, <1>5, ChunkEventsBy
<1>7. /\ a \in Accumulators /\ CutLike(a, s, lines, N) /\ \A c \in Leaving(a) : Closed(c, s, lines, N)
  BY <1>1, <1>2, <1>3, <1>6
<1>8. ASSUME NEW c \in Leaving(Emit(a, s))
      PROVE  \E i \in 1 .. N : WholeBy(c, s, lines, N, i)
  <2>1. CASE c \in Leaving(a)
    BY <1>7, <2>1 DEF Closed
  <2>2. CASE c = Held(a, s) /\ c.texts # <<>>
    <3>1. c.session = s /\ c.texts = Cuts(lines)[N]
      BY <1>7, <2>2 DEF Held, CutLike, Unfilled
    <3>2. QED
      BY <1>1, <2>2, <3>1, CutIsWhole
  <2>3. QED
    BY <1>7, <1>8, <2>1, <2>2, EmitLeaving
<1>9. QED
  BY <1>6, <1>8

\* The text that a complete chunk ends with is in no other cut.
LEMMA WholeIsOnly ==
    ASSUME NEW lines \in Seq(Text), NEW c, NEW s, NEW i \in 1 .. Len(lines),
           WholeBy(c, s, lines, Len(lines), i),
           NEW m \in 1 .. Len(lines), lines[i] \in ToSet(Cuts(lines)[m])
    PROVE  Cuts(lines)[m] = c.texts
<1>1. CASE m < i
  <2>1. ToSet(Cuts(lines)[m]) \subseteq Upto(lines, m)
    BY CutsHave
  <2>2. Upto(lines, m) \subseteq Upto(lines, i - 1)
    <3>1. \A k \in 1 .. m : k \in 1 .. i - 1
      BY <1>1
    <3>2. QED
      BY <3>1 DEF Upto
  <2>3. QED
    BY <2>1, <2>2 DEF WholeBy
<1>2. CASE ~(m < i)
  <2>1. m \in i .. Len(lines)
    BY <1>2
  <2>2. QED
    BY <2>1 DEF WholeBy
<1>3. QED
  BY <1>1, <1>2

-----------------------------------------------------------------------------
(* A re-flush *)

\* The chunk is one of the cuts of its session's transcript.
Sliced(c) == \E n \in 1 .. Len(transcript[c.session]) : c.texts = Cuts(transcript[c.session])[n]

\* The consumer has cut each transcript as far as it has read it.
FollowsTranscripts ==
    consumer = "running" =>
      \A s \in Session : \E n \in 0 .. Len(transcript[s]) : CutLike(accumulator, s, transcript[s], n)

\* What was stored or will be is cut from a transcript.
AllSliced == \A c \in Stored \cup InHand("consumer") \cup InHand("hook") : Sliced(c)

\* Within one life of the process, when files only grow.
CutAlike == ~ Rewrites /\ restarts = 0 => FollowsTranscripts /\ AllSliced

\* What is stored by either caller, as one set.
LEMMA StoredIs ==
    /\ Stored = ToSet(extracted["consumer"]) \cup ToSet(extracted["hook"])
    /\ Stored' = ToSet(extracted'["consumer"]) \cup ToSet(extracted'["hook"])
<1>1. Callers = {"consumer", "hook"}
  BY DEF Callers
<1>2. QED
  BY <1>1 DEF Stored

\* The event the consumer takes next is that of the first line of its session that is
\* not absorbed; the lines before it are.
LEMMA HeadIsNext ==
    ASSUME Data, Kept, YieldedFromStart, ~ Rewrites, queue # <<>>, Head(queue) # Done,
           QueuedIn(Apart, queue, accumulator.absorbed),
           NEW s, s = Head(queue).session, NEW n, n = FirstLine(s, Head(queue).text)
    PROVE  /\ s \in Session /\ n \in 1 .. Len(transcript[s])
           /\ Head(queue) = [session |-> s, text |-> transcript[s][n]]
           /\ \A k \in DOMAIN transcript[s] :
                [session |-> s, text |-> transcript[s][k]] \in accumulator.absorbed
                  <=> transcript[s][k] \in Upto(transcript[s], n - 1)
<1> DEFINE e == Head(queue)
           lines == transcript[s]
           event(k) == [session |-> s, text |-> lines[k]]
           Y == accumulator.absorbed
<1>1. /\ queue \in Seq(Event \cup {Done}) /\ ToSet(queue) \subseteq Event \cup {Done}
      /\ e \in ToSet(queue)
  <2>1. queue \in Seq(Event \cup {Done})
    BY DEF Data
  <2>2. QED
    BY <2>1, HoldsOf
<1>2. /\ e \in Event /\ s \in Session /\ e = [session |-> s, text |-> e.text]
  BY <1>1 DEF Event
<1>3. lines \in Seq(Text) /\ DOMAIN lines = 1 .. Len(lines) /\ Len(lines) \in Nat
  BY <1>2 DEF Data
<1>4. /\ yielded \subseteq ToSet(queue) \cup Y /\ Y \cup (ToSet(queue) \ {Done}) \subseteq yielded
  BY DEF Kept, EventsKept
<1>5. /\ e.text \in ToSet(lines)
      /\ \A k \in DOMAIN lines : k <= n => event(k) \in yielded
  <2>1. e \in yielded
    BY <1>1, <1>4
  <2>2. QED
    BY <2>1 DEF YieldedFromStart
<1>6. /\ n \in DOMAIN lines /\ lines[n] = e.text
      /\ \A k \in DOMAIN lines : lines[k] = e.text => n <= k
  BY <1>2, <1>3, <1>5, FirstLineIs
<1>7. \A k \in DOMAIN lines :
        /\ FirstLine(s, lines[k]) \in DOMAIN lines /\ lines[FirstLine(s, lines[k])] = lines[k]
        /\ FirstLine(s, lines[k]) <= k
  <2>1. \A k \in DOMAIN lines : lines[k] \in ToSet(lines)
    BY DEF ToSet
  <2>2. QED
    BY <1>2, <1>3, <2>1, FirstLineIs
<1>8. \A k \in DOMAIN lines : event(k).session = s /\ event(k).text = lines[k]
  OBVIOUS
<1> HIDE DEF e, lines, event, Y
<1>9. ASSUME NEW k \in DOMAIN lines, event(k) \in Y
      PROVE  lines[k] \in Upto(lines, n - 1)
  <2>1. <<event(k), e>> \in Apart
    BY <1>1, <1>9 DEF QueuedIn, Y, e
  <2>2. FirstLine(s, lines[k]) < n
    BY <1>8, <2>1 DEF Apart, e
  <2>3. FirstLine(s, lines[k]) \in 1 .. n - 1
    BY <1>3, <1>6, <1>7, <2>2
  <2>4. QED
    BY <1>7, <2>3 DEF Upto
<1>10. ASSUME NEW k \in DOMAIN lines, lines[k] \in Upto(lines, n - 1)
       PROVE  event(k) \in Y
  <2>1. PICK j \in 1 .. n - 1 : lines[k] = lines[j]
    BY <1>10 DEF Upto
  <2>2. j \in DOMAIN lines /\ j <= n /\ j < n
    BY <1>3, <1>6
  <2>3. event(k) = event(j) /\ event(j) \in yielded
    BY <1>5, <2>1, <2>2 DEF event
  <2>4. ASSUME event(j) \in ToSet(queue)
        PROVE  FALSE
    <3>1. PICK i \in DOMAIN queue : queue[i] = event(j)
      BY <2>4 DEF ToSet
    <3>2. DOMAIN queue = 1 .. Len(queue) /\ Len(queue) \in Nat /\ 1 \in DOMAIN queue /\ e = queue[1]
      BY <1>1 DEF e
    <3>3. CASE i = 1
      <4>1. e.text = lines[j]
        BY <1>8, <2>2, <3>1, <3>2, <3>3
      <4>2. QED
        BY <1>3, <1>6, <2>2, <4>1
    <3>4. CASE i # 1
      <4>1. 1 < i
        BY <3>2, <3>4
      <4>2. event(j) # Done
        <5>1. event(j) \in Event
          BY <2>3 DEF Data
        <5>2. Done \notin Event
          BY IngestAssumption DEF Event
        <5>3. QED
          BY <5>1, <5>2
      <4>3. <<e, event(j)>> \in Apart
        BY <3>1, <3>2, <4>1, <4>2 DEF QueuedIn, e
      <4>4. n < FirstLine(s, lines[j])
        BY <1>8, <2>2, <4>3 DEF Apart, e
      <4>5. QED
        BY <1>3, <1>6, <1>7, <2>2, <4>4
    <3>5. QED
      BY <3>3, <3>4
  <2>5. QED
    BY <1>4, <2>3, <2>4
<1>11. \A k \in DOMAIN lines : event(k) \in Y <=> lines[k] \in Upto(lines, n - 1)
  BY <1>9, <1>10
<1>12. QED
  BY <1>2, <1>3, <1>6, <1>11 DEF e, lines, event, Y

\* An accumulator that has cut as far as some line has cut as far as any that leaves
\* the same lines absorbed.
LEMMA CutLikewise ==
    ASSUME NEW acc, NEW s, NEW lines \in Seq(Text), NEW m \in 0 .. Len(lines), CutLike(acc, s, lines, m),
           NEW n \in 0 .. Len(lines),
           \A k \in DOMAIN lines :
             [session |-> s, text |-> lines[k]] \in acc.absorbed <=> lines[k] \in Upto(lines, n)
    PROVE  CutLike(acc, s, lines, n)
<1>1. DOMAIN lines = 1 .. Len(lines) /\ Len(lines) \in Nat /\ m \in Nat /\ n \in Nat
      /\ (\A k \in 1 .. m : k \in DOMAIN lines) /\ (\A k \in 1 .. n : k \in DOMAIN lines)
  OBVIOUS
<1>2. \A k \in DOMAIN lines : lines[k] \in Upto(lines, m) <=> lines[k] \in Upto(lines, n)
  BY DEF CutLike
<1>3. Upto(lines, m) \subseteq Upto(lines, n)
  <2>1. ASSUME NEW x \in Upto(lines, m)
        PROVE  x \in Upto(lines, n)
    <3>1. PICK k \in 1 .. m : x = lines[k]
      BY DEF Upto
    <3>2. QED
      BY <1>1, <1>2, <3>1
  <2>2. QED
    BY <2>1
<1>4. Upto(lines, n) \subseteq Upto(lines, m)
  <2>1. ASSUME NEW x \in Upto(lines, n)
        PROVE  x \in Upto(lines, m)
    <3>1. PICK k \in 1 .. n : x = lines[k]
      BY DEF Upto
    <3>2. QED
      BY <1>1, <1>2, <3>1
  <2>2. QED
    BY <2>1
<1>5. Cuts(lines)[m] = Cuts(lines)[n]
  <2>1. CASE m <= n
    BY <1>4, <2>1, CutsAlike
  <2>2. CASE n <= m
    BY <1>3, <2>2, CutsAlike
  <2>3. QED
    BY <1>1, <2>1, <2>2
<1>6. QED
  BY <1>5 DEF CutLike

\* A line that is appended changes no cut.
LEMMA CutAlikeGrows ==
    ASSUME Data, Kept, YieldedFromStart, CutAlike, NEW s \in Session, NEW t \in Text, WriteLine(s, t)
    PROVE  CutAlike'
<1>1. /\ UNCHANGED <<yielded, consumer, accumulator, ready, working, extracted, restarts, mode>>
      /\ Rewrites' = Rewrites
  BY DEF WriteLine, sourceVars, consumerVars, serviceVars, storeVars, Rewrites
<1>2. SUFFICES ASSUME ~ Rewrites, restarts = 0
               PROVE  FollowsTranscripts' /\ AllSliced'
  BY <1>1 DEF CutAlike
<1>3. FollowsTranscripts /\ AllSliced
  BY <1>2 DEF CutAlike
<1>4. transcript' = [transcript EXCEPT ![s] = Append(@, t)] /\ transcript \in [Session -> Seq(Text)]
  BY <1>2, LineAppended DEF Data
<1> DEFINE lines == transcript[s]
           more == Append(lines, t)
<1>5. /\ lines \in Seq(Text) /\ more \in Seq(Text) /\ Len(more) = Len(lines) + 1 /\ Len(lines) \in Nat
      /\ DOMAIN lines = 1 .. Len(lines) /\ DOMAIN more = 1 .. Len(lines) + 1
      /\ more[Len(lines) + 1] = t /\ \A k \in 1 .. Len(lines) : more[k] = lines[k]
  BY <1>4
<1>6. \A n \in 0 .. Len(lines) : Cuts(more)[n] = Cuts(lines)[n] /\ Upto(more, n) = Upto(lines, n)
  BY <1>5, CutsGrow
<1>7. /\ transcript'[s] = more /\ \A r \in Session \ {s} : transcript'[r] = transcript[r]
  BY <1>4
<1> HIDE DEF more
<1>8. ASSUME consumer = "running", NEW r \in Session
      PROVE  \E n \in 0 .. Len(transcript'[r]) : CutLike(accumulator, r, transcript'[r], n)
  <2>1. PICK n \in 0 .. Len(transcript[r]) : CutLike(accumulator, r, transcript[r], n)
    BY <1>3, <1>8 DEF FollowsTranscripts
  <2>2. CASE r # s
    BY <1>7, <2>1, <2>2
  <2>3. CASE r = s
    <3>1. n \in 0 .. Len(lines) /\ n \in 0 .. Len(more) /\ CutLike(accumulator, s, lines, n)
      BY <1>5, <2>1, <2>3
    <3> DEFINE last == Len(lines) + 1
               event == [session |-> s, text |-> t]
    <3>2. ASSUME event \in accumulator.absorbed
          PROVE  t \in Upto(lines, n)
      <4>1. event \in yielded
        BY <3>2 DEF Kept, EventsKept
      <4>2. t \in ToSet(lines)
        BY <1>2, <4>1 DEF YieldedFromStart
      <4>3. QED
        BY <3>1, <3>2, <4>2 DEF CutLike, ToSet
    <3>3. ASSUME t \in Upto(lines, n)
          PROVE  event \in accumulator.absorbed
      <4>1. PICK k \in 1 .. n : t = lines[k]
        BY <3>3 DEF Upto
      <4>2. k \in DOMAIN lines
        BY <1>5, <3>1
      <4>3. QED
        BY <3>1, <3>3, <4>1, <4>2 DEF CutLike
    <3>4. ASSUME NEW k \in DOMAIN more
          PROVE  [session |-> s, text |-> more[k]] \in accumulator.absorbed <=> more[k] \in Upto(more, n)
      <4>1. CASE k \in DOMAIN lines
        BY <1>5, <1>6, <3>1, <4>1 DEF CutLike
      <4>2. CASE k = Len(lines) + 1
        BY <1>5, <1>6, <3>1, <3>2, <3>3, <4>2
      <4>3. QED
        BY <1>5, <4>1, <4>2
    <3>5. CutLike(accumulator, s, more, n)
      BY <1>6, <3>1, <3>4 DEF CutLike
    <3>6. QED
      BY <1>7, <2>3, <3>1, <3>5
  <2>4. QED
    BY <2>2, <2>3
<1>9. FollowsTranscripts'
  BY <1>1, <1>8 DEF FollowsTranscripts
<1>10. ASSUME NEW c, Sliced(c), c.session \in Session
       PROVE  Sliced(c)'
  <2>1. PICK n \in 1 .. Len(transcript[c.session]) : c.texts = Cuts(transcript[c.session])[n]
    BY <1>10 DEF Sliced
  <2>2. CASE c.session = s
    <3>1. n \in 0 .. Len(lines) /\ n \in 1 .. Len(more) /\ c.texts = Cuts(lines)[n]
      BY <1>5, <2>1, <2>2
    <3>2. QED
      BY <1>6, <1>7, <2>2, <3>1 DEF Sliced
  <2>3. CASE c.session # s
    BY <1>7, <1>10, <2>1, <2>3 DEF Sliced
  <2>4. QED
    BY <2>2, <2>3
<1>11. AllSliced'
  <2>1. /\ Stored' = Stored /\ InHand("consumer")' = InHand("consumer")
        /\ InHand("hook")' = InHand("hook")
    BY <1>1 DEF Stored, InHand
  <2>2. Stored \cup InHand("consumer") \cup InHand("hook") \subseteq Chunk
    BY StoredTyped DEF Started
  <2>3. \A c \in Chunk : c.session \in Session
    BY DEF Chunk
  <2>4. QED
    BY <1>3, <1>10, <2>1, <2>2, <2>3 DEF AllSliced
<1>12. QED
  BY <1>9, <1>11

\* What leaves with a flush was leaving or was buffered.
LEMMA FlushLeaving ==
    ASSUME NEW acc \in Accumulators, NEW new \in Flushed(acc)
    PROVE  \A c \in Leaving(new) :
             c \in Leaving(acc) \/ \E s \in Session : c = Held(acc, s) /\ c.texts # <<>>
<1> DEFINE Known(c) == c \in Leaving(acc) \/ \E s \in Session : c = Held(acc, s) /\ c.texts # <<>>
           A == {a \in Accumulators :
                   /\ \A s \in Session : a.buffer[s] = acc.buffer[s] \/ a.buffer[s] = <<>>
                   /\ \A c \in Leaving(a) : Known(c)}
<1>1. A \subseteq Accumulators /\ acc \in A
  OBVIOUS
<1>2. ASSUME NEW a \in A, NEW s \in Session
      PROVE  Emit(a, s) \in A
  <2>1. /\ a \in Accumulators /\ \A c \in Leaving(a) : Known(c)
        /\ \A r \in Session : a.buffer[r] = acc.buffer[r] \/ a.buffer[r] = <<>>
    OBVIOUS
  <2>2. /\ Emit(a, s) \in Accumulators /\ Emit(a, s).buffer[s] = <<>>
        /\ \A r \in Session \ {s} : Emit(a, s).buffer[r] = a.buffer[r]
    BY <2>1, EmitEffect
  <2>3. ASSUME NEW c \in Leaving(Emit(a, s))
        PROVE  Known(c)
    <3>1. CASE c \in Leaving(a)
      BY <2>1, <3>1
    <3>2. CASE c = Held(a, s) /\ c.texts # <<>>
      <4>1. c.texts = a.buffer[s]
        BY <3>2 DEF Held
      <4>2. a.buffer[s] = acc.buffer[s]
        BY <2>1, <3>2, <4>1
      <4>3. c = Held(acc, s)
        BY <3>2, <4>2 DEF Held
      <4>4. QED
        BY <3>2, <4>3
    <3>3. QED
      BY <2>1, <2>3, <3>1, <3>2, EmitLeaving
  <2> HIDE DEF Known
  <2>4. QED
    BY <2>1, <2>2, <2>3
<1>3. \A a \in A : \A c \in Leaving(a) : Known(c)
  OBVIOUS
<1> HIDE DEF A
<1>4. PICK order \in SetToSeqs(Session) : new = EmitAll(acc, order)
  BY DEF Flushed
<1>5. new \in A
  BY <1>1, <1>2, <1>4, EmitAllStays
<1>6. QED
  BY <1>3, <1>5

\* What was cut stays cut, and more may be.
LEMMA SlicedWith ==
    ASSUME AllSliced, transcript' = transcript, NEW new, \A c \in new : Sliced(c),
           Stored' \cup InHand("consumer")' \cup InHand("hook")'
             \subseteq Stored \cup InHand("consumer") \cup InHand("hook") \cup new
    PROVE  AllSliced'
  BY DEF AllSliced, Sliced

\* The consumer absorbs an event as chunk_events would.
LEMMA CutAlikeConsumes ==
    ASSUME Data, Kept, YieldedFromStart, ~ Rewrites, FollowsTranscripts, AllSliced,
           QueuedIn(Apart, queue, accumulator.absorbed), ConsumeEvent
    PROVE  FollowsTranscripts' /\ AllSliced'
<1> DEFINE e == Head(queue)
           acc == Add(accumulator, e)
           s == e.session
           n == FirstLine(s, e.text)
           lines == transcript[s]
<1>1. /\ queue # <<>> /\ e # Done /\ consumer = "running"
      /\ accumulator' = AtRest(acc) /\ Proceed("consumer", acc.completed)
      /\ UNCHANGED <<transcript, extracted>>
  BY DEF ConsumeEvent, ConsumerIdle, ConsumerProceeds, claudeVars, storeVars
<1>2. /\ s \in Session /\ n \in 1 .. Len(lines) /\ e = [session |-> s, text |-> lines[n]]
      /\ \A k \in DOMAIN lines :
           [session |-> s, text |-> lines[k]] \in accumulator.absorbed <=> lines[k] \in Upto(lines, n - 1)
  BY <1>1, HeadIsNext
<1>3. /\ Sound(accumulator, EventsIn(Mine), TextsOf(Started)) /\ Small(accumulator)
      /\ accumulator = AtRest(accumulator)
  BY DEF Kept, AccumulatorKept
<1>4. accumulator \in Accumulators /\ Leaving(accumulator) = {}
  <2>1. accumulator \in Accumulators
    BY <1>3 DEF Sound
  <2>2. QED
    BY <1>3, <2>1, NothingLeaves
<1>5. e \in Event
  <2>1. queue \in Seq(Event \cup {Done})
    BY DEF Data
  <2>2. QED
    BY <1>1, <2>1, HoldsOf
<1>6. /\ Sound(acc, EventsIn(Mine), TextsOf(Started)) /\ Small(acc)
      /\ acc.absorbed = accumulator.absorbed \cup {e}
  BY <1>3, <1>5, AddSound
<1>7. accumulator'.absorbed = acc.absorbed /\ accumulator'.buffer = acc.buffer
  BY <1>1, <1>6, RestSound
<1>8. lines \in Seq(Text) /\ n - 1 \in 0 .. Len(lines) /\ n \in 0 .. Len(lines)
  <2>1. lines \in Seq(Text)
    BY <1>2 DEF Data
  <2>2. QED
    BY <1>2, <2>1
<1>9. CutLike(accumulator, s, lines, n - 1)
  <2>1. PICK m \in 0 .. Len(lines) : CutLike(accumulator, s, lines, m)
    BY <1>1, <1>2 DEF FollowsTranscripts
  <2> HIDE DEF lines, n, s
  <2>2. QED
    BY <1>2, <1>8, <2>1, CutLikewise
<1> HIDE DEF e, acc, lines, n, s
<1>10. /\ CutLike(acc, s, lines, n)
       /\ \A r \in Session \ {s} : acc.buffer[r] = accumulator.buffer[r]
       /\ \A c \in Leaving(acc) : CutOff(c, s, lines, n)
  <2>1. /\ CutLike(Add(accumulator, e), s, lines, n)
        /\ \A r \in Session \ {s} : Add(accumulator, e).buffer[r] = accumulator.buffer[r]
        /\ \A c \in Leaving(Add(accumulator, e)) :
             c \in Leaving(accumulator) \/ CutOff(c, s, lines, n)
    BY <1>2, <1>3, <1>4, <1>8, <1>9, AddCut
  <2>2. QED
    BY <1>4, <2>1 DEF acc
<1>11. ASSUME NEW r \in Session
       PROVE  \E m \in 0 .. Len(transcript[r]) : CutLike(accumulator', r, transcript[r], m)
  <2>1. CASE r = s
    <3>1. CutLike(accumulator', s, lines, n)
      BY <1>7, <1>10 DEF CutLike
    <3>2. QED
      BY <1>8, <2>1, <3>1 DEF lines
  <2>2. CASE r # s
    <3>1. PICK m \in 0 .. Len(transcript[r]) : CutLike(accumulator, r, transcript[r], m)
      BY <1>1 DEF FollowsTranscripts
    <3>2. \A k \in DOMAIN transcript[r] :
            [session |-> r, text |-> transcript[r][k]] \in accumulator'.absorbed
              <=> [session |-> r, text |-> transcript[r][k]] \in accumulator.absorbed
      <4>1. \A k \in DOMAIN transcript[r] : [session |-> r, text |-> transcript[r][k]] # e
        BY <2>2 DEF s
      <4>2. QED
        BY <1>6, <1>7, <4>1
    <3>3. accumulator'.buffer[r] = accumulator.buffer[r]
      BY <1>7, <1>10, <2>2
    <3>4. CutLike(accumulator', r, transcript[r], m)
      BY <3>1, <3>2, <3>3 DEF CutLike
    <3>5. QED
      BY <3>4
  <2>3. QED
    BY <2>1, <2>2
<1>12. FollowsTranscripts'
  BY <1>1, <1>11 DEF FollowsTranscripts
<1>13. ASSUME NEW c \in Leaving(acc)
       PROVE  Sliced(c)
  <2>1. CutOff(c, s, lines, n)
    BY <1>10
  <2>2. CASE c.texts = Cuts(lines)[n]
    BY <1>2, <2>1, <2>2 DEF CutOff, Sliced, lines
  <2>3. CASE c.texts = Cuts(lines)[n - 1] /\ c.texts # <<>>
    <3>1. n - 1 # 0
      BY <1>8, <2>3, CutsAre
    <3>2. n - 1 \in 1 .. Len(lines)
      BY <1>8, <3>1
    <3>3. QED
      BY <2>1, <2>3, <3>2 DEF CutOff, Sliced, lines
  <2>4. QED
    BY <2>1, <2>2, <2>3 DEF CutOff
<1>14. AllSliced'
  <2>1. /\ "consumer" \in Callers /\ "hook" \in Callers \ {"consumer"}
        /\ ready \in Ready /\ working \in Working /\ acc.completed \in Seq(Chunk)
    BY <1>6 DEF Callers, Data, Sound, Accumulators
  <2>2. InHand("consumer")' \subseteq ToSet(acc.completed) /\ InHand("hook")' = InHand("hook")
    BY <1>1, <2>1, ProceedSets
  <2>3. Stored' = Stored /\ ToSet(acc.completed) \subseteq Leaving(acc)
    BY <1>1 DEF Stored, Leaving
  <2> DEFINE new == Leaving(acc)
  <2> HIDE DEF new
  <2>4. (\A c \in new : Sliced(c)) /\ ToSet(acc.completed) \subseteq new
    BY <1>13, <2>3 DEF new
  <2>5. Stored' \cup InHand("consumer")' \cup InHand("hook")'
          \subseteq Stored \cup InHand("consumer") \cup InHand("hook") \cup new
    BY <2>2, <2>3, <2>4
  <2>6. QED
    BY <1>1, <2>4, <2>5, SlicedWith
<1>15. QED
  BY <1>12, <1>14

\* What the consumer flushes is cut from a transcript, too.
LEMMA CutAlikeFlushes ==
    ASSUME Data, Kept, FollowsTranscripts, AllSliced, ConsumerFlushes
    PROVE  FollowsTranscripts' /\ AllSliced'
<1>1. consumer = "running" /\ UNCHANGED <<transcript, extracted>>
  BY DEF ConsumerFlushes
<1>2. PICK acc \in Flushed(accumulator) : ConsumerProceeds("flushing", acc.completed)
  BY DEF ConsumerFlushes, FlushAndReturn
<1>3. Proceed("consumer", acc.completed) /\ consumer' # "running"
  BY <1>2 DEF ConsumerProceeds
<1>4. /\ Sound(accumulator, EventsIn(Mine), TextsOf(Started)) /\ accumulator = AtRest(accumulator)
  BY DEF Kept, AccumulatorKept
<1>5. accumulator \in Accumulators /\ Leaving(accumulator) = {}
  <2>1. accumulator \in Accumulators
    BY <1>4 DEF Sound
  <2>2. QED
    BY <1>4, <2>1, NothingLeaves
<1>6. acc.completed \in Seq(Chunk)
  <2>1. Sound(acc, EventsIn(Mine), TextsOf(Started))
    BY <1>4, FlushSound
  <2>2. QED
    BY <2>1 DEF Sound, Accumulators
<1>7. ASSUME NEW c \in Leaving(acc)
      PROVE  Sliced(c)
  <2>1. PICK s \in Session : c = Held(accumulator, s) /\ c.texts # <<>>
    BY <1>5, FlushLeaving
  <2>2. PICK n \in 0 .. Len(transcript[s]) : CutLike(accumulator, s, transcript[s], n)
    BY <1>1 DEF FollowsTranscripts
  <2>3. transcript[s] \in Seq(Text)
    BY DEF Data
  <2>4. c.session = s /\ c.texts = Cuts(transcript[s])[n]
    BY <2>1, <2>2 DEF Held, CutLike, Unfilled
  <2>5. n # 0
    BY <2>1, <2>3, <2>4, CutsAre
  <2>6. n \in 1 .. Len(transcript[s])
    BY <2>3, <2>5
  <2>7. QED
    BY <2>4, <2>6 DEF Sliced
<1>8. /\ "consumer" \in Callers /\ "hook" \in Callers \ {"consumer"}
      /\ ready \in Ready /\ working \in Working
  BY DEF Callers, Data
<1>9. InHand("consumer")' \subseteq ToSet(acc.completed) /\ InHand("hook")' = InHand("hook")
  BY <1>3, <1>6, <1>8, ProceedSets
<1>10. Stored' = Stored /\ ToSet(acc.completed) \subseteq Leaving(acc)
  BY <1>1 DEF Stored, Leaving
<1> DEFINE new == Leaving(acc)
<1> HIDE DEF new
<1>11. (\A c \in new : Sliced(c)) /\ ToSet(acc.completed) \subseteq new
  BY <1>7, <1>10 DEF new
<1>12. Stored' \cup InHand("consumer")' \cup InHand("hook")'
         \subseteq Stored \cup InHand("consumer") \cup InHand("hook") \cup new
  BY <1>9, <1>10, <1>11
<1>13. AllSliced'
  BY <1>1, <1>11, <1>12, SlicedWith
<1>14. QED
  BY <1>3, <1>13 DEF FollowsTranscripts

\* A hook that flushes cuts alike; an extraction that ends, and a caller that gives up,
\* cut nothing.
LEMMA CutAlikeCalls ==
    ASSUME Data, Kept, FollowsTranscripts, AllSliced,
           \/ Abandons \/ HookFails
           \/ (\E s \in Session : HookFlush(s)) \/ (\E a \in Callers : Extracted(a))
    PROVE  FollowsTranscripts' /\ AllSliced'
<1>1. /\ UNCHANGED <<transcript, accumulator>>
      /\ consumer' = "running" => consumer = "running"
  BY DEF Extracted, HookFlush, HookFails, Abandons, AbandonFlush, ConsumerProceeds, claudeVars,
         consumerVars
<1>2. FollowsTranscripts'
  BY <1>1 DEF FollowsTranscripts
<1>3. /\ "consumer" \in Callers /\ "hook" \in Callers /\ ready \in Ready /\ working \in Working
      /\ extracted \in [Callers -> Seq(Chunk)] /\ Callers = {"consumer", "hook"}
  BY DEF Callers, Data
<1>4. ASSUME NEW a \in Callers, NEW chunks \in Seq(Chunk), Proceed(a, chunks),
             \A c \in ToSet(chunks) : Sliced(c),
             Stored' \subseteq Stored \cup InHand(a)
      PROVE  AllSliced'
  <2> DEFINE new == ToSet(chunks)
  <2>1. InHand(a)' \subseteq new /\ \A b \in Callers \ {a} : InHand(b)' = InHand(b)
    BY <1>3, <1>4, ProceedSets
  <2> HIDE DEF new
  <2>2. Stored' \cup InHand("consumer")' \cup InHand("hook")'
          \subseteq Stored \cup InHand("consumer") \cup InHand("hook") \cup new
    BY <1>3, <1>4, <2>1
  <2>3. \A c \in new : Sliced(c)
    BY <1>4 DEF new
  <2>4. QED
    BY <1>1, <2>2, <2>3, SlicedWith
<1>5. ASSUME NEW a \in Callers, ready' = [ready EXCEPT ![a] = <<>>],
             working' = [working EXCEPT ![a] = Nothing], extracted' = extracted
      PROVE  AllSliced'
  <2>1. /\ ready'[a] = <<>> /\ working'[a] = Nothing
        /\ \A b \in Callers \ {a} : ready'[b] = ready[b] /\ working'[b] = working[b]
    BY <1>3, <1>5 DEF Ready, Working
  <2>2. ToSet(<<>>) = {}
    BY DEF ToSet
  <2>3. InHand(a)' = {} /\ \A b \in Callers \ {a} : InHand(b)' = InHand(b)
    BY <2>1, <2>2 DEF InHand
  <2>4. Stored' = Stored
    BY <1>5 DEF Stored
  <2>5. Stored' \cup InHand("consumer")' \cup InHand("hook")'
          \subseteq Stored \cup InHand("consumer") \cup InHand("hook")
    BY <1>3, <2>3, <2>4
  <2>6. QED
    BY <1>1, <2>5 DEF AllSliced, Sliced
<1>6. CASE \E a \in Callers : Extracted(a)
  <2>1. PICK a \in Callers : Extracted(a)
    BY <1>6
  <2>2. /\ Proceed(a, ready[a]) /\ working[a] # Nothing
        /\ extracted' = [extracted EXCEPT ![a] = Append(@, working[a])]
    BY <2>1 DEF Extracted, ConsumerProceeds
  <2>3. /\ ready[a] \in Seq(Chunk) /\ working[a] \in Chunk /\ extracted[a] \in Seq(Chunk)
        /\ ToSet(ready[a]) \subseteq InHand(a) /\ working[a] \in InHand(a)
    BY <1>3, <2>2, InHandTyped DEF Ready, Working
  <2>4. Stored' \subseteq Stored \cup InHand(a)
    <3>1. /\ extracted'[a] = Append(extracted[a], working[a])
          /\ \A b \in Callers \ {a} : extracted'[b] = extracted[b]
      BY <1>3, <2>2
    <3>2. ToSet(extracted'[a]) = ToSet(extracted[a]) \cup {working[a]}
      BY <2>3, <3>1, HoldsOf
    <3>3. \A b \in Callers : ToSet(extracted'[b]) \subseteq ToSet(extracted[b]) \cup InHand(a)
      BY <2>3, <3>1, <3>2
    <3>4. QED
      BY <1>3, <3>3, StoredIs
  <2>5. \A c \in ToSet(ready[a]) : Sliced(c)
    BY <1>3, <2>3 DEF AllSliced
  <2>6. QED
    BY <1>2, <1>4, <2>2, <2>3, <2>4, <2>5
<1>7. CASE \E s \in Session : HookFlush(s)
  <2>1. PICK s \in Session : HookFlush(s)
    BY <1>7
  <2> DEFINE acc == ChunkEvents(s, transcript[s])
  <2>2. Proceed("hook", acc.completed) /\ Stored' = Stored
    BY <2>1 DEF HookFlush, storeVars, Stored
  <2>3. transcript[s] \in Seq(Text)
    BY DEF Data
  <2>4. acc.completed \in Seq(Chunk)
    BY <2>3, ChunkEventsSound DEF Sound, Accumulators
  <2>5. \A c \in Leaving(acc) : \E i \in 1 .. Len(transcript[s]) :
          WholeBy(c, s, transcript[s], Len(transcript[s]), i)
    BY <2>3, ChunksWhole
  <2> HIDE DEF acc
  <2>6. \A c \in ToSet(acc.completed) : Sliced(c)
    <3>1. \A c \in Leaving(acc) : Sliced(c)
      BY <2>5 DEF WholeBy, Sliced
    <3>2. QED
      BY <3>1 DEF Leaving
  <2>7. QED
    BY <1>2, <1>3, <1>4, <2>2, <2>4, <2>6
<1>8. CASE HookFails
  <2>1. /\ ready' = [ready EXCEPT !["hook"] = <<>>] /\ extracted' = extracted
        /\ working' = [working EXCEPT !["hook"] = Nothing]
    BY <1>8 DEF HookFails
  <2>2. QED
    BY <1>2, <1>3, <1>5, <2>1
<1>9. CASE Abandons
  <2>1. /\ ready' = [ready EXCEPT !["consumer"] = <<>>] /\ extracted' = extracted
        /\ working' = [working EXCEPT !["consumer"] = Nothing]
    BY <1>9 DEF Abandons, AbandonFlush
  <2>2. QED
    BY <1>2, <1>3, <1>5, <2>1
<1>10. QED
  BY <1>6, <1>7, <1>8, <1>9

\* Every step keeps it.
LEMMA CutAlikeStep ==
    ASSUME Holds, YieldedFromStart, InOrder, CutAlike, [Next]_vars
    PROVE  CutAlike'
<1>1. Data /\ Kept
  BY DEF Holds
<1>2. CASE Restart
  <2>1. restarts' # 0
    <3>1. restarts \in 0 .. mode.restarts /\ restarts' = restarts + 1
      BY <1>2, HoldsTyped DEF ChunksAreWellFormed, TypeOK, Restart
    <3>2. QED
      BY <3>1
  <2>2. QED
    BY <2>1 DEF CutAlike
<1>3. CASE \E s \in Session : \E t \in Text : WriteLine(s, t)
  BY <1>1, <1>3, CutAlikeGrows
<1>4. ASSUME \/ Sentinels \/ ConsumerFlushes \/ Abandons \/ ConsumeEvent \/ HookFails
             \/ (\E s \in Session : HookFlush(s)) \/ (\E a \in Callers : Extracted(a))
             \/ (\E s \in Session : Yields(s))
      PROVE  CutAlike'
  <2>1. UNCHANGED <<transcript, restarts, mode>> /\ Rewrites' = Rewrites
    BY <1>4 DEF Sentinels, ConsumerFlushes, Abandons, ConsumeEvent, HookFails, HookFlush,
                Extracted, Yields, claudeVars, Rewrites
  <2>2. SUFFICES ASSUME ~ Rewrites, restarts = 0
                 PROVE  FollowsTranscripts' /\ AllSliced'
    BY <2>1 DEF CutAlike
  <2>3. FollowsTranscripts /\ AllSliced /\ QueuedIn(Apart, queue, accumulator.absorbed)
    BY <2>2 DEF CutAlike, InOrder
  <2>4. CASE ConsumeEvent
    BY <1>1, <2>2, <2>3, <2>4, CutAlikeConsumes
  <2>5. CASE ConsumerFlushes
    BY <1>1, <2>3, <2>5, CutAlikeFlushes
  <2>6. CASE \/ Abandons \/ HookFails
             \/ (\E s \in Session : HookFlush(s)) \/ (\E a \in Callers : Extracted(a))
    BY <1>1, <2>3, <2>6, CutAlikeCalls
  <2>7. CASE Sentinels \/ \E s \in Session : Yields(s)
    <3>1. UNCHANGED <<accumulator, consumer, ready, working, extracted>>
      BY <2>7 DEF Sentinels, Yields, serviceVars, storeVars
    <3>2. /\ Stored' = Stored /\ InHand("consumer")' = InHand("consumer")
          /\ InHand("hook")' = InHand("hook")
      BY <3>1 DEF Stored, InHand
    <3>3. AllSliced'
      BY <2>1, <2>3, <3>2 DEF AllSliced, Sliced
    <3>4. FollowsTranscripts'
      BY <2>1, <2>3, <3>1 DEF FollowsTranscripts
    <3>5. QED
      BY <3>3, <3>4
  <2>8. QED
    BY <1>4, <2>4, <2>5, <2>6, <2>7
<1>5. QED
  BY <1>1, <1>2, <1>3, <1>4, StepKinds

\* At the start nothing is cut.
LEMMA CutAlikeInit ==
    ASSUME Init
    PROVE  CutAlike
<1>1. /\ accumulator = EmptyAccumulator /\ transcript \in [Session -> Seq(Text)]
      /\ \A a \in Callers : extracted[a] = <<>> /\ ready[a] = <<>> /\ working[a] = Nothing
  <2>1. Data
    BY InitKeeps
  <2>2. QED
    BY <2>1 DEF Init, Data
<1>2. ToSet(<<>>) = {} /\ "consumer" \in Callers /\ "hook" \in Callers
  BY DEF ToSet, Callers
<1>3. Stored = {} /\ InHand("consumer") = {} /\ InHand("hook") = {}
  BY <1>1, <1>2, StoredIs DEF InHand
<1>4. AllSliced
  BY <1>3 DEF AllSliced
<1>5. FollowsTranscripts
  <2>1. ASSUME NEW s \in Session
        PROVE  \E n \in 0 .. Len(transcript[s]) : CutLike(accumulator, s, transcript[s], n)
    <3>1. transcript[s] \in Seq(Text) /\ 0 \in 0 .. Len(transcript[s])
      BY <1>1
    <3>2. CutLike(accumulator, s, transcript[s], 0)
      BY <1>1, <3>1, EmptyCut
    <3>3. QED
      BY <3>1, <3>2
  <2>2. QED
    BY <2>1 DEF FollowsTranscripts
<1>6. QED
  BY <1>4, <1>5 DEF CutAlike

\* The step that a re-flush would have to be, and is not.
LEMMA ReflushStep ==
    ASSUME Holds, YieldedFromStart, InOrder, CutAlike, [Next]_vars, ~ Rewrites, restarts = 0,
           working["hook"] = Nothing, working'["hook"] # Nothing,
           NEW s, s = working'["hook"].session
    PROVE  ~ EventsOf([session |-> s, texts |-> transcript[s]]) \subseteq EventsIn(Stored)
<1>1. Data /\ Kept /\ FollowsTranscripts /\ AllSliced /\ MarkedOnce
  BY DEF Holds, CutAlike, InOrder
<1>2. "hook" \in Callers /\ "consumer" \in Callers /\ "hook" \in Callers \ {"consumer"}
      /\ ready \in Ready /\ working \in Working
  BY <1>1 DEF Callers, Data
<1>3. PICK r \in Session : HookFlush(r)
  <2>1. ASSUME NEW chunks \in Seq(Chunk), Proceed("consumer", chunks)
        PROVE  FALSE
    BY <1>2, <2>1, ProceedEffect
  <2>2. Sound(accumulator, EventsIn(Mine), TextsOf(Started)) /\ Small(accumulator)
    BY <1>1 DEF Kept, AccumulatorKept
  <2>3. CASE ConsumeEvent
    <3> DEFINE acc == Add(accumulator, Head(queue))
    <3>1. Proceed("consumer", acc.completed) /\ queue # <<>> /\ Head(queue) # Done
      BY <2>3 DEF ConsumeEvent, ConsumerIdle, ConsumerProceeds
    <3>2. Head(queue) \in Event
      <4>1. queue \in Seq(Event \cup {Done})
        BY <1>1 DEF Data
      <4>2. QED
        BY <3>1, <4>1, HoldsOf
    <3>3. acc.completed \in Seq(Chunk)
      BY <2>2, <3>2, AddSound DEF Sound, Accumulators
    <3> HIDE DEF acc
    <3>4. QED
      BY <2>1, <3>1, <3>3
  <2>4. CASE ConsumerFlushes
    <3>1. PICK acc \in Flushed(accumulator) : Proceed("consumer", acc.completed)
      BY <2>4 DEF ConsumerFlushes, FlushAndReturn, ConsumerProceeds
    <3>2. acc.completed \in Seq(Chunk)
      <4>1. Sound(acc, EventsIn(Mine), TextsOf(Started))
        BY <2>2, FlushSound
      <4>2. QED
        BY <4>1 DEF Sound, Accumulators
    <3>3. QED
      BY <2>1, <3>1, <3>2
  <2>5. CASE \E a \in Callers : Extracted(a)
    <3>1. Extracted("consumer")
      BY <2>5 DEF Extracted, Callers
    <3>2. Proceed("consumer", ready["consumer"]) /\ ready["consumer"] \in Seq(Chunk)
      BY <1>2, <3>1 DEF Extracted, ConsumerProceeds, Ready
    <3>3. QED
      BY <2>1, <3>2
  <2>6. CASE Sentinels \/ HookFails \/ \E x \in Session : Yields(x) \/ \E t \in Text : WriteLine(x, t)
    BY <2>6 DEF Sentinels, HookFails, Yields, WriteLine, serviceVars
  <2>7. CASE Abandons
    BY <1>2, <2>7 DEF Abandons, AbandonFlush, Working
  <2>8. CASE Restart
    BY <1>2, <2>8 DEF Restart
  <2>9. QED
    BY <1>1, <2>3, <2>4, <2>5, <2>6, <2>7, <2>8, StepKinds
<1> DEFINE acc == ChunkEvents(r, transcript[r])
           c == working'["hook"]
           lines == transcript[r]
<1>4. lines \in Seq(Text)
  BY <1>1 DEF Data
<1>5. Proceed("hook", acc.completed) /\ acc.completed \in Seq(Chunk)
  BY <1>3, <1>4, ChunkEventsSound DEF HookFlush, Sound, Accumulators
<1>6. PICK i \in 1 .. Len(lines) : WholeBy(c, r, lines, Len(lines), i) /\ c.texts \notin seen
  <2>1. c \in ToSet(acc.completed) /\ c.texts \notin seen
    BY <1>2, <1>5, ProceedSets
  <2>2. c \in Leaving(acc)
    BY <2>1 DEF Leaving
  <2>3. QED
    BY <1>4, <2>1, <2>2, ChunksWhole
<1> HIDE DEF acc, c
<1>7. r = s
  BY <1>6 DEF WholeBy, c
<1>8. SUFFICES ASSUME EventsOf([session |-> r, texts |-> lines]) \subseteq EventsIn(Stored)
               PROVE  FALSE
  BY <1>7
<1> HIDE DEF lines
<1> DEFINE e == [session |-> r, text |-> lines[i]]
<1>9. e \in EventsIn(Stored)
  <2>1. i \in DOMAIN lines
    BY <1>4
  <2>2. lines[i] \in ToSet(lines)
    BY <2>1 DEF ToSet
  <2>3. QED
    BY <1>8, <2>2 DEF EventsOf
<1>10. PICK d \in Stored : e \in EventsOf(d)
  BY <1>9 DEF EventsIn
<1>11. d.session = r /\ lines[i] \in ToSet(d.texts)
  BY <1>10 DEF EventsOf
<1>12. PICK m \in 1 .. Len(lines) : d.texts = Cuts(lines)[m]
  BY <1>1, <1>11 DEF AllSliced, Sliced, lines
<1>13. d.texts = c.texts
  BY <1>4, <1>6, <1>11, <1>12, WholeIsOnly
<1>14. d.texts \in seen
  BY <1>1, <1>2, StoredIs DEF MarkedOnce
<1>15. QED
  BY <1>6, <1>13, <1>14

\* services.py: a hook that flushes a session whose every line is in a stored chunk
\* extracts nothing, whatever the consumer and other hooks do meanwhile, within one life
\* of the process and as long as files only grow.
THEOREM ReflushesAreNoOps == Spec => ReflushIsNoOp
<1>1. Init => Holds /\ YieldedFromStart /\ InOrder /\ CutAlike
  BY InitKeeps, TasksInit, InOrderInit, CutAlikeInit DEF Holds
<1>2. Holds /\ YieldedFromStart /\ InOrder /\ CutAlike /\ [Next]_vars
        => Holds' /\ YieldedFromStart' /\ InOrder' /\ CutAlike'
  BY StepKeeps, TasksStep, InOrderStep, CutAlikeStep DEF Holds
<1> DEFINE Noop ==
             ~ Rewrites /\ restarts = 0 /\ working["hook"] = Nothing /\ working'["hook"] # Nothing
               => LET s == working'["hook"].session
                  IN ~ EventsOf([session |-> s, texts |-> transcript[s]]) \subseteq EventsIn(Stored)
<1>3. Holds /\ YieldedFromStart /\ InOrder /\ CutAlike /\ [Next]_vars => [Noop]_vars
  BY ReflushStep
<1>4. QED
  BY <1>1, <1>2, <1>3, PTL DEF Spec, ReflushIsNoOp

-----------------------------------------------------------------------------
(* The Hermes adapter *)

\* y may come after x: they differ, and an awaited push keeps its order.
InTurn(P, x, y) == x # y /\ (x[1] = y[1] /\ P[x[1]].awaited => x[2] < y[2])
RowInTurn(P, q) == \A i, j \in DOMAIN q : i < j => InTurn(P, q[i], q[j])
AllInTurn(P, A, B) == \A x \in A : \A y \in B : InTurn(P, x, y)

Parts == Nat \X Nat
WaitingIn(rows) == UNION {ToSet(rows[n]) : n \in DOMAIN rows}
PushedIn(P) == UNION {ToSet(P[n].events) : n \in DOMAIN P}
HermesPushes == [events : Seq(Parts), awaited : BOOLEAN]

HermesTypes ==
    /\ pushes \in Seq(HermesPushes) /\ blocked \in Seq(Seq(Parts))
    /\ buffer \in Seq(Parts) /\ pending \in Seq(Parts) /\ passedOn \in Seq(Parts)
    /\ Len(blocked) = Len(pushes) /\ Len(buffer) <= HermesQueueMax

\* Every event that was pushed is in one place.
Placed ==
    /\ \A n \in DOMAIN pushes : \A x \in ToSet(pushes[n].events) \cup ToSet(blocked[n]) : x[1] = n
    /\ PushedIn(pushes) =
         ToSet(passedOn) \cup ToSet(pending) \cup ToSet(buffer) \cup WaitingIn(blocked)
    /\ reader # "tailing" => stranded = {}
    /\ reader = "tailing" => stranded = ToSet(pending)

\* What is streamed, at the queue and waiting is in turn; what was spilled may come at
\* any time.
Queued(P) ==
    /\ RowInTurn(P, passedOn) /\ RowInTurn(P, pending) /\ RowInTurn(P, buffer)
    /\ \A n \in DOMAIN blocked : RowInTurn(P, blocked[n])
    /\ AllInTurn(P, ToSet(passedOn), ToSet(pending) \cup ToSet(buffer) \cup WaitingIn(blocked))
    /\ AllInTurn(P, ToSet(pending), ToSet(buffer) \cup WaitingIn(blocked))
    /\ AllInTurn(P, ToSet(buffer) \cup WaitingIn(blocked), ToSet(pending))
    /\ AllInTurn(P, ToSet(buffer), WaitingIn(blocked))

HermesInv == HermesTypes /\ Placed /\ Queued(pushes)

LEMMA HeldAt ==
    ASSUME NEW q
    PROVE  \A x : x \in ToSet(q) <=> \E i \in DOMAIN q : x = q[i]
BY DEF ToSet

\* A row that is cut in two, at k.
LEMMA CutRow ==
    ASSUME NEW S, NEW q \in Seq(S), NEW P, RowInTurn(P, q), NEW k \in 0 .. Len(q)
    PROVE  LET a == SubSeq(q, 1, k)
               b == SubSeq(q, k + 1, Len(q))
           IN  /\ a \in Seq(S) /\ b \in Seq(S) /\ Len(a) = k
               /\ ToSet(q) = ToSet(a) \cup ToSet(b)
               /\ RowInTurn(P, a) /\ RowInTurn(P, b) /\ AllInTurn(P, ToSet(a), ToSet(b))
<1> DEFINE N == Len(q)
           a == SubSeq(q, 1, k)
           b == SubSeq(q, k + 1, N)
<1>1. /\ N \in Nat /\ DOMAIN q = 1 .. N /\ k \in 0 .. N
      /\ a \in Seq(S) /\ Len(a) = k /\ DOMAIN a = 1 .. k /\ \A i \in 1 .. k : a[i] = q[i]
      /\ b \in Seq(S) /\ DOMAIN b = 1 .. N - k /\ \A i \in 1 .. N - k : b[i] = q[k + i]
  OBVIOUS
<1> HIDE DEF a, b, N
<1>2. \A i \in 1 .. N : \/ i \in 1 .. k /\ a[i] = q[i]
                        \/ i - k \in 1 .. N - k /\ b[i - k] = q[i]
  BY <1>1
<1>3. \A i \in 1 .. N - k : k + i \in 1 .. N /\ b[i] = q[k + i]
  <2>1. N \in Nat /\ k \in 0 .. N /\ \A i \in 1 .. N - k : b[i] = q[k + i]
    BY <1>1
  <2>2. \A i \in 1 .. N - k : k + i \in 1 .. N
    BY <2>1
  <2>3. QED
    BY <2>1, <2>2
<1>4. \A i \in 1 .. k : i \in 1 .. N /\ a[i] = q[i]
  BY <1>1
<1>5. /\ \A x : x \in ToSet(q) <=> \E i \in 1 .. N : x = q[i]
      /\ \A x : x \in ToSet(a) <=> \E i \in 1 .. k : x = a[i]
      /\ \A x : x \in ToSet(b) <=> \E i \in 1 .. N - k : x = b[i]
  <2>1. DOMAIN q = 1 .. N /\ DOMAIN a = 1 .. k /\ DOMAIN b = 1 .. N - k
    BY <1>1
  <2>2. QED
    BY <2>1, HeldAt
<1>6. ToSet(q) = ToSet(a) \cup ToSet(b)
  <2>1. ASSUME NEW x \in ToSet(q)
        PROVE  x \in ToSet(a) \cup ToSet(b)
    BY <1>2, <1>5
  <2>2. ASSUME NEW x \in ToSet(a) \cup ToSet(b)
        PROVE  x \in ToSet(q)
    BY <1>3, <1>4, <1>5
  <2>3. QED
    BY <2>1, <2>2
<1>7. RowInTurn(P, a)
  BY <1>1 DEF RowInTurn
<1>8. RowInTurn(P, b)
  <2>1. \A i, j \in 1 .. N - k : i < j => k + i \in 1 .. N /\ k + j \in 1 .. N /\ k + i < k + j
    BY <1>1
  <2>2. QED
    BY <1>1, <2>1 DEF RowInTurn
<1>9. ASSUME NEW x \in ToSet(a), NEW y \in ToSet(b)
      PROVE  InTurn(P, x, y)
  <2>1. PICK i \in 1 .. k : x = a[i]
    BY <1>5
  <2>2. PICK j \in 1 .. N - k : y = b[j]
    BY <1>5
  <2>3. i \in DOMAIN q /\ k + j \in DOMAIN q /\ i < k + j /\ x = q[i] /\ y = q[k + j]
    BY <1>1, <2>1, <2>2
  <2>4. QED
    BY <2>3 DEF RowInTurn
<1>10. AllInTurn(P, ToSet(a), ToSet(b))
  BY <1>9 DEF AllInTurn
<1>11. QED
  BY <1>1, <1>6, <1>7, <1>8, <1>10 DEF a, b, N

\* A row that goes on with another.
LEMMA JoinRows ==
    ASSUME NEW S, NEW a \in Seq(S), NEW b \in Seq(S), NEW P,
           RowInTurn(P, a), RowInTurn(P, b), AllInTurn(P, ToSet(a), ToSet(b))
    PROVE  /\ a \o b \in Seq(S) /\ Len(a \o b) = Len(a) + Len(b)
           /\ ToSet(a \o b) = ToSet(a) \cup ToSet(b) /\ RowInTurn(P, a \o b)
<1> DEFINE q == a \o b
           N == Len(a)
           M == Len(b)
<1>1. /\ N \in Nat /\ M \in Nat /\ DOMAIN a = 1 .. N /\ DOMAIN b = 1 .. M /\ q \in Seq(S)
      /\ Len(q) = N + M
      /\ DOMAIN q = 1 .. N + M /\ \A i \in 1 .. N : q[i] = a[i]
      /\ \A i \in 1 .. N + M : i > N => q[i] = b[i - N]
  OBVIOUS
<1>2. ToSet(q) = ToSet(a) \cup ToSet(b)
  BY HoldsOf
<1> HIDE DEF q, N, M
<1>3. ASSUME NEW i \in 1 .. N + M, NEW j \in 1 .. N + M, i < j
      PROVE  InTurn(P, q[i], q[j])
  <2>1. CASE j <= N
    <3>1. i \in 1 .. N /\ j \in 1 .. N
      BY <1>1, <1>3, <2>1
    <3>2. QED
      BY <1>1, <1>3, <3>1 DEF RowInTurn
  <2>2. CASE i > N
    <3>1. i - N \in 1 .. M /\ j - N \in 1 .. M /\ i - N < j - N /\ j > N
      BY <1>1, <1>3, <2>2
    <3>2. q[i] = b[i - N] /\ q[j] = b[j - N]
      BY <1>1, <2>2, <3>1
    <3>3. QED
      BY <1>1, <3>1, <3>2 DEF RowInTurn
  <2>3. CASE i <= N /\ j > N
    <3>1. i \in 1 .. N /\ j - N \in 1 .. M
      BY <1>1, <1>3, <2>3
    <3>2. q[i] \in ToSet(a) /\ q[j] \in ToSet(b)
      BY <1>1, <2>3, <3>1 DEF ToSet
    <3>3. QED
      BY <3>2 DEF AllInTurn
  <2>4. QED
    BY <1>1, <1>3, <2>1, <2>2, <2>3
<1>4. QED
  BY <1>1, <1>2, <1>3 DEF RowInTurn, q, N, M

\* As many events as there is room for are put, and the rest is left.
LEMMA RoomFor ==
    ASSUME NEW events \in Seq(Parts), buffer \in Seq(Parts), Len(buffer) <= HermesQueueMax
    PROVE  \E k \in 0 .. Len(events) :
             /\ Fit(events) = SubSeq(events, 1, k) /\ Rest(events) = SubSeq(events, k + 1, Len(events))
             /\ k <= HermesQueueMax - Len(buffer)
<1> DEFINE k == Min({Room, Len(events)})
<1>1. Room \in Nat /\ Len(events) \in Nat /\ Room = HermesQueueMax - Len(buffer)
  BY HermesAssumption DEF Room
<1>2. k \in {Room, Len(events)} /\ k <= Room /\ k <= Len(events)
  <2>1. k = CHOOSE x \in {Room, Len(events)} : \A y \in {Room, Len(events)} : x <= y
    BY DEF Min
  <2>2. \E x \in {Room, Len(events)} : \A y \in {Room, Len(events)} : x <= y
    <3> HIDE DEF k
    <3>1. CASE Room <= Len(events)
      BY <1>1, <3>1
    <3>2. CASE Len(events) <= Room
      BY <1>1, <3>2
    <3>3. QED
      BY <1>1, <3>1, <3>2
  <2> HIDE DEF k
  <2>3. QED
    BY <1>1, <2>1, <2>2
<1>3. Fit(events) = SubSeq(events, 1, k) /\ Rest(events) = SubSeq(events, k + 1, Len(events))
  BY DEF Fit, Rest
<1> HIDE DEF k
<1>4. QED
  BY <1>1, <1>2, <1>3


\* The events of a push are its own, and in their order.
LEMMA EventsInTurn ==
    ASSUME NEW payload \in Payload, NEW n \in Nat, NEW P
    PROVE  /\ EventsOfPush(n, payload) \in Seq(Parts)
           /\ \A x \in ToSet(EventsOfPush(n, payload)) : x[1] = n
           /\ RowInTurn(P, EventsOfPush(n, payload))
<1> DEFINE told == {k \in DOMAIN payload : payload[k] = "text"}
           c == Cardinality(told)
           e == [i \in 1 .. c |-> <<n, i>>]
<1>1. c \in Nat
  <2>1. payload \in Seq({"text", "tool", "call"})
    BY HermesAssumption
  <2>2. DOMAIN payload = 1 .. Len(payload) /\ Len(payload) \in Nat
    BY <2>1
  <2>3. IsFiniteSet(1 .. Len(payload))
    BY <2>2, FS_Interval
  <2>4. told \subseteq 1 .. Len(payload)
    BY <2>2
  <2> HIDE DEF told
  <2>5. IsFiniteSet(told)
    BY <2>3, <2>4, FS_Subset
  <2>6. QED
    BY <2>5, FS_CardinalityType
<1>2. EventsOfPush(n, payload) = e
  BY DEF EventsOfPush
<1> HIDE DEF c
<1>3. e \in Seq(Parts) /\ DOMAIN e = 1 .. c /\ \A i \in 1 .. c : e[i] = <<n, i>>
  BY <1>1 DEF Parts
<1> HIDE DEF e
<1>4. ASSUME NEW x \in ToSet(e)
      PROVE  x[1] = n
  <2>1. PICK i \in DOMAIN e : x = e[i]
    BY HeldAt
  <2>2. x = <<n, i>>
    BY <1>3, <2>1
  <2>3. QED
    BY <2>2
<1>5. RowInTurn(P, e)
  BY <1>1, <1>3 DEF RowInTurn, InTurn
<1>6. QED
  BY <1>2, <1>3, <1>4, <1>5

\* A row in turn with its first taken off, or with one more.
LEMMA TakenOff ==
    ASSUME NEW S, NEW q \in Seq(S), q # <<>>, NEW P, RowInTurn(P, q)
    PROVE  /\ Tail(q) \in Seq(S) /\ Head(q) \in S /\ Len(Tail(q)) <= Len(q)
           /\ ToSet(q) = {Head(q)} \cup ToSet(Tail(q))
           /\ RowInTurn(P, Tail(q)) /\ AllInTurn(P, {Head(q)}, ToSet(Tail(q)))
<1> DEFINE t == Tail(q)
           N == Len(q)
<1>1. /\ N \in Nat /\ DOMAIN q = 1 .. N /\ N > 0 /\ Head(q) = q[1] /\ q[1] \in S
      /\ t \in Seq(S) /\ DOMAIN t = 1 .. N - 1 /\ Len(t) = N - 1 /\ \A i \in 1 .. N - 1 : t[i] = q[i + 1]
  OBVIOUS
<1>2. ToSet(q) = {Head(q)} \cup ToSet(t)
  BY HoldsOf
<1> HIDE DEF t, N
<1>3. \A i, j \in 1 .. N - 1 : i < j => i + 1 \in 1 .. N /\ j + 1 \in 1 .. N /\ i + 1 < j + 1
  BY <1>1
<1>4. RowInTurn(P, t)
  BY <1>1, <1>3 DEF RowInTurn
<1>5. ASSUME NEW y \in ToSet(t)
      PROVE  InTurn(P, q[1], y)
  <2>1. PICK j \in DOMAIN t : y = t[j]
    BY HeldAt
  <2>2. 1 \in DOMAIN q /\ j + 1 \in DOMAIN q /\ 1 < j + 1 /\ y = q[j + 1]
    BY <1>1, <2>1
  <2>3. QED
    BY <2>2 DEF RowInTurn
<1>6. AllInTurn(P, {Head(q)}, ToSet(t))
  BY <1>1, <1>5 DEF AllInTurn
<1>7. Len(t) <= N
  BY <1>1
<1>8. QED
  BY <1>1, <1>2, <1>4, <1>6, <1>7 DEF t, N

LEMMA OneMoreInTurn ==
    ASSUME NEW S, NEW q \in Seq(S), NEW x \in S, NEW P, RowInTurn(P, q),
           AllInTurn(P, ToSet(q), {x})
    PROVE  /\ Append(q, x) \in Seq(S) /\ ToSet(Append(q, x)) = ToSet(q) \cup {x}
           /\ RowInTurn(P, Append(q, x))
<1> DEFINE more == Append(q, x)
           N == Len(q)
<1>1. /\ more \in Seq(S) /\ N \in Nat /\ DOMAIN q = 1 .. N /\ DOMAIN more = 1 .. N + 1
      /\ more[N + 1] = x /\ \A i \in 1 .. N : more[i] = q[i]
  OBVIOUS
<1>2. ToSet(more) = ToSet(q) \cup {x}
  BY HoldsOf
<1> HIDE DEF more, N
<1>3. ASSUME NEW i \in 1 .. N + 1, NEW j \in 1 .. N + 1, i < j
      PROVE  InTurn(P, more[i], more[j])
  <2>1. i \in 1 .. N /\ i \in DOMAIN q
    BY <1>1, <1>3
  <2>2. CASE j \in 1 .. N
    BY <1>1, <1>3, <2>1, <2>2 DEF RowInTurn
  <2>3. CASE j = N + 1
    <3>1. q[i] \in ToSet(q)
      BY <2>1, HeldAt
    <3>2. QED
      BY <1>1, <2>1, <2>3, <3>1 DEF AllInTurn
  <2>4. QED
    BY <1>1, <2>2, <2>3
<1>4. RowInTurn(P, more)
  BY <1>1, <1>3 DEF RowInTurn
<1>5. QED
  BY <1>1, <1>2, <1>4 DEF more

\* Sequences of rows, and of pushes, that grow by one or have one replaced.
LEMMA OneWaitsMore ==
    ASSUME NEW S, NEW rows \in Seq(Seq(S)), NEW r \in Seq(S)
    PROVE  /\ Append(rows, r) \in Seq(Seq(S)) /\ Len(Append(rows, r)) = Len(rows) + 1
           /\ DOMAIN Append(rows, r) = 1 .. Len(rows) + 1
           /\ \A n \in 1 .. Len(rows) : Append(rows, r)[n] = rows[n]
           /\ Append(rows, r)[Len(rows) + 1] = r
           /\ WaitingIn(Append(rows, r)) = WaitingIn(rows) \cup ToSet(r)
<1> DEFINE more == Append(rows, r)
           N == Len(rows)
<1>1. /\ more \in Seq(Seq(S)) /\ Len(more) = N + 1 /\ N \in Nat /\ DOMAIN rows = 1 .. N
      /\ DOMAIN more = 1 .. N + 1 /\ more[N + 1] = r /\ \A n \in 1 .. N : more[n] = rows[n]
  OBVIOUS
<1> HIDE DEF more, N
<1>2. DOMAIN more = 1 .. N \cup {N + 1}
  BY <1>1
<1>3. \A x : x \in WaitingIn(more) <=> x \in WaitingIn(rows) \cup ToSet(r)
  BY <1>1, <1>2 DEF WaitingIn
<1>4. QED
  BY <1>1, <1>3 DEF more, N

LEMMA OnePushMore ==
    ASSUME NEW P \in Seq(HermesPushes), NEW e \in Seq(Parts), NEW a \in BOOLEAN
    PROVE  LET u == [events |-> e, awaited |-> a]
               P2 == Append(P, u)
           IN  /\ P2 \in Seq(HermesPushes) /\ Len(P2) = Len(P) + 1
               /\ DOMAIN P2 = 1 .. Len(P) + 1 /\ DOMAIN P = 1 .. Len(P) /\ Len(P) \in Nat
               /\ \A n \in 1 .. Len(P) : P2[n] = P[n]
               /\ P2[Len(P) + 1].events = e /\ P2[Len(P) + 1].awaited = a
               /\ PushedIn(P2) = PushedIn(P) \cup ToSet(e)
<1> DEFINE u == [events |-> e, awaited |-> a]
           P2 == Append(P, u)
           N == Len(P)
<1>1. u \in HermesPushes /\ u.events = e /\ u.awaited = a
  BY DEF HermesPushes
<1> HIDE DEF u
<1>2. /\ P2 \in Seq(HermesPushes) /\ Len(P2) = N + 1 /\ N \in Nat /\ DOMAIN P = 1 .. N
      /\ DOMAIN P2 = 1 .. N + 1 /\ P2[N + 1] = u /\ \A n \in 1 .. N : P2[n] = P[n]
  BY <1>1
<1> HIDE DEF P2, N
<1>3. DOMAIN P2 = 1 .. N \cup {N + 1}
  BY <1>2
<1>4. P2[N + 1].events = e /\ P2[N + 1].awaited = a
  BY <1>1, <1>2
<1>5. \A x : x \in PushedIn(P2) <=> x \in PushedIn(P) \cup ToSet(e)
  BY <1>2, <1>3, <1>4 DEF PushedIn
<1>6. QED
  BY <1>2, <1>4, <1>5 DEF P2, N, u

\* Where an event is, its push is known.
LEMMA KnownPush ==
    ASSUME HermesTypes, Placed
    PROVE  /\ DOMAIN pushes = 1 .. Len(pushes) /\ DOMAIN blocked = 1 .. Len(pushes)
           /\ Len(pushes) \in Nat
           /\ \A x \in PushedIn(pushes) : x[1] \in 1 .. Len(pushes)
<1>1. DOMAIN pushes = 1 .. Len(pushes) /\ DOMAIN blocked = 1 .. Len(pushes) /\ Len(pushes) \in Nat
  BY DEF HermesTypes
<1>2. ASSUME NEW n \in DOMAIN pushes, NEW x \in ToSet(pushes[n].events)
      PROVE  x[1] \in 1 .. Len(pushes)
  BY <1>1, <1>2 DEF Placed
<1>3. QED
  BY <1>1, <1>2 DEF PushedIn

\* What was in turn still is when there is one push more.
LEMMA StillInTurn ==
    ASSUME HermesInv, NEW e \in Seq(Parts), NEW a \in BOOLEAN,
           pushes' = Append(pushes, [events |-> e, awaited |-> a])
    PROVE  Queued(pushes')
<1>1. /\ DOMAIN pushes = 1 .. Len(pushes) /\ \A n \in DOMAIN pushes : pushes'[n] = pushes[n]
  <2>1. pushes \in Seq(HermesPushes)
    BY DEF HermesInv, HermesTypes
  <2>2. QED
    BY <2>1, OnePushMore
<1>2. \A x \in PushedIn(pushes) : x[1] \in DOMAIN pushes
  BY <1>1, KnownPush DEF HermesInv
<1>3. ASSUME NEW x \in PushedIn(pushes), NEW y, InTurn(pushes, x, y)
      PROVE  InTurn(pushes', x, y)
  BY <1>1, <1>2, <1>3 DEF InTurn
<1>4. /\ ToSet(passedOn) \subseteq PushedIn(pushes) /\ ToSet(pending) \subseteq PushedIn(pushes)
      /\ ToSet(buffer) \subseteq PushedIn(pushes) /\ WaitingIn(blocked) \subseteq PushedIn(pushes)
  BY DEF HermesInv, Placed
<1>5. ASSUME NEW q, ToSet(q) \subseteq PushedIn(pushes), RowInTurn(pushes, q)
      PROVE  RowInTurn(pushes', q)
  <2>1. \A i \in DOMAIN q : q[i] \in PushedIn(pushes)
    BY <1>5, HeldAt
  <2>2. QED
    BY <1>3, <1>5, <2>1 DEF RowInTurn
<1>6. ASSUME NEW A, NEW B, A \subseteq PushedIn(pushes), AllInTurn(pushes, A, B)
      PROVE  AllInTurn(pushes', A, B)
  BY <1>3, <1>6 DEF AllInTurn
<1>7. ASSUME NEW n \in DOMAIN blocked
      PROVE  RowInTurn(pushes', blocked[n])
  <2>1. ToSet(blocked[n]) \subseteq PushedIn(pushes)
    BY <1>4, <1>7 DEF WaitingIn
  <2>2. QED
    BY <1>5, <2>1 DEF HermesInv, Queued
<1>8. RowInTurn(pushes', passedOn) /\ RowInTurn(pushes', pending) /\ RowInTurn(pushes', buffer)
  BY <1>4, <1>5 DEF HermesInv, Queued
<1>9. /\ AllInTurn(pushes', ToSet(passedOn), ToSet(pending) \cup ToSet(buffer) \cup WaitingIn(blocked))
      /\ AllInTurn(pushes', ToSet(pending), ToSet(buffer) \cup WaitingIn(blocked))
  BY <1>4, <1>6 DEF HermesInv, Queued
<1>10. /\ AllInTurn(pushes', ToSet(buffer) \cup WaitingIn(blocked), ToSet(pending))
       /\ AllInTurn(pushes', ToSet(buffer), WaitingIn(blocked))
  BY <1>4, <1>6 DEF HermesInv, Queued
<1>11. QED
  BY <1>7, <1>8, <1>9, <1>10 DEF Queued

\* A push of e, which goes in part f to the queue and has r left.
LEMMA NewPush ==
    ASSUME HermesInv, NEW payload \in Payload, NEW a \in BOOLEAN,
           Push(EventsOfPush(Len(pushes) + 1, payload), a)
    PROVE  LET e == EventsOfPush(Len(pushes) + 1, payload)
               f == Fit(e)
               r == Rest(e)
           IN  /\ pushes' \in Seq(HermesPushes) /\ Len(pushes') = Len(pushes) + 1
               /\ DOMAIN pushes' = 1 .. Len(pushes) + 1
               /\ \A n \in 1 .. Len(pushes) : pushes'[n] = pushes[n]
               /\ pushes'[Len(pushes) + 1].events = e
               /\ pushes'[Len(pushes) + 1].awaited = a
               /\ PushedIn(pushes') = PushedIn(pushes) \cup ToSet(e)
               /\ f \in Seq(Parts) /\ r \in Seq(Parts) /\ ToSet(e) = ToSet(f) \cup ToSet(r)
               /\ \A x \in ToSet(e) : x[1] = Len(pushes) + 1
               /\ RowInTurn(pushes', r) /\ AllInTurn(pushes', ToSet(f), ToSet(r))
               /\ Queued(pushes')
               /\ \A x \in PushedIn(pushes) : \A y \in ToSet(e) :
                    InTurn(pushes', x, y) /\ InTurn(pushes', y, x)
               /\ buffer' \in Seq(Parts) /\ Len(buffer') <= HermesQueueMax
               /\ ToSet(buffer') = ToSet(buffer) \cup ToSet(f) /\ RowInTurn(pushes', buffer')
<1> DEFINE n == Len(pushes) + 1
           e == EventsOfPush(n, payload)
           f == Fit(e)
           r == Rest(e)
<1>1. pushes' = Append(pushes, [events |-> e, awaited |-> a]) /\ buffer' = buffer \o f
  BY DEF Push
<1>2. Len(pushes) \in Nat /\ n \in Nat /\ pushes \in Seq(HermesPushes) /\ buffer \in Seq(Parts)
      /\ Len(buffer) <= HermesQueueMax /\ Len(buffer) \in Nat
  BY DEF HermesInv, HermesTypes
<1>3. e \in Seq(Parts) /\ (\A x \in ToSet(e) : x[1] = n) /\ RowInTurn(pushes', e)
  <2> HIDE DEF n
  <2>1. QED
    BY <1>2, EventsInTurn
<1>4. /\ pushes' \in Seq(HermesPushes) /\ Len(pushes') = n
      /\ DOMAIN pushes' = 1 .. n
      /\ \A m \in 1 .. Len(pushes) : pushes'[m] = pushes[m]
      /\ pushes'[n].events = e /\ pushes'[n].awaited = a
      /\ PushedIn(pushes') = PushedIn(pushes) \cup ToSet(e)
  <2> HIDE DEF e
  <2>1. QED
    BY <1>1, <1>2, <1>3, OnePushMore
<1>5. PICK k \in 0 .. Len(e) :
        /\ f = SubSeq(e, 1, k) /\ r = SubSeq(e, k + 1, Len(e)) /\ k <= HermesQueueMax - Len(buffer)
  <2> HIDE DEF e
  <2>1. QED
    BY <1>2, <1>3, RoomFor
<1>6. /\ f \in Seq(Parts) /\ r \in Seq(Parts) /\ Len(f) = k /\ ToSet(e) = ToSet(f) \cup ToSet(r)
      /\ RowInTurn(pushes', f) /\ RowInTurn(pushes', r) /\ AllInTurn(pushes', ToSet(f), ToSet(r))
  <2> HIDE DEF e, f, r
  <2>1. QED
    BY <1>3, <1>5, CutRow
<1> HIDE DEF e, f, r
<1>7. Queued(pushes')
  BY <1>1, <1>3, StillInTurn
<1>8. ASSUME NEW x \in PushedIn(pushes), NEW y \in ToSet(e)
      PROVE  InTurn(pushes', x, y) /\ InTurn(pushes', y, x)
  <2>1. x[1] \in 1 .. Len(pushes)
    BY KnownPush DEF HermesInv
  <2>2. x[1] # y[1]
    BY <1>2, <1>3, <2>1
  <2>3. QED
    BY <2>2 DEF InTurn
<1>9. ToSet(buffer) \subseteq PushedIn(pushes)
  BY DEF HermesInv, Placed
<1>10. AllInTurn(pushes', ToSet(buffer), ToSet(f))
  BY <1>6, <1>8, <1>9 DEF AllInTurn
<1>11. /\ buffer' \in Seq(Parts) /\ ToSet(buffer') = ToSet(buffer) \cup ToSet(f)
       /\ RowInTurn(pushes', buffer')
  <2>1. RowInTurn(pushes', buffer)
    BY <1>7 DEF Queued
  <2>2. QED
    BY <1>1, <1>2, <1>6, <1>10, <2>1, JoinRows
<1>12. Len(buffer') <= HermesQueueMax
  <2>1. Len(buffer') = Len(buffer) + Len(f)
    <3>1. RowInTurn(pushes', buffer)
      BY <1>7 DEF Queued
    <3>2. QED
      BY <1>1, <1>2, <1>6, <1>10, <3>1, JoinRows
  <2>2. QED
    BY <1>2, <1>5, <1>6, <2>1, HermesAssumption
<1>13. QED
  BY <1>3, <1>4, <1>6, <1>7, <1>8, <1>11, <1>12 DEF e, f, r

LEMMA FeedStep ==
    ASSUME HermesInv, NEW payload \in Payload, Feed(payload)
    PROVE  HermesInv'
<1> DEFINE n == Len(pushes) + 1
           e == EventsOfPush(n, payload)
           f == Fit(e)
           r == Rest(e)
<1>1. /\ Push(e, FALSE) /\ pending' = pending \o r
      /\ stranded' = IF reader = "tailing" THEN stranded \cup ToSet(r) ELSE stranded
      /\ blocked' = Append(blocked, <<>>) /\ reader' = reader /\ passedOn' = passedOn
  BY DEF Feed
<1>2. /\ pushes' \in Seq(HermesPushes) /\ Len(pushes') = n
      /\ DOMAIN pushes' = 1 .. n
      /\ \A m \in 1 .. Len(pushes) : pushes'[m] = pushes[m]
      /\ pushes'[n].events = e /\ pushes'[n].awaited = FALSE
      /\ PushedIn(pushes') = PushedIn(pushes) \cup ToSet(e)
      /\ f \in Seq(Parts) /\ r \in Seq(Parts) /\ ToSet(e) = ToSet(f) \cup ToSet(r)
      /\ \A x \in ToSet(e) : x[1] = n
      /\ RowInTurn(pushes', r) /\ AllInTurn(pushes', ToSet(f), ToSet(r))
      /\ Queued(pushes')
      /\ \A x \in PushedIn(pushes) : \A y \in ToSet(e) :
           InTurn(pushes', x, y) /\ InTurn(pushes', y, x)
      /\ buffer' \in Seq(Parts) /\ Len(buffer') <= HermesQueueMax
      /\ ToSet(buffer') = ToSet(buffer) \cup ToSet(f) /\ RowInTurn(pushes', buffer')
  BY <1>1, NewPush
<1> HIDE DEF e, f, r
<1>3. /\ HermesTypes /\ Placed
      /\ DOMAIN pushes = 1 .. Len(pushes) /\ DOMAIN blocked = 1 .. Len(pushes)
      /\ Len(pushes) \in Nat /\ Len(blocked) = Len(pushes)
  BY KnownPush DEF HermesInv, HermesTypes
<1>4. /\ ToSet(passedOn) \subseteq PushedIn(pushes) /\ ToSet(pending) \subseteq PushedIn(pushes)
      /\ ToSet(buffer) \subseteq PushedIn(pushes) /\ WaitingIn(blocked) \subseteq PushedIn(pushes)
  BY <1>3 DEF Placed
<1>5. AllInTurn(pushes', ToSet(r), ToSet(f))
  BY <1>2 DEF AllInTurn, InTurn
<1>6. /\ pending' \in Seq(Parts) /\ ToSet(pending') = ToSet(pending) \cup ToSet(r)
      /\ RowInTurn(pushes', pending')
  <2>1. AllInTurn(pushes', ToSet(pending), ToSet(r)) /\ RowInTurn(pushes', pending)
    BY <1>2, <1>4 DEF AllInTurn, Queued
  <2>2. pending \in Seq(Parts)
    BY <1>3 DEF HermesTypes
  <2>3. QED
    BY <1>1, <1>2, <2>1, <2>2, JoinRows
<1>7. /\ blocked' \in Seq(Seq(Parts)) /\ Len(blocked') = n /\ DOMAIN blocked' = 1 .. n
      /\ (\A m \in 1 .. Len(pushes) : blocked'[m] = blocked[m]) /\ blocked'[n] = <<>>
      /\ WaitingIn(blocked') = WaitingIn(blocked)
  <2>1. <<>> \in Seq(Parts) /\ ToSet(<<>>) = {}
    BY DEF ToSet
  <2>2. blocked \in Seq(Seq(Parts))
    BY <1>3 DEF HermesTypes
  <2> DEFINE none == <<>>
  <2> HIDE DEF none
  <2>3. /\ Append(blocked, none) \in Seq(Seq(Parts)) /\ Len(Append(blocked, none)) = Len(blocked) + 1
        /\ DOMAIN Append(blocked, none) = 1 .. Len(blocked) + 1
        /\ \A m \in 1 .. Len(blocked) : Append(blocked, none)[m] = blocked[m]
        /\ Append(blocked, none)[Len(blocked) + 1] = none
        /\ WaitingIn(Append(blocked, none)) = WaitingIn(blocked) \cup ToSet(none)
    <3>1. none \in Seq(Parts)
      BY <2>1 DEF none
    <3>2. QED
      BY <2>2, <3>1, OneWaitsMore
  <2>4. blocked' = Append(blocked, none)
    BY <1>1 DEF none
  <2>5. ToSet(none) = {} /\ none = <<>>
    BY <2>1 DEF none
  <2>6. QED
    BY <1>3, <2>3, <2>4, <2>5
<1>8. HermesTypes'
  BY <1>1, <1>2, <1>3, <1>6, <1>7 DEF HermesTypes
<1>9. Placed'
  <2>1. ASSUME NEW m \in 1 .. n, NEW x \in ToSet(pushes'[m].events) \cup ToSet(blocked'[m])
        PROVE  x[1] = m
    <3>1. CASE m = n
      <4>1. ToSet(blocked'[n]) = {}
        BY <1>7 DEF ToSet
      <4>2. QED
        BY <1>2, <2>1, <3>1, <4>1
    <3>2. CASE m # n
      <4>1. m \in 1 .. Len(pushes)
        BY <1>3, <3>2
      <4>2. QED
        BY <1>2, <1>3, <1>7, <2>1, <4>1 DEF Placed
    <3>3. QED
      BY <3>1, <3>2
  <2>2. PushedIn(pushes') = ToSet(passedOn') \cup ToSet(pending') \cup ToSet(buffer') \cup WaitingIn(blocked')
    BY <1>1, <1>2, <1>3, <1>6, <1>7 DEF Placed
  <2>3. /\ reader' # "tailing" => stranded' = {}
        /\ reader' = "tailing" => stranded' = ToSet(pending')
    BY <1>1, <1>3, <1>6 DEF Placed
  <2>4. QED
    BY <1>2, <2>1, <2>2, <2>3 DEF Placed
<1>10. Queued(pushes)'
  <2>1. \A m \in 1 .. n : RowInTurn(pushes', blocked'[m])
    <3>1. \A m \in 1 .. n : m = n \/ m \in 1 .. Len(pushes)
      BY <1>3
    <3>2. RowInTurn(pushes', <<>>)
      BY DEF RowInTurn
    <3>3. QED
      BY <1>2, <1>3, <1>7, <3>1, <3>2 DEF Queued
  <2>2. AllInTurn(pushes', ToSet(passedOn'), ToSet(pending') \cup ToSet(buffer') \cup WaitingIn(blocked'))
    BY <1>1, <1>2, <1>4, <1>6, <1>7 DEF Queued, AllInTurn
  <2>3. AllInTurn(pushes', ToSet(pending'), ToSet(buffer') \cup WaitingIn(blocked'))
    BY <1>1, <1>2, <1>4, <1>5, <1>6, <1>7 DEF Queued, AllInTurn
  <2>4. AllInTurn(pushes', ToSet(buffer') \cup WaitingIn(blocked'), ToSet(pending'))
    BY <1>1, <1>2, <1>4, <1>6, <1>7 DEF Queued, AllInTurn
  <2>5. AllInTurn(pushes', ToSet(buffer'), WaitingIn(blocked'))
    BY <1>1, <1>2, <1>4, <1>6, <1>7 DEF Queued, AllInTurn
  <2>6. RowInTurn(pushes', passedOn')
    BY <1>1, <1>2 DEF Queued
  <2>7. QED
    BY <1>2, <1>6, <1>7, <2>1, <2>2, <2>3, <2>4, <2>5, <2>6 DEF Queued
<1>11. QED
  BY <1>8, <1>9, <1>10 DEF HermesInv

LEMMA AFeedStep ==
    ASSUME HermesInv, NEW payload \in Payload, AFeed(payload)
    PROVE  HermesInv'
<1> DEFINE n == Len(pushes) + 1
           e == EventsOfPush(n, payload)
           f == Fit(e)
           r == Rest(e)
<1>1. /\ Push(e, TRUE) /\ blocked' = Append(blocked, r)
      /\ pending' = pending /\ reader' = reader /\ passedOn' = passedOn /\ stranded' = stranded
  BY DEF AFeed
<1>2. /\ pushes' \in Seq(HermesPushes) /\ Len(pushes') = n
      /\ DOMAIN pushes' = 1 .. n
      /\ \A m \in 1 .. Len(pushes) : pushes'[m] = pushes[m]
      /\ pushes'[n].events = e
      /\ PushedIn(pushes') = PushedIn(pushes) \cup ToSet(e)
      /\ f \in Seq(Parts) /\ r \in Seq(Parts) /\ ToSet(e) = ToSet(f) \cup ToSet(r)
      /\ \A x \in ToSet(e) : x[1] = n
      /\ RowInTurn(pushes', r) /\ AllInTurn(pushes', ToSet(f), ToSet(r))
      /\ Queued(pushes')
      /\ \A x \in PushedIn(pushes) : \A y \in ToSet(e) :
           InTurn(pushes', x, y) /\ InTurn(pushes', y, x)
      /\ buffer' \in Seq(Parts) /\ Len(buffer') <= HermesQueueMax
      /\ ToSet(buffer') = ToSet(buffer) \cup ToSet(f) /\ RowInTurn(pushes', buffer')
  BY <1>1, NewPush
<1> HIDE DEF e, f, r
<1>3. /\ HermesTypes /\ Placed
      /\ DOMAIN pushes = 1 .. Len(pushes) /\ DOMAIN blocked = 1 .. Len(pushes)
      /\ Len(pushes) \in Nat /\ Len(blocked) = Len(pushes)
  BY KnownPush DEF HermesInv, HermesTypes
<1>4. /\ ToSet(passedOn) \subseteq PushedIn(pushes) /\ ToSet(pending) \subseteq PushedIn(pushes)
      /\ ToSet(buffer) \subseteq PushedIn(pushes) /\ WaitingIn(blocked) \subseteq PushedIn(pushes)
  BY <1>3 DEF Placed
<1>7. /\ blocked' \in Seq(Seq(Parts)) /\ Len(blocked') = n /\ DOMAIN blocked' = 1 .. n
      /\ (\A m \in 1 .. Len(pushes) : blocked'[m] = blocked[m]) /\ blocked'[n] = r
      /\ WaitingIn(blocked') = WaitingIn(blocked) \cup ToSet(r)
  <2>1. blocked \in Seq(Seq(Parts))
    BY <1>3 DEF HermesTypes
  <2>2. QED
    BY <1>1, <1>2, <1>3, <2>1, OneWaitsMore
<1>8. HermesTypes'
  BY <1>1, <1>2, <1>3, <1>7 DEF HermesTypes
<1>9. Placed'
  <2>1. ASSUME NEW m \in 1 .. n, NEW x \in ToSet(pushes'[m].events) \cup ToSet(blocked'[m])
        PROVE  x[1] = m
    <3>1. CASE m = n
      BY <1>2, <1>7, <2>1, <3>1
    <3>2. CASE m # n
      <4>1. m \in 1 .. Len(pushes)
        BY <1>3, <3>2
      <4>2. QED
        BY <1>2, <1>3, <1>7, <2>1, <4>1 DEF Placed
    <3>3. QED
      BY <3>1, <3>2
  <2>2. PushedIn(pushes') = ToSet(passedOn') \cup ToSet(pending') \cup ToSet(buffer') \cup WaitingIn(blocked')
    BY <1>1, <1>2, <1>3, <1>7 DEF Placed
  <2>3. /\ reader' # "tailing" => stranded' = {}
        /\ reader' = "tailing" => stranded' = ToSet(pending')
    BY <1>1, <1>3 DEF Placed
  <2>4. QED
    BY <1>2, <2>1, <2>2, <2>3 DEF Placed
<1>10. Queued(pushes)'
  <2>1. \A m \in 1 .. n : RowInTurn(pushes', blocked'[m])
    <3>1. \A m \in 1 .. n : m = n \/ m \in 1 .. Len(pushes)
      BY <1>3
    <3>2. QED
      BY <1>2, <1>3, <1>7, <3>1 DEF Queued
  <2>2. AllInTurn(pushes', ToSet(passedOn'), ToSet(pending') \cup ToSet(buffer') \cup WaitingIn(blocked'))
    BY <1>1, <1>2, <1>4, <1>7 DEF Queued, AllInTurn
  <2>3. AllInTurn(pushes', ToSet(pending'), ToSet(buffer') \cup WaitingIn(blocked'))
    BY <1>1, <1>2, <1>4, <1>7 DEF Queued, AllInTurn
  <2>4. AllInTurn(pushes', ToSet(buffer') \cup WaitingIn(blocked'), ToSet(pending'))
    BY <1>1, <1>2, <1>4, <1>7 DEF Queued, AllInTurn
  <2>5. AllInTurn(pushes', ToSet(buffer'), WaitingIn(blocked'))
    BY <1>1, <1>2, <1>4, <1>7 DEF Queued, AllInTurn
  <2>6. RowInTurn(pushes', passedOn') /\ RowInTurn(pushes', pending')
    BY <1>1, <1>2 DEF Queued
  <2>7. QED
    BY <1>2, <1>7, <2>1, <2>2, <2>3, <2>4, <2>5, <2>6 DEF Queued
<1>11. QED
  BY <1>8, <1>9, <1>10 DEF HermesInv

LEMMA UnblockStep ==
    ASSUME HermesInv, NEW n \in DOMAIN blocked, Unblock(n)
    PROVE  HermesInv'
<1> DEFINE w == blocked[n]
           f == Fit(w)
           r == Rest(w)
           elsewhere == {m \in DOMAIN blocked : m # n}
           theirs == UNION {ToSet(blocked[m]) : m \in elsewhere}
<1>1. /\ buffer' = buffer \o f /\ blocked' = [blocked EXCEPT ![n] = r]
      /\ pushes' = pushes /\ pending' = pending /\ reader' = reader /\ passedOn' = passedOn
      /\ stranded' = stranded
  BY DEF Unblock
<1>2. /\ HermesTypes /\ Placed /\ Queued(pushes)
      /\ DOMAIN pushes = 1 .. Len(pushes) /\ DOMAIN blocked = 1 .. Len(pushes)
      /\ Len(pushes) \in Nat /\ Len(blocked) = Len(pushes) /\ blocked \in Seq(Seq(Parts))
      /\ buffer \in Seq(Parts) /\ Len(buffer) <= HermesQueueMax /\ Len(buffer) \in Nat
  BY KnownPush DEF HermesInv, HermesTypes
<1>3. w \in Seq(Parts) /\ RowInTurn(pushes, w)
  BY <1>2 DEF Queued
<1>4. PICK k \in 0 .. Len(w) :
        /\ f = SubSeq(w, 1, k) /\ r = SubSeq(w, k + 1, Len(w)) /\ k <= HermesQueueMax - Len(buffer)
  <2> HIDE DEF w
  <2>1. QED
    BY <1>2, <1>3, RoomFor
<1>5. /\ f \in Seq(Parts) /\ r \in Seq(Parts) /\ Len(f) = k /\ ToSet(w) = ToSet(f) \cup ToSet(r)
      /\ RowInTurn(pushes, f) /\ RowInTurn(pushes, r) /\ AllInTurn(pushes, ToSet(f), ToSet(r))
  <2> HIDE DEF w, f, r
  <2>1. QED
    BY <1>3, <1>4, CutRow
<1> HIDE DEF f, r
<1>6. /\ blocked' \in Seq(Seq(Parts)) /\ Len(blocked') = Len(blocked)
      /\ DOMAIN blocked' = DOMAIN blocked /\ blocked'[n] = r
      /\ \A m \in elsewhere : blocked'[m] = blocked[m]
  BY <1>1, <1>2, <1>5
<1>7. WaitingIn(blocked) = theirs \cup ToSet(w) /\ WaitingIn(blocked') = theirs \cup ToSet(r)
  <2>1. DOMAIN blocked = elsewhere \cup {n}
    OBVIOUS
  <2> HIDE DEF elsewhere, w
  <2>2. \A x : x \in WaitingIn(blocked) <=> x \in theirs \cup ToSet(w)
    BY <2>1 DEF WaitingIn, w
  <2>3. \A x : x \in WaitingIn(blocked') <=> x \in theirs \cup ToSet(r)
    BY <1>6, <2>1 DEF WaitingIn
  <2>4. QED
    BY <2>2, <2>3
<1>8. AllInTurn(pushes, ToSet(f), theirs)
  <2>1. ASSUME NEW x \in ToSet(f), NEW m \in elsewhere, NEW y \in ToSet(blocked[m])
        PROVE  InTurn(pushes, x, y)
    <3>1. x[1] = n /\ y[1] = m
      BY <1>2, <1>5, <2>1 DEF Placed
    <3>2. QED
      BY <3>1 DEF InTurn
  <2>2. QED
    BY <2>1 DEF AllInTurn
<1> HIDE DEF theirs, elsewhere
<1>9. /\ buffer' \in Seq(Parts) /\ ToSet(buffer') = ToSet(buffer) \cup ToSet(f)
      /\ RowInTurn(pushes, buffer') /\ Len(buffer') = Len(buffer) + Len(f)
  <2> HIDE DEF w
  <2>1. RowInTurn(pushes, buffer) /\ AllInTurn(pushes, ToSet(buffer), ToSet(f))
    BY <1>2, <1>5, <1>7 DEF Queued, AllInTurn
  <2>2. QED
    <3>1. /\ buffer \o f \in Seq(Parts) /\ ToSet(buffer \o f) = ToSet(buffer) \cup ToSet(f)
          /\ RowInTurn(pushes, buffer \o f) /\ Len(buffer \o f) = Len(buffer) + Len(f)
      <4>1. buffer \in Seq(Parts) /\ f \in Seq(Parts) /\ RowInTurn(pushes, f)
        BY <1>2, <1>5
      <4>2. QED
        BY <2>1, <4>1, JoinRows
    <3>2. QED
      BY <1>1, <3>1
<1>10. Len(buffer') <= HermesQueueMax
  BY <1>2, <1>4, <1>5, <1>9, HermesAssumption
<1>11. HermesTypes'
  BY <1>1, <1>2, <1>6, <1>9, <1>10 DEF HermesTypes
<1>12. Placed'
  <2>1. ASSUME NEW m \in DOMAIN pushes, NEW x \in ToSet(pushes[m].events) \cup ToSet(blocked'[m])
        PROVE  x[1] = m
    <3>1. CASE m = n
      BY <1>2, <1>5, <1>6, <2>1, <3>1 DEF Placed
    <3>2. CASE m # n
      BY <1>2, <1>6, <2>1, <3>2 DEF Placed, elsewhere
    <3>3. QED
      BY <3>1, <3>2
  <2>2. PushedIn(pushes) = ToSet(passedOn) \cup ToSet(pending) \cup ToSet(buffer') \cup WaitingIn(blocked')
    <3> HIDE DEF w
    <3>1. QED
      BY <1>2, <1>5, <1>7, <1>9 DEF Placed
  <2>3. QED
    BY <1>1, <1>2, <2>1, <2>2 DEF Placed
<1>13. Queued(pushes)'
  <2>1. ASSUME NEW m \in DOMAIN blocked'
        PROVE  RowInTurn(pushes, blocked'[m])
    <3>1. CASE m = n
      BY <1>5, <1>6, <3>1
    <3>2. CASE m # n
      BY <1>2, <1>6, <2>1, <3>2 DEF Queued, elsewhere
    <3>3. QED
      BY <3>1, <3>2
  <2> HIDE DEF w
  <2>2. AllInTurn(pushes, ToSet(passedOn), ToSet(pending) \cup ToSet(buffer') \cup WaitingIn(blocked'))
    BY <1>2, <1>5, <1>7, <1>9 DEF Queued, AllInTurn
  <2>3. AllInTurn(pushes, ToSet(pending), ToSet(buffer') \cup WaitingIn(blocked'))
    BY <1>2, <1>5, <1>7, <1>9 DEF Queued, AllInTurn
  <2>4. AllInTurn(pushes, ToSet(buffer') \cup WaitingIn(blocked'), ToSet(pending))
    BY <1>2, <1>5, <1>7, <1>9 DEF Queued, AllInTurn
  <2>5. AllInTurn(pushes, ToSet(buffer'), WaitingIn(blocked'))
    BY <1>2, <1>5, <1>7, <1>8, <1>9 DEF Queued, AllInTurn
  <2>6. RowInTurn(pushes, passedOn) /\ RowInTurn(pushes, pending)
    BY <1>2 DEF Queued
  <2>7. QED
    BY <1>1, <1>9, <2>1, <2>2, <2>3, <2>4, <2>5, <2>6 DEF Queued
<1>14. QED
  BY <1>11, <1>12, <1>13 DEF HermesInv

\* The loop takes what was spilled before it came.
LEMMA DrainStep ==
    ASSUME HermesInv, DrainPending
    PROVE  HermesInv'
<1>1. /\ HermesTypes /\ Placed /\ Queued(pushes) /\ reader = "draining"
      /\ pushes' = pushes /\ buffer' = buffer /\ blocked' = blocked /\ stranded' = stranded
  BY DEF HermesInv, DrainPending
<1>2. CASE pending = <<>>
  <2>1. reader' = "tailing" /\ passedOn' = passedOn /\ pending' = pending
    BY <1>2 DEF DrainPending
  <2>2. ToSet(pending) = {}
    BY <1>2 DEF ToSet
  <2>3. HermesTypes' /\ Queued(pushes)'
    BY <1>1, <2>1 DEF HermesTypes, Queued
  <2>4. Placed'
    BY <1>1, <2>1, <2>2 DEF Placed
  <2>5. QED
    BY <2>3, <2>4 DEF HermesInv
<1>3. CASE pending # <<>>
  <2> DEFINE h == Head(pending)
             t == Tail(pending)
  <2>1. passedOn' = Append(passedOn, h) /\ pending' = t /\ reader' = reader
    BY <1>3 DEF DrainPending
  <2>2. pending \in Seq(Parts) /\ passedOn \in Seq(Parts)
    BY <1>1 DEF HermesTypes
  <2>3. /\ t \in Seq(Parts) /\ h \in Parts /\ ToSet(pending) = {h} \cup ToSet(t)
        /\ RowInTurn(pushes, t) /\ AllInTurn(pushes, {h}, ToSet(t))
    BY <1>1, <1>3, <2>2, TakenOff DEF Queued
  <2> HIDE DEF h, t
  <2>4. /\ passedOn' \in Seq(Parts) /\ ToSet(passedOn') = ToSet(passedOn) \cup {h}
        /\ RowInTurn(pushes, passedOn')
    <3>1. AllInTurn(pushes, ToSet(passedOn), {h}) /\ RowInTurn(pushes, passedOn)
      BY <1>1, <2>3 DEF Queued, AllInTurn
    <3>2. QED
      <4>1. /\ Append(passedOn, h) \in Seq(Parts) /\ ToSet(Append(passedOn, h)) = ToSet(passedOn) \cup {h}
            /\ RowInTurn(pushes, Append(passedOn, h))
        <5>1. passedOn \in Seq(Parts) /\ h \in Parts
          BY <2>2, <2>3
        <5>2. QED
          BY <3>1, <5>1, OneMoreInTurn
      <4>2. QED
        BY <2>1, <4>1
  <2>5. HermesTypes'
    BY <1>1, <2>1, <2>3, <2>4 DEF HermesTypes
  <2>6. Placed'
    BY <1>1, <2>1, <2>3, <2>4 DEF Placed
  <2>7. AllInTurn(pushes, ToSet(passedOn'), ToSet(t) \cup ToSet(buffer) \cup WaitingIn(blocked))
    BY <1>1, <2>3, <2>4 DEF Queued, AllInTurn
  <2>8. /\ AllInTurn(pushes, ToSet(t), ToSet(buffer) \cup WaitingIn(blocked))
        /\ AllInTurn(pushes, ToSet(buffer) \cup WaitingIn(blocked), ToSet(t))
    BY <1>1, <2>3 DEF Queued, AllInTurn
  <2>9. Queued(pushes)'
    BY <1>1, <2>1, <2>3, <2>4, <2>7, <2>8 DEF Queued
  <2>10. QED
    BY <2>5, <2>6, <2>9 DEF HermesInv
<1>4. QED
  BY <1>2, <1>3

LEMMA TakeStep ==
    ASSUME HermesInv, TakeNext
    PROVE  HermesInv'
<1> DEFINE h == Head(buffer)
           t == Tail(buffer)
<1>1. /\ HermesTypes /\ Placed /\ Queued(pushes) /\ buffer # <<>>
      /\ passedOn' = Append(passedOn, h) /\ buffer' = t
      /\ pushes' = pushes /\ pending' = pending /\ blocked' = blocked /\ reader' = reader
      /\ stranded' = stranded
  BY DEF HermesInv, TakeNext
<1>2. buffer \in Seq(Parts) /\ passedOn \in Seq(Parts) /\ Len(buffer) <= HermesQueueMax
  BY <1>1 DEF HermesTypes
<1>3. /\ t \in Seq(Parts) /\ h \in Parts /\ Len(t) <= Len(buffer) /\ ToSet(buffer) = {h} \cup ToSet(t)
      /\ RowInTurn(pushes, t) /\ AllInTurn(pushes, {h}, ToSet(t))
  BY <1>1, <1>2, TakenOff DEF Queued
<1>4. Len(t) <= HermesQueueMax
  BY <1>2, <1>3, HermesAssumption
<1> HIDE DEF h, t
<1>5. /\ passedOn' \in Seq(Parts) /\ ToSet(passedOn') = ToSet(passedOn) \cup {h}
      /\ RowInTurn(pushes, passedOn')
  <2>1. AllInTurn(pushes, ToSet(passedOn), {h}) /\ RowInTurn(pushes, passedOn)
    BY <1>1, <1>3 DEF Queued, AllInTurn
  <2>2. QED
    <3>1. /\ Append(passedOn, h) \in Seq(Parts) /\ ToSet(Append(passedOn, h)) = ToSet(passedOn) \cup {h}
          /\ RowInTurn(pushes, Append(passedOn, h))
      <4>1. passedOn \in Seq(Parts) /\ h \in Parts
        BY <1>2, <1>3
      <4>2. QED
        BY <2>1, <4>1, OneMoreInTurn
    <3>2. QED
      BY <1>1, <3>1
<1>6. HermesTypes'
  BY <1>1, <1>3, <1>4, <1>5 DEF HermesTypes
<1>7. Placed'
  BY <1>1, <1>3, <1>5 DEF Placed
<1>8. AllInTurn(pushes, ToSet(passedOn'), ToSet(pending) \cup ToSet(t) \cup WaitingIn(blocked))
  BY <1>1, <1>3, <1>5 DEF Queued, AllInTurn
<1>9. /\ AllInTurn(pushes, ToSet(pending), ToSet(t) \cup WaitingIn(blocked))
      /\ AllInTurn(pushes, ToSet(t) \cup WaitingIn(blocked), ToSet(pending))
      /\ AllInTurn(pushes, ToSet(t), WaitingIn(blocked))
  BY <1>1, <1>3 DEF Queued, AllInTurn
<1>10. Queued(pushes)'
  BY <1>1, <1>3, <1>5, <1>8, <1>9 DEF Queued
<1>11. QED
  BY <1>6, <1>7, <1>10 DEF HermesInv

LEMMA HermesKept ==
    ASSUME HermesInv, [HermesNext]_hermesVars
    PROVE  HermesInv'
<1>1. CASE UNCHANGED hermesVars
  BY <1>1 DEF HermesInv, HermesTypes, Placed, Queued, hermesVars
<1>2. CASE StartStream
  BY <1>2 DEF HermesInv, HermesTypes, Placed, Queued, StartStream
<1>3. QED
  BY <1>1, <1>2, FeedStep, AFeedStep, UnblockStep, DrainStep, TakeStep DEF HermesNext

\* What HermesSource promises, for all payloads, queue sizes and numbers of pushes: nothing
\* is streamed twice, an awaited push keeps its order, and all that was pushed is streamed
\* but what a feed spilled into _pending after stream() had emptied it (HermesAdapter in
\* src/mnemozine/ingestion/hermes/adapter.py).
THEOREM PushesStreamed == HermesSpec => []PushedIsStreamed
<1>1. HermesInit => HermesInv
  <2> SUFFICES ASSUME HermesInit PROVE HermesInv
    OBVIOUS
  <2> DEFINE none == <<>>
  <2>1. /\ none \in Seq(Parts) /\ none \in Seq(Seq(Parts)) /\ none \in Seq(HermesPushes) /\ Len(none) = 0
        /\ DOMAIN none = {}
    OBVIOUS
  <2>2. /\ pushes = none /\ buffer = none /\ pending = none /\ blocked = none /\ passedOn = none
        /\ reader = "off" /\ stranded = {}
    BY DEF HermesInit
  <2> HIDE DEF none
  <2>3. ToSet(none) = {} /\ WaitingIn(none) = {} /\ PushedIn(none) = {}
    BY <2>1 DEF ToSet, WaitingIn, PushedIn
  <2>4. HermesTypes
    BY <2>1, <2>2, HermesAssumption DEF HermesTypes
  <2>5. Placed
    BY <2>1, <2>2, <2>3 DEF Placed
  <2>6. Queued(pushes)
    BY <2>1, <2>2, <2>3 DEF Queued, RowInTurn, AllInTurn
  <2>7. QED
    BY <2>4, <2>5, <2>6 DEF HermesInv
<1>2. HermesInv /\ [HermesNext]_hermesVars => HermesInv'
  BY HermesKept
<1>3. HermesInv => PushedIsStreamed
  <2> SUFFICES ASSUME HermesInv PROVE PushedIsStreamed
    OBVIOUS
  <2>1. StreamedInOrder
    BY DEF HermesInv, Queued, RowInTurn, InTurn, StreamedInOrder
  <2>2. ASSUME reader = "tailing", buffer = <<>>, \A n \in DOMAIN blocked : blocked[n] = <<>>
        PROVE  ToSet(passedOn) = Pushed \ stranded
    <3>1. ToSet(buffer) = {} /\ WaitingIn(blocked) = {}
      BY <2>2 DEF ToSet, WaitingIn
    <3>2. Pushed = ToSet(passedOn) \cup ToSet(pending) /\ stranded = ToSet(pending)
      BY <2>2, <3>1 DEF HermesInv, Placed, Pushed, PushedIn
    <3>3. ToSet(passedOn) \cap ToSet(pending) = {}
      BY DEF HermesInv, Queued, AllInTurn, InTurn
    <3>4. QED
      BY <3>2, <3>3
  <2>3. QED
    BY <2>1, <2>2 DEF PushedIsStreamed
<1>4. QED
  BY <1>1, <1>2, <1>3, PTL DEF HermesSpec

-----------------------------------------------------------------------------
(* The gateway *)

\* F is how the choice of what is among K goes along s.
Choosing(F, s, K) ==
    \A n \in 0 .. Len(s) :
       F[n] = IF n = 0 THEN <<>> ELSE IF s[n] \in K THEN Append(F[n - 1], s[n]) ELSE F[n - 1]

LEMMA AmongRuns ==
    ASSUME NEW S, NEW s \in Seq(S), NEW K
    PROVE  \E F \in [0 .. Len(s) -> Seq(S)] : Choosing(F, s, K) /\ Among(s, K) = F[Len(s)]
<1> DEFINE N == Len(s)
           step(n, q) == IF s[n] \in K THEN Append(q, s[n]) ELSE q
           Chooses(f) == f = [n \in 0 .. N |-> IF n = 0 THEN <<>>
                                               ELSE IF s[n] \in K THEN Append(f[n - 1], s[n])
                                               ELSE f[n - 1]]
           F == CHOOSE f : Chooses(f)
           g == [p \in (1 .. N) \X Seq(S) |-> step(p[1], p[2])]
<1>1. Among(s, K) = F[N]
  BY DEF Among
<1>2. N \in Nat /\ \A n \in 1 .. N : s[n] \in S
  OBVIOUS
<1>3. \A n \in 1 .. N : \A q \in Seq(S) : g[<<n, q>>] = step(n, q) /\ step(n, q) \in Seq(S)
  BY <1>2
<1> HIDE DEF g, N
<1>4. PICK f : Follows(f, Seq(S), <<>>, N, g)
  <2>1. StaysIn(Seq(S), N, g)
    BY <1>3 DEF StaysIn
  <2>2. <<>> \in Seq(S)
    OBVIOUS
  <2>3. QED
    BY <1>2, <2>1, <2>2, Iterated
<1>5. /\ f \in [0 .. N -> Seq(S)] /\ f[0] = <<>>
      /\ \A n \in 1 .. N : f[n] = g[<<n, f[n - 1]>>]
  BY <1>4 DEF Follows
<1>6. ASSUME NEW n \in 0 .. N
      PROVE  f[n] = IF n = 0 THEN <<>> ELSE IF s[n] \in K THEN Append(f[n - 1], s[n]) ELSE f[n - 1]
  <2>1. CASE n = 0
    BY <1>5, <2>1
  <2>2. CASE n # 0
    <3>1. n \in 1 .. N /\ n - 1 \in 0 .. N
      BY <1>2, <2>2
    <3>2. f[n - 1] \in Seq(S)
      BY <1>5, <3>1
    <3>3. f[n] = step(n, f[n - 1])
      BY <1>3, <1>5, <3>1, <3>2
    <3>4. QED
      BY <2>2, <3>3
  <2>3. QED
    BY <2>1, <2>2
<1>7. f = [n \in 0 .. N |-> IF n = 0 THEN <<>> ELSE IF s[n] \in K THEN Append(f[n - 1], s[n]) ELSE f[n - 1]]
  BY <1>5, <1>6
<1>8. Chooses(F)
  <2>1. Chooses(f)
    BY <1>7
  <2> HIDE DEF Chooses
  <2>2. QED
    BY <2>1
<1> HIDE DEF F
<1>9. \A n \in 0 .. N : F[n] = IF n = 0 THEN <<>> ELSE IF s[n] \in K THEN Append(F[n - 1], s[n]) ELSE F[n - 1]
  BY <1>8
<1>10. F = [n \in 0 .. N |-> F[n]]
  BY <1>8
<1> DEFINE T == {n \in Nat : n <= N => F[n] \in Seq(S)}
<1>11. 0 \in T
  <2>1. F[0] = <<>>
    BY <1>2, <1>9
  <2>2. <<>> \in Seq(S)
    OBVIOUS
  <2>3. QED
    BY <2>1, <2>2
<1>12. ASSUME NEW n \in Nat, n \in T
       PROVE  n + 1 \in T
  <2>1. SUFFICES ASSUME n + 1 <= N
                 PROVE  F[n + 1] \in Seq(S)
    OBVIOUS
  <2>2. n + 1 \in 0 .. N /\ n + 1 # 0 /\ (n + 1) - 1 = n /\ n <= N /\ n + 1 \in 1 .. N
    BY <1>2, <2>1
  <2>3. F[n] \in Seq(S) /\ s[n + 1] \in S
    BY <1>2, <1>12, <2>2
  <2>4. F[n + 1] = IF s[n + 1] \in K THEN Append(F[n], s[n + 1]) ELSE F[n]
    BY <1>9, <2>2
  <2>5. QED
    BY <2>3, <2>4
<1>13. Nat \subseteq T
  <2> HIDE DEF T
  <2>1. QED
    BY <1>11, <1>12, CountingUp
<1>14. \A n \in 0 .. N : F[n] \in Seq(S)
  BY <1>2, <1>13
<1>15. F \in [0 .. N -> Seq(S)]
  BY <1>10, <1>14
<1>16. Choosing(F, s, K)
  BY <1>9 DEF Choosing, N
<1>17. QED
  BY <1>1, <1>15, <1>16 DEF N

\* What is chosen of a sequence and of one that goes on after it.
LEMMA AmongBoth ==
    ASSUME NEW S, NEW a \in Seq(S), NEW b \in Seq(S), NEW K
    PROVE  Among(a \o b, K) = Among(a, K) \o Among(b, K)
<1> DEFINE s == a \o b
           N == Len(a)
           M == Len(b)
<1>1. /\ N \in Nat /\ M \in Nat /\ s \in Seq(S) /\ Len(s) = N + M
      /\ \A n \in 1 .. N : s[n] = a[n]
      /\ \A n \in 1 .. M : s[N + n] = b[n] /\ b[n] \in S
  OBVIOUS
<1> HIDE DEF s
<1>2. PICK F \in [0 .. N + M -> Seq(S)] : Choosing(F, s, K) /\ Among(s, K) = F[N + M]
  <2> HIDE DEF N, M
  <2>0. s \in Seq(S)
    BY <1>1
  <2>1. PICK F \in [0 .. Len(s) -> Seq(S)] : Choosing(F, s, K) /\ Among(s, K) = F[Len(s)]
    BY <2>0, AmongRuns
  <2>2. QED
    BY <1>1, <2>1
<1>3. PICK A \in [0 .. N -> Seq(S)] : Choosing(A, a, K) /\ Among(a, K) = A[N]
  BY AmongRuns
<1>4. PICK B \in [0 .. M -> Seq(S)] : Choosing(B, b, K) /\ Among(b, K) = B[M]
  BY AmongRuns
<1> HIDE DEF N, M
<1>5. \A n \in 0 .. N + M :
        F[n] = IF n = 0 THEN <<>> ELSE IF s[n] \in K THEN Append(F[n - 1], s[n]) ELSE F[n - 1]
  BY <1>1, <1>2 DEF Choosing
<1>6. \A n \in 0 .. N :
        A[n] = IF n = 0 THEN <<>> ELSE IF a[n] \in K THEN Append(A[n - 1], a[n]) ELSE A[n - 1]
  BY <1>3 DEF Choosing, N
<1>7. \A n \in 0 .. M :
        B[n] = IF n = 0 THEN <<>> ELSE IF b[n] \in K THEN Append(B[n - 1], b[n]) ELSE B[n - 1]
  BY <1>4 DEF Choosing, M
<1> DEFINE T == {n \in Nat : n <= N => F[n] = A[n]}
           Both(n) == A[N] \o B[n]
           U == {n \in Nat : n <= M => F[N + n] = Both(n)}
<1>m. N \in Nat /\ M \in Nat
  BY <1>1
<1>8. 0 \in T
  BY <1>1, <1>5, <1>6
<1>9. ASSUME NEW n \in Nat, n \in T
      PROVE  n + 1 \in T
  <2>1. SUFFICES ASSUME n + 1 <= N
                 PROVE  F[n + 1] = A[n + 1]
    OBVIOUS
  <2>2. /\ n + 1 \in 0 .. N + M /\ n + 1 \in 0 .. N /\ n + 1 # 0 /\ (n + 1) - 1 = n /\ n <= N
        /\ n + 1 \in 1 .. N
    BY <1>1, <2>1
  <2>3. F[n + 1] = IF s[n + 1] \in K THEN Append(F[n], s[n + 1]) ELSE F[n]
    BY <1>5, <2>2
  <2>4. A[n + 1] = IF a[n + 1] \in K THEN Append(A[n], a[n + 1]) ELSE A[n]
    BY <1>6, <2>2
  <2>5. s[n + 1] = a[n + 1] /\ F[n] = A[n]
    BY <1>1, <1>9, <2>2
  <2>6. QED
    BY <2>3, <2>4, <2>5
<1>10. Nat \subseteq T
  <2> HIDE DEF T
  <2>1. QED
    BY <1>8, <1>9, CountingUp
<1>11. 0 \in U
  <2>1. F[N] = A[N] /\ B[0] = <<>> /\ A[N] \in Seq(S) /\ N + 0 = N
    BY <1>1, <1>3, <1>7, <1>10
  <2> DEFINE p == A[N]
  <2>2. p \in Seq(S)
    BY <2>1
  <2> HIDE DEF p
  <2>3. p = p \o <<>>
    BY <2>2
  <2>4. F[N + 0] = A[N] \o B[0]
    BY <2>1, <2>3 DEF p
  <2> HIDE DEF Both
  <2>5. F[N + 0] = Both(0)
    BY <2>4 DEF Both
  <2>6. QED
    BY <2>5
<1>12. ASSUME NEW n \in Nat, n \in U
       PROVE  n + 1 \in U
  <2>1. SUFFICES ASSUME n + 1 <= M
                 PROVE  F[N + (n + 1)] = Both(n + 1)
    <3> HIDE DEF Both
    <3>1. QED
      OBVIOUS
  <2>2. /\ N + (n + 1) \in 0 .. N + M /\ n + 1 \in 0 .. M /\ n + 1 # 0 /\ (n + 1) - 1 = n /\ n <= M
        /\ N + (n + 1) # 0 /\ (N + (n + 1)) - 1 = N + n /\ n + 1 \in 1 .. M /\ n \in 0 .. M
    BY <1>m, <2>1
  <2>3. F[N + (n + 1)] = IF s[N + (n + 1)] \in K THEN Append(F[N + n], s[N + (n + 1)]) ELSE F[N + n]
    BY <1>5, <2>2
  <2>4. B[n + 1] = IF b[n + 1] \in K THEN Append(B[n], b[n + 1]) ELSE B[n]
    BY <1>7, <2>2
  <2>5. s[N + (n + 1)] = b[n + 1] /\ b[n + 1] \in S /\ F[N + n] = A[N] \o B[n]
    BY <1>1, <1>12, <2>2
  <2>6. A[N] \in Seq(S) /\ B[n] \in Seq(S)
    BY <1>1, <1>3, <1>4, <2>2
  <2> DEFINE x == b[n + 1]
             p == A[N]
             q == B[n]
  <2>7. F[N + (n + 1)] = IF x \in K THEN Append(p \o q, x) ELSE p \o q
    BY <2>3, <2>5
  <2>8. B[n + 1] = IF x \in K THEN Append(q, x) ELSE q
    BY <2>4
  <2>9. x \in S /\ p \in Seq(S) /\ q \in Seq(S)
    BY <2>5, <2>6
  <2> HIDE DEF x, p, q
  <2>10. Append(p \o q, x) = p \o Append(q, x)
    <3>1. p \o q \in Seq(S) /\ <<x>> \in Seq(S)
      BY <2>9
    <3>2. Append(p \o q, x) = (p \o q) \o <<x>> /\ Append(q, x) = q \o <<x>>
      BY <2>9, <3>1, AppendIsConcat
    <3>3. QED
      BY <2>9, <3>1, <3>2, ConcatAssociative
  <2>11. F[N + (n + 1)] = p \o B[n + 1]
    BY <2>7, <2>8, <2>10
  <2>12. QED
    BY <2>11 DEF p
<1>13. Nat \subseteq U
  <2> HIDE DEF U
  <2>1. QED
    BY <1>11, <1>12, CountingUp
<1>14. F[N + M] = A[N] \o B[M]
  BY <1>1, <1>13
<1>15. QED
  BY <1>2, <1>3, <1>4, <1>14 DEF s

\* What is chosen is what there is of it, and all of it when there is nothing else.
LEMMA AmongHolds ==
    ASSUME NEW S, NEW s \in Seq(S), NEW K
    PROVE  /\ Among(s, K) \in Seq(S)
           /\ \A x : x \in ToSet(Among(s, K)) <=> x \in ToSet(s) /\ x \in K
           /\ ToSet(s) \subseteq K => Among(s, K) = s
<1> DEFINE N == Len(s)
<1>1. N \in Nat /\ \A n \in 1 .. N : s[n] \in S /\ s[n] \in ToSet(s)
  BY DEF ToSet
<1>2. PICK F \in [0 .. N -> Seq(S)] : Choosing(F, s, K) /\ Among(s, K) = F[N]
  BY AmongRuns
<1>3. \A n \in 0 .. N :
        F[n] = IF n = 0 THEN <<>> ELSE IF s[n] \in K THEN Append(F[n - 1], s[n]) ELSE F[n - 1]
  BY <1>2 DEF Choosing
<1>a. ToSet(s) = {s[i] : i \in 1 .. N}
  BY DEF ToSet
<1>b. s = SubSeq(s, 1, N)
  OBVIOUS
<1>c. \A n \in 1 .. N : SubSeq(s, 1, n) = Append(SubSeq(s, 1, n - 1), s[n])
  OBVIOUS
<1>d. SubSeq(s, 1, 0) = <<>>
  OBVIOUS
<1> HIDE DEF N
<1> DEFINE T == {n \in Nat : n <= N =>
                   /\ \A x : x \in ToSet(F[n]) <=> (\E i \in 1 .. n : x = s[i]) /\ x \in K
                   /\ ToSet(s) \subseteq K => F[n] = SubSeq(s, 1, n)}
<1>4. 0 \in T
  <2>1. F[0] = <<>>
    BY <1>1, <1>3
  <2>2. \A x : x \notin ToSet(<<>>)
    BY DEF ToSet
  <2>3. \A i : i \notin 1 .. 0
    OBVIOUS
  <2>4. QED
    BY <1>d, <2>1, <2>2, <2>3
<1>5. ASSUME NEW n \in Nat, n \in T
      PROVE  n + 1 \in T
  <2>1. SUFFICES ASSUME n + 1 <= N
                 PROVE  /\ \A x : x \in ToSet(F[n + 1]) <=> (\E i \in 1 .. n + 1 : x = s[i]) /\ x \in K
                        /\ ToSet(s) \subseteq K => F[n + 1] = SubSeq(s, 1, n + 1)
    OBVIOUS
  <2>2. n + 1 \in 0 .. N /\ n + 1 # 0 /\ (n + 1) - 1 = n /\ n <= N /\ n + 1 \in 1 .. N /\ n \in 0 .. N
    BY <1>1, <2>1
  <2>3. F[n + 1] = IF s[n + 1] \in K THEN Append(F[n], s[n + 1]) ELSE F[n]
    BY <1>3, <2>2
  <2>4. /\ \A x : x \in ToSet(F[n]) <=> (\E i \in 1 .. n : x = s[i]) /\ x \in K
        /\ ToSet(s) \subseteq K => F[n] = SubSeq(s, 1, n)
    BY <1>5, <2>2
  <2>5. F[n] \in Seq(S) /\ s[n + 1] \in S /\ s[n + 1] \in ToSet(s)
    BY <1>1, <2>2
  <2> DEFINE q == F[n]
             y == s[n + 1]
  <2>6. q \in Seq(S) /\ y \in S
    BY <2>5
  <2>7. ToSet(Append(q, y)) = ToSet(q) \cup {y}
    <3> HIDE DEF q, y
    <3>1. Len(q) \in Nat /\ DOMAIN Append(q, y) = 1 .. Len(q) + 1
          /\ Append(q, y)[Len(q) + 1] = y /\ DOMAIN q = 1 .. Len(q)
          /\ \A i \in 1 .. Len(q) : Append(q, y)[i] = q[i]
      BY <2>6
    <3>2. QED
      BY <3>1 DEF ToSet
  <2>8. \A i : i \in 1 .. n + 1 <=> i \in 1 .. n \/ i = n + 1
    OBVIOUS
  <2>9. \A x : x \in ToSet(F[n + 1]) <=> (\E i \in 1 .. n + 1 : x = s[i]) /\ x \in K
    <3>1. ToSet(F[n + 1]) = IF y \in K THEN ToSet(q) \cup {y} ELSE ToSet(q)
      BY <2>3, <2>7
    <3>2. QED
      BY <2>4, <2>8, <3>1
  <2>10. ASSUME ToSet(s) \subseteq K
         PROVE  F[n + 1] = SubSeq(s, 1, n + 1)
    <3>1. F[n + 1] = Append(SubSeq(s, 1, n), s[n + 1])
      BY <2>3, <2>4, <2>5, <2>10
    <3>2. QED
      BY <1>c, <2>2, <3>1
  <2>11. QED
    BY <2>9, <2>10
<1>6. Nat \subseteq T
  <2> HIDE DEF T
  <2>1. QED
    BY <1>4, <1>5, CountingUp
<1>7. N \in T
  BY <1>1, <1>6
<1>8. F[N] \in Seq(S)
  BY <1>1, <1>2
<1>9. \A x : x \in ToSet(s) <=> \E i \in 1 .. N : x = s[i]
  BY <1>a
<1>10. QED
  BY <1>1, <1>2, <1>7, <1>8, <1>9, <1>b

\* A row of turns as events of a conversation.
AsEvents(c, kept) == [i \in DOMAIN kept |-> <<c, kept[i].id>>]

Turns == [id : Nat, role : Roles, text : BOOLEAN, call : BOOLEAN]
Answers(h) == {i \in DOMAIN h : h[i].role = "assistant"}
LastAnswer(h) == Max({0} \cup Answers(h))
Answered(h) == SubSeq(h, 1, LastAnswer(h))

\* The last answer is in the conversation, and none is after it.
LEMMA LastAnswerIs ==
    ASSUME NEW h \in Seq(Turns)
    PROVE  /\ LastAnswer(h) \in 0 .. Len(h)
           /\ LastAnswer(h) # 0 => LastAnswer(h) \in Answers(h)
           /\ \A i \in Answers(h) : i <= LastAnswer(h)
<1> DEFINE A == {0} \cup Answers(h)
           rank == [i \in A |-> i]
<1>1. Answers(h) \subseteq 1 .. Len(h) /\ Len(h) \in Nat
  BY DEF Answers
<1>2. A \subseteq 0 .. Len(h) /\ A # {} /\ 0 \in A
  BY <1>1
<1>3. IsFiniteSet(A)
  <2>1. 0 \in Int /\ Len(h) \in Int
    BY <1>1
  <2> HIDE DEF A
  <2>2. IsFiniteSet(0 .. Len(h))
    BY <2>1, FS_Interval
  <2>3. QED
    BY <1>2, <2>2, FS_Subset
<1>4. \A i \in A : rank[i] = i /\ i \in Int
  BY <1>1, <1>2
<1> HIDE DEF A, rank
<1>5. \E i \in A : \A j \in A : rank[j] <= rank[i]
  BY <1>2, <1>3, <1>4, FarthestExists
<1>6. \E i \in A : \A j \in A : i >= j
  BY <1>4, <1>5
<1>7. Max(A) \in A /\ \A j \in A : Max(A) >= j
  BY <1>6 DEF Max
<1>8. LastAnswer(h) = Max(A)
  BY DEF LastAnswer, A
<1>9. \A j \in Answers(h) : j \in A /\ j \in Int
  BY <1>4 DEF A
<1>10. Max(A) # 0 => Max(A) \in Answers(h)
  BY <1>7 DEF A
<1>11. QED
  BY <1>2, <1>4, <1>7, <1>8, <1>9, <1>10

\* The bound of Answers is what pins the last one.
LEMMA LastAnswerAt ==
    ASSUME NEW h \in Seq(Turns), NEW m \in 0 .. Len(h),
           m # 0 => m \in Answers(h), \A i \in Answers(h) : i <= m
    PROVE  LastAnswer(h) = m
<1>1. /\ LastAnswer(h) \in 0 .. Len(h)
      /\ LastAnswer(h) # 0 => LastAnswer(h) \in Answers(h)
      /\ \A i \in Answers(h) : i <= LastAnswer(h)
  BY LastAnswerIs
<1> DEFINE k == LastAnswer(h)
           A == Answers(h)
<1>2. /\ k \in Int /\ m \in Int /\ k >= 0 /\ m >= 0 /\ (k # 0 => k \in A) /\ (m # 0 => m \in A)
      /\ (\A i \in A : i <= k) /\ (\A i \in A : i <= m)
  BY <1>1
<1> HIDE DEF k, A
<1>3. k = m
  BY <1>2
<1>4. QED
  BY <1>3 DEF k

\* A turn that is no answer leaves what was answered as it was.
LEMMA SpokenOn ==
    ASSUME NEW h \in Seq(Turns), NEW t \in Turns, t.role # "assistant"
    PROVE  Answered(Append(h, t)) = Answered(h)
<1> DEFINE g == Append(h, t)
           m == LastAnswer(h)
<1>1. /\ m \in 0 .. Len(h) /\ (m # 0 => m \in Answers(h))
      /\ \A i \in Answers(h) : i <= m
  BY LastAnswerIs
<1>2. /\ g \in Seq(Turns) /\ Len(g) = Len(h) + 1 /\ Len(h) \in Nat /\ g[Len(h) + 1] = t
      /\ \A i \in 1 .. Len(h) : g[i] = h[i]
  OBVIOUS
<1>3. DOMAIN g = 1 .. Len(h) + 1 /\ DOMAIN h = 1 .. Len(h)
  BY <1>2
<1> HIDE DEF g
<1>4. Answers(g) = Answers(h)
  BY <1>2, <1>3 DEF Answers
<1> HIDE DEF m
<1>5. LastAnswer(g) = m
  <2>1. m \in 0 .. Len(g)
    BY <1>1, <1>2
  <2>2. QED
    BY <1>1, <1>2, <1>4, <2>1, LastAnswerAt
<1>6. SubSeq(g, 1, m) = SubSeq(h, 1, m)
  BY <1>1, <1>2
<1>7. QED
  BY <1>5, <1>6 DEF Answered, m, g

\* An answer extends what was answered by the turns since the last one and itself.
LEMMA AnsweredNow ==
    ASSUME NEW h \in Seq(Turns), NEW t \in Turns, t.role = "assistant"
    PROVE  /\ Answered(Append(h, t)) = Answered(h) \o (TrailingTurns(h) \o <<t>>)
           /\ Answered(h) \in Seq(Turns) /\ TrailingTurns(h) \in Seq(Turns)
<1> DEFINE g == Append(h, t)
           m == LastAnswer(h)
           n == Len(h)
<1>1. m \in 0 .. n
  BY LastAnswerIs
<1>2. /\ g \in Seq(Turns) /\ Len(g) = n + 1 /\ n \in Nat /\ g[n + 1] = t
      /\ g = h \o <<t>>
  OBVIOUS
<1>3. LastAnswer(g) = n + 1
  <2>1. n + 1 \in Answers(g) /\ \A i \in Answers(g) : i <= n + 1
    <3> HIDE DEF g
    <3>1. QED
      BY <1>2 DEF Answers
  <2>2. n + 1 \in 0 .. Len(g)
    BY <1>2
  <2> HIDE DEF g, n
  <2>3. QED
    BY <1>2, <2>1, <2>2, LastAnswerAt
<1>4. Answered(g) = g
  <2> HIDE DEF g
  <2>1. SubSeq(g, 1, Len(g)) = g
    BY <1>2
  <2>2. QED
    BY <1>2, <1>3, <2>1 DEF Answered
<1>5. TrailingTurns(h) = SubSeq(h, m + 1, n)
  BY DEF TrailingTurns, LastAnswer, Answers
<1>6. SubSeq(h, 1, m) \o SubSeq(h, m + 1, n) = SubSeq(h, 1, n)
  <2>1. 1 \in 1 .. Len(h) + 1 /\ m \in 1 - 1 .. Len(h) /\ n \in m .. Len(h)
    BY <1>1, <1>2
  <2> HIDE DEF m, n
  <2>2. QED
    BY <2>1, ConcatAdjacentSubSeq
<1>7. SubSeq(h, 1, n) = h
  OBVIOUS
<1>8. SubSeq(h, 1, m) \in Seq(Turns) /\ SubSeq(h, m + 1, n) \in Seq(Turns)
  <2> HIDE DEF m
  <2>1. QED
    BY <1>1
<1>9. Answered(h) = SubSeq(h, 1, m)
  BY DEF Answered
<1> HIDE DEF m, n
<1> DEFINE a == Answered(h)
           b == TrailingTurns(h)
           z == <<t>>
<1>10. a \in Seq(Turns) /\ b \in Seq(Turns)
  BY <1>5, <1>8, <1>9
<1>a. a \o b = h
  BY <1>5, <1>6, <1>7, <1>9
<1>b. z \in Seq(Turns)
  OBVIOUS
<1> HIDE DEF a, b, z
<1>11. (a \o b) \o z = a \o (b \o z)
  BY <1>10, <1>b, ConcatAssociative
<1>12. g = a \o (b \o z)
  BY <1>2, <1>a, <1>11 DEF z
<1>13. QED
  BY <1>4, <1>10, <1>12 DEF a, b, z, g

\* With the answer gone, what is answered was answered before.
LEMMA AnswerGone ==
    ASSUME NEW h \in Seq(Turns), h # <<>>
    PROVE  Front(h) \in Seq(Turns)
           /\ ToSet(Answered(Front(h))) \subseteq ToSet(Answered(h))
           /\ Answered(Front(h)) \in Seq(Turns) /\ Answered(h) \in Seq(Turns)
<1> DEFINE g == Front(h)
           n == Len(h)
<1>1. /\ n \in Nat /\ n >= 1 /\ g \in Seq(Turns) /\ Len(g) = n - 1
      /\ \A i \in 1 .. n - 1 : g[i] = h[i]
  BY DEF Front
<1>2. LastAnswer(h) \in 0 .. n /\ \A i \in Answers(h) : i <= LastAnswer(h)
  BY LastAnswerIs
<1> HIDE DEF g, n
<1>3. /\ LastAnswer(g) \in 0 .. n - 1
      /\ LastAnswer(g) # 0 => LastAnswer(g) \in Answers(g)
  BY <1>1, LastAnswerIs
<1>4. LastAnswer(g) <= LastAnswer(h)
  <2>1. CASE LastAnswer(g) = 0
    BY <1>1, <1>2, <2>1
  <2>2. CASE LastAnswer(g) # 0
    <3>1. DOMAIN g = 1 .. n - 1 /\ DOMAIN h = 1 .. n
      BY <1>1 DEF n
    <3>2. LastAnswer(g) \in Answers(h)
      BY <1>1, <1>3, <2>2, <3>1 DEF Answers
    <3>3. QED
      BY <1>2, <3>2
  <2>3. QED
    BY <2>1, <2>2
<1> DEFINE k == LastAnswer(g)
           m == LastAnswer(h)
           p == SubSeq(g, 1, k)
           q == SubSeq(h, 1, m)
<1>5. k \in 0 .. n - 1 /\ m \in 0 .. n /\ k <= m
  BY <1>2, <1>3, <1>4
<1> HIDE DEF k, m
<1>6. /\ p \in Seq(Turns) /\ q \in Seq(Turns) /\ DOMAIN p = 1 .. k /\ DOMAIN q = 1 .. m
      /\ \A i \in 1 .. k : p[i] = g[i]
      /\ \A i \in 1 .. m : q[i] = h[i]
  BY <1>1, <1>5 DEF n
<1>7. p = Answered(g) /\ q = Answered(h)
  BY DEF Answered, k, m
<1> HIDE DEF p, q
<1>8. \A i \in DOMAIN p : i \in DOMAIN q /\ p[i] = q[i]
  BY <1>1, <1>5, <1>6
<1>9. ToSet(p) \subseteq ToSet(q)
  BY <1>8 DEF ToSet
<1>10. QED
  BY <1>1, <1>6, <1>7, <1>9 DEF g

\* Rows of events of turns.
LEMMA EventsOfTurns ==
    ASSUME NEW c, NEW a \in Seq(Turns), NEW b \in Seq(Turns)
    PROVE  /\ AsEvents(c, a) \in Seq({c} \X Nat)
           /\ AsEvents(c, a \o b) = AsEvents(c, a) \o AsEvents(c, b)
           /\ ToSet(a) \subseteq ToSet(b) => ToSet(AsEvents(c, a)) \subseteq ToSet(AsEvents(c, b))
<1> DEFINE E(s) == AsEvents(c, s)
<1>1. \A t \in Turns : <<c, t.id>> \in {c} \X Nat
  BY DEF Turns
<1>2. ASSUME NEW s \in Seq(Turns)
      PROVE  /\ E(s) \in Seq({c} \X Nat) /\ Len(E(s)) = Len(s) /\ DOMAIN E(s) = 1 .. Len(s)
             /\ \A i \in 1 .. Len(s) : E(s)[i] = <<c, s[i].id>>
  <2> DEFINE row == [i \in 1 .. Len(s) |-> <<c, s[i].id>>]
  <2>1. Len(s) \in Nat /\ DOMAIN s = 1 .. Len(s) /\ \A i \in 1 .. Len(s) : s[i] \in Turns
    OBVIOUS
  <2>2. E(s) = row
    BY <2>1 DEF AsEvents
  <2>3. row \in [1 .. Len(s) -> {c} \X Nat]
    BY <1>1, <2>1
  <2>4. \A i \in 1 .. Len(s) : row[i] = <<c, s[i].id>>
    OBVIOUS
  <2> HIDE DEF row, E
  <2>5. row \in Seq({c} \X Nat) /\ Len(row) = Len(s) /\ DOMAIN row = 1 .. Len(s)
    BY <2>1, <2>3
  <2>6. QED
    BY <2>2, <2>4, <2>5
<1>3. E(a \o b) = E(a) \o E(b)
  <2> DEFINE s == a \o b
             x == E(s)
             y == E(a) \o E(b)
             P == {c} \X Nat
  <2>1. /\ s \in Seq(Turns) /\ Len(s) = Len(a) + Len(b) /\ Len(a) \in Nat /\ Len(b) \in Nat
        /\ \A i \in 1 .. Len(s) : s[i] = IF i <= Len(a) THEN a[i] ELSE b[i - Len(a)]
    OBVIOUS
  <2> HIDE DEF s, E, P
  <2>2. E(a) \in Seq(P) /\ E(b) \in Seq(P) /\ x \in Seq(P)
        /\ Len(E(a)) = Len(a) /\ Len(E(b)) = Len(b) /\ Len(x) = Len(s)
    BY <1>2, <2>1 DEF P
  <2>3. /\ y \in Seq(P) /\ Len(y) = Len(s)
        /\ \A i \in 1 .. Len(s) : y[i] = IF i <= Len(a) THEN E(a)[i] ELSE E(b)[i - Len(a)]
    <3> DEFINE d == E(a)
               e == E(b)
    <3>1. d \in Seq(P) /\ e \in Seq(P) /\ Len(d) = Len(a) /\ Len(e) = Len(b)
      BY <2>2
    <3> HIDE DEF d, e
    <3>2. /\ d \o e \in Seq(P) /\ Len(d \o e) = Len(d) + Len(e)
          /\ \A i \in 1 .. Len(d) + Len(e) :
               (d \o e)[i] = IF i <= Len(d) THEN d[i] ELSE e[i - Len(d)]
      BY <3>1, ConcatProperties
    <3>3. y = d \o e
      BY DEF d, e
    <3> HIDE DEF y
    <3>4. /\ y \in Seq(P) /\ Len(y) = Len(s)
          /\ \A i \in 1 .. Len(s) : y[i] = IF i <= Len(a) THEN d[i] ELSE e[i - Len(a)]
      BY <2>1, <3>1, <3>2, <3>3
    <3>5. QED
      BY <3>4 DEF d, e
  <2>4. ASSUME NEW i \in 1 .. Len(s)
        PROVE  x[i] = y[i]
    <3>1. x[i] = <<c, s[i].id>>
      BY <1>2, <2>1
    <3>2. CASE i <= Len(a)
      <4>1. i \in 1 .. Len(a)
        BY <2>1, <3>2
      <4>2. E(a)[i] = <<c, a[i].id>>
        BY <1>2, <4>1
      <4>3. QED
        BY <2>1, <2>3, <3>1, <3>2, <4>2
    <3>3. CASE ~(i <= Len(a))
      <4>1. i - Len(a) \in 1 .. Len(b)
        BY <2>1, <3>3
      <4>2. E(b)[i - Len(a)] = <<c, b[i - Len(a)].id>>
        BY <1>2, <4>1
      <4>3. QED
        BY <2>1, <2>3, <3>1, <3>3, <4>2
    <3>4. QED
      BY <3>2, <3>3
  <2> HIDE DEF x, y
  <2>5. x = y
    BY <2>2, <2>3, <2>4, SeqEqual
  <2>6. QED
    BY <2>5 DEF x, y, s
<1>4. ASSUME ToSet(a) \subseteq ToSet(b)
      PROVE  ToSet(E(a)) \subseteq ToSet(E(b))
  <2>1. DOMAIN a = 1 .. Len(a) /\ DOMAIN b = 1 .. Len(b)
    OBVIOUS
  <2>2. ASSUME NEW i \in 1 .. Len(a)
        PROVE  \E j \in 1 .. Len(b) : a[i] = b[j]
    BY <1>4, <2>1 DEF ToSet
  <2> HIDE DEF E
  <2>3. ASSUME NEW i \in 1 .. Len(a)
        PROVE  \E j \in 1 .. Len(b) : E(a)[i] = E(b)[j]
    BY <1>2, <2>2
  <2>4. DOMAIN E(a) = 1 .. Len(a) /\ DOMAIN E(b) = 1 .. Len(b)
    BY <1>2
  <2>5. QED
    BY <2>3, <2>4 DEF ToSet
<1>5. QED
  BY <1>2, <1>3, <1>4

\* Events of a conversation are picked out of their own row, and none out of another's.
LEMMA EventsApart ==
    ASSUME NEW c \in Conversation, NEW d \in Conversation, NEW r \in Seq({c} \X Nat)
    PROVE  /\ r \in Seq(Conversation \X Nat)
           /\ Among(r, {d} \X Nat) = IF c = d THEN r ELSE <<>>
<1> DEFINE P == {c} \X Nat
           Q == {d} \X Nat
           a == Among(r, Q)
<1>1. P \subseteq Conversation \X Nat
  OBVIOUS
<1>2. c # d => P \cap Q = {}
  OBVIOUS
<1>3. c = d => P = Q
  OBVIOUS
<1>4. r \in Seq(P)
  OBVIOUS
<1> HIDE DEF P, Q
<1>5. r \in Seq(Conversation \X Nat)
  BY <1>1, <1>4, SeqMonotonic
<1>6. ToSet(r) \subseteq P
  BY <1>4, HoldsOf
<1>7. /\ a \in Seq(P)
      /\ \A x : x \in ToSet(a) <=> x \in ToSet(r) /\ x \in Q
      /\ ToSet(r) \subseteq Q => a = r
  BY <1>4, AmongHolds
<1> HIDE DEF a
<1>8. CASE c = d
  BY <1>3, <1>5, <1>6, <1>7, <1>8 DEF a, Q
<1>9. CASE c # d
  <2>1. ToSet(a) = {}
    BY <1>2, <1>6, <1>7, <1>9
  <2>2. a = <<>>
    <3>1. DOMAIN a = 1 .. Len(a) /\ Len(a) \in Nat
      BY <1>7
    <3>2. \A i \in DOMAIN a : a[i] \in ToSet(a)
      BY DEF ToSet
    <3>3. Len(a) = 0
      <4>1. SUFFICES ASSUME Len(a) # 0 PROVE FALSE
        OBVIOUS
      <4>2. 1 \in DOMAIN a
        BY <3>1, <4>1
      <4>3. QED
        BY <2>1, <3>2, <4>2
    <3>4. QED
      BY <1>7, <3>3
  <2>3. QED
    BY <1>5, <1>9, <2>2 DEF a, Q
<1>10. QED
  BY <1>8, <1>9

\* What has been said of a conversation's messages, what has been emitted of it, and how
\* the two stand to each other.
SaidIn(c, h) == AsEvents(c, Among(Answered(h), EventTurns))
EmittedIn(c, e) == Among(e, {c} \X Nat)
Captured(c, h, e, R) ==
    IF c \in R THEN ToSet(SaidIn(c, h)) \subseteq ToSet(EmittedIn(c, e))
    ELSE EmittedIn(c, e) = SaidIn(c, h)

\* The queue, when a row of n events is put on it.
LEMMA QueueKeepsNewest ==
    ASSUME NEW w \in Seq(Int), NEW e \in Nat, \A i \in DOMAIN w : w[i] = e - Len(w) + i,
           NEW n \in Nat, NEW new \in Seq(Int), Len(new) = n, \A i \in 1 .. n : new[i] = e + i
    PROVE  /\ Enqueue(w, new) \in Seq(Int)
           /\ \A i \in DOMAIN Enqueue(w, new) :
                Enqueue(w, new)[i] = (e + n) - Len(Enqueue(w, new)) + i
           /\ e - Len(w) <= (e + n) - Len(Enqueue(w, new))
<1> DEFINE all == w \o new
           l == Len(w)
           S == {1, Len(all) - QueueMax + 1}
           k == Max(S)
           q == SubSeq(all, k, Len(all))
<1>1. /\ all \in Seq(Int) /\ Len(all) = l + n /\ l \in Nat
      /\ \A i \in 1 .. l + n : all[i] = IF i <= l THEN w[i] ELSE new[i - l]
  <2>1. /\ w \o new \in Seq(Int) /\ Len(w \o new) = Len(w) + Len(new)
        /\ \A i \in 1 .. Len(w) + Len(new) :
             (w \o new)[i] = IF i <= Len(w) THEN w[i] ELSE new[i - Len(w)]
    BY ConcatProperties
  <2>2. Len(w) \in Nat
    OBVIOUS
  <2>3. QED
    BY <2>1, <2>2
<1>2. \A i \in 1 .. l + n : all[i] = e - l + i
  <2> TAKE i \in 1 .. l + n
  <2>1. CASE i <= l
    <3>1. i \in DOMAIN w
      BY <1>1, <2>1
    <3>2. QED
      BY <1>1, <2>1, <3>1
  <2>2. CASE ~(i <= l)
    <3>1. i - l \in 1 .. n
      BY <1>1, <2>2
    <3> HIDE DEF all, l
    <3>2. all[i] = new[i - l] /\ new[i - l] = e + (i - l)
      BY <1>1, <2>2, <3>1
    <3>3. QED
      BY <1>1, <3>1, <3>2
  <2>3. QED
    BY <2>1, <2>2
<1> HIDE DEF all, l
<1>3. k \in Int /\ k >= 1 /\ k <= l + n + 1
  <2> DEFINE x == Len(all) - QueueMax + 1
  <2>1. x \in Int /\ x <= l + n
    BY <1>1, GatewayAssumption
  <2>2. S = {1, x}
    OBVIOUS
  <2> HIDE DEF x
  <2>3. \E i \in {1, x} : \A j \in {1, x} : i >= j
    BY <2>1
  <2>4. Max({1, x}) \in {1, x} /\ \A j \in {1, x} : Max({1, x}) >= j
    BY <2>3 DEF Max
  <2>5. k = Max({1, x})
    BY <2>2
  <2> HIDE DEF k
  <2>6. k = 1 \/ k = x
    BY <2>4, <2>5
  <2>7. k >= 1
    BY <2>4, <2>5
  <2>8. QED
    BY <1>1, <2>1, <2>6, <2>7
<1> HIDE DEF S, k
<1>4. /\ q \in Seq(Int) /\ Len(q) = l + n - k + 1 /\ DOMAIN q = 1 .. l + n - k + 1
      /\ \A i \in 1 .. l + n - k + 1 : q[i] = all[k + i - 1]
  <2> DEFINE m == Len(all)
  <2>1. m = l + n /\ m \in Nat
    BY <1>1
  <2>2. all \in Seq(Int) /\ DOMAIN all = 1 .. m
    BY <1>1
  <2> HIDE DEF m
  <2>3. k \in Int /\ m \in Int /\ \A i \in k .. m : all[i] \in Int
    BY <1>3, <2>1, <2>2 DEF m
  <2>4. /\ SubSeq(all, k, m) \in Seq(Int)
        /\ Len(SubSeq(all, k, m)) = IF k <= m THEN m - k + 1 ELSE 0
        /\ \A i \in 1 .. m - k + 1 : SubSeq(all, k, m)[i] = all[k + i - 1]
    BY <2>3, SubSeqProperties
  <2>5. q = SubSeq(all, k, m)
    BY DEF m
  <2> HIDE DEF q
  <2>6. Len(q) = m - k + 1
    BY <1>3, <2>1, <2>4, <2>5
  <2>7. q \in Seq(Int) /\ DOMAIN q = 1 .. Len(q)
    BY <2>4, <2>5
  <2>8. m - k + 1 = l + n - k + 1
    <3>1. l \in Int /\ k \in Int /\ m = l + n
      BY <1>1, <1>3, <2>1
    <3>2. QED
      BY <3>1
  <2>9. /\ Len(q) = l + n - k + 1 /\ DOMAIN q = 1 .. l + n - k + 1
        /\ \A i \in 1 .. l + n - k + 1 : q[i] = all[k + i - 1]
    BY <2>4, <2>5, <2>6, <2>7, <2>8
  <2>10. QED
    BY <2>7, <2>9
<1> HIDE DEF q
<1>5. \A i \in DOMAIN q : q[i] = (e + n) - Len(q) + i
  <2> TAKE i \in DOMAIN q
  <2>1. i \in 1 .. l + n - k + 1 /\ k + i - 1 \in 1 .. l + n
    <3>1. l \in Int /\ k \in Int /\ k >= 1
      BY <1>1, <1>3
    <3>2. i \in 1 .. l + n - k + 1
      BY <1>4
    <3>3. QED
      BY <3>1, <3>2
  <2>2. q[i] = e - l + (k + i - 1)
    BY <1>2, <1>4, <2>1
  <2>3. QED
    <3>1. Len(q) = l + n - k + 1 /\ l \in Int /\ k \in Int /\ i \in Int
      BY <1>1, <1>3, <1>4, <2>1
    <3>2. QED
      BY <2>2, <3>1
<1>6. e - l <= (e + n) - Len(q)
  <2>1. Len(q) = l + n - k + 1 /\ l \in Int /\ k \in Int /\ k >= 1
    BY <1>1, <1>3, <1>4
  <2>2. QED
    BY <2>1
<1>7. Enqueue(w, new) = q
  BY DEF Enqueue, q, k, S, all
<1>8. QED
  BY <1>4, <1>5, <1>6, <1>7 DEF l

GatewayTypes ==
    /\ history \in [Conversation -> Seq(Turns)] /\ turns \in Nat
    /\ emitted \in Seq(Conversation \X Nat) /\ waiting \in Seq(Int) /\ streamed \in Seq(Int)

GatewayInv == GatewayTypes /\ ConversationsAreCaptured

LEMMA CapturedIs ==
    /\ EachTurnIsCapturedOnce <=> \A c \in Conversation : Captured(c, history[c], emitted, redone)
    /\ EachTurnIsCapturedOnce' <=> \A c \in Conversation : Captured(c, history'[c], emitted', redone')
<1>1. \A c : Said(c) = SaidIn(c, history[c]) /\ EmittedOf(c) = EmittedIn(c, emitted)
  BY DEF Said, SaidIn, AsEvents, Answered, LastAnswer, Answers, EmittedOf, EmittedIn
<1>2. \A c : Said(c)' = SaidIn(c, history'[c]) /\ EmittedOf(c)' = EmittedIn(c, emitted')
  BY DEF Said, SaidIn, AsEvents, Answered, LastAnswer, Answers, EmittedOf, EmittedIn
<1>3. EachTurnIsCapturedOnce <=> \A c \in Conversation : Captured(c, history[c], emitted, redone)
  BY <1>1 DEF EachTurnIsCapturedOnce, Captured
<1>4. EachTurnIsCapturedOnce' <=> \A c \in Conversation : Captured(c, history'[c], emitted', redone')
  BY <1>2 DEF EachTurnIsCapturedOnce, Captured
<1>5. QED
  BY <1>3, <1>4

\* What anyone but the model says is not captured before the model has answered.
LEMMA SpeakStep ==
    ASSUME GatewayInv, NEW c \in Conversation, NEW t \in Turns, t.role # "assistant", Speak(c, t),
           UNCHANGED <<emitted, waiting, streamed, redone>>
    PROVE  GatewayInv'
<1>1. GatewayTypes /\ EachTurnIsCapturedOnce /\ OverloadDropsTheOldest
  BY DEF GatewayInv, ConversationsAreCaptured
<1> DEFINE h == history[c]
           g == Append(h, t)
<1>2. h \in Seq(Turns) /\ g \in Seq(Turns)
  BY <1>1 DEF GatewayTypes
<1>3. history' = [history EXCEPT ![c] = g] /\ turns' = turns + 1
  BY DEF Speak
<1>4. Answered(g) = Answered(h)
  BY <1>2, SpokenOn
<1> HIDE DEF g
<1>5. history'[c] = g /\ \A d \in Conversation : d # c => history'[d] = history[d]
  BY <1>1, <1>3 DEF GatewayTypes
<1>6. GatewayTypes'
  BY <1>1, <1>2, <1>3 DEF GatewayTypes
<1>7. ASSUME NEW d \in Conversation
      PROVE  Captured(d, history'[d], emitted', redone')
  <2>1. SaidIn(d, history'[d]) = SaidIn(d, history[d])
    BY <1>4, <1>5 DEF SaidIn
  <2>2. Captured(d, history[d], emitted, redone)
    BY <1>1, CapturedIs
  <2>3. QED
    BY <2>1, <2>2 DEF Captured
<1>8. OverloadDropsTheOldest'
  BY <1>1 DEF OverloadDropsTheOldest
<1>9. QED
  BY <1>6, <1>7, <1>8, CapturedIs DEF GatewayInv, ConversationsAreCaptured

\* An answer makes events of what the conversation has said since the last one, and of
\* nothing else.
LEMMA AnswerStep ==
    ASSUME GatewayInv, NEW c \in Conversation, NEW text \in BOOLEAN, NEW call \in BOOLEAN,
           Complete(c, text, call)
    PROVE  GatewayInv'
<1>1. GatewayTypes /\ EachTurnIsCapturedOnce /\ OverloadDropsTheOldest
  BY DEF GatewayInv, ConversationsAreCaptured
<1> DEFINE h == history[c]
           t == Turn("assistant", text, call)
           g == Append(h, t)
           late == TrailingTurns(h) \o <<t>>
           events == CompletionEvents(h, t)
           row == AsEvents(c, events)
           new == [i \in DOMAIN events |-> Len(emitted) + i]
<1>2. h \in Seq(Turns) /\ turns \in Nat
  BY <1>1 DEF GatewayTypes
<1>3. t \in Turns /\ t.role = "assistant"
  BY <1>2 DEF Turn, Turns, Roles
<1>4. /\ history' = [history EXCEPT ![c] = g] /\ turns' = turns + 1
      /\ emitted' = emitted \o row /\ waiting' = Enqueue(waiting, new)
      /\ streamed' = streamed /\ redone' = redone
  BY DEF Complete, Speak, AsEvents
<1> HIDE DEF h, t
<1>5. Answered(g) = Answered(h) \o late /\ Answered(h) \in Seq(Turns) /\ TrailingTurns(h) \in Seq(Turns)
  BY <1>2, <1>3, AnsweredNow
<1>6. late \in Seq(Turns) /\ g \in Seq(Turns)
  BY <1>2, <1>3, <1>5
<1>7. events = Among(late, EventTurns)
  BY DEF CompletionEvents
<1> HIDE DEF late, g, events
<1>8. events \in Seq(Turns) /\ Among(Answered(h), EventTurns) \in Seq(Turns)
  BY <1>5, <1>6, <1>7, AmongHolds
<1>9. Among(Answered(g), EventTurns) = Among(Answered(h), EventTurns) \o events
  <2> DEFINE u == Answered(h)
  <2>1. u \in Seq(Turns) /\ late \in Seq(Turns) /\ Answered(g) = u \o late
    BY <1>5, <1>6
  <2> HIDE DEF u
  <2>2. Among(u \o late, EventTurns) = Among(u, EventTurns) \o Among(late, EventTurns)
    BY <2>1, AmongBoth
  <2>3. QED
    BY <1>7, <2>1, <2>2 DEF u
<1>10. SaidIn(c, g) = SaidIn(c, h) \o row
  <2> DEFINE u == Among(Answered(h), EventTurns)
  <2>1. u \in Seq(Turns) /\ Among(Answered(g), EventTurns) = u \o events
    BY <1>8, <1>9
  <2>2. AsEvents(c, u \o events) = AsEvents(c, u) \o row
    <3> HIDE DEF u
    <3>1. QED
      BY <1>8, <2>1, EventsOfTurns
  <2>3. QED
    BY <2>1, <2>2 DEF SaidIn
<1>11. row \in Seq({c} \X Nat)
  BY <1>8, EventsOfTurns
<1> HIDE DEF row
<1>12. row \in Seq(Conversation \X Nat) /\ emitted \in Seq(Conversation \X Nat)
  BY <1>1, <1>11, EventsApart DEF GatewayTypes
<1>13. emitted' \in Seq(Conversation \X Nat) /\ Len(emitted') = Len(emitted) + Len(row)
  BY <1>4, <1>12, ConcatProperties
<1>14. ASSUME NEW d \in Conversation
       PROVE  EmittedIn(d, emitted') = EmittedIn(d, emitted) \o (IF c = d THEN row ELSE <<>>)
  <2>1. Among(emitted \o row, {d} \X Nat) = Among(emitted, {d} \X Nat) \o Among(row, {d} \X Nat)
    BY <1>12, AmongBoth
  <2>2. Among(row, {d} \X Nat) = IF c = d THEN row ELSE <<>>
    BY <1>11, EventsApart
  <2>3. QED
    BY <1>4, <2>1, <2>2 DEF EmittedIn
<1>15. history'[c] = g /\ \A d \in Conversation : d # c => history'[d] = history[d]
  BY <1>1, <1>4 DEF GatewayTypes
<1>16. \A d \in Conversation : EmittedIn(d, emitted) \in Seq(Conversation \X Nat)
  BY <1>12, AmongHolds DEF EmittedIn
<1>17. ASSUME NEW d \in Conversation
       PROVE  Captured(d, history'[d], emitted', redone')
  <2>1. Captured(d, history[d], emitted, redone)
    BY <1>1, CapturedIs
  <2> DEFINE a == EmittedIn(d, emitted)
             P == Conversation \X Nat
  <2>2. a \in Seq(P)
    BY <1>16
  <2>3. CASE d # c
    <3>1. EmittedIn(d, emitted') = a \o <<>> /\ history'[d] = history[d]
      BY <1>14, <1>15, <2>3
    <3> HIDE DEF P
    <3>2. a \o <<>> = a
      <4> HIDE DEF a
      <4>1. QED
        BY <2>2
    <3>3. EmittedIn(d, emitted') = EmittedIn(d, emitted)
      BY <3>1, <3>2
    <3>4. QED
      BY <1>4, <2>1, <3>1, <3>3 DEF Captured
  <2>4. CASE d = c
    <3> DEFINE s == SaidIn(c, h)
    <3>1. EmittedIn(d, emitted') = a \o row /\ SaidIn(d, history'[d]) = s \o row
      BY <1>10, <1>14, <1>15, <2>4
    <3>2. CASE d \in redone
      <4>1. ToSet(s) \subseteq ToSet(a)
        BY <2>1, <2>4, <3>2 DEF Captured, h
      <4>2. s \in Seq(P)
        <5>1. s \in Seq({c} \X Nat)
          BY <1>8, EventsOfTurns DEF SaidIn
        <5>2. QED
          BY <5>1, EventsApart
      <4>3. row \in Seq(P)
        BY <1>12
      <4> HIDE DEF a, s, P
      <4>4. ToSet(a \o row) = ToSet(a) \cup ToSet(row) /\ ToSet(s \o row) = ToSet(s) \cup ToSet(row)
        BY <2>2, <4>2, <4>3, HoldsOf
      <4>5. ToSet(s \o row) \subseteq ToSet(a \o row)
        BY <4>1, <4>4
      <4>6. QED
        BY <1>4, <3>1, <3>2, <4>5 DEF Captured
    <3>3. CASE d \notin redone
      <4>1. a = s
        BY <2>1, <2>4, <3>3 DEF Captured, h
      <4>2. QED
        BY <1>4, <3>1, <3>3, <4>1 DEF Captured
    <3>4. QED
      BY <3>2, <3>3
  <2>5. QED
    BY <2>3, <2>4
<1>18. Len(row) = Len(events) /\ Len(events) \in Nat /\ DOMAIN events = 1 .. Len(events)
  <2>1. DOMAIN row = DOMAIN events
    BY DEF row, AsEvents
  <2>2. QED
    BY <1>8, <1>11, <2>1
<1> DEFINE n == Len(events)
           E == Len(emitted)
<1>19. new \in Seq(Int) /\ Len(new) = n /\ \A i \in 1 .. n : new[i] = E + i
  <2>1. new = [i \in 1 .. n |-> E + i] /\ n \in Nat /\ E \in Nat
    BY <1>12, <1>18
  <2> HIDE DEF n, E, new
  <2>2. QED
    BY <2>1
<1>20. /\ waiting \in Seq(Int) /\ E \in Nat /\ n \in Nat
       /\ \A i \in DOMAIN waiting : waiting[i] = E - Len(waiting) + i
  BY <1>1, <1>12, <1>18 DEF GatewayTypes, OverloadDropsTheOldest
<1>21. /\ waiting' \in Seq(Int)
       /\ \A i \in DOMAIN waiting' : waiting'[i] = Len(emitted') - Len(waiting') + i
       /\ E - Len(waiting) <= Len(emitted') - Len(waiting')
  <2>1. Len(emitted') = E + n
    BY <1>13, <1>18
  <2> HIDE DEF n, E, new
  <2>2. /\ Enqueue(waiting, new) \in Seq(Int)
        /\ \A i \in DOMAIN Enqueue(waiting, new) :
             Enqueue(waiting, new)[i] = (E + n) - Len(Enqueue(waiting, new)) + i
        /\ E - Len(waiting) <= (E + n) - Len(Enqueue(waiting, new))
    <3>1. waiting \in Seq(Int) /\ E \in Nat /\ n \in Nat /\ new \in Seq(Int) /\ Len(new) = n
      BY <1>19, <1>20
    <3>2. \A i \in DOMAIN waiting : waiting[i] = E - Len(waiting) + i
      BY <1>20
    <3>3. \A i \in 1 .. n : new[i] = E + i
      BY <1>19
    <3>4. QED
      BY <3>1, <3>2, <3>3, QueueKeepsNewest
  <2>3. QED
    BY <1>4, <2>1, <2>2
<1>22. OverloadDropsTheOldest'
  <2>1. /\ \A i \in DOMAIN streamed : streamed[i] <= E - Len(waiting) /\ streamed[i] \in Int
        /\ \A i \in DOMAIN streamed : i > 1 => streamed[i - 1] < streamed[i]
    BY <1>1 DEF GatewayTypes, OverloadDropsTheOldest
  <2>2. Len(waiting) \in Int /\ Len(waiting') \in Int /\ Len(emitted') \in Int /\ E \in Int
    BY <1>13, <1>20, <1>21
  <2> HIDE DEF E
  <2>3. \A i \in DOMAIN streamed : streamed[i] <= Len(emitted') - Len(waiting')
    BY <1>21, <2>1, <2>2
  <2>4. QED
    BY <1>4, <1>21, <2>1, <2>3 DEF OverloadDropsTheOldest
<1>23. GatewayTypes'
  <2>1. history' \in [Conversation -> Seq(Turns)]
    BY <1>1, <1>4, <1>6 DEF GatewayTypes
  <2>2. turns' \in Nat /\ streamed' \in Seq(Int)
    BY <1>1, <1>4 DEF GatewayTypes
  <2>3. QED
    BY <1>13, <1>21, <2>1, <2>2 DEF GatewayTypes
<1>24. QED
  BY <1>17, <1>22, <1>23, CapturedIs DEF GatewayInv, ConversationsAreCaptured

\* An answer that is discarded has been captured: it stays so, and is captured again.
LEMMA DiscardStep ==
    ASSUME GatewayInv, NEW c \in Conversation, Discard(c)
    PROVE  GatewayInv'
<1>1. GatewayTypes /\ EachTurnIsCapturedOnce /\ OverloadDropsTheOldest
  BY DEF GatewayInv, ConversationsAreCaptured
<1> DEFINE h == history[c]
           g == Front(h)
<1>2. h \in Seq(Turns) /\ h # <<>>
  BY <1>1 DEF GatewayTypes, Discard, LastRole
<1>3. /\ history' = [history EXCEPT ![c] = g] /\ redone' = redone \cup {c}
      /\ emitted' = emitted /\ waiting' = waiting /\ streamed' = streamed /\ turns' = turns
  BY DEF Discard
<1>4. /\ g \in Seq(Turns) /\ ToSet(Answered(g)) \subseteq ToSet(Answered(h))
      /\ Answered(g) \in Seq(Turns) /\ Answered(h) \in Seq(Turns)
  BY <1>2, AnswerGone
<1> HIDE DEF g, h
<1>5. ToSet(SaidIn(c, g)) \subseteq ToSet(SaidIn(c, h))
  <2> DEFINE a == Among(Answered(g), EventTurns)
             b == Among(Answered(h), EventTurns)
  <2>1. a \in Seq(Turns) /\ b \in Seq(Turns)
    BY <1>4, AmongHolds
  <2>2. /\ \A x : x \in ToSet(a) <=> x \in ToSet(Answered(g)) /\ x \in EventTurns
        /\ \A x : x \in ToSet(b) <=> x \in ToSet(Answered(h)) /\ x \in EventTurns
    BY <1>4, AmongHolds
  <2> HIDE DEF a, b
  <2>3. ToSet(a) \subseteq ToSet(b)
    BY <1>4, <2>2
  <2>4. ToSet(AsEvents(c, a)) \subseteq ToSet(AsEvents(c, b))
    BY <2>1, <2>3, EventsOfTurns
  <2>5. QED
    BY <2>4 DEF SaidIn, a, b
<1>6. history'[c] = g /\ \A d \in Conversation : d # c => history'[d] = history[d]
  BY <1>1, <1>3 DEF GatewayTypes
<1>7. ASSUME NEW d \in Conversation
      PROVE  Captured(d, history'[d], emitted', redone')
  <2>1. Captured(d, history[d], emitted, redone)
    BY <1>1, CapturedIs
  <2>2. CASE d = c
    <3>1. ToSet(SaidIn(c, h)) \subseteq ToSet(EmittedIn(c, emitted))
      BY <2>1, <2>2 DEF Captured, h
    <3>2. ToSet(SaidIn(d, history'[d])) \subseteq ToSet(EmittedIn(d, emitted'))
      BY <1>3, <1>5, <1>6, <2>2, <3>1
    <3>3. d \in redone'
      BY <1>3, <2>2
    <3>4. QED
      BY <3>2, <3>3 DEF Captured
  <2>3. CASE d # c
    <3>1. history'[d] = history[d] /\ (d \in redone' <=> d \in redone)
      BY <1>3, <1>6, <2>3
    <3>2. QED
      BY <1>3, <2>1, <3>1 DEF Captured
  <2>4. QED
    BY <2>2, <2>3
<1>8. OverloadDropsTheOldest'
  BY <1>1, <1>3 DEF OverloadDropsTheOldest
<1>9. GatewayTypes'
  BY <1>1, <1>3, <1>4 DEF GatewayTypes
<1>10. QED
  BY <1>7, <1>8, <1>9, CapturedIs DEF GatewayInv, ConversationsAreCaptured

LEMMA StreamedStep ==
    ASSUME GatewayInv, Stream
    PROVE  GatewayInv'
<1>1. GatewayTypes /\ EachTurnIsCapturedOnce /\ OverloadDropsTheOldest
  BY DEF GatewayInv, ConversationsAreCaptured
<1>2. /\ waiting # <<>> /\ streamed' = Append(streamed, Head(waiting)) /\ waiting' = Tail(waiting)
      /\ history' = history /\ emitted' = emitted /\ turns' = turns /\ redone' = redone
  BY DEF Stream
<1> DEFINE w == waiting
           s == streamed
           E == Len(emitted)
           l == Len(waiting)
<1>3. /\ w \in Seq(Int) /\ s \in Seq(Int) /\ E \in Nat /\ l \in Nat /\ l >= 1
      /\ DOMAIN w = 1 .. l /\ DOMAIN s = 1 .. Len(s) /\ Len(s) \in Nat
  BY <1>1, <1>2 DEF GatewayTypes
<1>4. /\ Tail(w) \in Seq(Int) /\ Len(Tail(w)) = l - 1 /\ DOMAIN Tail(w) = 1 .. l - 1
      /\ \A i \in 1 .. l - 1 : Tail(w)[i] = w[i + 1]
      /\ Head(w) = w[1] /\ w[1] \in Int
  BY <1>2, <1>3
<1>5. /\ \A i \in 1 .. l : w[i] = E - l + i
      /\ \A i \in 1 .. Len(s) : s[i] <= E - l /\ s[i] \in Int
      /\ \A i \in 1 .. Len(s) : i > 1 => s[i - 1] < s[i]
  <2>1. \A i \in 1 .. Len(s) : s[i] \in Int
    BY <1>3
  <2>2. /\ \A i \in DOMAIN waiting : waiting[i] = Len(emitted) - Len(waiting) + i
        /\ \A i \in DOMAIN streamed : streamed[i] <= Len(emitted) - Len(waiting)
        /\ \A i \in DOMAIN streamed : i > 1 => streamed[i - 1] < streamed[i]
    BY <1>1 DEF OverloadDropsTheOldest
  <2> HIDE DEF E, l
  <2>3. QED
    BY <1>3, <2>1, <2>2 DEF E, l
<1> DEFINE m == Len(s)
           x == Head(w)
           z == Append(s, x)
<1>6. x = E - l + 1 /\ x \in Int
  BY <1>3, <1>4, <1>5
<1> HIDE DEF w, E, l, x
<1>7. /\ z \in Seq(Int) /\ DOMAIN z = 1 .. m + 1 /\ z[m + 1] = x
      /\ \A i \in 1 .. m : z[i] = s[i]
  BY <1>3, <1>6
<1>8. m \in Nat
  BY <1>3
<1> HIDE DEF s, m, z
<1>9. \A i \in DOMAIN z : z[i] <= E - (l - 1) /\ (i > 1 => z[i - 1] < z[i])
  <2> TAKE i \in DOMAIN z
  <2>1. CASE i = m + 1
    <3>1. z[i] = E - l + 1
      BY <1>6, <1>7, <2>1
    <3>2. ASSUME i > 1 PROVE z[i - 1] < z[i]
      <4>1. m \in 1 .. m /\ i - 1 = m
        BY <1>8, <2>1, <3>2
      <4>2. z[i - 1] = s[m] /\ s[m] <= E - l /\ s[m] \in Int
        BY <1>5, <1>7, <4>1 DEF m
      <4>3. QED
        BY <1>3, <3>1, <4>2
    <3>3. QED
      BY <1>3, <3>1, <3>2
  <2>2. CASE i # m + 1
    <3>1. i \in 1 .. m /\ z[i] = s[i]
      BY <1>7, <1>8, <2>2
    <3>2. s[i] <= E - l /\ s[i] \in Int
      BY <1>5, <3>1 DEF m
    <3>3. ASSUME i > 1 PROVE z[i - 1] < z[i]
      <4>1. i - 1 \in 1 .. m
        BY <1>8, <3>1, <3>3
      <4>2. s[i - 1] < s[i] /\ z[i - 1] = s[i - 1]
        BY <1>5, <1>7, <3>1, <3>3, <4>1 DEF m
      <4>3. QED
        BY <3>1, <4>2
    <3>4. QED
      BY <1>3, <3>1, <3>2, <3>3
  <2>3. QED
    BY <2>1, <2>2
<1>10. \A i \in DOMAIN Tail(w) : Tail(w)[i] = E - (l - 1) + i
  <2> TAKE i \in DOMAIN Tail(w)
  <2>1. i \in 1 .. l - 1 /\ i + 1 \in 1 .. l
    BY <1>3, <1>4
  <2>2. Tail(w)[i] = E - l + (i + 1)
    BY <1>4, <1>5, <2>1
  <2>3. QED
    BY <1>3, <2>1, <2>2
<1>11. streamed' = z /\ waiting' = Tail(w) /\ Len(emitted') = E /\ Len(waiting') = l - 1
  BY <1>2, <1>4 DEF z, s, x, w, E
<1>12. OverloadDropsTheOldest'
  BY <1>9, <1>10, <1>11 DEF OverloadDropsTheOldest
<1>13. GatewayTypes'
  BY <1>1, <1>2, <1>4, <1>7, <1>11 DEF GatewayTypes
<1>14. EachTurnIsCapturedOnce'
  BY <1>1, <1>2, CapturedIs
<1>15. QED
  BY <1>12, <1>13, <1>14 DEF GatewayInv, ConversationsAreCaptured

LEMMA GatewayKept ==
    ASSUME GatewayInv, [GatewayNext]_gatewayVars
    PROVE  GatewayInv'
<1>1. GatewayTypes /\ turns \in Nat
  BY DEF GatewayInv, GatewayTypes
<1>2. /\ Turn("user", TRUE, FALSE) \in Turns /\ Turn("user", TRUE, FALSE).role # "assistant"
      /\ Turn("system", TRUE, FALSE) \in Turns /\ Turn("system", TRUE, FALSE).role # "assistant"
      /\ Turn("tool", TRUE, FALSE) \in Turns /\ Turn("tool", TRUE, FALSE).role # "assistant"
  BY <1>1 DEF Turn, Turns, Roles
<1>3. CASE UNCHANGED gatewayVars
  <2>1. /\ history' = history /\ emitted' = emitted /\ waiting' = waiting /\ streamed' = streamed
        /\ turns' = turns /\ redone' = redone
    BY <1>3 DEF gatewayVars
  <2>2. EachTurnIsCapturedOnce'
    BY <2>1, CapturedIs DEF GatewayInv, ConversationsAreCaptured
  <2>3. OverloadDropsTheOldest'
    BY <2>1 DEF GatewayInv, ConversationsAreCaptured, OverloadDropsTheOldest
  <2>4. GatewayTypes'
    BY <1>1, <2>1 DEF GatewayTypes
  <2>5. QED
    BY <2>2, <2>3, <2>4 DEF GatewayInv, ConversationsAreCaptured
<1>4. ASSUME NEW c \in Conversation, Say(c) \/ Instruct(c) \/ ReturnFromTool(c)
      PROVE  GatewayInv'
  <2>1. CASE Say(c)
    BY <1>2, <2>1, SpeakStep DEF Say
  <2>2. CASE Instruct(c)
    BY <1>2, <2>2, SpeakStep DEF Instruct
  <2>3. CASE ReturnFromTool(c)
    BY <1>2, <2>3, SpeakStep DEF ReturnFromTool
  <2>4. QED
    BY <1>4, <2>1, <2>2, <2>3
<1>5. QED
  BY <1>3, <1>4, AnswerStep, DiscardStep, StreamedStep DEF GatewayNext

\* The gateway's promise, for all conversations, queue sizes and numbers of turns: through
\* tool loops, failed completions and questions asked twice the events of a conversation
\* are what was said in it, each turn once and in order (an answer that was discarded costs
\* repetitions only), and under overload the oldest events go (events_from_completion and
\* _enqueue in src/mnemozine/ingestion/gateway/callback.py).
THEOREM TurnsCaptured == GatewaySpec => []ConversationsAreCaptured
<1>1. GatewayInit => GatewayInv
  <2> SUFFICES ASSUME GatewayInit PROVE GatewayInv
    OBVIOUS
  <2> DEFINE none == <<>>
  <2>1. /\ none \in Seq(Turns) /\ none \in Seq(Int) /\ none \in Seq(Conversation \X Nat)
        /\ DOMAIN none = {}
    OBVIOUS
  <2>2. /\ history = [c \in Conversation |-> none] /\ emitted = none /\ waiting = none
        /\ streamed = none /\ turns = 0 /\ redone = {}
    BY DEF GatewayInit
  <2>3. Answered(none) = none
    <3>1. LastAnswer(none) \in 0 .. Len(none) /\ Len(none) = 0
      BY <2>1, LastAnswerIs
    <3>2. LastAnswer(none) = 0
      BY <3>1
    <3>3. QED
      BY <3>2 DEF Answered
  <2> HIDE DEF none
  <2>4. GatewayTypes
    BY <2>1, <2>2 DEF GatewayTypes
  <2>5. OverloadDropsTheOldest
    BY <2>1, <2>2 DEF OverloadDropsTheOldest
  <2>6. ASSUME NEW c \in Conversation
        PROVE  Captured(c, history[c], emitted, redone)
    <3>1. ToSet(none) = {}
      BY <2>1 DEF ToSet
    <3>2. Among(none, {c} \X Nat) = none
      BY <2>1, <3>1, AmongHolds
    <3>3. Among(Answered(none), EventTurns) = none
      BY <2>1, <2>3, <3>1, AmongHolds
    <3>4. AsEvents(c, none) = none
      BY DEF AsEvents, none
    <3>5. QED
      BY <2>2, <3>2, <3>3, <3>4 DEF Captured, SaidIn, EmittedIn
  <2>7. QED
    BY <2>4, <2>5, <2>6, CapturedIs DEF GatewayInv, ConversationsAreCaptured
<1>2. GatewayInv /\ [GatewayNext]_gatewayVars => GatewayInv'
  BY GatewayKept
<1>3. GatewayInv => ConversationsAreCaptured
  BY DEF GatewayInv
<1>4. QED
  BY <1>1, <1>2, <1>3, PTL DEF GatewaySpec

=============================================================================
