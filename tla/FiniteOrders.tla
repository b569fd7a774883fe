---------------------------- MODULE FiniteOrders ----------------------------
(***************************************************************************)
(* Least and last members of finite sets and the first k, induction over   *)
(* the naturals said of a set (the provers cannot be given a predicate),   *)
(* and the functions that recursive definitions stand for.                 *)
(***************************************************************************)
EXTENDS Integers, FiniteSets, FiniteSetTheorems, WellFoundedInduction, TLAPS

\* A finite set that is not empty has a member of the lowest rank: the one that
\* the fewest others undercut.
LEMMA LowestExists ==
    ASSUME NEW S, IsFiniteSet(S), S # {}, NEW rank, \A i \in S : rank[i] \in Int
    PROVE  \E i \in S : \A j \in S : rank[i] <= rank[j]
<1> DEFINE Below(i) == {j \in S : rank[j] < rank[i]}
           F == {Below(i) : i \in S}
<1>1. F \subseteq FiniteSubsetsOf(S) /\ F # {}
  <2>1. FiniteSubsetsOf(S) = SUBSET S
    BY FS_FiniteSubsetsOfFinite
  <2>2. \A i \in S : Below(i) \subseteq S
    OBVIOUS
  <2>3. F # {}
    <3>1. PICK i \in S : TRUE
      OBVIOUS
    <3>2. Below(i) \in F
      OBVIOUS
    <3>3. QED
      BY <3>2
  <2>4. F \subseteq SUBSET S
    BY <2>2
  <2>5. QED
    BY <2>1, <2>3, <2>4
<1>2. IsWellFoundedOn(StrictSubsetOrdering(S), FiniteSubsetsOf(S))
  BY FS_StrictSubsetOrderingWellFounded
<1>3. PICK x \in F : \A y \in F : <<y, x>> \notin StrictSubsetOrdering(S)
  BY <1>1, <1>2, WFMin
<1>4. PICK i \in S : x = Below(i)
  OBVIOUS
<1>5. ASSUME NEW j \in S, ~(rank[i] <= rank[j])
      PROVE  FALSE
  <2>1. rank[j] < rank[i]
    BY <1>5
  <2>2. Below(j) \subseteq Below(i) /\ j \in Below(i) /\ j \notin Below(j)
    BY <2>1
  <2>3. <<Below(j), Below(i)>> \in StrictSubsetOrdering(S)
    BY <2>2 DEF StrictSubsetOrdering
  <2>4. QED
    BY <1>3, <1>4, <2>3
<1>6. QED
  BY <1>5

\* It has one of the highest, too.
LEMMA FarthestExists ==
    ASSUME NEW S, IsFiniteSet(S), S # {}, NEW rank, \A i \in S : rank[i] \in Int
    PROVE  \E i \in S : \A j \in S : rank[j] <= rank[i]
<1> DEFINE neg == [i \in S |-> 0 - rank[i]]
<1>1. \A i \in S : neg[i] \in Int /\ neg[i] = 0 - rank[i]
  OBVIOUS
<1> HIDE DEF neg
<1>2. PICK i \in S : \A j \in S : neg[i] <= neg[j]
  BY <1>1, LowestExists
<1>3. \A j \in S : rank[j] <= rank[i]
  BY <1>1, <1>2
<1>4. QED
  BY <1>3

\* What holds at 0 and goes on from each number to the next holds of all of them,
\* said of the set of the numbers it holds of.
LEMMA CountingUp ==
    ASSUME NEW T, 0 \in T, \A n \in Nat : n \in T => n + 1 \in T
    PROVE  Nat \subseteq T
<1>1. SUFFICES ASSUME NEW m \in Nat, m \notin T
               PROVE  FALSE
  OBVIOUS
<1> DEFINE S == {n \in 0..m : n \notin T}
           id == [n \in S |-> n]
<1>2. IsFiniteSet(S) /\ S # {}
  <2>1. IsFiniteSet(0..m) /\ S \subseteq 0..m
    BY FS_Interval
  <2>2. m \in S
    BY <1>1
  <2> HIDE DEF S
  <2>3. QED
    BY <2>1, <2>2, FS_Subset
<1>3. \A n \in S : n \in Int /\ id[n] \in Int /\ id[n] = n
  OBVIOUS
<1>4. PICK n \in S : \A k \in S : id[n] <= id[k]
  <2> HIDE DEF S, id
  <2>1. QED
    BY <1>2, <1>3, LowestExists
<1>5. \A k \in S : n <= k
  BY <1>3, <1>4
<1>6. n \in 0..m /\ n # 0
  OBVIOUS
<1>7. n - 1 \in Nat /\ n - 1 \notin S /\ n - 1 \in 0..m
  BY <1>5, <1>6
<1>8. n - 1 \in T
  BY <1>7
<1>9. n \in T
  BY <1>6, <1>7, <1>8
<1>10. QED
  BY <1>9

\* A strict order of a finite set has a last member.
LEMMA EndExists ==
    ASSUME NEW S, IsFiniteSet(S), S # {}, NEW R,
           \A c, d, e \in S : <<c, d>> \in R /\ <<d, e>> \in R => <<c, e>> \in R,
           \A c \in S : <<c, c>> \notin R
    PROVE  \E c \in S : \A d \in S : <<c, d>> \notin R
<1> DEFINE After(c) == {d \in S : <<c, d>> \in R}
           F == {After(c) : c \in S}
<1>1. F \subseteq FiniteSubsetsOf(S) /\ F # {}
  <2>1. FiniteSubsetsOf(S) = SUBSET S
    BY FS_FiniteSubsetsOfFinite
  <2>2. \A c \in S : After(c) \subseteq S
    OBVIOUS
  <2>3. PICK c \in S : TRUE
    OBVIOUS
  <2>4. After(c) \in F
    OBVIOUS
  <2>5. \A x \in F : x \in SUBSET S
    <3>1. TAKE x \in F
    <3>2. PICK d \in S : x = After(d)
      OBVIOUS
    <3>3. QED
      BY <2>2, <3>2
  <2> HIDE DEF F
  <2>6. QED
    BY <2>1, <2>4, <2>5
<1>2. IsWellFoundedOn(StrictSubsetOrdering(S), FiniteSubsetsOf(S))
  BY FS_StrictSubsetOrderingWellFounded
<1>3. PICK x \in F : \A y \in F : <<y, x>> \notin StrictSubsetOrdering(S)
  BY <1>1, <1>2, WFMin
<1>4. PICK c \in S : x = After(c)
  OBVIOUS
<1>5. ASSUME NEW d \in S, <<c, d>> \in R
      PROVE  FALSE
  <2>1. After(d) \subseteq After(c)
    BY <1>5
  <2>2. d \in After(c) /\ d \notin After(d)
    BY <1>5
  <2>3. After(c) \subseteq S /\ After(d) \in F
    OBVIOUS
  <2>4. <<After(d), After(c)>> \in StrictSubsetOrdering(S)
    BY <2>1, <2>2, <2>3 DEF StrictSubsetOrdering
  <2>5. QED
    BY <1>3, <1>4, <2>3, <2>4
<1>6. QED
  BY <1>5

\* R orders the members of S one after the other.
Ranks(R, S) ==
    /\ \A c, d, e \in S : <<c, d>> \in R /\ <<d, e>> \in R => <<c, e>> \in R
    /\ \A c \in S : <<c, c>> \notin R
    /\ \A c, d \in S : c # d => <<c, d>> \in R \/ <<d, c>> \in R

\* The first k of S are those with fewer than k before them.
Firsts(S, R, k) == {i \in S : Cardinality({j \in S : <<j, i>> \in R}) < k}

\* They are k members, or all members when there are no more than k.
LEMMA FirstsCount ==
    ASSUME NEW S, IsFiniteSet(S), NEW k \in Nat, NEW R, Ranks(R, S)
    PROVE  /\ Firsts(S, R, k) \subseteq S
           /\ Cardinality(Firsts(S, R, k)) \in Nat
           /\ Cardinality(Firsts(S, R, k)) <= k
           /\ Firsts(S, R, k) = S \/ Cardinality(Firsts(S, R, k)) = k
<1> DEFINE Below(i) == {j \in S : <<j, i>> \in R}
           N == {i \in S : Cardinality(Below(i)) < k}
<1>1. Firsts(S, R, k) = N
  BY DEF Firsts
<1>2. \A i \in S : Below(i) \subseteq S /\ IsFiniteSet(Below(i)) /\ Cardinality(Below(i)) \in Nat
  <2>1. TAKE i \in S
  <2>2. Below(i) \subseteq S
    OBVIOUS
  <2>3. QED
    BY <2>2, FS_Subset, FS_CardinalityType
<1>3. N \subseteq S /\ IsFiniteSet(N) /\ Cardinality(N) \in Nat
  <2>1. N \subseteq S
    OBVIOUS
  <2>2. QED
    BY <2>1, FS_Subset, FS_CardinalityType
<1>4. Cardinality(N) <= k
  <2>1. CASE N = {}
    <3> HIDE DEF N
    <3>1. Cardinality(N) = 0
      BY <2>1, FS_EmptySet
    <3>2. QED
      BY <3>1
  <2>2. CASE N # {}
    <3>1. PICK m \in N : \A j \in N : <<m, j>> \notin R
      <4>1. /\ \A c, d, e \in N : <<c, d>> \in R /\ <<d, e>> \in R => <<c, e>> \in R
            /\ \A c \in N : <<c, c>> \notin R
        BY <1>3 DEF Ranks
      <4> HIDE DEF N
      <4>2. QED
        BY <1>3, <2>2, <4>1, EndExists
    <3>2. N \subseteq Below(m) \cup {m}
      BY <3>1, <1>3 DEF Ranks
    <3>3. m \notin Below(m)
      BY <1>3 DEF Ranks
    <3>4. /\ IsFiniteSet(Below(m) \cup {m})
          /\ Cardinality(Below(m) \cup {m}) = Cardinality(Below(m)) + 1
      BY <3>3, <1>2, <1>3, FS_AddElement
    <3>5. Cardinality(N) <= Cardinality(Below(m) \cup {m})
      BY <3>2, <3>4, FS_Subset
    <3>6. Cardinality(Below(m)) < k /\ Cardinality(Below(m)) \in Nat
      BY <1>2, <1>3
    <3> HIDE DEF N, Below
    <3>7. QED
      BY <3>4, <3>5, <3>6, <1>3
  <2>3. QED
    BY <2>1, <2>2
<1>5. N = S \/ Cardinality(N) = k
  <2>1. SUFFICES ASSUME N # S
                 PROVE  Cardinality(N) >= k
    BY <1>3, <1>4
  <2> DEFINE back == {p \in S \X S : <<p[2], p[1]>> \in R}
             out == S \ N
  <2>2. out # {} /\ IsFiniteSet(out) /\ out \subseteq S
    BY <2>1, <1>3, FS_Subset
  <2>3. PICK i \in out : \A j \in out : <<j, i>> \notin R
    <3>1. \A c, d \in out : <<c, d>> \in back <=> <<d, c>> \in R
      OBVIOUS
    <3>2. /\ \A c, d, e \in out : <<c, d>> \in back /\ <<d, e>> \in back => <<c, e>> \in back
          /\ \A c \in out : <<c, c>> \notin back
      BY <2>2, <3>1 DEF Ranks
    <3> HIDE DEF out, back
    <3>3. PICK i \in out : \A j \in out : <<i, j>> \notin back
      BY <2>2, <3>2, EndExists
    <3>4. QED
      BY <3>1, <3>3
  <2>4. Below(i) \subseteq N
    BY <2>3
  <2>5. ~ (Cardinality(Below(i)) < k)
    BY <2>3
  <2>6. Cardinality(Below(i)) <= Cardinality(N)
    BY <2>4, <1>3, FS_Subset
  <2> HIDE DEF N, Below
  <2>7. QED
    BY <2>2, <2>3, <2>5, <2>6, <1>2, <1>3
<1>6. QED
  BY <1>1, <1>3, <1>4, <1>5

\* g takes the members of X to members of X, at each of N steps.
StaysIn(X, N, g) == \A n \in 1..N : \A x \in X : g[<<n, x>>] \in X

\* f is what comes of base at each of the N steps.
Follows(f, X, base, N, g) ==
    f \in [0..N -> X] /\ f[0] = base /\ \A n \in 1..N : f[n] = g[<<n, f[n - 1]>>]

\* A value can be carried through any number of steps, each a function of the value
\* before it: this is the function that such a recursive definition chooses.
LEMMA Iterated ==
    ASSUME NEW X, NEW base \in X, NEW N \in Nat, NEW g, StaysIn(X, N, g)
    PROVE  \E f : Follows(f, X, base, N, g)
<1> DEFINE T == {m \in Nat : m <= N => \E f : Follows(f, X, base, m, g)}
<1>1. 0 \in T
  <2> DEFINE f == [n \in 0..0 |-> base]
  <2>1. f \in [0..0 -> X] /\ f[0] = base
    OBVIOUS
  <2> HIDE DEF f
  <2>2. Follows(f, X, base, 0, g)
    BY <2>1 DEF Follows
  <2>3. QED
    BY <2>2
<1>2. ASSUME NEW m \in Nat, m \in T
      PROVE  m + 1 \in T
  <2>1. SUFFICES ASSUME m + 1 <= N
                 PROVE  \E f : Follows(f, X, base, m + 1, g)
    OBVIOUS
  <2>2. PICK f : Follows(f, X, base, m, g)
    BY <1>2, <2>1
  <2>3. \A n \in 0..m : f[n] \in X
    BY <2>2 DEF Follows
  <2> DEFINE last == g[<<m + 1, f[m]>>]
             h == [n \in 0..(m + 1) |-> IF n = m + 1 THEN last ELSE f[n]]
  <2>4. last \in X
    BY <2>1, <2>3 DEF StaysIn
  <2>5. \A n \in 0..m : h[n] = f[n]
    OBVIOUS
  <2>6. h[m + 1] = last
    OBVIOUS
  <2>7. h \in [0..(m + 1) -> X]
    BY <2>3, <2>4
  <2> HIDE DEF h
  <2>8. ASSUME NEW n \in 1..(m + 1)
        PROVE  h[n] = g[<<n, h[n - 1]>>]
    <3>1. CASE n = m + 1
      BY <2>5, <2>6, <3>1
    <3>2. CASE n # m + 1
      <4>1. n \in 1..m /\ n - 1 \in 0..m /\ n \in 0..m
        BY <3>2
      <4>2. QED
        BY <2>2, <2>5, <4>1 DEF Follows
    <3>3. QED
      BY <3>1, <3>2
  <2>9. Follows(h, X, base, m + 1, g)
    BY <2>2, <2>5, <2>7, <2>8 DEF Follows
  <2>10. QED
    BY <2>9
<1>3. N \in T
  <2> HIDE DEF T
  <2>1. QED
    BY <1>1, <1>2, CountingUp
<1>4. QED
  BY <1>3

\* A finite set has finitely many images, and no more than it has members.
LEMMA FiniteImages ==
    ASSUME NEW f, NEW S, IsFiniteSet(S)
    PROVE  IsFiniteSet({f[x] : x \in S}) /\ Cardinality({f[x] : x \in S}) <= Cardinality(S)
<1> DEFINE T == {f[x] : x \in S}
           g == [x \in S |-> f[x]]
<1>1. g \in Surjection(S, T)
  BY DEF Surjection
<1> HIDE DEF g, T
<1>2. IsFiniteSet(T) /\ Cardinality(T) <= Cardinality(S)
  BY <1>1, FS_Surjection
<1>3. QED
  BY <1>2 DEF T

=============================================================================
