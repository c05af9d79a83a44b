-------------------------- MODULE EventsFileProofs ---------------------------
(***************************************************************************)
(* Proofs about the format of event files: a line that was written reads    *)
(* back, whatever the names in it.                                          *)
(***************************************************************************)
EXTENDS EventsFile, SequenceTheorems, FiniteSetTheorems, WellFoundedInduction, TLAPS

(* Sequences of anything                                                    *)
IsSeq(s) == \E S : s \in Seq(S)

LEMMA SetInduction ==
  ASSUME NEW T, T \subseteq Nat, 0 \in T, \A i \in T : i + 1 \in T
  PROVE  T = Nat
<1> SUFFICES ASSUME Nat \ T # {} PROVE FALSE
  OBVIOUS
<1>1. PICK x \in Nat \ T : \A y \in Nat \ T : ~(<<y, x>> \in OpToRel(<, Nat))
  BY NatLessThanWellFounded, WFMin, Zenon
<1>2. \A y \in Nat \ T : ~(y < x)
  BY <1>1 DEF OpToRel
<1>3. x \in Nat /\ x \notin T
  OBVIOUS
<1>4. x # 0
  BY <1>3
<1>5. x - 1 \in Nat /\ x - 1 < x /\ (x - 1) + 1 = x
  BY <1>3, <1>4
<1>6. x - 1 \in T
  BY <1>2, <1>5
<1>7. (x - 1) + 1 \in T
  BY <1>6
<1> QED BY <1>3, <1>5, <1>7

(* A function can be defined step by step along 0..N.                       *)
Steps(f, N, a, g) == f[0] = a /\ \A i \in 1..N : f[i] = g[<<f[i - 1], i>>]

LEMMA StepByStep ==
  ASSUME NEW N \in Nat, NEW X, NEW a \in X, NEW g \in [X \X (1..N) -> X]
  PROVE  \E f \in [0..N -> X] : Steps(f, N, a, g)
<1> DEFINE Upto(f, m) == /\ f \in [0..m -> X] /\ f[0] = a
                         /\ \A i \in 1..m : f[i] = g[<<f[i - 1], i>>]
           T == {m \in Nat : m <= N => \E f : Upto(f, m)}
<1>1. 0 \in T
  <2> DEFINE h == [i \in 0..0 |-> a]
  <2>1. h \in [0..0 -> X] /\ h[0] = a /\ \A i \in 1..0 : h[i] = g[<<h[i - 1], i>>]
    OBVIOUS
  <2> QED BY <2>1
<1>2. ASSUME NEW m \in T
      PROVE  m + 1 \in T
  <2> SUFFICES ASSUME m + 1 <= N
               PROVE  \E f : Upto(f, m + 1)
    OBVIOUS
  <2>1. m \in Nat /\ m <= N
    OBVIOUS
  <2>2. PICK f : Upto(f, m)
    BY <2>1
  <2> DEFINE h == [i \in 0..(m + 1) |-> IF i = m + 1 THEN g[<<f[m], m + 1>>] ELSE f[i]]
  <2>3. f[m] \in X /\ m + 1 \in 1..N
    BY <2>1, <2>2
  <2>4. g[<<f[m], m + 1>>] \in X
    BY <2>3
  <2>5. h \in [0..(m + 1) -> X]
    BY <2>1, <2>2, <2>4
  <2>6. /\ h[0] = a /\ h[m + 1] = g[<<f[m], m + 1>>]
        /\ \A i \in 0..m : h[i] = f[i]
    BY <2>1, <2>2
  <2> HIDE DEF h
  <2>7. ASSUME NEW i \in 1..(m + 1)
        PROVE  h[i] = g[<<h[i - 1], i>>]
    <3>1. CASE i = m + 1
      BY <2>1, <2>6, <3>1
    <3>2. CASE i # m + 1
      <4>1. i \in 1..m /\ i \in 0..m /\ i - 1 \in 0..m
        BY <2>1, <3>2
      <4> QED BY <2>2, <2>6, <4>1
    <3> QED BY <3>1, <3>2
  <2> QED BY <2>5, <2>6, <2>7
<1>3. T = Nat
  <2>1. T \subseteq Nat
    OBVIOUS
  <2> HIDE DEF T
  <2> QED BY <1>1, <1>2, <2>1, SetInduction
<1>4. \E f : Upto(f, N)
  BY <1>3, SMTT(30)
<1> QED BY <1>4 DEF Steps

(* A flattened sequence grows part by part.                                 *)
LEMMA Flattened ==
  ASSUME NEW S, NEW ss \in Seq(Seq(S))
  PROVE  \E f \in [0..Len(ss) -> Seq(S)] :
            /\ f[0] = <<>> /\ FlattenSeq(ss) = f[Len(ss)]
            /\ \A i \in 1..Len(ss) : f[i] = f[i - 1] \o ss[i]
<1> DEFINE N == Len(ss)
           g == [x \in Seq(S) \X (1..N) |-> x[1] \o ss[x[2]]]
           flatten[i \in 1..N] == IF i = 1 THEN ss[i] ELSE flatten[i - 1] \o ss[i]
<1>1. N \in Nat /\ \A i \in 1..N : ss[i] \in Seq(S)
  BY LenProperties, ElementOfSeq
<1>2. g \in [Seq(S) \X (1..N) -> Seq(S)]
  <2> SUFFICES ASSUME NEW x \in Seq(S) \X (1..N) PROVE x[1] \o ss[x[2]] \in Seq(S)
    OBVIOUS
  <2>1. x[1] \in Seq(S) /\ x[2] \in 1..N
    OBVIOUS
  <2>2. ss[x[2]] \in Seq(S)
    BY <1>1, <2>1
  <2> QED BY <2>1, <2>2, ConcatProperties
<1>2a. \A x \in Seq(S), i \in 1..N : g[<<x, i>>] = x \o ss[i]
  OBVIOUS
<1>3. <<>> \in Seq(S)
  BY EmptySeq
<1> HIDE DEF g, N
<1>4. PICK h \in [0..N -> Seq(S)] :
        h[0] = <<>> /\ \A i \in 1..N : h[i] = g[<<h[i - 1], i>>]
  <2> DEFINE X == Seq(S)
             a == <<>>
  <2>1. N \in Nat /\ a \in X /\ g \in [X \X (1..N) -> X]
    BY <1>1, <1>2, <1>3
  <2> HIDE DEF X, a
  <2>2. \E h \in [0..N -> X] : Steps(h, N, a, g)
    BY <2>1, StepByStep
  <2> QED BY <2>2 DEF X, a, Steps
<1>5. \A i \in 1..N : h[i] = h[i - 1] \o ss[i]
  <2> SUFFICES ASSUME NEW i \in 1..N PROVE h[i] = h[i - 1] \o ss[i]
    OBVIOUS
  <2>1. i - 1 \in 0..N
    BY <1>1
  <2>2. h[i - 1] \in Seq(S)
    BY <1>4, <2>1
  <2> QED BY <1>2a, <1>4, <2>2
<1>6. N > 0 => h[1] = ss[1]
  <2> SUFFICES ASSUME N > 0 PROVE h[1] = ss[1]
    OBVIOUS
  <2>1. 1 \in 1..N /\ 1 - 1 = 0
    BY <1>1
  <2>2. h[1] = <<>> \o ss[1] /\ ss[1] \in Seq(S)
    BY <1>1, <1>4, <1>5, <2>1
  <2> QED BY <2>2, ConcatEmptySeq
<1>7. \E k : k = [i \in 1..N |-> IF i = 1 THEN ss[i] ELSE k[i - 1] \o ss[i]]
  <2> DEFINE k == [i \in 1..N |-> h[i]]
             K == [i \in 1..N |-> IF i = 1 THEN ss[i] ELSE k[i - 1] \o ss[i]]
  <2>1. ASSUME NEW i \in 1..N
        PROVE  k[i] = IF i = 1 THEN ss[i] ELSE k[i - 1] \o ss[i]
    <3>1. CASE i = 1
      BY <1>1, <1>6, <3>1
    <3>2. CASE i # 1
      <4>1. i - 1 \in 1..N
        BY <1>1, <3>2
      <4>2. k[i - 1] = h[i - 1] /\ k[i] = h[i]
        BY <4>1
      <4> HIDE DEF k
      <4> QED BY <1>5, <3>2, <4>2
    <3> QED BY <3>1, <3>2
  <2>2. k = K
    BY <2>1
  <2> HIDE DEF k
  <2> QED BY <2>2, Zenon DEF K
<1>8. flatten = [i \in 1..N |-> IF i = 1 THEN ss[i] ELSE flatten[i - 1] \o ss[i]]
  BY <1>7
<1> HIDE DEF flatten
<1>9. \A i \in 1..N : flatten[i] = IF i = 1 THEN ss[i] ELSE flatten[i - 1] \o ss[i]
  BY <1>8
<1>10. \A i \in Nat : i \in 1..N => flatten[i] = h[i]
  <2> DEFINE T == {i \in Nat : i \in 1..N => flatten[i] = h[i]}
  <2>1. 0 \in T
    BY <1>1
  <2>2. ASSUME NEW i \in T PROVE i + 1 \in T
    <3> SUFFICES ASSUME i + 1 \in 1..N PROVE flatten[i + 1] = h[i + 1]
      OBVIOUS
    <3>1. i \in Nat /\ (i + 1) - 1 = i
      OBVIOUS
    <3>2. CASE i = 0
      BY <1>1, <1>6, <1>9, <3>2
    <3>3. CASE i # 0
      <4>1. i \in 1..N /\ i + 1 # 1
        BY <1>1, <3>1, <3>3
      <4>2. flatten[i + 1] = flatten[i] \o ss[i + 1] /\ h[i + 1] = h[i] \o ss[i + 1]
        BY <1>5, <1>9, <3>1, <4>1
      <4>3. flatten[i] = h[i]
        BY <4>1
      <4> QED BY <4>2, <4>3
    <3> QED BY <3>2, <3>3
  <2>3. T \subseteq Nat
    OBVIOUS
  <2> HIDE DEF T
  <2>4. T = Nat
    BY <2>1, <2>2, <2>3, SetInduction
  <2> QED BY <2>4 DEF T
<1>11. FlattenSeq(ss) = h[N]
  <2>1. CASE N = 0
    <3>1. ss = <<>>
      BY <2>1, EmptySeq DEF N
    <3> QED BY <1>4, <2>1, <3>1 DEF FlattenSeq, N
  <2>2. CASE N # 0
    <3>1. FlattenSeq(ss) = flatten[N]
      BY <2>2 DEF FlattenSeq, flatten, N
    <3>2. N \in 1..N
      BY <1>1, <2>2
    <3> QED BY <1>1, <1>10, <3>1, <3>2
  <2> QED BY <2>1, <2>2
<1> QED BY <1>4, <1>5, <1>11 DEF N

-----------------------------------------------------------------------------
(* Places in order.                                                         *)

(* As many numbers as there are places, when they only grow.                *)
LEMMA Counted ==
  ASSUME NEW m \in Nat, NEW p, NEW S,
         \A i \in 1..m : p[i] \in Int,
         \A i, j \in 1..m : i < j => p[i] < p[j],
         \A x : x \in S <=> \E i \in 1..m : x = p[i]
  PROVE  IsFiniteSet(S) /\ Cardinality(S) = m
<1> DEFINE b == [i \in 1..m |-> p[i]]
<1>1. b \in [1..m -> S] /\ \A t \in S : \E i \in 1..m : b[i] = t
  OBVIOUS
<1>2. \A i, j \in 1..m : b[i] = b[j] => i = j
  <2> SUFFICES ASSUME NEW i \in 1..m, NEW j \in 1..m, p[i] = p[j] PROVE i = j
    OBVIOUS
  <2>1. ~(i < j) /\ ~(j < i)
    OBVIOUS
  <2> QED BY <2>1
<1> HIDE DEF b
<1>3. b \in Bijection(1..m, S)
  BY <1>1, <1>2 DEF Bijection, Injection, Surjection, IsInjective
<1>4. ExistsBijection(1..m, S)
  BY <1>3 DEF ExistsBijection
<1> QED BY <1>4, FS_CountingElements, FS_NatBijection

(* p[1] < ... < p[N] are the elements of S.                                 *)
Lists(p, N, S) == /\ p \in [1..N -> Int]
                  /\ \A i, j \in 1..N : i < j => p[i] < p[j]
                  /\ \A x : x \in S <=> \E i \in 1..N : x = p[i]

LEMMA InOrderIs ==
  ASSUME NEW N \in Nat, NEW p, NEW S, Lists(p, N, S)
  PROVE  IsFiniteSet(S) /\ Cardinality(S) = N /\ InOrder(S) = p
<1> USE DEF Lists
<1>1. IsFiniteSet(S) /\ Cardinality(S) = N
  BY Counted
<1>2. ASSUME NEW k \in 1..N
      PROVE  Cardinality({x \in S : x <= p[k]}) = k
  <2> DEFINE B == {x \in S : x <= p[k]}
  <2>1. k \in Nat /\ \A i \in 1..k : i \in 1..N
    OBVIOUS
  <2>2. ASSUME NEW x
        PROVE  x \in B <=> \E i \in 1..k : x = p[i]
    <3>1. ASSUME x \in B PROVE \E i \in 1..k : x = p[i]
      <4>1. PICK i \in 1..N : x = p[i]
        BY <3>1
      <4>2. ~(k < i)
        <5> SUFFICES ASSUME k < i PROVE FALSE
          OBVIOUS
        <5>1. p[k] < p[i] /\ p[i] <= p[k] /\ p[i] \in Int /\ p[k] \in Int
          BY <3>1, <4>1
        <5> QED BY <5>1
      <4>3. i \in 1..k
        BY <4>2
      <4> QED BY <4>1, <4>3
    <3>2. ASSUME NEW i \in 1..k, x = p[i] PROVE x \in B
      <4>1. i \in 1..N /\ (i < k \/ i = k)
        BY <2>1
      <4>2. p[i] \in Int /\ p[k] \in Int /\ p[i] <= p[k]
        BY <4>1
      <4> QED BY <3>2, <4>1, <4>2
    <3> QED BY <3>1, <3>2
  <2> HIDE DEF B
  <2>3. Cardinality(B) = k
    BY <2>1, <2>2, Counted
  <2> QED BY <2>3 DEF B
<1>3. ASSUME NEW k \in 1..N
      PROVE  (CHOOSE i \in S : Cardinality({j \in S : j <= i}) = k) = p[k]
  <2>1. p[k] \in S /\ Cardinality({j \in S : j <= p[k]}) = k
    BY <1>2
  <2>2. ASSUME NEW i \in S, Cardinality({j \in S : j <= i}) = k
        PROVE  i = p[k]
    <3>1. PICK l \in 1..N : i = p[l]
      OBVIOUS
    <3>2. l = k
      BY <1>2, <2>2, <3>1
    <3> QED BY <3>1, <3>2
  <2> QED BY <2>1, <2>2
<1>4. InOrder(S) = [k \in 1..N |-> p[k]]
  BY <1>1, <1>3 DEF InOrder
<1> QED BY <1>1, <1>4

(* What is selected, then.                                                  *)
LEMMA SelectIs ==
  ASSUME NEW N \in Nat, NEW p, NEW S, NEW s, Lists(p, N, S)
  PROVE  Select(s, S) = [k \in 1..N |-> s[p[k]]]
<1>1. Cardinality(S) = N /\ InOrder(S) = p
  BY InOrderIs
<1> QED BY <1>1 DEF Select

(* Every set of places has an order.                                        *)
LEMMA Enumerated ==
  \A m \in Nat : \A S \in SUBSET (1..m) :
     \E N \in 0..m : \E p : Lists(p, N, S)
<1> DEFINE T == {m \in Nat : \A S \in SUBSET (1..m) : \E N \in 0..m : \E p : Lists(p, N, S)}
<1>1. 0 \in T
  <2> SUFFICES ASSUME NEW S \in SUBSET (1..0)
               PROVE  \E N \in 0..0 : \E p : Lists(p, N, S)
    OBVIOUS
  <2> DEFINE p == [i \in 1..0 |-> 0]
  <2>1. S = {} /\ p \in [1..0 -> Int] /\ 0 \in 0..0
    OBVIOUS
  <2>2. Lists(p, 0, S)
    BY <2>1 DEF Lists
  <2> HIDE DEF p
  <2> QED BY <2>1, <2>2
<1>2. ASSUME NEW m \in T
      PROVE  m + 1 \in T
  <2>0. m \in Nat
    OBVIOUS
  <2> SUFFICES ASSUME NEW S \in SUBSET (1..(m + 1))
               PROVE  \E N \in 0..(m + 1) : \E p : Lists(p, N, S)
    OBVIOUS
  <2>1. CASE m + 1 \notin S
    <3>1. S \in SUBSET (1..m)
      BY <2>0, <2>1
    <3>2. PICK N \in 0..m : \E p : Lists(p, N, S)
      BY <3>1
    <3>3. N \in 0..(m + 1)
      BY <2>0
    <3> QED BY <3>2, <3>3
  <2>2. CASE m + 1 \in S
    <3> DEFINE R == S \ {m + 1}
    <3>1. R \in SUBSET (1..m)
      BY <2>0
    <3>2. PICK N \in 0..m : \E p : Lists(p, N, R)
      BY <3>1
    <3>3. PICK p : Lists(p, N, R)
      BY <3>2
    <3>4. N \in Nat /\ N + 1 \in 0..(m + 1) /\ \A i \in 1..N : p[i] \in R
      BY <2>0, <3>3 DEF Lists
    <3> DEFINE q == [i \in 1..(N + 1) |-> IF i = N + 1 THEN m + 1 ELSE p[i]]
    <3>5. q \in [1..(N + 1) -> Int]
      BY <2>0, <3>3, <3>4 DEF Lists
    <3>6. q[N + 1] = m + 1 /\ \A i \in 1..N : q[i] = p[i] /\ q[i] \in 1..m
      <4>1. N + 1 \in 1..(N + 1) /\ \A i \in 1..N : i \in 1..(N + 1) /\ i # N + 1
        BY <3>4
      <4>2. q[N + 1] = m + 1 /\ \A i \in 1..N : q[i] = p[i]
        BY <4>1
      <4> HIDE DEF q
      <4> QED BY <3>1, <3>4, <4>2
    <3> HIDE DEF q
    <3>7. ASSUME NEW i \in 1..(N + 1), NEW j \in 1..(N + 1), i < j
          PROVE  q[i] < q[j]
      <4>1. i \in 1..N
        BY <3>4, <3>7
      <4>2. CASE j = N + 1
        BY <2>0, <3>6, <4>1, <4>2
      <4>3. CASE j # N + 1
        <5>1. j \in 1..N
          BY <3>4, <4>3
        <5> QED BY <3>3, <3>6, <3>7, <4>1, <5>1 DEF Lists
      <4> QED BY <4>2, <4>3
    <3>8. ASSUME NEW x
          PROVE  x \in S <=> \E i \in 1..(N + 1) : x = q[i]
      <4>1. ASSUME x \in S PROVE \E i \in 1..(N + 1) : x = q[i]
        <5>1. CASE x = m + 1
          <6>1. N + 1 \in 1..(N + 1)
            BY <3>4
          <6> QED BY <3>6, <5>1, <6>1
        <5>2. CASE x # m + 1
          <6>1. PICK i \in 1..N : x = p[i]
            BY <3>3, <4>1, <5>2 DEF Lists
          <6>2. i \in 1..(N + 1)
            BY <3>4
          <6> QED BY <3>6, <6>1, <6>2
        <5> QED BY <5>1, <5>2
      <4>2. ASSUME NEW i \in 1..(N + 1), x = q[i] PROVE x \in S
        <5>1. CASE i = N + 1
          BY <2>2, <3>6, <4>2, <5>1
        <5>2. CASE i # N + 1
          <6>1. i \in 1..N
            BY <3>4, <5>2
          <6> QED BY <3>3, <3>6, <4>2, <6>1 DEF Lists
        <5> QED BY <5>1, <5>2
      <4> QED BY <4>1, <4>2
    <3>9. Lists(q, N + 1, S)
      BY <3>5, <3>7, <3>8 DEF Lists
    <3> QED BY <3>4, <3>9
  <2> QED BY <2>1, <2>2
<1>3. T = Nat
  <2>1. T \subseteq Nat
    OBVIOUS
  <2> HIDE DEF T
  <2> QED BY <1>1, <1>2, <2>1, SetInduction
<1> QED BY <1>3

(* The stretches of s from b[k] to e[k] are what lies between the seps.      *)
Stretches(s, seps, K, b, e) ==
    /\ b \in [1..K -> 1..Len(s)] /\ e \in [1..K -> 1..Len(s)]
    /\ \A k \in 1..K : /\ b[k] <= e[k]
                       /\ \A i \in b[k]..e[k] : s[i] \notin seps
                       /\ b[k] = 1 \/ s[b[k] - 1] \in seps
                       /\ e[k] = Len(s) \/ s[e[k] + 1] \in seps
    /\ \A k, l \in 1..K : k < l => b[k] < b[l]
    /\ \A i \in 1..Len(s) : s[i] \notin seps => \E k \in 1..K : i \in b[k]..e[k]

LEMMA RunsAre ==
  ASSUME NEW s, Len(s) \in Nat, NEW seps, NEW K \in Nat, NEW b, NEW e,
         Stretches(s, seps, K, b, e)
  PROVE  Runs(s, seps) = [k \in 1..K |-> SubSeq(s, b[k], e[k])]
<1> USE DEF Stretches
<1> DEFINE starts == {i \in 1..Len(s) : s[i] \notin seps /\ (i = 1 \/ s[i - 1] \in seps)}
           last(i) == CHOOSE j \in i..Len(s) :
                         /\ \A k \in i..j : s[k] \notin seps
                         /\ j = Len(s) \/ s[j + 1] \in seps
<1>1. \A x : x \in starts <=> \E k \in 1..K : x = b[k]
  <2>1. ASSUME NEW x \in starts PROVE \E k \in 1..K : x = b[k]
    <3>1. PICK k \in 1..K : x \in b[k]..e[k]
      OBVIOUS
    <3>2. b[k] \in Int /\ e[k] \in Int /\ b[k] >= 1 /\ x \in Int
      OBVIOUS
    <3>3. CASE x # b[k]
      <4>1. x - 1 \in b[k]..e[k] /\ x # 1
        BY <3>1, <3>2, <3>3, SMTT(30)
      <4> QED BY <4>1
    <3> QED BY <3>3
  <2>2. ASSUME NEW k \in 1..K PROVE b[k] \in starts
    <3>1. b[k] \in b[k]..e[k] /\ b[k] \in 1..Len(s)
      OBVIOUS
    <3> QED BY <3>1
  <2> QED BY <2>1, <2>2
<1>2. Cardinality(starts) = K /\ InOrder(starts) = b
  <2> HIDE DEF starts
  <2>1. Lists(b, K, starts)
    BY <1>1 DEF Lists
  <2> QED BY <2>1, InOrderIs
<1>3. ASSUME NEW k \in 1..K
      PROVE  last(b[k]) = e[k]
  <2>1. b[k] \in 1..Len(s) /\ e[k] \in b[k]..Len(s)
    OBVIOUS
  <2>2. ASSUME NEW j \in b[k]..Len(s), \A i \in b[k]..j : s[i] \notin seps,
               j = Len(s) \/ s[j + 1] \in seps
        PROVE  j = e[k]
    <3>1. CASE j < e[k]
      <4>1. j + 1 \in b[k]..e[k] /\ j # Len(s)
        BY <2>1, <3>1
      <4> QED BY <2>2, <4>1
    <3>2. CASE j > e[k]
      <4>1. e[k] + 1 \in b[k]..j /\ e[k] # Len(s)
        BY <2>1, <3>2
      <4> QED BY <2>2, <4>1
    <3> QED BY <2>1, <3>1, <3>2
  <2> QED BY <2>1, <2>2
<1>4. Runs(s, seps) = [k \in 1..Len(InOrder(starts)) |->
                         SubSeq(s, InOrder(starts)[k], last(InOrder(starts)[k]))]
  BY DEF Runs
<1>5. Len(b) = K
  <2>1. b \in Seq(1..Len(s))
    OBVIOUS
  <2> QED BY <2>1
<1> HIDE DEF starts, last
<1> QED BY <1>2, <1>3, <1>4, <1>5

-----------------------------------------------------------------------------
(* Where the parts of a flattened sequence are                              *)

(* Part k of ss is what t has from L[k - 1] + 1 to L[k].                    *)
LaidOut(t, ss, L) ==
    /\ L \in [0..Len(ss) -> Nat] /\ L[0] = 0 /\ L[Len(ss)] = Len(t)
    /\ \A k \in 1..Len(ss) :
          /\ L[k] = L[k - 1] + Len(ss[k])
          /\ \A i \in 1..Len(ss[k]) : t[L[k - 1] + i] = ss[k][i]
    /\ \A j, k \in 0..Len(ss) : j <= k => L[j] <= L[k]
    /\ \A i \in 1..Len(t) : \E k \in 1..Len(ss) : i \in (L[k - 1] + 1)..L[k]

LEMMA Laying ==
  ASSUME NEW S, NEW ss \in Seq(Seq(S))
  PROVE  FlattenSeq(ss) \in Seq(S) /\ \E L : LaidOut(FlattenSeq(ss), ss, L)
<1> DEFINE N == Len(ss)
<1>1. N \in Nat /\ \A i \in 1..N : ss[i] \in Seq(S) /\ Len(ss[i]) \in Nat
  BY LenProperties, ElementOfSeq
<1>2. PICK f \in [0..N -> Seq(S)] : /\ f[0] = <<>> /\ FlattenSeq(ss) = f[N]
                                    /\ \A i \in 1..N : f[i] = f[i - 1] \o ss[i]
  BY Flattened
<1> DEFINE L == [k \in 0..N |-> Len(f[k])]
<1> HIDE DEF N
<1>3. \A k \in 0..N : f[k] \in Seq(S) /\ L[k] = Len(f[k]) /\ L[k] \in Nat
  BY <1>2, LenProperties
<1>4. L \in [0..N -> Nat]
  BY <1>3
<1> HIDE DEF L
<1>5. L[0] = 0
  BY <1>1, <1>2, <1>3, EmptySeq
<1>6. ASSUME NEW k \in 1..N
      PROVE  /\ L[k] = L[k - 1] + Len(ss[k])
             /\ \A i \in 1..L[k - 1] : f[k][i] = f[k - 1][i]
             /\ \A i \in 1..Len(ss[k]) : f[k][L[k - 1] + i] = ss[k][i]
  <2> DEFINE u == f[k - 1]
             v == ss[k]
  <2>1. k - 1 \in 0..N /\ k \in 0..N
    BY <1>1
  <2>2. f[k] = u \o v /\ u \in Seq(S) /\ v \in Seq(S) /\ L[k - 1] = Len(u) /\ L[k] = Len(f[k])
    BY <1>1, <1>2, <1>3, <2>1
  <2> HIDE DEF u, v
  <2>3. Len(u \o v) = Len(u) + Len(v) /\ Len(u) \in Nat /\ Len(v) \in Nat
    BY <2>2, ConcatProperties, LenProperties
  <2>4. \A i \in 1..Len(u) : (u \o v)[i] = u[i]
    <3> SUFFICES ASSUME NEW i \in 1..Len(u) PROVE (u \o v)[i] = u[i]
      OBVIOUS
    <3>1. i \in 1..(Len(u) + Len(v)) /\ i <= Len(u)
      BY <2>3
    <3> QED BY <2>2, <3>1, ConcatProperties
  <2>5. \A i \in 1..Len(v) : (u \o v)[Len(u) + i] = v[i]
    <3> SUFFICES ASSUME NEW i \in 1..Len(v) PROVE (u \o v)[Len(u) + i] = v[i]
      OBVIOUS
    <3>1. /\ Len(u) + i \in 1..(Len(u) + Len(v)) /\ ~(Len(u) + i <= Len(u))
          /\ (Len(u) + i) - Len(u) = i
      BY <2>3
    <3> QED BY <2>2, <3>1, ConcatProperties
  <2> QED BY <2>2, <2>3, <2>4, <2>5 DEF u, v
<1> DEFINE P(m) == /\ \A k \in 0..m : /\ L[k] <= L[m]
                                      /\ \A i \in 1..L[k] : f[m][i] = f[k][i]
                   /\ \A i \in 1..L[m] : \E k \in 1..m : i \in (L[k - 1] + 1)..L[k]
<1>7. \A m \in 0..N : P(m)
  <2> DEFINE T == {m \in Nat : m <= N => P(m)}
  <2>1. P(0)
    BY <1>5
  <2>2. ASSUME NEW m \in Nat, P(m), m + 1 <= N
        PROVE  P(m + 1)
    <3>1. m + 1 \in 1..N /\ (m + 1) - 1 = m /\ m \in 0..N /\ m + 1 \in 0..N
      BY <1>1, <2>2
    <3>2. L[m] \in Nat /\ L[m + 1] \in Nat /\ L[m] <= L[m + 1]
          /\ \A i \in 1..L[m] : f[m + 1][i] = f[m][i]
      <4>1. L[m] \in Nat /\ L[m + 1] \in Nat /\ Len(ss[m + 1]) \in Nat
        BY <1>1, <1>4, <3>1
      <4>2. L[m + 1] = L[m] + Len(ss[m + 1]) /\ \A i \in 1..L[m] : f[m + 1][i] = f[m][i]
        BY <1>6, <3>1
      <4> QED BY <4>1, <4>2
    <3>3. ASSUME NEW k \in 0..(m + 1)
          PROVE  L[k] <= L[m + 1] /\ \A i \in 1..L[k] : f[m + 1][i] = f[k][i]
      <4>1. CASE k = m + 1
        BY <3>2, <4>1
      <4>2. CASE k # m + 1
        <5>1. k \in 0..m /\ k \in 0..N
          BY <1>1, <3>1, <4>2
        <5>2. L[k] <= L[m] /\ L[k] \in Nat /\ \A i \in 1..L[k] : f[m][i] = f[k][i]
          BY <1>4, <2>2, <5>1
        <5>3. L[k] <= L[m + 1] /\ \A i \in 1..L[k] : i \in 1..L[m]
          BY <3>2, <5>2
        <5> QED BY <3>2, <5>2, <5>3
      <4> QED BY <4>1, <4>2
    <3>4. ASSUME NEW i \in 1..L[m + 1]
          PROVE  \E k \in 1..(m + 1) : i \in (L[k - 1] + 1)..L[k]
      <4>1. CASE i <= L[m]
        <5>1. i \in 1..L[m] /\ \A k \in 1..m : k \in 1..(m + 1)
          BY <3>2, <4>1
        <5> QED BY <2>2, <5>1
      <4>2. CASE ~(i <= L[m])
        <5>1. i \in (L[m] + 1)..L[m + 1] /\ m + 1 \in 1..(m + 1)
          BY <3>2, <4>2
        <5> QED BY <3>1, <5>1
      <4> QED BY <4>1, <4>2
    <3> QED BY <3>3, <3>4, Zenon
  <2> HIDE DEF P
  <2>3. 0 \in T
    BY <2>1
  <2>4. ASSUME NEW m \in T PROVE m + 1 \in T
    <3> SUFFICES ASSUME m + 1 <= N PROVE P(m + 1)
      OBVIOUS
    <3>1. m \in Nat /\ m <= N
      BY <1>1
    <3>2. P(m)
      BY <3>1
    <3> QED BY <2>2, <3>1, <3>2
  <2>5. T \subseteq Nat
    OBVIOUS
  <2> HIDE DEF T
  <2>6. T = Nat
    BY <2>3, <2>4, <2>5, SetInduction
  <2>7. ASSUME NEW m \in 0..N PROVE P(m)
    <3>1. m \in T /\ m <= N
      BY <1>1, <2>6
    <3> QED BY <3>1 DEF T
  <2> QED BY <2>7
<1> DEFINE t == FlattenSeq(ss)
<1>8. t = f[N] /\ t \in Seq(S) /\ L[N] = Len(t) /\ N \in 0..N
  BY <1>1, <1>2, <1>3
<1> HIDE DEF t
<1>9. ASSUME NEW k \in 1..N, NEW i \in 1..Len(ss[k])
      PROVE  t[L[k - 1] + i] = ss[k][i]
  <2>1. k - 1 \in 0..N /\ k \in 0..N
    BY <1>1
  <2>2. L[k - 1] \in Nat /\ L[k] = L[k - 1] + Len(ss[k]) /\ Len(ss[k]) \in Nat
    BY <1>1, <1>4, <1>6, <2>1
  <2>3. L[k - 1] + i \in 1..L[k]
    BY <2>2
  <2>4. f[N][L[k - 1] + i] = f[k][L[k - 1] + i]
    BY <1>7, <1>8, <2>1, <2>3
  <2> QED BY <1>6, <1>8, <2>4
<1>10. \A j, k \in 0..N : j <= k => L[j] <= L[k]
  <2> SUFFICES ASSUME NEW j \in 0..N, NEW k \in 0..N, j <= k PROVE L[j] <= L[k]
    OBVIOUS
  <2>1. j \in 0..k
    OBVIOUS
  <2> QED BY <1>7, <2>1
<1>11. \A i \in 1..Len(t) : \E k \in 1..N : i \in (L[k - 1] + 1)..L[k]
  BY <1>7, <1>8
<1>12. LaidOut(t, ss, L)
  <2> HIDE DEF P
  <2> QED BY <1>4, <1>5, <1>6, <1>8, <1>9, <1>10, <1>11 DEF LaidOut, N
<1> QED BY <1>8, <1>12 DEF t

(* Parts that can be told apart again, and are.                             *)
Separable(parts, S, seps) ==
    parts \in Seq(Seq(S)) /\ S \cap seps = {} /\ \A k \in 1..Len(parts) : Len(parts[k]) > 0

LEMMA JoinRuns ==
  ASSUME NEW parts, NEW S, NEW seps, NEW sep \in seps, Separable(parts, S, seps)
  PROVE  /\ Join(parts, sep) \in Seq(S \cup {sep})
         /\ Runs(Join(parts, sep), seps) = parts
<1> USE DEF Separable
<1> DEFINE K == Len(parts)
           ss == [i \in 1..K |-> IF i = 1 THEN parts[i] ELSE <<sep>> \o parts[i]]
           R == S \cup {sep}
           s == FlattenSeq(ss)
           lk(k) == Len(parts[k])
<1>1. K \in Nat /\ \A k \in 1..K : parts[k] \in Seq(S) /\ parts[k] \in Seq(R)
  <2>1. K \in Nat /\ \A k \in 1..K : parts[k] \in Seq(S)
    BY LenProperties, ElementOfSeq
  <2>2. Seq(S) \subseteq Seq(R)
    OBVIOUS
  <2> QED BY <2>1, <2>2
<1>2. \A k \in 1..K : lk(k) \in Nat /\ lk(k) > 0
  BY <1>1, LenProperties
<1>3. ASSUME NEW k \in 1..K
      PROVE  /\ ss[k] \in Seq(R)
             /\ k = 1 => Len(ss[k]) = lk(k) /\ \A i \in 1..lk(k) : ss[k][i] = parts[k][i]
             /\ k # 1 => /\ Len(ss[k]) = lk(k) + 1 /\ ss[k][1] = sep
                         /\ \A i \in 1..lk(k) : ss[k][i + 1] = parts[k][i]
  <2> DEFINE u == parts[k]
             v == <<sep>>
             w == v \o u
  <2>1. ss[k] = IF k = 1 THEN u ELSE w
    OBVIOUS
  <2>2. u \in Seq(R) /\ v \in Seq(R) /\ Len(v) = 1 /\ v[1] = sep /\ Len(u) = lk(k) /\ Len(u) \in Nat
    BY <1>1, <1>2
  <2> HIDE DEF ss, u, v, lk, R
  <2>3. w \in Seq(R) /\ Len(w) = Len(v) + Len(u)
    BY <2>2, ConcatProperties, ZenonT(30)
  <2>4. w[1] = sep
    <3>1. 1 \in 1..(Len(v) + Len(u)) /\ 1 <= Len(v)
      BY <2>2
    <3> QED BY <2>2, <3>1, ConcatProperties
  <2>5. ASSUME NEW i \in 1..Len(u) PROVE w[i + 1] = u[i]
    <3>1. i + 1 \in 1..(Len(v) + Len(u)) /\ ~(i + 1 <= Len(v)) /\ (i + 1) - Len(v) = i
      BY <2>2
    <3>2. \A x \in 1..(Len(v) + Len(u)) : w[x] = IF x <= Len(v) THEN v[x] ELSE u[x - Len(v)]
      BY <2>2, ConcatProperties, ZenonT(30)
    <3> HIDE DEF w
    <3> QED BY <3>1, <3>2
  <2> HIDE DEF w
  <2> QED BY <2>1, <2>2, <2>3, <2>4, <2>5 DEF u
<1>4. ss \in Seq(Seq(R)) /\ Len(ss) = K
  <2>1. \A k \in 1..K : ss[k] \in Seq(R)
    BY <1>3
  <2>2. ss \in [1..K -> Seq(R)]
    BY <2>1
  <2> HIDE DEF ss, K, R
  <2> QED BY <1>1, <2>2, SeqDef, LenProperties
<1>5. Join(parts, sep) = s
  BY DEF Join
<1> HIDE DEF ss, K, R, s, lk
<1>6. s \in Seq(R) /\ \E L : LaidOut(s, ss, L)
  BY <1>4, Laying DEF s
<1>7. PICK L : LaidOut(s, ss, L)
  BY <1>6
<1>8. /\ L \in [0..K -> Nat] /\ L[0] = 0 /\ L[K] = Len(s)
      /\ \A k \in 1..K : /\ L[k] = L[k - 1] + Len(ss[k])
                         /\ \A i \in 1..Len(ss[k]) : s[L[k - 1] + i] = ss[k][i]
      /\ \A j, k \in 0..K : j <= k => L[j] <= L[k]
      /\ \A i \in 1..Len(s) : \E k \in 1..K : i \in (L[k - 1] + 1)..L[k]
  BY <1>4, <1>7 DEF LaidOut
<1> DEFINE e == [k \in 1..K |-> L[k]]
           b == [k \in 1..K |-> L[k] - lk(k) + 1]
<1>9. \A k \in 1..K : e[k] = L[k] /\ b[k] = L[k] - lk(k) + 1
  OBVIOUS
<1>9a. DOMAIN e = 1..K /\ DOMAIN b = 1..K /\ e = [k \in 1..K |-> e[k]] /\ b = [k \in 1..K |-> b[k]]
  OBVIOUS
<1> HIDE DEF e, b
<1>10. ASSUME NEW k \in 1..K
       PROVE  /\ k - 1 \in 0..K /\ k \in 0..K
              /\ L[k] \in Nat /\ L[k - 1] \in Nat /\ L[k] <= Len(s) /\ Len(s) \in Nat
  <2>1. k - 1 \in 0..K /\ k \in 0..K /\ K \in 0..K /\ k <= K
    BY <1>1
  <2>2. L[k] \in Nat /\ L[k - 1] \in Nat /\ L[K] \in Nat /\ L[k] <= L[K]
    BY <1>8, <2>1
  <2> QED BY <1>8, <2>1, <2>2
<1>11. ASSUME NEW k \in 1..K
       PROVE  /\ b[k] \in Nat /\ e[k] \in Nat /\ 1 <= b[k] /\ b[k] <= e[k] /\ e[k] <= Len(s)
              /\ L[k - 1] < b[k] /\ e[k] = L[k] /\ e[k] - b[k] + 1 = lk(k)
              /\ k = 1 => b[k] = 1
              /\ k # 1 => b[k] = L[k - 1] + 2 /\ s[L[k - 1] + 1] = sep
              /\ \A i \in 1..lk(k) : s[b[k] + i - 1] = parts[k][i]
  <2>1. lk(k) \in Nat /\ lk(k) > 0 /\ e[k] = L[k] /\ b[k] = L[k] - lk(k) + 1
    BY <1>2, <1>9
  <2>2. L[k] \in Nat /\ L[k - 1] \in Nat /\ L[k] <= Len(s) /\ Len(s) \in Nat
    BY <1>10
  <2>3. L[k] = L[k - 1] + Len(ss[k]) /\ \A i \in 1..Len(ss[k]) : s[L[k - 1] + i] = ss[k][i]
    BY <1>8
  <2> DEFINE l == lk(k)
             x == L[k]
             y == L[k - 1]
             z == Len(ss[k])
  <2>4. CASE k = 1
    <3>1. y = 0 /\ z = l /\ \A i \in 1..l : ss[k][i] = parts[k][i]
      BY <1>3, <1>8, <2>4
    <3>2. b[k] = 1 /\ x = l
      BY <2>1, <2>2, <2>3, <3>1
    <3>3. ASSUME NEW i \in 1..l PROVE s[b[k] + i - 1] = parts[k][i]
      <4>1. b[k] + i - 1 = y + i /\ i \in 1..z
        BY <3>1, <3>2
      <4> QED BY <2>3, <3>1, <4>1
    <3> QED BY <2>1, <2>2, <2>4, <3>1, <3>2, <3>3
  <2>5. CASE k # 1
    <3>1. z = l + 1 /\ ss[k][1] = sep /\ \A i \in 1..l : ss[k][i + 1] = parts[k][i]
      BY <1>3, <2>5
    <3>2. x = y + z /\ b[k] = x - l + 1 /\ x \in Nat /\ y \in Nat /\ l \in Nat
      BY <2>1, <2>2, <2>3
    <3>3. b[k] = y + 2 /\ 1 \in 1..z
      <4> HIDE DEF l, x, y, z
      <4> QED BY <3>1, <3>2
    <3>4. s[y + 1] = sep
      BY <2>3, <3>1, <3>3
    <3>5. ASSUME NEW i \in 1..l PROVE s[b[k] + i - 1] = parts[k][i]
      <4>1. b[k] + i - 1 = y + (i + 1) /\ i + 1 \in 1..z
        <5> HIDE DEF l, x, y, z
        <5> QED BY <3>1, <3>2, <3>3
      <4> QED BY <2>3, <3>1, <4>1
    <3>6. /\ b[k] \in Nat /\ e[k] \in Nat /\ 1 <= b[k] /\ b[k] <= e[k] /\ e[k] <= Len(s)
          /\ y < b[k] /\ e[k] = x /\ e[k] - b[k] + 1 = l
      <4>1. e[k] = x /\ l > 0 /\ x <= Len(s) /\ Len(s) \in Nat
        BY <2>1, <2>2
      <4> DEFINE bk == b[k]
                 ek == e[k]
                 ls == Len(s)
      <4> HIDE DEF l, x, y, z
      <4>2. /\ z = l + 1 /\ x = y + z /\ bk = y + 2 /\ x \in Nat /\ y \in Nat /\ l \in Nat
            /\ ek = x /\ l > 0 /\ x <= ls /\ ls \in Nat
        BY <3>1, <3>2, <3>3, <4>1
      <4> HIDE DEF bk, ek, ls
      <4>3. /\ bk \in Nat /\ ek \in Nat /\ 1 <= bk /\ bk <= ek /\ ek <= ls
            /\ y < bk /\ ek = x /\ ek - bk + 1 = l
        BY <4>2
      <4> QED BY <4>3 DEF bk, ek, ls
    <3> QED BY <2>5, <3>3, <3>4, <3>5, <3>6
  <2> QED BY <2>4, <2>5
<1>12. ASSUME NEW k \in 1..K, NEW i \in b[k]..e[k]
       PROVE  s[i] \in S /\ s[i] \notin seps
  <2>1. b[k] \in Nat /\ e[k] \in Nat /\ e[k] - b[k] + 1 = lk(k)
    BY <1>11
  <2>2. i - b[k] + 1 \in 1..lk(k) /\ b[k] + (i - b[k] + 1) - 1 = i
    BY <2>1
  <2>3. s[i] = parts[k][i - b[k] + 1]
    <3> DEFINE j == i - b[k] + 1
    <3>1. s[b[k] + j - 1] = parts[k][j]
      BY <1>11, <2>2
    <3> QED BY <2>2, <3>1
  <2>4. parts[k][i - b[k] + 1] \in S
    BY <1>1, <2>2, ElementOfSeq DEF lk
  <2> QED BY <2>3, <2>4
<1>13. b \in [1..K -> 1..Len(s)] /\ e \in [1..K -> 1..Len(s)]
  <2>1. \A k \in 1..K : b[k] \in 1..Len(s) /\ e[k] \in 1..Len(s)
    <3> SUFFICES ASSUME NEW k \in 1..K PROVE b[k] \in 1..Len(s) /\ e[k] \in 1..Len(s)
      OBVIOUS
    <3> QED BY <1>10, <1>11
  <2> QED BY <1>9a, <2>1
<1>14. ASSUME NEW k \in 1..K
       PROVE  /\ b[k] = 1 \/ s[b[k] - 1] \in seps
              /\ e[k] = Len(s) \/ s[e[k] + 1] \in seps
  <2>1. b[k] = 1 \/ s[b[k] - 1] \in seps
    <3>1. CASE k # 1
      <4>1. b[k] - 1 = L[k - 1] + 1
        BY <1>10, <1>11, <3>1
      <4> QED BY <1>11, <3>1, <4>1
    <3> QED BY <1>11, <3>1
  <2>2. e[k] = Len(s) \/ s[e[k] + 1] \in seps
    <3>1. CASE k = K
      BY <1>8, <1>9, <3>1
    <3>2. CASE k # K
      <4>1. k + 1 \in 1..K /\ (k + 1) - 1 = k /\ k + 1 # 1
        BY <1>1, <3>2
      <4>2. s[L[(k + 1) - 1] + 1] = sep
        BY <1>11, <4>1
      <4> QED BY <1>9, <4>1, <4>2
    <3> QED BY <3>1, <3>2
  <2> QED BY <2>1, <2>2
<1>15. \A k, l \in 1..K : k < l => b[k] < b[l]
  <2> SUFFICES ASSUME NEW k \in 1..K, NEW l \in 1..K, k < l PROVE b[k] < b[l]
    OBVIOUS
  <2>1. l - 1 \in 0..K /\ k \in 0..K /\ k <= l - 1
    BY <1>1
  <2>2. L[k] <= L[l - 1] /\ L[k] \in Nat /\ L[l - 1] \in Nat
    BY <1>8, <2>1
  <2>3. b[k] <= L[k] /\ L[l - 1] < b[l] /\ b[k] \in Nat /\ b[l] \in Nat
    BY <1>11
  <2> QED BY <2>2, <2>3
<1>16. ASSUME NEW i \in 1..Len(s), s[i] \notin seps
       PROVE  \E k \in 1..K : i \in b[k]..e[k]
  <2>1. PICK k \in 1..K : i \in (L[k - 1] + 1)..L[k]
    BY <1>8
  <2>2. L[k - 1] \in Nat /\ L[k] \in Nat /\ b[k] \in Nat /\ e[k] = L[k]
    BY <1>10, <1>11
  <2>3. i >= b[k]
    <3>1. CASE k = 1
      <4>1. b[k] = 1
        BY <1>11, <3>1
      <4> QED BY <4>1
    <3>2. CASE k # 1
      <4>1. b[k] = L[k - 1] + 2 /\ s[L[k - 1] + 1] = sep
        BY <1>11, <3>2
      <4>2. i # L[k - 1] + 1
        BY <1>16, <4>1
      <4> QED BY <2>1, <2>2, <4>1, <4>2, SMTT(30)
    <3> QED BY <3>1, <3>2
  <2>4. i \in b[k]..e[k]
    BY <2>1, <2>2, <2>3
  <2> QED BY <2>4
<1>17. Runs(s, seps) = [k \in 1..K |-> SubSeq(s, b[k], e[k])]
  <2>1. Len(s) \in Nat
    BY <1>6, LenProperties
  <2>2. \A k \in 1..K : /\ b[k] <= e[k]
                        /\ \A i \in b[k]..e[k] : s[i] \notin seps
                        /\ b[k] = 1 \/ s[b[k] - 1] \in seps
                        /\ e[k] = Len(s) \/ s[e[k] + 1] \in seps
    BY <1>11, <1>12, <1>14
  <2>3. \A i \in 1..Len(s) : s[i] \notin seps => \E k \in 1..K : i \in b[k]..e[k]
    BY <1>16
  <2>4. Stretches(s, seps, K, b, e)
    BY <1>13, <1>15, <2>2, <2>3, Zenon DEF Stretches
  <2> QED BY <1>1, <2>1, <2>4, RunsAre
<1>18. ASSUME NEW k \in 1..K
       PROVE  SubSeq(s, b[k], e[k]) = parts[k]
  <2> DEFINE t == SubSeq(s, b[k], e[k])
  <2>1. b[k] \in Nat /\ e[k] \in Nat /\ e[k] - b[k] + 1 = lk(k) /\ lk(k) \in Nat /\ lk(k) > 0
        /\ b[k] <= e[k]
    BY <1>2, <1>11
  <2>2. \A i \in b[k]..e[k] : s[i] \in S
    BY <1>12
  <2>3. /\ t \in Seq(S) /\ Len(t) = lk(k)
        /\ \A i \in 1..lk(k) : t[i] = s[b[k] + i - 1]
    BY <2>1, <2>2, SubSeqProperties
  <2>4. Len(parts[k]) = lk(k) /\ parts[k] \in Seq(S)
    BY <1>1 DEF lk
  <2>5. ASSUME NEW i \in 1..Len(t) PROVE t[i] = parts[k][i]
    BY <1>11, <2>3
  <2> HIDE DEF t
  <2>6. t = parts[k]
    BY <2>3, <2>4, <2>5, SeqEqual
  <2> QED BY <2>6 DEF t
<1>19. parts = [k \in 1..K |-> parts[k]]
  BY LenProperties DEF K
<1>20. Runs(s, seps) = parts
  BY <1>17, <1>18, <1>19
<1> QED BY <1>5, <1>6, <1>20 DEF R

-----------------------------------------------------------------------------
(* Fields                                                                   *)

LEMMA AsSeq ==
  ASSUME NEW N \in Nat, NEW S, NEW f \in [1..N -> S]
  PROVE  f \in Seq(S) /\ Len(f) = N
<1>1. f \in Seq(S)
  BY SeqDef
<1>2. Len(f) \in Nat /\ DOMAIN f = 1..Len(f) /\ DOMAIN f = 1..N
  BY <1>1, LenProperties
<1> QED BY <1>1, <1>2

(* What encode_field makes of a character                                   *)
Piece(c) == IF c \in DOMAIN HexOf THEN <<"%">> \o HexOf[c] ELSE <<c>>

LEMMA HexCodes ==
  /\ DOMAIN HexOf = {"SP", "#", "%"}
  /\ HexOf["SP"] = <<"2", "0">> /\ HexOf["#"] = <<"2", "3">> /\ HexOf["%"] = <<"2", "5">>
BY DEF HexOf

LEMMA OneAndTwo ==
  ASSUME NEW a, NEW b, NEW c, NEW S, a \in S, b \in S, c \in S
  PROVE  LET p == <<a>> \o <<b, c>>
         IN  p \in Seq(S) /\ Len(p) = 3 /\ p[1] = a /\ <<b, c>> = <<p[2], p[3]>>
<1> DEFINE u == <<a>>
           v == <<b, c>>
           p == u \o v
<1>1. /\ u \in Seq(S) /\ v \in Seq(S) /\ Len(u) = 1 /\ Len(v) = 2
      /\ u[1] = a /\ v[1] = b /\ v[2] = c
  OBVIOUS
<1> HIDE DEF u, v
<1>2. p \in Seq(S) /\ Len(p) = Len(u) + Len(v)
      /\ \A i \in 1..(Len(u) + Len(v)) : p[i] = IF i <= Len(u) THEN u[i] ELSE v[i - Len(u)]
  BY <1>1, ConcatProperties
<1> HIDE DEF p
<1>3. Len(p) = 3 /\ p[1] = a /\ p[2] = b /\ p[3] = c
  BY <1>1, <1>2
<1> QED BY <1>2, <1>3 DEF p, u, v

LEMMA PieceIs ==
  ASSUME NEW c
  PROVE  /\ c \notin DOMAIN HexOf => Piece(c) = <<c>>
         /\ c \in DOMAIN HexOf =>
               /\ Piece(c) \in Seq({"%", "2", "0", "3", "5"}) /\ Len(Piece(c)) = 3
               /\ Piece(c)[1] = "%" /\ HexOf[c] = <<Piece(c)[2], Piece(c)[3]>>
<1> DEFINE S == {"%", "2", "0", "3", "5"}
<1>1. CASE c \in DOMAIN HexOf
  <2>1. PICK h, i : HexOf[c] = <<h, i>> /\ h \in S /\ i \in S
    BY <1>1, HexCodes
  <2>2. Piece(c) = <<"%">> \o <<h, i>>
    BY <1>1, <2>1 DEF Piece
  <2>3. "%" \in S
    OBVIOUS
  <2> HIDE DEF S
  <2>4. /\ Piece(c) \in Seq(S) /\ Len(Piece(c)) = 3 /\ Piece(c)[1] = "%"
        /\ <<h, i>> = <<Piece(c)[2], Piece(c)[3]>>
    BY <2>1, <2>2, <2>3, OneAndTwo
  <2> QED BY <1>1, <2>1, <2>4 DEF S
<1>2. CASE c \notin DOMAIN HexOf
  BY <1>2 DEF Piece
<1> QED BY <1>1, <1>2

LEMMA HexIsUnique == \A c, d \in DOMAIN HexOf : HexOf[c] = HexOf[d] => c = d
BY HexCodes

(* The symbols of encoded fields                                            *)
Encoded(C) == (C \ {"SP", "#", "%"}) \cup {"%", "2", "0", "3", "5"}

(* A field is encoded piece by piece.                                       *)
LEMMA Pieces ==
  ASSUME NEW C, NEW s \in Seq(C)
  PROVE  \E ss \in Seq(Seq(Encoded(C))) :
            /\ Len(ss) = Len(s) /\ encode_field(s) = FlattenSeq(ss)
            /\ \A k \in 1..Len(s) : ss[k] = Piece(s[k])
<1> DEFINE ss == [i \in 1..Len(s) |-> Piece(s[i])]
<1>1. Len(s) \in Nat /\ \A k \in 1..Len(s) : s[k] \in C
  BY LenProperties, ElementOfSeq
<1>2. ASSUME NEW k \in 1..Len(s) PROVE Piece(s[k]) \in Seq(Encoded(C))
  <2> DEFINE c == s[k]
  <2>0. c \in C
    BY <1>1
  <2> HIDE DEF c
  <2>1. CASE c \in DOMAIN HexOf
    <3>1. Piece(c) \in Seq({"%", "2", "0", "3", "5"})
      BY <2>1, PieceIs
    <3>2. {"%", "2", "0", "3", "5"} \subseteq Encoded(C)
      BY DEF Encoded
    <3> QED BY <3>1, <3>2, SeqMonotonic DEF c
  <2>2. CASE c \notin DOMAIN HexOf
    <3>1. Piece(c) = <<c>> /\ c \in Encoded(C)
      BY <2>0, <2>2, PieceIs, HexCodes DEF Encoded
    <3> QED BY <3>1 DEF c
  <2> QED BY <2>1, <2>2
<1>3. ss \in [1..Len(s) -> Seq(Encoded(C))]
  BY <1>2
<1>4. ss \in Seq(Seq(Encoded(C))) /\ Len(ss) = Len(s)
  <2> HIDE DEF ss
  <2> QED BY <1>1, <1>3, AsSeq
<1>5. encode_field(s) = FlattenSeq(ss)
  BY DEF encode_field, Piece
<1>6. \A k \in 1..Len(s) : ss[k] = Piece(s[k])
  OBVIOUS
<1> HIDE DEF ss
<1> QED BY <1>4, <1>5, <1>6

(* A field is decoded step by step.                                         *)
Decodes(t, read) ==
    /\ read[0] = [out |-> <<>>, skip |-> 0]
    /\ \A i \in 1..Len(t) : read[i] = DecodeStep(t, read[i - 1], i)
    /\ decode_field(t) = read[Len(t)].out

LEMMA Decoding ==
  ASSUME NEW C, NEW t \in Seq(C)
  PROVE  \E read : Decodes(t, read)
<1> DEFINE S == C \cup DOMAIN HexOf
           N == Len(t)
           X == [out : Seq(S), skip : 0..2]
           a == [out |-> <<>>, skip |-> 0]
           g == [x \in X \X (1..N) |-> DecodeStep(t, x[1], x[2])]
           read[i \in 0..N] == IF i = 0 THEN a ELSE DecodeStep(t, read[i - 1], i)
<1>1. N \in Nat /\ \A i \in 1..N : t[i] \in S
  BY LenProperties, ElementOfSeq
<1>2. a \in X
  BY EmptySeq
<1>3. ASSUME NEW r \in X, NEW i \in 1..N
      PROVE  DecodeStep(t, r, i) \in X
  <2>1. r.out \in Seq(S) /\ r.skip \in 0..2
    OBVIOUS
  <2> DEFINE D == CodesAt(t, i)
  <2>2. D \subseteq S
    BY DEF CodesAt
  <2>3. t[i] \in S
    BY <1>1
  <2> HIDE DEF S, D
  <2>4. CASE r.skip > 0
    <3>1. r.skip - 1 \in 0..2
      BY <2>1, <2>4
    <3>2. DecodeStep(t, r, i) = [out |-> r.out, skip |-> r.skip - 1]
      BY <2>4 DEF DecodeStep
    <3> QED BY <2>1, <3>1, <3>2
  <2>5. CASE ~(r.skip > 0) /\ D # {}
    <3>1. (CHOOSE c \in D : TRUE) \in S
      BY <2>2, <2>5
    <3>2. DecodeStep(t, r, i) = [out |-> Append(r.out, CHOOSE c \in D : TRUE), skip |-> 2]
      BY <2>5 DEF DecodeStep, D
    <3> QED BY <2>1, <3>1, <3>2, AppendProperties
  <2>6. CASE ~(r.skip > 0) /\ D = {}
    <3>1. DecodeStep(t, r, i) = [out |-> Append(r.out, t[i]), skip |-> 0]
      BY <2>6 DEF DecodeStep, D
    <3> QED BY <2>1, <2>3, <3>1, AppendProperties
  <2> QED BY <2>4, <2>5, <2>6
<1> HIDE DEF X
<1>4. g \in [X \X (1..N) -> X]
  <2> SUFFICES ASSUME NEW x \in X \X (1..N) PROVE DecodeStep(t, x[1], x[2]) \in X
    OBVIOUS
  <2>1. x[1] \in X /\ x[2] \in 1..N
    OBVIOUS
  <2> QED BY <1>3, <2>1
<1>5. \A x \in X, i \in 1..N : g[<<x, i>>] = DecodeStep(t, x, i)
  OBVIOUS
<1> HIDE DEF g, N, a
<1>6. PICK h \in [0..N -> X] : Steps(h, N, a, g)
  BY <1>1, <1>2, <1>4, StepByStep
<1>7. h[0] = a /\ \A i \in 1..N : h[i] = DecodeStep(t, h[i - 1], i)
  <2>1. h[0] = a /\ \A i \in 1..N : h[i] = g[<<h[i - 1], i>>]
    BY <1>6 DEF Steps
  <2>2. ASSUME NEW i \in 1..N PROVE h[i] = DecodeStep(t, h[i - 1], i)
    <3>1. i - 1 \in 0..N
      BY <1>1
    <3>2. h[i - 1] \in X
      BY <1>6, <3>1
    <3> QED BY <1>5, <2>1, <3>2
  <2> QED BY <2>1, <2>2
<1>8. \E k : k = [i \in 0..N |-> IF i = 0 THEN a ELSE DecodeStep(t, k[i - 1], i)]
  <2> DEFINE H == [i \in 0..N |-> IF i = 0 THEN a ELSE DecodeStep(t, h[i - 1], i)]
  <2>1. ASSUME NEW i \in 0..N
        PROVE  h[i] = IF i = 0 THEN a ELSE DecodeStep(t, h[i - 1], i)
    <3>1. CASE i = 0
      BY <1>7, <3>1
    <3>2. CASE i # 0
      <4>1. i \in 1..N
        BY <1>1, <3>2
      <4> QED BY <1>7, <3>2, <4>1
    <3> QED BY <3>1, <3>2
  <2>2. h = H
    BY <1>6, <2>1
  <2> QED BY <2>2, Zenon DEF H
<1>9. read = [i \in 0..N |-> IF i = 0 THEN a ELSE DecodeStep(t, read[i - 1], i)]
  BY <1>8
<1>10. decode_field(t) = read[N].out
  BY DEF decode_field, N, a
<1> HIDE DEF read
<1>11. read[0] = a /\ \A i \in 1..N : read[i] = DecodeStep(t, read[i - 1], i)
  <2>1. 0 \in 0..N /\ \A i \in 1..N : i \in 0..N /\ i # 0
    BY <1>1
  <2>2. \A i \in 0..N : read[i] = IF i = 0 THEN a ELSE DecodeStep(t, read[i - 1], i)
    BY <1>9, Zenon
  <2> QED BY <2>1, <2>2
<1>12. Decodes(t, read)
  BY <1>10, <1>11 DEF Decodes, N, a
<1> QED BY <1>12

LEMMA OneLonger ==
  ASSUME NEW C, NEW s \in Seq(C), NEW k \in Nat, k + 1 <= Len(s)
  PROVE  SubSeq(s, 1, k + 1) = Append(SubSeq(s, 1, k), s[k + 1])
<1>1. Len(s) \in Nat /\ \A i \in 1..k : s[i] \in C
  BY LenProperties, ElementOfSeq
<1>2. 1 \in 1..Len(s) /\ k + 1 \in 1..Len(s) /\ (k + 1) - 1 = k /\ s[k + 1] \in C
  BY <1>1, ElementOfSeq
<1>3. SubSeq(s, 1, k) \in Seq(C)
  BY <1>1, SubSeqProperties
<1>4. SubSeq(s, 1, k + 1) = SubSeq(s, 1, (k + 1) - 1) \o <<s[k + 1]>>
  BY <1>2, SubSeqRecursiveSecond
<1> QED BY <1>2, <1>3, <1>4, AppendIsConcat

(* decode_field takes back what encode_field did, whatever the name: blanks *)
(* and '#', a '%' that looks like the beginning of a code, and no symbol at *)
(* all (events_file.h:44 and :61).                                          *)
THEOREM FieldReadsBack ==
  ASSUME NEW C, NEW s \in Seq(C)
  PROVE  /\ encode_field(s) \in Seq(Encoded(C)) /\ Len(encode_field(s)) >= Len(s)
         /\ decode_field(encode_field(s)) = s
<1> DEFINE t == encode_field(s)
           N == Len(s)
<1>1. N \in Nat /\ \A k \in 1..N : s[k] \in C
  BY LenProperties, ElementOfSeq
<1>2. PICK ss \in Seq(Seq(Encoded(C))) : /\ Len(ss) = N /\ t = FlattenSeq(ss)
                                        /\ \A k \in 1..N : ss[k] = Piece(s[k])
  BY Pieces
<1> HIDE DEF t, N
<1>3. t \in Seq(Encoded(C)) /\ \E L : LaidOut(t, ss, L)
  BY <1>2, Laying
<1>4. PICK L : LaidOut(t, ss, L)
  BY <1>3
<1>5. PICK read : Decodes(t, read)
  BY <1>3, Decoding
<1>6. /\ L \in [0..N -> Nat] /\ L[0] = 0 /\ L[N] = Len(t) /\ Len(t) \in Nat
      /\ \A k \in 1..N : /\ L[k] = L[k - 1] + Len(Piece(s[k])) /\ L[k] <= L[N]
                         /\ \A i \in 1..Len(Piece(s[k])) : t[L[k - 1] + i] = Piece(s[k])[i]
  <2>1. L \in [0..N -> Nat] /\ L[0] = 0 /\ L[N] = Len(t)
    BY <1>2, <1>4 DEF LaidOut
  <2>2. ASSUME NEW k \in 1..N
        PROVE  /\ L[k] = L[k - 1] + Len(Piece(s[k])) /\ L[k] <= L[N]
               /\ \A i \in 1..Len(Piece(s[k])) : t[L[k - 1] + i] = Piece(s[k])[i]
    <3>1. k \in 0..N /\ N \in 0..N /\ k <= N /\ ss[k] = Piece(s[k])
      BY <1>1, <1>2
    <3> QED BY <1>2, <1>4, <3>1 DEF LaidOut
  <2>3. Len(t) \in Nat
    BY <1>3, LenProperties
  <2> QED BY <2>1, <2>2, <2>3
<1>7. /\ read[0] = [out |-> <<>>, skip |-> 0]
      /\ \A i \in 1..Len(t) : read[i] = DecodeStep(t, read[i - 1], i)
      /\ decode_field(t) = read[Len(t)].out
  BY <1>5 DEF Decodes
<1> DEFINE P(k) == L[k] >= k /\ read[L[k]] = [out |-> SubSeq(s, 1, k), skip |-> 0]
<1>8. P(0)
  <2>1. SubSeq(s, 1, 0) = <<>>
    BY SubSeqEmpty
  <2> QED BY <1>6, <1>7, <2>1
<1>9. ASSUME NEW k \in Nat, k + 1 <= N, P(k)
      PROVE  P(k + 1)
  <2> DEFINE c == s[k + 1]
             o == L[k]
             p == Piece(c)
             out == SubSeq(s, 1, k)
  <2>1. k + 1 \in 1..N /\ k \in 0..N /\ (k + 1) - 1 = k /\ k + 1 \in 0..N
    BY <1>1, <1>9
  <2>2. /\ o \in Nat /\ L[k + 1] \in Nat /\ L[k + 1] = o + Len(p) /\ L[k + 1] <= Len(t)
        /\ \A i \in 1..Len(p) : t[o + i] = p[i]
    BY <1>6, <2>1
  <2>3. o >= k /\ read[o] = [out |-> out, skip |-> 0]
    BY <1>9
  <2>4. SubSeq(s, 1, k + 1) = Append(out, c)
    BY <1>9, OneLonger DEF N
  <2> HIDE DEF c, o, p, out
  <2>5. CASE c \notin DOMAIN HexOf
    <3>1. p = <<c>>
      BY <2>5, PieceIs DEF p
    <3>2. Len(p) = 1 /\ p[1] = c
      BY <3>1
    <3>3. L[k + 1] = o + 1 /\ t[o + 1] = c /\ o + 1 \in 1..Len(t) /\ (o + 1) - 1 = o
      BY <1>6, <2>2, <3>2
    <3>4. CodesAt(t, o + 1) = {}
      BY <2>5, <3>3, HexCodes DEF CodesAt
    <3>5. read[o + 1] = DecodeStep(t, read[o], o + 1)
      BY <1>7, <3>3
    <3>6. DecodeStep(t, read[o], o + 1) = [out |-> Append(out, c), skip |-> 0]
      BY <2>3, <3>3, <3>4 DEF DecodeStep
    <3>7. L[k + 1] >= k + 1
      BY <2>2, <2>3, <3>3
    <3>8. read[L[k + 1]] = [out |-> SubSeq(s, 1, k + 1), skip |-> 0]
      BY <2>4, <3>3, <3>5, <3>6
    <3> QED BY <3>7, <3>8
  <2>6. CASE c \in DOMAIN HexOf
    <3>1. Len(p) = 3 /\ p[1] = "%" /\ HexOf[c] = <<p[2], p[3]>>
      BY <2>6, PieceIs DEF p
    <3>2. /\ t[o + 1] = "%" /\ t[o + 2] = p[2] /\ t[o + 3] = p[3]
      BY <2>2, <3>1
    <3>3. /\ L[k + 1] = o + 3 /\ (o + 1) - 1 = o /\ (o + 2) - 1 = o + 1 /\ (o + 3) - 1 = o + 2
          /\ (o + 1) + 1 = o + 2 /\ (o + 1) + 2 = o + 3 /\ (o + 1) + 2 <= Len(t)
          /\ o + 1 \in 1..Len(t) /\ o + 2 \in 1..Len(t) /\ o + 3 \in 1..Len(t)
      BY <1>6, <2>2, <3>1
    <3>4. HexOf[c] = <<t[(o + 1) + 1], t[(o + 1) + 2]>>
      BY <3>1, <3>2, <3>3
    <3>5. CodesAt(t, o + 1) = {c}
      <4>1. c \in CodesAt(t, o + 1)
        BY <2>6, <3>2, <3>3, <3>4 DEF CodesAt
      <4>2. ASSUME NEW d \in CodesAt(t, o + 1) PROVE d = c
        <5>1. d \in DOMAIN HexOf /\ HexOf[d] = HexOf[c]
          BY <3>4 DEF CodesAt
        <5> QED BY <2>6, <5>1, HexIsUnique
      <4> QED BY <4>1, <4>2
    <3>6. read[o + 1] = [out |-> Append(out, c), skip |-> 2]
      <4>1. read[o + 1] = DecodeStep(t, read[o], o + 1)
        BY <1>7, <3>3
      <4>2. (CHOOSE x \in {c} : TRUE) = c
        OBVIOUS
      <4>3. ~(read[o].skip > 0) /\ read[o].out = out
        BY <2>3
      <4>4. CodesAt(t, o + 1) # {} /\ (CHOOSE x \in CodesAt(t, o + 1) : TRUE) = c
        BY <3>5, <4>2
      <4>5. DecodeStep(t, read[o], o + 1) =
              [out |-> Append(read[o].out, CHOOSE x \in CodesAt(t, o + 1) : TRUE), skip |-> 2]
        BY <4>3, <4>4 DEF DecodeStep
      <4> QED BY <4>1, <4>3, <4>4, <4>5
    <3>7. read[o + 2] = [out |-> Append(out, c), skip |-> 1]
      <4>1. read[o + 2] = DecodeStep(t, read[o + 1], o + 2)
        BY <1>7, <3>3
      <4> QED BY <3>6, <4>1 DEF DecodeStep
    <3>8. read[o + 3] = [out |-> Append(out, c), skip |-> 0]
      <4>1. read[o + 3] = DecodeStep(t, read[o + 2], o + 3)
        BY <1>7, <3>3
      <4> QED BY <3>7, <4>1 DEF DecodeStep
    <3>9. L[k + 1] >= k + 1
      BY <2>2, <2>3, <3>3
    <3>10. read[L[k + 1]] = [out |-> SubSeq(s, 1, k + 1), skip |-> 0]
      BY <2>4, <3>3, <3>8
    <3> QED BY <3>9, <3>10
  <2> QED BY <2>5, <2>6
<1> HIDE DEF P
<1>10. P(N)
  <2> DEFINE T == {k \in Nat : k <= N => P(k)}
  <2>1. 0 \in T
    BY <1>8
  <2>2. ASSUME NEW k \in T PROVE k + 1 \in T
    <3> SUFFICES ASSUME k + 1 <= N PROVE P(k + 1)
      OBVIOUS
    <3>1. k \in Nat /\ k <= N
      BY <1>1
    <3> QED BY <1>9, <3>1
  <2>3. T \subseteq Nat
    OBVIOUS
  <2> HIDE DEF T
  <2>4. T = Nat
    BY <2>1, <2>2, <2>3, SetInduction
  <2>5. N \in T
    BY <1>1, <2>4
  <2> QED BY <1>1, <2>5 DEF T
<1>11. SubSeq(s, 1, N) = s
  BY SubSeqFull DEF N
<1>12. read[Len(t)] = [out |-> s, skip |-> 0] /\ Len(t) >= N
  BY <1>6, <1>10, <1>11 DEF P
<1> QED BY <1>3, <1>7, <1>12 DEF t, N

LEMMA Selected ==
  ASSUME NEW C, NEW s \in Seq(C), NEW J \in SUBSET (1..Len(s))
  PROVE  /\ Select(s, J) \in Seq(C) /\ Len(Select(s, J)) <= Len(s)
         /\ \A k \in 1..Len(Select(s, J)) : \E i \in J : Select(s, J)[k] = s[i]
         /\ \A i \in J : \E k \in 1..Len(Select(s, J)) : Select(s, J)[k] = s[i]
<1>1. Len(s) \in Nat /\ \A i \in 1..Len(s) : s[i] \in C
  BY LenProperties, ElementOfSeq
<1>2. PICK N \in 0..Len(s) : \E p : Lists(p, N, J)
  BY <1>1, Enumerated
<1>3. PICK p : Lists(p, N, J)
  BY <1>2
<1> DEFINE t == [k \in 1..N |-> s[p[k]]]
<1>4. N \in Nat /\ N <= Len(s)
  BY <1>1
<1>5. Select(s, J) = t
  BY <1>3, <1>4, SelectIs
<1>6. \A k \in 1..N : t[k] = s[p[k]] /\ p[k] \in J
  BY <1>3 DEF Lists
<1>7. t \in [1..N -> C]
  BY <1>1, <1>6
<1> HIDE DEF t
<1>8. t \in Seq(C) /\ Len(t) = N
  BY <1>4, <1>7, AsSeq
<1>9. \A i \in J : \E k \in 1..N : t[k] = s[i]
  BY <1>3, <1>6 DEF Lists
<1> QED BY <1>4, <1>5, <1>6, <1>8, <1>9

LEMMA FlagsAre ==
  /\ Letters \in Seq({"w", "c", "s", "x"}) /\ Len(Letters) = 4
  /\ \A i, j \in 1..4 : Letters[i] = Letters[j] => i = j
  /\ {Flags[i] : i \in 1..4} = {"WRITE", "CREATE", "SENSITIVE", "EXEC"}
<1>1. /\ Letters[1] = "w" /\ Letters[2] = "c" /\ Letters[3] = "s" /\ Letters[4] = "x"
      /\ Flags[1] = "WRITE" /\ Flags[2] = "CREATE" /\ Flags[3] = "SENSITIVE" /\ Flags[4] = "EXEC"
      /\ Letters \in Seq({"w", "c", "s", "x"}) /\ Len(Letters) = 4
  BY DEF Letters, Flags
<1>2. 1..4 = {1, 2, 3, 4}
  OBVIOUS
<1> QED BY <1>1, <1>2

LEMMA AccessReadsBack ==
  ASSUME NEW a \in SUBSET {"WRITE", "CREATE", "SENSITIVE", "EXEC"}
  PROVE  /\ access_to_str(a) \in Seq({"w", "c", "s", "x", "-"}) /\ Len(access_to_str(a)) > 0
         /\ access_from_str(access_to_str(a)) = a
<1> DEFINE S == {"w", "c", "s", "x"}
           J == {i \in 1..4 : Flags[i] \in a}
           t == Select(Letters, J)
           r == OrMark(t, "-")
<1>1. /\ Letters \in Seq(S) /\ Len(Letters) = 4 /\ J \in SUBSET (1..Len(Letters))
      /\ \A i, j \in 1..4 : Letters[i] = Letters[j] => i = j
  BY FlagsAre
<1>2. \A f \in a : \E i \in J : f = Flags[i]
  <2>1. \A f \in a : f \in {Flags[i] : i \in 1..4}
    BY FlagsAre
  <2> QED BY <2>1
<1>3. \A i \in J : i \in 1..4 /\ Flags[i] \in a
  OBVIOUS
<1>3a. \A i \in 1..4 : Flags[i] \in a => i \in J
  OBVIOUS
<1>3b. \A i \in 1..4 : Letters[i] \in S
  BY <1>1, ElementOfSeq
<1>3c. access_to_str(a) = r
  BY DEF access_to_str
<1> HIDE DEF J, S
<1>4. /\ t \in Seq(S)
      /\ \A k \in 1..Len(t) : \E i \in J : t[k] = Letters[i]
      /\ \A i \in J : \E k \in 1..Len(t) : t[k] = Letters[i]
  BY <1>1, Selected, ZenonT(30)
<1>5. Len(t) \in Nat /\ DOMAIN t = 1..Len(t) /\ (t # <<>> => Len(t) > 0)
  BY <1>4, LenProperties, EmptySeq
<1> HIDE DEF t
<1>6. r \in Seq(S \cup {"-"}) /\ Len(r) > 0
  <2>1. CASE t = <<>>
    <3>1. r = <<"-">>
      BY <2>1 DEF OrMark
    <3>2. \A x, R : x \in R => <<x>> \in Seq(R) /\ Len(<<x>>) = 1
      OBVIOUS
    <3>3. "-" \in S \cup {"-"}
      OBVIOUS
    <3>4. r \in Seq(S \cup {"-"}) /\ Len(r) = 1
      BY <3>1, <3>2, <3>3, Zenon
    <3> HIDE DEF r
    <3> QED BY <3>4
  <2>2. CASE t # <<>>
    <3>1. r = t
      BY <2>2 DEF OrMark
    <3>2. t \in Seq(S \cup {"-"})
      BY <1>4, SeqMonotonic
    <3> QED BY <1>5, <2>2, <3>1, <3>2
  <2> QED BY <2>1, <2>2
<1>7. \A j \in 1..4 : Letters[j] \in ToSet(r) <=> j \in J
  <2> SUFFICES ASSUME NEW j \in 1..4 PROVE Letters[j] \in ToSet(r) <=> j \in J
    OBVIOUS
  <2>1. CASE t = <<>>
    <3>1. r = <<"-">> /\ Len(t) = 0
      BY <2>1 DEF OrMark
    <3>2. J = {}
      BY <1>4, <3>1
    <3>3. ToSet(r) = {"-"}
      <4>1. DOMAIN r = {1} /\ r[1] = "-"
        BY <3>1
      <4> QED BY <4>1 DEF ToSet
    <3> QED BY <1>3b, <3>2, <3>3 DEF S
  <2>2. CASE t # <<>>
    <3>1. r = t
      BY <2>2 DEF OrMark
    <3>2. \A x : x \in ToSet(t) <=> \E k \in 1..Len(t) : x = t[k]
      BY <1>5 DEF ToSet
    <3>3. ASSUME Letters[j] \in ToSet(t) PROVE j \in J
      <4>1. PICK k \in 1..Len(t) : Letters[j] = t[k]
        BY <3>2, <3>3
      <4>2. PICK i \in J : t[k] = Letters[i]
        BY <1>4
      <4>3. i = j
        BY <1>1, <1>3, <4>1, <4>2
      <4> QED BY <4>3
    <3>4. ASSUME j \in J PROVE Letters[j] \in ToSet(t)
      BY <1>4, <3>2, <3>4
    <3> QED BY <3>1, <3>3, <3>4
  <2> QED BY <2>1, <2>2
<1> HIDE DEF r
<1>8. access_from_str(r) = {Flags[i] : i \in J}
  <2>1. {j \in 1..4 : Letters[j] \in ToSet(r)} = J
    BY <1>3, <1>7
  <2> QED BY <2>1 DEF access_from_str
<1>9. {Flags[i] : i \in J} = a
  BY <1>2, <1>3
<1>10. S \cup {"-"} = {"w", "c", "s", "x", "-"}
  BY DEF S
<1> QED BY <1>3c, <1>6, <1>8, <1>9, <1>10

-----------------------------------------------------------------------------
(* Names and numbers                                                        *)

(* The symbols of a token, without the given marks                          *)
Words == {"execve", "connect", "fileopen", "anc:", ":", "|", "w", "c", "s", "x", "-",
          "%", "2", "0", "3", "5"}
Plain(marks) ==
    (Characters \cup {Text(x) : x \in Numbers} \cup Addresses \cup Words)
        \ ({"SP", "VT", "#"} \cup marks)

(* A part of a line                                                         *)
Part(f, marks) == f \in Seq(Plain(marks)) /\ Len(f) > 0

LEMMA PlainLess == \A f, marks : Part(f, marks) => Part(f, {})
<1> SUFFICES ASSUME NEW f, NEW marks, Part(f, marks) PROVE Part(f, {})
  OBVIOUS
<1>1. Plain(marks) \subseteq Plain({})
  BY DEF Plain
<1> HIDE DEF Plain
<1> QED BY <1>1, SeqMonotonic DEF Part

LEMMA OneSymbol ==
  ASSUME NEW x, NEW S, x \in S
  PROVE  <<x>> \in Seq(S) /\ Len(<<x>>) = 1 /\ <<x>>[1] = x /\ <<x>> # <<>>
OBVIOUS

LEMMA PlainSymbol ==
  ASSUME NEW x, NEW marks, x \in Plain(marks)
  PROVE  Part(<<x>>, marks)
<1> DEFINE S == Plain(marks)
           t == <<x>>
<1>1. t \in Seq(S) /\ Len(t) = 1
  BY OneSymbol
<1> HIDE DEF t, S
<1>2. Len(t) > 0
  BY <1>1
<1> QED BY <1>1, <1>2 DEF Part, t, S

LEMMA NumberReadsBack ==
  ASSUME NEW x \in Numbers
  PROVE  /\ Part(<<Text(x)>>, {":", "|"}) /\ Part(<<Text(x)>>, {}) /\ IsNumber(<<Text(x)>>)
         /\ \A tok : tok[1] = Text(x) => Value(tok) = x
<1>1. Text(x) \in Plain({":", "|"})
  BY EventsFileAssumption DEF Plain, Marks
<1>2. Part(<<Text(x)>>, {":", "|"}) /\ Part(<<Text(x)>>, {})
  BY <1>1, PlainSymbol, PlainLess
<1>3. IsNumber(<<Text(x)>>)
  BY DEF IsNumber
<1>4. ASSUME NEW tok, tok[1] = Text(x) PROVE Value(tok) = x
  <2>1. \A y \in Numbers : tok[1] = Text(y) => y = x
    BY <1>4, EventsFileAssumption
  <2> QED BY <1>4, <2>1 DEF Value
<1> QED BY <1>2, <1>3, <1>4

(* A name that is not empty                                                 *)
LEMMA NameReadsBack ==
  ASSUME NEW marks, "VT" \in marks, marks \cap {"%", "2", "0", "3", "5"} = {},
         NEW s \in Name(marks), s # <<>>
  PROVE  Part(encode_field(s), marks) /\ decode_field(encode_field(s)) = s
<1> DEFINE C == Characters \ marks
<1>1. s \in Seq(Characters) /\ ToSet(s) \cap marks = {}
  BY DEF Name, Without
<1>2. s \in Seq(C)
  <2>1. Len(s) \in Nat /\ s \in [1..Len(s) -> Characters] /\ DOMAIN s = 1..Len(s)
    BY <1>1, LenProperties
  <2>2. \A i \in 1..Len(s) : s[i] \in ToSet(s)
    BY <2>1 DEF ToSet
  <2>3. s \in [1..Len(s) -> C]
    BY <1>1, <2>1, <2>2
  <2> HIDE DEF C
  <2> QED BY <2>1, <2>3, SeqDef
<1>3. Encoded(C) \subseteq Plain(marks)
  <2> SUFFICES ASSUME NEW x \in Encoded(C) PROVE x \in Plain(marks)
    OBVIOUS
  <2> DEFINE H == {"%", "2", "0", "3", "5"}
  <2>0. x \in C \ {"SP", "#", "%"} \/ x \in H
    BY DEF Encoded
  <2>1. x \in Characters \cup Words /\ x \notin marks /\ x \notin {"SP", "#"}
    <3>1. H \subseteq Words /\ H \cap {"SP", "#"} = {} /\ H \cap marks = {}
      BY DEF Words
    <3> HIDE DEF H
    <3> QED BY <2>0, <3>1
  <2>2. x # "VT"
    BY <2>1
  <2> QED BY <2>1, <2>2 DEF Plain
<1> HIDE DEF C
<1>4. /\ encode_field(s) \in Seq(Encoded(C)) /\ Len(encode_field(s)) >= Len(s)
      /\ decode_field(encode_field(s)) = s
  BY <1>2, FieldReadsBack
<1>5. encode_field(s) \in Seq(Plain(marks))
  BY <1>3, <1>4, SeqMonotonic
<1>6. Len(s) \in Nat \ {0} /\ Len(encode_field(s)) \in Nat
  <2>1. Len(s) \in Nat \ {0}
    BY <1>1, EmptySeq
  <2>2. Len(encode_field(s)) \in Nat
    BY <1>4, LenProperties
  <2> QED BY <2>1, <2>2
<1>7. Len(encode_field(s)) > 0
  BY <1>4, <1>6
<1> QED BY <1>4, <1>5, <1>7 DEF Part

LEMMA MarkedName ==
  ASSUME NEW marks, NEW mark \in Characters \ marks, NEW s \in Name(marks)
  PROVE  OrMark(s, mark) \in Name(marks) /\ OrMark(s, mark) # <<>>
<1>1. CASE s = <<>>
  <2> DEFINE t == <<mark>>
  <2>1. OrMark(s, mark) = t
    BY <1>1 DEF OrMark
  <2>2. t \in Seq(Characters) /\ t # <<>> /\ DOMAIN t = {1} /\ t[1] = mark
    <3>1. t \in Seq(Characters) /\ t # <<>> /\ t[1] = mark /\ Len(t) = 1
      BY OneSymbol
    <3>2. DOMAIN t = 1..1 /\ 1..1 = {1}
      OBVIOUS
    <3> QED BY <3>1, <3>2
  <2> HIDE DEF t
  <2>3. Without(t, marks)
    BY <2>2 DEF Without, ToSet
  <2> QED BY <2>1, <2>2, <2>3 DEF Name
<1>2. CASE s # <<>>
  BY <1>2 DEF OrMark
<1> QED BY <1>1, <1>2

-----------------------------------------------------------------------------
(* Ancestry                                                                 *)

LEMMA Behind ==
  ASSUME NEW C, NEW s \in Seq(C), NEW t \in Seq(C)
  PROVE  /\ s \o t \in Seq(C) /\ Len(s \o t) = Len(s) + Len(t)
         /\ Len(s) \in Nat /\ Len(t) \in Nat
         /\ \A i \in 1..Len(s) : (s \o t)[i] = s[i]
         /\ SubSeq(s \o t, Len(s) + 1, Len(s \o t)) = t
<1> DEFINE w == s \o t
<1>1. /\ w \in Seq(C) /\ Len(w) = Len(s) + Len(t) /\ Len(s) \in Nat /\ Len(t) \in Nat
  BY ConcatProperties, LenProperties
<1>2. \A i \in 1..(Len(s) + Len(t)) : w[i] = IF i <= Len(s) THEN s[i] ELSE t[i - Len(s)]
  BY ConcatProperties
<1> HIDE DEF w
<1>3. \A i \in 1..Len(s) : w[i] = s[i]
  BY <1>1, <1>2
<1> DEFINE a == Len(s) + 1
           z == Len(w)
           v == SubSeq(w, a, z)
<1>4. a \in Int /\ z \in Int /\ z - a + 1 = Len(t) /\ \A i \in a..z : i \in 1..Len(w)
  BY <1>1
<1>5. \A i \in a..z : w[i] \in C
  BY <1>1, <1>4, ElementOfSeq
<1> HIDE DEF a, z
<1>6. /\ v \in Seq(C) /\ Len(v) = (IF a <= z THEN z - a + 1 ELSE 0)
      /\ \A i \in 1..(z - a + 1) : v[i] = w[a + i - 1]
  BY <1>4, <1>5, SubSeqProperties
<1> HIDE DEF v
<1>7. Len(v) = Len(t)
  BY <1>1, <1>4, <1>6
<1>8. ASSUME NEW i \in 1..Len(v) PROVE v[i] = t[i]
  <2>1. /\ a + i - 1 = Len(s) + i /\ Len(s) + i \in 1..(Len(s) + Len(t)) /\ ~(Len(s) + i <= Len(s))
        /\ (Len(s) + i) - Len(s) = i /\ i \in 1..(z - a + 1)
    BY <1>1, <1>4, <1>7 DEF a
  <2>2. v[i] = w[Len(s) + i]
    BY <1>6, <2>1
  <2> QED BY <1>2, <2>1, <2>2
<1>9. v = t
  BY <1>6, <1>7, <1>8, SeqEqual
<1> QED BY <1>1, <1>3, <1>9 DEF v, a, z, w

LEMMA GenerationReadsBack ==
  ASSUME NEW g \in Generation
  PROVE  LET p == EncodeGeneration(g)
         IN  /\ Part(p, {"|"}) /\ ":" \in ToSet(p)
             /\ ParseGeneration(p, FirstColon(p)) = [g EXCEPT !.comm = OrMark(@, "?")]
<1> DEFINE name == OrMark(g.comm, "?")
           field == encode_field(name)
           x == Text(g.pid)
           a == <<x, ":">>
           p == a \o field
           S == Plain({"|"})
<1>1. g.pid \in Numbers /\ g.comm \in Name({"VT", "|"}) /\ g = [pid |-> g.pid, comm |-> g.comm]
  BY DEF Generation
<1>2. name \in Name({"VT", "|"}) /\ name # <<>>
  <2>1. "?" \in Characters \ {"VT", "|"}
    BY EventsFileAssumption
  <2> QED BY <1>1, <2>1, MarkedName
<1>3. Part(field, {"VT", "|"}) /\ decode_field(field) = name
  <2> DEFINE M == {"VT", "|"}
  <2>1. "VT" \in M /\ M \cap {"%", "2", "0", "3", "5"} = {} /\ name \in Name(M)
    BY <1>2
  <2> HIDE DEF M, name
  <2>2. Part(encode_field(name), M) /\ decode_field(encode_field(name)) = name
    BY <1>2, <2>1, NameReadsBack
  <2> QED BY <2>2 DEF M
<1>4. field \in Seq(S) /\ Len(field) \in Nat /\ Len(field) > 0
  <2>1. Plain({"VT", "|"}) \subseteq S
    BY DEF Plain
  <2>2. field \in Seq(S) /\ Len(field) > 0
    BY <1>3, <2>1, SeqMonotonic DEF Part
  <2> QED BY <2>2, LenProperties
<1>5. x \in S /\ ":" \in S /\ x # ":"
  <2>1. x \in {Text(y) : y \in Numbers} /\ x \notin Marks
    BY <1>1, EventsFileAssumption
  <2> QED BY <2>1 DEF Plain, Words, Marks
<1>6. /\ a \in Seq(S) /\ Len(a) = 2 /\ a[1] = x /\ a[2] = ":"
  <2> HIDE DEF x, S
  <2> QED BY <1>5
<1> HIDE DEF a, x, S, field, name
<1>7. /\ p \in Seq(S) /\ Len(p) = 2 + Len(field)
      /\ p[1] = x /\ p[2] = ":" /\ SubSeq(p, 3, Len(p)) = field
  <2>1. /\ p \in Seq(S) /\ Len(p) = Len(a) + Len(field)
        /\ \A i \in 1..Len(a) : p[i] = a[i]
        /\ SubSeq(p, Len(a) + 1, Len(p)) = field
    BY <1>4, <1>6, Behind
  <2>2. p[1] = a[1] /\ p[2] = a[2]
    BY <1>6, <2>1
  <2>3. Len(a) + 1 = 3
    BY <1>6
  <2> QED BY <1>6, <2>1, <2>2, <2>3
<1>8. EncodeGeneration(g) = p
  BY DEF EncodeGeneration, a, x, field, name
<1> HIDE DEF p
<1>9. Len(p) \in Nat /\ Len(p) > 2 /\ DOMAIN p = 1..Len(p)
  BY <1>4, <1>7, LenProperties
<1>10. Part(p, {"|"})
  BY <1>7, <1>9 DEF Part, S
<1>11. ":" \in ToSet(p)
  <2>1. 2 \in DOMAIN p
    BY <1>9
  <2> QED BY <1>7, <2>1 DEF ToSet
<1>12. FirstColon(p) = 2
  <2> DEFINE Q == {i \in 1..Len(p) : p[i] = ":"}
  <2>1. 2 \in Q /\ \A i \in Q : i \in Int /\ 2 <= i
    <3>1. 2 \in Q
      BY <1>7, <1>9
    <3>2. ASSUME NEW i \in Q PROVE i \in Int /\ 2 <= i
      <4>1. i \in 1..Len(p) /\ i # 1
        BY <1>5, <1>7
      <4> QED BY <4>1
    <3> QED BY <3>1, <3>2
  <2> HIDE DEF Q
  <2>2. (CHOOSE y \in Q : \A z \in Q : y <= z) = 2
    BY <2>1
  <2>3. Min(Q) = 2
    BY <2>2 DEF Min
  <2> QED BY <2>3 DEF FirstColon, Q
<1>13. ParseGeneration(p, 2) = [pid |-> g.pid, comm |-> name]
  <2>1. SubSeq(p, 1, 2 - 1) = <<x>>
    <3> DEFINE q == SubSeq(p, 1, 1)
               r == <<x>>
    <3>1. \A i \in 1..1 : p[i] \in S
      BY <1>5, <1>7
    <3>2. q \in Seq(S) /\ Len(q) = 1 /\ q[1] = p[1]
      BY <3>1, SubSeqProperties
    <3>3. r \in Seq(S) /\ Len(r) = 1 /\ r[1] = x
      BY <1>5
    <3> HIDE DEF q, r
    <3>4. q = r
      BY <1>7, <3>2, <3>3, SeqEqual
    <3> QED BY <3>4 DEF q, r
  <2>2. IsNumber(<<x>>) /\ Value(p) = g.pid
    BY <1>1, <1>7, NumberReadsBack DEF x
  <2>3. SubSeq(p, 2 + 1, Len(p)) = field
    BY <1>7
  <2> QED BY <1>3, <2>1, <2>2, <2>3 DEF ParseGeneration
<1>14. [g EXCEPT !.comm = OrMark(@, "?")] = [pid |-> g.pid, comm |-> name]
  BY <1>1 DEF name
<1> QED BY <1>8, <1>10, <1>11, <1>12, <1>13, <1>14

LEMMA SelectAll ==
  ASSUME NEW C, NEW s \in Seq(C)
  PROVE  Select(s, 1..Len(s)) = s
<1> DEFINE N == Len(s)
           S == 1..N
           p == [i \in 1..N |-> i]
<1>1. N \in Nat
  BY LenProperties
<1>1a. s = [i \in 1..N |-> s[i]]
  BY LenProperties
<1>2. \A i \in 1..N : p[i] = i
  OBVIOUS
<1>3. Lists(p, N, S)
  BY DEF Lists
<1> HIDE DEF N, S, p
<1>4. Select(s, S) = [k \in 1..N |-> s[p[k]]]
  BY <1>1, <1>3, SelectIs
<1>5. [k \in 1..N |-> s[p[k]]] = [k \in 1..N |-> s[k]]
  BY <1>2
<1> QED BY <1>1a, <1>4, <1>5 DEF N, S

LEMMA MinOfTwo == ASSUME NEW a \in Nat, NEW b \in Nat, a <= b PROVE Min({a, b}) = a
<1>1. a \in {a, b} /\ \A y \in {a, b} : a <= y
  OBVIOUS
<1>2. \A x \in {a, b} : (\A y \in {a, b} : x <= y) => x = a
  OBVIOUS
<1> QED BY <1>1, <1>2 DEF Min

LEMMA AncestryReadsBack ==
  ASSUME NEW anc \in Seq(Generation), Len(anc) <= PQSEC_ANCESTORS
  PROVE  /\ Generations(anc) \in Seq(Generation)
         /\ Len(Generations(anc)) <= PQSEC_ANCESTORS
         /\ Generations(anc) = <<>> => encode_ancestry(anc) = <<>>
         /\ Generations(anc) # <<>> =>
               \E tok : /\ encode_ancestry(anc) = <<tok>> /\ Part(tok, {}) /\ tok[1] = "anc:"
                        /\ parse_ancestry(tok) = Ancestors(Generations(anc))
<1> DEFINE gens == Generations(anc)
           K == Len(gens)
           parts == [i \in 1..K |-> EncodeGeneration(gens[i])]
           S == Plain({"|"})
           R == S \cup {"|"}
           j == Join(parts, "|")
           tok == <<"anc:">> \o j
<1>1. gens \in Seq(Generation) /\ K <= Len(anc)
  <2> DEFINE J == {i \in 1..Len(anc) : ~IsEmpty(anc[i])}
  <2>1. J \in SUBSET (1..Len(anc)) /\ gens = Select(anc, J)
    BY DEF Generations
  <2> HIDE DEF J, gens
  <2> QED BY <2>1, Selected
<1>2. PQSEC_ANCESTORS \in Nat /\ K \in Nat /\ K <= PQSEC_ANCESTORS
  <2>1. Len(anc) \in Nat /\ K \in Nat /\ PQSEC_ANCESTORS \in Nat
    BY <1>1, LenProperties, EventsFileAssumption
  <2> HIDE DEF K
  <2> QED BY <1>1, <2>1
<1>2a. ASSUME gens = <<>> PROVE encode_ancestry(anc) = <<>>
  BY <1>2a DEF encode_ancestry
<1>2b. ASSUME gens # <<>> PROVE encode_ancestry(anc) = <<tok>>
  BY <1>2b DEF encode_ancestry
<1> HIDE DEF gens, K
<1>3. ASSUME NEW i \in 1..K
      PROVE  /\ gens[i] \in Generation /\ parts[i] = EncodeGeneration(gens[i])
             /\ parts[i] \in Seq(S) /\ Len(parts[i]) > 0 /\ ":" \in ToSet(parts[i])
             /\ ParseGeneration(parts[i], FirstColon(parts[i])) =
                  [gens[i] EXCEPT !.comm = OrMark(@, "?")]
  <2> DEFINE g == gens[i]
  <2>1. g \in Generation
    BY <1>1, ElementOfSeq DEF K
  <2>2. parts[i] = EncodeGeneration(g)
    OBVIOUS
  <2> HIDE DEF g, parts
  <2>3. /\ Part(parts[i], {"|"}) /\ ":" \in ToSet(parts[i])
        /\ ParseGeneration(parts[i], FirstColon(parts[i])) = [g EXCEPT !.comm = OrMark(@, "?")]
    BY <2>1, <2>2, GenerationReadsBack
  <2> QED BY <2>1, <2>2, <2>3 DEF g, Part
<1>4. parts \in Seq(Seq(S)) /\ Len(parts) = K
  <2>1. parts \in [1..K -> Seq(S)]
    BY <1>3
  <2> HIDE DEF parts
  <2> QED BY <1>2, <2>1, AsSeq
<1> HIDE DEF parts
<1>5. j \in Seq(R) /\ Runs(j, {"|"}) = parts
  <2>1. S \cap {"|"} = {} /\ "|" \in {"|"}
    BY DEF Plain
  <2>2. \A k \in 1..Len(parts) : Len(parts[k]) > 0
    BY <1>3, <1>4
  <2> HIDE DEF S
  <2>3. Separable(parts, S, {"|"})
    BY <1>4, <2>1, <2>2 DEF Separable
  <2> QED BY <2>1, <2>3, JoinRuns
<1> HIDE DEF j
<1>6. /\ Part(tok, {}) /\ tok[1] = "anc:" /\ Tail(tok) = j
  <2> DEFINE P == Plain({})
             a == <<"anc:">>
  <2>1. R \subseteq P /\ "anc:" \in P
    BY DEF Plain, Words
  <2>2. a \in Seq(P) /\ Len(a) = 1 /\ a[1] = "anc:"
    BY <2>1
  <2>3. j \in Seq(P)
    BY <1>5, <2>1, SeqMonotonic
  <2> HIDE DEF P, a, R
  <2>4. /\ a \o j \in Seq(P) /\ Len(a \o j) = Len(a) + Len(j) /\ Len(j) \in Nat
        /\ \A i \in 1..Len(a) : (a \o j)[i] = a[i]
        /\ SubSeq(a \o j, Len(a) + 1, Len(a \o j)) = j
    BY <2>2, <2>3, Behind
  <2> DEFINE w == a \o j
  <2>5. w \in Seq(P) /\ Len(w) = 1 + Len(j) /\ w[1] = "anc:" /\ SubSeq(w, 2, Len(w)) = j
    BY <2>2, <2>4
  <2>6. w = tok
    BY DEF a
  <2> HIDE DEF w, tok
  <2>7. Len(w) > 0
    BY <2>4, <2>5
  <2>8. w # <<>>
    BY <2>7
  <2>9. Tail(w) = j
    BY <2>5, <2>8, TailIsSubSeq
  <2> QED BY <2>5, <2>6, <2>7, <2>9 DEF Part, P
<1> HIDE DEF tok
<1>7. parse_ancestry(tok) = Ancestors(gens)
  <2> DEFINE all == Runs(Tail(tok), {"|"})
             kept == Select(all, {i \in 1..Len(all) : ":" \in ToSet(all[i])})
  <2>1. all = parts
    BY <1>5, <1>6
  <2>2. {i \in 1..Len(all) : ":" \in ToSet(all[i])} = 1..Len(parts)
    BY <1>3, <1>4, <2>1
  <2>3. kept = parts
    BY <1>4, <2>1, <2>2, SelectAll
  <2>4. parse_ancestry(tok) = [i \in 1..Min({Len(kept), PQSEC_ANCESTORS}) |->
                                 ParseGeneration(kept[i], FirstColon(kept[i]))]
    BY DEF parse_ancestry
  <2> HIDE DEF kept
  <2>5. Min({Len(kept), PQSEC_ANCESTORS}) = K
    BY <1>2, <1>4, <2>3, MinOfTwo
  <2>6. \A i \in 1..K : ParseGeneration(kept[i], FirstColon(kept[i])) =
                          [gens[i] EXCEPT !.comm = OrMark(@, "?")]
    BY <1>3, <2>3
  <2> QED BY <2>4, <2>5, <2>6 DEF Ancestors, K
<1>8. gens # <<>> => \E t : /\ encode_ancestry(anc) = <<t>> /\ Part(t, {}) /\ t[1] = "anc:"
                           /\ parse_ancestry(t) = Ancestors(gens)
  BY <1>2b, <1>6, <1>7
<1> QED BY <1>1, <1>2, <1>2a, <1>8 DEF gens, K

LEMMA OverlayOfOne ==
  ASSUME NEW ancs, Len(ancs) = 1, NEW a, ancs[1] = a, NEW K \in Nat, K <= PQSEC_ANCESTORS,
         Len(a) = K, a = [i \in 1..K |-> a[i]]
  PROVE  Overlay(ancs) = a
<1> DEFINE from(g) == {i \in 1..Len(ancs) : Len(ancs[i]) >= g}
           D == {k \in 1..PQSEC_ANCESTORS : from(k) # {}}
<1>1. PQSEC_ANCESTORS \in Nat
  BY EventsFileAssumption
<1>2. \A g \in Int : from(g) = IF g <= K THEN {1} ELSE {}
  OBVIOUS
<1>3. D = 1..K
  <2> HIDE DEF from
  <2> QED BY <1>1, <1>2
<1>4. Max({1}) = 1
  BY DEF Max
<1>5. \A g \in 1..K : ancs[Max(from(g))][g] = a[g]
  <2> SUFFICES ASSUME NEW g \in 1..K PROVE ancs[Max(from(g))][g] = a[g]
    OBVIOUS
  <2>1. from(g) = {1}
    BY <1>2
  <2> HIDE DEF from
  <2> QED BY <1>4, <2>1
<1>6. Overlay(ancs) = [g \in D |-> ancs[Max(from(g))][g]]
  BY DEF Overlay
<1> HIDE DEF D, from
<1> QED BY <1>3, <1>5, <1>6

LEMMA OverlayOfNone ==
  ASSUME NEW ancs, Len(ancs) = 0, NEW a, a = [i \in 1..0 |-> a[i]]
  PROVE  Overlay(ancs) = a
<1> DEFINE from(g) == {i \in 1..Len(ancs) : Len(ancs[i]) >= g}
           D == {k \in 1..PQSEC_ANCESTORS : from(k) # {}}
<1>1. D = {} /\ 1..0 = {}
  OBVIOUS
<1>2. Overlay(ancs) = [g \in D |-> ancs[Max(from(g))][g]]
  BY DEF Overlay
<1> HIDE DEF D, from
<1> QED BY <1>1, <1>2

(* The optional tokens of a line give the ancestry back.                    *)
LEMMA OptionalTokens ==
  ASSUME NEW anc \in Seq(Generation), Len(anc) <= PQSEC_ANCESTORS
  PROVE  /\ encode_ancestry(anc) \in Seq(Seq(Plain({})))
         /\ \A k \in 1..Len(encode_ancestry(anc)) : Len(encode_ancestry(anc)[k]) > 0
         /\ ParseAnc(encode_ancestry(anc)) = Ancestors(Generations(anc))
<1> DEFINE gens == Generations(anc)
           K == Len(gens)
           result == Ancestors(gens)
           toks == encode_ancestry(anc)
           J == {i \in 1..Len(toks) : toks[i][1] = "anc:"}
           ancs == Select(toks, J)
           parsed == [i \in 1..Len(ancs) |-> parse_ancestry(ancs[i])]
<1>1. gens \in Seq(Generation) /\ K \in Nat /\ K <= PQSEC_ANCESTORS
  BY AncestryReadsBack, LenProperties
<1>2. /\ gens = <<>> => toks = <<>>
      /\ gens # <<>> => \E tok : /\ toks = <<tok>> /\ Part(tok, {}) /\ tok[1] = "anc:"
                                 /\ parse_ancestry(tok) = result
  BY AncestryReadsBack
<1>3. result = [i \in 1..K |-> result[i]] /\ Len(result) = K
  <2> DEFINE h == [i \in 1..K |-> [gens[i] EXCEPT !.comm = OrMark(@, "?")]]
  <2>1. result = h
    BY DEF Ancestors
  <2>2. h = [i \in 1..K |-> h[i]]
    OBVIOUS
  <2> HIDE DEF h, K
  <2>3. Len(h) = K
    <3>1. h \in [1..K -> {h[i] : i \in 1..K}]
      BY <2>2
    <3> QED BY <1>1, <3>1, AsSeq
  <2> QED BY <2>1, <2>2, <2>3
<1>4. ParseAnc(toks) = Overlay(parsed)
  BY DEF ParseAnc
<1> HIDE DEF gens, toks, result
<1>5. CASE gens = <<>>
  <2>1. toks = <<>> /\ K = 0
    BY <1>2, <1>5
  <2>2. toks \in Seq(Seq(Plain({}))) /\ Len(toks) = 0
    BY <2>1, EmptySeq
  <2>3. J = 1..Len(toks)
    BY <2>2
  <2>4. ancs = toks
    BY <2>2, <2>3, SelectAll
  <2>5. Len(parsed) = 0
    <3>1. parsed = [i \in 1..0 |-> parse_ancestry(ancs[i])]
      BY <2>2, <2>4
    <3>2. [i \in 1..0 |-> parse_ancestry(ancs[i])] = <<>>
      OBVIOUS
    <3> QED BY <3>1, <3>2
  <2> HIDE DEF parsed
  <2>6. Overlay(parsed) = result
    BY <1>3, <2>1, <2>5, OverlayOfNone
  <2> QED BY <1>4, <2>2, <2>6 DEF toks, result, gens
<1>6. CASE gens # <<>>
  <2>1. PICK tok : /\ toks = <<tok>> /\ Part(tok, {}) /\ tok[1] = "anc:"
                   /\ parse_ancestry(tok) = result
    BY <1>2, <1>6
  <2>2. toks \in Seq(Seq(Plain({}))) /\ Len(toks) = 1 /\ toks[1] = tok /\ Len(tok) > 0
    <3>1. tok \in Seq(Plain({})) /\ Len(tok) > 0
      BY <2>1 DEF Part
    <3> QED BY <2>1, <3>1, OneSymbol
  <2>3. J = 1..Len(toks)
    BY <2>1, <2>2
  <2>4. ancs = toks
    BY <2>2, <2>3, SelectAll
  <2>5. parsed = [i \in 1..1 |-> parse_ancestry(toks[i])]
    BY <2>2, <2>4
  <2>6. parsed[1] = result
    <3>1. parse_ancestry(toks[1]) = result
      BY <2>1, <2>2
    <3>2. [i \in 1..1 |-> parse_ancestry(toks[i])][1] = parse_ancestry(toks[1])
      OBVIOUS
    <3> HIDE DEF parsed
    <3> QED BY <2>5, <3>1, <3>2
  <2>7. Len(parsed) = 1
    <3>1. parsed \in [1..1 -> {result}]
      BY <2>5, <2>6
    <3> HIDE DEF parsed
    <3> QED BY <3>1, AsSeq
  <2> HIDE DEF parsed
  <2>8. Overlay(parsed) = result
    BY <1>1, <1>3, <2>6, <2>7, OverlayOfOne
  <2>9. \A k \in 1..Len(toks) : Len(toks[k]) > 0
    BY <2>2
  <2> QED BY <1>4, <2>2, <2>8, <2>9 DEF toks, result, gens
<1> QED BY <1>5, <1>6

-----------------------------------------------------------------------------
(* Lines                                                                    *)

Token == {f \in Seq(Plain({})) : Part(f, {})}

LEMMA PartIsToken == \A f : Part(f, {}) => f \in Token
BY DEF Token, Part

(* A line that was written comes apart into its tokens.                     *)
LEMMA LineTokens ==
  ASSUME NEW toks \in Seq(Token)
  PROVE  /\ Join(toks, "SP") \in Seq(Plain({}) \cup {"SP"})
         /\ parse_line(Join(toks, "SP")) =
              ParseTokens(toks, Runs(Comment(Join(toks, "SP")), Blank))
<1> DEFINE S == Plain({})
           line == Join(toks, "SP")
<1>1. S \cap Blank = {} /\ "SP" \in Blank /\ "#" \notin S \cup {"SP"}
  BY DEF Plain, Blank
<1>2. toks \in Seq(Seq(S)) /\ \A k \in 1..Len(toks) : Len(toks[k]) > 0
  <2>1. Token \subseteq Seq(S)
    BY DEF Token
  <2>2. toks \in Seq(Seq(S))
    BY <2>1, SeqMonotonic
  <2>3. \A k \in 1..Len(toks) : toks[k] \in Token
    BY ElementOfSeq
  <2> QED BY <2>2, <2>3 DEF Token, Part
<1> HIDE DEF S
<1>3. Separable(toks, S, Blank)
  BY <1>1, <1>2 DEF Separable
<1>4. line \in Seq(S \cup {"SP"}) /\ Runs(line, Blank) = toks
  BY <1>1, <1>3, JoinRuns
<1> HIDE DEF line
<1>5. \A i \in 1..Len(line) : line[i] # "#"
  BY <1>1, <1>4, ElementOfSeq
<1>6. Body(line) = line
  BY <1>5 DEF Body
<1>7. parse_line(line) = ParseTokens(toks, Runs(Comment(line), Blank))
  BY <1>4, <1>6 DEF parse_line
<1> QED BY <1>4, <1>7 DEF line, S

(* t is one token, three, those of f and those of o.                        *)
Composed(t, u, c, f, o) ==
    /\ Len(t) = 4 + Len(f) + Len(o) /\ Len(t) >= 4 + Len(f)
    /\ t[1] = u[1] /\ t[2] = c[1] /\ t[3] = c[2] /\ t[4] = c[3]
    /\ \A i \in 1..Len(f) : t[4 + i] = f[i]
    /\ SubSeq(t, 4 + Len(f) + 1, Len(t)) = o

LEMMA FourParts ==
  ASSUME NEW C, NEW u \in Seq(C), Len(u) = 1, NEW c \in Seq(C), Len(c) = 3,
         NEW f \in Seq(C), NEW o \in Seq(C)
  PROVE  ((u \o c) \o f) \o o \in Seq(C) /\ Composed(((u \o c) \o f) \o o, u, c, f, o)
<1> DEFINE x == u[1]
           v == u \o c
           w == v \o f
           t == w \o o
<1>1. u \in Seq(C) /\ Len(u) = 1 /\ u[1] = x
  OBVIOUS
<1> HIDE DEF x
<1>2. /\ v \in Seq(C) /\ Len(v) = 4 /\ v[1] = x /\ v[2] = c[1] /\ v[3] = c[2] /\ v[4] = c[3]
  <2>1. v \in Seq(C) /\ Len(v) = Len(u) + Len(c)
    BY <1>1, ConcatProperties
  <2>2. \A i \in 1..(Len(u) + Len(c)) : v[i] = IF i <= Len(u) THEN u[i] ELSE c[i - Len(u)]
    BY <1>1, ConcatProperties
  <2> HIDE DEF v
  <2> QED BY <1>1, <2>1, <2>2
<1> HIDE DEF v
<1>3. /\ w \in Seq(C) /\ Len(w) = 4 + Len(f) /\ Len(f) \in Nat
      /\ \A i \in 1..(4 + Len(f)) : w[i] = IF i <= 4 THEN v[i] ELSE f[i - 4]
  <2>1. w \in Seq(C) /\ Len(w) = Len(v) + Len(f) /\ Len(f) \in Nat
    BY <1>2, ConcatProperties, LenProperties
  <2>2. \A i \in 1..(Len(v) + Len(f)) : w[i] = IF i <= Len(v) THEN v[i] ELSE f[i - Len(v)]
    BY <1>2, ConcatProperties
  <2> HIDE DEF w
  <2> QED BY <1>2, <2>1, <2>2
<1> HIDE DEF w
<1>4. /\ t \in Seq(C) /\ Len(t) = Len(w) + Len(o) /\ Len(o) \in Nat
      /\ \A i \in 1..Len(w) : t[i] = w[i]
      /\ SubSeq(t, Len(w) + 1, Len(t)) = o
  <2>1. w \in Seq(C)
    BY <1>3
  <2> QED BY <2>1, Behind
<1>5. t = ((u \o c) \o f) \o o
  BY DEF w, v
<1> HIDE DEF t
<1>5a. Len(w) + 1 = 4 + Len(f) + 1
  BY <1>3
<1>6. \A i \in 1..4 : t[i] = v[i]
  <2> SUFFICES ASSUME NEW i \in 1..4 PROVE t[i] = v[i]
    OBVIOUS
  <2>1. i \in 1..Len(w) /\ i \in 1..(4 + Len(f)) /\ i <= 4
    BY <1>3
  <2> QED BY <1>3, <1>4, <2>1
<1>7. t[1] = x /\ t[2] = c[1] /\ t[3] = c[2] /\ t[4] = c[3]
  <2>1. 1 \in 1..4 /\ 2 \in 1..4 /\ 3 \in 1..4 /\ 4 \in 1..4
    OBVIOUS
  <2> QED BY <1>2, <1>6, <2>1
<1>8. ASSUME NEW i \in 1..Len(f) PROVE t[4 + i] = f[i]
  <2>1. /\ 4 + i \in 1..Len(w) /\ 4 + i \in 1..(4 + Len(f)) /\ ~(4 + i <= 4) /\ (4 + i) - 4 = i
    BY <1>3
  <2> QED BY <1>3, <1>4, <2>1
<1>9. Len(t) = 4 + Len(f) + Len(o) /\ Len(t) >= 4 + Len(f)
  <2> DEFINE a == Len(t)
             b == Len(f)
             d == Len(o)
             e == Len(w)
  <2>1. a = e + d /\ e = 4 + b /\ b \in Nat /\ d \in Nat
    BY <1>3, <1>4
  <2> HIDE DEF a, b, d, e
  <2>2. a = 4 + b + d /\ a >= 4 + b
    BY <2>1
  <2> QED BY <2>2 DEF a, b, d
<1>10. SubSeq(t, 4 + Len(f) + 1, Len(t)) = o
  <2>1. SubSeq(t, Len(w) + 1, Len(t)) = o
    BY <1>4
  <2> QED BY <1>5a, <2>1, Zenon
<1>11. Composed(t, u, c, f, o)
  BY <1>7, <1>8, <1>9, <1>10 DEF x, Composed
<1> QED BY <1>4, <1>5, <1>11

LEMMA CommonTokens ==
  ASSUME NEW p \in Program
  PROVE  /\ Common(p) \in Seq(Token) /\ Len(Common(p)) = 3
         /\ IsNumber(Common(p)[1]) /\ Value(Common(p)[1]) = p.pid
         /\ IsNumber(Common(p)[2]) /\ Value(Common(p)[2]) = p.ppid
         /\ decode_field(Common(p)[3]) = OrMark(p.comm, "?")
<1> DEFINE a == <<Text(p.pid)>>
           b == <<Text(p.ppid)>>
           name == OrMark(p.comm, "?")
           c == encode_field(name)
<1>1. p.pid \in Numbers /\ p.ppid \in Numbers /\ p.comm \in Name({"VT"})
  BY DEF Program
<1>2. /\ Part(a, {}) /\ IsNumber(a) /\ Value(a) = p.pid
      /\ Part(b, {}) /\ IsNumber(b) /\ Value(b) = p.ppid
  BY <1>1, NumberReadsBack
<1>3. Part(c, {"VT"}) /\ decode_field(c) = name
  <2>1. "?" \in Characters \ {"VT"}
    BY EventsFileAssumption
  <2>2. name \in Name({"VT"}) /\ name # <<>>
    BY <1>1, <2>1, MarkedName
  <2>3. "VT" \in {"VT"} /\ {"VT"} \cap {"%", "2", "0", "3", "5"} = {}
    OBVIOUS
  <2> HIDE DEF name
  <2> QED BY <2>2, <2>3, NameReadsBack
<1>4. a \in Token /\ b \in Token /\ c \in Token
  BY <1>2, <1>3, PlainLess, PartIsToken
<1>5. Common(p) = <<a, b, c>>
  BY DEF Common
<1> HIDE DEF a, b, c, name
<1>6. <<a, b, c>> \in Seq(Token) /\ Len(<<a, b, c>>) = 3
      /\ <<a, b, c>>[1] = a /\ <<a, b, c>>[2] = b /\ <<a, b, c>>[3] = c
  BY <1>4
<1> QED BY <1>2, <1>3, <1>5, <1>6 DEF name

(* What the tokens of an event have in common                               *)
(* The tokens t of an event with fields F                                   *)
EventOf(t, type, p, F) ==
    /\ t \in Seq(Token) /\ t # <<>> /\ Len(t) >= Needed[type] /\ t[1] = <<type>>
    /\ IsNumber(t[2]) /\ IsNumber(t[3])
    /\ \A i \in 1..Len(F) : t[4 + i] = F[i]
    /\ ParseEvent(t, type) =
         [type |-> type,
          proc |-> [pid |-> p.pid, ppid |-> p.ppid, comm |-> OrMark(p.comm, "?"),
                    anc |-> Ancestors(Generations(p.anc))],
          u |-> ParseFields(t, type)]

LEMMA EventTokens ==
  ASSUME NEW type \in {"execve", "connect", "fileopen"}, NEW p \in Program,
         NEW F \in Seq(Token), 4 + Len(F) = Needed[type],
         NEW t, t = <<<<type>>>> \o Common(p) \o F \o encode_ancestry(p.anc)
  PROVE  EventOf(t, type, p, F)
<1> DEFINE x == <<type>>
           c == Common(p)
           o == encode_ancestry(p.anc)
<1>1. x \in Token
  <2>1. type \in Plain({})
    BY DEF Plain, Words
  <2> QED BY <2>1, PlainSymbol, PartIsToken
<1>2. /\ c \in Seq(Token) /\ Len(c) = 3
      /\ IsNumber(c[1]) /\ Value(c[1]) = p.pid
      /\ IsNumber(c[2]) /\ Value(c[2]) = p.ppid
      /\ decode_field(c[3]) = OrMark(p.comm, "?")
  BY CommonTokens
<1>3. o \in Seq(Token) /\ ParseAnc(o) = Ancestors(Generations(p.anc))
  <2>1. p.anc \in Seq(Generation) /\ Len(p.anc) <= PQSEC_ANCESTORS
    BY DEF Program
  <2>2. /\ o \in Seq(Seq(Plain({}))) /\ \A k \in 1..Len(o) : Len(o[k]) > 0
        /\ ParseAnc(o) = Ancestors(Generations(p.anc))
    BY <2>1, OptionalTokens
  <2> HIDE DEF o
  <2>3. Len(o) \in Nat /\ DOMAIN o = 1..Len(o) /\ o \in [1..Len(o) -> Seq(Plain({}))]
    BY <2>2, LenProperties
  <2>4. o \in [1..Len(o) -> Token]
    BY <2>2, <2>3 DEF Token, Part
  <2> QED BY <2>2, <2>3, <2>4, AsSeq
<1> HIDE DEF x, c, o
<1>4. /\ t \in Seq(Token) /\ Len(t) >= 4 + Len(F)
      /\ t[1] = x /\ t[2] = c[1] /\ t[3] = c[2] /\ t[4] = c[3]
      /\ \A i \in 1..Len(F) : t[4 + i] = F[i]
      /\ SubSeq(t, 4 + Len(F) + 1, Len(t)) = o
  <2>1. t = <<x>> \o c \o F \o o
    BY DEF x, c, o
  <2>2. c \in Seq(Token) /\ Len(c) = 3
    BY <1>2
  <2> DEFINE u == <<x>>
             w == ((u \o c) \o F) \o o
  <2>3. u \in Seq(Token) /\ Len(u) = 1 /\ u[1] = x
    BY <1>1, OneSymbol
  <2>4. w = t
    BY <2>1
  <2> HIDE DEF u
  <2>5. w \in Seq(Token) /\ Composed(w, u, c, F, o)
    BY <1>3, <2>2, <2>3, FourParts
  <2> HIDE DEF w
  <2> QED BY <2>3, <2>4, <2>5 DEF Composed
<1>5. t # <<>>
  <2>1. Len(F) \in Nat
    BY LenProperties
  <2>2. Len(t) > 0
    <3>1. Len(t) >= 4 + Len(F) /\ Len(t) \in Nat
      BY <1>4, LenProperties
    <3> QED BY <2>1, <3>1
  <2> QED BY <2>2
<1>6. SubSeq(t, Needed[type] + 1, Len(t)) = o
  BY <1>4
<1>7. ParseEvent(t, type) =
        [type |-> type,
         proc |-> [pid |-> p.pid, ppid |-> p.ppid, comm |-> OrMark(p.comm, "?"),
                   anc |-> Ancestors(Generations(p.anc))],
         u |-> ParseFields(t, type)]
  BY <1>2, <1>3, <1>4, <1>6 DEF ParseEvent
<1> QED BY <1>2, <1>4, <1>5, <1>7 DEF x, EventOf

LEMMA EventOfTokens ==
  ASSUME NEW type \in {"execve", "connect", "fileopen"}, NEW t, NEW c, t # <<>>,
         t[1] = <<type>>, WellFormed(t, type)
  PROVE  ParseTokens(t, c) = [kind |-> "event", ev |-> ParseEvent(t, type)]
<1>1. DOMAIN Needed = {"execve", "connect", "fileopen"}
  BY DEF Needed
<1>2. t[1] \in {<<x>> : x \in DOMAIN Needed} /\ t[1] # <<"delay">> /\ t[1][1] = type
  <2>1. <<type>> # <<"delay">> /\ <<type>>[1] = type
    OBVIOUS
  <2> QED BY <1>1, <2>1
<1> QED BY <1>2 DEF ParseTokens

LEMMA NormalIs ==
  ASSUME NEW type, NEW p, NEW u,
         NEW ev, ev = [type |-> type, proc |-> p, u |-> u]
  PROVE  Normal(ev) =
           [type |-> type,
            proc |-> [pid |-> p.pid, ppid |-> p.ppid, comm |-> OrMark(p.comm, "?"),
                      anc |-> Ancestors(Generations(p.anc))],
            u |-> IF type = "execve" THEN [filename |-> OrMark(u.filename, "?")] ELSE u]
<1>1. ev.type = type /\ ev.proc = p /\ ev.u = u
  OBVIOUS
<1> QED BY <1>1 DEF Normal

(* The parts of each type of event                                          *)
LEMMA ExecveFields ==
  ASSUME NEW u \in Own["execve"]
  PROVE  /\ Fields("execve", u) \in Seq(Token) /\ Len(Fields("execve", u)) = 1
         /\ decode_field(Fields("execve", u)[1]) = OrMark(u.filename, "?")
<1> DEFINE name == OrMark(u.filename, "?")
           c == encode_field(name)
<1>1. u.filename \in Name({"VT"})
  BY DEF Own
<1>2. name \in Name({"VT"}) /\ name # <<>>
  <2>1. "?" \in Characters \ {"VT"}
    BY EventsFileAssumption
  <2> QED BY <1>1, <2>1, MarkedName
<1>3. Part(c, {"VT"}) /\ decode_field(c) = name
  <2>1. "VT" \in {"VT"} /\ {"VT"} \cap {"%", "2", "0", "3", "5"} = {}
    OBVIOUS
  <2> HIDE DEF name
  <2> QED BY <1>2, <2>1, NameReadsBack
<1>4. c \in Token
  BY <1>3, PlainLess, PartIsToken
<1>5. Fields("execve", u) = <<c>>
  BY DEF Fields
<1> HIDE DEF c, name
<1>6. <<c>> \in Seq(Token) /\ Len(<<c>>) = 1 /\ <<c>>[1] = c
  BY <1>4, OneSymbol
<1> QED BY <1>3, <1>5, <1>6 DEF name

LEMMA ConnectFields ==
  ASSUME NEW u \in Own["connect"]
  PROVE  /\ Fields("connect", u) \in Seq(Token) /\ Len(Fields("connect", u)) = 2
         /\ Fields("connect", u)[1] = <<u.daddr>> /\ u.daddr \in Addresses
         /\ IsNumber(Fields("connect", u)[2]) /\ Value(Fields("connect", u)[2]) = u.dport
         /\ u = [daddr |-> u.daddr, dport |-> u.dport]
<1> DEFINE a == <<u.daddr>>
           b == <<Text(u.dport)>>
<1>1. u.daddr \in Addresses /\ u.dport \in Numbers /\ u = [daddr |-> u.daddr, dport |-> u.dport]
  BY DEF Own
<1>2. a \in Token
  <2>1. u.daddr \in Plain({})
    BY <1>1, EventsFileAssumption DEF Plain, Marks
  <2> QED BY <2>1, PlainSymbol, PartIsToken
<1>3. b \in Token /\ IsNumber(b) /\ Value(b) = u.dport
  BY <1>1, NumberReadsBack, PartIsToken
<1>4. Fields("connect", u) = <<a, b>>
  BY DEF Fields
<1> HIDE DEF b
<1>5. a = <<u.daddr>>
  OBVIOUS
<1> HIDE DEF a
<1>6. <<a, b>> \in Seq(Token) /\ Len(<<a, b>>) = 2 /\ <<a, b>>[1] = a /\ <<a, b>>[2] = b
  BY <1>2, <1>3
<1> QED BY <1>1, <1>3, <1>4, <1>5, <1>6

LEMMA FileopenFields ==
  ASSUME NEW u \in Own["fileopen"]
  PROVE  LET F == Fields("fileopen", u)
         IN  /\ F \in Seq(Token) /\ Len(F) = 4
             /\ access_from_str(F[1]) = u.access
             /\ IsNumber(F[2]) /\ Value(F[2]) = u.ino /\ IsNumber(F[3]) /\ Value(F[3]) = u.dev
             /\ Unmark(decode_field(F[4])) = u.path
             /\ u = [access |-> u.access, ino |-> u.ino, dev |-> u.dev, path |-> u.path]
<1> DEFINE name == OrMark(u.path, "-")
           a == access_to_str(u.access)
           b == <<Text(u.ino)>>
           c == <<Text(u.dev)>>
           d == encode_field(name)
           F == <<a, b, c, d>>
<1>1. /\ u.access \in SUBSET ToSet(Flags) /\ u.ino \in Numbers /\ u.dev \in Numbers
      /\ u.path \in Name({"VT"}) /\ u.path # <<"-">>
      /\ u = [access |-> u.access, ino |-> u.ino, dev |-> u.dev, path |-> u.path]
  BY DEF Own
<1>2. a \in Token /\ access_from_str(a) = u.access
  <2>1. ToSet(Flags) = {"WRITE", "CREATE", "SENSITIVE", "EXEC"}
    <3>1. DOMAIN Flags = 1..4
      BY DEF Flags
    <3> QED BY <3>1, FlagsAre DEF ToSet
  <2>2. /\ a \in Seq({"w", "c", "s", "x", "-"}) /\ Len(a) > 0
        /\ access_from_str(a) = u.access
    BY <1>1, <2>1, AccessReadsBack
  <2>3. {"w", "c", "s", "x", "-"} \subseteq Plain({})
    BY DEF Plain, Words
  <2> HIDE DEF a
  <2>4. a \in Seq(Plain({}))
    BY <2>2, <2>3, SeqMonotonic
  <2> QED BY <2>2, <2>4 DEF Token, Part
<1>3. b \in Token /\ IsNumber(b) /\ Value(b) = u.ino /\ c \in Token /\ IsNumber(c) /\ Value(c) = u.dev
  BY <1>1, NumberReadsBack, PartIsToken
<1>4. name \in Name({"VT"}) /\ name # <<>>
  <2>1. "-" \in Characters \ {"VT"}
    BY EventsFileAssumption
  <2> QED BY <1>1, <2>1, MarkedName
<1>5. d \in Token /\ decode_field(d) = name
  <2>1. "VT" \in {"VT"} /\ {"VT"} \cap {"%", "2", "0", "3", "5"} = {}
    OBVIOUS
  <2> HIDE DEF name
  <2>2. Part(d, {"VT"}) /\ decode_field(d) = name
    BY <1>4, <2>1, NameReadsBack
  <2> QED BY <2>2, PlainLess, PartIsToken
<1>6. Unmark(name) = u.path
  BY <1>1 DEF Unmark, OrMark
<1>7. Fields("fileopen", u) = F
  BY DEF Fields
<1> HIDE DEF a, b, c, d, name
<1>8. F \in Seq(Token) /\ Len(F) = 4 /\ F[1] = a /\ F[2] = b /\ F[3] = c /\ F[4] = d
  BY <1>2, <1>3, <1>5
<1> HIDE DEF F
<1>9. Unmark(decode_field(F[4])) = u.path
  BY <1>5, <1>6, <1>8
<1> QED BY <1>1, <1>2, <1>3, <1>7, <1>8, <1>9

(* The line that format_line writes for an event is read by parse as that   *)
(* event, up to the marks of empty fields and the empty generations: for    *)
(* all three types, every name, set of access letters and number of         *)
(* ancestors (events_file.h:12).                                            *)
THEOREM EventReadsBack ==
  ASSUME NEW ev \in Writable
  PROVE  /\ format_line(ev) \in Seq(Plain({}) \cup {"SP"})
         /\ parse_line(format_line(ev)) = [kind |-> "event", ev |-> Normal(ev)]
<1>1. PICK type \in {"execve", "connect", "fileopen"} :
        ev \in [type : {type}, proc : Program, u : Own[type]]
  <2>1. DOMAIN Own = {"execve", "connect", "fileopen"}
    BY DEF Own
  <2> QED BY <2>1, Zenon DEF Writable
<1> DEFINE p == ev.proc
           u == ev.u
           F == Fields(type, u)
           t == <<<<type>>>> \o Common(p) \o F \o encode_ancestry(p.anc)
           c == Runs(Comment(Join(t, "SP")), Blank)
<1>2. p \in Program /\ u \in Own[type] /\ ev = [type |-> type, proc |-> p, u |-> u] /\ ev.type = type
  BY <1>1
<1>3. format_line(ev) = Join(t, "SP")
  BY <1>2 DEF format_line
<1>4. F \in Seq(Token) /\ 4 + Len(F) = Needed[type]
  <2> HIDE DEF u
  <2>1. CASE type = "execve"
    <3>1. F \in Seq(Token) /\ Len(F) = 1
      BY <1>2, <2>1, ExecveFields
    <3> HIDE DEF F
    <3>2. Needed[type] = 4 + 1
      BY <2>1 DEF Needed
    <3> QED BY <3>1, <3>2
  <2>2. CASE type = "connect"
    <3>1. F \in Seq(Token) /\ Len(F) = 2
      BY <1>2, <2>2, ConnectFields
    <3> HIDE DEF F
    <3>2. Needed[type] = 4 + 2
      BY <2>2 DEF Needed
    <3> QED BY <3>1, <3>2
  <2>3. CASE type = "fileopen"
    <3>1. F \in Seq(Token) /\ Len(F) = 4
      BY <1>2, <2>3, FileopenFields
    <3> HIDE DEF F
    <3>2. Needed[type] = 4 + 4
      BY <2>3 DEF Needed
    <3> QED BY <3>1, <3>2
  <2> QED BY <2>1, <2>2, <2>3
<1> HIDE DEF c, p, u, F, t
<1>5. /\ t \in Seq(Token) /\ t # <<>> /\ Len(t) >= Needed[type] /\ t[1] = <<type>>
      /\ IsNumber(t[2]) /\ IsNumber(t[3])
      /\ \A i \in 1..Len(F) : t[4 + i] = F[i]
      /\ ParseEvent(t, type) =
           [type |-> type,
            proc |-> [pid |-> p.pid, ppid |-> p.ppid, comm |-> OrMark(p.comm, "?"),
                      anc |-> Ancestors(Generations(p.anc))],
            u |-> ParseFields(t, type)]
  <2>1. t = <<<<type>>>> \o Common(p) \o F \o encode_ancestry(p.anc)
    BY DEF t
  <2>2. p \in Program
    BY <1>2
  <2>3. EventOf(t, type, p, F)
    BY <1>4, <2>1, <2>2, EventTokens
  <2> QED BY <2>3 DEF EventOf
<1>6. /\ Join(t, "SP") \in Seq(Plain({}) \cup {"SP"})
      /\ parse_line(Join(t, "SP")) = ParseTokens(t, c)
  <2>1. t \in Seq(Token)
    BY <1>5
  <2> QED BY <2>1, LineTokens DEF c
<1>7. /\ WellFormed(t, type)
      /\ ParseFields(t, type) =
           IF type = "execve" THEN [filename |-> OrMark(u.filename, "?")] ELSE u
  <2>1. CASE type = "execve"
    <3>1. Len(F) = 1 /\ decode_field(F[1]) = OrMark(u.filename, "?")
      BY <1>2, <2>1, ExecveFields DEF F
    <3>2. t[5] = F[1]
      <4>1. 1 \in 1..Len(F) /\ 4 + 1 = 5
        BY <3>1
      <4> QED BY <1>5, <4>1
    <3>3. ParseFields(t, type) = [filename |-> OrMark(u.filename, "?")]
      BY <2>1, <3>1, <3>2 DEF ParseFields
    <3>4. WellFormed(t, type)
      BY <1>5, <2>1 DEF WellFormed
    <3> QED BY <2>1, <3>3, <3>4
  <2>2. CASE type = "connect"
    <3>1. /\ Len(F) = 2 /\ F[1] = <<u.daddr>> /\ u.daddr \in Addresses
          /\ IsNumber(F[2]) /\ Value(F[2]) = u.dport
          /\ u = [daddr |-> u.daddr, dport |-> u.dport]
      BY <1>2, <2>2, ConnectFields DEF F
    <3>2. t[5] = F[1] /\ t[6] = F[2]
      <4>1. 1 \in 1..Len(F) /\ 2 \in 1..Len(F) /\ 4 + 1 = 5 /\ 4 + 2 = 6
        BY <3>1
      <4>2. t[4 + 1] = F[1] /\ t[4 + 2] = F[2]
        BY <1>5, <4>1
      <4> QED BY <4>1, <4>2
    <3>3. t[5] = <<u.daddr>> /\ t[5][1] = u.daddr /\ IsNumber(t[6]) /\ Value(t[6]) = u.dport
      <4>1. <<u.daddr>>[1] = u.daddr
        OBVIOUS
      <4> QED BY <3>1, <3>2, <4>1
    <3>4. ParseFields(t, type) = u
      <4>1. ParseFields(t, type) = [daddr |-> t[5][1], dport |-> Value(t[6])]
        BY <2>2 DEF ParseFields
      <4> QED BY <3>1, <3>3, <4>1
    <3>5. t[5] \in {<<a>> : a \in Addresses}
      BY <3>1, <3>3
    <3>6. WellFormed(t, type)
      BY <1>5, <2>2, <3>3, <3>5 DEF WellFormed
    <3> QED BY <2>2, <3>4, <3>6
  <2>3. CASE type = "fileopen"
    <3>1. /\ Len(F) = 4 /\ access_from_str(F[1]) = u.access
          /\ IsNumber(F[2]) /\ Value(F[2]) = u.ino /\ IsNumber(F[3]) /\ Value(F[3]) = u.dev
          /\ Unmark(decode_field(F[4])) = u.path
          /\ u = [access |-> u.access, ino |-> u.ino, dev |-> u.dev, path |-> u.path]
      BY <1>2, <2>3, FileopenFields DEF F
    <3>2. t[5] = F[1] /\ t[6] = F[2] /\ t[7] = F[3] /\ t[8] = F[4]
      <4>1. /\ 1 \in 1..Len(F) /\ 2 \in 1..Len(F) /\ 3 \in 1..Len(F) /\ 4 \in 1..Len(F)
            /\ 4 + 1 = 5 /\ 4 + 2 = 6 /\ 4 + 3 = 7 /\ 4 + 4 = 8
        BY <3>1
      <4>2. t[4 + 1] = F[1] /\ t[4 + 2] = F[2] /\ t[4 + 3] = F[3] /\ t[4 + 4] = F[4]
        BY <1>5, <4>1
      <4> QED BY <4>1, <4>2
    <3>3. ParseFields(t, type) = u
      <4>1. ParseFields(t, type) =
              [access |-> access_from_str(t[5]), ino |-> Value(t[6]), dev |-> Value(t[7]),
               path |-> Unmark(decode_field(t[8]))]
        BY <2>3 DEF ParseFields
      <4> QED BY <3>1, <3>2, <4>1
    <3>4. WellFormed(t, type)
      BY <1>5, <2>3, <3>1, <3>2 DEF WellFormed
    <3> QED BY <2>3, <3>3, <3>4
  <2> QED BY <2>1, <2>2, <2>3
<1>8. ParseTokens(t, c) = [kind |-> "event", ev |-> ParseEvent(t, type)]
  BY <1>5, <1>7, EventOfTokens
<1>9. ParseEvent(t, type) = Normal(ev)
  <2>1. Normal(ev) =
           [type |-> type,
            proc |-> [pid |-> p.pid, ppid |-> p.ppid, comm |-> OrMark(p.comm, "?"),
                      anc |-> Ancestors(Generations(p.anc))],
            u |-> IF type = "execve" THEN [filename |-> OrMark(u.filename, "?")] ELSE u]
    BY <1>2, NormalIs
  <2> QED BY <1>5, <1>7, <2>1
<1> QED BY <1>3, <1>6, <1>8, <1>9

(* A line that is a comment from the start, or empty, is no event.          *)
LEMMA CommentLine ==
  ASSUME NEW line, Len(line) \in Nat, Len(line) = 0 \/ line[1] = "#"
  PROVE  parse_line(line) \in [kind : {"directive", "none"}]
<1> DEFINE body == Body(line)
           b == [k \in 1..0 |-> 1]
<1>1. Len(body) = 0
  <2> DEFINE hashes == {i \in 1..Len(line) : line[i] = "#"}
             h == CHOOSE i \in hashes : \A j \in hashes : i <= j
  <2>1. body = IF hashes = {} THEN line ELSE SubSeq(line, 1, h - 1)
    BY DEF Body
  <2>2. CASE Len(line) = 0
    <3>1. hashes = {}
      BY <2>2
    <3> HIDE DEF hashes, body
    <3> QED BY <2>1, <2>2, <3>1
  <2>3. CASE Len(line) # 0
    <3>1. 1 \in hashes /\ \A j \in hashes : 1 <= j
      BY <2>3
    <3>2. \A i \in hashes : i \in Nat
      OBVIOUS
    <3> HIDE DEF hashes
    <3>3. h \in hashes /\ h <= 1 /\ 1 <= h /\ h \in Nat
      BY <3>1, <3>2
    <3> HIDE DEF h
    <3>4. h - 1 = 0
      BY <3>3
    <3>5. Len(SubSeq(line, 1, 0)) = 0
      OBVIOUS
    <3> HIDE DEF body
    <3> QED BY <2>1, <3>1, <3>4, <3>5
  <2> QED BY <2>2, <2>3
<1> HIDE DEF body
<1>2. Runs(body, Blank) = [k \in 1..0 |-> SubSeq(body, b[k], b[k])]
  <2>1. Stretches(body, Blank, 0, b, b)
    BY <1>1 DEF Stretches
  <2> HIDE DEF b
  <2> QED BY <1>1, <2>1, RunsAre
<1>3. Runs(body, Blank) = <<>>
  BY <1>2
<1>4. parse_line(line) = ParseTokens(<<>>, Runs(Comment(line), Blank))
  BY <1>3 DEF parse_line, body
<1> QED BY <1>4 DEF ParseTokens

(* The line of a pause reads back.                                          *)
LEMMA DelayReadsBack ==
  ASSUME NEW d \in Numbers
  PROVE  parse_line(<<"delay", "SP", Text(d)>>) = [kind |-> "delay", ms |-> d]
<1> DEFINE x == Text(d)
           s == <<"delay", "SP", x>>
           b == [k \in 1..2 |-> IF k = 1 THEN 1 ELSE 3]
           t == Runs(s, Blank)
<1>1. x \notin {"SP", "VT", "#"} /\ IsNumber(<<x>>) /\ Value(<<x>>) = d
  BY NumberReadsBack, EventsFileAssumption DEF Marks
<1> HIDE DEF x
<1>2. Len(s) = 3 /\ s[1] = "delay" /\ s[2] = "SP" /\ s[3] = x
  OBVIOUS
<1>2a. s \in Seq({"delay", "SP", x}) /\ Len(s) \in Nat
  OBVIOUS
<1> HIDE DEF s
<1>3. SubSeq(s, 1, 1) = <<"delay">> /\ SubSeq(s, 3, 3) = <<x>>
  <2>1. ASSUME NEW i \in 1..3
        PROVE  SubSeq(s, i, i) = <<s[i]>>
    <3> DEFINE C == {"delay", "SP", x}
               w == SubSeq(s, i, i)
    <3>1. i \in Int /\ \A j \in i..i : s[j] \in C
      BY <1>2
    <3>2. i <= i /\ i - i + 1 = 1 /\ i + 1 - 1 = i
      OBVIOUS
    <3> HIDE DEF C
    <3>3. w \in Seq(C) /\ Len(w) = (IF i <= i THEN i - i + 1 ELSE 0)
          /\ \A j \in 1..(i - i + 1) : w[j] = s[i + j - 1]
      BY <3>1, SubSeqProperties
    <3> HIDE DEF w
    <3>4. w \in Seq(C) /\ Len(w) = 1 /\ w[1] = s[i]
      BY <3>2, <3>3
    <3>5. w = <<w[1]>>
      BY <3>4
    <3> QED BY <3>4, <3>5 DEF w
  <2> QED BY <1>2, <2>1
<1>4. Body(s) = s
  BY <1>1, <1>2 DEF Body
<1>5. b \in [1..2 -> 1..3] /\ b[1] = 1 /\ b[2] = 3
  OBVIOUS
<1> HIDE DEF b
<1>6. Stretches(s, Blank, 2, b, b)
  <2>1. ASSUME NEW k \in 1..2
        PROVE  /\ \A i \in b[k]..b[k] : s[i] \notin Blank
               /\ b[k] = 1 \/ s[b[k] - 1] \in Blank
               /\ b[k] = Len(s) \/ s[b[k] + 1] \in Blank
    <3>1. CASE k = 1
      BY <1>1, <1>2, <1>5, <3>1 DEF Blank
    <3>2. CASE k = 2
      BY <1>1, <1>2, <1>5, <3>2 DEF Blank
    <3> QED BY <3>1, <3>2
  <2>2. \A k, l \in 1..2 : k < l => b[k] < b[l]
    BY <1>5
  <2>3. \A i \in 1..Len(s) : s[i] \notin Blank => \E k \in 1..2 : i \in b[k]..b[k]
    <3>1. \A i \in 1..3 : i = 1 \/ i = 2 \/ i = 3
      OBVIOUS
    <3>2. 1 \in b[1]..b[1] /\ 3 \in b[2]..b[2] /\ 1 \in 1..2 /\ 2 \in 1..2
      BY <1>5
    <3> QED BY <1>2, <3>1, <3>2 DEF Blank
  <2> QED BY <1>2, <1>5, <2>1, <2>2, <2>3 DEF Stretches
<1>7. t = [k \in 1..2 |-> SubSeq(s, b[k], b[k])]
  <2> DEFINE K == 2
             e == b
  <2>1. Len(s) \in Nat /\ K \in Nat /\ Stretches(s, Blank, K, b, e)
    BY <1>2, <1>6
  <2> HIDE DEF K, e, t
  <2>2. Runs(s, Blank) = [k \in 1..K |-> SubSeq(s, b[k], e[k])]
    BY <2>1, RunsAre
  <2> QED BY <2>2 DEF K, e, t
<1> HIDE DEF t
<1>8. Len(t) = 2 /\ t[1] = <<"delay">> /\ t[2] = <<x>>
  <2> DEFINE C == {<<"delay">>, <<x>>}
             w(k) == SubSeq(s, b[k], b[k])
  <2>1. \A k \in 1..2 : w(k) \in C
    <3>1. w(1) \in C /\ w(2) \in C
      BY <1>3, <1>5
    <3>2. \A k \in 1..2 : k = 1 \/ k = 2
      OBVIOUS
    <3> HIDE DEF w, C
    <3> QED BY <3>1, <3>2
  <2>2. w(1) = <<"delay">> /\ w(2) = <<x>>
    BY <1>3, <1>5
  <2>3. t = [k \in 1..2 |-> w(k)]
    BY <1>7
  <2> HIDE DEF w, C
  <2>4. DOMAIN t = 1..2 /\ t \in [1..2 -> C] /\ t[1] = w(1) /\ t[2] = w(2)
    BY <2>1, <2>3
  <2>5. Len(t) = 2
    BY <2>4, AsSeq
  <2> QED BY <2>2, <2>4, <2>5
<1>9. parse_line(s) = ParseTokens(t, Runs(Comment(s), Blank))
  BY <1>4 DEF parse_line, t
<1>10. t # <<>>
  BY <1>8
<1>11. Len(t) >= 2 /\ IsNumber(t[2]) /\ Value(t[2]) = d
  BY <1>1, <1>8
<1>12. ParseTokens(t, Runs(Comment(s), Blank)) = [kind |-> "delay", ms |-> Value(t[2])]
  <2>1. <<"delay">> \notin {<<type>> : type \in DOMAIN Needed}
    <3>1. DOMAIN Needed = {"execve", "connect", "fileopen"}
      BY DEF Needed
    <3>2. \A type : <<"delay">> = <<type>> => type = "delay"
      OBVIOUS
    <3> QED BY <3>1, <3>2
  <2>2. t[1] \notin {<<type>> : type \in DOMAIN Needed} /\ t[1] = <<"delay">> /\ Len(t) >= 2
    BY <1>8, <2>1
  <2> QED BY <1>10, <1>11, <2>2 DEF ParseTokens
<1> QED BY <1>9, <1>11, <1>12 DEF s, x
=============================================================================
