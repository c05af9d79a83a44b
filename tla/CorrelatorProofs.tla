--------------------------- MODULE CorrelatorProofs --------------------------
(***************************************************************************)
(* Proofs about the correlator for any events, limits, window and disorder. *)
(* The tables forget: entries are popped at the front only, pushed out by a *)
(* limit, or swept with their key.  The invariant says of every entry of    *)
(* the complete record that a table no longer holds why it may be missing:  *)
(* it is older than the window, or a full table of younger entries stands   *)
(* in its place.                                                            *)
(*                                                                         *)
(* sk is how far a time stamp may lie behind the clock: Skew here, and less *)
(* where the events come from one clock.                                    *)
(***************************************************************************)
EXTENDS Correlator, SequenceTheorems, FiniteSetTheorems, WellFoundedInduction, TLAPS

(* A table and the record end with the same entries.                        *)
Aligned(h, t) ==
    \A d \in Nat : d < Len(h) /\ d < Len(t) => h[Len(h) - d] = t[Len(t) - d]

(* C1: table D, record R, latest time c, b reboots so far.                  *)
DownInv(D, R, c, sk, b) ==
    /\ D \in Seq(Downloads) /\ Len(D) <= kMaxDownloads
    /\ R \in Seq(Downloads)
    /\ Aligned(D, R)
    /\ b = 0 => Len(D) <= Len(R)
    /\ \A i \in 1..Len(R) : R[i].ts <= c
    /\ \A i, j \in 1..Len(R) : i < j => R[i].ts <= R[j].ts + sk
    /\ \A i \in 1..Len(R) :
          Len(R) - i >= Len(D) => \/ Len(R) - i >= kMaxDownloads
                                  \/ R[i].ts + Window < c

(* C2: the history h of one key and its record t.                           *)
HistInv(h, t, c, sk, b) ==
    /\ h \in Seq(Nat) /\ Len(h) <= kMaxHistPerKey
    /\ t \in Seq(Nat)
    /\ Aligned(h, t)
    /\ b = 0 => Len(h) <= Len(t)
    /\ \A i \in 1..Len(t) : t[i] <= c
    /\ \A i, j \in 1..Len(t) : i < j => t[i] <= t[j] + sk
    /\ \A i \in 1..Len(t) :
          Len(t) - i >= Len(h) => \/ Len(h) >= kMaxHistPerKey
                                  \/ t[i] + Window < c + sk

ConnsInv(f, g, c, sk, b) ==
    /\ \A k \in DOMAIN f : Len(f[k]) >= 1
    /\ \A k : HistInv(Get(f, k), Get(g, k), c, sk, b)

(* C3: table f, record g.                                                   *)
StagedInv(f, g, c, b) ==
    /\ \A p \in DOMAIN f : f[p] \in Nat
    /\ \A p \in DOMAIN g : g[p] \in Nat
    /\ b = 0 => \A p \in DOMAIN f : p \in DOMAIN g /\ f[p] = g[p]
    /\ \A p \in DOMAIN g : \/ p \in DOMAIN f /\ f[p] = g[p]
                           \/ g[p] + Window < c

(* The inductive invariant.                                                 *)
CorrInv(sk) ==
    /\ boots \in 0..MaxBoots /\ clock \in Nat
    /\ DownInv(downloads, seenDownloads, clock, sk, boots)
    /\ ConnsInv(conns, seenConns, clock, sk, boots)
    /\ StagedInv(staged, seenStaged, clock, boots)

-----------------------------------------------------------------------------
(* Helpers of the model.                                                    *)

(* r is s without its first k entries.                                      *)
Popped(r, s, k) ==
    /\ k \in 0..Len(s)
    /\ Len(r) = Len(s) - k
    /\ \A j \in 1..(Len(s) - k) : r[j] = s[j + k]

(* r is s without its first q entries, then x.                              *)
Pushed(r, s, x, q) ==
    /\ q \in {0, 1}
    /\ Len(r) = Len(s) + 1 - q
    /\ r[Len(s) + 1 - q] = x
    /\ \A j \in 1..(Len(s) - q) : r[j] = s[j + q]

LEMMA Limits ==
    /\ Window \in Nat /\ Skew \in Nat /\ MaxBoots \in Nat
    /\ Threshold \in Nat \ {0}
    /\ kMaxDownloads \in Nat \ {0}
    /\ kMaxHistPerKey \in Nat \ {0} /\ kMaxHistPerKey >= Threshold
<1>1. Window \in Nat /\ Skew \in Nat /\ MaxBoots \in Nat
  BY CorrelatorAssumption
<1>2. Threshold \in Nat \ {0} /\ kMaxDownloads \in Nat \ {0}
  BY CorrelatorAssumption
<1>3. kMaxHistPerKey \in Nat /\ kMaxHistPerKey >= Threshold
  BY CorrelatorAssumption
<1>. QED  BY <1>1, <1>2, <1>3

(* A non-empty set of numbers has a least element, the one that PopExpired  *)
(* chooses.                                                                 *)
LEMMA LeastElement ==
    ASSUME NEW T, T \subseteq Nat, T # {}
    PROVE  \E i \in T : \A j \in T : i <= j
<1>1. PICK x \in T : \A y \in T : ~(<<y, x>> \in OpToRel(<, Nat))
  BY NatLessThanWellFounded, WFMin, Zenon
<1>2. \A y \in T : ~(y < x)
  BY <1>1 DEF OpToRel
<1>. QED  BY <1>2

(* PopExpired takes off a prefix: every entry it drops is expired, and the  *)
(* first one it keeps is not (the while loop of correlator.cpp:81 and 126). *)
LEMMA PopFacts ==
    ASSUME NEW S, NEW s \in Seq(S), NEW ts, \A i \in 1..Len(s) : ts[i] \in Nat,
           NEW now \in Nat
    PROVE  \E k \in 0..Len(s) :
              /\ PopExpired(s, ts, now) \in Seq(S)
              /\ Popped(PopExpired(s, ts, now), s, k)
              /\ \A j \in 1..k : Expired(now, ts[j])
              /\ k < Len(s) => ~Expired(now, ts[k + 1])
<1>. DEFINE live == {i \in 1..Len(s) : ~Expired(now, ts[i])}
            i0 == CHOOSE i \in live : \A j \in live : i <= j
            r == SubSeq(s, i0, Len(s))
<1>0. Len(s) \in Nat /\ \A i \in 1..Len(s) : s[i] \in S
  BY LenProperties
<1>1. CASE live = {}
  <2>1. PopExpired(s, ts, now) = <<>>
    BY <1>1 DEF PopExpired
  <2>2. \A j \in 1..Len(s) : Expired(now, ts[j])
    BY <1>1
  <2>. QED  BY <1>0, <2>1, <2>2, EmptySeq DEF Popped
<1>2. CASE live # {}
  <2>1. PopExpired(s, ts, now) = r
    BY <1>2 DEF PopExpired
  <2>2. live \subseteq Nat
    BY <1>0
  <2>3. i0 \in live /\ \A j \in live : i0 <= j
    BY <1>2, <2>2, LeastElement
  <2>. HIDE DEF i0
  <2>4. i0 \in 1..Len(s) /\ ~Expired(now, ts[i0])
    BY <2>3
  <2>5. /\ r \in Seq(S)
        /\ Len(r) = Len(s) - i0 + 1
        /\ \A i \in 1..(Len(s) - i0 + 1) : r[i] = s[i0 + i - 1]
    <3>1. \A i \in i0..Len(s) : s[i] \in S
      BY <1>0, <2>4
    <3>. QED  BY <1>0, <2>4, <3>1, SubSeqProperties
  <2>. HIDE DEF r
  <2>6. \A j \in 1..(i0 - 1) : Expired(now, ts[j])
    BY <1>0, <2>3, <2>4
  <2>. DEFINE k == i0 - 1
  <2>7. k \in 0..Len(s) /\ k + 1 = i0 /\ Len(r) = Len(s) - k
    BY <1>0, <2>4, <2>5
  <2>8. \A j \in 1..(Len(s) - k) : r[j] = s[j + k]
    BY <1>0, <2>4, <2>5
  <2>9. \A j \in 1..k : Expired(now, ts[j])
    BY <2>6
  <2>. HIDE DEF k
  <2>. QED  BY <2>1, <2>4, <2>5, <2>7, <2>8, <2>9 DEF Popped
<1>. QED  BY <1>1, <1>2

(* PushBounded keeps the limit by dropping the oldest entry.                *)
LEMMA PushFacts ==
    ASSUME NEW S, NEW s \in Seq(S), NEW x \in S, NEW limit \in Nat \ {0},
           Len(s) <= limit
    PROVE  \E q \in {0, 1} :
              /\ q = 1 <=> Len(s) = limit
              /\ PushBounded(s, x, limit) \in Seq(S)
              /\ Pushed(PushBounded(s, x, limit), s, x, q)
<1>. DEFINE a == Append(s, x)
<1>0. Len(s) \in Nat
  BY LenProperties
<1>1. /\ a \in Seq(S) /\ a # <<>>
      /\ Len(a) = Len(s) + 1
      /\ \A i \in 1..Len(s) : a[i] = s[i]
      /\ a[Len(s) + 1] = x
  BY AppendProperties
<1>. HIDE DEF a
<1>2. CASE Len(s) = limit
  <2>1. PushBounded(s, x, limit) = Tail(a)
    BY <1>2, <1>0 DEF PushBounded, a
  <2>2. /\ Tail(a) \in Seq(S)
        /\ Len(Tail(a)) = Len(a) - 1
        /\ \A i \in 1..Len(Tail(a)) : Tail(a)[i] = a[i + 1]
    BY <1>1, HeadTailProperties
  <2>3. Len(s) \in 1..Len(Tail(a))
    BY <1>0, <1>1, <1>2, <2>2
  <2>. QED  BY <1>0, <1>1, <1>2, <2>1, <2>2, <2>3 DEF Pushed
<1>3. CASE Len(s) # limit
  <2>1. PushBounded(s, x, limit) = a
    BY <1>3, <1>0 DEF PushBounded, a
  <2>. QED  BY <1>0, <1>1, <1>3, <2>1 DEF Pushed
<1>. QED  BY <1>2, <1>3

LEMMA AppendPushes ==
    ASSUME NEW S, NEW s \in Seq(S), NEW x \in S
    PROVE  Append(s, x) \in Seq(S) /\ Pushed(Append(s, x), s, x, 0)
BY AppendProperties, LenProperties DEF Pushed

(* An entry of the table at distance d from the end is the record's.        *)
LEMMA AlignedAt ==
    ASSUME NEW h, NEW t, Aligned(h, t), Len(h) \in Nat, Len(t) \in Nat,
           NEW i \in 1..Len(t), Len(t) - i < Len(h)
    PROVE  Len(h) - (Len(t) - i) \in 1..Len(h) /\ h[Len(h) - (Len(t) - i)] = t[i]
<1>. DEFINE d == Len(t) - i
<1>1. /\ d \in Nat /\ d < Len(h) /\ d < Len(t)
      /\ Len(t) - d = i /\ Len(h) - d \in 1..Len(h)
  OBVIOUS
<1>2. h[Len(h) - d] = t[Len(t) - d]
  BY <1>1 DEF Aligned
<1>. QED  BY <1>1, <1>2

LEMMA AlignedBack ==
    ASSUME NEW h, NEW t, Aligned(h, t), Len(h) \in Nat, Len(t) \in Nat,
           Len(h) <= Len(t), NEW j \in 1..Len(h)
    PROVE  \E i \in 1..Len(t) : i = Len(t) - Len(h) + j /\ h[j] = t[i]
<1>. DEFINE d == Len(h) - j
<1>1. /\ d \in Nat /\ d < Len(h) /\ d < Len(t)
      /\ Len(h) - d = j /\ Len(t) - d = Len(t) - Len(h) + j /\ Len(t) - d \in 1..Len(t)
  OBVIOUS
<1>2. h[Len(h) - d] = t[Len(t) - d]
  BY <1>1 DEF Aligned
<1>. QED  BY <1>1, <1>2

(* Not expired, and at most s before the other: in the window but for s.    *)
LEMMA NearWindow ==
    ASSUME NEW now \in Nat, NEW z \in Nat, NEW a \in Nat, NEW s \in Nat,
           ~Expired(now, z), z <= a + s
    PROVE  now + (-s) <= a + Window
<1>. DEFINE w == Window
<1>1. w \in Nat /\ ~(now > z + w)
  BY Limits DEF Expired
<1>. HIDE DEF w
<1>2. now + (-s) <= a + w
  BY <1>1
<1>. QED  BY <1>2 DEF w

(* Dropping a prefix leaves the ends alone.                                 *)
LEMMA AlignedPop ==
    ASSUME NEW h, NEW t, NEW r, Aligned(h, t),
           Len(h) \in Nat, Len(t) \in Nat, NEW k, Popped(r, h, k)
    PROVE  Aligned(r, t)
<1>. SUFFICES ASSUME NEW d \in Nat, d < Len(r), d < Len(t)
              PROVE  r[Len(r) - d] = t[Len(t) - d]
  BY DEF Aligned
<1>. DEFINE j == Len(r) - d
<1>1. j \in 1..(Len(h) - k) /\ j + k = Len(h) - d /\ d < Len(h)
  BY DEF Popped
<1>2. r[j] = h[Len(h) - d]
  BY <1>1 DEF Popped
<1>3. h[Len(h) - d] = t[Len(t) - d]
  BY <1>1 DEF Aligned
<1>. QED  BY <1>2, <1>3

(* The new entry ends both.                                                 *)
LEMMA AlignedPush ==
    ASSUME NEW h, NEW t, NEW r, NEW u, NEW x, Aligned(h, t),
           Len(h) \in Nat, Len(t) \in Nat, NEW q,
           Pushed(r, h, x, q), Pushed(u, t, x, 0)
    PROVE  Aligned(r, u)
<1>. SUFFICES ASSUME NEW d \in Nat, d < Len(r), d < Len(u)
              PROVE  r[Len(r) - d] = u[Len(u) - d]
  BY DEF Aligned
<1>1. CASE d = 0
  BY <1>1 DEF Pushed
<1>2. CASE d # 0
  <2>. DEFINE e == d - 1
              j == Len(r) - d
              i == Len(u) - d
  <2>1. /\ e \in Nat /\ e < Len(h) /\ e < Len(t)
        /\ j \in 1..(Len(h) - q) /\ j + q = Len(h) - e
        /\ i \in 1..Len(t) /\ i = Len(t) - e
    BY <1>2 DEF Pushed
  <2>2. r[j] = h[Len(h) - e]
    BY <2>1 DEF Pushed
  <2>3. u[i] = t[Len(t) - e]
    BY <2>1, SMTT(30) DEF Pushed
  <2>4. h[Len(h) - e] = t[Len(t) - e]
    BY <2>1 DEF Aligned
  <2>. QED  BY <2>2, <2>3, <2>4
<1>. QED  BY <1>1, <1>2

-----------------------------------------------------------------------------
(* C1: the deque of downloader runs.                                        *)

DownTimes(D) == [i \in 1..Len(D) |-> D[i].ts]

LEMMA DownPop ==
    ASSUME NEW D, NEW R, NEW c \in Nat, NEW sk \in Nat, NEW b,
           DownInv(D, R, c, sk, b),
           NEW now \in Nat, NEW c2 \in Nat, c <= c2, now <= c2
    PROVE  DownInv(PopExpired(D, DownTimes(D), now), R, c2, sk, b)
<1>. DEFINE r == PopExpired(D, DownTimes(D), now)
<1>0. /\ D \in Seq(Downloads) /\ R \in Seq(Downloads) /\ Aligned(D, R)
      /\ Len(D) <= kMaxDownloads /\ Len(D) \in Nat /\ Len(R) \in Nat
      /\ \A i \in 1..Len(R) : R[i].ts \in Nat
      /\ \A i \in 1..Len(D) : D[i].ts \in Nat
  <2>1. D \in Seq(Downloads) /\ R \in Seq(Downloads)
    BY DEF DownInv
  <2>2. \A i \in 1..Len(R) : R[i] \in Downloads
    BY <2>1, LenProperties
  <2>3. \A i \in 1..Len(D) : D[i] \in Downloads
    BY <2>1, LenProperties
  <2>. QED  BY <2>1, <2>2, <2>3, LenProperties DEF DownInv, Downloads
<1>1. \A i \in 1..Len(D) : DownTimes(D)[i] \in Nat /\ DownTimes(D)[i] = D[i].ts
  BY <1>0 DEF DownTimes
<1>2. PICK k \in 0..Len(D) :
         /\ r \in Seq(Downloads)
         /\ Popped(r, D, k)
         /\ \A j \in 1..k : Expired(now, DownTimes(D)[j])
  BY <1>0, <1>1, PopFacts
<1>. HIDE DEF r
<1>3. Aligned(r, R) /\ Len(r) = Len(D) - k
  BY <1>0, <1>2, AlignedPop DEF Popped
<1>4. ASSUME NEW i \in 1..Len(R), Len(R) - i >= Len(r)
      PROVE  Len(R) - i >= kMaxDownloads \/ R[i].ts + Window < c2
  <2>1. CASE Len(R) - i >= Len(D)
    <3>1. Len(R) - i >= kMaxDownloads \/ R[i].ts + Window < c
      BY <2>1 DEF DownInv
    <3>. QED  BY <1>0, <3>1, Limits
  <2>2. CASE ~(Len(R) - i >= Len(D))
    <3>. DEFINE j == Len(D) - (Len(R) - i)
    <3>1. j \in 1..Len(D) /\ D[j] = R[i]
      BY <1>0, <2>2, AlignedAt
    <3>2. j \in 1..k
      BY <1>0, <1>3, <1>4, <3>1
    <3>3. Expired(now, R[i].ts)
      BY <1>1, <1>2, <3>1, <3>2
    <3>. QED  BY <1>0, <3>3, Limits DEF Expired
  <2>. QED  BY <2>1, <2>2
<1>5. \A i \in 1..Len(R) : R[i].ts <= c2
  BY <1>0 DEF DownInv
<1>. QED  BY <1>0, <1>2, <1>3, <1>4, <1>5, Limits DEF DownInv, r

LEMMA DownPush ==
    ASSUME NEW D, NEW R, NEW c \in Nat, NEW sk \in Nat, NEW b,
           DownInv(D, R, c, sk, b),
           NEW x \in Downloads, x.ts <= c, c <= x.ts + sk
    PROVE  DownInv(PushBounded(D, x, kMaxDownloads), Append(R, x), c, sk, b)
<1>. DEFINE r == PushBounded(D, x, kMaxDownloads)
            u == Append(R, x)
<1>0. /\ D \in Seq(Downloads) /\ R \in Seq(Downloads) /\ Aligned(D, R)
      /\ Len(D) <= kMaxDownloads /\ Len(D) \in Nat /\ Len(R) \in Nat
      /\ kMaxDownloads \in Nat \ {0}
      /\ \A i \in 1..Len(R) : R[i].ts \in Nat
  <2>1. D \in Seq(Downloads) /\ R \in Seq(Downloads)
    BY DEF DownInv
  <2>2. \A i \in 1..Len(R) : R[i] \in Downloads
    BY <2>1, LenProperties
  <2>. QED  BY <2>1, <2>2, LenProperties, Limits DEF DownInv, Downloads
<1>a. PICK q \in {0, 1} :
         /\ q = 1 <=> Len(D) = kMaxDownloads
         /\ r \in Seq(Downloads)
         /\ Pushed(r, D, x, q)
  BY <1>0, PushFacts
<1>b. u \in Seq(Downloads) /\ Pushed(u, R, x, 0)
  BY <1>0, AppendPushes
<1>. HIDE DEF r, u
<1>1. Len(r) = Len(D) + 1 - q /\ Len(r) >= 1
  BY <1>0, <1>a DEF Pushed
<1>2. /\ Len(u) = Len(R) + 1
      /\ u[Len(R) + 1] = x
      /\ \A j \in 1..Len(R) : u[j] = R[j]
  BY <1>0, <1>b DEF Pushed
<1>3. Aligned(r, u)
  BY <1>0, <1>a, <1>b, AlignedPush
<1>4. x.ts \in Nat
  BY DEF Downloads
<1>5. \A i \in 1..Len(u) : u[i].ts <= c
  BY <1>0, <1>2, SMTT(30) DEF DownInv
<1>6. ASSUME NEW i \in 1..Len(u), NEW j \in 1..Len(u), i < j
      PROVE  u[i].ts <= u[j].ts + sk
  <2>1. i \in 1..Len(R) /\ u[i] = R[i] /\ R[i].ts <= c
    BY <1>0, <1>2, <1>6 DEF DownInv
  <2>2. CASE j = Len(R) + 1
    BY <1>0, <1>2, <1>4, <2>1, <2>2
  <2>3. CASE j # Len(R) + 1
    <3>1. j \in 1..Len(R) /\ u[j] = R[j]
      BY <1>0, <1>2, <2>3
    <3>2. R[i].ts <= R[j].ts + sk
      BY <1>6, <2>1, <3>1 DEF DownInv
    <3>. QED  BY <2>1, <3>1, <3>2
  <2>. QED  BY <2>2, <2>3
<1>7. ASSUME NEW i \in 1..Len(u), Len(u) - i >= Len(r)
      PROVE  Len(u) - i >= kMaxDownloads \/ u[i].ts + Window < c
  <2>1. i \in 1..Len(R) /\ u[i] = R[i]
    BY <1>0, <1>1, <1>2, <1>7, SMTT(30)
  <2>2. CASE q = 1
    BY <1>0, <1>a, <1>1, <1>2, <1>7, <2>2
  <2>3. CASE q = 0
    <3>1. Len(R) - i >= Len(D)
      BY <1>0, <1>a, <1>1, <1>2, <1>7, <2>3
    <3>2. Len(R) - i >= kMaxDownloads \/ R[i].ts + Window < c
      BY <2>1, <3>1 DEF DownInv
    <3>. QED  BY <1>0, <1>2, <2>1, <3>2
  <2>. QED  BY <2>2, <2>3
<1>8. Len(r) <= kMaxDownloads /\ (b = 0 => Len(r) <= Len(u))
  BY <1>0, <1>a, <1>1, <1>2 DEF DownInv
<1>. QED  BY <1>a, <1>b, <1>3, <1>5, <1>6, <1>7, <1>8 DEF DownInv, r, u

-----------------------------------------------------------------------------
(* C2: the history of one key.                                              *)

LEMMA HistTypes ==
    ASSUME NEW h, NEW t, NEW c, NEW sk, NEW b, HistInv(h, t, c, sk, b)
    PROVE  /\ h \in Seq(Nat) /\ t \in Seq(Nat) /\ Aligned(h, t)
           /\ Len(h) \in Nat /\ Len(t) \in Nat /\ Len(h) <= kMaxHistPerKey
           /\ \A i \in 1..Len(h) : h[i] \in Nat
           /\ \A i \in 1..Len(t) : t[i] \in Nat
<1>1. h \in Seq(Nat) /\ t \in Seq(Nat)
  BY DEF HistInv
<1>2. \A i \in 1..Len(h) : h[i] \in Nat
  BY <1>1, LenProperties
<1>3. \A i \in 1..Len(t) : t[i] \in Nat
  BY <1>1, LenProperties
<1>. QED  BY <1>1, <1>2, <1>3, LenProperties DEF HistInv

(* Time passes for a key that no event touches.                             *)
LEMMA HistTick ==
    ASSUME NEW h, NEW t, NEW c \in Nat, NEW sk \in Nat, NEW b, HistInv(h, t, c, sk, b),
           NEW c2 \in Nat, c <= c2
    PROVE  HistInv(h, t, c2, sk, b)
<1>1. \A i \in 1..Len(t) : t[i] \in Nat
  BY HistTypes
<1>2. \A i \in 1..Len(t) : t[i] <= c2
  BY <1>1 DEF HistInv
<1>3. ASSUME NEW i \in 1..Len(t), Len(t) - i >= Len(h)
      PROVE  Len(h) >= kMaxHistPerKey \/ t[i] + Window < c2 + sk
  <2>1. Len(h) >= kMaxHistPerKey \/ t[i] + Window < c + sk
    BY <1>3 DEF HistInv
  <2>. QED  BY <1>1, <2>1, Limits
<1>. QED  BY <1>2, <1>3 DEF HistInv

LEMMA HistPop ==
    ASSUME NEW h, NEW t, NEW c \in Nat, NEW sk \in Nat, NEW b,
           HistInv(h, t, c, sk, b),
           NEW now \in Nat, NEW c2 \in Nat, c <= c2, now <= c2
    PROVE  HistInv(PopExpired(h, h, now), t, c2, sk, b)
<1>. DEFINE r == PopExpired(h, h, now)
<1>0. /\ h \in Seq(Nat) /\ t \in Seq(Nat) /\ Aligned(h, t)
      /\ Len(h) \in Nat /\ Len(t) \in Nat /\ Len(h) <= kMaxHistPerKey
      /\ \A i \in 1..Len(h) : h[i] \in Nat
      /\ \A i \in 1..Len(t) : t[i] \in Nat
  BY HistTypes
<1>1. HistInv(h, t, c2, sk, b)
  BY HistTick
<1>2. PICK k \in 0..Len(h) :
         /\ r \in Seq(Nat)
         /\ Popped(r, h, k)
         /\ \A j \in 1..k : Expired(now, h[j])
  BY <1>0, PopFacts
<1>. HIDE DEF r
<1>3. Aligned(r, t) /\ Len(r) = Len(h) - k
  BY <1>0, <1>2, AlignedPop DEF Popped
<1>4. ASSUME NEW i \in 1..Len(t), Len(t) - i >= Len(r)
      PROVE  Len(r) >= kMaxHistPerKey \/ t[i] + Window < c2 + sk
  <2>1. CASE Len(t) - i < Len(h)
    <3>. DEFINE j == Len(h) - (Len(t) - i)
    <3>1. j \in 1..Len(h) /\ h[j] = t[i]
      BY <1>0, <2>1, AlignedAt
    <3>2. j \in 1..k
      BY <1>0, <1>3, <1>4, <3>1
    <3>3. Expired(now, t[i])
      BY <1>2, <3>1, <3>2
    <3>. QED  BY <1>0, <3>3, Limits, SMTT(30) DEF Expired
  <2>2. CASE Len(t) - i >= Len(h) /\ k = 0
    BY <1>1, <1>3, <2>2 DEF HistInv
  <2>3. CASE Len(t) - i >= Len(h) /\ k > 0
    <3>. DEFINE f == Len(t) - Len(h) + 1
    <3>1. f \in 1..Len(t) /\ i < f /\ Len(t) - f < Len(h) /\ Len(h) - (Len(t) - f) = 1
      BY <1>0, <2>3, SMTT(30)
    <3>2. h[1] = t[f]
      BY <1>0, <3>1, AlignedAt
    <3>3. Expired(now, t[f])
      BY <1>2, <2>3, <3>2
    <3>4. t[i] <= t[f] + sk
      BY <3>1 DEF HistInv
    <3>5. t[f] \in Nat /\ t[f] + Window < now
      BY <1>0, <3>1, <3>3, Limits DEF Expired
    <3>6. t[i] \in Nat
      BY <1>0
    <3>. HIDE DEF f
    <3>7. t[i] + Window < c2 + sk
      <4>. DEFINE a == t[i]
                  z == t[f]
                  w == Window
      <4>1. a \in Nat /\ z \in Nat /\ w \in Nat /\ a <= z + sk /\ z + w < now
        BY <3>4, <3>5, <3>6, Limits
      <4>. HIDE DEF a, z, w
      <4>2. a + w < c2 + sk
        BY <4>1
      <4>. QED  BY <4>2 DEF a, w
    <3>. QED  BY <3>7
  <2>. QED  BY <1>0, <2>1, <2>2, <2>3
<1>5. Len(r) <= kMaxHistPerKey /\ (b = 0 => Len(r) <= Len(t))
  BY <1>0, <1>3, Limits DEF HistInv
<1>. QED  BY <1>1, <1>2, <1>3, <1>4, <1>5 DEF HistInv, r

LEMMA HistPush ==
    ASSUME NEW h, NEW t, NEW c \in Nat, NEW sk \in Nat, NEW b,
           HistInv(h, t, c, sk, b),
           NEW x \in Nat, x <= c, c <= x + sk
    PROVE  /\ HistInv(PushBounded(h, x, kMaxHistPerKey), Append(t, x), c, sk, b)
           /\ Len(PushBounded(h, x, kMaxHistPerKey)) =
                IF Len(h) = kMaxHistPerKey THEN Len(h) ELSE Len(h) + 1
           /\ Len(PushBounded(h, x, kMaxHistPerKey)) >= 1
<1>. DEFINE r == PushBounded(h, x, kMaxHistPerKey)
            u == Append(t, x)
<1>0. /\ h \in Seq(Nat) /\ t \in Seq(Nat) /\ Aligned(h, t)
      /\ Len(h) \in Nat /\ Len(t) \in Nat /\ Len(h) <= kMaxHistPerKey
      /\ \A i \in 1..Len(t) : t[i] \in Nat
  BY HistTypes
<1>a. PICK q \in {0, 1} :
         /\ q = 1 <=> Len(h) = kMaxHistPerKey
         /\ r \in Seq(Nat)
         /\ Pushed(r, h, x, q)
  <2>1. kMaxHistPerKey \in Nat \ {0}
    BY Limits
  <2>. DEFINE S == Nat
  <2>2. h \in Seq(S) /\ x \in S /\ Len(h) <= kMaxHistPerKey
    BY <1>0
  <2>. HIDE DEF S
  <2>3. \E q \in {0, 1} :
           /\ q = 1 <=> Len(h) = kMaxHistPerKey
           /\ r \in Seq(S)
           /\ Pushed(r, h, x, q)
    BY <2>1, <2>2, PushFacts
  <2>. QED  BY <2>3 DEF S
<1>b. u \in Seq(Nat) /\ Pushed(u, t, x, 0)
  BY <1>0, AppendPushes
<1>. HIDE DEF r, u
<1>1. Len(r) = Len(h) + 1 - q /\ Len(r) >= 1
  BY <1>0, <1>a, Limits DEF Pushed
<1>2. /\ Len(u) = Len(t) + 1
      /\ u[Len(t) + 1] = x
      /\ \A j \in 1..Len(t) : u[j] = t[j]
  BY <1>0, <1>b DEF Pushed
<1>3. Aligned(r, u)
  BY <1>0, <1>a, <1>b, AlignedPush
<1>4. \A i \in 1..Len(t) : t[i] <= c
  BY DEF HistInv
<1>5. ASSUME NEW i \in 1..Len(u)
      PROVE  u[i] <= c
  <2>1. CASE i \in 1..Len(t)
    BY <1>2, <1>4, <2>1
  <2>2. CASE i = Len(t) + 1
    BY <1>2, <2>2
  <2>. QED  BY <1>0, <1>2, <2>1, <2>2
<1>6. ASSUME NEW i \in 1..Len(u), NEW j \in 1..Len(u), i < j
      PROVE  u[i] <= u[j] + sk
  <2>1. i \in 1..Len(t) /\ u[i] = t[i] /\ t[i] <= c
    BY <1>0, <1>2, <1>6 DEF HistInv
  <2>2. CASE j = Len(t) + 1
    BY <1>0, <1>2, <2>1, <2>2
  <2>3. CASE j # Len(t) + 1
    <3>1. j \in 1..Len(t) /\ u[j] = t[j]
      BY <1>0, <1>2, <2>3
    <3>2. t[i] <= t[j] + sk
      BY <1>6, <2>1, <3>1 DEF HistInv
    <3>. QED  BY <2>1, <3>1, <3>2
  <2>. QED  BY <2>2, <2>3
<1>7. ASSUME NEW i \in 1..Len(u), Len(u) - i >= Len(r)
      PROVE  Len(r) >= kMaxHistPerKey \/ u[i] + Window < c + sk
  <2>1. i \in 1..Len(t) /\ u[i] = t[i]
    BY <1>0, <1>1, <1>2, <1>7, SMTT(30)
  <2>2. CASE q = 1
    BY <1>0, <1>a, <1>1, <2>2, Limits
  <2>3. CASE q = 0
    <3>1. Len(t) - i >= Len(h)
      BY <1>0, <1>1, <1>2, <1>7, <2>3
    <3>2. Len(h) >= kMaxHistPerKey \/ t[i] + Window < c + sk
      BY <2>1, <3>1 DEF HistInv
    <3>. QED  BY <1>0, <1>a, <1>1, <2>1, <2>3, <3>2, Limits
  <2>. QED  BY <2>2, <2>3
<1>8. Len(r) <= kMaxHistPerKey /\ (b = 0 => Len(r) <= Len(u))
  BY <1>0, <1>a, <1>1, <1>2, Limits DEF HistInv
<1>9. HistInv(r, u, c, sk, b)
  BY <1>a, <1>b, <1>3, <1>5, <1>6, <1>7, <1>8 DEF HistInv
<1>10. Len(r) = IF Len(h) = kMaxHistPerKey THEN Len(h) ELSE Len(h) + 1
  BY <1>0, <1>a, <1>1
<1>. QED  BY <1>1, <1>9, <1>10 DEF r, u

(* A key whose newest entry is expired may go: all older ones are expired,  *)
(* give or take the disorder.                                               *)
LEMMA HistSwept ==
    ASSUME NEW h, NEW t, NEW c \in Nat, NEW sk \in Nat, NEW b,
           HistInv(h, t, c, sk, b), Len(h) >= 1,
           NEW now \in Nat, now <= c, Expired(now, h[Len(h)])
    PROVE  HistInv(<<>>, t, c, sk, b)
<1>0. /\ t \in Seq(Nat) /\ Aligned(h, t)
      /\ Len(h) \in Nat /\ Len(t) \in Nat
      /\ \A i \in 1..Len(t) : t[i] \in Nat
  BY HistTypes
<1>1. ASSUME NEW i \in 1..Len(t)
      PROVE  t[i] + Window < c + sk
  <2>. DEFINE n == Len(t)
  <2>1. n \in 1..Len(t) /\ h[Len(h)] = t[n]
    BY <1>0, AlignedAt
  <2>2. t[i] <= t[n] + sk
    BY <1>0, <2>1, SMTT(30) DEF HistInv
  <2>. QED  BY <1>0, <2>1, <2>2, Limits, SMTT(30) DEF Expired
<1>2. <<>> \in Seq(Nat) /\ Len(<<>>) = 0
  BY EmptySeq
<1>3. Aligned(<<>>, t)
  BY <1>2 DEF Aligned
<1>. QED  BY <1>0, <1>1, <1>2, <1>3, Limits DEF HistInv

(* A connection is entered in the table and in the record.                  *)
LEMMA ConnsPush ==
    ASSUME NEW f, NEW g, NEW c \in Nat, NEW sk \in Nat, NEW b,
           ConnsInv(f, g, c, sk, b),
           NEW now \in Nat, NEW c2 \in Nat, c <= c2, now <= c2, c2 <= now + sk, NEW K
    PROVE  ConnsInv(Set(f, K, PushBounded(PopExpired(Get(f, K), Get(f, K), now), now,
                                          kMaxHistPerKey)),
                    Set(g, K, Append(Get(g, K), now)), c2, sk, b)
<1>. DEFINE N == PushBounded(PopExpired(Get(f, K), Get(f, K), now), now, kMaxHistPerKey)
            T == Append(Get(g, K), now)
<1>1. HistInv(PopExpired(Get(f, K), Get(f, K), now), Get(g, K), c2, sk, b)
  BY HistPop DEF ConnsInv
<1>2. HistInv(N, T, c2, sk, b) /\ Len(N) >= 1
  BY <1>1, HistPush
<1>. HIDE DEF N, T
<1>3. ASSUME NEW k \in DOMAIN Set(f, K, N)
      PROVE  Len(Set(f, K, N)[k]) >= 1
  <2>1. CASE k = K
    BY <1>2, <2>1 DEF Get, Set
  <2>2. CASE k # K
    <3>1. k \in DOMAIN f /\ Set(f, K, N)[k] = f[k]
      BY <1>3, <2>2 DEF Set
    <3>. QED  BY <3>1 DEF ConnsInv
  <2>. QED  BY <2>1, <2>2
<1>4. ASSUME NEW k
      PROVE  HistInv(Get(Set(f, K, N), k), Get(Set(g, K, T), k), c2, sk, b)
  <2>1. CASE k = K
    BY <1>2, <2>1 DEF Get, Set
  <2>2. CASE k # K
    <3>1. Get(Set(f, K, N), k) = Get(f, k) /\ Get(Set(g, K, T), k) = Get(g, k)
      BY <2>2 DEF Get, Set
    <3>2. HistInv(Get(f, k), Get(g, k), c2, sk, b)
      BY HistTick DEF ConnsInv
    <3>. QED  BY <3>1, <3>2
  <2>. QED  BY <2>1, <2>2
<1>. QED  BY <1>3, <1>4 DEF ConnsInv, N, T

(* The sweep of idle keys.                                                  *)
LEMMA ConnsSweep ==
    ASSUME NEW f, NEW g, NEW c \in Nat, NEW sk \in Nat, NEW b,
           ConnsInv(f, g, c, sk, b), NEW now \in Nat, now <= c
    PROVE  ConnsInv(SweepConns(f, now), g, c, sk, b)
<1>. DEFINE r == SweepConns(f, now)
<1>0. \A k \in DOMAIN f : Len(f[k]) >= 1 /\ f[k] # <<>> /\ Get(f, k) = f[k]
  <2>1. \A k \in DOMAIN f : Len(f[k]) >= 1
    BY DEF ConnsInv
  <2>2. Len(<<>>) = 0
    BY EmptySeq
  <2>. QED  BY <2>1, <2>2 DEF Get
<1>1. CASE r = f
  BY <1>1
<1>2. CASE r = [k \in {x \in DOMAIN f : f[x] # <<>> /\ ~Expired(now, f[x][Len(f[x])])}
                  |-> f[k]]
  <2>1. \A k \in DOMAIN r : k \in DOMAIN f /\ r[k] = f[k]
    BY <1>2
  <2>2. ASSUME NEW k
        PROVE  HistInv(Get(r, k), Get(g, k), c, sk, b)
    <3>0. HistInv(Get(f, k), Get(g, k), c, sk, b)
      BY DEF ConnsInv
    <3>1. CASE k \in DOMAIN r
      <4>1. Get(r, k) = Get(f, k)
        BY <2>1, <3>1 DEF Get
      <4>. QED  BY <3>0, <4>1
    <3>2. CASE k \notin DOMAIN f
      <4>1. Get(r, k) = Get(f, k)
        BY <2>1, <3>2 DEF Get
      <4>. QED  BY <3>0, <4>1
    <3>3. CASE k \in DOMAIN f /\ k \notin DOMAIN r
      <4>1. Get(r, k) = <<>>
        BY <3>3 DEF Get
      <4>2. Expired(now, f[k][Len(f[k])])
        BY <1>0, <1>2, <3>3
      <4>3. Len(Get(f, k)) >= 1 /\ Expired(now, Get(f, k)[Len(Get(f, k))])
        BY <1>0, <3>3, <4>2
      <4>. QED  BY <3>0, <4>1, <4>3, HistSwept
    <3>. QED  BY <3>1, <3>2, <3>3
  <2>3. \A k \in DOMAIN r : Len(r[k]) >= 1
    BY <1>0, <2>1
  <2>. QED  BY <2>2, <2>3 DEF ConnsInv
<1>. QED  BY <1>1, <1>2 DEF SweepConns

LEMMA ConnsTick ==
    ASSUME NEW f, NEW g, NEW c \in Nat, NEW sk \in Nat, NEW b,
           ConnsInv(f, g, c, sk, b), NEW c2 \in Nat, c <= c2
    PROVE  ConnsInv(f, g, c2, sk, b)
BY HistTick DEF ConnsInv

-----------------------------------------------------------------------------
(* C3: the table of staged paths.                                           *)

LEMMA StagedWrite ==
    ASSUME NEW f, NEW g, NEW c \in Nat, NEW b, StagedInv(f, g, c, b),
           NEW now \in Nat, NEW c2 \in Nat, c <= c2, now <= c2, NEW p
    PROVE  StagedInv(SweepStaged(Set(f, p, now), now), Set(g, p, now), c2, b)
<1>. DEFINE F == Set(f, p, now)
            G == Set(g, p, now)
            r == SweepStaged(F, now)
<1>0. /\ DOMAIN F = DOMAIN f \cup {p} /\ DOMAIN G = DOMAIN g \cup {p}
      /\ F[p] = now /\ G[p] = now
      /\ \A q \in DOMAIN f : q # p => F[q] = f[q]
      /\ \A q \in DOMAIN g : q # p => G[q] = g[q]
  BY DEF Set
<1>1. /\ DOMAIN r \subseteq DOMAIN F
      /\ \A q \in DOMAIN r : r[q] = F[q]
      /\ \A q \in DOMAIN F : q \in DOMAIN r \/ Expired(now, F[q])
  BY DEF SweepStaged
<1>. HIDE DEF F, G, r
<1>2. \A q \in DOMAIN F : F[q] \in Nat
  BY <1>0 DEF StagedInv
<1>3. \A q \in DOMAIN G : G[q] \in Nat
  BY <1>0 DEF StagedInv
<1>4. b = 0 => \A q \in DOMAIN F : q \in DOMAIN G /\ F[q] = G[q]
  BY <1>0 DEF StagedInv
<1>5. ASSUME NEW q \in DOMAIN G
      PROVE  (q \in DOMAIN F /\ F[q] = G[q]) \/ G[q] + Window < c2
  <2>1. CASE q = p
    BY <1>0, <2>1
  <2>2. CASE q # p
    <3>1. q \in DOMAIN g /\ G[q] = g[q] /\ g[q] \in Nat
      BY <1>0, <2>2 DEF StagedInv
    <3>2. CASE q \in DOMAIN f /\ f[q] = g[q]
      BY <1>0, <2>2, <3>1, <3>2
    <3>3. CASE g[q] + Window < c
      BY <3>1, <3>3, Limits
    <3>. QED  BY <3>1, <3>2, <3>3 DEF StagedInv
  <2>. QED  BY <2>1, <2>2
<1>6. ASSUME NEW q \in DOMAIN G
      PROVE  (q \in DOMAIN r /\ r[q] = G[q]) \/ G[q] + Window < c2
  <2>1. CASE q \in DOMAIN F /\ F[q] = G[q] /\ Expired(now, F[q])
    BY <1>2, <2>1, Limits DEF Expired
  <2>. QED  BY <1>1, <1>5, <2>1
<1>. QED  BY <1>1, <1>2, <1>3, <1>4, <1>6 DEF StagedInv, r, F, G

LEMMA StagedTick ==
    ASSUME NEW f, NEW g, NEW c \in Nat, NEW b, StagedInv(f, g, c, b),
           NEW c2 \in Nat, c <= c2
    PROVE  StagedInv(f, g, c2, b)
<1>1. ASSUME NEW p \in DOMAIN g, g[p] + Window < c
      PROVE  g[p] + Window < c2
  BY <1>1, Limits DEF StagedInv
<1>. QED  BY <1>1 DEF StagedInv

LEMMA DownTick ==
    ASSUME NEW D, NEW R, NEW c \in Nat, NEW sk \in Nat, NEW b,
           DownInv(D, R, c, sk, b), NEW c2 \in Nat, c <= c2
    PROVE  DownInv(D, R, c2, sk, b)
<1>0. \A i \in 1..Len(R) : R[i].ts \in Nat
  <2>1. \A i \in 1..Len(R) : R[i] \in Downloads
    BY LenProperties DEF DownInv
  <2>. QED  BY <2>1 DEF Downloads
<1>1. \A i \in 1..Len(R) : R[i].ts <= c2
  BY <1>0 DEF DownInv
<1>2. ASSUME NEW i \in 1..Len(R), Len(R) - i >= Len(D)
      PROVE  Len(R) - i >= kMaxDownloads \/ R[i].ts + Window < c2
  <2>1. Len(R) - i >= kMaxDownloads \/ R[i].ts + Window < c
    BY <1>2 DEF DownInv
  <2>. QED  BY <1>0, <2>1, Limits
<1>. QED  BY <1>1, <1>2 DEF DownInv

-----------------------------------------------------------------------------
(* The steps.  Each keeps the invariant for any disorder sk that the        *)
(* event's time stamp respects.                                             *)

LEMMA EmptyTables ==
    /\ DOMAIN <<>> = {}
    /\ \A k : Get(<<>>, k) = <<>>
    /\ \A c, sk : DownInv(<<>>, <<>>, c, sk, 0)
    /\ \A c, sk : ConnsInv(<<>>, <<>>, c, sk, 0)
    /\ \A c : StagedInv(<<>>, <<>>, c, 0)
<1>1. DOMAIN <<>> = {} /\ \A S : <<>> \in Seq(S) /\ Len(<<>>) = 0
  BY EmptySeq
<1>2. \A k : Get(<<>>, k) = <<>>
  BY <1>1 DEF Get
<1>3. Aligned(<<>>, <<>>)
  BY <1>1 DEF Aligned
<1>4. \A c, sk : DownInv(<<>>, <<>>, c, sk, 0)
  BY <1>1, <1>3, Limits DEF DownInv
<1>5. \A c, sk : HistInv(<<>>, <<>>, c, sk, 0)
  BY <1>1, <1>3, Limits DEF HistInv
<1>. QED  BY <1>1, <1>2, <1>4, <1>5 DEF ConnsInv, StagedInv

LEMMA InitCorrInv ==
    ASSUME CorrInit, NEW sk \in Nat
    PROVE  CorrInv(sk)
BY EmptyTables, Limits DEF CorrInit, CorrInv

LEMMA TickFacts ==
    ASSUME NEW sk \in Nat, NEW now \in Nat, clock \in Nat, now + sk >= clock, Tick(now)
    PROVE  /\ clock' \in Nat /\ boots' = boots
           /\ clock <= clock' /\ now <= clock' /\ clock' <= now + sk
BY DEF Tick

LEMMA FileStep ==
    ASSUME NEW sk \in Nat, CorrInv(sk), NEW now \in Nat, now + sk >= clock, Tick(now),
           NEW e, observe_file(e, now)
    PROVE  CorrInv(sk)'
<1>0. /\ clock \in Nat /\ boots \in 0..MaxBoots
      /\ DownInv(downloads, seenDownloads, clock, sk, boots)
      /\ ConnsInv(conns, seenConns, clock, sk, boots)
      /\ StagedInv(staged, seenStaged, clock, boots)
  BY DEF CorrInv
<1>1. clock' \in Nat /\ boots' = boots /\ clock <= clock' /\ now <= clock'
  BY <1>0, TickFacts
<1>2. DownInv(downloads, seenDownloads, clock', sk, boots)
  BY <1>0, <1>1, DownTick
<1>3. ConnsInv(conns, seenConns, clock', sk, boots)
  BY <1>0, <1>1, ConnsTick
<1>4. StagedInv(staged', seenStaged', clock', boots)
  <2>1. CASE IsStagingWrite(e)
    <3>1. /\ staged' = SweepStaged(Set(staged, e.path, now), now)
          /\ seenStaged' = Set(seenStaged, e.path, now)
      BY <2>1 DEF observe_file
    <3>. QED  BY <1>0, <1>1, <3>1, StagedWrite
  <2>2. CASE ~IsStagingWrite(e)
    <3>1. staged' = staged /\ seenStaged' = seenStaged
      BY <2>2 DEF observe_file
    <3>. QED  BY <1>0, <1>1, <3>1, StagedTick
  <2>. QED  BY <2>1, <2>2
<1>5. UNCHANGED <<downloads, conns, seenDownloads, seenConns>>
  BY DEF observe_file
<1>. QED  BY <1>0, <1>1, <1>2, <1>3, <1>4, <1>5 DEF CorrInv

LEMMA ExecStep ==
    ASSUME NEW sk \in Nat, CorrInv(sk), NEW now \in Nat, now + sk >= clock, Tick(now),
           NEW e \in Execs, observe_execve(e, now)
    PROVE  CorrInv(sk)'
<1>0. /\ clock \in Nat /\ boots \in 0..MaxBoots
      /\ DownInv(downloads, seenDownloads, clock, sk, boots)
      /\ ConnsInv(conns, seenConns, clock, sk, boots)
      /\ StagedInv(staged, seenStaged, clock, boots)
  BY DEF CorrInv
<1>1. /\ clock' \in Nat /\ boots' = boots
      /\ clock <= clock' /\ now <= clock' /\ clock' <= now + sk
  BY <1>0, TickFacts
<1>2. ConnsInv(conns, seenConns, clock', sk, boots)
  BY <1>0, <1>1, ConnsTick
<1>3. StagedInv(staged, seenStaged, clock', boots)
  BY <1>0, <1>1, StagedTick
<1>4. DownInv(KeptDownloads(now), seenDownloads, clock', sk, boots)
  <2>1. KeptDownloads(now) = PopExpired(downloads, DownTimes(downloads), now)
    BY DEF KeptDownloads, DownTimes
  <2>2. DownInv(PopExpired(downloads, DownTimes(downloads), now),
                seenDownloads, clock', sk, boots)
    BY <1>0, <1>1, DownPop
  <2>. QED  BY <2>1, <2>2
<1>5. DownInv(downloads', seenDownloads', clock', sk, boots)
  <2>1. CASE IsDownloader(e.path)
    <3>. DEFINE d == [ts |-> now, anc |-> ancestor_set(e)]
    <3>1. /\ downloads' = PushBounded(KeptDownloads(now), d, kMaxDownloads)
          /\ seenDownloads' = Append(seenDownloads, d)
      BY <2>1 DEF observe_execve
    <3>2. d \in Downloads /\ d.ts = now
      BY CorrelatorAssumption DEF Downloads, ancestor_set
    <3>. HIDE DEF d
    <3>. QED  BY <1>1, <1>4, <3>1, <3>2, DownPush
  <2>2. CASE ~IsDownloader(e.path)
    <3>1. downloads' = KeptDownloads(now) /\ seenDownloads' = seenDownloads
      BY <2>2 DEF observe_execve
    <3>. QED  BY <1>4, <3>1
  <2>. QED  BY <2>1, <2>2
<1>6. UNCHANGED <<staged, conns, seenStaged, seenConns>>
  BY DEF observe_execve
<1>. QED  BY <1>0, <1>1, <1>2, <1>3, <1>5, <1>6 DEF CorrInv

LEMMA ConnectStep ==
    ASSUME NEW sk \in Nat, CorrInv(sk), NEW now \in Nat, now + sk >= clock, Tick(now),
           NEW e, observe_connect(e, now)
    PROVE  CorrInv(sk)'
<1>0. /\ clock \in Nat /\ boots \in 0..MaxBoots
      /\ DownInv(downloads, seenDownloads, clock, sk, boots)
      /\ ConnsInv(conns, seenConns, clock, sk, boots)
      /\ StagedInv(staged, seenStaged, clock, boots)
  BY DEF CorrInv
<1>1. /\ clock' \in Nat /\ boots' = boots
      /\ clock <= clock' /\ now <= clock' /\ clock' <= now + sk
  BY <1>0, TickFacts
<1>2. DownInv(downloads, seenDownloads, clock', sk, boots)
  BY <1>0, <1>1, DownTick
<1>3. StagedInv(staged, seenStaged, clock', boots)
  BY <1>0, <1>1, StagedTick
<1>4. ConnsInv(conns', seenConns', clock', sk, boots)
  <2>1. CASE is_private_ipv4(e.daddr)
    <3>1. conns' = conns /\ seenConns' = seenConns
      BY <2>1 DEF observe_connect
    <3>. QED  BY <1>0, <1>1, <3>1, ConnsTick
  <2>2. CASE ~is_private_ipv4(e.daddr)
    <3>. DEFINE f == Set(conns, Key(e), NewHist(e, now))
                g == Set(seenConns, Key(e), Append(Get(seenConns, Key(e)), now))
    <3>1. conns' = SweepConns(f, now) /\ seenConns' = g
      BY <2>2 DEF observe_connect
    <3>2. ConnsInv(f, g, clock', sk, boots)
      BY <1>0, <1>1, ConnsPush DEF NewHist
    <3>. HIDE DEF f, g
    <3>. QED  BY <1>1, <3>1, <3>2, ConnsSweep
  <2>. QED  BY <2>1, <2>2
<1>5. UNCHANGED <<downloads, staged, seenDownloads, seenStaged>>
  BY DEF observe_connect
<1>. QED  BY <1>0, <1>1, <1>2, <1>3, <1>4, <1>5 DEF CorrInv

(* The record starts again and the tables stay: nothing is missing yet.     *)
LEMMA RebootStep ==
    ASSUME NEW sk \in Nat, CorrInv(sk), Reboot
    PROVE  CorrInv(sk)'
<1>0. /\ boots \in 0..MaxBoots /\ boots' = boots + 1 /\ boots < MaxBoots /\ clock' = 0
      /\ seenDownloads' = <<>> /\ seenStaged' = <<>> /\ seenConns' = <<>>
      /\ downloads' = downloads /\ staged' = staged /\ conns' = conns
  BY DEF CorrInv, Reboot, tables
<1>1. boots' \in 0..MaxBoots /\ boots' # 0
  BY <1>0, Limits
<1>2. /\ \A S : <<>> \in Seq(S) /\ Len(<<>>) = 0
      /\ DOMAIN <<>> = {}
      /\ \A k : Get(<<>>, k) = <<>>
  BY EmptySeq, EmptyTables
<1>3. \A h : Aligned(h, <<>>)
  BY <1>2 DEF Aligned
<1>4. DownInv(downloads, <<>>, 0, sk, boots')
  BY <1>1, <1>2, <1>3 DEF DownInv, CorrInv
<1>5. ASSUME NEW k
      PROVE  HistInv(Get(conns, k), Get(<<>>, k), 0, sk, boots')
  <2>1. HistInv(Get(conns, k), Get(seenConns, k), clock, sk, boots)
    BY DEF CorrInv, ConnsInv
  <2>. DEFINE h == Get(conns, k)
  <2>2. h \in Seq(Nat) /\ Len(h) <= kMaxHistPerKey
    BY <2>1 DEF HistInv
  <2>. HIDE DEF h
  <2>3. HistInv(h, <<>>, 0, sk, boots')
    BY <1>1, <1>2, <1>3, <2>2 DEF HistInv
  <2>4. Get(<<>>, k) = <<>>
    BY <1>2
  <2>. QED  BY <2>3, <2>4 DEF h
<1>6. ConnsInv(conns, <<>>, 0, sk, boots')
  BY <1>5 DEF ConnsInv, CorrInv
<1>7. StagedInv(staged, <<>>, 0, boots')
  BY <1>1, <1>2 DEF StagedInv, CorrInv
<1>. QED  BY <1>0, <1>1, <1>4, <1>6, <1>7 DEF CorrInv

(* The correlator's invariant holds in every state.                         *)
THEOREM CorrInvariance == CorrSpec => []CorrInv(Skew)
<1>0. Skew \in Nat
  BY Limits
<1>1. CorrInit => CorrInv(Skew)
  BY <1>0, InitCorrInv
<1>2. CorrInv(Skew) /\ [CorrNext]_corrVars => CorrInv(Skew)'
  <2>. SUFFICES ASSUME CorrInv(Skew), [CorrNext]_corrVars
                PROVE  CorrInv(Skew)'
    OBVIOUS
  <2>1. CASE Observe
    <3>1. PICK now \in Times :
             /\ Tick(now)
             /\ \/ \E e \in FileOpens : observe_file(e, now)
                \/ \E e \in Execs : observe_execve(e, now)
                \/ \E e \in Connects : observe_connect(e, now)
      BY <2>1 DEF Observe
    <3>2. now \in Nat /\ now + Skew >= clock
      BY DEF Times
    <3>. QED  BY <1>0, <3>1, <3>2, FileStep, ExecStep, ConnectStep
  <2>2. CASE Reboot
    BY <1>0, <2>2, RebootStep
  <2>3. CASE UNCHANGED corrVars
    BY <2>3 DEF corrVars, tables, history, seen, CorrInv
  <2>. QED  BY <2>1, <2>2, <2>3 DEF CorrNext
<1>. QED  BY <1>1, <1>2, PTL DEF CorrSpec

-----------------------------------------------------------------------------
(* What the invariant says about the answers.                               *)

LEMMA TypesHold ==
    ASSUME NEW sk \in Nat, CorrInv(sk)
    PROVE  CorrTypeOK
<1>1. downloads \in Seq(Downloads) /\ Len(downloads) <= kMaxDownloads
  BY DEF CorrInv, DownInv
<1>2. \A p \in DOMAIN staged : staged[p] \in Nat
  BY DEF CorrInv, StagedInv
<1>3. ASSUME NEW k \in DOMAIN conns
      PROVE  conns[k] \in Seq(Nat) /\ Len(conns[k]) \in 1..kMaxHistPerKey
  <2>1. HistInv(Get(conns, k), Get(seenConns, k), clock, sk, boots)
    BY DEF CorrInv, ConnsInv
  <2>2. Get(conns, k) = conns[k] /\ Len(conns[k]) >= 1
    BY DEF CorrInv, ConnsInv, Get
  <2>3. /\ Get(conns, k) \in Seq(Nat)
        /\ Len(Get(conns, k)) \in Nat /\ Len(Get(conns, k)) <= kMaxHistPerKey
    BY <2>1, HistTypes
  <2>. QED  BY <2>2, <2>3, Limits
<1>. QED  BY <1>1, <1>2, <1>3 DEF CorrInv, CorrTypeOK

LEMMA WriteExact ==
    ASSUME NEW sk \in Nat, CorrInv(sk), NEW now \in Nat, now + sk >= clock, NEW e
    PROVE  /\ WriteExec(e, now) /\ boots = 0 => WroteIn(e, now, 0)
           /\ WroteIn(e, now, sk) => WriteExec(e, now)
<1>0. clock \in Nat /\ StagedInv(staged, seenStaged, clock, boots)
  BY DEF CorrInv
<1>1. ASSUME WriteExec(e, now), boots = 0
      PROVE  WroteIn(e, now, 0)
  <2>1. /\ e.path \in DOMAIN seenStaged /\ staged[e.path] = seenStaged[e.path]
        /\ staged[e.path] \in Nat /\ ~Expired(now, staged[e.path])
    BY <1>0, <1>1 DEF StagedInv, WriteExec
  <2>. QED  BY <2>1, Limits DEF WroteIn, Expired
<1>2. ASSUME WroteIn(e, now, sk)
      PROVE  WriteExec(e, now)
  <2>1. /\ e.path \in DOMAIN seenStaged /\ seenStaged[e.path] \in Nat
        /\ now + sk <= seenStaged[e.path] + Window
    BY <1>0, <1>2 DEF WroteIn, StagedInv
  <2>2. ~(seenStaged[e.path] + Window < clock)
    BY <1>0, <2>1, Limits
  <2>3. e.path \in DOMAIN staged /\ staged[e.path] = seenStaged[e.path]
    BY <1>0, <2>1, <2>2 DEF StagedInv
  <2>. QED  BY <2>1, <2>3, Limits DEF WriteExec, Expired
<1>. QED  BY <1>1, <1>2

LEMMA DownloadExact ==
    ASSUME NEW sk \in Nat, CorrInv(sk), NEW now \in Nat, now + sk >= clock, NEW e
    PROVE  /\ DownloadExec(e, now) /\ boots = 0 => DownloadIn(e, now, -sk)
           /\ DownloadIn(e, now, sk) => DownloadExec(e, now)
<1>. DEFINE D == downloads
            R == seenDownloads
            r == KeptDownloads(now)
<1>0. /\ clock \in Nat /\ DownInv(D, R, clock, sk, boots)
      /\ D \in Seq(Downloads) /\ R \in Seq(Downloads) /\ Aligned(D, R)
      /\ Len(D) \in Nat /\ Len(R) \in Nat /\ Len(D) <= kMaxDownloads
      /\ \A i \in 1..Len(D) : D[i].ts \in Nat
      /\ \A i \in 1..Len(R) : R[i].ts \in Nat
  <2>1. clock \in Nat /\ DownInv(D, R, clock, sk, boots)
    BY DEF CorrInv
  <2>2. D \in Seq(Downloads) /\ R \in Seq(Downloads)
    BY <2>1 DEF DownInv
  <2>3. \A i \in 1..Len(R) : R[i] \in Downloads
    BY <2>2, LenProperties
  <2>4. \A i \in 1..Len(D) : D[i] \in Downloads
    BY <2>2, LenProperties
  <2>. QED  BY <2>1, <2>2, <2>3, <2>4, LenProperties DEF DownInv, Downloads
<1>1. \A i \in 1..Len(D) : DownTimes(D)[i] \in Nat /\ DownTimes(D)[i] = D[i].ts
  BY <1>0 DEF DownTimes
<1>2. PICK k \in 0..Len(D) :
         /\ Popped(r, D, k)
         /\ \A j \in 1..k : Expired(now, DownTimes(D)[j])
         /\ k < Len(D) => ~Expired(now, DownTimes(D)[k + 1])
  <2>1. r = PopExpired(D, DownTimes(D), now)
    BY DEF KeptDownloads, DownTimes
  <2>. HIDE DEF r
  <2>. QED  BY <1>0, <1>1, <2>1, PopFacts
<1>. HIDE DEF D, R, r
<1>3. Len(r) = Len(D) - k /\ \A j \in 1..(Len(D) - k) : r[j] = D[j + k]
  BY <1>2 DEF Popped
<1>4. ASSUME DownloadExec(e, now), boots = 0
      PROVE  DownloadIn(e, now, -sk)
  <2>1. PICK j \in 1..Len(r) : common_ancestor(r[j].anc, ancestor_set(e))
    BY <1>4 DEF DownloadExec, r
  <2>2. Len(D) <= Len(R) /\ Aligned(D, R) /\ Len(D) \in Nat /\ Len(R) \in Nat
    BY <1>0, <1>4 DEF DownInv
  <2>3. j + k \in 1..Len(D) /\ k + 1 \in 1..Len(D) /\ k < Len(D) /\ k + 1 <= j + k
    BY <1>3, <2>2
  <2>4. PICK i \in 1..Len(R) : i = Len(R) - Len(D) + (j + k) /\ D[j + k] = R[i]
    <3>1. PICK l \in 1..Len(D) : l = j + k
      BY <2>3
    <3>2. \E i \in 1..Len(R) : i = Len(R) - Len(D) + l /\ D[l] = R[i]
      BY <2>2, AlignedBack
    <3>. QED  BY <3>1, <3>2
  <2>5. PICK f \in 1..Len(R) : f = Len(R) - Len(D) + (k + 1) /\ D[k + 1] = R[f]
    <3>1. PICK l \in 1..Len(D) : l = k + 1
      BY <2>3
    <3>2. \E f \in 1..Len(R) : f = Len(R) - Len(D) + l /\ D[l] = R[f]
      BY <2>2, AlignedBack
    <3>. QED  BY <3>1, <3>2
  <2>6. r[j] = D[j + k]
    BY <1>3
  <2>7. ~Expired(now, R[f].ts)
    BY <1>1, <1>2, <2>3, <2>5
  <2>8. R[f].ts \in Nat /\ R[i].ts \in Nat
    BY <1>0
  <2>9. R[f].ts <= R[i].ts + sk
    <3>1. CASE f = i
      BY <2>8, <3>1
    <3>2. CASE f < i
      BY <1>0, <3>2 DEF DownInv
    <3>. QED  BY <2>2, <2>3, <2>4, <2>5, <3>1, <3>2, SMTT(30)
  <2>10. common_ancestor(R[i].anc, ancestor_set(e))
    BY <2>1, <2>4, <2>6
  <2>11. now + (-sk) <= R[i].ts + Window
    BY <2>7, <2>8, <2>9, NearWindow
  <2>12. i > Len(R) - kMaxDownloads
    <3>1. Len(D) <= kMaxDownloads /\ kMaxDownloads \in Nat
      BY <1>0, Limits
    <3>. QED  BY <2>2, <2>3, <2>4, <3>1, SMTT(30)
  <2>. QED  BY <2>10, <2>11, <2>12 DEF DownloadIn, R
<1>5. ASSUME DownloadIn(e, now, sk)
      PROVE  DownloadExec(e, now)
  <2>1. PICK i \in 1..Len(R) :
           /\ i > Len(R) - kMaxDownloads
           /\ common_ancestor(R[i].anc, ancestor_set(e))
           /\ now + sk <= R[i].ts + Window
    BY <1>5 DEF DownloadIn, R
  <2>2. R[i].ts \in Nat
    BY <1>0
  <2>3. ~(R[i].ts + Window < clock) /\ ~Expired(now, R[i].ts)
    BY <1>0, <2>1, <2>2, Limits, SMTT(30) DEF Expired
  <2>4. ~(Len(R) - i >= kMaxDownloads)
    BY <1>0, <2>1, Limits
  <2>5. ~(Len(R) - i >= Len(D))
    BY <1>0, <2>3, <2>4 DEF DownInv
  <2>. DEFINE j == Len(D) - (Len(R) - i)
  <2>6. j \in 1..Len(D) /\ D[j] = R[i]
    <3>1. Aligned(D, R) /\ Len(D) \in Nat /\ Len(R) \in Nat
      BY <1>0
    <3>2. Len(R) - i < Len(D)
      BY <2>5, <3>1
    <3>. QED  BY <3>1, <3>2, AlignedAt
  <2>. HIDE DEF j
  <2>7. j \notin 1..k
    BY <1>1, <1>2, <2>3, <2>6
  <2>8. j - k \in 1..Len(r) /\ r[j - k] = D[j]
    <3>1. j - k \in 1..(Len(D) - k) /\ (j - k) + k = j
      BY <1>0, <2>6, <2>7
    <3>. QED  BY <1>3, <3>1
  <2>. QED  BY <2>1, <2>6, <2>8 DEF DownloadExec, r
<1>. QED  BY <1>4, <1>5

LEMMA IntervalSize ==
    ASSUME NEW n \in Nat, NEW m \in Nat
    PROVE  Cardinality((m - n + 1)..m) = n /\ IsFiniteSet((m - n + 1)..m)
<1>. DEFINE a == m - n + 1
<1>1. a \in Int /\ m \in Int /\ (IF a > m THEN 0 ELSE m - a + 1) = n
  OBVIOUS
<1>. HIDE DEF a
<1>2. IsFiniteSet(a..m) /\ Cardinality(a..m) = IF a > m THEN 0 ELSE m - a + 1
  BY <1>1, FS_Interval
<1>. QED  BY <1>1, <1>2 DEF a

LEMMA ConnectsNumber ==
    ASSUME NEW sk \in Nat, CorrInv(sk), NEW e, NEW now, NEW m
    PROVE  ConnectsIn(e, now, m) \in Nat
<1>. DEFINE t == Get(seenConns, Key(e))
            W == {i \in 1..Len(t) : now + m <= t[i] + Window}
<1>1. HistInv(Get(conns, Key(e)), t, clock, sk, boots)
  BY DEF CorrInv, ConnsInv
<1>2. Len(t) \in Nat
  BY <1>1, HistTypes
<1>3. ConnectsIn(e, now, m) = 1 + Cardinality(W)
  BY DEF ConnectsIn
<1>4. IsFiniteSet(1..Len(t)) /\ W \in SUBSET (1..Len(t))
  BY <1>2, FS_Interval
<1>. HIDE DEF W
<1>5. Cardinality(W) \in Nat
  BY <1>4, FS_Subset, FS_CardinalityType
<1>. QED  BY <1>3, <1>5

(* The history after a connection is as long as the number of connections   *)
(* in the window, up to the disorder and as far as the threshold tells.     *)
LEMMA ConnectExact ==
    ASSUME NEW sk \in Nat, CorrInv(sk), NEW now \in Nat, now + sk >= clock, NEW e
    PROVE  /\ Len(NewHist(e, now)) >= Threshold /\ boots = 0
                => ConnectsIn(e, now, -sk) >= Threshold
           /\ ConnectsIn(e, now, 2 * sk) >= Threshold
                => Len(NewHist(e, now)) >= Threshold
<1>. DEFINE h == Get(conns, Key(e))
            t == Get(seenConns, Key(e))
            p == PopExpired(h, h, now)
            W(m) == {i \in 1..Len(t) : now + m <= t[i] + Window}
<1>0. clock \in Nat /\ HistInv(h, t, clock, sk, boots)
  BY DEF CorrInv, ConnsInv
<1>1. /\ ConnectsIn(e, now, -sk) = 1 + Cardinality(W(-sk))
      /\ ConnectsIn(e, now, 2 * sk) = 1 + Cardinality(W(2 * sk))
      /\ NewHist(e, now) = PushBounded(p, now, kMaxHistPerKey)
  BY DEF ConnectsIn, NewHist
<1>. HIDE DEF h, t
<1>2. /\ h \in Seq(Nat) /\ Aligned(h, t)
      /\ Len(h) \in Nat /\ Len(t) \in Nat /\ Len(h) <= kMaxHistPerKey
  BY <1>0, HistTypes
<1>3. /\ \A i \in 1..Len(h) : h[i] \in Nat
      /\ \A i \in 1..Len(t) : t[i] \in Nat
  BY <1>0, HistTypes
<1>4. PICK k \in 0..Len(h) :
         /\ Popped(p, h, k)
         /\ \A j \in 1..k : Expired(now, h[j])
         /\ k < Len(h) => ~Expired(now, h[k + 1])
  BY <1>2, <1>3, PopFacts
<1>5. /\ Len(p) = Len(h) - k /\ Len(p) \in Nat
      /\ Len(NewHist(e, now)) = IF Len(p) = kMaxHistPerKey THEN Len(p) ELSE Len(p) + 1
  <2>1. PICK c2 \in Nat : clock <= c2 /\ now <= c2 /\ c2 <= now + sk
    <3>1. CASE now > clock
      BY <1>0, <3>1
    <3>2. CASE now <= clock
      BY <1>0, <3>2
    <3>. QED  BY <1>0, <3>1, <3>2
  <2>2. HistInv(p, t, c2, sk, boots)
    BY <1>0, <2>1, HistPop
  <2>. HIDE DEF p
  <2>3. Len(p) = Len(h) - k /\ Len(p) \in Nat
    BY <1>2, <1>4 DEF Popped
  <2>4. /\ HistInv(PushBounded(p, now, kMaxHistPerKey), Append(t, now), c2, sk, boots)
        /\ Len(PushBounded(p, now, kMaxHistPerKey)) =
             IF Len(p) = kMaxHistPerKey THEN Len(p) ELSE Len(p) + 1
        /\ Len(PushBounded(p, now, kMaxHistPerKey)) >= 1
    BY <2>1, <2>2, HistPush
  <2>. QED  BY <1>1, <2>3, <2>4
<1>. HIDE DEF p
<1>6. ASSUME NEW m
      PROVE  /\ IsFiniteSet(W(m)) /\ Cardinality(W(m)) \in Nat
             /\ W(m) \subseteq 1..Len(t)
  <2>1. IsFiniteSet(1..Len(t))
    BY <1>2, FS_Interval
  <2>2. W(m) \in SUBSET (1..Len(t))
    OBVIOUS
  <2>. HIDE DEF W
  <2>. QED  BY <2>1, <2>2, FS_Subset, FS_CardinalityType
<1>7. ASSUME Len(NewHist(e, now)) >= Threshold, boots = 0
      PROVE  ConnectsIn(e, now, -sk) >= Threshold
  <2>. DEFINE n == Len(p)
              a == Len(t) - n + 1
  <2>1. Len(h) <= Len(t) /\ n \in Nat /\ n <= Len(t) /\ a \in Int /\ a >= 1
    BY <1>0, <1>2, <1>5, <1>7 DEF HistInv
  <2>2. ASSUME NEW i \in a..Len(t)
        PROVE  i \in W(-sk)
    <3>1. i \in 1..Len(t) /\ k < Len(h)
      BY <1>2, <1>5, <2>1
    <3>2. PICK l \in 1..Len(h) : l = k + 1
      BY <1>2, <3>1
    <3>3. PICK f \in 1..Len(t) : f = Len(t) - Len(h) + l /\ h[l] = t[f]
      BY <1>2, <2>1, AlignedBack
    <3>4. ~Expired(now, t[f])
      BY <1>4, <3>1, <3>2, <3>3
    <3>5. f = a /\ f <= i
      BY <1>2, <1>5, <2>1, <3>2, <3>3
    <3>6. t[f] \in Nat /\ t[i] \in Nat
      BY <1>3, <3>1
    <3>7. t[f] <= t[i] + sk
      <4>1. CASE f = i
        BY <3>6, <4>1
      <4>2. CASE f < i
        BY <1>0, <3>1, <4>2 DEF HistInv
      <4>. QED  BY <3>1, <3>5, <4>1, <4>2
    <3>8. now + (-sk) <= t[i] + Window
      BY <3>4, <3>6, <3>7, NearWindow
    <3>. QED  BY <3>1, <3>8
  <2>3. Cardinality(a..Len(t)) = n
    BY <1>2, <2>1, IntervalSize
  <2>4. Cardinality(a..Len(t)) <= Cardinality(W(-sk))
    <3>1. a..Len(t) \in SUBSET W(-sk)
      BY <2>2
    <3>. HIDE DEF W, a
    <3>. QED  BY <1>6, <3>1, FS_Subset
  <2>5. Threshold <= n + 1
    BY <1>5, <1>7, <2>1, Limits
  <2>6. Cardinality(W(-sk)) \in Nat
    BY <1>6
  <2>. HIDE DEF W, a, n
  <2>. QED  BY <1>1, <2>1, <2>3, <2>4, <2>5, <2>6, Limits
<1>8. ASSUME ConnectsIn(e, now, 2 * sk) >= Threshold
      PROVE  Len(NewHist(e, now)) >= Threshold
  <2>. DEFINE V == W(2 * sk)
  <2>0. ASSUME NEW i \in V
        PROVE  i \in 1..Len(t) /\ t[i] \in Nat /\ now + 2 * sk <= t[i] + Window
    BY <1>3
  <2>. HIDE DEF V
  <2>1. CASE \E i \in V : Len(t) - i >= Len(h)
    <3>1. PICK i \in V : Len(t) - i >= Len(h)
      BY <2>1
    <3>2. i \in 1..Len(t) /\ t[i] \in Nat /\ now + 2 * sk <= t[i] + Window
      BY <2>0
    <3>3. ~(t[i] + Window < clock + sk)
      BY <1>0, <3>2, Limits
    <3>4. Len(h) = kMaxHistPerKey
      BY <1>0, <1>2, <3>1, <3>2, <3>3, Limits DEF HistInv
    <3>5. k = 0
      <4>. SUFFICES ASSUME k # 0
                    PROVE  FALSE
        OBVIOUS
      <4>1. Expired(now, h[1]) /\ Len(h) >= 1
        BY <1>2, <1>4
      <4>2. PICK f \in 1..Len(t) : f = Len(t) - Len(h) + 1 /\ h[1] = t[f]
        <5>1. Len(h) <= Len(t) /\ 1 \in 1..Len(h)
          BY <1>2, <3>1, <3>2, <4>1
        <5>. QED  BY <1>2, <5>1, AlignedBack
      <4>3. i < f /\ t[f] \in Nat
        BY <1>2, <1>3, <3>1, <3>2, <4>2, SMTT(30)
      <4>4. t[i] <= t[f] + sk
        BY <1>0, <3>2, <4>3 DEF HistInv
      <4>5. Expired(now, t[f])
        BY <4>1, <4>2
      <4>. QED  BY <3>2, <4>3, <4>4, <4>5, Limits, SMTT(30) DEF Expired
    <3>. QED  BY <1>2, <1>5, <3>4, <3>5, Limits
  <2>2. CASE \A i \in V : Len(t) - i < Len(h)
    <3>. DEFINE n == Len(p)
                a == Len(t) - n + 1
    <3>1. ASSUME NEW i \in V
          PROVE  i \in a..Len(t)
      <4>1. i \in 1..Len(t) /\ t[i] \in Nat /\ now + 2 * sk <= t[i] + Window
        BY <2>0
      <4>. DEFINE j == Len(h) - (Len(t) - i)
      <4>2. j \in 1..Len(h) /\ h[j] = t[i]
        BY <1>2, <2>2, <4>1, AlignedAt
      <4>3. ~Expired(now, h[j])
        BY <4>1, <4>2, Limits DEF Expired
      <4>4. j \notin 1..k
        BY <1>4, <4>3
      <4>. QED  BY <1>2, <1>5, <4>1, <4>2, <4>4
    <3>2. a \in Int /\ n \in Nat
      BY <1>2, <1>5
    <3>3. Cardinality(a..Len(t)) = n /\ IsFiniteSet(a..Len(t))
      BY <1>2, <3>2, IntervalSize
    <3>4. Cardinality(V) <= Cardinality(a..Len(t))
      <4>1. V \in SUBSET (a..Len(t))
        BY <3>1
      <4>. HIDE DEF a
      <4>. QED  BY <3>3, <4>1, FS_Subset
    <3>5. Cardinality(V) \in Nat /\ ConnectsIn(e, now, 2 * sk) = 1 + Cardinality(V)
      BY <1>1, <1>6 DEF V
    <3>. HIDE DEF a
    <3>6. Threshold <= n + 1
      BY <1>8, <3>2, <3>3, <3>4, <3>5, Limits
    <3>. QED  BY <1>5, <3>2, <3>6, Limits
  <2>3. \A i \in V : (Len(t) - i >= Len(h)) \/ (Len(t) - i < Len(h))
    BY <1>2, <2>0
  <2>. QED  BY <2>1, <2>2, <2>3
<1>. QED  BY <1>7, <1>8

-----------------------------------------------------------------------------
(* The properties.                                                          *)

(* The tables keep their types and, but for the staged paths, their limits  *)
(* (correlator.cpp:32-35), whatever is observed and however often the       *)
(* agent's host starts again.                                               *)
THEOREM CorrTypes == CorrSpec => []CorrTypeOK
<1>1. CorrInv(Skew) => CorrTypeOK
  BY Limits, TypesHold
<1>. QED  BY <1>1, CorrInvariance, PTL

(* Rule C3 reports a staged file that is run exactly when the complete      *)
(* record of writes says so.                                                *)
THEOREM WriteExecIsExact == CorrSpec => []WriteExecExact
<1>1. CorrInv(Skew) => WriteExecExact
  <2>. SUFFICES ASSUME CorrInv(Skew), NEW e \in Candidates, NEW now \in Times
                PROVE  /\ ExecHit(e, now) = "write-exec-chain" /\ boots = 0
                             => WroteIn(e, now, 0)
                       /\ WroteIn(e, now, Skew) => ExecHit(e, now) = "write-exec-chain"
    BY DEF WriteExecExact
  <2>1. Skew \in Nat /\ now \in Nat /\ now + Skew >= clock
    BY Limits DEF Times
  <2>2. /\ WriteExec(e, now) /\ boots = 0 => WroteIn(e, now, 0)
        /\ WroteIn(e, now, Skew) => WriteExec(e, now)
    BY <2>1, WriteExact
  <2>. QED  BY <2>2 DEF ExecHit, Candidates
<1>. QED  BY <1>1, CorrInvariance, PTL

(* Rule C1 reports a temporary file that is run exactly when the complete   *)
(* record of downloader runs says so, give or take the disorder.            *)
THEOREM DownloadExecIsExact == CorrSpec => []DownloadExecExact
<1>1. CorrInv(Skew) => DownloadExecExact
  <2>. SUFFICES ASSUME CorrInv(Skew), NEW e \in Candidates, NEW now \in Times
                PROVE  /\ ExecHit(e, now) = "download-exec-chain" /\ boots = 0
                             => DownloadIn(e, now, -Skew)
                       /\ DownloadIn(e, now, Skew) => ExecHit(e, now) # "none"
    BY DEF DownloadExecExact
  <2>1. Skew \in Nat /\ now \in Nat /\ now + Skew >= clock
    BY Limits DEF Times
  <2>2. /\ DownloadExec(e, now) /\ boots = 0 => DownloadIn(e, now, -Skew)
        /\ DownloadIn(e, now, Skew) => DownloadExec(e, now)
    BY <2>1, DownloadExact
  <2>. QED  BY <2>2 DEF ExecHit, Candidates
<1>. QED  BY <1>1, CorrInvariance, PTL

(* Rule C2 reports a connection exactly when the complete record of         *)
(* connections to its destination says so, give or take the disorder.       *)
THEOREM BeaconIsExact == CorrSpec => []BeaconExact
<1>1. CorrInv(Skew) => BeaconExact
  <2>. SUFFICES ASSUME CorrInv(Skew), NEW e \in Connects, NEW now \in Times,
                       ~is_private_ipv4(e.daddr)
                PROVE  /\ ConnectHit(e, now) = "beacon" /\ boots = 0
                             => ConnectsIn(e, now, -Skew) >= Threshold
                       /\ ConnectsIn(e, now, 2 * Skew) >= Threshold
                             => ConnectHit(e, now) = "beacon"
    BY DEF BeaconExact
  <2>1. Skew \in Nat /\ now \in Nat /\ now + Skew >= clock
    BY Limits DEF Times
  <2>2. /\ Len(NewHist(e, now)) >= Threshold /\ boots = 0
             => ConnectsIn(e, now, -Skew) >= Threshold
        /\ ConnectsIn(e, now, 2 * Skew) >= Threshold
             => Len(NewHist(e, now)) >= Threshold
    BY <2>1, ConnectExact
  <2>. QED  BY <2>2 DEF ConnectHit
<1>. QED  BY <1>1, CorrInvariance, PTL
=============================================================================
