----------------------------- MODULE AgentProofs -----------------------------
(***************************************************************************)
(* Proofs about the forwarding sink and the agent process around it, for    *)
(* every capacity, ring size and set of CPUs and every load.  First the     *)
(* sink by itself; then the agent, which uses the sink as ChannelSink       *)
(* allows, so that everything proved of the sink holds inside it, and the   *)
(* only losses that no record tells are the kernel's.                       *)
(***************************************************************************)
EXTENDS AgentMain, SequenceTheorems, FiniteSetTheorems, WellFoundedInduction, TLAPS

(* The sink starts in a state that satisfies the inductive invariant.       *)
LEMMA InitIInv == Init => IInv
PROOF
<1> SUFFICES ASSUME Init PROVE IInv
  OBVIOUS
<1> USE DEF Init
<1>1. TypeOK
  <2>1. capacity \in Nat \ {0}
    BY ChannelAssumption
  <2>2. q \in Seq(Nat) /\ stream \in Seq(Record)
    OBVIOUS
  <2> QED BY <2>1, <2>2 DEF TypeOK
<1>2. WakeupNotLost /\ PendingImpliesBacklog /\ Lifecycle /\ ReportInHand
  BY DEF WakeupNotLost, PendingImpliesBacklog, Lifecycle, ReportInHand
<1>3. Accounts
  BY ChannelAssumption DEF Accounts, InHand
<1> QED BY <1>1, <1>2, <1>3 DEF IInv

(* Half of a queue, rounded down, is less than the whole (size_t division   *)
(* in run()): why a drop, which needs a full queue, leaves more than half.   *)
LEMMA HalfIsLess == \A n \in Nat \ {0} : n \div 2 \in Nat /\ n \div 2 < n
  OBVIOUS

(* handle() keeps the invariant, in each of its three outcomes.             *)
LEMMA HandleIInv ==
  ASSUME IInv, offered < MaxEvents, Handle(offered + 1)
  PROVE  IInv'
PROOF
<1> USE DEF IInv, Lifecycle
<1>0. offered \in Nat /\ offered + 1 \in Nat
  BY DEF TypeOK
<1>1. CASE HandleBroken
  <2> USE <1>1 DEF Handle, HandleBroken, lockVars, netVars
  <2>1. TypeOK'
    BY DEF TypeOK
  <2>2. WakeupNotLost' /\ PendingImpliesBacklog'
    BY DEF WakeupNotLost, PendingImpliesBacklog
  <2>3. Lifecycle' /\ ReportInHand'
    BY DEF ReportInHand
  <2>4. Accounts'
    BY ChannelAssumption DEF Accounts, InHand, TypeOK
  <2> QED BY <2>1, <2>2, <2>3, <2>4
<1>2. CASE HandleDrop
  <2> USE <1>2 DEF Handle, HandleDrop, netVars
  <2>1. TypeOK'
    BY DEF TypeOK
  <2>2. WakeupNotLost'
    BY DEF WakeupNotLost
  <2>3. PendingImpliesBacklog'
    BY HalfIsLess DEF PendingImpliesBacklog, TypeOK
  <2>4. Lifecycle'
    OBVIOUS
  <2>5. ReportInHand'
    BY DEF ReportInHand, TypeOK
  <2>6. Accounts'
    <3>1. InHand' = InHand /\ InHand \in Nat /\ Len(q) \in Nat
      BY DEF InHand, TypeOK
    <3> QED BY <3>1, ChannelAssumption DEF Accounts, TypeOK
  <2> QED BY <2>1, <2>2, <2>3, <2>4, <2>5, <2>6
<1>3. CASE HandlePush(offered + 1)
  <2> USE <1>3 DEF Handle, HandlePush, netVars
  <2>0. q \in Seq(Nat) /\ q' \in Seq(Nat) /\ Len(q') = Len(q) + 1 /\ Len(q) \in Nat
    BY <1>0 DEF TypeOK
  <2>1. TypeOK'
    BY <1>0, <2>0 DEF TypeOK
  <2>2. WakeupNotLost'
    BY DEF WakeupNotLost
  <2>3. PendingImpliesBacklog'
    BY <2>0, HalfIsLess DEF PendingImpliesBacklog, TypeOK
  <2>4. Lifecycle'
    BY DEF TypeOK
  <2>5. ReportInHand'
    BY DEF ReportInHand
  <2>6. Accounts'
    <3>1. InHand' = InHand /\ InHand \in Nat
      BY DEF InHand
    <3> QED BY <2>0, <3>1, ChannelAssumption DEF Accounts, TypeOK
  <2> QED BY <2>1, <2>2, <2>3, <2>4, <2>5, <2>6
<1> QED BY <1>1, <1>2, <1>3 DEF Handle

(* The pop of run(): the one step that can leave drops pending with too     *)
(* little backlog, and does not, because it takes them along.               *)
LEMMA TakeIInv ==
  ASSUME IInv, Take
  PROVE  IInv'
PROOF
<1> USE DEF IInv, Take, histVars, netVars
<1>0. /\ q \in Seq(Nat) /\ q' \in Seq(Nat) /\ Head(q) \in Nat
      /\ Len(q) \in Nat /\ Len(q) > 0 /\ Len(q') = Len(q) - 1
  BY DEF TypeOK
<1>1. TypeOK'
  BY <1>0 DEF TypeOK
<1>2. WakeupNotLost'
  BY DEF WakeupNotLost
<1>3. PendingImpliesBacklog'
  BY <1>0, HalfIsLess DEF PendingImpliesBacklog, ReportDue, TypeOK
<1>4. Lifecycle'
  BY DEF Lifecycle
<1>5. ReportInHand'
  BY DEF ReportInHand, ReportDue, Lifecycle, TypeOK
<1>6. Accounts'
  <2>1. InHand = 0 /\ InHand' = 1
    BY DEF InHand
  <2> QED BY <1>0, <2>1, SMTT(30) DEF Accounts, TypeOK
<1> QED BY <1>1, <1>2, <1>3, <1>4, <1>5, <1>6

(* Every other step of the sender thread keeps the invariant.               *)
LEMMA SenderIInv ==
  ASSUME IInv, Park \/ Return \/ SendEvent \/ SendNotice \/ SendFail \/ SpuriousWakeup
  PROVE  IInv'
PROOF
<1> USE DEF IInv, lockVars, histVars, netVars
<1>1. CASE Park \/ Return \/ SpuriousWakeup
  <2> USE <1>1 DEF Park, Return, SpuriousWakeup
  <2>1. TypeOK'
    BY DEF TypeOK
  <2>2. WakeupNotLost' /\ PendingImpliesBacklog'
    BY DEF WakeupNotLost, PendingImpliesBacklog
  <2>3. Lifecycle' /\ ReportInHand'
    BY DEF Lifecycle, ReportInHand
  <2>4. Accounts'
    BY DEF Accounts, InHand
  <2> QED BY <2>1, <2>2, <2>3, <2>4
<1>2. CASE SendEvent
  <2> USE <1>2 DEF SendEvent
  <2>0. stream' \in Seq(Record) /\ Len(stream') = Len(stream) + 1
    <3>1. EventRecord(ev) \in Record
      BY DEF EventRecord, Record, TypeOK
    <3> QED BY <3>1 DEF TypeOK
  <2>1. TypeOK'
    BY <2>0 DEF TypeOK
  <2>2. WakeupNotLost' /\ PendingImpliesBacklog'
    BY DEF WakeupNotLost, PendingImpliesBacklog
  <2>3. Lifecycle'
    BY DEF Lifecycle
  <2>4. ReportInHand'
    BY DEF ReportInHand, TypeOK
  <2>5. Accounts'
    <3>1. InHand = 1 /\ InHand' = 0 /\ Len(q) \in Nat
      BY DEF InHand, TypeOK
    <3> QED BY <2>0, <3>1 DEF Accounts, TypeOK
  <2> QED BY <2>1, <2>2, <2>3, <2>4, <2>5
<1>3. CASE SendNotice
  <2> USE <1>3 DEF SendNotice
  <2>0. stream' \in Seq(Record) /\ Len(stream') = Len(stream) + 1
    <3>1. make_drop_notice(report, report_total) \in Record
      BY DEF make_drop_notice, Record, TypeOK
    <3> QED BY <3>1 DEF TypeOK
  <2>1. TypeOK'
    BY <2>0 DEF TypeOK
  <2>2. WakeupNotLost' /\ PendingImpliesBacklog'
    BY DEF WakeupNotLost, PendingImpliesBacklog
  <2>3. Lifecycle'
    BY DEF Lifecycle
  <2>4. ReportInHand'
    BY DEF ReportInHand, TypeOK
  <2>5. Accounts'
    BY <2>0 DEF Accounts, InHand
  <2> QED BY <2>1, <2>2, <2>3, <2>4, <2>5
<1>4. CASE SendFail
  <2> USE <1>4 DEF SendFail
  <2>1. TypeOK'
    BY DEF TypeOK
  <2>2. WakeupNotLost' /\ PendingImpliesBacklog'
    BY DEF WakeupNotLost, PendingImpliesBacklog
  <2>3. Lifecycle' /\ ReportInHand'
    BY DEF Lifecycle, ReportInHand
  <2>4. Accounts'
    BY DEF Accounts
  <2> QED BY <2>1, <2>2, <2>3, <2>4
<1> QED BY <1>1, <1>2, <1>3, <1>4

(* The destructor, a signal, the analyzer's end and the final state.        *)
LEMMA OtherIInv ==
  ASSUME IInv,
         Destructor \/ Signal \/ PeerRecv \/ PeerDie \/ UNCHANGED vars
  PROVE  IInv'
PROOF
<1> USE DEF IInv, lockVars, senderVars, histVars, netVars
<1>1. CASE Destructor
  <2> USE <1>1 DEF Destructor, SetStop, NotifyAll, JoinAndClose
  <2>1. TypeOK'
    BY DEF TypeOK
  <2>2. WakeupNotLost' /\ PendingImpliesBacklog'
    BY DEF WakeupNotLost, PendingImpliesBacklog
  <2>3. Lifecycle'
    BY DEF Lifecycle
  <2>4. ReportInHand'
    BY DEF ReportInHand
  <2>5. Accounts'
    BY DEF Accounts, InHand
  <2> QED BY <2>1, <2>2, <2>3, <2>4, <2>5
<1>2. CASE Signal \/ PeerRecv \/ PeerDie \/ UNCHANGED vars
  <2> USE <1>2 DEF Signal, PeerRecv, PeerDie, vars
  <2>1. TypeOK'
    <3>1. rd' \in Nat /\ conn' \in {"up", "down"}
      BY SMTT(30) DEF TypeOK
    <3>2. g_exiting' \in BOOLEAN
      BY Zenon DEF TypeOK
    <3> QED BY <3>1, <3>2 DEF TypeOK
  <2>2. WakeupNotLost' /\ PendingImpliesBacklog'
    BY DEF WakeupNotLost, PendingImpliesBacklog
  <2>3. Lifecycle' /\ ReportInHand'
    BY DEF Lifecycle, ReportInHand
  <2>4. Accounts'
    BY DEF Accounts, InHand
  <2> QED BY <2>1, <2>2, <2>3, <2>4
<1> QED BY <1>1, <1>2

(* IInv is an invariant of the sink.                                        *)
THEOREM Invariance == Spec => []IInv
PROOF
<1>1. ASSUME IInv, [Next]_vars
      PROVE  IInv'
  BY <1>1, HandleIInv, TakeIInv, SenderIInv, OtherIInv
  DEF Next, Sender, Terminated
<1> QED BY InitIInv, <1>1, PTL DEF Spec

(* The types of ChannelSink hold for every capacity and every load.         *)
THEOREM TypeCorrect == Spec => []TypeOK
  BY Invariance, PTL DEF IInv

(* No wakeup of the sender thread is lost.                                  *)
THEOREM NoLostWakeup == Spec => []WakeupNotLost
  BY Invariance, PTL DEF IInv

(* While drops are pending, more than half the queue is still to be sent.   *)
THEOREM PendingHasBacklog == Spec => []PendingImpliesBacklog
  BY Invariance, PTL DEF IInv

(* A sender that returns without a send failure has written every accepted  *)
(* event and announced every drop, for every capacity >= 1 and every load.  *)
THEOREM CleanEnd == Spec => []CleanEndOwesNothing
PROOF
<1>1. ASSUME IInv PROVE CleanEndOwesNothing
  <2> SUFFICES ASSUME pc = "done", ~broken
               PROVE  q = <<>> /\ dropped_pending = 0 /\ report = 0
                        /\ offered = handed + dropped
    BY DEF CleanEndOwesNothing
  <2>1. q = <<>>
    BY <1>1 DEF IInv, Lifecycle
  <2>2. dropped_pending = 0
    <3>1. Len(q) = 0 /\ capacity \div 2 \in Nat /\ dropped_pending \in Nat
      BY <1>1, <2>1, HalfIsLess DEF IInv, TypeOK
    <3> QED BY <1>1, <3>1 DEF IInv, PendingImpliesBacklog
  <2>3. report = 0
    BY <1>1 DEF IInv, ReportInHand, TypeOK
  <2>4. offered = handed + dropped
    <3>1. InHand = 0 /\ Len(q) = 0
      BY <2>1 DEF InHand
    <3> QED BY <1>1, <3>1 DEF IInv, Accounts, TypeOK
  <2> QED BY <2>1, <2>2, <2>3, <2>4
<1> QED BY Invariance, <1>1, PTL

-----------------------------------------------------------------------------
(* What the stream tells.  The sum of the notices is a recursive function;   *)
(* induction over its argument is induction over a set of numbers.           *)

LEMMA SetInduction ==
  ASSUME NEW T, T \subseteq Nat, 0 \in T, \A n \in T : n + 1 \in T
  PROVE  T = Nat
PROOF
<1> SUFFICES ASSUME Nat \ T # {} PROVE FALSE
  OBVIOUS
<1>1. PICK x \in Nat \ T : \A y \in Nat \ T : ~(<<y, x>> \in OpToRel(<, Nat))
  BY NatLessThanWellFounded, WFMin, Zenon
<1>2. \A y \in Nat \ T : ~(y < x)
  BY <1>1 DEF OpToRel
<1>3. x \in Nat /\ x \notin T
  OBVIOUS
<1>4. x # 0
  BY <1>3
<1>5. x - 1 \in Nat /\ x - 1 < x /\ (x - 1) + 1 = x
  BY <1>3, <1>4
<1>6. x - 1 \in T
  BY <1>2, <1>5
<1>7. (x - 1) + 1 \in T
  BY <1>6
<1> QED BY <1>3, <1>5, <1>7

(* f is the sum over the first i records of s, for i up to n.                *)
Sums(f, s, n) ==
    f = [i \in 0..n |-> IF i = 0 THEN 0 ELSE f[i - 1] + Announces(s[i])]

LEMMA SumsAt ==
  ASSUME NEW n \in Nat, NEW s, NEW f, Sums(f, s, n)
  PROVE  f[0] = 0 /\ \A i \in 1..n : f[i] = f[i - 1] + Announces(s[i])
PROOF
<1> DEFINE F == [i \in 0..n |-> IF i = 0 THEN 0 ELSE f[i - 1] + Announces(s[i])]
<1>1. f = F
  BY DEF Sums
<1>2. F[0] = 0 /\ \A i \in 1..n : F[i] = f[i - 1] + Announces(s[i])
  OBVIOUS
<1> HIDE DEF F
<1> QED BY <1>1, <1>2

LEMMA SumsExist ==
  ASSUME NEW s
  PROVE  \A n \in Nat : \E f : Sums(f, s, n)
PROOF
<1> DEFINE T == {n \in Nat : \E f : Sums(f, s, n)}
<1>1. 0 \in T
  <2> DEFINE f == [i \in 0..0 |-> 0]
  <2>1. f = [i \in 0..0 |-> IF i = 0 THEN 0 ELSE f[i - 1] + Announces(s[i])]
    OBVIOUS
  <2> QED BY <2>1 DEF Sums
<1>2. ASSUME NEW n \in T
      PROVE  n + 1 \in T
  <2>1. PICK f : Sums(f, s, n)
    OBVIOUS
  <2>2. f[0] = 0 /\ \A i \in 1..n : f[i] = f[i - 1] + Announces(s[i])
    BY <2>1, SumsAt
  <2> DEFINE g == [i \in 0..(n + 1) |-> IF i = n + 1 THEN f[n] + Announces(s[n + 1]) ELSE f[i]]
             G == [i \in 0..(n + 1) |-> IF i = 0 THEN 0 ELSE g[i - 1] + Announces(s[i])]
  <2>3. ASSUME NEW i \in 0..(n + 1)
        PROVE  g[i] = IF i = 0 THEN 0 ELSE g[i - 1] + Announces(s[i])
    <3>1. CASE i = 0
      BY <2>2, <3>1
    <3>2. CASE i \in 1..n
      <4>1. i - 1 \in 0..(n + 1) /\ i - 1 # n + 1 /\ i # n + 1 /\ i # 0
        BY <3>2
      <4>2. g[i] = f[i] /\ g[i - 1] = f[i - 1]
        BY <4>1
      <4> HIDE DEF g
      <4> QED BY <2>2, <3>2, <4>1, <4>2
    <3>3. CASE i = n + 1
      <4>1. g[i] = f[n] + Announces(s[n + 1]) /\ g[n] = f[n] /\ i - 1 = n /\ i # 0
        BY <3>3
      <4> HIDE DEF g
      <4> QED BY <3>3, <4>1
    <3> QED BY <3>1, <3>2, <3>3
  <2>4. g = G
    BY <2>3
  <2>5. Sums(g, s, n + 1)
    BY <2>4, Zenon DEF Sums
  <2>6. n + 1 \in Nat
    OBVIOUS
  <2> HIDE DEF g, G
  <2> QED BY <2>5, <2>6, Zenon
<1> HIDE DEF T
<1>3. T = Nat
  <2>1. T \subseteq Nat
    BY DEF T
  <2> QED BY <1>1, <1>2, <2>1, SetInduction
<1> QED BY <1>3 DEF T

(* Two sums over records that begin alike begin alike.                       *)
LEMMA SumsAgree ==
  ASSUME NEW s, NEW t, NEW m \in Nat, NEW n \in Nat, m <= n,
         NEW f, NEW g, Sums(f, s, m), Sums(g, t, n),
         \A i \in 1..m : s[i] = t[i]
  PROVE  \A i \in 0..m : f[i] = g[i]
PROOF
<1> DEFINE T == {i \in Nat : i <= m => f[i] = g[i]}
<1>0. /\ f[0] = 0 /\ \A i \in 1..m : f[i] = f[i - 1] + Announces(s[i])
      /\ g[0] = 0 /\ \A i \in 1..n : g[i] = g[i - 1] + Announces(t[i])
  BY SumsAt
<1>1. 0 \in T
  BY <1>0
<1>2. ASSUME NEW i \in T
      PROVE  i + 1 \in T
  <2> SUFFICES ASSUME i + 1 <= m
               PROVE  f[i + 1] = g[i + 1]
    OBVIOUS
  <2>1. i \in Nat /\ i <= m /\ i + 1 \in 1..m /\ i + 1 \in 1..n /\ (i + 1) - 1 = i
    OBVIOUS
  <2>2. f[i] = g[i]
    BY <2>1
  <2> QED BY <1>0, <2>1, <2>2
<1> HIDE DEF T
<1>3. T = Nat
  <2>1. T \subseteq Nat
    BY DEF T
  <2> QED BY <1>1, <1>2, <2>1, SetInduction
<1> QED BY <1>3 DEF T

LEMMA SumChosen ==
  ASSUME NEW s \in Seq(Record)
  PROVE  \E f : Sums(f, s, Len(s)) /\ AnnouncedIn(s) = f[Len(s)]
PROOF
<1> DEFINE f == CHOOSE f : f = [n \in 0..Len(s) |->
                                  IF n = 0 THEN 0 ELSE f[n - 1] + Announces(s[n])]
<1>1. AnnouncedIn(s) = f[Len(s)]
  BY DEF AnnouncedIn
<1>2. \E h : h = [n \in 0..Len(s) |-> IF n = 0 THEN 0 ELSE h[n - 1] + Announces(s[n])]
  BY SumsExist DEF Sums
<1>3. Sums(f, s, Len(s))
  BY <1>2 DEF Sums
<1> QED BY <1>1, <1>3

(* What one record more adds to the sum, and to the number of events.        *)
LEMMA AnnouncedAppend ==
  ASSUME NEW s \in Seq(Record), NEW r \in Record
  PROVE  AnnouncedIn(Append(s, r)) = AnnouncedIn(s) + Announces(r)
PROOF
<1> DEFINE a == Append(s, r)
<1>1. /\ a \in Seq(Record) /\ Len(s) \in Nat /\ Len(a) = Len(s) + 1
      /\ \A i \in 1..Len(s) : a[i] = s[i]
      /\ a[Len(s) + 1] = r
  BY AppendProperties, LenProperties
<1> HIDE DEF a
<1>2. PICK f : Sums(f, s, Len(s)) /\ AnnouncedIn(s) = f[Len(s)]
  BY SumChosen
<1>3. PICK g : Sums(g, a, Len(a)) /\ AnnouncedIn(a) = g[Len(a)]
  BY <1>1, SumChosen
<1>4. f[Len(s)] = g[Len(s)]
  BY <1>1, <1>2, <1>3, SumsAgree
<1>5. g[Len(s) + 1] = g[Len(s)] + Announces(a[Len(s) + 1])
  <2>1. \A i \in 1..Len(a) : g[i] = g[i - 1] + Announces(a[i])
    BY <1>1, <1>3, SumsAt
  <2>2. Len(s) + 1 \in 1..Len(a) /\ (Len(s) + 1) - 1 = Len(s)
    BY <1>1
  <2> QED BY <2>1, <2>2
<1> QED BY <1>1, <1>2, <1>3, <1>4, <1>5 DEF a

LEMMA AnnouncedNone == AnnouncedIn(<<>>) = 0
PROOF
<1>1. <<>> \in Seq(Record) /\ Len(<<>>) = 0
  BY EmptySeq
<1>2. PICK f : Sums(f, <<>>, Len(<<>>)) /\ AnnouncedIn(<<>>) = f[Len(<<>>)]
  BY <1>1, SumChosen
<1> QED BY <1>1, <1>2, SumsAt

LEMMA EventsAppend ==
  ASSUME NEW s \in Seq(Record), NEW r \in Record
  PROVE  /\ EventsIn(s) \in Nat
         /\ EventsIn(Append(s, r)) = EventsIn(s) + IF r.type = "event" THEN 1 ELSE 0
PROOF
<1> DEFINE a == Append(s, r)
           E == {i \in 1..Len(s) : s[i].type = "event"}
           A == {i \in 1..Len(a) : a[i].type = "event"}
<1>1. /\ Len(s) \in Nat /\ Len(a) = Len(s) + 1
      /\ \A i \in 1..Len(s) : a[i] = s[i]
      /\ a[Len(s) + 1] = r
  BY AppendProperties, LenProperties
<1>2. EventsIn(s) = Cardinality(E) /\ EventsIn(a) = Cardinality(A)
  BY DEF EventsIn
<1> HIDE DEF a
<1>3. IsFiniteSet(E) /\ Cardinality(E) \in Nat
  <2>1. IsFiniteSet(1..Len(s)) /\ E \in SUBSET (1..Len(s))
    BY <1>1, FS_Interval
  <2> HIDE DEF E
  <2> QED BY <2>1, FS_Subset, FS_CardinalityType
<1>4. CASE r.type = "event"
  <2>1. A = E \cup {Len(s) + 1} /\ Len(s) + 1 \notin E
    BY <1>1, <1>4
  <2> HIDE DEF A, E
  <2>2. Cardinality(A) = Cardinality(E) + 1
    BY <1>3, <2>1, FS_AddElement
  <2> QED BY <1>2, <1>3, <1>4, <2>2 DEF a
<1>5. CASE r.type # "event"
  <2>1. A = E
    BY <1>1, <1>5
  <2> HIDE DEF A, E
  <2> QED BY <1>2, <1>3, <1>5, <2>1 DEF a
<1> QED BY <1>4, <1>5

LEMMA EventsNone == EventsIn(<<>>) = 0
PROOF
<1>1. {i \in 1..Len(<<>>) : <<>>[i].type = "event"} = {}
  BY EmptySeq
<1> QED BY <1>1, FS_EmptySet DEF EventsIn

(* Records already written keep their prefixes when one more is written.     *)
LEMMA PrefixOfAppend ==
  ASSUME NEW s \in Seq(Record), NEW r \in Record
  PROVE  /\ \A i \in 1..Len(s) : SubSeq(Append(s, r), 1, i) = SubSeq(s, 1, i)
         /\ SubSeq(Append(s, r), 1, Len(s) + 1) = Append(s, r)
PROOF
<1> DEFINE a == Append(s, r)
<1>1. /\ a \in Seq(Record) /\ Len(s) \in Nat /\ Len(a) = Len(s) + 1
      /\ \A i \in 1..Len(s) : a[i] = s[i]
  BY AppendProperties, LenProperties
<1> HIDE DEF a
<1>2. ASSUME NEW i \in 1..Len(s)
      PROVE  SubSeq(a, 1, i) = SubSeq(s, 1, i)
  BY <1>1
<1>3. SubSeq(a, 1, Len(s) + 1) = a
  BY <1>1
<1> QED BY <1>2, <1>3 DEF a

(* What the records written say about the counters: with IInv, inductive.    *)
StreamInv ==
    /\ main = "closed" => pc = "done"
    /\ handed = EventsIn(stream)
    /\ AnnouncedIn(stream) = dropped - dropped_pending - report
    /\ NoticesAreTrue

LEMMA InitStreamInv == Init => StreamInv
PROOF
<1> SUFFICES ASSUME Init PROVE StreamInv
  OBVIOUS
<1>1. stream = <<>> /\ handed = 0 /\ dropped = 0 /\ dropped_pending = 0 /\ report = 0
      /\ main = "running"
  BY DEF Init
<1>2. NoticesAreTrue
  BY <1>1 DEF NoticesAreTrue
<1>3. EventsIn(stream) = 0 /\ AnnouncedIn(stream) = 0
  BY <1>1, EventsNone, AnnouncedNone
<1> QED BY <1>1, <1>2, <1>3 DEF StreamInv

(* A step that writes nothing and forgets no drop keeps every notice true.   *)
LEMMA NoticesStay ==
  ASSUME IInv, NoticesAreTrue, stream' = stream, dropped' \in Nat, dropped <= dropped'
  PROVE  NoticesAreTrue'
PROOF
<1> SUFFICES ASSUME NEW i \in 1..Len(stream), stream[i].type = "drop"
             PROVE  /\ stream[i].sent_total = i - 1
                    /\ stream[i].dropped > 0
                    /\ stream[i].dropped_total = AnnouncedIn(SubSeq(stream, 1, i))
                    /\ stream[i].dropped_total <= dropped'
  BY DEF NoticesAreTrue
<1>1. /\ stream[i].sent_total = i - 1
      /\ stream[i].dropped > 0
      /\ stream[i].dropped_total = AnnouncedIn(SubSeq(stream, 1, i))
      /\ stream[i].dropped_total <= dropped
  BY DEF NoticesAreTrue
<1>2. stream[i] \in Record /\ dropped \in Nat
  BY DEF IInv, TypeOK
<1>3. stream[i].dropped_total \in Nat
  BY <1>2 DEF Record
<1>4. stream[i].dropped_total <= dropped'
  BY <1>1, <1>2, <1>3
<1> QED BY <1>1, <1>4

(* A step that writes one record keeps every notice true when the record, if *)
(* it is a notice, is.                                                       *)
LEMMA NoticesGrow ==
  ASSUME IInv, NoticesAreTrue, dropped' = dropped,
         NEW r \in Record, stream' = Append(stream, r),
         r.type = "drop" => /\ r.sent_total = Len(stream)
                            /\ r.dropped > 0
                            /\ r.dropped_total = AnnouncedIn(stream')
                            /\ r.dropped_total <= dropped
  PROVE  NoticesAreTrue'
PROOF
<1>0. stream \in Seq(Record) /\ Len(stream) \in Nat
  BY DEF IInv, TypeOK
<1>1. /\ Len(stream') = Len(stream) + 1
      /\ \A i \in 1..Len(stream) : stream'[i] = stream[i]
      /\ stream'[Len(stream) + 1] = r
  BY <1>0
<1>2. /\ \A i \in 1..Len(stream) : SubSeq(stream', 1, i) = SubSeq(stream, 1, i)
      /\ SubSeq(stream', 1, Len(stream) + 1) = stream'
  BY <1>0, PrefixOfAppend
<1> SUFFICES ASSUME NEW i \in 1..Len(stream'), stream'[i].type = "drop"
             PROVE  /\ stream'[i].sent_total = i - 1
                    /\ stream'[i].dropped > 0
                    /\ stream'[i].dropped_total = AnnouncedIn(SubSeq(stream', 1, i))
                    /\ stream'[i].dropped_total <= dropped'
  BY DEF NoticesAreTrue
<1>3. CASE i \in 1..Len(stream)
  <2>1. stream'[i] = stream[i] /\ SubSeq(stream', 1, i) = SubSeq(stream, 1, i)
    BY <1>1, <1>2, <1>3
  <2> QED BY <1>3, <2>1 DEF NoticesAreTrue
<1>4. CASE i = Len(stream) + 1
  <2>1. stream'[i] = r /\ SubSeq(stream', 1, i) = stream' /\ i - 1 = Len(stream)
    BY <1>0, <1>1, <1>2, <1>4
  <2> QED BY <2>1
<1> QED BY <1>0, <1>1, <1>3, <1>4

(* Each step keeps StreamInv.                                                *)
LEMMA StepStreamInv ==
  ASSUME IInv, StreamInv, [Next]_vars
  PROVE  StreamInv'
PROOF
<1>0. /\ dropped \in Nat /\ dropped_pending \in Nat /\ report \in Nat
      /\ handed \in Nat /\ stream \in Seq(Record) /\ Len(stream) \in Nat
      /\ sent = Len(stream) /\ ev \in Nat /\ report_total \in Nat
      /\ dropped_pending + report <= dropped
  BY DEF IInv, TypeOK, Accounts, ReportInHand
<1>1. CASE HandleDrop /\ Handle(offered + 1)
  <2>1. dropped' = dropped + 1 /\ dropped_pending' = dropped_pending + 1
        /\ UNCHANGED <<stream, handed, report, main>> /\ main # "closed"
    BY <1>1 DEF HandleDrop, Handle, netVars
  <2>2. NoticesAreTrue'
    BY <1>0, <2>1, NoticesStay DEF StreamInv
  <2> QED BY <1>0, <2>1, <2>2 DEF StreamInv
<1>2. CASE Take
  <2>1. report = 0
    BY <1>2 DEF Take, IInv, ReportInHand, Lifecycle, TypeOK
  <2>2. /\ dropped' = dropped /\ dropped_pending' + report' = dropped_pending
        /\ dropped_pending' \in Nat /\ report' \in Nat
        /\ UNCHANGED <<stream, handed, main>> /\ pc # "done"
    BY <1>0, <1>2 DEF Take, histVars, netVars
  <2>3. NoticesAreTrue'
    BY <1>0, <2>2, NoticesStay DEF StreamInv
  <2>4. dropped' - dropped_pending' - report' = dropped - dropped_pending - report
    <3> DEFINE p == dropped_pending'
               n == report'
               d == dropped
    <3>1. /\ p \in Nat /\ n \in Nat /\ d \in Nat /\ dropped_pending = p + n
          /\ report = 0 /\ dropped' = d
      BY <1>0, <2>1, <2>2
    <3> HIDE DEF p, n, d
    <3>2. d - p - n = d - (p + n) - 0
      BY <3>1
    <3> QED BY <3>1, <3>2 DEF p, n, d
  <2>5. main' = "closed" => pc' = "done"
    BY <2>2 DEF StreamInv
  <2> QED BY <2>2, <2>3, <2>4, <2>5 DEF StreamInv
<1>3. CASE SendEvent
  <2>1. EventRecord(ev) \in Record /\ EventRecord(ev).type = "event"
    BY <1>0 DEF EventRecord, Record
  <2>2. /\ stream' = Append(stream, EventRecord(ev)) /\ handed' = handed + 1
        /\ UNCHANGED <<dropped, dropped_pending, report, main>> /\ pc = "send_ev"
    BY <1>3 DEF SendEvent, lockVars
  <2>3. NoticesAreTrue'
    BY <2>1, <2>2, NoticesGrow DEF StreamInv
  <2>4. EventsIn(stream') = EventsIn(stream) + 1
    BY <1>0, <2>1, <2>2, EventsAppend
  <2>5. AnnouncedIn(stream') = AnnouncedIn(stream)
    <3>1. Announces(EventRecord(ev)) = 0
      BY <2>1 DEF Announces
    <3>2. AnnouncedIn(stream) \in Int
      BY <1>0 DEF StreamInv
    <3>3. AnnouncedIn(stream') = AnnouncedIn(stream) + Announces(EventRecord(ev))
      BY <1>0, <2>1, <2>2, AnnouncedAppend
    <3> QED BY <3>1, <3>2, <3>3
  <2> QED BY <2>2, <2>3, <2>4, <2>5 DEF StreamInv
<1>4. CASE SendNotice
  <2> DEFINE r == make_drop_notice(report, report_total)
  <2>1. r \in Record /\ r.type = "drop" /\ r.dropped = report
        /\ r.dropped_total = report_total /\ r.sent_total = Len(stream)
    BY <1>0 DEF make_drop_notice, Record
  <2>2. report > 0 /\ report_total = dropped - dropped_pending
    BY <1>4 DEF SendNotice, IInv, ReportInHand
  <2>3. /\ stream' = Append(stream, r) /\ report' = 0
        /\ UNCHANGED <<dropped, dropped_pending, handed, main>> /\ pc = "send_notice"
    BY <1>4 DEF SendNotice, lockVars, histVars
  <2> HIDE DEF r
  <2>4. AnnouncedIn(stream') = dropped - dropped_pending
    <3>1. Announces(r) = report
      BY <2>1 DEF Announces
    <3>2. AnnouncedIn(stream') = AnnouncedIn(stream) + Announces(r)
      BY <1>0, <2>1, <2>3, AnnouncedAppend
    <3>3. AnnouncedIn(stream) = dropped - dropped_pending - report
      BY DEF StreamInv
    <3> QED BY <1>0, <3>1, <3>2, <3>3
  <2>5. NoticesAreTrue'
    BY <1>0, <2>1, <2>2, <2>3, <2>4, NoticesGrow DEF StreamInv
  <2>6. EventsIn(stream') = EventsIn(stream)
    <3>1. EventsIn(stream) \in Nat /\ EventsIn(stream') = EventsIn(stream) + 0
      BY <1>0, <2>1, <2>3, EventsAppend
    <3> QED BY <3>1
  <2>7. handed' = EventsIn(stream') /\ main' = main /\ pc # "done" /\ report' = 0
    BY <2>3, <2>6 DEF StreamInv
  <2>8. AnnouncedIn(stream') = dropped' - dropped_pending' - report'
    BY <1>0, <2>3, <2>4
  <2> QED BY <2>5, <2>7, <2>8 DEF StreamInv
<1>5. CASE UNCHANGED <<stream, handed, dropped, dropped_pending, report>>
           /\ (main' = "closed" => pc' = "done")
  <2>1. NoticesAreTrue'
    BY <1>0, <1>5, NoticesStay DEF StreamInv
  <2> QED BY <1>5, <2>1 DEF StreamInv
<1>6. ASSUME Handle(offered + 1), ~HandleDrop
      PROVE  UNCHANGED <<stream, handed, dropped, dropped_pending, report>>
               /\ main' # "closed"
  BY <1>6 DEF Handle, HandleBroken, HandlePush, lockVars, netVars
<1>7. ASSUME Destructor \/ Park \/ Return \/ SendFail \/ SpuriousWakeup \/ Signal
               \/ PeerRecv \/ PeerDie \/ UNCHANGED vars
      PROVE  UNCHANGED <<stream, handed, dropped, dropped_pending, report>>
               /\ (main' = "closed" => pc' = "done")
  BY <1>7 DEF Destructor, SetStop, NotifyAll, JoinAndClose, Park, Return, SendFail,
     SpuriousWakeup, Signal, PeerRecv, PeerDie, vars, lockVars, senderVars, histVars,
     netVars, StreamInv
<1> QED BY <1>1, <1>2, <1>3, <1>4, <1>5, <1>6, <1>7 DEF Next, Sender, Terminated

(* The counters and the records written agree in every reachable state.      *)
THEOREM StreamInvariance == Spec => []StreamInv
  BY Invariance, InitStreamInv, StepStreamInv, PTL DEF Spec

(* Every drop notice on the wire is right, for every capacity and load.      *)
THEOREM NoticesTrue == Spec => []NoticesAreTrue
  BY StreamInvariance, PTL DEF StreamInv

(* After a clean end of file, what the analyzer read accounts for every      *)
(* event the agent collected.                                                *)
THEOREM StreamIsComplete == Spec => []StreamTellsAll
PROOF
<1>1. ASSUME IInv, StreamInv, CleanEndOwesNothing PROVE StreamTellsAll
  <2> SUFFICES ASSUME main = "closed", ~broken
               PROVE  EventsIn(stream) + AnnouncedIn(stream) = offered
    BY DEF StreamTellsAll
  <2>1. dropped_pending = 0 /\ report = 0 /\ offered = handed + dropped
    BY <1>1 DEF StreamInv, CleanEndOwesNothing
  <2>2. EventsIn(stream) = handed /\ AnnouncedIn(stream) = dropped - 0 - 0
    BY <1>1, <2>1 DEF StreamInv
  <2>3. handed \in Nat /\ dropped \in Nat
    BY <1>1 DEF IInv, TypeOK
  <2> QED BY <2>1, <2>2, <2>3
<1> QED BY Invariance, StreamInvariance, CleanEnd, <1>1, PTL

-----------------------------------------------------------------------------
(* handle() is Accept, Miss or a stutter of the abstract channel.            *)
LEMMA HandleRefines ==
  ASSUME IInv, offered < MaxEvents, Handle(offered + 1)
  PROVE  [LF!Next]_(LF!vars)
PROOF
<1> USE DEF Handle, netVars
<1>1. CASE HandleBroken
  BY <1>1 DEF HandleBroken, lockVars, LF!vars, Backlog, Missed, Announced, Status
<1>2. CASE HandleDrop
  <2> USE <1>2 DEF HandleDrop
  <2>1. pc # "done" /\ ~broken'
    BY DEF IInv, Lifecycle
  <2>2. Backlog' = Backlog /\ Status = "open" /\ Status' = "open"
    BY <2>1 DEF Backlog, Status
  <2>3. Missed' = Missed + 1 /\ Announced' = Announced
    BY <2>1 DEF Missed, Announced, IInv, TypeOK
  <2> QED BY <2>2, <2>3 DEF LF!Next, LF!Miss
<1>3. CASE HandlePush(offered + 1)
  <2> USE <1>3 DEF HandlePush
  <2>1. /\ pc # "done" /\ ~broken /\ ~broken' /\ pc' # "done"
        /\ (pc' = "send_ev") = (pc = "send_ev")
    BY DEF IInv, Lifecycle, TypeOK
  <2>2. Missed' = Missed /\ Announced' = Announced /\ Status = "open" /\ Status' = "open"
    BY <2>1 DEF Missed, Announced, Status
  <2>3. Backlog' = Append(Backlog, offered + 1)
    <3>1. q \in Seq(Nat) /\ ev \in Nat /\ offered + 1 \in Nat
      BY DEF IInv, TypeOK
    <3>2. <<ev>> \o Append(q, offered + 1) = Append(<<ev>> \o q, offered + 1)
      BY <3>1
    <3> QED BY <2>1, <3>2 DEF Backlog
  <2>4. offered + 1 \in 1..MaxEvents
    BY ChannelAssumption DEF IInv, TypeOK
  <2> QED BY <2>2, <2>3, <2>4 DEF LF!Next, LF!Accept
<1> QED BY <1>1, <1>2, <1>3

(* The pop is a stutter: the event moves from the queue to the hand, the     *)
(* pending drops move to the report.                                         *)
LEMMA TakeRefines ==
  ASSUME IInv, Take
  PROVE  [LF!Next]_(LF!vars)
PROOF
<1> USE DEF Take, histVars, netVars
<1>1. ~broken /\ ~broken' /\ report = 0
  BY DEF IInv, Lifecycle, ReportInHand, TypeOK
<1>2. Backlog' = Backlog
  <2>1. q \in Seq(Nat) /\ q # <<>>
    BY DEF IInv, TypeOK
  <2>2. <<Head(q)>> \o Tail(q) = q
    BY <2>1
  <2> QED BY <1>1, <2>2 DEF Backlog
<1>3. Missed' = Missed /\ Announced' = Announced
  BY <1>1 DEF Missed, Announced, IInv, TypeOK
<1>4. Status' = Status /\ stream' = stream
  BY <1>1 DEF Status
<1> QED BY <1>2, <1>3, <1>4 DEF LF!vars

(* Taking the head off a sequence that was put in front of another.          *)
LEMMA HeadTailOfCons ==
  ASSUME NEW e \in Nat, NEW s \in Seq(Nat)
  PROVE  <<e>> \o s # <<>> /\ Head(<<e>> \o s) = e /\ Tail(<<e>> \o s) = s
PROOF
<1> DEFINE t == <<e>> \o s
<1>1. t \in Seq(Nat) /\ Len(t) = Len(s) + 1 /\ Len(s) \in Nat
  OBVIOUS
<1>2. t[1] = e /\ \A i \in 1..Len(s) : t[i + 1] = s[i]
  OBVIOUS
<1>3. t # <<>> /\ Head(t) = e
  BY <1>1, <1>2
<1>4. /\ Tail(t) \in Seq(Nat) /\ Len(Tail(t)) = Len(s)
      /\ \A i \in 1..Len(s) : Tail(t)[i] = s[i]
  BY <1>1, <1>2, <1>3
<1>5. Tail(t) = s
  BY <1>4
<1> QED BY <1>3, <1>5

(* Writing an event is Deliver, writing a notice is Announce, a failed send  *)
(* is Fail, and the return of run() with an empty queue is End.              *)
LEMMA SendRefines ==
  ASSUME IInv, SendEvent \/ SendNotice \/ SendFail \/ Return
  PROVE  [LF!Next]_(LF!vars)
PROOF
<1> USE DEF lockVars, histVars, netVars
<1>1. CASE SendEvent
  <2> USE <1>1 DEF SendEvent
  <2>1. ~broken /\ ~broken' /\ pc' \notin {"done", "send_ev"}
    BY DEF IInv, Lifecycle
  <2>2. Backlog # <<>> /\ Head(Backlog) = ev /\ Backlog' = Tail(Backlog)
    <3>1. q \in Seq(Nat) /\ ev \in Nat /\ Backlog = <<ev>> \o q /\ Backlog' = q
      BY <2>1 DEF Backlog, IInv, TypeOK
    <3>2. <<ev>> \o q # <<>> /\ Head(<<ev>> \o q) = ev /\ Tail(<<ev>> \o q) = q
      BY <3>1, HeadTailOfCons
    <3> QED BY <3>1, <3>2
  <2>3. Missed' = Missed /\ Announced' = Announced /\ Status = "open" /\ Status' = "open"
    BY <2>1 DEF Missed, Announced, Status
  <2> QED BY <2>2, <2>3 DEF LF!Next, LF!Deliver, EventRecord
<1>2. CASE SendNotice
  <2> USE <1>2 DEF SendNotice
  <2>1. ~broken /\ ~broken'
    BY DEF IInv, Lifecycle
  <2>2. Backlog' = Backlog /\ Status = "open" /\ Status' = "open"
    BY <2>1 DEF Backlog, Status
  <2>3. /\ report \in 1..Missed
        /\ Missed' = Missed - report
        /\ Announced' = Announced + report
        /\ report_total = Announced + report
    BY <2>1 DEF Missed, Announced, IInv, TypeOK, ReportInHand
  <2>4. sent = Len(stream)
    BY DEF IInv, Accounts
  <2> QED BY <2>2, <2>3, <2>4 DEF LF!Next, LF!Announce, make_drop_notice
<1>3. CASE SendFail
  <2> USE <1>3 DEF SendFail
  <2>1. ~broken /\ broken'
    BY DEF IInv, Lifecycle
  <2>2. Backlog' = <<>> /\ Missed' = 0 /\ Status = "open" /\ Status' = "failed"
    BY <2>1 DEF Backlog, Missed, Status
  <2>3. Announced' = Announced /\ stream' = stream
    BY DEF Announced
  <2> QED BY <2>2, <2>3 DEF LF!Next, LF!Fail
<1>4. CASE Return
  <2> USE <1>4 DEF Return
  <2>1. ~broken /\ ~broken' /\ report = 0
    BY DEF IInv, Lifecycle, ReportInHand, TypeOK
  <2>2. dropped_pending = 0
    <3>1. Len(q) = 0 /\ capacity \div 2 \in Nat /\ dropped_pending \in Nat
      BY HalfIsLess DEF IInv, TypeOK
    <3> QED BY <3>1 DEF IInv, PendingImpliesBacklog
  <2>3. Backlog = <<>> /\ Backlog' = <<>> /\ Missed = 0 /\ Missed' = 0
    BY <2>1, <2>2 DEF Backlog, Missed
  <2>4. Status = "open" /\ Status' = "ended" /\ Announced' = Announced /\ stream' = stream
    BY <2>1 DEF Status, Announced
  <2> QED BY <2>3, <2>4 DEF LF!Next, LF!End
<1> QED BY <1>1, <1>2, <1>3, <1>4

(* Nothing else is visible in the abstract channel.                          *)
LEMMA OtherRefines ==
  ASSUME IInv,
         Park \/ SpuriousWakeup \/ Destructor \/ Signal \/ PeerRecv \/ PeerDie
           \/ UNCHANGED vars
  PROVE  UNCHANGED LF!vars
PROOF
<1> USE DEF lockVars, senderVars, histVars, netVars
<1>1. UNCHANGED <<q, broken, dropped, dropped_pending, ev, report, stream>>
  BY DEF Park, SpuriousWakeup, Destructor, SetStop, NotifyAll, JoinAndClose, Signal,
         PeerRecv, PeerDie, vars
<1>2. (pc' = "send_ev") = (pc = "send_ev") /\ (pc' = "done") = (pc = "done")
  BY DEF Park, SpuriousWakeup, Destructor, SetStop, NotifyAll, JoinAndClose, Signal,
         PeerRecv, PeerDie, vars
<1> QED BY <1>1, <1>2 DEF LF!vars, Backlog, Missed, Announced, Status

(* ChannelSink implements the lossy FIFO for every capacity and every load.  *)
THEOREM Refinement == Spec => ImplementsLossyFifo
PROOF
<1>1. Init => LF!Init
  BY DEF Init, LF!Init, Backlog, Missed, Announced, Status
<1>2. ASSUME IInv, [Next]_vars
      PROVE  [LF!Next]_(LF!vars)
  BY <1>2, HandleRefines, TakeRefines, SendRefines, OtherRefines
  DEF Next, Sender, Terminated
<1> QED BY Invariance, <1>1, <1>2, PTL DEF Spec, ImplementsLossyFifo, LF!Spec

-----------------------------------------------------------------------------
(* The agent.                                                                *)

(* A step of the agent that leaves the sink alone, or is a step of the sink. *)
LEMMA AgentStepIsSinkStep ==
  ASSUME AgentInv, [AgentNext]_allVars
  PROVE  [Next]_vars
PROOF
<1>1. CASE Consume \/ ReplayEvent
  <2>1. offered < MaxEvents
    <3>1. ASSUME Consume PROVE offered < MaxEvents
      <4>1. Len(ring) > 0 /\ Len(ring) \in Nat
        BY <3>1 DEF Consume, HeadReady, AgentInv, AgentTypeOK
      <4> QED BY <4>1, ChannelAssumption DEF AgentInv, AgentTypeOK, TypeOK
    <3>2. ASSUME ReplayEvent PROVE offered < MaxEvents
      <4>1. Len(ring) = 0
        BY <3>2 DEF ReplayEvent, AgentInv
      <4> QED BY <3>2, <4>1, ChannelAssumption
              DEF ReplayEvent, AgentInv, AgentTypeOK, TypeOK
    <3> QED BY <1>1, <3>1, <3>2
  <2> QED BY <1>1, <2>1 DEF Consume, ReplayEvent, Next
<1>2. CASE ReturnFromMain \/ NotifyAll \/ JoinAndClose
  BY <1>2 DEF ReturnFromMain, Next, Destructor
<1>3. CASE Sender \/ SpuriousWakeup \/ Signal \/ PeerRecv \/ PeerDie \/ Terminated
  BY <1>3 DEF Next
<1>4. CASE UNCHANGED vars
  BY <1>4
<1>5. \/ Consume \/ ReplayEvent
      \/ ReturnFromMain \/ NotifyAll \/ JoinAndClose
      \/ Sender \/ SpuriousWakeup \/ Signal \/ PeerRecv \/ PeerDie \/ Terminated
      \/ UNCHANGED vars
  BY DEF AgentNext, MainThread, Reserve, Submit, LoadFail, Attach, NewRing, Poll,
         PollReturn, LeaveLoop, DrainReturn, Destroy, ReplayEnd, allVars
<1> QED BY <1>1, <1>2, <1>3, <1>4, <1>5

(* handle() calls, seen from the agent: one more event offered, nothing      *)
(* else that the agent's own invariant speaks of.                            *)
LEMMA HandleOffers ==
  ASSUME Handle(offered + 1)
  PROVE  offered' = offered + 1 /\ main' = main /\ main = "running"
  BY DEF Handle

(* The agent's own part of the invariant.                                    *)
AgentPart ==
    /\ mode \in {"ebpf", "replay"}
    /\ apc \in {"load", "attached", "loop", "poll", "drain", "drained", "replay", "exit"}
    /\ ring \in Seq(CPUs \cup {"ready"})
    /\ Len(ring) <= RingSize
    /\ produced \in Nat
    /\ klost \in Nat
    /\ mark \in Nat
    /\ main # "running" => apc = "exit"
    /\ apc \in {"load", "replay", "exit"} => ring = <<>>
    /\ produced = offered + Len(ring) + klost
    /\ produced <= MaxEvents
    /\ apc = "drain" => mark <= offered \/ ReadyPrefix(mark - offered)
    /\ apc = "drained" => mark <= offered
    /\ apc \in {"load", "attached", "replay"} => mark = 0
    /\ DrainAtExit

(* AgentInv is the sink's invariant and the agent's part.                    *)
LEMMA AgentInvParts == AgentInv <=> IInv /\ AgentPart
  BY DEF AgentInv, AgentPart, AgentTypeOK, IInv

(* A record added at the end of the ring moves none of the others.           *)
LEMMA AppendKeeps ==
  ASSUME NEW S, NEW s \in Seq(S), NEW e \in S
  PROVE  /\ Append(s, e) \in Seq(S)
         /\ Len(Append(s, e)) = Len(s) + 1
         /\ \A i \in 1..Len(s) : Append(s, e)[i] = s[i]
  OBVIOUS

(* The BPF programs on any CPU keep the agent's part: a reservation adds a   *)
(* slot or a loss, a submission leaves every ready slot ready.               *)
LEMMA KernelKeeps ==
  ASSUME IInv, AgentPart, NEW c \in CPUs, Reserve(c) \/ Submit(c)
  PROVE  AgentPart'
PROOF
<1> USE DEF AgentPart, IInv, TypeOK
<1>0. UNCHANGED <<offered, main, mode, apc, mark>>
  BY DEF Reserve, Submit, vars, histVars
<1>1. CASE Reserve(c)
  <2> USE <1>1 DEF Reserve, Attached
  <2>1. CASE Len(ring) < RingSize
    <3>0. ring' = Append(ring, c) /\ klost' = klost
      BY <2>1
    <3>1. /\ ring' \in Seq(CPUs \cup {"ready"}) /\ Len(ring') = Len(ring) + 1
          /\ \A i \in 1..Len(ring) : ring'[i] = ring[i]
      BY <3>0, AppendKeeps
    <3>2. ASSUME NEW n \in Int, ReadyPrefix(n) PROVE ReadyPrefix(n)'
      <4>1. Len(ring) \in Nat /\ n <= Len(ring) /\ \A i \in 1..n : ring[i] = "ready"
        BY <3>2 DEF ReadyPrefix
      <4>2. ASSUME NEW i \in 1..n PROVE ring'[i] = "ready"
        <5>1. i \in 1..Len(ring)
          BY <4>1
        <5> QED BY ONLY <3>1, <4>1, <5>1, i \in 1..n
      <4>3. n <= Len(ring')
        BY <3>1, <4>1
      <4> QED BY <4>2, <4>3 DEF ReadyPrefix
    <3> QED BY <1>0, <2>1, <3>1, <3>2, <3>0, AgentAssumption, ChannelAssumption
            DEF DrainAtExit
  <2>2. CASE ~(Len(ring) < RingSize)
    BY <1>0, <2>2, AgentAssumption, ChannelAssumption DEF DrainAtExit, ReadyPrefix
  <2> QED BY <2>1, <2>2
<1>2. CASE Submit(c)
  <2> USE <1>2 DEF Submit
  <2>1. /\ ring' \in Seq(CPUs \cup {"ready"}) /\ Len(ring') = Len(ring)
        /\ \A i \in 1..Len(ring) : ring[i] = "ready" => ring'[i] = "ready"
        /\ UNCHANGED <<produced, klost>>
    OBVIOUS
  <2>2. ASSUME NEW n \in Int, ReadyPrefix(n) PROVE ReadyPrefix(n)'
    BY <2>1, <2>2 DEF ReadyPrefix
  <2>3. ring # <<>>
    BY DEF Busy
  <2> QED BY <1>0, <2>1, <2>2, <2>3 DEF DrainAtExit
<1> QED BY <1>1, <1>2

(* handle() calls from the ring or from the replay file keep the agent's     *)
(* part: the event that leaves the source is the one that is offered.        *)
LEMMA SourceKeeps ==
  ASSUME IInv, AgentPart, Consume \/ ReplayEvent
  PROVE  AgentPart'
PROOF
<1> USE DEF AgentPart
<1>0. offered \in Nat
  BY DEF IInv, TypeOK
<1>1. CASE Consume
  <2> USE <1>1 DEF Consume
  <2>0. /\ offered' = offered + 1 /\ main' = main /\ main = "running"
        /\ UNCHANGED <<mode, apc, produced, klost, mark>>
        /\ ring' = Tail(ring) /\ ring # <<>> /\ apc \in {"poll", "drain"}
    BY HandleOffers DEF HeadReady
  <2>1. /\ ring' \in Seq(CPUs \cup {"ready"}) /\ Len(ring) \in Nat
        /\ Len(ring') = Len(ring) - 1
        /\ \A i \in 1..Len(ring') : ring'[i] = ring[i + 1]
    BY <2>0
  <2>2. ASSUME apc = "drain", ReadyPrefix(mark - offered), ~(mark <= offered)
        PROVE  (mark <= offered \/ ReadyPrefix(mark - offered))'
    <3>1. /\ mark - offered <= Len(ring)
          /\ \A i \in 1..(mark - offered) : ring[i] = "ready"
      BY <2>2 DEF ReadyPrefix
    <3>2. ASSUME NEW i \in 1..(mark - (offered + 1)) PROVE ring'[i] = "ready"
      <4>1. i \in 1..Len(ring') /\ i + 1 \in 1..(mark - offered)
        BY <1>0, <2>1, <3>1
      <4> QED BY ONLY <2>1, <3>1, <4>1
    <3>3. mark - (offered + 1) <= Len(ring')
      BY <1>0, <2>1, <3>1
    <3> QED BY <2>0, <3>2, <3>3 DEF ReadyPrefix
  <2>3. produced' = offered' + Len(ring') + klost'
    BY <1>0, <2>0, <2>1
  <2>4. apc = "drain" => (mark <= offered \/ ReadyPrefix(mark - offered))'
    <3>1. ASSUME mark <= offered PROVE (mark <= offered)'
      BY <1>0, <2>0, <3>1
    <3> QED BY <2>2, <3>1
  <2> QED BY <1>0, <2>0, <2>1, <2>3, <2>4, AgentAssumption DEF DrainAtExit
<1>2. CASE ReplayEvent
  <2>1. /\ offered' = offered + 1 /\ produced' = produced + 1 /\ produced < MaxEvents
        /\ main' = main /\ apc = "replay"
        /\ UNCHANGED <<mode, apc, ring, klost, mark>>
    BY <1>2, HandleOffers DEF ReplayEvent
  <2>2. Len(ring) = 0
    BY <2>1
  <2> QED BY <1>0, <2>1, <2>2, ChannelAssumption DEF DrainAtExit
<1> QED BY <1>1, <1>2

(* The other steps of main(): loading, the poll loop, the final drain and    *)
(* the way out.                                                              *)
LEMMA MainKeeps ==
  ASSUME IInv, AgentPart,
         \/ LoadFail \/ Attach \/ NewRing \/ Poll \/ PollReturn \/ LeaveLoop
         \/ DrainReturn \/ Destroy \/ ReplayEnd
  PROVE  AgentPart'
PROOF
<1> USE DEF AgentPart, DrainAtExit
<1>0. offered \in Nat
  BY DEF IInv, TypeOK
<1>1. UNCHANGED <<offered, main, mode, produced>>
  BY DEF LoadFail, Attach, NewRing, Poll, PollReturn, LeaveLoop, DrainReturn, Destroy,
         ReplayEnd, vars, histVars
<1>2. CASE LoadFail \/ Attach \/ NewRing \/ Poll \/ PollReturn \/ ReplayEnd
  <2>1. CASE LoadFail \/ ReplayEnd
    <3>1. apc' = "exit" /\ ring = <<>> /\ UNCHANGED <<ring, klost, mark>> /\ mark = 0
      BY <2>1 DEF LoadFail, ReplayEnd
    <3> QED BY <1>0, <1>1, <3>1
  <2>2. CASE Attach \/ NewRing \/ Poll \/ PollReturn
    BY <1>0, <1>1, <2>2 DEF Attach, NewRing, Poll, PollReturn
  <2> QED BY <1>2, <2>1, <2>2
<1>3. CASE LeaveLoop
  <2>1. PICK n \in 0..Len(ring) : ReadyPrefix(n) /\ mark' = offered + n
    BY <1>3 DEF LeaveLoop
  <2>2. /\ apc' = "drain" /\ UNCHANGED <<ring, klost>> /\ apc \in {"loop", "poll"}
        /\ Len(ring) \in Nat
    BY <1>3 DEF LeaveLoop
  <2>3. mark' \in Nat /\ mark' - offered = n
    BY <1>0, <2>1, <2>2
  <2>4. ReadyPrefix(mark - offered)'
    BY <1>1, <2>1, <2>2, <2>3 DEF ReadyPrefix
  <2> QED BY <1>0, <1>1, <2>2, <2>3, <2>4
<1>4. CASE DrainReturn
  <2>1. apc = "drain" /\ apc' = "drained" /\ UNCHANGED <<ring, klost, mark>>
    BY <1>4 DEF DrainReturn
  <2>2. mark <= offered
    <3> SUFFICES ASSUME ~(mark <= offered) PROVE FALSE
      OBVIOUS
    <3>1. mark - offered >= 1 /\ mark - offered \in Nat
      BY <1>0
    <3>2. ring # <<>> /\ ring[1] = "ready"
      BY <2>1, <3>1 DEF ReadyPrefix
    <3> QED BY <1>4, <3>2 DEF DrainReturn, HeadReady
  <2> QED BY <1>0, <1>1, <2>1, <2>2
<1>5. CASE Destroy
  <2>1. /\ apc \in {"attached", "drained"} /\ apc' = "exit" /\ klost' = klost + Len(ring)
        /\ ring' = <<>> /\ UNCHANGED mark /\ Len(ring) \in Nat /\ Len(ring') = 0
    BY <1>5 DEF Destroy
  <2>2. ring' \in Seq(CPUs \cup {"ready"})
    BY <2>1
  <2> QED BY <1>0, <1>1, <2>1, <2>2, AgentAssumption
<1> QED BY <1>2, <1>3, <1>4, <1>5

(* Steps of the sink that the agent's part does not notice, except that the  *)
(* destructor only runs once main() has returned.                            *)
LEMMA SinkKeeps ==
  ASSUME IInv, AgentPart,
         \/ ReturnFromMain
         \/ /\ UNCHANGED agentVars
            /\ \/ NotifyAll \/ JoinAndClose \/ Sender \/ SpuriousWakeup \/ Signal
               \/ PeerRecv \/ PeerDie \/ Terminated \/ UNCHANGED vars
  PROVE  AgentPart'
PROOF
<1>1. UNCHANGED agentVars
  BY DEF ReturnFromMain
<1>2. offered' = offered
  BY DEF ReturnFromMain, SetStop, NotifyAll, JoinAndClose, Sender, Park, Take, Return,
         SendEvent, SendNotice, SendFail, SpuriousWakeup, Signal, PeerRecv, PeerDie,
         Terminated, vars, histVars
<1>3. main' # "running" => apc = "exit"
  BY DEF ReturnFromMain, SetStop, NotifyAll, JoinAndClose, Sender, Park, Take, Return,
         SendEvent, SendNotice, SendFail, SpuriousWakeup, Signal, PeerRecv, PeerDie,
         Terminated, vars, AgentPart
<1> QED BY <1>1, <1>2, <1>3 DEF AgentPart, agentVars, DrainAtExit, ReadyPrefix

(* AgentInv is an invariant of the agent.                                    *)
THEOREM AgentInvariance == AgentSpec => []AgentInv
PROOF
<1>1. AgentInit => AgentInv
  <2> SUFFICES ASSUME AgentInit PROVE AgentInv
    OBVIOUS
  <2>1. IInv /\ main = "running" /\ offered = 0
    BY InitIInv DEF AgentInit, Init
  <2>2. mode \in {"ebpf", "replay"} /\ apc \in {"load", "replay"}
    BY AgentAssumption DEF AgentInit
  <2>3. ring \in Seq(CPUs \cup {"ready"}) /\ Len(ring) = 0 /\ ring = <<>>
    BY DEF AgentInit
  <2>4. AgentPart
    BY <2>1, <2>2, <2>3, AgentAssumption, ChannelAssumption
    DEF AgentPart, AgentInit, DrainAtExit
  <2> QED BY <2>1, <2>4, AgentInvParts
<1>2. ASSUME AgentInv, [AgentNext]_allVars
      PROVE  AgentInv'
  <2>1. IInv /\ AgentPart
    BY <1>2, AgentInvParts
  <2>2. IInv'
    <3>1. [Next]_vars
      BY <1>2, AgentStepIsSinkStep
    <3> QED BY <2>1, <3>1, HandleIInv, TakeIInv, SenderIInv, OtherIInv
            DEF Next, Sender, Terminated
  <2>3. AgentPart'
    BY <1>2, <2>1, KernelKeeps, SourceKeeps, MainKeeps, SinkKeeps
    DEF AgentNext, MainThread, allVars
  <2>4. (IInv /\ AgentPart => AgentInv)'
    BY AgentInvParts, PTL
  <2> QED BY <2>2, <2>3, <2>4
<1> QED BY <1>1, <1>2, PTL DEF AgentSpec

(* The agent is a user of the sink: everything proved of ChannelSink holds   *)
(* inside the agent.                                                         *)
THEOREM AgentRefinesSink == AgentSpec => ImplementsChannelSink
PROOF
<1>1. AgentInit => Init
  BY DEF AgentInit
<1>2. ASSUME AgentInv, [AgentNext]_allVars PROVE [Next]_vars
  BY <1>2, AgentStepIsSinkStep
<1> QED BY AgentInvariance, <1>1, <1>2, PTL DEF AgentSpec, ImplementsChannelSink, Spec

(* Whatever the connection carried to its end, the only events that neither  *)
(* arrived nor were announced are the ones the kernel lost.                  *)
THEOREM AgentAccounts == AgentSpec => []OnlyKernelLossIsSilent
PROOF
<1>1. ASSUME AgentInv, CleanEndOwesNothing, main = "closed" => pc = "done"
      PROVE  OnlyKernelLossIsSilent
  <2> SUFFICES ASSUME main = "closed", ~broken
               PROVE  handed + dropped + klost = produced
    BY DEF OnlyKernelLossIsSilent
  <2>1. offered = handed + dropped
    BY <1>1 DEF CleanEndOwesNothing
  <2>2. Len(ring) = 0
    BY <1>1 DEF AgentInv
  <2> QED BY <1>1, <2>1, <2>2 DEF AgentInv, AgentTypeOK, TypeOK
<1>2. AgentSpec => []CleanEndOwesNothing
  BY AgentRefinesSink, CleanEnd, PTL DEF ImplementsChannelSink
<1>3. Spec => [](main = "closed" => pc = "done")
  BY StreamInvariance, PTL DEF StreamInv
<1> QED BY AgentInvariance, AgentRefinesSink, <1>1, <1>2, <1>3, PTL DEF ImplementsChannelSink

(* The final drain hands over what was ready when the loop ended.            *)
THEOREM AgentDrains == AgentSpec => []DrainAtExit
  BY AgentInvariance, PTL DEF AgentInv

(* What the analyzer read of a connection that ended well, and what the      *)
(* kernel lost, are all the events there were; the agent's own counters are  *)
(* not needed to know it.                                                    *)
THEOREM AgentIsRecounted ==
  AgentSpec => [](main = "closed" /\ ~broken =>
                    EventsIn(stream) + AnnouncedIn(stream) + klost = produced)
PROOF
<1>1. ASSUME AgentInv, StreamTellsAll
      PROVE  main = "closed" /\ ~broken =>
               EventsIn(stream) + AnnouncedIn(stream) + klost = produced
  <2> SUFFICES ASSUME main = "closed", ~broken
               PROVE  EventsIn(stream) + AnnouncedIn(stream) + klost = produced
    OBVIOUS
  <2>1. EventsIn(stream) + AnnouncedIn(stream) = offered
    BY <1>1 DEF StreamTellsAll
  <2>2. Len(ring) = 0 /\ produced = offered + klost + Len(ring)
        /\ offered \in Nat /\ klost \in Nat
    BY <1>1 DEF AgentInv, AgentTypeOK, IInv, TypeOK
  <2> QED BY <2>1, <2>2
<1>2. AgentSpec => []StreamTellsAll
  BY AgentRefinesSink, StreamIsComplete, PTL DEF ImplementsChannelSink
<1> QED BY AgentInvariance, <1>1, <1>2, PTL
=============================================================================
