---------------------------- MODULE DaemonProofs -----------------------------
(***************************************************************************)
(* Proofs about the analyzer process for any clients, genuine or not, any   *)
(* number of records and any backlog.  What carries them is where each      *)
(* client stands: new, waiting to be accepted, in hand, or over.            *)
(***************************************************************************)
EXTENDS AnalyzerDaemon, FiniteSetTheorems, SequenceTheorems, TLAPS

Frames == Records \cup {"hello", "garbage"}

DaemonTypeOK ==
    /\ once \in BOOLEAN /\ g_exiting \in BOOLEAN
    /\ dpc \in {"loop", "accept", "handshake", "serve", "close", "exited"}
    /\ cfd \in Clients \cup {"none"}
    /\ queue \in Seq(Clients)
    /\ client \in [Clients -> {"idle", "silent", "talks", "gone"}]
    /\ unread \in [Clients -> Seq(Frames)]
    /\ sent \in [Clients -> Seq(Records)]
    /\ processed \in [Clients -> Nat]

(* A connection is in hand from accept() to close_fd, and no other is open. *)
InHand ==
    /\ cfd = "none" <=> dpc \in {"loop", "accept", "exited"}
    /\ NoDescriptorLeaks

(* Nothing has come from a client and nothing of it was processed.          *)
Fresh(c) == sent[c] = <<>> /\ unread[c] = <<>> /\ processed[c] = 0

Waiting(c) == \E i \in 1..Len(queue) : queue[i] = c

(* A client waits once, and the one in hand waits no more.                  *)
QueueInv ==
    /\ \A i, j \in 1..Len(queue) : queue[i] = queue[j] => i = j
    /\ ~Waiting(cfd)
    /\ \A c \in Clients : Waiting(c) => Fresh(c) /\ client[c] \in {"silent", "gone"}

Evs(rs, n) == {i \in 1..n : rs[i] = "event"}

(* The daemon has received the first n of the client's records, all of them *)
(* opened, and the rest is unread.                                          *)
Received(c, n) ==
    /\ Len(sent[c]) = n + Len(unread[c])
    /\ \A i \in 1..Len(unread[c]) : unread[c][i] = sent[c][n + i]
    /\ \A i \in 1..n : ~Spoilt(sent[c][i])
    /\ processed[c] = Cardinality(Evs(sent[c], n))

(* The handshake frame is still to be read.                                 *)
Unshaken(c) ==
    /\ unread[c] # <<>>
    /\ Head(unread[c]) = "hello" => c \in Genuine
    /\ Head(unread[c]) \in {"hello", "garbage"}
    /\ Len(unread[c]) = Len(sent[c]) + 1
    /\ \A i \in 1..Len(sent[c]) : unread[c][i + 1] = sent[c][i]
    /\ processed[c] = 0

(* All that is due was processed, and no more can become due.               *)
Settled(c) ==
    /\ processed[c] = Cardinality(Due(sent[c]))
    /\ client[c] = "gone" \/ \E i \in 1..Len(sent[c]) : Spoilt(sent[c][i])

GarbageAhead(c) == unread[c] # <<>> /\ Head(unread[c]) = "garbage"

ClientInv(c) ==
    /\ client[c] = "idle" => Fresh(c) /\ cfd # c
    /\ client[c] = "silent" => Fresh(c)
    /\ cfd = c /\ dpc = "handshake" => Fresh(c) \/ Unshaken(c)
    /\ cfd = c /\ dpc = "handshake" /\ client[c] = "talks" => Unshaken(c)
    /\ cfd = c /\ dpc = "serve" =>
          c \in Genuine /\ client[c] # "silent" /\ \E n \in Nat : Received(c, n)
    /\ cfd = c /\ dpc = "close" => GarbageAhead(c) \/ Settled(c)
    /\ GarbageAhead(c) => processed[c] = 0
    /\ processed[c] <= IF c \in Genuine THEN Cardinality(Due(sent[c])) ELSE 0

DaemonInv ==
    /\ DaemonTypeOK
    /\ InHand
    /\ QueueInv
    /\ \A c \in Clients : ClientInv(c)

-----------------------------------------------------------------------------
(* What is due.                                                             *)

LEMMA DueNumber ==
    ASSUME NEW rs \in Seq(Records)
    PROVE  IsFiniteSet(Due(rs)) /\ Cardinality(Due(rs)) \in Nat
<1>1. IsFiniteSet(1..Len(rs)) /\ Due(rs) \in SUBSET (1..Len(rs))
  BY LenProperties, FS_Interval DEF Due
<1>. QED  BY <1>1, FS_Subset, FS_CardinalityType

LEMMA NothingDue == Cardinality(Due(<<>>)) = 0
<1>1. Due(<<>>) = {}
  BY EmptySeq DEF Due
<1>. QED  BY <1>1, FS_EmptySet

(* A further record adds to what is due, and nothing after a spoilt one.    *)
LEMMA DueGrows ==
    ASSUME NEW rs \in Seq(Records), NEW x \in Records
    PROVE  /\ Cardinality(Due(rs)) <= Cardinality(Due(Append(rs, x)))
           /\ (\E i \in 1..Len(rs) : Spoilt(rs[i])) => Due(Append(rs, x)) = Due(rs)
<1>. DEFINE rt == Append(rs, x)
<1>1. /\ rt \in Seq(Records) /\ Len(rs) \in Nat /\ Len(rt) = Len(rs) + 1
      /\ \A i \in 1..Len(rs) : rt[i] = rs[i]
  BY AppendProperties, LenProperties
<1>. HIDE DEF rt
<1>2. Due(rs) \in SUBSET Due(rt)
  BY <1>1 DEF Due
<1>3. Cardinality(Due(rs)) <= Cardinality(Due(rt))
  BY <1>1, <1>2, DueNumber, FS_Subset
<1>4. ASSUME NEW i \in 1..Len(rs), Spoilt(rs[i])
      PROVE  Due(rt) = Due(rs)
  <2>1. \A j \in Due(rt) : j <= i /\ j \in 1..Len(rs)
    <3>1. Spoilt(rt[i])
      BY <1>1, <1>4
    <3>2. ASSUME NEW j \in Due(rt), j > i
          PROVE  FALSE
      <4>1. i \in 1..(j - 1) /\ j \in 1..Len(rt)
        BY <1>1, <3>2 DEF Due
      <4>. QED  BY <3>1, <4>1 DEF Due
    <3>3. \A j \in Due(rt) : j \in 1..Len(rt)
      BY DEF Due
    <3>. QED  BY <1>1, <3>2, <3>3
  <2>2. Due(rt) \subseteq Due(rs)
    <3>. SUFFICES ASSUME NEW j \in Due(rt)
                  PROVE  j \in Due(rs)
      OBVIOUS
    <3>1. j \in 1..Len(rs) /\ rt[j] = "event"
      BY <2>1 DEF Due
    <3>2. \A k \in 1..(j - 1) : ~Spoilt(rt[k])
      BY DEF Due
    <3>. QED  BY <1>1, <3>1, <3>2 DEF Due
  <2>. QED  BY <1>2, <2>2
<1>. QED  BY <1>3, <1>4 DEF rt

(* While all received records opened, the events among them are due.        *)
LEMMA ReceivedAreDue ==
    ASSUME NEW rs \in Seq(Records), NEW n \in Nat, n <= Len(rs),
           \A i \in 1..n : ~Spoilt(rs[i])
    PROVE  /\ Evs(rs, n) \subseteq Due(rs)
           /\ Cardinality(Evs(rs, n)) <= Cardinality(Due(rs))
           /\ n = Len(rs) \/ Spoilt(rs[n + 1]) => Due(rs) = Evs(rs, n)
<1>0. Len(rs) \in Nat
  BY LenProperties
<1>1. Evs(rs, n) \in SUBSET Due(rs)
  BY <1>0 DEF Evs, Due
<1>2. Cardinality(Evs(rs, n)) <= Cardinality(Due(rs))
  BY <1>1, DueNumber, FS_Subset
<1>3. ASSUME n = Len(rs) \/ Spoilt(rs[n + 1])
      PROVE  Due(rs) \subseteq Evs(rs, n)
  <2>. SUFFICES ASSUME NEW i \in Due(rs)
                PROVE  i \in Evs(rs, n)
    OBVIOUS
  <2>1. i \in 1..Len(rs) /\ rs[i] = "event" /\ \A j \in 1..(i - 1) : ~Spoilt(rs[j])
    BY DEF Due
  <2>2. i <= n
    <3>1. CASE n = Len(rs)
      BY <2>1, <3>1
    <3>2. CASE Spoilt(rs[n + 1])
      <4>1. n + 1 \notin 1..(i - 1)
        BY <2>1, <3>2
      <4>2. i # n + 1
        BY <2>1, <3>2 DEF Spoilt
      <4>. QED  BY <2>1, <4>1, <4>2
    <3>. QED  BY <1>3, <3>1, <3>2
  <2>. QED  BY <2>1, <2>2 DEF Evs
<1>. QED  BY <1>1, <1>2, <1>3

LEMMA OneMoreEvent ==
    ASSUME NEW rs, NEW n \in Nat
    PROVE  /\ Cardinality(Evs(rs, n)) \in Nat
           /\ rs[n + 1] = "event"
                => Cardinality(Evs(rs, n + 1)) = Cardinality(Evs(rs, n)) + 1
           /\ rs[n + 1] # "event" => Evs(rs, n + 1) = Evs(rs, n)
<1>1. IsFiniteSet(1..n) /\ Evs(rs, n) \in SUBSET (1..n) /\ n + 1 \notin Evs(rs, n)
  BY FS_Interval DEF Evs
<1>2. IsFiniteSet(Evs(rs, n)) /\ Cardinality(Evs(rs, n)) \in Nat
  BY <1>1, FS_Subset, FS_CardinalityType
<1>3. ASSUME rs[n + 1] = "event"
      PROVE  Evs(rs, n + 1) = Evs(rs, n) \cup {n + 1}
  BY <1>3 DEF Evs
<1>4. ASSUME rs[n + 1] # "event"
      PROVE  Evs(rs, n + 1) = Evs(rs, n)
  BY <1>4 DEF Evs
<1>5. Cardinality(Evs(rs, n) \cup {n + 1}) = Cardinality(Evs(rs, n)) + 1
  BY <1>1, <1>2, FS_AddElement
<1>. QED  BY <1>2, <1>3, <1>4, <1>5

-----------------------------------------------------------------------------
(* The steps.                                                               *)

(* A client whose records no step touches keeps its place, as long as it    *)
(* does not come into hand.                                                 *)
LEMMA Untouched ==
    ASSUME NEW c \in Clients, ClientInv(c),
           UNCHANGED <<client[c], unread[c], sent[c], processed[c]>>,
           cfd' = c => cfd = c /\ dpc' = dpc
    PROVE  ClientInv(c)'
BY DEF ClientInv, Fresh, Unshaken, Received, Settled, GarbageAhead

LEMMA InitDaemonInv ==
    ASSUME Init
    PROVE  DaemonInv
<1>1. /\ \A S : <<>> \in Seq(S) /\ Len(<<>>) = 0
      /\ Cardinality(Due(<<>>)) = 0
      /\ "none" \notin Clients
  BY EmptySeq, NothingDue, DaemonAssumption
<1>2. DaemonTypeOK
  BY <1>1 DEF Init, DaemonTypeOK
<1>3. InHand
  BY DEF Init, InHand, NoDescriptorLeaks
<1>4. QueueInv
  BY <1>1 DEF Init, QueueInv, Waiting
<1>5. \A c \in Clients : ClientInv(c)
  BY <1>1 DEF Init, ClientInv, Fresh, GarbageAhead
<1>. QED  BY <1>2, <1>3, <1>4, <1>5 DEF DaemonInv

LEMMA ConnectStep ==
    ASSUME DaemonInv, NEW c \in Clients, Connect(c)
    PROVE  DaemonInv'
<1>0. /\ DaemonTypeOK /\ InHand /\ QueueInv /\ \A d \in Clients : ClientInv(d)
      /\ client[c] = "idle" /\ client' = [client EXCEPT ![c] = "silent"]
      /\ queue' = Append(queue, c)
      /\ UNCHANGED <<once, g_exiting, dpc, cfd, fds, processed, unread, sent>>
  BY DEF DaemonInv, Connect, daemonVars
<1>1. /\ queue \in Seq(Clients) /\ Len(queue) \in Nat
      /\ queue' \in Seq(Clients) /\ Len(queue') = Len(queue) + 1
      /\ \A i \in 1..Len(queue) : queue'[i] = queue[i] /\ queue[i] \in Clients
      /\ queue'[Len(queue) + 1] = c
  BY <1>0, AppendProperties, LenProperties, ElementOfSeq DEF DaemonTypeOK
<1>2. DaemonTypeOK'
  BY <1>0, <1>1 DEF DaemonTypeOK
<1>3. InHand'
  BY <1>0 DEF InHand, NoDescriptorLeaks
<1>4. Fresh(c) /\ cfd # c /\ ~Waiting(c)
  BY <1>0 DEF ClientInv, QueueInv
<1>5. \A d : Waiting(d)' <=> Waiting(d) \/ d = c
  BY <1>1 DEF Waiting
<1>6. \A i, j \in 1..Len(queue') : queue'[i] = queue'[j] => i = j
  <2>1. \A i \in 1..Len(queue) : queue[i] # c
    BY <1>4 DEF Waiting
  <2>. QED  BY <1>0, <1>1, <2>1 DEF QueueInv
<1>7. QueueInv'
  <2>1. ~Waiting(cfd)'
    <3>1. ~Waiting(cfd)
      BY <1>0 DEF QueueInv
    <3>. QED  BY <1>0, <1>1, <1>4, <3>1 DEF Waiting
  <2>2. ASSUME NEW d \in Clients, Waiting(d)'
        PROVE  Fresh(d)' /\ client'[d] \in {"silent", "gone"}
    BY <1>0, <1>4, <1>5, <2>2 DEF QueueInv, Fresh, DaemonTypeOK
  <2>. QED  BY <1>6, <2>1, <2>2 DEF QueueInv
<1>8. ASSUME NEW d \in Clients
      PROVE  ClientInv(d)'
  <2>1. CASE d = c
    BY <1>0, <1>4, <2>1 DEF ClientInv, Fresh, GarbageAhead, DaemonTypeOK
  <2>2. CASE d # c
    <3>1. client'[d] = client[d]
      BY <1>0, <2>2 DEF DaemonTypeOK
    <3>. QED  BY <1>0, <3>1, Untouched
  <2>. QED  BY <2>1, <2>2
<1>. QED  BY <1>2, <1>3, <1>7, <1>8 DEF DaemonInv

LEMMA ShakeStep ==
    ASSUME DaemonInv, NEW c \in Clients, Shake(c)
    PROVE  DaemonInv'
<1>0. /\ DaemonTypeOK /\ InHand /\ QueueInv /\ \A d \in Clients : ClientInv(d)
      /\ client[c] = "silent" /\ cfd = c /\ dpc = "handshake"
      /\ client' = [client EXCEPT ![c] = "talks"]
      /\ UNCHANGED <<once, g_exiting, dpc, cfd, fds, processed, queue, sent>>
  BY DEF DaemonInv, Shake, daemonVars
<1>1. PICK h \in IF c \in Genuine THEN {"hello", "garbage"} ELSE {"garbage"} :
         unread' = [unread EXCEPT ![c] = Append(@, h)]
  BY DEF Shake
<1>2. Fresh(c) /\ ~Waiting(c)
  BY <1>0 DEF ClientInv, QueueInv
<1>3. h \in Frames /\ h \in {"hello", "garbage"} /\ (h = "hello" => c \in Genuine)
  BY <1>1 DEF Frames
<1>4. /\ unread'[c] \in Seq(Frames) /\ unread'[c] # <<>>
      /\ Len(unread'[c]) = 1 /\ Head(unread'[c]) = h
      /\ unread' = [unread EXCEPT ![c] = unread'[c]]
  <2>1. unread'[c] = Append(<<>>, h)
    BY <1>0, <1>1, <1>2 DEF DaemonTypeOK, Fresh
  <2>2. <<>> \in Seq(Frames) /\ Len(<<>>) = 0
    BY EmptySeq
  <2>. DEFINE u == <<>>
  <2>3. u \in Seq(Frames) /\ u = <<>> /\ Len(u) = 0
    BY <2>2
  <2>. HIDE DEF u
  <2>4. /\ Append(u, h) \in Seq(Frames) /\ Append(u, h) # <<>>
        /\ Len(Append(u, h)) = Len(u) + 1
    BY <1>3, <2>3, AppendProperties
  <2>5. Head(Append(u, h)) = IF u = <<>> THEN h ELSE Head(u)
    BY <1>3, <2>3, HeadTailAppend
  <2>6. unread' = [unread EXCEPT ![c] = unread'[c]]
    BY <1>0, <1>1 DEF DaemonTypeOK
  <2>. QED  BY <2>1, <2>3, <2>4, <2>5, <2>6 DEF u
<1>5. DaemonTypeOK'
  BY <1>0, <1>4 DEF DaemonTypeOK
<1>6. InHand'
  BY <1>0 DEF InHand, NoDescriptorLeaks
<1>7. QueueInv'
  <2>1. ASSUME NEW d \in Clients, Waiting(d)'
        PROVE  Fresh(d)' /\ client'[d] \in {"silent", "gone"}
    <3>1. Waiting(d) /\ d # c
      BY <1>0, <1>2, <2>1 DEF Waiting
    <3>. QED  BY <1>0, <1>4, <3>1 DEF QueueInv, Fresh, DaemonTypeOK
  <2>. QED  BY <1>0, <2>1 DEF QueueInv, Waiting
<1>8. ASSUME NEW d \in Clients
      PROVE  ClientInv(d)'
  <2>1. CASE d = c
    <3>1. Unshaken(c)'
      <4>1. sent'[c] = <<>> /\ Len(<<>>) = 0 /\ processed'[c] = 0
        BY <1>0, <1>2, EmptySeq DEF Fresh
      <4>. QED  BY <1>3, <1>4, <4>1 DEF Unshaken
    <3>2. processed'[c] = 0 /\ sent'[c] = <<>> /\ client'[c] = "talks"
      BY <1>0, <1>2 DEF Fresh, DaemonTypeOK
    <3>. QED  BY <1>0, <2>1, <3>1, <3>2, NothingDue DEF ClientInv
  <2>2. CASE d # c
    <3>1. client'[d] = client[d] /\ unread'[d] = unread[d]
      BY <1>0, <1>4, <2>2 DEF DaemonTypeOK
    <3>. QED  BY <1>0, <3>1, Untouched
  <2>. QED  BY <2>1, <2>2
<1>. QED  BY <1>5, <1>6, <1>7, <1>8 DEF DaemonInv

(* A record more, sent or cut short.                                        *)
LEMMA RecordStep ==
    ASSUME DaemonInv, NEW c \in Clients, NEW r \in Records, NEW st \in {"talks", "gone"},
           client[c] = "talks", client' = [client EXCEPT ![c] = st],
           unread' = [unread EXCEPT ![c] = Append(@, r)],
           sent' = [sent EXCEPT ![c] = Append(@, r)],
           UNCHANGED <<once, g_exiting, daemonVars, queue>>
    PROVE  DaemonInv'
<1>0. /\ DaemonTypeOK /\ InHand /\ QueueInv /\ \A d \in Clients : ClientInv(d)
      /\ UNCHANGED <<once, g_exiting, dpc, cfd, fds, processed, queue>>
  BY DEF DaemonInv, daemonVars
<1>1. /\ unread[c] \in Seq(Frames) /\ sent[c] \in Seq(Records) /\ r \in Frames
      /\ unread'[c] = Append(unread[c], r) /\ sent'[c] = Append(sent[c], r)
      /\ client'[c] = st
  BY <1>0 DEF DaemonTypeOK, Frames
<1>2. /\ unread'[c] \in Seq(Frames) /\ unread'[c] # <<>>
      /\ Len(unread[c]) \in Nat /\ Len(unread'[c]) = Len(unread[c]) + 1
      /\ \A i \in 1..Len(unread[c]) : unread'[c][i] = unread[c][i]
      /\ unread'[c][Len(unread[c]) + 1] = r
  BY <1>1, AppendProperties, LenProperties
<1>3. /\ sent'[c] \in Seq(Records)
      /\ Len(sent[c]) \in Nat /\ Len(sent'[c]) = Len(sent[c]) + 1
      /\ \A i \in 1..Len(sent[c]) : sent'[c][i] = sent[c][i]
      /\ sent'[c][Len(sent[c]) + 1] = r
  BY <1>1, AppendProperties, LenProperties
<1>4. Head(unread'[c]) = IF unread[c] = <<>> THEN r ELSE Head(unread[c])
  BY <1>1, HeadTailAppend
<1>5. DaemonTypeOK'
  BY <1>0, <1>1, <1>2, <1>3 DEF DaemonTypeOK
<1>6. InHand'
  BY <1>0 DEF InHand, NoDescriptorLeaks
<1>7. QueueInv'
  <2>1. ASSUME NEW d \in Clients, Waiting(d)'
        PROVE  Fresh(d)' /\ client'[d] \in {"silent", "gone"}
    <3>1. Waiting(d) /\ d # c
      BY <1>0, <2>1 DEF Waiting, QueueInv
    <3>. QED  BY <1>0, <3>1 DEF QueueInv, Fresh, DaemonTypeOK
  <2>. QED  BY <1>0, <2>1 DEF QueueInv, Waiting
<1>8. Cardinality(Due(sent[c])) \in Nat /\ Cardinality(Due(sent'[c])) \in Nat
  BY <1>1, <1>3, DueNumber
<1>9. ClientInv(c)'
  <2>0. ClientInv(c) /\ processed'[c] = processed[c] /\ processed[c] \in Nat
    BY <1>0 DEF DaemonTypeOK
  <2>1. ASSUME Unshaken(c)
        PROVE  Unshaken(c)'
    <3>1. \A i \in 1..Len(sent'[c]) : unread'[c][i + 1] = sent'[c][i]
      <4>1. Len(unread[c]) = Len(sent[c]) + 1
            /\ \A i \in 1..Len(sent[c]) : unread[c][i + 1] = sent[c][i]
        BY <2>1 DEF Unshaken
      <4>. QED  BY <1>2, <1>3, <4>1
    <3>. QED  BY <1>2, <1>3, <1>4, <2>0, <2>1, <3>1 DEF Unshaken
  <2>2. ASSUME NEW n \in Nat, Received(c, n)
        PROVE  Received(c, n)'
    <3>1. /\ Len(sent[c]) = n + Len(unread[c])
          /\ \A i \in 1..Len(unread[c]) : unread[c][i] = sent[c][n + i]
          /\ \A i \in 1..n : ~Spoilt(sent[c][i])
          /\ processed[c] = Cardinality(Evs(sent[c], n))
      BY <2>2 DEF Received
    <3>2. ASSUME NEW i \in 1..Len(unread'[c])
          PROVE  unread'[c][i] = sent'[c][n + i]
      <4>1. CASE i \in 1..Len(unread[c])
        <5>1. n + i \in 1..Len(sent[c])
          BY <1>2, <1>3, <3>1, <4>1
        <5>. QED  BY <1>2, <1>3, <3>1, <4>1, <5>1
      <4>2. CASE i = Len(unread[c]) + 1
        <5>1. n + i = Len(sent[c]) + 1
          BY <1>2, <3>1, <4>2
        <5>2. unread'[c][i] = r
          BY <1>2, <4>2
        <5>. QED  BY <1>3, <5>1, <5>2
      <4>3. i \in 1..Len(unread[c]) \/ i = Len(unread[c]) + 1
        <5>. DEFINE m == Len(unread[c])
                    l == Len(unread'[c])
        <5>1. m \in Nat /\ l = m + 1 /\ i \in 1..l
          BY <1>2
        <5>. HIDE DEF m, l
        <5>2. i \in 1..m \/ i = m + 1
          BY <5>1
        <5>. QED  BY <5>2 DEF m
      <4>. QED  BY <4>1, <4>2, <4>3
    <3>3. \A i \in 1..n : sent'[c][i] = sent[c][i]
      BY <1>2, <1>3, <3>1
    <3>4. Evs(sent'[c], n) = Evs(sent[c], n)
      BY <3>3 DEF Evs
    <3>5. processed'[c] = Cardinality(Evs(sent'[c], n))
      BY <2>0, <3>1, <3>4
    <3>6. \A i \in 1..n : ~Spoilt(sent'[c][i])
      BY <3>1, <3>3
    <3>7. Len(sent'[c]) = n + Len(unread'[c])
      <4>1. Len(unread[c]) \in Nat /\ Len(unread'[c]) = Len(unread[c]) + 1
            /\ Len(sent'[c]) = Len(sent[c]) + 1
        BY <1>2, <1>3
      <4>. DEFINE a == Len(unread[c])
                  b == Len(unread'[c])
                  l == Len(sent[c])
                  k == Len(sent'[c])
      <4>2. a \in Nat /\ b = a + 1 /\ l = n + a /\ k = l + 1
        BY <3>1, <4>1
      <4>. HIDE DEF a, b, l, k
      <4>3. k = n + b
        BY <4>2
      <4>. QED  BY <4>3 DEF b, k
    <3>. QED  BY <3>2, <3>5, <3>6, <3>7 DEF Received
  <2>3. ASSUME Settled(c)
        PROVE  Settled(c)'
    <3>1. PICK i \in 1..Len(sent[c]) : Spoilt(sent[c][i])
      BY <2>3 DEF Settled
    <3>2. Due(sent'[c]) = Due(sent[c])
      BY <1>1, <3>1, DueGrows
    <3>3. i \in 1..Len(sent'[c]) /\ Spoilt(sent'[c][i])
      BY <1>3, <3>1
    <3>. QED  BY <2>0, <2>3, <3>2, <3>3 DEF Settled
  <2>4. GarbageAhead(c) <=> GarbageAhead(c)'
    BY <1>2, <1>4 DEF GarbageAhead, Records
  <2>5. Cardinality(Due(sent[c])) <= Cardinality(Due(sent'[c]))
    BY <1>1, DueGrows
  <2>6. processed'[c] <= IF c \in Genuine THEN Cardinality(Due(sent'[c])) ELSE 0
    BY <1>8, <2>0, <2>5 DEF ClientInv
  <2>7. cfd' = c /\ dpc' = "handshake" => Unshaken(c)'
    BY <1>0, <2>0, <2>1 DEF ClientInv
  <2>8. cfd' = c /\ dpc' = "serve"
           => c \in Genuine /\ client'[c] # "silent" /\ \E n \in Nat : Received(c, n)'
    <3>. SUFFICES ASSUME cfd' = c, dpc' = "serve"
                  PROVE  c \in Genuine /\ \E n \in Nat : Received(c, n)'
      BY <1>1
    <3>1. c \in Genuine /\ \E n \in Nat : Received(c, n)
      BY <1>0, <2>0 DEF ClientInv
    <3>. QED  BY <2>2, <3>1
  <2>9. cfd' = c /\ dpc' = "close" => GarbageAhead(c)' \/ Settled(c)'
    BY <1>0, <2>0, <2>3, <2>4 DEF ClientInv
  <2>. QED  BY <1>1, <2>0, <2>4, <2>6, <2>7, <2>8, <2>9 DEF ClientInv
<1>10. ASSUME NEW d \in Clients, d # c
       PROVE  ClientInv(d)'
  <2>1. UNCHANGED <<client[d], unread[d], sent[d], processed[d]>>
    BY <1>0, <1>10 DEF DaemonTypeOK
  <2>. QED  BY <1>0, <2>1, Untouched
<1>. QED  BY <1>5, <1>6, <1>7, <1>9, <1>10 DEF DaemonInv

LEMMA DisconnectStep ==
    ASSUME DaemonInv, NEW c \in Clients, Disconnect(c)
    PROVE  DaemonInv'
<1>0. /\ DaemonTypeOK /\ InHand /\ QueueInv /\ \A d \in Clients : ClientInv(d)
      /\ client[c] \in {"silent", "talks"} /\ client' = [client EXCEPT ![c] = "gone"]
      /\ UNCHANGED <<once, g_exiting, dpc, cfd, fds, processed, queue, unread, sent>>
  BY DEF DaemonInv, Disconnect, daemonVars
<1>1. DaemonTypeOK' /\ client'[c] = "gone"
  BY <1>0 DEF DaemonTypeOK
<1>2. InHand'
  BY <1>0 DEF InHand, NoDescriptorLeaks
<1>3. QueueInv'
  BY <1>0 DEF QueueInv, Waiting, Fresh, DaemonTypeOK
<1>4. ASSUME NEW d \in Clients
      PROVE  ClientInv(d)'
  <2>1. CASE d = c
    <3>1. (Fresh(c) <=> Fresh(c)') /\ (Unshaken(c) <=> Unshaken(c)')
      BY <1>0 DEF Fresh, Unshaken
    <3>2. \A n \in Nat : Received(c, n) <=> Received(c, n)'
      BY <1>0 DEF Received
    <3>3. (Settled(c) => Settled(c)') /\ (GarbageAhead(c) <=> GarbageAhead(c)')
      BY <1>0, <1>1 DEF Settled, GarbageAhead
    <3>. QED  BY <1>0, <1>1, <2>1, <3>1, <3>2, <3>3 DEF ClientInv
  <2>2. CASE d # c
    <3>1. client'[d] = client[d]
      BY <1>0, <2>2 DEF DaemonTypeOK
    <3>. QED  BY <1>0, <3>1, Untouched
  <2>. QED  BY <2>1, <2>2
<1>. QED  BY <1>1, <1>2, <1>3, <1>4 DEF DaemonInv

LEMMA AcceptStep ==
    ASSUME DaemonInv, Accept
    PROVE  DaemonInv'
<1>0. /\ DaemonTypeOK /\ InHand /\ QueueInv /\ \A d \in Clients : ClientInv(d)
      /\ dpc = "accept" /\ queue # <<>> /\ cfd' = Head(queue) /\ queue' = Tail(queue)
      /\ fds' = fds \cup {Head(queue)} /\ dpc' = "handshake"
      /\ UNCHANGED <<once, g_exiting, processed, client, unread, sent>>
  BY DEF DaemonInv, Accept, clientVars
<1>1. /\ queue \in Seq(Clients) /\ Len(queue) \in Nat /\ Len(queue) >= 1
      /\ Head(queue) = queue[1] /\ Head(queue) \in Clients
      /\ queue' \in Seq(Clients) /\ Len(queue') = Len(queue) - 1
      /\ \A i \in 1..Len(queue') : queue'[i] = queue[i + 1]
  BY <1>0, HeadTailProperties, EmptySeq DEF DaemonTypeOK
<1>. DEFINE c == Head(queue)
<1>2. Waiting(c) /\ Fresh(c) /\ client[c] \in {"silent", "gone"} /\ c # "none"
  <2>1. 1 \in 1..Len(queue) /\ queue[1] = c
    BY <1>1
  <2>. QED  BY <1>0, <1>1, <2>1, DaemonAssumption DEF Waiting, QueueInv
<1>3. DaemonTypeOK'
  BY <1>0, <1>1 DEF DaemonTypeOK
<1>4. InHand'
  BY <1>0, <1>2 DEF InHand, NoDescriptorLeaks
<1>5. QueueInv'
  <2>1. \A i, j \in 1..Len(queue') : queue'[i] = queue'[j] => i = j
    BY <1>0, <1>1 DEF QueueInv
  <2>2. ~Waiting(cfd)'
    <3>1. \A i \in 1..Len(queue') : queue'[i] # queue[1]
      <4>1. \A i \in 1..Len(queue') : i + 1 \in 1..Len(queue) /\ i + 1 # 1 /\ 1 \in 1..Len(queue)
        BY <1>1
      <4>2. \A i, j \in 1..Len(queue) : queue[i] = queue[j] => i = j
        BY <1>0 DEF QueueInv
      <4>. QED  BY <1>1, <4>1, <4>2
    <3>. QED  BY <1>0, <1>1, <3>1 DEF Waiting
  <2>3. ASSUME NEW d \in Clients, Waiting(d)'
        PROVE  Fresh(d)' /\ client'[d] \in {"silent", "gone"}
    <3>1. Waiting(d)
      BY <1>1, <2>3 DEF Waiting
    <3>. QED  BY <1>0, <3>1 DEF QueueInv, Fresh
  <2>. QED  BY <2>1, <2>2, <2>3 DEF QueueInv
<1>6. ASSUME NEW d \in Clients
      PROVE  ClientInv(d)'
  <2>1. CASE d = c
    BY <1>0, <1>2, <2>1 DEF ClientInv, Fresh, GarbageAhead
  <2>2. CASE d # c
    BY <1>0, <2>2, Untouched
  <2>. QED  BY <2>1, <2>2
<1>. QED  BY <1>3, <1>4, <1>5, <1>6 DEF DaemonInv

(* The steps that move no record: the loop test, a failed accept, the end   *)
(* of a connection, a signal.                                               *)
LEMMA QuietStep ==
    ASSUME DaemonInv, LoopTest \/ AcceptThrows \/ CloseConnection \/ Signal
    PROVE  DaemonInv'
<1>0. /\ DaemonTypeOK /\ InHand /\ QueueInv /\ \A d \in Clients : ClientInv(d)
      /\ UNCHANGED <<processed, queue, client, unread, sent>>
  BY DEF DaemonInv, LoopTest, AcceptThrows, CloseConnection, Signal, daemonVars, clientVars
<1>1. DaemonTypeOK'
  BY <1>0 DEF DaemonTypeOK, LoopTest, AcceptThrows, CloseConnection, Signal, daemonVars
<1>2. InHand'
  BY <1>0 DEF InHand, NoDescriptorLeaks, LoopTest, AcceptThrows, CloseConnection,
              Signal, daemonVars
<1>3. cfd' = "none" \/ (cfd' = cfd /\ dpc' = dpc)
  BY <1>0 DEF InHand, LoopTest, AcceptThrows, CloseConnection, Signal, daemonVars
<1>4. ~Waiting("none")
  <2>1. \A i \in 1..Len(queue) : queue[i] \in Clients
    BY <1>0, ElementOfSeq DEF DaemonTypeOK
  <2>. QED  BY <2>1, DaemonAssumption DEF Waiting
<1>5. QueueInv'
  BY <1>0, <1>3, <1>4 DEF QueueInv, Waiting, Fresh
<1>6. \A d \in Clients : ClientInv(d)'
  BY <1>0, <1>3, Untouched, DaemonAssumption
<1>. QED  BY <1>1, <1>2, <1>5, <1>6 DEF DaemonInv

LEMMA HandshakeOkStep ==
    ASSUME DaemonInv, HandshakeOk
    PROVE  DaemonInv'
<1>0. /\ DaemonTypeOK /\ InHand /\ QueueInv /\ \A d \in Clients : ClientInv(d)
      /\ dpc = "handshake" /\ dpc' = "serve"
      /\ unread[cfd] # <<>> /\ Head(unread[cfd]) = "hello"
      /\ unread' = [unread EXCEPT ![cfd] = Tail(@)]
      /\ UNCHANGED <<once, g_exiting, cfd, fds, processed, queue, client, sent>>
  BY DEF DaemonInv, HandshakeOk
<1>1. PICK c \in Clients : cfd = c
  BY <1>0 DEF InHand, DaemonTypeOK
<1>2. Unshaken(c) /\ ~Fresh(c) /\ client[c] # "idle" /\ c \in Genuine
  <2>1. ~Fresh(c)
    BY <1>0, <1>1 DEF Fresh
  <2>2. ClientInv(c) /\ cfd = c
    BY <1>0, <1>1
  <2>3. Unshaken(c) /\ client[c] # "idle"
    BY <1>0, <2>1, <2>2 DEF ClientInv
  <2>. QED  BY <1>0, <1>1, <2>1, <2>3 DEF Unshaken
<1>3. /\ unread[c] \in Seq(Frames) /\ unread'[c] \in Seq(Frames)
      /\ unread'[c] = Tail(unread[c])
      /\ Len(unread'[c]) = Len(unread[c]) - 1
      /\ \A i \in 1..Len(unread'[c]) : unread'[c][i] = unread[c][i + 1]
  <2>1. unread[c] \in Seq(Frames) /\ unread[c] # <<>> /\ unread'[c] = Tail(unread[c])
    BY <1>0, <1>1 DEF DaemonTypeOK
  <2>. QED  BY <2>1, HeadTailProperties
<1>4. sent[c] \in Seq(Records) /\ Len(sent[c]) \in Nat
  BY <1>0, <1>1, LenProperties DEF DaemonTypeOK
<1>5. DaemonTypeOK'
  BY <1>0, <1>1, <1>3 DEF DaemonTypeOK
<1>6. InHand'
  BY <1>0 DEF InHand, NoDescriptorLeaks
<1>7. QueueInv'
  <2>1. ASSUME NEW d \in Clients, Waiting(d)'
        PROVE  Fresh(d)' /\ client'[d] \in {"silent", "gone"}
    <3>1. Waiting(d) /\ Fresh(d) /\ d # c
      BY <1>0, <1>1, <1>2, <2>1 DEF Waiting, QueueInv
    <3>. QED  BY <1>0, <1>1, <3>1 DEF QueueInv, Fresh, DaemonTypeOK
  <2>. QED  BY <1>0, <2>1 DEF QueueInv, Waiting
<1>8. Received(c, 0)'
  <2>1. /\ Len(unread'[c]) = Len(sent[c])
        /\ \A i \in 1..Len(unread'[c]) : unread'[c][i] = sent[c][0 + i]
    BY <1>2, <1>3, <1>4 DEF Unshaken
  <2>2. Evs(sent[c], 0) = {}
    BY DEF Evs
  <2>3. Cardinality(Evs(sent[c], 0)) = 0
    BY <2>2, FS_EmptySet
  <2>4. processed[c] = 0
    BY <1>2 DEF Unshaken
  <2>. QED  BY <1>0, <1>4, <2>1, <2>3, <2>4 DEF Received
<1>9. ClientInv(c)'
  <2>1. client[c] # "silent"
    BY <1>0, <1>1, <1>2 DEF ClientInv
  <2>2. processed'[c] = 0 /\ Cardinality(Due(sent[c])) \in Nat
    BY <1>0, <1>2, <1>4, DueNumber DEF Unshaken
  <2>. QED  BY <1>0, <1>1, <1>2, <1>8, <2>1, <2>2 DEF ClientInv
<1>10. ASSUME NEW d \in Clients, d # c
       PROVE  ClientInv(d)'
  <2>1. unread'[d] = unread[d]
    BY <1>0, <1>1, <1>10 DEF DaemonTypeOK
  <2>. QED  BY <1>0, <1>1, <1>10, <2>1, Untouched
<1>. QED  BY <1>5, <1>6, <1>7, <1>9, <1>10 DEF DaemonInv

(* The daemon turns to closing: no record moves.                            *)
LEMMA GiveUpStep ==
    ASSUME DaemonInv, HandshakeThrows \/ ReceiveEof
    PROVE  DaemonInv'
<1>0. /\ DaemonTypeOK /\ InHand /\ QueueInv /\ \A d \in Clients : ClientInv(d)
      /\ dpc \in {"handshake", "serve"} /\ dpc' = "close"
      /\ UNCHANGED <<once, g_exiting, cfd, fds, processed, queue, client, unread, sent>>
  BY DEF DaemonInv, HandshakeThrows, ReceiveEof, clientVars
<1>1. cfd \in Clients
  BY <1>0 DEF InHand, DaemonTypeOK
<1>2. GarbageAhead(cfd) \/ Settled(cfd)
  <2>0. ClientInv(cfd)
    BY <1>0, <1>1
  <2>1. CASE HandshakeThrows
    <3>1. CASE unread[cfd] = <<>>
      <4>1. client[cfd] = "gone" /\ dpc = "handshake"
        BY <2>1, <3>1 DEF HandshakeThrows
      <4>2. Fresh(cfd)
        BY <2>0, <3>1, <4>1 DEF ClientInv, Unshaken
      <4>. QED  BY <4>1, <4>2, NothingDue DEF Settled, Fresh
    <3>2. CASE unread[cfd] # <<>>
      <4>1. Head(unread[cfd]) # "hello" /\ dpc = "handshake"
        BY <2>1, <3>2 DEF HandshakeThrows
      <4>2. Unshaken(cfd)
        BY <2>0, <3>2, <4>1 DEF ClientInv, Fresh
      <4>. QED  BY <4>1, <4>2 DEF Unshaken, GarbageAhead
    <3>. QED  BY <3>1, <3>2
  <2>2. CASE ReceiveEof
    <3>1. dpc = "serve" /\ unread[cfd] = <<>> /\ client[cfd] = "gone"
      BY <2>2 DEF ReceiveEof
    <3>2. PICK n \in Nat : Received(cfd, n)
      BY <2>0, <3>1 DEF ClientInv
    <3>3. sent[cfd] \in Seq(Records) /\ Len(<<>>) = 0
      BY <1>0, <1>1, EmptySeq DEF DaemonTypeOK
    <3>4. n = Len(sent[cfd]) /\ \A i \in 1..n : ~Spoilt(sent[cfd][i])
      BY <3>1, <3>2, <3>3 DEF Received
    <3>5. Due(sent[cfd]) = Evs(sent[cfd], n)
      BY <3>3, <3>4, ReceivedAreDue
    <3>. QED  BY <3>1, <3>2, <3>5 DEF Settled, Received
  <2>. QED  BY <1>0, <2>1, <2>2
<1>3. ASSUME NEW d \in Clients
      PROVE  ClientInv(d)'
  <2>1. CASE d = cfd
    <3>1. (GarbageAhead(cfd) \/ Settled(cfd)) => (GarbageAhead(d)' \/ Settled(d)')
      BY <1>0, <2>1 DEF GarbageAhead, Settled
    <3>2. (Fresh(d) <=> Fresh(d)') /\ (GarbageAhead(d) <=> GarbageAhead(d)')
      BY <1>0 DEF Fresh, GarbageAhead
    <3>. QED  BY <1>0, <1>2, <2>1, <3>1, <3>2 DEF ClientInv
  <2>2. CASE d # cfd
    BY <1>0, <2>2, Untouched
  <2>. QED  BY <2>1, <2>2
<1>4. DaemonTypeOK' /\ InHand' /\ QueueInv'
  BY <1>0 DEF DaemonTypeOK, InHand, NoDescriptorLeaks, QueueInv, Waiting, Fresh
<1>. QED  BY <1>3, <1>4 DEF DaemonInv

(* A record is received: a good one, or one that ends the connection.       *)
LEMMA ReceiveStep ==
    ASSUME DaemonInv, ReceiveEvent \/ ReceiveShort \/ ReceiveThrows
    PROVE  DaemonInv'
<1>0. /\ DaemonTypeOK /\ InHand /\ QueueInv /\ \A d \in Clients : ClientInv(d)
      /\ dpc = "serve" /\ unread[cfd] # <<>>
      /\ unread' = [unread EXCEPT ![cfd] = Tail(@)]
      /\ UNCHANGED <<once, g_exiting, cfd, fds, queue, client, sent>>
  BY DEF DaemonInv, ReceiveEvent, ReceiveShort, ReceiveThrows, Arrived
<1>1. PICK c \in Clients : cfd = c
  BY <1>0 DEF InHand, DaemonTypeOK
<1>2. /\ c \in Genuine /\ client[c] \notin {"silent", "idle"} /\ ~Fresh(c)
      /\ processed[c] \in Nat
  <2>1. ~Fresh(c)
    BY <1>0, <1>1 DEF Fresh
  <2>. QED  BY <1>0, <1>1, <2>1 DEF ClientInv, DaemonTypeOK
<1>3. PICK n \in Nat : Received(c, n)
  BY <1>0, <1>1 DEF ClientInv
<1>4. /\ unread[c] \in Seq(Frames) /\ unread'[c] \in Seq(Frames)
      /\ unread'[c] = Tail(unread[c]) /\ Head(unread[c]) = unread[c][1]
      /\ Len(unread[c]) \in Nat /\ Len(unread[c]) >= 1
      /\ Len(unread'[c]) = Len(unread[c]) - 1
      /\ \A i \in 1..Len(unread'[c]) : unread'[c][i] = unread[c][i + 1]
  <2>1. unread[c] \in Seq(Frames) /\ unread[c] # <<>> /\ unread'[c] = Tail(unread[c])
    BY <1>0, <1>1 DEF DaemonTypeOK
  <2>. QED  BY <2>1, HeadTailProperties, EmptySeq
<1>5. sent[c] \in Seq(Records) /\ Len(sent[c]) \in Nat /\ sent'[c] = sent[c]
  BY <1>0, <1>1, LenProperties DEF DaemonTypeOK
<1>6. /\ Len(sent[c]) = n + Len(unread[c]) /\ n + 1 \in 1..Len(sent[c])
      /\ \A i \in 1..Len(unread[c]) : unread[c][i] = sent[c][n + i]
      /\ \A i \in 1..n : ~Spoilt(sent[c][i])
      /\ processed[c] = Cardinality(Evs(sent[c], n))
  BY <1>3, <1>4, <1>5 DEF Received
<1>7. Head(unread[c]) = sent[c][n + 1]
  BY <1>4, <1>6
<1>8. ~GarbageAhead(c)'
  <2>. SUFFICES ASSUME unread'[c] # <<>>
                PROVE  Head(unread'[c]) # "garbage"
    BY DEF GarbageAhead
  <2>1. Head(unread'[c]) = unread'[c][1] /\ 1 \in 1..Len(unread'[c])
    BY <1>4, EmptySeq
  <2>2. unread'[c][1] = sent[c][n + 2] /\ n + 2 \in 1..Len(sent[c])
    <3>1. unread'[c][1] = unread[c][2] /\ 2 \in 1..Len(unread[c])
      BY <1>4, <2>1
    <3>. QED  BY <1>4, <1>5, <1>6, <3>1, SMTT(30)
  <2>3. sent[c][n + 2] \in Records
    BY <1>5, <2>2, ElementOfSeq
  <2>. QED  BY <2>1, <2>2, <2>3 DEF Records
<1>9. ASSUME NEW d \in Clients, d # c
      PROVE  ClientInv(d)'
  <2>1. unread'[d] = unread[d] /\ processed'[d] = processed[d]
    BY <1>0, <1>1, <1>9 DEF DaemonTypeOK, ReceiveEvent, ReceiveShort, ReceiveThrows
  <2>. QED  BY <1>0, <1>1, <1>9, <2>1, Untouched
<1>10. InHand'
  BY <1>0 DEF InHand, NoDescriptorLeaks, ReceiveEvent, ReceiveShort, ReceiveThrows
<1>11. DaemonTypeOK'
  <2>1. processed' \in [Clients -> Nat] /\ dpc' \in {"serve", "close"}
    BY <1>0, <1>1 DEF DaemonTypeOK, ReceiveEvent, ReceiveShort, ReceiveThrows
  <2>. QED  BY <1>0, <1>1, <1>4, <2>1 DEF DaemonTypeOK
<1>12. QueueInv'
  <2>1. ASSUME NEW d \in Clients, Waiting(d)'
        PROVE  Fresh(d)' /\ client'[d] \in {"silent", "gone"}
    <3>1. Waiting(d) /\ Fresh(d) /\ d # c
      BY <1>0, <1>2, <2>1 DEF Waiting, QueueInv
    <3>2. unread'[d] = unread[d] /\ processed'[d] = processed[d]
      BY <1>0, <1>1, <2>1, <3>1
         DEF DaemonTypeOK, ReceiveEvent, ReceiveShort, ReceiveThrows
    <3>. QED  BY <1>0, <3>1, <3>2 DEF QueueInv, Fresh
  <2>. QED  BY <1>0, <2>1 DEF QueueInv, Waiting
<1>13. CASE ReceiveEvent \/ ReceiveShort
  <2>1. dpc' = "serve" /\ ~Spoilt(sent[c][n + 1])
    BY <1>0, <1>1, <1>7, <1>13 DEF ReceiveEvent, ReceiveShort, Arrived, Spoilt
  <2>2. processed'[c] = Cardinality(Evs(sent[c], n + 1))
    <3>1. CASE ReceiveEvent
      <4>1. processed'[c] = processed[c] + 1 /\ sent[c][n + 1] = "event"
        BY <1>0, <1>1, <1>7, <3>1 DEF ReceiveEvent, Arrived, DaemonTypeOK
      <4>. QED  BY <1>6, <4>1, OneMoreEvent
    <3>2. CASE ReceiveShort
      <4>1. processed'[c] = processed[c] /\ sent[c][n + 1] # "event"
        BY <1>0, <1>1, <1>7, <3>2 DEF ReceiveShort, Arrived
      <4>. QED  BY <1>6, <4>1, OneMoreEvent
    <3>. QED  BY <1>13, <3>1, <3>2
  <2>3. \A i \in 1..(n + 1) : ~Spoilt(sent[c][i])
    BY <1>6, <2>1, SMTT(30)
  <2>4. \A i \in 1..Len(unread'[c]) : unread'[c][i] = sent[c][(n + 1) + i]
    <3>. SUFFICES ASSUME NEW i \in 1..Len(unread'[c])
                  PROVE  unread'[c][i] = sent[c][(n + 1) + i]
      OBVIOUS
    <3>1. i + 1 \in 1..Len(unread[c]) /\ n + (i + 1) = (n + 1) + i
      BY <1>4
    <3>. QED  BY <1>4, <1>6, <3>1
  <2>5. \E m \in Nat : Received(c, m)'
    <3>1. PICK m \in Nat : m = n + 1
      OBVIOUS
    <3>2. Len(sent'[c]) = m + Len(unread'[c])
      <4>1. /\ Len(unread[c]) \in Nat /\ Len(unread'[c]) = Len(unread[c]) - 1
            /\ Len(sent[c]) = n + Len(unread[c])
        BY <1>4, <1>6
      <4>2. Len(sent[c]) = m + Len(unread'[c])
        <5>. DEFINE a == Len(unread[c])
                    b == Len(unread'[c])
                    l == Len(sent[c])
        <5>1. a \in Nat /\ b = a - 1 /\ l = n + a
          BY <4>1
        <5>. HIDE DEF a, b, l
        <5>2. l = m + b
          BY <3>1, <5>1
        <5>. QED  BY <5>2 DEF b, l
      <4>. QED  BY <1>5, <4>2
    <3>3. /\ \A i \in 1..Len(unread'[c]) : unread'[c][i] = sent'[c][m + i]
          /\ \A i \in 1..m : ~Spoilt(sent'[c][i])
          /\ processed'[c] = Cardinality(Evs(sent'[c], m))
      BY <1>5, <2>2, <2>3, <2>4, <3>1
    <3>4. Received(c, m)'
      BY <3>2, <3>3 DEF Received
    <3>. QED  BY <3>4
  <2>6. processed'[c] <= Cardinality(Due(sent[c]))
    <3>1. n + 1 \in Nat /\ n + 1 <= Len(sent[c])
      BY <1>5, <1>6
    <3>. QED  BY <1>5, <2>2, <2>3, <3>1, ReceivedAreDue
  <2>7. ClientInv(c)'
    BY <1>0, <1>1, <1>2, <1>5, <1>8, <2>1, <2>5, <2>6 DEF ClientInv
  <2>. QED  BY <1>9, <1>10, <1>11, <1>12, <2>7 DEF DaemonInv
<1>14. CASE ReceiveThrows
  <2>1. dpc' = "close" /\ processed'[c] = processed[c] /\ Spoilt(sent[c][n + 1])
    BY <1>0, <1>1, <1>7, <1>14 DEF ReceiveThrows, Arrived, Spoilt
  <2>2. Due(sent[c]) = Evs(sent[c], n)
    <3>1. n <= Len(sent[c])
      BY <1>5, <1>6
    <3>. QED  BY <1>5, <1>6, <2>1, <3>1, ReceivedAreDue
  <2>3. Settled(c)'
    BY <1>5, <1>6, <2>1, <2>2 DEF Settled
  <2>4. ClientInv(c)'
    BY <1>0, <1>1, <1>2, <1>5, <1>6, <1>8, <2>1, <2>2, <2>3 DEF ClientInv
  <2>. QED  BY <1>9, <1>10, <1>11, <1>12, <2>4 DEF DaemonInv
<1>. QED  BY <1>13, <1>14

(* The invariant holds in every state of the daemon and its clients.        *)
THEOREM DaemonInvariance == Spec => []DaemonInv
<1>1. Init => DaemonInv
  BY InitDaemonInv
<1>2. DaemonInv /\ [Next]_vars => DaemonInv'
  <2>. SUFFICES ASSUME DaemonInv, [Next]_vars
                PROVE  DaemonInv'
    OBVIOUS
  <2>1. ASSUME NEW c \in Clients, SendRecord(c)
        PROVE  DaemonInv'
    <3>1. PICK r \in Records \ {"cut"} :
             /\ unread' = [unread EXCEPT ![c] = Append(@, r)]
             /\ sent' = [sent EXCEPT ![c] = Append(@, r)]
      BY <2>1 DEF SendRecord
    <3>2. /\ client[c] = "talks" /\ client' = [client EXCEPT ![c] = "talks"]
          /\ UNCHANGED <<once, g_exiting, daemonVars, queue>>
      BY <2>1 DEF SendRecord, DaemonInv, DaemonTypeOK
    <3>. QED  BY <3>1, <3>2, RecordStep
  <2>2. ASSUME NEW c \in Clients, DieInRecord(c)
        PROVE  DaemonInv'
    <3>1. /\ client[c] = "talks" /\ client' = [client EXCEPT ![c] = "gone"]
          /\ unread' = [unread EXCEPT ![c] = Append(@, "cut")]
          /\ sent' = [sent EXCEPT ![c] = Append(@, "cut")]
          /\ UNCHANGED <<once, g_exiting, daemonVars, queue>>
      BY <2>2 DEF DieInRecord
    <3>2. "cut" \in Records
      BY DEF Records
    <3>. QED  BY <3>1, <3>2, RecordStep
  <2>3. CASE Daemon \/ AcceptThrows
    BY <2>3, QuietStep, AcceptStep, HandshakeOkStep, GiveUpStep, ReceiveStep DEF Daemon
  <2>4. CASE UNCHANGED vars
    BY <2>4 DEF vars, daemonVars, clientVars, DaemonInv, DaemonTypeOK, InHand,
                NoDescriptorLeaks, QueueInv, Waiting, Fresh, ClientInv, Received,
                Unshaken, Settled, GarbageAhead
  <2>. QED  BY <2>1, <2>2, <2>3, <2>4, ConnectStep, ShakeStep, DisconnectStep, QuietStep
            DEF Next
<1>. QED  BY <1>1, <1>2, PTL DEF Spec

(* However a connection ends, its descriptor is closed before the next is   *)
(* accepted, and at most one is open (main.cpp:133).                        *)
THEOREM NoLeaks == Spec => []NoDescriptorLeaks
<1>1. DaemonInv => NoDescriptorLeaks
  BY DEF DaemonInv, InHand
<1>. QED  BY <1>1, DaemonInvariance, PTL

(* Exactly the events a genuine client sent before its first bad record are *)
(* processed, and none of anyone else (serve_connection).                   *)
THEOREM AllDueProcessed == Spec => []ProcessedAll
<1>1. DaemonInv => ProcessedAll
  <2>. SUFFICES ASSUME DaemonInv, NEW c \in Clients
                PROVE  /\ processed[c] <= IF c \in Genuine
                                            THEN Cardinality(Due(sent[c])) ELSE 0
                       /\ unread[c] # <<>> /\ Head(unread[c]) = "garbage"
                             => processed[c] = 0
                       /\ dpc = "close" /\ cfd = c /\ ~Arrived("garbage")
                             => processed[c] = Cardinality(Due(sent[c]))
    BY DEF ProcessedAll
  <2>1. ClientInv(c)
    BY DEF DaemonInv
  <2>. QED  BY <2>1 DEF ClientInv, GarbageAhead, Settled, Arrived
<1>. QED  BY <1>1, DaemonInvariance, PTL
=============================================================================
