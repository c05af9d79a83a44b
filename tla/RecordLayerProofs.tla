-------------------------- MODULE RecordLayerProofs --------------------------
(***************************************************************************)
(* Proofs about the record layer for any number of sessions, any payloads   *)
(* and any number of records.                                               *)
(***************************************************************************)
EXTENDS RecordLayer, TLAPS

(* Appending leaves every earlier element where it was.                      *)
LEMMA AppendFacts ==
  ASSUME NEW S, NEW s \in Seq(S), NEW e \in S
  PROVE  /\ Append(s, e) \in Seq(S)
         /\ Len(Append(s, e)) = Len(s) + 1
         /\ Append(s, e)[Len(s) + 1] = e
         /\ \A i \in 1..Len(s) : Append(s, e)[i] = s[i]
  OBVIOUS

(* A sequence number below the limit does not wrap.                          *)
LEMMA NoWrap ==
  ASSUME NEW seq \in Nat, seq < SeqMax
  PROVE  Increment(seq) = seq + 1
PROOF
<1>1. SeqMax \in Nat
  BY RecordAssumption
<1> DEFINE a == seq + 1
           b == SeqMax + 1
<1>2. a \in Nat /\ b \in Nat /\ 0 <= a /\ a < b
  BY <1>1
<1> HIDE DEF a, b
<1>3. a % b = a
  BY <1>2
<1> QED BY <1>3 DEF Increment, a, b

(* Nothing sealed, nothing accepted.                                         *)
LEMMA InitInv == Init => RecordInv
PROOF
<1> SUFFICES ASSUME Init PROVE RecordInv
  OBVIOUS
<1> USE DEF Init
<1>1. TypeOK
  BY DEF TypeOK
<1>2. \A k \in Keys : sealed[k] = <<>> /\ opened[k] = <<>> /\ sseq[k] = 0 /\ rseq[k] = 0
  OBVIOUS
<1>3. \A k \in Keys : Len(sealed[k]) = 0 /\ Len(opened[k]) = 0
  BY <1>2
<1> QED BY <1>1, <1>2, <1>3, RecordAssumption DEF RecordInv, DeliveredIsPrefix

(* seal() keeps the invariant: the new record takes a sequence number that   *)
(* no record of its key has, and the sealed history only grows at its end.   *)
LEMMA SealInv ==
  ASSUME RecordInv, NEW k \in Keys, NEW m \in Payloads, Seal(k, m)
  PROVE  RecordInv'
PROOF
<1> USE DEF RecordInv
<1> DEFINE r == [key |-> k, seq |-> sseq[k], pt |-> m]
<1>0. /\ sealed \in [Keys -> Seq(Payloads)] /\ sealed[k] \in Seq(Payloads)
      /\ Len(sealed[k]) \in Nat /\ sseq \in [Keys -> Nat] /\ sseq[k] = Len(sealed[k])
      /\ sseq[k] < SeqMax
  BY RecordAssumption DEF TypeOK, Seal
<1>1. /\ wire' = wire \cup {r}
      /\ sseq' = [sseq EXCEPT ![k] = sseq[k] + 1]
      /\ sealed' = [sealed EXCEPT ![k] = Append(sealed[k], m)]
      /\ UNCHANGED <<rseq, opened>>
  BY <1>0, NoWrap DEF Seal, aes_gcm_seal, make_nonce, receiverVars
<1>2. \A j \in Keys : j # k => sealed'[j] = sealed[j] /\ sseq'[j] = sseq[j]
  BY <1>0, <1>1
<1>3. sealed'[k] = Append(sealed[k], m) /\ sseq'[k] = sseq[k] + 1
  BY <1>0, <1>1
<1>4. /\ sealed'[k] \in Seq(Payloads)
      /\ Len(sealed'[k]) = Len(sealed[k]) + 1
      /\ sealed'[k][Len(sealed[k]) + 1] = m
      /\ \A i \in 1..Len(sealed[k]) : sealed'[k][i] = sealed[k][i]
  BY <1>0, <1>3, AppendFacts
<1>5. TypeOK'
  <2>1. sealed' \in [Keys -> Seq(Payloads)]
    BY <1>0, <1>1, <1>3, <1>4
  <2>2. sseq' \in [Keys -> Nat]
    BY <1>0, <1>1
  <2>3. r \in Record
    BY <1>0 DEF Record
  <2> QED BY <1>1, <2>1, <2>2, <2>3 DEF TypeOK
<1>6. ASSUME NEW j \in Keys
      PROVE  (/\ sseq[j] = Len(sealed[j]) /\ rseq[j] = Len(opened[j])
              /\ sseq[j] <= SeqMax)'
  <2>1. CASE j = k
    BY <1>0, <1>1, <1>3, <1>4, <2>1, RecordAssumption
  <2>2. CASE j # k
    BY <1>1, <1>2, <2>2
  <2> QED BY <2>1, <2>2
<1>7. ASSUME NEW x \in wire'
      PROVE  x.seq < Len(sealed'[x.key]) /\ x.pt = sealed'[x.key][x.seq + 1]
  <2>1. CASE x = r
    BY <1>0, <1>3, <1>4, <2>1
  <2>2. CASE x \in wire
    <3>1. /\ x.key \in Keys /\ x.seq \in Nat
          /\ x.seq < Len(sealed[x.key]) /\ x.pt = sealed[x.key][x.seq + 1]
      BY <2>2 DEF TypeOK, Record
    <3>2. CASE x.key = k
      <4>1. x.seq + 1 \in 1..Len(sealed[k])
        BY <1>0, <3>1, <3>2
      <4> QED BY <1>0, <1>4, <3>1, <3>2, <4>1
    <3>3. CASE x.key # k
      BY <1>2, <3>1, <3>3
    <3> QED BY <3>2, <3>3
  <2> QED BY <1>1, <1>7, <2>1, <2>2
<1>8. DeliveredIsPrefix'
  <2> SUFFICES ASSUME NEW j \in Keys
               PROVE  /\ Len(opened[j]) <= Len(sealed'[j])
                      /\ \A i \in 1..Len(opened[j]) : opened[j][i] = sealed'[j][i]
    BY <1>1 DEF DeliveredIsPrefix
  <2>1. /\ Len(opened[j]) <= Len(sealed[j]) /\ Len(opened[j]) \in Nat
        /\ \A i \in 1..Len(opened[j]) : opened[j][i] = sealed[j][i]
    BY DEF DeliveredIsPrefix, TypeOK
  <2>2. CASE j = k
    <3>1. \A i \in 1..Len(opened[j]) : i \in 1..Len(sealed[k])
      BY <1>0, <2>1, <2>2
    <3> QED BY <1>0, <1>4, <2>1, <2>2, <3>1
  <2>3. CASE j # k
    BY <1>2, <2>1, <2>3
  <2> QED BY <2>2, <2>3
<1>9. ASSUME NEW j \in Keys, NEW i \in 1..Len(sealed'[j])
      PROVE  \E x \in wire' : x.key = j /\ x.seq + 1 = i
  <2>1. CASE i \in 1..Len(sealed[j])
    BY <1>1, <2>1
  <2>2. CASE i \notin 1..Len(sealed[j])
    <3>1. j = k
      BY <1>2, <2>2
    <3>2. i = Len(sealed[k]) + 1
      BY <1>0, <1>4, <2>2, <3>1
    <3>3. r.key = j /\ r.seq + 1 = i /\ r \in wire'
      BY <1>0, <1>1, <3>1, <3>2
    <3> QED BY <3>3
  <2> QED BY <2>1, <2>2
<1> QED BY <1>5, <1>6, <1>7, <1>8, <1>9

(* open() keeps the invariant: the record that opens is the next one sealed. *)
LEMMA OpenInv ==
  ASSUME RecordInv, NEW k \in Keys, NEW r \in wire, OpenOk(k, r)
  PROVE  RecordInv'
PROOF
<1> USE DEF RecordInv
<1>0. /\ opened \in [Keys -> Seq(Payloads)] /\ opened[k] \in Seq(Payloads)
      /\ Len(opened[k]) \in Nat /\ rseq \in [Keys -> Nat] /\ rseq[k] = Len(opened[k])
      /\ Len(sealed[k]) \in Nat /\ r \in Record
  BY DEF TypeOK
<1>1. /\ r.key = k /\ r.seq = rseq[k]
      /\ rseq' = [rseq EXCEPT ![k] = rseq[k] + 1]
      /\ opened' = [opened EXCEPT ![k] = Append(opened[k], r.pt)]
      /\ UNCHANGED <<sseq, sealed, wire>>
  <2>1. r.seq < Len(sealed[k]) /\ Len(sealed[k]) <= SeqMax /\ r.seq = rseq[k] /\ r.key = k
    BY <1>0 DEF OpenOk, Opens, aes_gcm_open, make_nonce
  <2>2. rseq[k] \in Nat /\ rseq[k] < SeqMax
    BY <1>0, <2>1, RecordAssumption
  <2>3. Increment(rseq[k]) = rseq[k] + 1
    BY <2>2, NoWrap
  <2> QED BY <1>0, <2>1, <2>3 DEF OpenOk, senderVars
<1>2. \A j \in Keys : j # k => opened'[j] = opened[j] /\ rseq'[j] = rseq[j]
  BY <1>0, <1>1
<1>3. opened'[k] = Append(opened[k], r.pt) /\ rseq'[k] = rseq[k] + 1 /\ r.pt \in Payloads
  BY <1>0, <1>1 DEF Record
<1>4. /\ opened'[k] \in Seq(Payloads)
      /\ Len(opened'[k]) = Len(opened[k]) + 1
      /\ opened'[k][Len(opened[k]) + 1] = r.pt
      /\ \A i \in 1..Len(opened[k]) : opened'[k][i] = opened[k][i]
  BY <1>0, <1>3, AppendFacts
<1>5. /\ Len(opened[k]) < Len(sealed[k])
      /\ r.pt = sealed[k][Len(opened[k]) + 1]
  BY <1>0, <1>1
<1>6. TypeOK'
  <2>1. opened' \in [Keys -> Seq(Payloads)]
    BY <1>0, <1>1, <1>3, <1>4
  <2>2. rseq' \in [Keys -> Nat]
    BY <1>0, <1>1
  <2> QED BY <1>1, <2>1, <2>2 DEF TypeOK
<1>7. ASSUME NEW j \in Keys
      PROVE  (/\ sseq[j] = Len(sealed[j]) /\ rseq[j] = Len(opened[j])
              /\ sseq[j] <= SeqMax)'
  <2>1. CASE j = k
    BY <1>0, <1>1, <1>3, <1>4, <2>1
  <2>2. CASE j # k
    BY <1>1, <1>2, <2>2
  <2> QED BY <2>1, <2>2
<1>8. DeliveredIsPrefix'
  <2> SUFFICES ASSUME NEW j \in Keys
               PROVE  /\ Len(opened'[j]) <= Len(sealed[j])
                      /\ \A i \in 1..Len(opened'[j]) : opened'[j][i] = sealed[j][i]
    BY <1>1 DEF DeliveredIsPrefix
  <2>1. /\ Len(opened[j]) <= Len(sealed[j])
        /\ \A i \in 1..Len(opened[j]) : opened[j][i] = sealed[j][i]
    BY DEF DeliveredIsPrefix
  <2>2. CASE j = k
    <3>1. Len(opened'[k]) <= Len(sealed[k])
      BY <1>0, <1>4, <1>5
    <3>2. ASSUME NEW i \in 1..Len(opened'[k]) PROVE opened'[k][i] = sealed[k][i]
      <4>1. CASE i \in 1..Len(opened[k])
        BY <1>4, <2>1, <2>2, <4>1
      <4>2. CASE i = Len(opened[k]) + 1
        BY <1>4, <1>5, <4>2
      <4> QED BY <1>0, <1>4, <3>2, <4>1, <4>2
    <3> QED BY <2>2, <3>1, <3>2
  <2>3. CASE j # k
    BY <1>2, <2>1, <2>3
  <2> QED BY <2>2, <2>3
<1> QED BY <1>1, <1>6, <1>7, <1>8

(* RecordInv is an invariant of the record layer.                            *)
THEOREM RecordInvariance == Spec => []RecordInv
PROOF
<1>1. ASSUME RecordInv, [Next]_vars PROVE RecordInv'
  <2>1. CASE UNCHANGED vars
    BY <1>1, <2>1
    DEF vars, senderVars, receiverVars, RecordInv, TypeOK, DeliveredIsPrefix
  <2>2. ASSUME NEW k \in Keys, NEW m \in Payloads, Seal(k, m) PROVE RecordInv'
    BY <1>1, <2>2, SealInv
  <2>3. ASSUME NEW k \in Keys, NEW r \in wire, OpenOk(k, r) PROVE RecordInv'
    BY <1>1, <2>3, OpenInv
  <2> QED BY <1>1, <2>1, <2>2, <2>3 DEF Next, OpenFails, Garbled, Rejected
<1> QED BY InitInv, <1>1, PTL DEF Spec

(* Integrity of the channel: whatever the network does, the receiver's       *)
(* plaintexts are a prefix of its peer's.                                    *)
THEOREM Integrity == Spec => []DeliveredIsPrefix
  BY RecordInvariance, PTL DEF RecordInv

(* No (key, nonce) pair is ever used for two records.                        *)
THEOREM NonceUnique == Spec => []NonceNeverReused
PROOF
<1>1. RecordInv => NonceNeverReused
  <2> SUFFICES ASSUME RecordInv, NEW r1 \in wire, NEW r2 \in wire,
                      r1.key = r2.key, r1.seq = r2.seq
               PROVE  r1 = r2
    BY DEF NonceNeverReused
  <2>1. r1.pt = r2.pt
    BY DEF RecordInv
  <2>2. r1 \in Record /\ r2 \in Record
    BY DEF RecordInv, TypeOK
  <2> QED BY <2>1, <2>2 DEF Record
<1> QED BY RecordInvariance, <1>1, PTL

(* The receiver accepts exactly the record its peer sealed next, whatever it *)
(* was given before and refused, up to the last number of the sequence.      *)
THEOREM InStep == Spec => []OpensExactlyNext
PROOF
<1>1. RecordInv => OpensExactlyNext
  <2> SUFFICES ASSUME RecordInv, NEW k \in Keys
               PROVE  {r.pt : r \in {x \in wire : Opens(k, x)}}
                        = {sealed[k][i] : i \in 1..Len(sealed[k]) \cap {Len(opened[k]) + 1}}
    BY DEF OpensExactlyNext
  <2> DEFINE next == Len(opened[k]) + 1
  <2>1. /\ Len(opened[k]) \in Nat /\ Len(sealed[k]) \in Nat /\ rseq[k] = Len(opened[k])
        /\ Len(sealed[k]) <= SeqMax /\ wire \subseteq Record
    BY DEF RecordInv, TypeOK
  <2>2. ASSUME NEW r \in wire, Opens(k, r)
        PROVE  next \in 1..Len(sealed[k]) /\ r.pt = sealed[k][next]
    <3>1. r.key = k /\ r.seq = Len(opened[k])
      BY <2>1, <2>2 DEF Opens, aes_gcm_open, make_nonce
    <3>2. r.seq < Len(sealed[k]) /\ r.pt = sealed[k][r.seq + 1]
      BY <3>1 DEF RecordInv
    <3> QED BY <2>1, <3>1, <3>2
  <2>3. ASSUME next \in 1..Len(sealed[k])
        PROVE  \E r \in wire : Opens(k, r) /\ r.pt = sealed[k][next]
    <3>1. PICK r \in wire : r.key = k /\ r.seq + 1 = next
      BY <2>3 DEF RecordInv
    <3>2. r.seq \in Nat
      BY <2>1 DEF Record
    <3>3. r.seq = rseq[k] /\ rseq[k] # SeqMax
      BY <2>1, <2>3, <3>1, <3>2, RecordAssumption
    <3>4. r.pt = sealed[k][next]
      BY <3>1 DEF RecordInv
    <3> QED BY <3>1, <3>3, <3>4 DEF Opens, aes_gcm_open, make_nonce
  <2> HIDE DEF next
  <2>4. {r.pt : r \in {x \in wire : Opens(k, x)}}
          = {sealed[k][i] : i \in 1..Len(sealed[k]) \cap {next}}
    BY <2>2, <2>3
  <2> QED BY <2>4 DEF next
<1> QED BY RecordInvariance, <1>1, PTL
=============================================================================
