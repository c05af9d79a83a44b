----------------------------- MODULE RecordLayer -----------------------------
(***************************************************************************)
(* The encrypted records of an established channel: RecordSender::seal and  *)
(* RecordReceiver::open of crypto/src/record.cpp, over a network that may   *)
(* drop, repeat, reorder, alter and reflect what it carries.  The caller of *)
(* open() may go on after an exception, since the receiver keeps no other   *)
(* state than its sequence number; that the daemon does not go on is        *)
(* AnalyzerDaemon's subject.                                                *)
(*                                                                         *)
(* A key stands for one direction of one session (its AES key and iv_base). *)
(* AES-256-GCM is ideal: a record opens under (key, nonce) only if it was   *)
(* sealed under the same two, and then yields what was sealed.  The nonce   *)
(* is iv_base XOR seq, one to one in seq, so it is the sequence number.     *)
(***************************************************************************)
EXTENDS Integers, Sequences

CONSTANTS
    Keys,       \* directions of sessions
    Payloads,   \* what may be sealed
    Oversize,   \* payloads longer than a record holds
    SeqMax      \* UINT64_MAX: the sequence number that is never used
                \* for a record

ASSUME RecordAssumption ==
    /\ SeqMax \in Nat
    /\ Oversize \subseteq Payloads

VARIABLES
    sseq,    \* RecordSender::seq_, per key
    sealed,  \* history: payloads sealed, per key, in order
    wire,    \* every record ever put on the network
    rseq,    \* RecordReceiver::seq_, per key
    opened   \* history: payloads that open() returned, per key, in order

senderVars == <<sseq, sealed, wire>>
receiverVars == <<rseq, opened>>
vars == <<senderVars, receiverVars>>

Record == [key : Keys, seq : Nat, pt : Payloads]

Init ==
    /\ sseq = [k \in Keys |-> 0]
    /\ sealed = [k \in Keys |-> <<>>]
    /\ wire = {}
    /\ rseq = [k \in Keys |-> 0]
    /\ opened = [k \in Keys |-> <<>>]

-----------------------------------------------------------------------------
make_nonce(seq) == seq

aes_gcm_seal(k, nonce, m) == [key |-> k, seq |-> nonce, pt |-> m]

(* Variant: any record of the key opens.                                    *)
aes_gcm_open_AnyNonce(k, nonce, r) == r.key = k

aes_gcm_open(k, nonce, r) == r.key = k /\ r.seq = nonce

(* ++seq_, of 64 bits                                                       *)
Increment(seq) == (seq + 1) % (SeqMax + 1)

(* Variant: no check for an exhausted sequence.                             *)
Seal_NoLimit(k, m) ==
    /\ Len(sealed[k]) <= SeqMax + 1
    /\ m \notin Oversize
    /\ wire' = wire \cup {aes_gcm_seal(k, make_nonce(sseq[k]), m)}
    /\ sseq' = [sseq EXCEPT ![k] = Increment(@)]
    /\ sealed' = [sealed EXCEPT ![k] = Append(@, m)]
    /\ UNCHANGED receiverVars

(* seal(): an exhausted sequence or an oversized payload throws, and        *)
(* nothing is sealed.                                                       *)
Seal(k, m) ==
    /\ sseq[k] # SeqMax
    /\ m \notin Oversize
    /\ wire' = wire \cup {aes_gcm_seal(k, make_nonce(sseq[k]), m)}
    /\ sseq' = [sseq EXCEPT ![k] = Increment(@)]
    /\ sealed' = [sealed EXCEPT ![k] = Append(@, m)]
    /\ UNCHANGED receiverVars

(* What open() asks of a record                                             *)
Opens(k, r) == rseq[k] # SeqMax /\ aes_gcm_open(k, make_nonce(rseq[k]), r)

(* open() is given a record that some sealer made: any record of any        *)
(* session and direction, as often as the network likes.                    *)
OpenOk(k, r) ==
    /\ Opens(k, r)
    /\ rseq' = [rseq EXCEPT ![k] = Increment(@)]
    /\ opened' = [opened EXCEPT ![k] = Append(@, r.pt)]
    /\ UNCHANGED senderVars

(* Variant: the number is used up before the tag is verified.               *)
Rejected_Counts(k) ==
    /\ rseq[k] # SeqMax
    /\ rseq' = [rseq EXCEPT ![k] = Increment(@)]
    /\ UNCHANGED <<opened, senderVars>>

(* open() throws: seq_ is not touched before the tag has been verified.     *)
Rejected(k) == UNCHANGED vars

OpenFails(k, r) == ~Opens(k, r) /\ Rejected(k)

(* Bytes that no sealer made: too short, of another length than they say,   *)
(* or without a valid tag.                                                  *)
Garbled(k) == Rejected(k)

Next ==
    \E k \in Keys :
        \/ \E m \in Payloads : Seal(k, m)
        \/ \E r \in wire : OpenOk(k, r) \/ OpenFails(k, r)
        \/ Garbled(k)

Spec == Init /\ [][Next]_vars

-----------------------------------------------------------------------------
(* Properties.                                                              *)

(* Types of the two ends and of the network.                                *)
TypeOK ==
    /\ sseq \in [Keys -> Nat]
    /\ sealed \in [Keys -> Seq(Payloads)]
    /\ wire \subseteq Record
    /\ rseq \in [Keys -> Nat]
    /\ opened \in [Keys -> Seq(Payloads)]

(* No nonce is used twice under a key (record.cpp:105): two records on the  *)
(* network with the same key and sequence number are the same record, also  *)
(* when the sequence is exhausted.                                          *)
NonceNeverReused ==
    \A r1, r2 \in wire : r1.key = r2.key /\ r1.seq = r2.seq => r1 = r2

(* What a receiver has accepted is a prefix of what its peer sealed in that *)
(* session and direction: nothing lost in the middle, repeated, reordered,  *)
(* altered, or taken from another session or from the opposite direction.   *)
DeliveredIsPrefix ==
    \A k \in Keys :
        /\ Len(opened[k]) <= Len(sealed[k])
        /\ \A i \in 1..Len(opened[k]) : opened[k][i] = sealed[k][i]

(* The two ends stay in step (record.h:8): whatever was delivered and       *)
(* refused before, open() accepts the record its peer sealed next, when     *)
(* there is one, and no other; also the last before the sequence runs out.  *)
OpensExactlyNext ==
    \A k \in Keys :
        {r.pt : r \in {x \in wire : Opens(k, x)}}
            = {sealed[k][i] : i \in 1..Len(sealed[k]) \cap {Len(opened[k]) + 1}}

(* The inductive invariant: counters count, the record with sequence number *)
(* n carries the payload sealed as number n + 1, and each payload has its   *)
(* record.                                                                  *)
RecordInv ==
    /\ TypeOK
    /\ \A k \in Keys : /\ sseq[k] = Len(sealed[k])
                       /\ rseq[k] = Len(opened[k])
                       /\ sseq[k] <= SeqMax
    /\ \A r \in wire : /\ r.seq < Len(sealed[r.key])
                       /\ r.pt = sealed[r.key][r.seq + 1]
    /\ \A k \in Keys : \A i \in 1..Len(sealed[k]) :
          \E r \in wire : r.key = k /\ r.seq + 1 = i
    /\ DeliveredIsPrefix
=============================================================================
