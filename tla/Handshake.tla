------------------------------ MODULE Handshake ------------------------------
(***************************************************************************)
(* The four-message handshake of crypto/src/handshake.cpp: ClientHello,     *)
(* ServerHello, ServerAuth, ClientAuth.  Sessions of the agent's and of the *)
(* analyzer's side run at the same time over a network that may lose,       *)
(* duplicate, redirect and reorder frames and change their fields.          *)
(*                                                                          *)
(* Primitives are ideal.  What a session draws at random (its random, its   *)
(* X25519 key, its ML-KEM key or encapsulation) is named by the session; a  *)
(* value from elsewhere is Foreign.  A hash is what it hashes.  A signature *)
(* is the key and the message, and one under a peer's key exists only if    *)
(* that peer made it.  ML-KEM rejects implicitly: a ciphertext that is not  *)
(* for this key gives another secret and no error.                          *)
(***************************************************************************)
EXTENDS Integers, Sequences

CONSTANTS
    ClientSessions,  \* calls of client_handshake
    ServerSessions,  \* calls of server_handshake
    Foreign,         \* randomness that no session drew
    MaxAltered       \* bound: frames changed on the way

ASSUME HandshakeAssumption ==
    /\ ClientSessions \cap ServerSessions = {}
    /\ Foreign \notin ClientSessions \cup ServerSessions
    /\ MaxAltered \in Nat

VARIABLES
    cst, cacc, ckeys,  \* per client session: where it is, the frames, the keys
    sst, sacc, skeys,  \* the same per server session
    net,               \* every frame that was ever on the network
    altered            \* how many of them were changed on the way

clientVars == <<cst, cacc, ckeys>>
serverVars == <<sst, sacc, skeys>>
vars == <<clientVars, serverVars, net, altered>>

Drawn == ClientSessions \cup ServerSessions \cup {Foreign}

-----------------------------------------------------------------------------
(* Frames (wire.h) and primitives.                                          *)

ClientHello(r, x, k) == [type |-> "ClientHello", random |-> r, x25519 |-> x, mlkem |-> k]
ServerHello(r, x, ct) == [type |-> "ServerHello", random |-> r, x25519 |-> x, mlkem |-> ct]
ServerAuth(s) == [type |-> "ServerAuth", signature |-> s]
ClientAuth(s) == [type |-> "ClientAuth", signature |-> s]

(* X25519: both sides compute the same secret from the two keys.            *)
compute_shared(mine, peer) == {mine, peer}

(* ML-KEM-768: the ciphertext for a public key, the secret on both sides.   *)
encaps(pub, by) == [to |-> pub, by |-> by]
EncapsSecret(ct) == [ct |-> ct, for |-> ct.to]
decaps(ct, own) == [ct |-> ct, for |-> own]

(* ML-DSA-65.                                                               *)
sign(key, msg) == [key |-> key, msg |-> msg]

(* Variant: who signed is checked and what was signed is not.               *)
verify_AnyMessage(msg, sig, key) == sig.key = key

verify(msg, sig, key) == sig = sign(key, msg)

BadSignature == sign(Foreign, <<>>)

(* Variant: signs the randoms of both sides and not the key shares.         *)
transcript_Randoms(acc) == <<acc[1].random, acc[2].random>>

(* SHA-256 of the frames so far.                                            *)
transcript(acc) == acc

(* Variant: extracts without the salt and expands without the transcript.   *)
derive_session_keys_Bare(classical, pq, cr, sr, th) == [ikm |-> <<classical, pq>>]

(* session.cpp: the keys for both directions are functions of the same      *)
(* inputs, so one value stands for the four of them.                        *)
derive_session_keys(classical, pq, cr, sr, th) ==
    [ikm |-> <<classical, pq>>, salt |-> <<cr, sr>>, info |-> th]

NoKeys == [ikm |-> <<>>]

Init ==
    /\ cst = [c \in ClientSessions |-> "start"]
    /\ cacc = [c \in ClientSessions |-> <<>>]
    /\ ckeys = [c \in ClientSessions |-> NoKeys]
    /\ sst = [s \in ServerSessions |-> "wait_ch"]
    /\ sacc = [s \in ServerSessions |-> <<>>]
    /\ skeys = [s \in ServerSessions |-> NoKeys]
    /\ net = {}
    /\ altered = 0

-----------------------------------------------------------------------------
(* client_handshake                                                         *)

(* 1. ClientHello out.                                                      *)
SendClientHello(c) ==
    /\ cst[c] = "start"
    /\ LET ch == ClientHello(c, c, c) IN
          /\ cacc' = [cacc EXCEPT ![c] = <<ch>>]
          /\ net' = net \cup {ch}
    /\ cst' = [cst EXCEPT ![c] = "wait_sh"]
    /\ UNCHANGED <<ckeys, serverVars, altered>>

(* 2. ServerHello in, keys derived.                                         *)
RecvServerHello(c, sh) ==
    /\ cst[c] = "wait_sh"
    /\ sh.type = "ServerHello"
    /\ LET acc == Append(cacc[c], sh) IN
          /\ cacc' = [cacc EXCEPT ![c] = acc]
          /\ ckeys' = [ckeys EXCEPT ![c] =
                derive_session_keys(compute_shared(c, sh.x25519), decaps(sh.mlkem, c),
                                    c, sh.random, transcript(acc))]
    /\ cst' = [cst EXCEPT ![c] = "wait_sa"]
    /\ UNCHANGED <<serverVars, net, altered>>

(* 3. ServerAuth in, verified; 4. ClientAuth out; the channel is returned.  *)
RecvServerAuth(c, sa) ==
    /\ cst[c] = "wait_sa"
    /\ sa.type = "ServerAuth"
    /\ verify(transcript(cacc[c]), sa.signature, "analyzer")
    /\ LET acc == Append(cacc[c], sa) IN
          /\ cacc' = [cacc EXCEPT ![c] = acc]
          /\ net' = net \cup {ClientAuth(sign("agent", transcript(acc)))}
    /\ cst' = [cst EXCEPT ![c] = "done"]
    /\ UNCHANGED <<ckeys, serverVars, altered>>

(* Anything else throws: another type, version or length, a key agreement   *)
(* that fails, a signature that does not verify, the end of the connection. *)
ClientThrows(c) ==
    /\ cst[c] \in {"wait_sh", "wait_sa"}
    /\ cst' = [cst EXCEPT ![c] = "failed"]
    /\ UNCHANGED <<cacc, ckeys, serverVars, net, altered>>

-----------------------------------------------------------------------------
(* server_handshake                                                         *)

(* 1. ClientHello in; 2. ServerHello out, keys derived; 3. ServerAuth out.  *)
RecvClientHello(s, ch) ==
    /\ sst[s] = "wait_ch"
    /\ ch.type = "ClientHello"
    /\ LET ct == encaps(ch.mlkem, s)
           sh == ServerHello(s, s, ct)
           th == transcript(<<ch, sh>>)
           sa == ServerAuth(sign("analyzer", th))
       IN /\ sacc' = [sacc EXCEPT ![s] = <<ch, sh, sa>>]
          /\ skeys' = [skeys EXCEPT ![s] =
                derive_session_keys(compute_shared(s, ch.x25519), EncapsSecret(ct),
                                    ch.random, s, th)]
          /\ net' = net \cup {sh, sa}
    /\ sst' = [sst EXCEPT ![s] = "wait_ca"]
    /\ UNCHANGED <<clientVars, altered>>

(* The X25519 agreement comes after the ServerHello and may throw.          *)
ServerHelloThenThrows(s, ch) ==
    /\ sst[s] = "wait_ch"
    /\ ch.type = "ClientHello"
    /\ net' = net \cup {ServerHello(s, s, encaps(ch.mlkem, s))}
    /\ sst' = [sst EXCEPT ![s] = "failed"]
    /\ UNCHANGED <<clientVars, sacc, skeys, altered>>

(* Variant: the signature is taken on trust.                                *)
RecvClientAuth_NoVerify(s, ca) ==
    /\ sst[s] = "wait_ca"
    /\ ca.type = "ClientAuth"
    /\ sst' = [sst EXCEPT ![s] = "done"]
    /\ UNCHANGED <<clientVars, sacc, skeys, net, altered>>

(* 4. ClientAuth in, verified; the channel is returned.                     *)
RecvClientAuth(s, ca) ==
    /\ sst[s] = "wait_ca"
    /\ ca.type = "ClientAuth"
    /\ verify(transcript(sacc[s]), ca.signature, "agent")
    /\ sst' = [sst EXCEPT ![s] = "done"]
    /\ UNCHANGED <<clientVars, sacc, skeys, net, altered>>

ServerThrows(s) ==
    /\ sst[s] \in {"wait_ch", "wait_ca"}
    /\ sst' = [sst EXCEPT ![s] = "failed"]
    /\ UNCHANGED <<clientVars, sacc, skeys, net, altered>>

-----------------------------------------------------------------------------
(* The network: one field of a frame is replaced by that of another session *)
(* or by a foreign one.                                                     *)

Changed(f) ==
    CASE f.type = "ClientHello" ->
             {[f EXCEPT ![d] = v] : d \in {"random", "x25519", "mlkem"}, v \in Drawn}
      [] f.type = "ServerHello" ->
             {[f EXCEPT ![d] = v] : d \in {"random", "x25519"}, v \in Drawn}
                \cup {[f EXCEPT !.mlkem = encaps(k, Foreign)] : k \in Drawn}
                \cup {[f EXCEPT !.mlkem = g.mlkem] :
                         g \in {h \in net : h.type = "ServerHello"}}
      [] OTHER -> {[f EXCEPT !.signature = BadSignature]}

Alter(f) ==
    /\ altered < MaxAltered
    /\ \E g \in Changed(f) : net' = net \cup {g} /\ g \notin net
    /\ altered' = altered + 1
    /\ UNCHANGED <<clientVars, serverVars>>

Next ==
    \/ \E c \in ClientSessions :
          \/ SendClientHello(c)
          \/ \E f \in net : RecvServerHello(c, f) \/ RecvServerAuth(c, f)
          \/ ClientThrows(c)
    \/ \E s \in ServerSessions :
          \/ \E f \in net : \/ RecvClientHello(s, f)
                            \/ ServerHelloThenThrows(s, f)
                            \/ RecvClientAuth(s, f)
          \/ ServerThrows(s)
    \/ \E f \in net : Alter(f)

Spec == Init /\ [][Next]_vars

-----------------------------------------------------------------------------
(* Properties.                                                              *)

Hellos(acc) == SubSeq(acc, 1, 2)

(* client_handshake returns a channel only if a server session of the       *)
(* pinned analyzer saw the same two hellos and derived the same keys, an    *)
(* implicitly rejected ciphertext included.                                 *)
ClientAgreement ==
    \A c \in ClientSessions :
        cst[c] = "done" =>
            \E s \in ServerSessions : /\ Len(sacc[s]) = 3
                                      /\ Hellos(sacc[s]) = Hellos(cacc[c])
                                      /\ skeys[s] = ckeys[c]

(* server_handshake returns a channel only if the pinned agent ran to its   *)
(* end with the same three frames and the same keys.                        *)
ServerAgreement ==
    \A s \in ServerSessions :
        sst[s] = "done" =>
            \E c \in ClientSessions : /\ cst[c] = "done"
                                      /\ cacc[c] = sacc[s]
                                      /\ ckeys[c] = skeys[s]

(* A recorded handshake opens no second channel: no two server sessions end *)
(* with the same client session, and no two client sessions with the same   *)
(* server session; their keys differ.                                       *)
OneToOne ==
    /\ \A s, t \in ServerSessions :
          sst[s] = "done" /\ sst[t] = "done" /\ s # t
             => sacc[s][1] # sacc[t][1] /\ skeys[s] # skeys[t]
    /\ \A c, d \in ClientSessions :
          cst[c] = "done" /\ cst[d] = "done" /\ c # d
             => cacc[c][2] # cacc[d][2] /\ ckeys[c] # ckeys[d]

(* Keys derived before anything is authenticated agree exactly when no      *)
(* hello was changed on the way: a changed hello shows as different keys    *)
(* (session.h, docs/HANDBOOK.md:192).                                       *)
KeysMatchTranscript ==
    \A c \in ClientSessions, s \in ServerSessions :
        Len(cacc[c]) >= 2 /\ Len(sacc[s]) = 3 =>
            (ckeys[c] = skeys[s] <=> Hellos(cacc[c]) = Hellos(sacc[s]))
=============================================================================
