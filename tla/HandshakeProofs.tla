--------------------------- MODULE HandshakeProofs ---------------------------
(***************************************************************************)
(* Proofs about the handshake for any sets of sessions and any number of    *)
(* changed frames.  What carries the agreement is that a signature under a  *)
(* peer's key is on the network only if a session of that peer put it       *)
(* there, over the frames which that session keeps from then on.            *)
(***************************************************************************)
EXTENDS Handshake, SequenceTheorems, TLAPS

ClientStates == {"start", "wait_sh", "wait_sa", "done", "failed"}
ServerStates == {"wait_ch", "wait_ca", "done", "failed"}

Ciphertexts == [to : Drawn, by : Drawn]
ClientHellos ==
    [type : {"ClientHello"}, random : Drawn, x25519 : Drawn, mlkem : Drawn]
ServerHellos ==
    [type : {"ServerHello"}, random : Drawn, x25519 : Drawn, mlkem : Ciphertexts]

(* What a session sends, keeps and derives, given what it received.         *)
OwnHello(c) == ClientHello(c, c, c)
Answer(s, ch) == ServerHello(s, s, encaps(ch.mlkem, s))
AnswerAuth(s, ch) == ServerAuth(sign("analyzer", <<ch, Answer(s, ch)>>))
ServerFrames(s, ch) == <<ch, Answer(s, ch), AnswerAuth(s, ch)>>

ClientKeys(c, sh) ==
    derive_session_keys(compute_shared(c, sh.x25519), decaps(sh.mlkem, c),
                        c, sh.random, <<OwnHello(c), sh>>)
ServerKeys(s, ch) ==
    derive_session_keys(compute_shared(s, ch.x25519), EncapsSecret(encaps(ch.mlkem, s)),
                        ch.random, s, <<ch, Answer(s, ch)>>)

(* Where a session can be.                                                  *)
Begun(c) == cacc[c] = <<OwnHello(c)>>
Answered(c) ==
    \E sh \in ServerHellos : cacc[c] = <<OwnHello(c), sh>> /\ ckeys[c] = ClientKeys(c, sh)
Finished(c) ==
    \E s \in ServerSessions : /\ sacc[s] = ServerFrames(s, OwnHello(c))
                              /\ cacc[c] = ServerFrames(s, OwnHello(c))
                              /\ ckeys[c] = ClientKeys(c, Answer(s, OwnHello(c)))
Ran(s) ==
    \E ch \in ClientHellos : sacc[s] = ServerFrames(s, ch) /\ skeys[s] = ServerKeys(s, ch)
Confirmed(s) ==
    \E c \in ClientSessions : cst[c] = "done" /\ cacc[c] = sacc[s]

SessionsOK ==
    /\ cst \in [ClientSessions -> ClientStates]
    /\ sst \in [ServerSessions -> ServerStates]
    /\ cacc = [c \in ClientSessions |-> cacc[c]]
    /\ ckeys = [c \in ClientSessions |-> ckeys[c]]
    /\ sacc = [s \in ServerSessions |-> sacc[s]]
    /\ skeys = [s \in ServerSessions |-> skeys[s]]

ClientInv(c) ==
    /\ cst[c] = "start" => cacc[c] = <<>>
    /\ cst[c] = "wait_sh" => Begun(c)
    /\ cst[c] = "wait_sa" => Answered(c)
    /\ cst[c] = "done" => Finished(c)
    /\ cst[c] = "failed" => Begun(c) \/ Answered(c)

ServerInv(s) ==
    /\ sst[s] = "wait_ch" => sacc[s] = <<>>
    /\ sst[s] \in {"wait_ca", "done"} => Ran(s)
    /\ sst[s] = "failed" => sacc[s] = <<>> \/ Ran(s)
    /\ sst[s] = "done" => Confirmed(s)

(* Where a frame on the network comes from.                                 *)
FromServer(f) ==
    \E s \in ServerSessions, ch \in ClientHellos :
        sacc[s] = ServerFrames(s, ch) /\ f = AnswerAuth(s, ch)
FromClient(f) ==
    \E c \in ClientSessions : cst[c] = "done" /\ f = ClientAuth(sign("agent", cacc[c]))

FrameInv(f) ==
    \/ f \in ClientHellos
    \/ f \in ServerHellos
    \/ f \in {ServerAuth(BadSignature), ClientAuth(BadSignature)}
    \/ FromServer(f)
    \/ FromClient(f)

HandshakeInv ==
    /\ SessionsOK
    /\ \A c \in ClientSessions : ClientInv(c)
    /\ \A s \in ServerSessions : ServerInv(s)
    /\ \A f \in net : FrameInv(f)

-----------------------------------------------------------------------------
(* Frames and tuples.                                                       *)

(* The first two of three frames, or of two.                                *)
LEMMA HellosOf ==
  ASSUME NEW a, NEW b, NEW d
  PROVE  Hellos(<<a, b>>) = <<a, b>> /\ Hellos(<<a, b, d>>) = <<a, b>>
PROOF
<1> DEFINE S == {a, b, d}
<1>1. ASSUME NEW t, t[1] = a, t[2] = b
      PROVE  SubSeq(t, 1, 2) = <<a, b>>
  <2>1. \A i \in 1..2 : t[i] \in S
    BY <1>1
  <2>2. /\ SubSeq(t, 1, 2) \in Seq(S)
        /\ Len(SubSeq(t, 1, 2)) = 2
        /\ \A i \in 1..2 : SubSeq(t, 1, 2)[i] = t[i]
    BY <2>1, SubSeqProperties
  <2>3. <<a, b>> \in Seq(S) /\ Len(<<a, b>>) = 2
    OBVIOUS
  <2>4. \A i \in 1..2 : SubSeq(t, 1, 2)[i] = <<a, b>>[i]
    BY <1>1, <2>2
  <2> HIDE DEF S
  <2> QED BY <2>2, <2>3, <2>4, SeqEqual
<1> QED BY <1>1 DEF Hellos

(* A frame whose type is known comes from where such frames come from.      *)
LEMMA FrameOfType ==
  ASSUME NEW f, FrameInv(f)
  PROVE  /\ f.type = "ClientHello" => f \in ClientHellos
         /\ f.type = "ServerHello" => f \in ServerHellos
         /\ f.type = "ServerAuth" => f = ServerAuth(BadSignature) \/ FromServer(f)
         /\ f.type = "ClientAuth" => f = ClientAuth(BadSignature) \/ FromClient(f)
PROOF
<1>1. f \in ClientHellos => f.type = "ClientHello"
  BY DEF ClientHellos
<1>2. f \in ServerHellos => f.type = "ServerHello"
  BY DEF ServerHellos
<1>3. ServerAuth(BadSignature).type = "ServerAuth" /\ ClientAuth(BadSignature).type = "ClientAuth"
  BY DEF ServerAuth, ClientAuth
<1>4. FromServer(f) => f.type = "ServerAuth"
  BY DEF FromServer, AnswerAuth, ServerAuth
<1>5. FromClient(f) => f.type = "ClientAuth"
  BY DEF FromClient, ClientAuth
<1> QED BY <1>1, <1>2, <1>3, <1>4, <1>5 DEF FrameInv

(* Both sides derive the same keys from the same two hellos.                *)
LEMMA SameKeys ==
  ASSUME NEW c, NEW s
  PROVE  ClientKeys(c, Answer(s, OwnHello(c))) = ServerKeys(s, OwnHello(c))
PROOF
<1>1. Answer(s, OwnHello(c)) = ServerHello(s, s, encaps(c, s)) /\ OwnHello(c).mlkem = c
      /\ OwnHello(c).x25519 = c /\ OwnHello(c).random = c
  BY DEF Answer, OwnHello, ClientHello
<1>2. /\ Answer(s, OwnHello(c)).x25519 = s /\ Answer(s, OwnHello(c)).random = s
      /\ Answer(s, OwnHello(c)).mlkem = encaps(c, s)
  BY <1>1 DEF ServerHello
<1>3. compute_shared(c, s) = compute_shared(s, c)
  BY DEF compute_shared
<1>4. decaps(encaps(c, s), c) = EncapsSecret(encaps(c, s))
  BY DEF decaps, EncapsSecret, encaps
<1> QED BY <1>1, <1>2, <1>3, <1>4 DEF ClientKeys, ServerKeys

(* A signature names the key and the message; a bad one is over nothing.    *)
LEMMA Signed ==
  ASSUME NEW k, NEW m
  PROVE  /\ sign(k, m).key = k /\ sign(k, m).msg = m
         /\ BadSignature.msg = <<>>
         /\ ServerAuth(m).signature = m /\ ClientAuth(m).signature = m
BY DEF sign, BadSignature, ServerAuth, ClientAuth

(* Frames are added at the end.                                             *)
LEMMA AppendFrame ==
  ASSUME NEW a, NEW b, NEW d
  PROVE  Append(<<a>>, b) = <<a, b>> /\ Append(<<a, b>>, d) = <<a, b, d>>
PROOF
<1> DEFINE S == {a, b, d}
<1>1. /\ <<a>> \in Seq(S) /\ Len(<<a>>) = 1
      /\ <<a, b>> \in Seq(S) /\ Len(<<a, b>>) = 2
      /\ <<a, b, d>> \in Seq(S) /\ Len(<<a, b, d>>) = 3
  OBVIOUS
<1>2. b \in S /\ d \in S
  OBVIOUS
<1>3. /\ Append(<<a>>, b) \in Seq(S) /\ Len(Append(<<a>>, b)) = 2
      /\ \A i \in 1..2 : Append(<<a>>, b)[i] = <<a, b>>[i]
  BY <1>1, <1>2, AppendProperties
<1>4. /\ Append(<<a, b>>, d) \in Seq(S) /\ Len(Append(<<a, b>>, d)) = 3
      /\ \A i \in 1..3 : Append(<<a, b>>, d)[i] = <<a, b, d>>[i]
  BY <1>1, <1>2, AppendProperties
<1> HIDE DEF S
<1>5. Append(<<a>>, b) = <<a, b>>
  BY <1>1, <1>3, SeqEqual
<1>6. Append(<<a, b>>, d) = <<a, b, d>>
  BY <1>1, <1>4, SeqEqual
<1> QED BY <1>5, <1>6

-----------------------------------------------------------------------------
(* The invariant.                                                           *)

(* Initially nobody has sent anything.                                      *)
LEMMA InitInv == Init => HandshakeInv
PROOF
<1> SUFFICES ASSUME Init PROVE HandshakeInv
  OBVIOUS
<1>1. SessionsOK
  BY DEF Init, SessionsOK, ClientStates, ServerStates
<1>2. \A c \in ClientSessions : ClientInv(c)
  BY DEF Init, ClientInv
<1>3. \A s \in ServerSessions : ServerInv(s)
  BY DEF Init, ServerInv
<1> QED BY <1>1, <1>2, <1>3 DEF Init, HandshakeInv

(* No step takes back what a session has sent or finished.                  *)
Monotone ==
    /\ \A s \in ServerSessions : sacc[s] # <<>> => sacc'[s] = sacc[s]
    /\ \A c \in ClientSessions :
          cst[c] = "done" => cst'[c] = "done" /\ cacc'[c] = cacc[c]

(* So what was said of a frame, a finished client or a confirmed server     *)
(* stays true.                                                              *)
LEMMA Stable ==
  ASSUME Monotone
  PROVE  /\ \A f : FrameInv(f) => FrameInv(f)'
         /\ \A c \in ClientSessions :
               Finished(c) /\ cacc'[c] = cacc[c] /\ ckeys'[c] = ckeys[c] => Finished(c)'
         /\ \A s \in ServerSessions :
               Confirmed(s) /\ sacc'[s] = sacc[s] => Confirmed(s)'
PROOF
<1>1. \A s, ch : ServerFrames(s, ch) # <<>>
  BY DEF ServerFrames
<1>2. \A f : FromServer(f) => FromServer(f)'
  BY <1>1 DEF Monotone, FromServer
<1>3. \A f : FromClient(f) => FromClient(f)'
  BY DEF Monotone, FromClient
<1>4. \A f : FrameInv(f) => FrameInv(f)'
  BY <1>2, <1>3 DEF FrameInv
<1>5. ASSUME NEW c \in ClientSessions, Finished(c), cacc'[c] = cacc[c], ckeys'[c] = ckeys[c]
      PROVE  Finished(c)'
  BY <1>1, <1>5 DEF Monotone, Finished
<1>6. ASSUME NEW s \in ServerSessions, Confirmed(s), sacc'[s] = sacc[s]
      PROVE  Confirmed(s)'
  BY <1>6 DEF Monotone, Confirmed
<1> QED BY <1>4, <1>5, <1>6

(* A client session that a step leaves alone keeps its part.                *)
LEMMA ClientKept ==
  ASSUME Monotone, NEW c \in ClientSessions, ClientInv(c),
         cst'[c] = cst[c], cacc'[c] = cacc[c], ckeys'[c] = ckeys[c]
  PROVE  ClientInv(c)'
PROOF
<1>1. Finished(c) => Finished(c)'
  BY Stable
<1>2. Begun(c)' <=> Begun(c)
  BY DEF Begun
<1>3. Answered(c)' <=> Answered(c)
  BY DEF Answered
<1> QED BY <1>1, <1>2, <1>3 DEF ClientInv

(* The same for a server session.                                           *)
LEMMA ServerKept ==
  ASSUME Monotone, NEW s \in ServerSessions, ServerInv(s),
         sst'[s] = sst[s], sacc'[s] = sacc[s], skeys'[s] = skeys[s]
  PROVE  ServerInv(s)'
PROOF
<1>1. Confirmed(s) => Confirmed(s)'
  BY Stable
<1>2. Ran(s)' <=> Ran(s)
  BY DEF Ran
<1> QED BY <1>1, <1>2 DEF ServerInv

(* 1. ClientHello out.                                                      *)
LEMMA SendClientHelloInv ==
  ASSUME HandshakeInv, NEW c \in ClientSessions, SendClientHello(c)
  PROVE  HandshakeInv'
PROOF
<1> USE DEF HandshakeInv
<1>1. /\ cst[c] = "start" /\ cst' = [cst EXCEPT ![c] = "wait_sh"]
      /\ cacc' = [cacc EXCEPT ![c] = <<OwnHello(c)>>]
      /\ net' = net \cup {OwnHello(c)}
      /\ UNCHANGED <<ckeys, sst, sacc, skeys>>
  BY DEF SendClientHello, OwnHello, serverVars
<1>2. SessionsOK'
  BY <1>1 DEF SessionsOK, ClientStates
<1>3. /\ cst'[c] = "wait_sh" /\ cacc'[c] = <<OwnHello(c)>>
      /\ \A d \in ClientSessions : d # c => cst'[d] = cst[d] /\ cacc'[d] = cacc[d]
  BY <1>1 DEF SessionsOK
<1>4. Monotone
  BY <1>1, <1>3 DEF Monotone
<1>5. ASSUME NEW d \in ClientSessions PROVE ClientInv(d)'
  <2>1. CASE d = c
    BY <1>3, <2>1 DEF ClientInv, Begun
  <2>2. CASE d # c
    BY <1>1, <1>3, <1>4, <2>2, ClientKept
  <2> QED BY <2>1, <2>2
<1>6. ASSUME NEW s \in ServerSessions PROVE ServerInv(s)'
  BY <1>1, <1>4, ServerKept
<1>7. OwnHello(c) \in ClientHellos
  BY DEF OwnHello, ClientHello, ClientHellos, Drawn
<1>8. \A f \in net' : FrameInv(f)'
  BY <1>1, <1>4, <1>7, Stable DEF FrameInv
<1> QED BY <1>2, <1>5, <1>6, <1>8

(* 2. ServerHello in, keys derived.                                         *)
LEMMA RecvServerHelloInv ==
  ASSUME HandshakeInv, NEW c \in ClientSessions, NEW sh \in net, RecvServerHello(c, sh)
  PROVE  HandshakeInv'
PROOF
<1> USE DEF HandshakeInv
<1>1. /\ cst[c] = "wait_sh" /\ cst' = [cst EXCEPT ![c] = "wait_sa"]
      /\ sh.type = "ServerHello"
      /\ cacc' = [cacc EXCEPT ![c] = Append(cacc[c], sh)]
      /\ ckeys' = [ckeys EXCEPT ![c] =
            derive_session_keys(compute_shared(c, sh.x25519), decaps(sh.mlkem, c),
                                c, sh.random, Append(cacc[c], sh))]
      /\ UNCHANGED <<sst, sacc, skeys, net>>
  BY DEF RecvServerHello, serverVars, transcript
<1>2. SessionsOK'
  BY <1>1 DEF SessionsOK, ClientStates
<1>3. sh \in ServerHellos
  BY <1>1, FrameOfType
<1>4. Append(cacc[c], sh) = <<OwnHello(c), sh>>
  <2>1. cacc[c] = <<OwnHello(c)>>
    BY <1>1 DEF ClientInv, Begun
  <2> QED BY <2>1, AppendFrame
<1>5. /\ cst'[c] = "wait_sa" /\ cacc'[c] = <<OwnHello(c), sh>>
      /\ ckeys'[c] = ClientKeys(c, sh)
      /\ \A d \in ClientSessions :
            d # c => cst'[d] = cst[d] /\ cacc'[d] = cacc[d] /\ ckeys'[d] = ckeys[d]
  BY <1>1, <1>4 DEF SessionsOK, ClientKeys
<1>6. Monotone
  BY <1>1, <1>5 DEF Monotone
<1>7. ASSUME NEW d \in ClientSessions PROVE ClientInv(d)'
  <2>1. CASE d = c
    BY <1>3, <1>5, <2>1 DEF ClientInv, Answered
  <2>2. CASE d # c
    BY <1>5, <1>6, <2>2, ClientKept
  <2> QED BY <2>1, <2>2
<1>8. ASSUME NEW s \in ServerSessions PROVE ServerInv(s)'
  BY <1>1, <1>6, ServerKept
<1>9. \A f \in net' : FrameInv(f)'
  BY <1>1, <1>6, Stable
<1> QED BY <1>2, <1>7, <1>8, <1>9

(* 3. ServerAuth in, verified; 4. ClientAuth out: the signature is over the *)
(* two hellos of the client, and a server session made it over its own.     *)
LEMMA RecvServerAuthInv ==
  ASSUME HandshakeInv, NEW c \in ClientSessions, NEW sa \in net, RecvServerAuth(c, sa)
  PROVE  HandshakeInv'
PROOF
<1> USE DEF HandshakeInv
<1>1. /\ cst[c] = "wait_sa" /\ cst' = [cst EXCEPT ![c] = "done"]
      /\ sa.type = "ServerAuth" /\ sa.signature = sign("analyzer", cacc[c])
      /\ cacc' = [cacc EXCEPT ![c] = Append(cacc[c], sa)]
      /\ net' = net \cup {ClientAuth(sign("agent", Append(cacc[c], sa)))}
      /\ UNCHANGED <<ckeys, sst, sacc, skeys>>
  BY DEF RecvServerAuth, serverVars, transcript, verify
<1>2. PICK sh \in ServerHellos : /\ cacc[c] = <<OwnHello(c), sh>>
                                 /\ ckeys[c] = ClientKeys(c, sh)
  BY <1>1 DEF ClientInv, Answered
<1>3. sa # ServerAuth(BadSignature)
  <2>1. cacc[c] # <<>>
    BY <1>2
  <2>2. sa.signature.msg # BadSignature.msg
    BY <1>1, <2>1, Signed
  <2> QED BY <2>2, Signed
<1>4. FromServer(sa)
  BY <1>1, <1>3, FrameOfType
<1>5. PICK s \in ServerSessions, ch \in ClientHellos :
         sacc[s] = ServerFrames(s, ch) /\ sa = AnswerAuth(s, ch)
  BY <1>4 DEF FromServer
<1>6. <<ch, Answer(s, ch)>> = <<OwnHello(c), sh>>
  <2>1. sa.signature.msg = <<OwnHello(c), sh>>
    BY <1>1, <1>2, Signed
  <2>2. sa.signature = sign("analyzer", <<ch, Answer(s, ch)>>)
    BY <1>5, Signed DEF AnswerAuth
  <2>3. sa.signature.msg = <<ch, Answer(s, ch)>>
    BY <2>2, Signed
  <2> QED BY <2>1, <2>3
<1>7. ch = OwnHello(c) /\ sh = Answer(s, OwnHello(c))
  BY <1>6
<1>8. Append(cacc[c], sa) = ServerFrames(s, OwnHello(c))
  <2>1. Append(cacc[c], sa) = <<OwnHello(c), sh, sa>>
    BY <1>2, AppendFrame
  <2> QED BY <1>5, <1>7, <2>1 DEF ServerFrames
<1>9. SessionsOK'
  BY <1>1 DEF SessionsOK, ClientStates
<1>10. /\ cst'[c] = "done" /\ cacc'[c] = ServerFrames(s, OwnHello(c))
       /\ \A d \in ClientSessions : d # c => cst'[d] = cst[d] /\ cacc'[d] = cacc[d]
  BY <1>1, <1>8 DEF SessionsOK
<1>11. Monotone
  BY <1>1, <1>10 DEF Monotone
<1>12. ASSUME NEW d \in ClientSessions PROVE ClientInv(d)'
  <2>1. CASE d = c
    <3>1. Finished(c)'
      BY <1>1, <1>2, <1>5, <1>7, <1>10 DEF Finished
    <3> QED BY <1>10, <2>1, <3>1 DEF ClientInv
  <2>2. CASE d # c
    BY <1>1, <1>10, <1>11, <2>2, ClientKept
  <2> QED BY <2>1, <2>2
<1>13. ASSUME NEW t \in ServerSessions PROVE ServerInv(t)'
  BY <1>1, <1>11, ServerKept
<1>14. \A f : f = ClientAuth(sign("agent", Append(cacc[c], sa))) => FromClient(f)'
  BY <1>8, <1>10 DEF FromClient
<1>15. ASSUME NEW f \in net' PROVE FrameInv(f)'
  <2>1. CASE f \in net
    BY <1>11, <2>1, Stable
  <2>2. CASE f \notin net
    <3>1. FromClient(f)'
      BY <1>1, <1>14, <2>2
    <3> QED BY <3>1 DEF FrameInv
  <2> QED BY <2>1, <2>2
<1> QED BY <1>9, <1>12, <1>13, <1>15

(* A client session that throws keeps its frames.                           *)
LEMMA ClientThrowsInv ==
  ASSUME HandshakeInv, NEW c \in ClientSessions, ClientThrows(c)
  PROVE  HandshakeInv'
PROOF
<1> USE DEF HandshakeInv
<1>1. /\ cst[c] \in {"wait_sh", "wait_sa"} /\ cst' = [cst EXCEPT ![c] = "failed"]
      /\ UNCHANGED <<cacc, ckeys, sst, sacc, skeys, net>>
  BY DEF ClientThrows, serverVars
<1>2. SessionsOK'
  BY <1>1 DEF SessionsOK, ClientStates
<1>3. /\ cst'[c] = "failed"
      /\ \A d \in ClientSessions : d # c => cst'[d] = cst[d]
  BY <1>1 DEF SessionsOK
<1>4. Monotone
  BY <1>1, <1>3 DEF Monotone
<1>5. ASSUME NEW d \in ClientSessions PROVE ClientInv(d)'
  <2>1. CASE d = c
    <3>1. Begun(c) \/ Answered(c)
      BY <1>1 DEF ClientInv
    <3>2. Begun(c)' \/ Answered(c)'
      BY <1>1, <3>1 DEF Begun, Answered
    <3> QED BY <1>3, <2>1, <3>2 DEF ClientInv
  <2>2. CASE d # c
    BY <1>1, <1>3, <1>4, <2>2, ClientKept
  <2> QED BY <2>1, <2>2
<1>6. ASSUME NEW s \in ServerSessions PROVE ServerInv(s)'
  BY <1>1, <1>4, ServerKept
<1>7. \A f \in net' : FrameInv(f)'
  BY <1>1, <1>4, Stable
<1> QED BY <1>2, <1>5, <1>6, <1>7

(* ClientHello in, ServerHello and ServerAuth out: the session signs the    *)
(* frames it keeps.                                                         *)
LEMMA RecvClientHelloInv ==
  ASSUME HandshakeInv, NEW s \in ServerSessions, NEW ch \in net, RecvClientHello(s, ch)
  PROVE  HandshakeInv'
PROOF
<1> USE DEF HandshakeInv
<1>1. /\ sst[s] = "wait_ch" /\ sst' = [sst EXCEPT ![s] = "wait_ca"]
      /\ ch.type = "ClientHello"
      /\ sacc' = [sacc EXCEPT ![s] = ServerFrames(s, ch)]
      /\ skeys' = [skeys EXCEPT ![s] = ServerKeys(s, ch)]
      /\ net' = net \cup {Answer(s, ch), AnswerAuth(s, ch)}
      /\ UNCHANGED <<cst, cacc, ckeys>>
  BY DEF RecvClientHello, clientVars, transcript, ServerFrames, ServerKeys, Answer, AnswerAuth
<1>2. SessionsOK'
  BY <1>1 DEF SessionsOK, ServerStates
<1>3. ch \in ClientHellos /\ Answer(s, ch) \in ServerHellos
  <2>1. ch \in ClientHellos
    BY <1>1, FrameOfType
  <2> QED BY <2>1 DEF Answer, ServerHello, encaps, ClientHellos, ServerHellos,
                      Ciphertexts, Drawn
<1>4. /\ sst'[s] = "wait_ca" /\ sacc'[s] = ServerFrames(s, ch)
      /\ skeys'[s] = ServerKeys(s, ch)
      /\ \A t \in ServerSessions :
            t # s => sst'[t] = sst[t] /\ sacc'[t] = sacc[t] /\ skeys'[t] = skeys[t]
  BY <1>1 DEF SessionsOK
<1>5. Monotone
  BY <1>1, <1>4 DEF Monotone, ServerInv
<1>6. ASSUME NEW c \in ClientSessions PROVE ClientInv(c)'
  BY <1>1, <1>5, ClientKept
<1>7. ASSUME NEW t \in ServerSessions PROVE ServerInv(t)'
  <2>1. CASE t = s
    BY <1>3, <1>4, <2>1 DEF ServerInv, Ran
  <2>2. CASE t # s
    BY <1>4, <1>5, <2>2, ServerKept
  <2> QED BY <2>1, <2>2
<1>8. FromServer(AnswerAuth(s, ch))'
  BY <1>3, <1>4 DEF FromServer
<1>9. ASSUME NEW f \in net' PROVE FrameInv(f)'
  <2>1. CASE f \in net
    BY <1>5, <2>1, Stable
  <2>2. CASE f = Answer(s, ch)
    BY <1>3, <2>2 DEF FrameInv
  <2>3. CASE f = AnswerAuth(s, ch)
    BY <1>8, <2>3 DEF FrameInv
  <2> QED BY <1>1, <2>1, <2>2, <2>3
<1> QED BY <1>2, <1>6, <1>7, <1>9

(* ServerHello out and nothing after it.                                    *)
LEMMA ServerHelloThenThrowsInv ==
  ASSUME HandshakeInv, NEW s \in ServerSessions, NEW ch \in net,
         ServerHelloThenThrows(s, ch)
  PROVE  HandshakeInv'
PROOF
<1> USE DEF HandshakeInv
<1>1. /\ sst[s] = "wait_ch" /\ sst' = [sst EXCEPT ![s] = "failed"]
      /\ ch.type = "ClientHello"
      /\ net' = net \cup {Answer(s, ch)}
      /\ UNCHANGED <<cst, cacc, ckeys, sacc, skeys>>
  BY DEF ServerHelloThenThrows, clientVars, Answer
<1>2. SessionsOK'
  BY <1>1 DEF SessionsOK, ServerStates
<1>3. Answer(s, ch) \in ServerHellos
  <2>1. ch \in ClientHellos
    BY <1>1, FrameOfType
  <2> QED BY <2>1 DEF Answer, ServerHello, encaps, ClientHellos, ServerHellos,
                      Ciphertexts, Drawn
<1>4. sst'[s] = "failed" /\ \A t \in ServerSessions : t # s => sst'[t] = sst[t]
  BY <1>1 DEF SessionsOK
<1>5. Monotone
  BY <1>1 DEF Monotone
<1>6. ASSUME NEW c \in ClientSessions PROVE ClientInv(c)'
  BY <1>1, <1>5, ClientKept
<1>7. ASSUME NEW t \in ServerSessions PROVE ServerInv(t)'
  <2>1. CASE t = s
    BY <1>1, <1>4, <2>1 DEF ServerInv
  <2>2. CASE t # s
    BY <1>1, <1>4, <1>5, <2>2, ServerKept
  <2> QED BY <2>1, <2>2
<1>8. \A f \in net' : FrameInv(f)'
  BY <1>1, <1>3, <1>5, Stable DEF FrameInv
<1> QED BY <1>2, <1>6, <1>7, <1>8

(* ClientAuth in, verified: a client session made it over the frames of     *)
(* this server session.                                                     *)
LEMMA RecvClientAuthInv ==
  ASSUME HandshakeInv, NEW s \in ServerSessions, NEW ca \in net, RecvClientAuth(s, ca)
  PROVE  HandshakeInv'
PROOF
<1> USE DEF HandshakeInv
<1>1. /\ sst[s] = "wait_ca" /\ sst' = [sst EXCEPT ![s] = "done"]
      /\ ca.type = "ClientAuth" /\ ca.signature = sign("agent", sacc[s])
      /\ UNCHANGED <<cst, cacc, ckeys, sacc, skeys, net>>
  BY DEF RecvClientAuth, clientVars, transcript, verify
<1>2. Ran(s)
  BY <1>1 DEF ServerInv
<1>3. ca.signature.msg = sacc[s] /\ sacc[s] # <<>>
  BY <1>1, <1>2, Signed DEF Ran, ServerFrames
<1>4. FromClient(ca)
  <2>1. ca.signature.msg # BadSignature.msg
    BY <1>3, Signed
  <2>2. ca # ClientAuth(BadSignature)
    BY <2>1, Signed
  <2> QED BY <1>1, <2>2, FrameOfType
<1>5. PICK c \in ClientSessions : cst[c] = "done" /\ ca = ClientAuth(sign("agent", cacc[c]))
  BY <1>4 DEF FromClient
<1>6. cacc[c] = sacc[s]
  <2>1. ca.signature = sign("agent", cacc[c])
    BY <1>5, Signed
  <2>2. ca.signature.msg = cacc[c]
    BY <2>1, Signed
  <2> QED BY <1>3, <2>2
<1>7. SessionsOK'
  BY <1>1 DEF SessionsOK, ServerStates
<1>8. sst'[s] = "done" /\ \A t \in ServerSessions : t # s => sst'[t] = sst[t]
  BY <1>1 DEF SessionsOK
<1>9. Monotone
  BY <1>1 DEF Monotone
<1>10. ASSUME NEW d \in ClientSessions PROVE ClientInv(d)'
  BY <1>1, <1>9, ClientKept
<1>11. ASSUME NEW t \in ServerSessions PROVE ServerInv(t)'
  <2>1. CASE t = s
    <3>1. Ran(s)' /\ Confirmed(s)'
      BY <1>1, <1>2, <1>5, <1>6 DEF Ran, Confirmed
    <3> QED BY <1>8, <2>1, <3>1 DEF ServerInv
  <2>2. CASE t # s
    BY <1>1, <1>8, <1>9, <2>2, ServerKept
  <2> QED BY <2>1, <2>2
<1>12. \A f \in net' : FrameInv(f)'
  BY <1>1, <1>9, Stable
<1> QED BY <1>7, <1>10, <1>11, <1>12

(* A server session that throws keeps its frames.                           *)
LEMMA ServerThrowsInv ==
  ASSUME HandshakeInv, NEW s \in ServerSessions, ServerThrows(s)
  PROVE  HandshakeInv'
PROOF
<1> USE DEF HandshakeInv
<1>1. /\ sst[s] \in {"wait_ch", "wait_ca"} /\ sst' = [sst EXCEPT ![s] = "failed"]
      /\ UNCHANGED <<cst, cacc, ckeys, sacc, skeys, net>>
  BY DEF ServerThrows, clientVars
<1>2. SessionsOK'
  BY <1>1 DEF SessionsOK, ServerStates
<1>3. sst'[s] = "failed" /\ \A t \in ServerSessions : t # s => sst'[t] = sst[t]
  BY <1>1 DEF SessionsOK
<1>4. Monotone
  BY <1>1 DEF Monotone
<1>5. ASSUME NEW c \in ClientSessions PROVE ClientInv(c)'
  BY <1>1, <1>4, ClientKept
<1>6. ASSUME NEW t \in ServerSessions PROVE ServerInv(t)'
  <2>1. CASE t = s
    <3>1. sacc[s] = <<>> \/ Ran(s)
      BY <1>1 DEF ServerInv
    <3>2. sacc'[s] = <<>> \/ Ran(s)'
      BY <1>1, <3>1 DEF Ran
    <3> QED BY <1>3, <2>1, <3>2 DEF ServerInv
  <2>2. CASE t # s
    BY <1>1, <1>3, <1>4, <2>2, ServerKept
  <2> QED BY <2>1, <2>2
<1>7. \A f \in net' : FrameInv(f)'
  BY <1>1, <1>4, Stable
<1> QED BY <1>2, <1>5, <1>6, <1>7

(* A changed frame is again a hello, or its signature is bad.               *)
LEMMA ChangedFrames ==
  ASSUME HandshakeInv, NEW f \in net, NEW g \in Changed(f)
  PROVE  FrameInv(g)
PROOF
<1>1. FrameInv(f) /\ \A h \in net : FrameInv(h)
  BY DEF HandshakeInv
<1>2. CASE f \in ClientHellos
  <2>1. f.type = "ClientHello"
    BY <1>2 DEF ClientHellos
  <2>2. PICK d \in {"random", "x25519", "mlkem"}, v \in Drawn : g = [f EXCEPT ![d] = v]
    BY <2>1 DEF Changed
  <2>3. g \in ClientHellos
    <3>1. CASE d = "random"
      BY <1>2, <2>2, <3>1 DEF ClientHellos
    <3>2. CASE d = "x25519"
      BY <1>2, <2>2, <3>2 DEF ClientHellos
    <3>3. CASE d = "mlkem"
      BY <1>2, <2>2, <3>3 DEF ClientHellos
    <3> QED BY <3>1, <3>2, <3>3
  <2> QED BY <2>3 DEF FrameInv
<1>3. CASE f \in ServerHellos
  <2>1. f.type = "ServerHello"
    BY <1>3 DEF ServerHellos
  <2>2. \/ \E d \in {"random", "x25519"}, v \in Drawn : g = [f EXCEPT ![d] = v]
        \/ \E k \in Drawn : g = [f EXCEPT !.mlkem = encaps(k, Foreign)]
        \/ \E h \in net : h.type = "ServerHello" /\ g = [f EXCEPT !.mlkem = h.mlkem]
    BY <2>1 DEF Changed
  <2>3. ASSUME NEW d \in {"random", "x25519"}, NEW v \in Drawn, g = [f EXCEPT ![d] = v]
        PROVE  g \in ServerHellos
    <3>1. CASE d = "random"
      BY <1>3, <2>3, <3>1 DEF ServerHellos
    <3>2. CASE d = "x25519"
      BY <1>3, <2>3, <3>2 DEF ServerHellos
    <3> QED BY <3>1, <3>2
  <2>4. ASSUME NEW k \in Drawn, g = [f EXCEPT !.mlkem = encaps(k, Foreign)]
        PROVE  g \in ServerHellos
    <3>1. encaps(k, Foreign) \in Ciphertexts
      BY DEF encaps, Ciphertexts, Drawn
    <3> QED BY <1>3, <2>4, <3>1 DEF ServerHellos
  <2>5. ASSUME NEW h \in net, h.type = "ServerHello", g = [f EXCEPT !.mlkem = h.mlkem]
        PROVE  g \in ServerHellos
    <3>1. h \in ServerHellos
      BY <1>1, <2>5, FrameOfType
    <3> QED BY <1>3, <2>5, <3>1 DEF ServerHellos
  <2> QED BY <2>2, <2>3, <2>4, <2>5 DEF FrameInv
<1>4. ASSUME NEW m, f = ServerAuth(m) \/ f = ClientAuth(m)
      PROVE  g \in {ServerAuth(BadSignature), ClientAuth(BadSignature)}
  <2>1. f.type # "ClientHello" /\ f.type # "ServerHello"
    BY <1>4 DEF ServerAuth, ClientAuth
  <2>2. g = [f EXCEPT !.signature = BadSignature]
    BY <2>1 DEF Changed
  <2> QED BY <1>4, <2>2 DEF ServerAuth, ClientAuth
<1>5. CASE f \notin ClientHellos \cup ServerHellos
  <2>1. \E m : f = ServerAuth(m) \/ f = ClientAuth(m)
    BY <1>1, <1>5 DEF FrameInv, FromServer, FromClient, AnswerAuth
  <2> QED BY <1>4, <2>1 DEF FrameInv
<1> QED BY <1>2, <1>3, <1>5

(* The network changes a frame.                                             *)
LEMMA AlterInv ==
  ASSUME HandshakeInv, NEW f \in net, Alter(f)
  PROVE  HandshakeInv'
PROOF
<1> USE DEF HandshakeInv
<1>1. PICK g \in Changed(f) : net' = net \cup {g}
  BY DEF Alter
<1>2. UNCHANGED <<cst, cacc, ckeys, sst, sacc, skeys>>
  BY DEF Alter, clientVars, serverVars
<1>3. Monotone
  BY <1>2 DEF Monotone
<1>4. SessionsOK'
  BY <1>2 DEF SessionsOK
<1>5. \A c \in ClientSessions : ClientInv(c)'
  BY <1>2, <1>3, ClientKept
<1>6. \A s \in ServerSessions : ServerInv(s)'
  BY <1>2, <1>3, ServerKept
<1>7. FrameInv(g)
  BY ChangedFrames
<1>8. \A h \in net' : FrameInv(h)'
  BY <1>1, <1>3, <1>7, Stable
<1> QED BY <1>4, <1>5, <1>6, <1>8

(* Every reachable state satisfies the invariant, whatever the network does *)
(* to the frames.                                                           *)
THEOREM HandshakeInvariance == Spec => []HandshakeInv
PROOF
<1>1. HandshakeInv /\ [Next]_vars => HandshakeInv'
  <2> SUFFICES ASSUME HandshakeInv, [Next]_vars PROVE HandshakeInv'
    OBVIOUS
  <2>1. CASE Next
    BY <2>1, SendClientHelloInv, RecvServerHelloInv, RecvServerAuthInv, ClientThrowsInv,
       RecvClientHelloInv, ServerHelloThenThrowsInv, RecvClientAuthInv, ServerThrowsInv,
       AlterInv DEF Next
  <2>2. CASE UNCHANGED vars
    <3>1. UNCHANGED <<cst, cacc, ckeys, sst, sacc, skeys, net>>
      BY <2>2 DEF vars, clientVars, serverVars
    <3>2. Monotone
      BY <3>1 DEF Monotone
    <3>3. SessionsOK'
      BY <3>1 DEF SessionsOK, HandshakeInv
    <3>4. \A c \in ClientSessions : ClientInv(c)'
      BY <3>1, <3>2, ClientKept DEF HandshakeInv
    <3>5. \A s \in ServerSessions : ServerInv(s)'
      BY <3>1, <3>2, ServerKept DEF HandshakeInv
    <3>6. \A f \in net' : FrameInv(f)'
      BY <3>1, <3>2, Stable DEF HandshakeInv
    <3> QED BY <3>3, <3>4, <3>5, <3>6 DEF HandshakeInv
  <2> QED BY <2>1, <2>2
<1> QED BY <1>1, InitInv, PTL DEF Spec

-----------------------------------------------------------------------------
(* What follows from the invariant.                                         *)

(* Keys tell whose they are and from which hellos they come.                *)
LEMMA KeysTell ==
  ASSUME NEW c, NEW sh, NEW s, NEW ch
  PROVE  /\ ClientKeys(c, sh).info = <<OwnHello(c), sh>>
         /\ ClientKeys(c, sh).salt = <<c, sh.random>>
         /\ ServerKeys(s, ch).info = <<ch, Answer(s, ch)>>
         /\ ServerKeys(s, ch).salt = <<ch.random, s>>
BY DEF ClientKeys, ServerKeys, derive_session_keys

(* A server session with three frames has derived its keys from two of them.*)
LEMMA ServerShape ==
  ASSUME HandshakeInv, NEW s \in ServerSessions, Len(sacc[s]) = 3
  PROVE  \E ch \in ClientHellos : /\ Hellos(sacc[s]) = <<ch, Answer(s, ch)>>
                                  /\ skeys[s] = ServerKeys(s, ch)
PROOF
<1>1. sst[s] \in ServerStates /\ ServerInv(s)
  BY DEF HandshakeInv, SessionsOK
<1>2. sacc[s] # <<>>
  OBVIOUS
<1>3. Ran(s)
  BY <1>1, <1>2 DEF ServerInv, ServerStates
<1> QED BY <1>3, HellosOf DEF Ran, ServerFrames

(* A client session with two frames or more has derived its keys from them. *)
LEMMA ClientShape ==
  ASSUME HandshakeInv, NEW c \in ClientSessions, Len(cacc[c]) >= 2
  PROVE  \E sh : /\ Hellos(cacc[c]) = <<OwnHello(c), sh>>
                 /\ ckeys[c] = ClientKeys(c, sh)
PROOF
<1>1. cst[c] \in ClientStates /\ ClientInv(c)
  BY DEF HandshakeInv, SessionsOK
<1>2. cacc[c] # <<>> /\ ~Begun(c)
  <2>1. Len(<<>>) = 0 /\ Len(<<OwnHello(c)>>) = 1
    OBVIOUS
  <2>2. ASSUME NEW n, Len(cacc[c]) = n, n = 0 \/ n = 1 PROVE FALSE
    <3>1. n >= 2
      BY <2>2, Zenon
    <3> QED BY <2>2, <3>1
  <2>3. Len(cacc[c]) # 0 /\ Len(cacc[c]) # 1
    BY <2>2
  <2> QED BY <2>1, <2>3 DEF Begun
<1>3. Answered(c) \/ Finished(c)
  BY <1>1, <1>2 DEF ClientInv, ClientStates
<1>4. CASE Answered(c)
  BY <1>4, HellosOf DEF Answered
<1>5. CASE Finished(c)
  BY <1>5, HellosOf DEF Finished, ServerFrames
<1> QED BY <1>3, <1>4, <1>5

(* A finished client session, its server session and their keys.            *)
LEMMA FinishedClient ==
  ASSUME HandshakeInv, NEW c \in ClientSessions, cst[c] = "done"
  PROVE  \E s \in ServerSessions : /\ sacc[s] = ServerFrames(s, OwnHello(c))
                                   /\ cacc[c] = sacc[s]
                                   /\ skeys[s] = ServerKeys(s, OwnHello(c))
                                   /\ ckeys[c] = skeys[s]
PROOF
<1>1. PICK s \in ServerSessions : /\ sacc[s] = ServerFrames(s, OwnHello(c))
                                  /\ cacc[c] = ServerFrames(s, OwnHello(c))
                                  /\ ckeys[c] = ClientKeys(c, Answer(s, OwnHello(c)))
  BY DEF HandshakeInv, ClientInv, Finished
<1>2. Len(sacc[s]) = 3
  BY <1>1 DEF ServerFrames
<1>3. PICK ch \in ClientHellos : /\ Hellos(sacc[s]) = <<ch, Answer(s, ch)>>
                                 /\ skeys[s] = ServerKeys(s, ch)
  BY <1>2, ServerShape
<1>4. Hellos(sacc[s]) = <<OwnHello(c), Answer(s, OwnHello(c))>>
  BY <1>1, HellosOf DEF ServerFrames
<1>5. ch = OwnHello(c)
  BY <1>3, <1>4
<1> QED BY <1>1, <1>3, <1>5, SameKeys

(* client_handshake returns a channel only if a server session of the       *)
(* pinned analyzer has the same hellos and the same keys.                   *)
THEOREM ClientAgrees == Spec => []ClientAgreement
PROOF
<1>1. HandshakeInv => ClientAgreement
  <2> SUFFICES ASSUME HandshakeInv, NEW c \in ClientSessions, cst[c] = "done"
               PROVE  \E s \in ServerSessions : /\ Len(sacc[s]) = 3
                                                /\ Hellos(sacc[s]) = Hellos(cacc[c])
                                                /\ skeys[s] = ckeys[c]
    BY DEF ClientAgreement
  <2>1. PICK s \in ServerSessions : /\ sacc[s] = ServerFrames(s, OwnHello(c))
                                    /\ cacc[c] = sacc[s]
                                    /\ ckeys[c] = skeys[s]
    BY FinishedClient
  <2>2. Len(sacc[s]) = 3
    BY <2>1 DEF ServerFrames
  <2> QED BY <2>1, <2>2
<1> QED BY <1>1, HandshakeInvariance, PTL

(* server_handshake returns a channel only if a client session of the       *)
(* pinned agent ran to its end with the same frames and the same keys.      *)
THEOREM ServerAgrees == Spec => []ServerAgreement
PROOF
<1>1. HandshakeInv => ServerAgreement
  <2> SUFFICES ASSUME HandshakeInv, NEW t \in ServerSessions, sst[t] = "done"
               PROVE  \E c \in ClientSessions : /\ cst[c] = "done"
                                                /\ cacc[c] = sacc[t]
                                                /\ ckeys[c] = skeys[t]
    BY DEF ServerAgreement
  <2>1. PICK c \in ClientSessions : cst[c] = "done" /\ cacc[c] = sacc[t]
    BY DEF HandshakeInv, ServerInv, Confirmed
  <2>2. PICK s \in ServerSessions : /\ cacc[c] = ServerFrames(s, OwnHello(c))
                                    /\ ckeys[c] = ServerKeys(s, OwnHello(c))
    BY <2>1, FinishedClient
  <2>3. PICK ch \in ClientHellos : /\ sacc[t] = ServerFrames(t, ch)
                                   /\ skeys[t] = ServerKeys(t, ch)
    BY DEF HandshakeInv, ServerInv, Ran
  <2>4. ch = OwnHello(c) /\ Answer(s, OwnHello(c)) = Answer(t, ch)
    <3>1. ServerFrames(t, ch) = ServerFrames(s, OwnHello(c))
      BY <2>1, <2>2, <2>3
    <3>2. ServerFrames(t, ch)[1] = ch /\ ServerFrames(t, ch)[2] = Answer(t, ch)
      BY DEF ServerFrames
    <3>3. /\ ServerFrames(s, OwnHello(c))[1] = OwnHello(c)
          /\ ServerFrames(s, OwnHello(c))[2] = Answer(s, OwnHello(c))
      BY DEF ServerFrames
    <3> QED BY <3>1, <3>2, <3>3
  <2>5. s = t
    BY <2>4 DEF Answer, ServerHello
  <2> QED BY <2>1, <2>2, <2>3, <2>4, <2>5
<1> QED BY <1>1, HandshakeInvariance, PTL

(* No recorded handshake opens a second channel: sessions that ended well   *)
(* are paired one to one, and their keys differ from those of other pairs.  *)
THEOREM PairedOneToOne == Spec => []OneToOne
PROOF
<1>1. HandshakeInv => OneToOne
  <2> SUFFICES ASSUME HandshakeInv PROVE OneToOne
    OBVIOUS
  <2>1. ASSUME NEW s \in ServerSessions, sst[s] = "done"
        PROVE  \E c \in ClientSessions : /\ cst[c] = "done" /\ cacc[c] = sacc[s]
                                         /\ sacc[s] = ServerFrames(s, OwnHello(c))
                                         /\ skeys[s] = ServerKeys(s, OwnHello(c))
    <3>1. PICK c \in ClientSessions : cst[c] = "done" /\ cacc[c] = sacc[s]
      BY <2>1 DEF HandshakeInv, ServerInv, Confirmed
    <3>2. PICK ch \in ClientHellos : /\ sacc[s] = ServerFrames(s, ch)
                                     /\ skeys[s] = ServerKeys(s, ch)
      BY <2>1 DEF HandshakeInv, ServerInv, Ran
    <3>3. PICK t \in ServerSessions : cacc[c] = ServerFrames(t, OwnHello(c))
      BY <3>1, FinishedClient
    <3>4. ch = OwnHello(c)
      BY <3>1, <3>2, <3>3 DEF ServerFrames
    <3> QED BY <3>1, <3>2, <3>4
  <2>2. ASSUME NEW s \in ServerSessions, NEW t \in ServerSessions,
               sst[s] = "done", sst[t] = "done", s # t
        PROVE  sacc[s][1] # sacc[t][1] /\ skeys[s] # skeys[t]
    <3>1. PICK c \in ClientSessions : /\ cst[c] = "done" /\ cacc[c] = sacc[s]
                                      /\ sacc[s] = ServerFrames(s, OwnHello(c))
                                      /\ skeys[s] = ServerKeys(s, OwnHello(c))
      BY <2>1, <2>2
    <3>2. PICK d \in ClientSessions : /\ cst[d] = "done" /\ cacc[d] = sacc[t]
                                      /\ sacc[t] = ServerFrames(t, OwnHello(d))
                                      /\ skeys[t] = ServerKeys(t, OwnHello(d))
      BY <2>1, <2>2
    <3>3. sacc[s] # sacc[t]
      <4>1. sacc[s][2].random = s /\ sacc[t][2].random = t
        BY <3>1, <3>2 DEF ServerFrames, Answer, ServerHello
      <4> QED BY <2>2, <4>1
    <3>4. c # d
      BY <3>1, <3>2, <3>3
    <3>5. OwnHello(c) # OwnHello(d)
      BY <3>4 DEF OwnHello, ClientHello
    <3>6. sacc[s][1] = OwnHello(c) /\ sacc[t][1] = OwnHello(d)
      BY <3>1, <3>2 DEF ServerFrames
    <3>7. skeys[s].salt[2] = s /\ skeys[t].salt[2] = t
      BY <3>1, <3>2, KeysTell
    <3> QED BY <2>2, <3>5, <3>6, <3>7
  <2>3. ASSUME NEW c \in ClientSessions, NEW d \in ClientSessions,
               cst[c] = "done", cst[d] = "done", c # d
        PROVE  cacc[c][2] # cacc[d][2] /\ ckeys[c] # ckeys[d]
    <3>1. PICK s \in ServerSessions : /\ sacc[s] = ServerFrames(s, OwnHello(c))
                                      /\ cacc[c] = sacc[s]
                                      /\ ckeys[c] = ServerKeys(s, OwnHello(c))
      BY <2>3, FinishedClient
    <3>2. PICK t \in ServerSessions : /\ sacc[t] = ServerFrames(t, OwnHello(d))
                                      /\ cacc[d] = sacc[t]
                                      /\ ckeys[d] = ServerKeys(t, OwnHello(d))
      BY <2>3, FinishedClient
    <3>3. OwnHello(c) # OwnHello(d) /\ OwnHello(c).random = c /\ OwnHello(d).random = d
      BY <2>3 DEF OwnHello, ClientHello
    <3>4. s # t
      BY <3>1, <3>2, <3>3 DEF ServerFrames
    <3>5. cacc[c][2].random = s /\ cacc[d][2].random = t
      BY <3>1, <3>2 DEF ServerFrames, Answer, ServerHello
    <3>6. ckeys[c].salt[1] = c /\ ckeys[d].salt[1] = d
      BY <3>1, <3>2, <3>3, KeysTell
    <3> QED BY <2>3, <3>4, <3>5, <3>6
  <2> QED BY <2>2, <2>3 DEF OneToOne
<1> QED BY <1>1, HandshakeInvariance, PTL

(* Keys derived before anything is authenticated agree exactly when no      *)
(* hello was changed on the way.                                            *)
THEOREM KeysTellChanges == Spec => []KeysMatchTranscript
PROOF
<1>1. HandshakeInv => KeysMatchTranscript
  <2> SUFFICES ASSUME HandshakeInv, NEW c \in ClientSessions, NEW s \in ServerSessions,
                      Len(cacc[c]) >= 2, Len(sacc[s]) = 3
               PROVE  ckeys[c] = skeys[s] <=> Hellos(cacc[c]) = Hellos(sacc[s])
    BY DEF KeysMatchTranscript
  <2>1. PICK sh : /\ Hellos(cacc[c]) = <<OwnHello(c), sh>>
                  /\ ckeys[c] = ClientKeys(c, sh)
    BY ClientShape
  <2>2. PICK ch \in ClientHellos : /\ Hellos(sacc[s]) = <<ch, Answer(s, ch)>>
                                   /\ skeys[s] = ServerKeys(s, ch)
    BY ServerShape
  <2>3. ckeys[c] = skeys[s] => Hellos(cacc[c]) = Hellos(sacc[s])
    <3>1. ckeys[c].info = Hellos(cacc[c]) /\ skeys[s].info = Hellos(sacc[s])
      BY <2>1, <2>2, KeysTell
    <3> QED BY <3>1
  <2>4. ASSUME Hellos(cacc[c]) = Hellos(sacc[s]) PROVE ckeys[c] = skeys[s]
    <3>1. ch = OwnHello(c) /\ sh = Answer(s, OwnHello(c))
      BY <2>1, <2>2, <2>4
    <3> QED BY <2>1, <2>2, <3>1, SameKeys
  <2> QED BY <2>3, <2>4
<1> QED BY <1>1, HandshakeInvariance, PTL
=============================================================================
