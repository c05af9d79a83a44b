--------------------------- MODULE AnalyzerDaemon ----------------------------
(***************************************************************************)
(* The analyzer process (analyzer/src/main.cpp): a loop that accepts one    *)
(* connection at a time, runs the server handshake, receives and processes  *)
(* records until end of file or an exception, closes the connection and     *)
(* goes on, until a signal or --once ends it.  recv and accept block        *)
(* without a timeout, and signal() installs handlers that restart them.     *)
(***************************************************************************)
EXTENDS Integers, Sequences, FiniteSets

CONSTANTS
    Clients,     \* connections that may be made
    Genuine,     \* those made by the configured peer
    MaxRecords,  \* bound: records a client sends
    Backlog      \* connections the kernel keeps before accept()

ASSUME DaemonAssumption ==
    /\ Genuine \subseteq Clients
    /\ "none" \notin Clients
    /\ MaxRecords \in Nat
    /\ Backlog \in Nat \ {0}

VARIABLES
    once,       \* --once
    g_exiting,
    dpc,        \* where main() is
    cfd,        \* the connection in hand, or "none"
    fds,        \* connections whose descriptor is open in the daemon
    queue,      \* connections completed by the kernel, not accepted yet
    client,     \* per client: "idle", "silent", "talks" or "gone"
    unread,     \* per client: what it sent and the daemon has not received
    sent,       \* history, per client: the records it sent
    processed   \* history, per client: events given to process_event

daemonVars == <<dpc, cfd, fds, processed>>
clientVars == <<client, unread, sent>>
vars == <<once, g_exiting, daemonVars, queue, clientVars>>

(* A record holds an event, or a plaintext shorter than one; it may fail to *)
(* open, or be cut short by the end of the connection.                      *)
Records == {"event", "short", "forged", "cut"}

Init ==
    /\ once \in BOOLEAN
    /\ g_exiting = FALSE
    /\ dpc = "loop"
    /\ cfd = "none"
    /\ fds = {}
    /\ queue = <<>>
    /\ client = [c \in Clients |-> "idle"]
    /\ unread = [c \in Clients |-> <<>>]
    /\ sent = [c \in Clients |-> <<>>]
    /\ processed = [c \in Clients |-> 0]

-----------------------------------------------------------------------------
(* Clients.                                                                 *)

Connect(c) ==
    /\ client[c] = "idle"
    /\ Len(queue) < Backlog
    /\ dpc # "exited"
    /\ client' = [client EXCEPT ![c] = "silent"]
    /\ queue' = Append(queue, c)
    /\ UNCHANGED <<once, g_exiting, daemonVars, unread, sent>>

(* The client's part of the handshake, which answers the daemon's: only the *)
(* configured peer can sign, and a frame may be spoilt on the way.          *)
Shake(c) ==
    /\ client[c] = "silent" /\ cfd = c /\ dpc = "handshake"
    /\ client' = [client EXCEPT ![c] = "talks"]
    /\ \E h \in IF c \in Genuine THEN {"hello", "garbage"} ELSE {"garbage"} :
          unread' = [unread EXCEPT ![c] = Append(@, h)]
    /\ UNCHANGED <<once, g_exiting, daemonVars, queue, sent>>

SendRecord(c) ==
    /\ client[c] = "talks"
    /\ Len(sent[c]) < MaxRecords
    /\ \E r \in Records \ {"cut"} :
          /\ unread' = [unread EXCEPT ![c] = Append(@, r)]
          /\ sent' = [sent EXCEPT ![c] = Append(@, r)]
    /\ UNCHANGED <<once, g_exiting, daemonVars, queue, client>>

Disconnect(c) ==
    /\ client[c] \in {"silent", "talks"}
    /\ client' = [client EXCEPT ![c] = "gone"]
    /\ UNCHANGED <<once, g_exiting, daemonVars, queue, unread, sent>>

(* The client dies with a record half sent.                                 *)
DieInRecord(c) ==
    /\ client[c] = "talks"
    /\ Len(sent[c]) < MaxRecords
    /\ client' = [client EXCEPT ![c] = "gone"]
    /\ unread' = [unread EXCEPT ![c] = Append(@, "cut")]
    /\ sent' = [sent EXCEPT ![c] = Append(@, "cut")]
    /\ UNCHANGED <<once, g_exiting, daemonVars, queue>>

(* on_signal.  The handler only sets the flag.                              *)
Signal ==
    /\ ~g_exiting
    /\ g_exiting' = TRUE
    /\ UNCHANGED <<once, daemonVars, queue, clientVars>>

-----------------------------------------------------------------------------
(* The daemon.                                                              *)

(* Variant: the flag is not looked at.                                      *)
LoopTest_NoFlag ==
    /\ dpc = "loop"
    /\ dpc' = "accept"
    /\ UNCHANGED <<once, g_exiting, cfd, fds, processed, queue, clientVars>>

(* while (!g_exiting)                                                       *)
LoopTest ==
    /\ dpc = "loop"
    /\ dpc' = IF g_exiting THEN "exited" ELSE "accept"
    /\ UNCHANGED <<once, g_exiting, cfd, fds, processed, queue, clientVars>>

(* accept() blocks until there is a connection; a signal restarts it.       *)
Accept ==
    /\ dpc = "accept"
    /\ queue # <<>>
    /\ cfd' = Head(queue)
    /\ queue' = Tail(queue)
    /\ fds' = fds \cup {Head(queue)}
    /\ dpc' = "handshake"
    /\ UNCHANGED <<once, g_exiting, processed, clientVars>>

(* accept() has no descriptor or memory to give, whether or not somebody    *)
(* waits: tcp_accept throws and there is no connection to close.            *)
AcceptThrows ==
    /\ dpc = "accept"
    /\ dpc' = IF once THEN "exited" ELSE "loop"
    /\ UNCHANGED <<once, g_exiting, cfd, fds, processed, queue, clientVars>>

(* server_handshake: it ends, or throws on a frame it cannot verify or when *)
(* the client goes away; a client that stays silent keeps it waiting.       *)
HandshakeOk ==
    /\ dpc = "handshake"
    /\ unread[cfd] # <<>> /\ Head(unread[cfd]) = "hello"
    /\ unread' = [unread EXCEPT ![cfd] = Tail(@)]
    /\ dpc' = "serve"
    /\ UNCHANGED <<once, g_exiting, cfd, fds, processed, queue, client, sent>>

HandshakeThrows ==
    /\ dpc = "handshake"
    /\ IF unread[cfd] = <<>> THEN client[cfd] = "gone"
                             ELSE Head(unread[cfd]) # "hello"
    /\ dpc' = "close"
    /\ UNCHANGED <<once, g_exiting, cfd, fds, processed, queue, clientVars>>

Arrived(r) == unread[cfd] # <<>> /\ Head(unread[cfd]) = r

(* recv_record, open, process_event.                                        *)
ReceiveEvent ==
    /\ dpc = "serve"
    /\ Arrived("event")
    /\ unread' = [unread EXCEPT ![cfd] = Tail(@)]
    /\ processed' = [processed EXCEPT ![cfd] = @ + 1]
    /\ UNCHANGED <<once, g_exiting, dpc, cfd, fds, queue, client, sent>>

(* A plaintext shorter than an event is skipped.                            *)
ReceiveShort ==
    /\ dpc = "serve"
    /\ Arrived("short")
    /\ unread' = [unread EXCEPT ![cfd] = Tail(@)]
    /\ UNCHANGED <<once, g_exiting, dpc, cfd, fds, processed, queue, client, sent>>

(* open() throws, or recv_record meets the end inside a record: either      *)
(* leaves serve_connection.                                                 *)
ReceiveThrows ==
    /\ dpc = "serve"
    /\ Arrived("forged") \/ Arrived("cut")
    /\ unread' = [unread EXCEPT ![cfd] = Tail(@)]
    /\ dpc' = "close"
    /\ UNCHANGED <<once, g_exiting, cfd, fds, processed, queue, client, sent>>

(* Variant: takes a departed client for the end of its records.             *)
ReceiveEof_Eager ==
    /\ dpc = "serve"
    /\ client[cfd] = "gone"
    /\ dpc' = "close"
    /\ UNCHANGED <<once, g_exiting, cfd, fds, processed, queue, clientVars>>

(* End of file at a record boundary, after everything the client sent.      *)
ReceiveEof ==
    /\ dpc = "serve"
    /\ unread[cfd] = <<>>
    /\ client[cfd] = "gone"
    /\ dpc' = "close"
    /\ UNCHANGED <<once, g_exiting, cfd, fds, processed, queue, clientVars>>

(* Variant: the descriptor is closed only after a connection that ended in  *)
(* end of file.                                                             *)
CloseConnection_Leaks ==
    /\ dpc = "close"
    /\ cfd' = "none"
    /\ fds' = IF client[cfd] = "gone" THEN fds \ {cfd} ELSE fds
    /\ dpc' = IF once THEN "exited" ELSE "loop"
    /\ UNCHANGED <<once, g_exiting, processed, queue, clientVars>>

(* Variant: reads the rest of the stream before it closes.                  *)
CloseConnection_Drains ==
    /\ dpc = "close"
    /\ unread[cfd] = <<>>
    /\ cfd' = "none"
    /\ fds' = fds \ {cfd}
    /\ dpc' = IF once THEN "exited" ELSE "loop"
    /\ UNCHANGED <<once, g_exiting, processed, queue, clientVars>>

(* After the try block: close_fd, then leave when --once was given.         *)
CloseConnection ==
    /\ dpc = "close"
    /\ cfd' = "none"
    /\ fds' = fds \ {cfd}
    /\ dpc' = IF once THEN "exited" ELSE "loop"
    /\ UNCHANGED <<once, g_exiting, processed, queue, clientVars>>

Daemon ==
    \/ LoopTest
    \/ Accept
    \/ HandshakeOk
    \/ HandshakeThrows
    \/ ReceiveEvent
    \/ ReceiveShort
    \/ ReceiveThrows
    \/ ReceiveEof
    \/ CloseConnection

Next ==
    \/ \E c \in Clients : \/ Connect(c)
                          \/ Shake(c)
                          \/ SendRecord(c)
                          \/ Disconnect(c)
                          \/ DieInRecord(c)
    \/ Signal
    \/ Daemon
    \/ AcceptThrows

Spec == Init /\ [][Next]_vars

(* The daemon's thread is scheduled.  Nothing is assumed of the clients,    *)
(* and nothing makes accept() fail.                                         *)
FairSpec == Spec /\ WF_vars(Daemon)

-----------------------------------------------------------------------------
(* Properties.                                                              *)

(* One connection at a time, and none left open: whether it ended well, in  *)
(* a failed handshake or in a bad record, its descriptor is closed before   *)
(* the next accept (analyzer/src/main.cpp:133).                             *)
NoDescriptorLeaks == fds = IF cfd = "none" THEN {} ELSE {cfd}

Spoilt(r) == r \in {"forged", "cut"}

(* The events among a client's records before the first that does not open. *)
Due(rs) == {i \in 1..Len(rs) : rs[i] = "event" /\ \A j \in 1..(i - 1) : ~Spoilt(rs[j])}

(* Nothing an agent sent before it closed is lost at the analyzer, and      *)
(* nothing after a record that does not open is believed: when a connection *)
(* that got through the handshake is over, exactly the events before the    *)
(* first bad record were processed (serve_connection).  A client that is    *)
(* not the configured peer, or whose part of the handshake was refused, has *)
(* no event processed, though it may have gone on sending                   *)
(* (handshake.cpp:71 returns the channel before the server has verified).   *)
ProcessedAll ==
    \A c \in Clients :
        LET due == Cardinality(Due(sent[c])) IN
        /\ processed[c] <= IF c \in Genuine THEN due ELSE 0
        /\ unread[c] # <<>> /\ Head(unread[c]) = "garbage" => processed[c] = 0
        /\ dpc = "close" /\ cfd = c /\ ~Arrived("garbage") => processed[c] = due

(* A connection that is over, for whatever reason, gives the daemon back:   *)
(* it reaches accept() again or ends.                                       *)
ReturnsToAccept ==
    \A c \in Clients :
        (cfd = c /\ (client[c] = "gone" \/ dpc = "close")) ~> (dpc \in {"accept", "exited"})

(* A signal ends the daemon once the connection in hand is over.            *)
SignalEndsAfterConnection ==
    \A c \in Clients :
        (g_exiting /\ cfd = c /\ client[c] = "gone") ~> dpc = "exited"

(* "listening ... (Ctrl-C ends)" (analyzer/src/main.cpp:123): a signal ends *)
(* the daemon.                                                              *)
CtrlCEndsDaemon == g_exiting ~> dpc = "exited"
=============================================================================
