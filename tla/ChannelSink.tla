----------------------------- MODULE ChannelSink -----------------------------
(***************************************************************************)
(* class ChannelSink of agent/src/main.cpp: the main thread copies events   *)
(* into a bounded queue (handle) and must never block; a sender thread      *)
(* (run) pops, seals and writes them to a TCP socket; events that find the  *)
(* queue full are counted and announced in a drop notice once the queue is  *)
(* back to half its capacity; the destructor stops, drains and joins the    *)
(* sender and closes the socket.                                            *)
(*                                                                         *)
(* Everything done under m_ is one step, everything between two critical    *)
(* sections is a step of its own.  The condition variable is explicit: a    *)
(* parked sender runs again only when notified (or spuriously).  Events are *)
(* numbered in the order the main thread hands them over.  peak_, a printed *)
(* statistic, is left out.                                                  *)
(***************************************************************************)
EXTENDS Integers, Sequences, FiniteSets

CONSTANTS
    Capacities,  \* the --queue values considered
    MaxEvents,   \* bound: events the main thread hands over
    SockBuf      \* records the two kernel socket buffers hold unread

(* parse_args refuses --queue 0 (agent/src/main.cpp:396).                   *)
ASSUME ChannelAssumption ==
    /\ Capacities \subseteq Nat \ {0}
    /\ MaxEvents \in Nat
    /\ SockBuf \in Nat \ {0}

VARIABLES
    capacity,         \* capacity_: never changes
    q,                \* q_
    stop,             \* stop_
    broken,           \* broken_
    dropped,          \* dropped_
    dropped_pending,  \* dropped_pending_
    sent,             \* sent_
    g_exiting,        \* the global that ends the agent's poll loop
    pc,               \* the sender thread: where it is in run()
    ev,               \* run()'s local: the event in hand (0: none)
    report,           \* run()'s local report
    report_total,     \* run()'s local report_total
    main,             \* the main thread: running, then the destructor's steps
    offered,          \* history: calls of handle()
    ignored,          \* history: calls of handle() that found broken_ set
    handed,           \* history: event records written
    stream,           \* every record written to the socket, in order
    rd,               \* how many of them the analyzer has read
    conn              \* "up", or "down" once the connection is lost

lockVars == <<q, stop, broken, dropped, dropped_pending>>
senderVars == <<sent, pc, ev, report, report_total>>
histVars == <<offered, ignored, handed>>
netVars == <<stream, rd, conn>>
vars == <<capacity, lockVars, g_exiting, senderVars, main, histVars, netVars>>

EventRecord(e) == [type |-> "event", id |-> e]

(* Variant: counts the notice itself as already sent.                       *)
make_drop_notice_CountsItself(n, total) ==
    [type |-> "drop", dropped |-> n, dropped_total |-> total, sent_total |-> sent + 1]

(* make_drop_notice                                                         *)
make_drop_notice(n, total) ==
    [type |-> "drop", dropped |-> n, dropped_total |-> total, sent_total |-> sent]

Init ==
    /\ capacity \in Capacities
    /\ q = <<>>
    /\ stop = FALSE
    /\ broken = FALSE
    /\ dropped = 0
    /\ dropped_pending = 0
    /\ sent = 0
    /\ g_exiting = FALSE
    /\ pc = "check"
    /\ ev = 0
    /\ report = 0
    /\ report_total = 0
    /\ main = "running"
    /\ offered = 0
    /\ ignored = 0
    /\ handed = 0
    /\ stream = <<>>
    /\ rd = 0
    /\ conn = "up"

-----------------------------------------------------------------------------
(* The main thread.                                                         *)

(* handle(): one critical section with three outcomes.                      *)
HandleBroken ==
    /\ broken
    /\ ignored' = ignored + 1
    /\ UNCHANGED <<lockVars, pc>>

(* Variant: forgets dropped_pending_.                                       *)
HandleDrop_NotPending ==
    /\ ~broken
    /\ Len(q) >= capacity
    /\ dropped' = dropped + 1
    /\ UNCHANGED <<q, stop, broken, pc, ignored, dropped_pending>>

(* Variant: drops without counting.                                         *)
HandleDrop_Uncounted ==
    /\ ~broken
    /\ Len(q) >= capacity
    /\ UNCHANGED <<lockVars, pc, ignored>>

HandleDrop ==
    /\ ~broken
    /\ Len(q) >= capacity
    /\ dropped' = dropped + 1
    /\ dropped_pending' = dropped_pending + 1
    /\ UNCHANGED <<q, stop, broken, pc, ignored>>

(* Variant: pushes without notify_one.                                      *)
HandlePush_NoNotify(e) ==
    /\ ~broken
    /\ Len(q) < capacity
    /\ q' = Append(q, e)
    /\ UNCHANGED <<stop, broken, dropped, dropped_pending, ignored, pc>>

HandlePush(e) ==
    /\ ~broken
    /\ Len(q) < capacity
    /\ q' = Append(q, e)
    /\ pc' = IF pc = "parked" THEN "check" ELSE pc      \* cv_.notify_one()
    /\ UNCHANGED <<stop, broken, dropped, dropped_pending, ignored>>

Handle(e) ==
    /\ main = "running"
    /\ HandleBroken \/ HandleDrop \/ HandlePush(e)
    /\ offered' = offered + 1
    /\ UNCHANGED <<capacity, g_exiting, sent, ev, report, report_total, main,
                   handed, netVars>>

(* ~ChannelSink(): stop_ under the lock, notify_all after it, join, close.  *)
SetStop ==
    /\ main = "running"
    /\ main' = "stopping"
    /\ stop' = TRUE
    /\ UNCHANGED <<capacity, q, broken, dropped, dropped_pending, g_exiting,
                   senderVars, histVars, netVars>>

(* Variant: joins without notify_all.                                       *)
NotifyAll_Silent ==
    /\ main = "stopping"
    /\ main' = "joining"
    /\ UNCHANGED <<capacity, lockVars, g_exiting, senderVars, histVars, netVars>>

NotifyAll ==
    /\ main = "stopping"
    /\ main' = "joining"
    /\ pc' = IF pc = "parked" THEN "check" ELSE pc
    /\ UNCHANGED <<capacity, lockVars, g_exiting, sent, ev, report, report_total,
                   histVars, netVars>>

JoinAndClose ==
    /\ main = "joining"
    /\ pc = "done"
    /\ main' = "closed"
    /\ UNCHANGED <<capacity, lockVars, g_exiting, senderVars, histVars, netVars>>

(* on_signal, on whatever thread the kernel picks.                          *)
Signal ==
    /\ ~g_exiting
    /\ g_exiting' = TRUE
    /\ UNCHANGED <<capacity, lockVars, senderVars, main, histVars, netVars>>

-----------------------------------------------------------------------------
(* The sender thread, run().                                                *)

(* cv_.wait(): the predicate is false, the lock is released while parking.  *)
Park ==
    /\ pc = "check"
    /\ ~stop /\ q = <<>>
    /\ pc' = "parked"
    /\ UNCHANGED <<capacity, lockVars, g_exiting, sent, ev, report, report_total,
                   main, histVars, netVars>>

SpuriousWakeup ==
    /\ pc = "parked"
    /\ pc' = "check"
    /\ UNCHANGED <<capacity, lockVars, g_exiting, sent, ev, report, report_total,
                   main, histVars, netVars>>

(* Variant: reports only below half.                                        *)
ReportDue_BelowHalf(rest) == dropped_pending > 0 /\ Len(rest) < capacity \div 2

(* The congestion is over: drops are pending and the queue that is left is  *)
(* at most half full.                                                       *)
ReportDue(rest) == dropped_pending > 0 /\ Len(rest) <= capacity \div 2

(* Variant: takes the report and leaves dropped_pending_ as it was.         *)
Take_NoReset ==
    /\ pc = "check"
    /\ q # <<>>
    /\ ev' = Head(q)
    /\ q' = Tail(q)
    /\ report' = IF ReportDue(Tail(q)) THEN dropped_pending ELSE 0
    /\ report_total' = IF ReportDue(Tail(q)) THEN dropped ELSE 0
    /\ pc' = "send_ev"
    /\ UNCHANGED <<capacity, stop, broken, dropped, dropped_pending, g_exiting, sent,
                   main, histVars, netVars>>

(* Variant: pops the newest event.                                          *)
Take_Newest ==
    /\ pc = "check"
    /\ q # <<>>
    /\ ev' = q[Len(q)]
    /\ q' = SubSeq(q, 1, Len(q) - 1)
    /\ report' = IF ReportDue(Tail(q)) THEN dropped_pending ELSE 0
    /\ report_total' = IF ReportDue(Tail(q)) THEN dropped ELSE 0
    /\ dropped_pending' = IF ReportDue(Tail(q)) THEN 0 ELSE dropped_pending
    /\ pc' = "send_ev"
    /\ UNCHANGED <<capacity, stop, broken, dropped, g_exiting, sent, main,
                   histVars, netVars>>

(* The critical section of run(): pop one event and, when due, take the     *)
(* pending drops along to be announced after it.                            *)
Take ==
    /\ pc = "check"
    /\ q # <<>>
    /\ ev' = Head(q)
    /\ q' = Tail(q)
    /\ IF ReportDue(Tail(q))
         THEN /\ report' = dropped_pending
              /\ report_total' = dropped
              /\ dropped_pending' = 0
         ELSE /\ report' = 0
              /\ report_total' = 0
              /\ UNCHANGED dropped_pending
    /\ pc' = "send_ev"
    /\ UNCHANGED <<capacity, stop, broken, dropped, g_exiting, sent, main,
                   histVars, netVars>>

(* Woken with an empty queue: stop_ is set and everything is drained.       *)
Return ==
    /\ pc = "check"
    /\ stop /\ q = <<>>
    /\ pc' = "done"
    /\ UNCHANGED <<capacity, lockVars, g_exiting, sent, ev, report, report_total,
                   main, histVars, netVars>>

(* send_one() blocks while the socket buffers are full.                     *)
CanWrite == Len(stream) - rd < SockBuf

(* Variant: goes back to the queue without sending the report.              *)
SendEvent_SkipsNotice ==
    /\ pc = "send_ev"
    /\ CanWrite
    /\ stream' = Append(stream, EventRecord(ev))
    /\ sent' = sent + 1
    /\ handed' = handed + 1
    /\ ev' = 0
    /\ pc' = "check"
    /\ UNCHANGED <<capacity, lockVars, g_exiting, report, report_total, main,
                   offered, ignored, rd, conn>>

SendEvent ==
    /\ pc = "send_ev"
    /\ CanWrite
    /\ stream' = Append(stream, EventRecord(ev))
    /\ sent' = sent + 1
    /\ handed' = handed + 1
    /\ ev' = 0
    /\ pc' = IF report > 0 THEN "send_notice" ELSE "check"
    /\ UNCHANGED <<capacity, lockVars, g_exiting, report, report_total, main,
                   offered, ignored, rd, conn>>

SendNotice ==
    /\ pc = "send_notice"
    /\ CanWrite
    /\ stream' = Append(stream, make_drop_notice(report, report_total))
    /\ sent' = sent + 1
    /\ report' = 0
    /\ report_total' = 0
    /\ pc' = "check"
    /\ UNCHANGED <<capacity, lockVars, g_exiting, ev, main, histVars, rd, conn>>

(* Variant: leaves g_exiting alone.                                         *)
SendFail_KeepsRunning ==
    /\ pc \in {"send_ev", "send_notice"}
    /\ conn = "down"
    /\ broken' = TRUE
    /\ pc' = "done"
    /\ UNCHANGED <<capacity, q, stop, dropped, dropped_pending, g_exiting, sent, ev,
                   report, report_total, main, histVars, netVars>>

(* send() fails: the catch block of send_one() and the return of run().  A  *)
(* seal() that throws ends there too; for the agent that is a peer that     *)
(* died just before.                                                        *)
SendFail ==
    /\ pc \in {"send_ev", "send_notice"}
    /\ conn = "down"
    /\ broken' = TRUE
    /\ g_exiting' = TRUE
    /\ pc' = "done"
    /\ UNCHANGED <<capacity, q, stop, dropped, dropped_pending, sent, ev, report,
                   report_total, main, histVars, netVars>>

-----------------------------------------------------------------------------
(* The analyzer's end of the connection.                                    *)

PeerRecv ==
    /\ conn = "up"
    /\ rd < Len(stream)
    /\ rd' = rd + 1
    /\ UNCHANGED <<capacity, lockVars, g_exiting, senderVars, main, histVars,
                   stream, conn>>

(* The analyzer dies or the connection is reset.  Writes may still succeed  *)
(* while the buffer has room.                                               *)
PeerDie ==
    /\ conn = "up"
    /\ conn' = "down"
    /\ UNCHANGED <<capacity, lockVars, g_exiting, senderVars, main, histVars,
                   stream, rd>>

-----------------------------------------------------------------------------
Sender == Park \/ Take \/ Return \/ SendEvent \/ SendNotice \/ SendFail

Destructor == SetStop \/ NotifyAll \/ JoinAndClose

(* The run is over: the socket is closed and nothing more can be read.      *)
Terminated ==
    /\ main = "closed"
    /\ conn = "down" \/ rd = Len(stream)
    /\ UNCHANGED vars

Next ==
    \/ offered < MaxEvents /\ Handle(offered + 1)
    \/ Destructor
    \/ Sender
    \/ SpuriousWakeup
    \/ Signal
    \/ PeerRecv
    \/ PeerDie
    \/ Terminated

Spec == Init /\ [][Next]_vars

(* The sender thread is scheduled, the destructor does not stop half way,   *)
(* and an analyzer that is up keeps reading (serve_connection is a receive  *)
(* loop).  Nothing forces the main thread to go on or to stop.              *)
Fairness ==
    /\ WF_vars(Sender)
    /\ WF_vars(NotifyAll)
    /\ WF_vars(JoinAndClose)
    /\ WF_vars(PeerRecv)

FairSpec == Spec /\ Fairness

-----------------------------------------------------------------------------
(* Properties.                                                              *)

Record ==
    [type : {"event"}, id : Nat]
      \cup [type : {"drop"}, dropped : Nat, dropped_total : Nat, sent_total : Nat]

(* Types of the members of ChannelSink, of run()'s locals and of the socket. *)
TypeOK ==
    /\ capacity \in Nat \ {0}
    /\ q \in Seq(Nat)
    /\ stop \in BOOLEAN
    /\ broken \in BOOLEAN
    /\ dropped \in Nat
    /\ dropped_pending \in Nat
    /\ sent \in Nat
    /\ g_exiting \in BOOLEAN
    /\ pc \in {"check", "parked", "send_ev", "send_notice", "done"}
    /\ ev \in Nat
    /\ report \in Nat
    /\ report_total \in Nat
    /\ main \in {"running", "stopping", "joining", "closed"}
    /\ offered \in Nat
    /\ ignored \in Nat
    /\ handed \in Nat
    /\ stream \in Seq(Record)
    /\ rd \in Nat
    /\ conn \in {"up", "down"}

(* run() never sleeps through work: it is parked in cv_.wait() only while   *)
(* the queue is empty, and with stop_ set only until the destructor, which  *)
(* sets stop_ under the lock, reaches its notify_all.                       *)
WakeupNotLost ==
    pc = "parked" => q = <<>> /\ (stop => main = "stopping")

(* Why draining the queue is enough to announce every drop (run() has no    *)
(* final report after its loop): while drops are pending, more than half of *)
(* the queue is still to be popped, so the pop that crosses half is yet to  *)
(* come.                                                                    *)
PendingImpliesBacklog ==
    dropped_pending > 0 => Len(q) > capacity \div 2

(* "Loss is not passed silently" (agent/src/main.cpp:131): when run()       *)
(* returns without a send failure, every accepted event has been written,   *)
(* no drop is unannounced, and the history adds up.                         *)
CleanEndOwesNothing ==
    pc = "done" /\ ~broken =>
        /\ q = <<>>
        /\ dropped_pending = 0
        /\ report = 0
        /\ offered = handed + dropped

(* What an analyzer can work out from records alone: how many of them are   *)
(* events, and the sum of what the notices among them announce.             *)
EventsIn(s) == Cardinality({i \in 1..Len(s) : s[i].type = "event"})

Announces(r) == IF r.type = "drop" THEN r.dropped ELSE 0
AnnouncedIn(s) ==
    LET sum[n \in 0..Len(s)] == IF n = 0 THEN 0 ELSE sum[n - 1] + Announces(s[n])
    IN  sum[Len(s)]

(* What the analyzer can rely on after a clean end of file: the events it   *)
(* read plus the numbers in the drop notices it read are all the events the *)
(* agent's main thread collected.                                           *)
StreamTellsAll ==
    main = "closed" /\ ~broken => EventsIn(stream) + AnnouncedIn(stream) = offered

(* Every drop notice is right when it is read (common/event.h:70-74): its   *)
(* dropped_total is the sum of the notices so far, its sent_total the       *)
(* number of records ahead of it, and never announces more than was lost.   *)
NoticesAreTrue ==
    \A i \in 1..Len(stream) :
        stream[i].type = "drop" =>
            /\ stream[i].sent_total = i - 1
            /\ stream[i].dropped > 0
            /\ stream[i].dropped_total = AnnouncedIn(SubSeq(stream, 1, i))
            /\ stream[i].dropped_total <= dropped

(* The inductive invariant behind the properties above, part by part.       *)

(* The destructor's progress, and what a finished sender leaves behind.     *)
Lifecycle ==
    /\ stop <=> main # "running"
    /\ broken => pc = "done"
    /\ pc = "done" => broken \/ (stop /\ q = <<>>)
    /\ ~broken => ignored = 0

(* A report is in hand only until its notice is written, and its total is   *)
(* the drops counted when it was taken.                                     *)
ReportInHand ==
    /\ pc = "send_notice" => report > 0
    /\ report > 0 /\ ~broken => pc \in {"send_ev", "send_notice"}
    /\ report > 0 => report_total = dropped - dropped_pending
    /\ dropped_pending + report <= dropped

(* Where the events handed over are, while the connection holds.            *)
InHand == IF pc = "send_ev" THEN 1 ELSE 0

Accounts ==
    /\ sent = Len(stream)
    /\ offered <= MaxEvents
    /\ ~broken => offered = handed + InHand + Len(q) + dropped

(* Everything the proofs need to know about a reachable state of the sink:  *)
(* the parts above hold together, and each action keeps them.               *)
IInv ==
    /\ TypeOK
    /\ WakeupNotLost
    /\ PendingImpliesBacklog
    /\ Lifecycle
    /\ ReportInHand
    /\ Accounts

(* The abstract channel: an event popped and not yet written is still       *)
(* backlog, a report taken and not yet written is still owed.               *)
Backlog == IF broken THEN <<>> ELSE IF pc = "send_ev" THEN <<ev>> \o q ELSE q
Missed == IF broken THEN 0 ELSE dropped_pending + report
Announced == dropped - dropped_pending - report
Status == IF broken THEN "failed" ELSE IF pc = "done" THEN "ended" ELSE "open"

LF == INSTANCE LossyFifo
        WITH Events <- 1..MaxEvents, backlog <- Backlog, missed <- Missed,
             announced <- Announced, out <- stream, status <- Status

(* ChannelSink implements the lossy FIFO: order is kept, each notice counts *)
(* exactly the drops since the notice before it, carries the right running  *)
(* totals, and the sender ends in good order only when nothing is owed.     *)
ImplementsLossyFifo == LF!Spec

(* ~ChannelSink() returns: a destructor that has begun always gets the      *)
(* sender joined and the socket closed.                                     *)
DestructorReturns == main = "stopping" ~> main = "closed"

Written(e) == \E i \in 1..Len(stream) : stream[i] = EventRecord(e)

(* Every event accepted into q_ is written to the socket, unless the        *)
(* connection breaks: no lost wakeup, no event stuck behind a notice.       *)
AcceptedIsSent ==
    \A e \in 1..MaxEvents :
        (\E i \in 1..Len(q) : q[i] = e) ~> (Written(e) \/ broken)
=============================================================================
