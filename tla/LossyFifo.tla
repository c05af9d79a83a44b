------------------------------ MODULE LossyFifo ------------------------------
(***************************************************************************)
(* What the agent's forwarding sink promises the analyzer, without threads, *)
(* locks, capacity or sockets (the comment above ChannelSink in             *)
(* agent/src/main.cpp): events leave in the order they were accepted, an    *)
(* event that is not accepted is owed to the analyzer as a number, a number *)
(* that is announced is never more than what is owed, and the channel ends  *)
(* in good order only when nothing is owed any more.                        *)
(***************************************************************************)
EXTENDS Naturals, Sequences

CONSTANT Events   \* the events that may be offered

VARIABLES
    backlog,   \* accepted events not yet written, oldest first
    missed,    \* events refused and not yet announced
    announced, \* events refused and announced
    out,       \* records written so far: [type |-> "event", ...] or a notice
    status     \* "open", "ended" (drained) or "failed" (connection lost)

vars == <<backlog, missed, announced, out, status>>

Init ==
    /\ backlog = <<>>
    /\ missed = 0
    /\ announced = 0
    /\ out = <<>>
    /\ status = "open"

Accept(e) ==
    /\ status = "open"
    /\ backlog' = Append(backlog, e)
    /\ UNCHANGED <<missed, announced, out, status>>

Miss ==
    /\ status = "open"
    /\ missed' = missed + 1
    /\ UNCHANGED <<backlog, announced, out, status>>

Deliver ==
    /\ status = "open"
    /\ backlog # <<>>
    /\ out' = Append(out, [type |-> "event", id |-> Head(backlog)])
    /\ backlog' = Tail(backlog)
    /\ UNCHANGED <<missed, announced, status>>

(* A notice names how many events were lost since the one before it, how    *)
(* many in all, and how many records went out ahead of it.                  *)
Announce ==
    /\ status = "open"
    /\ \E n \in 1..missed :
          /\ out' = Append(out, [type |-> "drop", dropped |-> n,
                                 dropped_total |-> announced + n,
                                 sent_total |-> Len(out)])
          /\ missed' = missed - n
          /\ announced' = announced + n
    /\ UNCHANGED <<backlog, status>>

End ==
    /\ status = "open"
    /\ backlog = <<>>
    /\ missed = 0
    /\ status' = "ended"
    /\ UNCHANGED <<backlog, missed, announced, out>>

(* The connection fails: what was accepted and not written is gone.          *)
Fail ==
    /\ status = "open"
    /\ status' = "failed"
    /\ backlog' = <<>>
    /\ missed' = 0
    /\ UNCHANGED <<announced, out>>

Next ==
    \/ \E e \in Events : Accept(e)
    \/ Miss
    \/ Deliver
    \/ Announce
    \/ End
    \/ Fail

Spec == Init /\ [][Next]_vars
=============================================================================
