------------------------------ MODULE AgentMain ------------------------------
(***************************************************************************)
(* The agent process around its forwarding sink: the BPF programs that      *)
(* reserve and submit records in the kernel ring buffer on several CPUs     *)
(* (agent/bpf/collector.bpf.c), main()'s poll loop, final drain and return, *)
(* the replay and synthetic sources, and the signal handler                 *)
(* (agent/src/main.cpp).  The ring is a sequence of slots: a slot holds the *)
(* CPU that reserved it until that CPU submits it.                          *)
(***************************************************************************)
EXTENDS ChannelSink

CONSTANTS
    CPUs,       \* CPUs that run the BPF programs
    RingSize,   \* records the kernel ring buffer holds
    Modes       \* the modes considered: "ebpf", "replay" (or synthetic)

ASSUME AgentAssumption ==
    /\ RingSize \in Nat \ {0}
    /\ Modes \subseteq {"ebpf", "replay"}
    /\ "ready" \notin CPUs

VARIABLES
    mode,      \* chosen by the command line
    apc,       \* where main() is
    ring,      \* slots of the kernel ring buffer, oldest first
    produced,  \* history: events the hooks saw, or the source file holds
    klost,     \* history: events the kernel side lost, seen by nobody
    mark       \* history: offered plus some ready records when the loop ended

agentVars == <<mode, apc, ring, produced, klost, mark>>
allVars == <<vars, agentVars>>

AgentInit ==
    /\ Init
    /\ mode \in Modes
    /\ apc = IF mode = "ebpf" THEN "load" ELSE "replay"
    /\ ring = <<>>
    /\ produced = 0
    /\ klost = 0
    /\ mark = 0

-----------------------------------------------------------------------------
(* The kernel side.                                                         *)

Attached == apc \in {"attached", "loop", "poll", "drain", "drained"}
Busy(c) == \E i \in 1..Len(ring) : ring[i] = c

(* bpf_ringbuf_reserve in handle_execve, handle_tcp_connect and             *)
(* handle_file_open: a full ring loses the event without a trace.           *)
Reserve(c) ==
    /\ Attached
    /\ ~Busy(c)
    /\ produced < MaxEvents
    /\ produced' = produced + 1
    /\ IF Len(ring) < RingSize
         THEN ring' = Append(ring, c) /\ UNCHANGED klost
         ELSE klost' = klost + 1 /\ UNCHANGED ring
    /\ UNCHANGED <<vars, mode, apc, mark>>

(* fill_common and bpf_ringbuf_submit, on the CPU that reserved.            *)
Submit(c) ==
    /\ Busy(c)
    /\ ring' = [i \in 1..Len(ring) |-> IF ring[i] = c THEN "ready" ELSE ring[i]]
    /\ UNCHANGED <<vars, mode, apc, produced, klost, mark>>

-----------------------------------------------------------------------------
(* main(), eBPF path.                                                       *)

LoadFail ==
    /\ apc = "load"
    /\ apc' = "exit"
    /\ UNCHANGED <<vars, mode, ring, produced, klost, mark>>

(* collector_bpf__attach: from the first hook on, events come in.           *)
Attach ==
    /\ apc = "load"
    /\ apc' = "attached"
    /\ UNCHANGED <<vars, mode, ring, produced, klost, mark>>

(* All hooks are attached and ring_buffer__new has succeeded.               *)
NewRing ==
    /\ apc = "attached"
    /\ apc' = "loop"
    /\ UNCHANGED <<vars, mode, ring, produced, klost, mark>>

(* while (!g_exiting) ring_buffer__poll(rb, 100)                            *)
Poll ==
    /\ apc = "loop"
    /\ ~g_exiting
    /\ apc' = "poll"
    /\ UNCHANGED <<vars, mode, ring, produced, klost, mark>>

HeadReady == ring # <<>> /\ Head(ring) = "ready"

(* Variant: skips the record without handing it over.                       *)
Consume_Skips ==
    /\ apc \in {"poll", "drain"}
    /\ HeadReady
    /\ ring' = Tail(ring)
    /\ UNCHANGED <<vars, mode, apc, produced, klost, mark>>

(* on_event -> sink->handle for the oldest submitted record, while the      *)
(* library consumes the ring: in a poll, or in the final                    *)
(* ring_buffer__consume.                                                    *)
Consume ==
    /\ apc \in {"poll", "drain"}
    /\ HeadReady
    /\ ring' = Tail(ring)
    /\ Handle(offered + 1)
    /\ UNCHANGED <<mode, apc, produced, klost, mark>>

(* The library returns when the ring is empty or its oldest record is not   *)
(* submitted yet.                                                           *)
PollReturn ==
    /\ apc = "poll"
    /\ ~HeadReady
    /\ apc' = "loop"
    /\ UNCHANGED <<vars, mode, ring, produced, klost, mark>>

(* The n oldest records are all submitted.                                  *)
ReadyPrefix(n) == n <= Len(ring) /\ \A i \in 1..n : ring[i] = "ready"

(* Variant: leaves without the final ring_buffer__consume.                  *)
LeaveLoop_NoDrain ==
    /\ \/ apc = "loop" /\ g_exiting
       \/ apc = "poll"
    /\ apc' = "drained"
    /\ \E n \in 0..Len(ring) : ReadyPrefix(n) /\ mark' = offered + n
    /\ UNCHANGED <<vars, mode, ring, produced, klost>>

(* The loop ends: g_exiting is seen, or the poll fails (-EINTR included).   *)
LeaveLoop ==
    /\ \/ apc = "loop" /\ g_exiting
       \/ apc = "poll"
    /\ apc' = "drain"
    /\ \E n \in 0..Len(ring) : ReadyPrefix(n) /\ mark' = offered + n
    /\ UNCHANGED <<vars, mode, ring, produced, klost>>

DrainReturn ==
    /\ apc = "drain"
    /\ ~HeadReady
    /\ apc' = "drained"
    /\ UNCHANGED <<vars, mode, ring, produced, klost, mark>>

(* collector_bpf__destroy, at the end or after the attach or                *)
(* ring_buffer__new has failed: what is in the ring is gone.                *)
Destroy ==
    /\ apc \in {"attached", "drained"}
    /\ apc' = "exit"
    /\ klost' = klost + Len(ring)
    /\ ring' = <<>>
    /\ UNCHANGED <<vars, mode, produced, mark>>

-----------------------------------------------------------------------------
(* main(), replay and synthetic path: handle() for every line, no look at   *)
(* g_exiting; ends with the file or with a parse error.                     *)
ReplayEvent ==
    /\ apc = "replay"
    /\ produced < MaxEvents
    /\ produced' = produced + 1
    /\ Handle(offered + 1)
    /\ UNCHANGED <<mode, apc, ring, klost, mark>>

ReplayEnd ==
    /\ apc = "replay"
    /\ apc' = "exit"
    /\ UNCHANGED <<vars, mode, ring, produced, klost, mark>>

(* Variant: exits without running the destructor.                           *)
ReturnFromMain_NoDestructor ==
    /\ apc = "exit"
    /\ main = "running"
    /\ main' = "closed"
    /\ UNCHANGED <<capacity, lockVars, g_exiting, senderVars, histVars, netVars, agentVars>>

(* main() returns and destroys the sink.                                    *)
ReturnFromMain ==
    /\ apc = "exit"
    /\ SetStop
    /\ UNCHANGED agentVars

-----------------------------------------------------------------------------
MainThread ==
    \/ LoadFail \/ Attach \/ NewRing
    \/ Poll \/ Consume \/ PollReturn \/ LeaveLoop \/ DrainReturn \/ Destroy
    \/ ReplayEvent \/ ReplayEnd
    \/ ReturnFromMain
    \/ (NotifyAll \/ JoinAndClose) /\ UNCHANGED agentVars

AgentNext ==
    \/ \E c \in CPUs : Reserve(c) \/ Submit(c)
    \/ MainThread
    \/ (Sender \/ SpuriousWakeup \/ Signal \/ PeerRecv \/ PeerDie \/ Terminated)
         /\ UNCHANGED agentVars

AgentSpec == AgentInit /\ [][AgentNext]_allVars

(* Both threads are scheduled, a CPU inside a BPF program finishes it, and  *)
(* an analyzer that is up keeps reading.                                    *)
AgentFairSpec ==
    /\ AgentSpec
    /\ WF_allVars(MainThread)
    /\ WF_allVars(Sender /\ UNCHANGED agentVars)
    /\ WF_allVars(PeerRecv /\ UNCHANGED agentVars)
    /\ \A c \in CPUs : WF_allVars(Submit(c))

-----------------------------------------------------------------------------
(* Properties.                                                              *)

(* Types of main()'s state and of the ring buffer.                          *)
AgentTypeOK ==
    /\ TypeOK
    /\ mode \in {"ebpf", "replay"}
    /\ apc \in {"load", "attached", "loop", "poll", "drain", "drained", "replay", "exit"}
    /\ ring \in Seq(CPUs \cup {"ready"})
    /\ Len(ring) <= RingSize
    /\ produced \in Nat
    /\ klost \in Nat
    /\ mark \in Nat

(* The agent as a whole uses the sink as ChannelSink allows.                *)
ImplementsChannelSink == Spec

(* The only losses nobody counts are the kernel's (agent/src/main.cpp:129): *)
(* after a run whose connection held, the events written, the drops         *)
(* announced and the kernel's losses are all the events there were.         *)
OnlyKernelLossIsSilent ==
    main = "closed" /\ ~broken => handed + dropped + klost = produced

(* The final ring_buffer__consume (agent/src/main.cpp:488): whatever was    *)
(* ready in the ring when the loop ended has been handed to the sink before *)
(* the collector is destroyed, also while other CPUs keep adding records.   *)
DrainAtExit ==
    apc = "exit" => offered >= mark

(* Where main() is, where the events are, and what the final drain still     *)
(* has in front of it: the inductive invariant of the agent.                 *)
AgentInv ==
    /\ IInv
    /\ AgentTypeOK
    /\ main # "running" => apc = "exit"
    /\ apc \in {"load", "replay", "exit"} => ring = <<>>
    /\ produced = offered + Len(ring) + klost
    /\ produced <= MaxEvents
    /\ apc = "drain" => mark <= offered \/ ReadyPrefix(mark - offered)
    /\ apc = "drained" => mark <= offered
    /\ apc \in {"load", "attached", "replay"} => mark = 0
    /\ DrainAtExit

(* A send failure or Ctrl-C ends an agent that collects: the poll loop sees *)
(* g_exiting, drains, and the destructor returns.                           *)
ExitingEndsAgent ==
    (mode = "ebpf" /\ (g_exiting \/ broken)) ~> main = "closed"

(* "A send failure (the analyzer died) ends the agent at once"              *)
(* (agent/src/main.cpp:133), granting the replay source one more event.     *)
ReplayEndsOnFailure ==
    mode = "replay" /\ broken => ignored <= 1
=============================================================================
