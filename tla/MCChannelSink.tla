---------------------------- MODULE MCChannelSink ----------------------------
(* ChannelSink on small queues: even and odd capacities, and one, where half  *)
(* of the queue is nothing.                                                   *)
EXTENDS ChannelSink

MCCapacities == 1..4
=============================================================================
