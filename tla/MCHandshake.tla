---------------------------- MODULE MCHandshake ------------------------------
(* Sessions of each side are interchangeable.                               *)
EXTENDS Handshake, TLC

Symmetry == Permutations(ClientSessions) \cup Permutations(ServerSessions)
=============================================================================
