----------------------------- MODULE MCAgentMain -----------------------------
(* The agent with two CPUs.                                                  *)
EXTENDS AgentMain

CONSTANTS c1, c2

MCCPUs == {c1, c2}
=============================================================================
