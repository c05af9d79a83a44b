-------------------------- MODULE MCAnalyzerDaemon ---------------------------
(* One genuine agent and one stranger.                                       *)
EXTENDS AnalyzerDaemon

CONSTANTS agent, stranger

MCClients == {agent, stranger}
MCGenuine == {agent}
=============================================================================
