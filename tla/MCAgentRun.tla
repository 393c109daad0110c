----------------------------- MODULE MCAgentRun -----------------------------
(***************************************************************************)
(* AgentRun for TLC: one chat with a task of its own context and one       *)
(* without.                                                                *)
(***************************************************************************)
EXTENDS AgentRun

CONSTANTS a, digest, ping

MCChatOf == [t \in Tasks |-> a]
=============================================================================
