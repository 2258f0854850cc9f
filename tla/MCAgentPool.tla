----------------------------- MODULE MCAgentPool -----------------------------
(* Small instances of AgentPool for TLC.                                   *)
EXTENDS AgentPool
=============================================================================
