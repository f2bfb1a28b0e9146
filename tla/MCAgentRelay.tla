---------------------------- MODULE MCAgentRelay ----------------------------
(* AgentRelay on small instances. *)
EXTENDS AgentRelay
=============================================================================
