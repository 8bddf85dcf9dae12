-------------------------- MODULE MCAgentConnection --------------------------
(***************************************************************************)
(* AgentConnection on a small instance: a budget of two restarts, and four  *)
(* agents.                                                                  *)
(***************************************************************************)
EXTENDS AgentConnection

=============================================================================
