-------------------------- MODULE MCMcpConnections --------------------------
(***************************************************************************)
(* McpConnections on a small instance: one server in the settings and one   *)
(* that can be installed, and Jira.                                         *)
(***************************************************************************)
EXTENDS McpConnections

=============================================================================
