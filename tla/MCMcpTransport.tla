--------------------------- MODULE MCMcpTransport ---------------------------
(***************************************************************************)
(* McpTransport on a small instance.  The calls are interchangeable, which  *)
(* the safety properties could use; the liveness property may not.          *)
(***************************************************************************)
EXTENDS McpTransport

=============================================================================
