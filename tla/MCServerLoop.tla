---------------------------- MODULE MCServerLoop ----------------------------
(***************************************************************************)
(* ServerLoop on a small instance: queues of one or two entries, so that    *)
(* both are full in many states.                                            *)
(***************************************************************************)
EXTENDS ServerLoop

=============================================================================
