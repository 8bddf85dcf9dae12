----------------------------- MODULE MCToolLoop -----------------------------
(***************************************************************************)
(* ToolLoop on a small instance: the calls t1 and t2 are the same tool with *)
(* the same arguments, the others differ.                                   *)
(***************************************************************************)
EXTENDS ToolLoop

CONSTANTS t1, t2, ask

MCSig == [c \in Calls |-> IF c = t2 THEN t1 ELSE c]

=============================================================================
