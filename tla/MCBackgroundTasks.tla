------------------------- MODULE MCBackgroundTasks -------------------------
(***************************************************************************)
(* BackgroundTasks on a small instance: two tasks, one slot.                *)
(***************************************************************************)
EXTENDS BackgroundTasks

=============================================================================
