------------------------------- MODULE MCBeads -------------------------------
(***************************************************************************)
(* Beads on a small instance: a task and an epic, and two sessions.          *)
(***************************************************************************)
EXTENDS Beads

CONSTANTS b1, b2

MCRank == [b \in Beads |-> IF b = b1 THEN 0 ELSE 5]

=============================================================================
