----------------------------- MODULE MCPlanMode -----------------------------
(***************************************************************************)
(* PlanMode with interchangeable sessions.                                 *)
(***************************************************************************)
EXTENDS PlanMode, TLC

SessionSymmetry == Permutations(Sessions)

=============================================================================
