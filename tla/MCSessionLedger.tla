--------------------------- MODULE MCSessionLedger ---------------------------
(***************************************************************************)
(* SessionLedger with interchangeable sessions.                            *)
(***************************************************************************)
EXTENDS SessionLedger, TLC

SessionSymmetry == Permutations(Sessions)

=============================================================================
