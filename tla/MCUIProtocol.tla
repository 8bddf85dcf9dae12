---------------------------- MODULE MCUIProtocol ----------------------------
(***************************************************************************)
(* UIProtocol on small instances: the first call is of one tool, the       *)
(* others are of another.                                                  *)
(***************************************************************************)
EXTENDS UIProtocol

CONSTANTS k1, shell, write

MCToolOf == [k \in CallIds |-> IF k = k1 THEN shell ELSE write]

=============================================================================
