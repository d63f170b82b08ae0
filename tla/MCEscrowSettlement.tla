------------------------ MODULE MCEscrowSettlement ------------------------
(* Model values for EscrowSettlement.                                       *)
EXTENDS EscrowSettlement, TLC

CONSTANTS c1, c2, r1, r2

CallerSymmetry == Permutations(Callers)
=============================================================================
