------------------------ MODULE MCVerificationQueue ------------------------
(* Model values for VerificationQueue.                                      *)
EXTENDS VerificationQueue, TLC

CONSTANTS s1, s2, a1, a2, e1, pass, fail

Symmetry == Permutations(Submits) \cup Permutations(Arbiters)
=============================================================================
