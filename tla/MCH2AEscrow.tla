---------------------------- MODULE MCH2AEscrow ----------------------------
(* Model values for H2AEscrow.                                              *)
EXTENDS H2AEscrow, TLC

CONSTANTS w1, w2, h1, h2, j1

H2ASymmetry == Permutations(Workers) \cup Permutations(Handlers)
=============================================================================
