-------------------------- MODULE MCTaskLifecycle --------------------------
(* Model values for TaskLifecycle.                                          *)
EXTENDS TaskLifecycle, TLC

CONSTANTS w1, w2, h1, h2, j1, d1

LifecycleSymmetry == Permutations(Workers) \cup Permutations(Handlers)
=============================================================================
