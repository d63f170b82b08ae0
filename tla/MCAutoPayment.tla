---------------------------- MODULE MCAutoPayment ----------------------------
(* Model values for AutoPayment.                                            *)
EXTENDS AutoPayment, TLC

CONSTANTS l1, l2, h1
=============================================================================
