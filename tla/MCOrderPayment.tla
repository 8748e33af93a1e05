---------------------------- MODULE MCOrderPayment ----------------------------
(***************************************************************************)
(* Instances of OrderPayment for TLC.                                       *)
(***************************************************************************)
EXTENDS OrderPayment, TLC

\* Rows and RPC goroutines are interchangeable (safety runs only).
Symmetry == Permutations(Payments) \cup Permutations(Rpc)
=============================================================================
