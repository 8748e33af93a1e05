----------------------------- MODULE MCOrderSeller -----------------------------
(***************************************************************************)
(* Instances of OrderSeller for TLC.                                        *)
(***************************************************************************)
EXTENDS OrderSeller

\* The goroutines serving calls are interchangeable (safety runs only).
Symmetry == Permutations(Callers)
=============================================================================
