------------------------------- MODULE MCEcoCash -------------------------------
(***************************************************************************)
(* Instances of EcoCash for TLC.                                            *)
(***************************************************************************)
EXTENDS EcoCash, TLC

\* Rows and goroutines are interchangeable (safety runs only).
Symmetry == Permutations(Txns) \cup Permutations(Refunds) \cup Permutations(Callers)
=============================================================================
