---------------------------- MODULE MCCartCheckout ----------------------------
(***************************************************************************)
(* Instances of CartCheckout for TLC.                                       *)
(***************************************************************************)
EXTENDS CartCheckout, TLC

\* Customers, goroutines and order ids are interchangeable.
Symmetry == Permutations(Users) \cup Permutations(Callers) \cup Permutations(Orders)
=============================================================================
