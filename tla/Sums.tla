-------------------------------- MODULE Sums --------------------------------
(***************************************************************************)
(* SUM of SQL, over the rows of a set.  The summand is a function, not an     *)
(* operator, so that facts about sums are lemmas of first order.             *)
(***************************************************************************)
EXTENDS Integers, FiniteSetsExt

SumOf(f, S) == MapThenSumSet(LAMBDA x : f[x], S)
=============================================================================
