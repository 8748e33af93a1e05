-------------------------- MODULE MCPayoutAllocation --------------------------
(***************************************************************************)
(* Every small ledger, and every sequence of payouts from it.               *)
(***************************************************************************)
EXTENDS PayoutSequence
=============================================================================
