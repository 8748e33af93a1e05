---------------------------- MODULE MCReviewService ----------------------------
(***************************************************************************)
(* Instances of ReviewService for TLC.                                      *)
(***************************************************************************)
EXTENDS ReviewService
=============================================================================
