--------------------------- MODULE MCDeliveryService ---------------------------
(***************************************************************************)
(* Instances of DeliveryService for TLC.                                    *)
(***************************************************************************)
EXTENDS DeliveryService
=============================================================================
