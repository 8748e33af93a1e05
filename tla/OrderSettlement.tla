--------------------------- MODULE OrderSettlement ---------------------------
(***************************************************************************)
(* What order-service and payment-service promise together about one        *)
(* customer's order, without queues, goroutines or payment rows: an order is  *)
(* placed once and never returns to being unpaid, money once taken for it    *)
(* stays on record, and only an order that was charged is confirmed.          *)
(***************************************************************************)
CONSTANT Orders

VARIABLES
  phase,      \* where each order stands
  charged     \* the orders the payment provider took money for

Phase == {"none", "placed", "confirmed", "cancelled"}

Init ==
  /\ phase = [o \in Orders |-> "none"]
  /\ charged = {}

Place(o) ==
  /\ phase[o] = "none"
  /\ phase' = [phase EXCEPT ![o] = "placed"]
  /\ UNCHANGED charged

Charge(o) ==
  /\ phase[o] # "none"
  /\ charged' = charged \cup {o}
  /\ UNCHANGED phase

Confirm(o) ==
  /\ o \in charged
  /\ phase' = [phase EXCEPT ![o] = "confirmed"]
  /\ UNCHANGED charged

\* By the customer, or by a declined attempt to pay, whatever came before.
Cancel(o) ==
  /\ phase[o] # "none"
  /\ phase' = [phase EXCEPT ![o] = "cancelled"]
  /\ UNCHANGED charged

Next == \E o \in Orders : Place(o) \/ Charge(o) \/ Confirm(o) \/ Cancel(o)

Spec == Init /\ [][Next]_<<phase, charged>>
=============================================================================
