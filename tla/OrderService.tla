----------------------------- MODULE OrderService -----------------------------
(***************************************************************************)
(* order-service without the carts (module CartCheckout has them): the      *)
(* orders and order_items tables, the RPCs that write them, and the NATS     *)
(* worker that follows the payments.                                        *)
(*                                                                         *)
(* Every operation commits its transaction first and publishes afterwards,  *)
(* from the same goroutine.  A publication that is committed but not yet     *)
(* published is kept in unsent, so that other actors may run in between and   *)
(* a crash in between loses it.                                             *)
(***************************************************************************)
EXTENDS Nats

CONSTANTS
  Totals      \* totals a checkout can compute; a big coupon makes it 0

ASSUME TotalsAssumption == Totals \subseteq Nat

VARIABLES
  orders,     \* the order row and the status of its items, by seller
  unsent      \* committed publications not handed to NATS yet

orderVars == <<orders, unsent>>

OrderRow ==
  [status: OrderStatus \cup {"absent"},
   total:  Nat,
   items:  [Sellers -> OrderStatus]]

Publication ==
  [subject: {"created"}, msg: CreatedMsg]
    \cup [subject: {"cancelled", "confirmed"}, msg: Orders]
    \cup [subject: {"updated"}, msg: UpdatedMsg]

OrderTypeOK ==
  /\ orders \in [Orders -> OrderRow]
  /\ unsent \subseteq Publication

AllItems(st) == [s \in Sellers |-> st]

OrderInit ==
  /\ orders = [o \in Orders |->
                 [status |-> "absent", total |-> 0, items |-> AllItems("pending")]]
  /\ unsent = {}

OrderExists(o) == orders[o].status # "absent"

ToPublish(subject, m) == unsent \cup {[subject |-> subject, msg |-> m]}

-----------------------------------------------------------------------------
(* RPCs.                                                                    *)

\* The commit of Checkout: the order and its items are inserted as pending in
\* one transaction, then wemall.order.created is published.  CartCheckout has
\* the statements before it, and what it does to the cart and the coupon.
Checkout(o, total, token) ==
  /\ orders[o].status = "absent"
  /\ orders' = [orders EXCEPT ![o] =
                  [status |-> "pending", total |-> total,
                   items |-> AllItems("pending")]]
  /\ unsent' = ToPublish("created",
                         [order |-> o, total |-> total, token |-> token])
  /\ UNCHANGED nats

\* CancelOrder: UPDATE ... WHERE status = 'pending'.  The items keep their
\* status; the query that would cancel them is never called.
CancelOrder(o) ==
  /\ orders[o].status = "pending"
  /\ orders' = [orders EXCEPT ![o].status = "cancelled"]
  /\ unsent' = ToPublish("cancelled", o)
  /\ UNCHANGED nats

\* UpdateSellerOrderItemStatus: a seller sets its items of an order to any
\* status, whatever the order's or the items' present status.
UpdateSellerOrderItemStatus(o, s, st) ==
  /\ OrderExists(o)
  /\ orders' = [orders EXCEPT ![o].items[s] = st]
  /\ unsent' = ToPublish("updated", [order |-> o, seller |-> s, status |-> st])
  /\ UNCHANGED nats

-----------------------------------------------------------------------------
(* The worker.  One goroutine per subscription: the one that confirms       *)
(* orders takes no message while it still has one of its own to publish.     *)

SetOrder(o, st) ==
  IF OrderExists(o)
  THEN [orders EXCEPT ![o].status = st, ![o].items = AllItems(st)]
  ELSE orders

\* Fault for mutation: only an order still pending is confirmed.
HandlePaymentCompletedIfPending ==
  /\ Pending("completed")
  /\ ~\E p \in unsent : p.subject = "confirmed"
  /\ LET o == Head(nats.completed) IN
       /\ orders' = IF orders[o].status = "pending" THEN SetOrder(o, "confirmed") ELSE orders
       /\ unsent' = ToPublish("confirmed", o)
  /\ nats' = Taken("completed")

\* handlePaymentCompleted: order and items become confirmed, unconditionally.
HandlePaymentCompleted ==
  /\ Pending("completed")
  /\ ~\E p \in unsent : p.subject = "confirmed"
  /\ LET o == Head(nats.completed) IN
       /\ orders' = SetOrder(o, "confirmed")
       /\ unsent' = ToPublish("confirmed", o)
  /\ nats' = Taken("completed")

\* Fault for mutation: the order gets the payment's status.
HandlePaymentFailedCopiesStatus ==
  /\ Pending("failed")
  /\ orders' = SetOrder(Head(nats.failed), "failed")
  /\ nats' = Taken("failed")
  /\ UNCHANGED unsent

\* handlePaymentFailed: order and items become cancelled, unconditionally.
HandlePaymentFailed ==
  /\ Pending("failed")
  /\ orders' = SetOrder(Head(nats.failed), "cancelled")
  /\ nats' = Taken("failed")
  /\ UNCHANGED unsent

-----------------------------------------------------------------------------

\* The goroutine that committed reaches its nc.Publish.
PublishOrderEvent(p) ==
  /\ p \in unsent
  /\ unsent' = unsent \ {p}
  /\ nats' = Published(p.subject, p.msg)
  /\ UNCHANGED orders

\* The process dies between its commit and its nc.Publish.
LoseOrderEvent(p) ==
  /\ p \in unsent
  /\ unsent' = unsent \ {p}
  /\ UNCHANGED <<orders, nats>>
=============================================================================
