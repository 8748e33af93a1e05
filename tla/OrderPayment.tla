----------------------------- MODULE OrderPayment -----------------------------
(***************************************************************************)
(* order-service and payment-service together: a checkout, the payments      *)
(* made for it and the NATS messages between the two.  The API gateway's     *)
(* resolvers are the callers of the RPCs; seller-service is only a consumer   *)
(* of what order-service publishes (module SellerLedger says what it does).  *)
(***************************************************************************)
EXTENDS OrderService, PaymentService, FiniteSets

CONSTANTS
  MaxFaults,  \* messages lost and calls cut short, in one behaviour
  MaxUpdates  \* item updates that may be waiting at once

ASSUME BoundsAssumption == MaxFaults \in Nat /\ MaxUpdates \in Nat

VARIABLE
  faults      \* how many messages were lost or calls cut short so far

vars == <<orderVars, paymentVars, nats, faults>>

Init ==
  /\ OrderInit
  /\ PaymentInit
  /\ NatsInit
  /\ faults = 0

-----------------------------------------------------------------------------
(* The bounds of the model.                                                 *)

\* payments has room for the row of every checkout whose event is still to be
\* handled, so that a full table never holds back handleOrderCreated.
CreatedUnhandled(o) ==
  \/ orders[o].status = "absent"
  \/ \E p \in unsent : p.subject = "created" /\ p.msg.order = o
  \/ \E i \in 1..Len(nats.created) : nats.created[i].order = o

SpareRow ==
  Cardinality({p \in Payments : payment[p].status = "absent"})
    > Cardinality({o \in Orders : CreatedUnhandled(o)})

UpdatesWaiting ==
  Len(nats.updated) + Cardinality({p \in unsent : p.subject = "updated"})

-----------------------------------------------------------------------------
(* The steps of order-service.                                              *)

PlaceOrder(o, total, token) ==
  Checkout(o, total, token) /\ UNCHANGED <<paymentVars, faults>>

CustomerCancels(o) ==
  CancelOrder(o) /\ UNCHANGED <<paymentVars, faults>>

SellerUpdates(o, s, st) ==
  /\ UpdatesWaiting < MaxUpdates
  /\ UpdateSellerOrderItemStatus(o, s, st)
  /\ UNCHANGED <<paymentVars, faults>>

OnCompleted == HandlePaymentCompleted /\ UNCHANGED <<paymentVars, faults>>

OnFailed == HandlePaymentFailed /\ UNCHANGED <<paymentVars, faults>>

OrderPublishes(p) == PublishOrderEvent(p) /\ UNCHANGED <<paymentVars, faults>>

-----------------------------------------------------------------------------
(* The steps of payment-service.                                            *)

\* The gateway's initiatePayment reads the caller's own order, in whatever
\* status it is, and creates a payment of its total.
InitiatePayment(o, p) ==
  /\ OrderExists(o)
  /\ SpareRow
  /\ CreatePayment(p, o, orders[o].total)
  /\ UNCHANGED <<orderVars, faults>>

CallsProcess(t, p, accepted) ==
  ProcessPayment(t, p, accepted) /\ UNCHANGED <<orderVars, faults>>

CallsRefund(t, p) == RefundPayment(t, p) /\ UNCHANGED <<orderVars, faults>>

OnCreated == HandleOrderCreated /\ UNCHANGED <<orderVars, faults>>

OnCancelled == HandleOrderCancelled /\ UNCHANGED <<orderVars, faults>>

Proceeds(t) == ThreadStep(t) /\ UNCHANGED <<orderVars, faults>>

-----------------------------------------------------------------------------
(* seller-service, and what may go wrong.                                   *)

\* seller-service takes wemall.order.confirmed or wemall.order.item.updated.
SellerTakes ==
  /\ \E subject \in {"confirmed", "updated"} :
       Pending(subject) /\ nats' = Taken(subject)
  /\ UNCHANGED <<orderVars, paymentVars, faults>>

OneMoreFault == faults < MaxFaults /\ faults' = faults + 1

MessageLost ==
  /\ OneMoreFault
  /\ \E subject \in {"created", "cancelled", "completed", "failed"} :
       NatsLose(subject)
  /\ UNCHANGED <<orderVars, paymentVars>>

OrderServiceDies ==
  /\ OneMoreFault
  /\ \E p \in unsent : LoseOrderEvent(p)
  /\ UNCHANGED paymentVars

CallCutShort(t) ==
  /\ OneMoreFault
  /\ AbortThread(t)
  /\ UNCHANGED orderVars

-----------------------------------------------------------------------------

OrderNext ==
  \/ \E o \in Orders, total \in Totals, token \in Token :
       PlaceOrder(o, total, token)
  \/ \E o \in Orders : CustomerCancels(o)
  \/ \E o \in Orders, s \in Sellers, st \in OrderStatus : SellerUpdates(o, s, st)
  \/ OnCompleted
  \/ OnFailed
  \/ \E p \in unsent : OrderPublishes(p)

PaymentNext ==
  \/ \E o \in Orders, p \in Payments : InitiatePayment(o, p)
  \/ \E t \in Rpc, p \in Payments, accepted \in BOOLEAN :
       CallsProcess(t, p, accepted)
  \/ \E t \in Rpc, p \in Payments : CallsRefund(t, p)
  \/ OnCreated
  \/ OnCancelled
  \/ \E t \in Threads : Proceeds(t)

Fault ==
  \/ MessageLost
  \/ OrderServiceDies
  \/ \E t \in Threads : CallCutShort(t)

Next == OrderNext \/ PaymentNext \/ SellerTakes \/ Fault

Spec == Init /\ [][Next]_vars

\* Goroutines that have begun run on, subscriptions deliver, and committed
\* events are published; nobody has to call, cancel or fail.  The two kinds of
\* event that the properties wait for are published by goroutines of their own.
Fairness ==
  /\ WF_vars(OnCompleted)
  /\ WF_vars(OnFailed)
  /\ WF_vars(OnCreated)
  /\ WF_vars(OnCancelled)
  /\ \A t \in Threads : WF_vars(Proceeds(t))
  /\ WF_vars(\E p \in unsent : p.subject = "confirmed" /\ OrderPublishes(p))
  /\ \A o \in Orders :
       WF_vars(\E p \in unsent :
                 p.subject = "created" /\ p.msg.order = o /\ OrderPublishes(p))

FairSpec == Spec /\ Fairness

-----------------------------------------------------------------------------
(* Safety.                                                                  *)

TypeOK ==
  /\ OrderTypeOK
  /\ PaymentTypeOK
  /\ nats \in NatsType
  /\ faults \in 0..MaxFaults

Charged(o) == \E p \in PaymentsOf(o) : payment[p].txn

\* An order never becomes confirmed, through any mix of retried, refunded,
\* cancelled and declined payments, unless the provider took money for it.
ConfirmedWasCharged ==
  \A o \in Orders : orders[o].status = "confirmed" => Charged(o)

\* What is refunded was charged before, although RefundPayment and the
\* handler of cancelled orders write on the strength of an earlier read.
RefundedWasCharged ==
  \A p \in Payments : payment[p].status = "refunded" => payment[p].txn

\* The news that money was taken for o is on its way to order-service.
CompletionInFlight(o) ==
  \/ \E t \in Threads :
       /\ thread[t].at = "announce"
       /\ thread[t].accepted
       /\ payment[thread[t].payment].order = o
  \/ \E i \in 1..Len(nats.completed) : nats.completed[i] = o

\* While nothing is lost, an order that was charged and still waits for its
\* payment is about to hear of it: no interleaving forgets the charge.
ChargeNotForgotten ==
  \A o \in Orders :
    faults = 0 /\ Charged(o) /\ orders[o].status = "pending"
      => CompletionInFlight(o)

-----------------------------------------------------------------------------
(* The abstract promise.                                                    *)

PhaseOf(st) ==
  CASE st = "absent"    -> "none"
    [] st = "pending"   -> "placed"
    [] OTHER            -> st

OrderPhase == [o \in Orders |-> PhaseOf(orders[o].status)]

ChargedOrders == {o \in Orders : Charged(o)}

Settlement == INSTANCE OrderSettlement
  WITH phase <- OrderPhase, charged <- ChargedOrders

\* Every behaviour of the two services, faults included, is one of the
\* abstract specification: placed once, charges kept, confirmed only if charged.
ImplementsSettlement == Settlement!Spec

-----------------------------------------------------------------------------
(* Liveness, while nothing is lost.                                         *)

\* A checkout that carries a payment token does not stay pending.
CheckedOutWithToken(o) ==
  \E p \in unsent :
    /\ p.subject = "created"
    /\ p.msg.order = o
    /\ p.msg.token # "none"
    /\ p.msg.total > 0

TokenCheckoutResolves ==
  \A o \in Orders : CheckedOutWithToken(o) ~> orders[o].status # "pending"

DeclineInFlight ==
  \/ \E t \in Threads : thread[t].at = "announce" /\ ~thread[t].accepted
  \/ nats.failed # <<>>

\* As long as no attempt to pay is declined, an order that was charged ends up
\* confirmed for good, even if its customer cancelled it in between.
ChargedOrderConfirmed ==
  [](~DeclineInFlight) =>
    \A o \in Orders : Charged(o) ~> [](orders[o].status = "confirmed")

-----------------------------------------------------------------------------
(* What the repository says and the code does not keep.                     *)

\* payment-service's tests: "failed -> refunded is NOT allowed".
FailedNeverRefunded ==
  [][\A p \in Payments :
       payment[p].status = "failed" => payment'[p].status # "refunded"]_payment

\* The plan: a completed payment makes order-service confirm the order.
ChargedOrderResolves ==
  \A o \in Orders : Charged(o) ~> orders[o].status # "pending"
=============================================================================
