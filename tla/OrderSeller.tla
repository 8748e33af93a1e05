------------------------------ MODULE OrderSeller ------------------------------
(***************************************************************************)
(* order-service and seller-service together: what happens to the sellers'  *)
(* money from the confirmation of an order to their payouts.                *)
(*                                                                         *)
(* payment-service is reduced to what the two see of it, news of payments    *)
(* completed or failed for orders that exist, any number of times in any      *)
(* order: module OrderPayment shows that it does announce the same order       *)
(* twice, or a failure after a success.                                      *)
(***************************************************************************)
EXTENDS OrderService, SellerLedger

CONSTANTS
  ItemStatuses,  \* the statuses sellers give to their items
  MaxNews,       \* payments announced in one behaviour
  MaxUpdates,    \* item updates made
  MaxCalls,      \* payouts and ad credits asked for
  MaxFaults      \* messages lost and calls cut short

ASSUME StatusesAssumption == ItemStatuses \subseteq OrderStatus
ASSUME BoundsAssumption   == {MaxNews, MaxUpdates, MaxCalls, MaxFaults} \subseteq Nat

VARIABLE
  used           \* how much of each bound is used up

vars == <<orderVars, sellerVars, nats, used>>

Bound == [news |-> MaxNews, updates |-> MaxUpdates, calls |-> MaxCalls,
          faults |-> MaxFaults]

Init ==
  /\ OrderInit
  /\ SellerInit
  /\ NatsInit
  /\ used = [news |-> 0, updates |-> 0, calls |-> 0, faults |-> 0]

Uses(what) ==
  /\ used[what] < Bound[what]
  /\ used' = [used EXCEPT ![what] = @ + 1]

-----------------------------------------------------------------------------
(* The steps of order-service.                                              *)

PlaceOrder(o, total) ==
  Checkout(o, total, "none") /\ UNCHANGED <<sellerVars, used>>

CustomerCancels(o) == CancelOrder(o) /\ UNCHANGED <<sellerVars, used>>

SellerUpdates(o, s, st) ==
  /\ Uses("updates")
  /\ UpdateSellerOrderItemStatus(o, s, st)
  /\ UNCHANGED sellerVars

OnCompleted == HandlePaymentCompleted /\ UNCHANGED <<sellerVars, used>>

OnFailed == HandlePaymentFailed /\ UNCHANGED <<sellerVars, used>>

OrderPublishes(p) == PublishOrderEvent(p) /\ UNCHANGED <<sellerVars, used>>

-----------------------------------------------------------------------------
(* The steps of seller-service.                                             *)

OnConfirmed == HandleOrderConfirmed /\ UNCHANGED <<orderVars, used>>

OnUpdated == HandleOrderItemUpdated /\ UNCHANGED <<orderVars, used>>

Settles == SettleEarnings /\ UNCHANGED <<orderVars, used>>

RequestsPayout(c, s, amount) ==
  Uses("calls") /\ CreatePayout(c, s, amount) /\ UNCHANGED orderVars

FundsAds(c, s, amount) ==
  Uses("calls") /\ AddAdCredit(c, s, amount) /\ UNCHANGED orderVars

GrantsAds(s, amount) ==
  Uses("calls") /\ GrantAdCredit(s, amount) /\ UNCHANGED orderVars

Proceeds(c) == CallStep(c) /\ UNCHANGED <<orderVars, used>>

-----------------------------------------------------------------------------
(* payment-service, and what may go wrong.                                  *)

PaymentAnnounces(o, subject) ==
  /\ OrderExists(o)
  /\ Uses("news")
  /\ nats' = Published(subject, o)
  /\ UNCHANGED <<orderVars, sellerVars>>

PaymentTakes(subject) ==
  /\ Pending(subject)
  /\ nats' = Taken(subject)
  /\ UNCHANGED <<orderVars, sellerVars, used>>

MessageLost ==
  /\ Uses("faults")
  /\ \E subject \in {"completed", "failed", "confirmed", "updated"} :
       NatsLose(subject)
  /\ UNCHANGED <<orderVars, sellerVars>>

OrderServiceDies ==
  /\ Uses("faults")
  /\ \E p \in unsent : LoseOrderEvent(p)
  /\ UNCHANGED sellerVars

CallCutShort(c) == Uses("faults") /\ AbortCall(c) /\ UNCHANGED orderVars

UpdateCutShort == Uses("faults") /\ AbortSettling /\ UNCHANGED orderVars

-----------------------------------------------------------------------------

OrderNext ==
  \/ \E o \in Orders, total \in Totals : PlaceOrder(o, total)
  \/ \E o \in Orders : CustomerCancels(o)
  \/ \E o \in Orders, s \in Sellers, st \in ItemStatuses : SellerUpdates(o, s, st)
  \/ OnCompleted
  \/ OnFailed
  \/ \E p \in unsent : OrderPublishes(p)

SellerNext ==
  \/ OnConfirmed
  \/ OnUpdated
  \/ Settles
  \/ \E c \in Callers, s \in Sellers, a \in Amounts : RequestsPayout(c, s, a)
  \/ \E c \in Callers, s \in Sellers, a \in Amounts : FundsAds(c, s, a)
  \/ \E s \in Sellers, a \in Amounts : GrantsAds(s, a)
  \/ \E c \in Callers : Proceeds(c)

PaymentNext ==
  \/ \E o \in Orders, subject \in {"completed", "failed"} :
       PaymentAnnounces(o, subject)
  \/ \E subject \in {"created", "cancelled"} : PaymentTakes(subject)

Fault ==
  \/ MessageLost
  \/ OrderServiceDies
  \/ \E c \in Callers : CallCutShort(c)
  \/ UpdateCutShort

Next == OrderNext \/ SellerNext \/ PaymentNext \/ Fault

Spec == Init /\ [][Next]_vars

\* Subscriptions deliver, transactions that have begun run on, and the two
\* kinds of event that seller-service waits for are published once committed.
Fairness ==
  /\ WF_vars(OnCompleted)
  /\ WF_vars(OnFailed)
  /\ WF_vars(OnConfirmed)
  /\ WF_vars(OnUpdated)
  /\ WF_vars(Settles)
  /\ \A c \in Callers : WF_vars(Proceeds(c))
  /\ \A subject \in {"confirmed", "updated"} :
       WF_vars(\E p \in unsent : p.subject = subject /\ OrderPublishes(p))

FairSpec == Spec /\ Fairness

-----------------------------------------------------------------------------
(* Safety.                                                                  *)

TypeOK ==
  /\ OrderTypeOK
  /\ SellerTypeOK
  /\ nats \in NatsType
  /\ \A what \in DOMAIN used : used[what] \in 0..Bound[what]

Ids == 1..Len(ledger)


\* A row inserted by handleOrderConfirmed, not the remainder of a split.
IsOriginal(i) == ledger[i].order # NoOrder /\ ledger[i].born = i

\* Escrow: a seller has earned money of no more orders than it has delivered,
\* whatever is lost, repeated or cut short on the way.
EscrowHolds ==
  \A s \in Sellers :
    Cardinality({ledger[i].order :
                   i \in {j \in Ids : /\ ledger[j].seller = s
                                      /\ ledger[j].order # NoOrder
                                      /\ ledger[j].status \in {"earned", "payout_released"}}})
      <= sales[s]

\* However payouts that read the same entries interleave, with each other and
\* with the deliveries, the rows of an order never add up to less than was
\* escrowed for it: a portion is only written together with its remainder.
LedgerNeverShort ==
  \A o \in Orders, s \in Sellers :
    LET rows == {i \in Ids : ledger[i].order = o /\ ledger[i].seller = s} IN
    SumNet(rows) >= SaleNet * Cardinality({i \in rows : IsOriginal(i)})

PaidOut(s) ==
  SumOf([k \in 1..Len(payouts) |-> payouts[k].net],
        {k \in 1..Len(payouts) : payouts[k].seller = s})

\* What a seller was paid, what it still has, and what it spent on ads.
Claims(s) ==
  PaidOut(s) + SumNet(EntriesOf(s, "escrowed") \cup EntriesOf(s, "earned"))
    - SumNet({i \in Ids : ledger[i].seller = s /\ ledger[i].order = NoOrder})

\* A seller that makes one call at a time and delivers once is never paid the
\* same money twice: not by splits, not by ad credits set against a payout, not
\* by cancellations that overtake one.  (With two calls at a time, or a second
\* delivery, it is: see PayoutBacked.)
PaidOnce ==
  \A s \in Sellers :
    sales[s] <= 1 /\ Cardinality(Callers) = 1
      => Claims(s) <= SaleNet * Cardinality({i \in Ids : /\ ledger[i].seller = s
                                                         /\ IsOriginal(i)})

-----------------------------------------------------------------------------
(* Liveness, while nothing is lost.                                         *)

HasEntry(o, s, status) ==
  \E i \in Ids : /\ ledger[i].order = o
                 /\ ledger[i].seller = s
                 /\ ledger[i].status \in status

\* Every seller of a confirmed order gets an entry in the ledger.
ConfirmedIsEscrowed ==
  \A o \in Orders, s \in Sellers :
    orders[o].status = "confirmed" ~> HasEntry(o, s, EarningStatus)

\* A delivery that is announced after the money was escrowed releases it from
\* escrow, whatever payouts are under way.
DeliveryFrees ==
  \A o \in Orders, s \in Sellers :
    (/\ HasEntry(o, s, {"escrowed"})
     /\ \E n \in 1..Len(nats.updated) :
          nats.updated[n] = [order |-> o, seller |-> s, status |-> "delivered"])
      ~> HasEntry(o, s, EarningStatus \ {"escrowed"})

-----------------------------------------------------------------------------
(* What the repository says and the code does not keep.                     *)

\* The plan: for each item of a confirmed order, "a record" is written.
OneEarningPerItem ==
  \A o \in Orders, s \in Sellers :
    Cardinality({i \in Ids : /\ ledger[i].order = o
                             /\ ledger[i].seller = s
                             /\ IsOriginal(i)}) <= 1

\* The plan: an entry is marked refunded, "the seller is not credited".
RefundedNeverPaid ==
  [][\A i \in Ids :
       ledger[i].status = "refunded" => ledger'[i].status # "payout_released"]_ledger

\* The plan: a payout's net amount is the sum of the rows that carry its id.
PayoutBacked ==
  \A k \in 1..Len(payouts) :
    payouts[k].net = SumNet({i \in Ids : ledger[i].payout = k})

\* The plan: a delivered order's entries go from escrowed to earned.
DeliveredIsEarned ==
  \A o \in Orders, s \in Sellers :
    (orders[o].status = "confirmed" /\ orders[o].items[s] = "delivered")
      ~> \/ orders[o].items[s] # "delivered"
         \/ HasEntry(o, s, EarningStatus \ {"escrowed"})
=============================================================================
