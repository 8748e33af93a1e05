-------------------------------- MODULE Nats --------------------------------
(***************************************************************************)
(* The message bus between order-service, payment-service and              *)
(* seller-service.  Every service opens one core NATS connection and        *)
(* subscribes with nc.Subscribe: one FIFO of undelivered messages and one    *)
(* goroutine per subscription.  Core NATS delivers at most once: a message   *)
(* published while the subscriber is away, or dropped from its buffer, is    *)
(* gone.  Each of these subjects has exactly one subscriber among the three   *)
(* services, so the bus is one queue per subject.                            *)
(***************************************************************************)
EXTENDS Naturals, Sequences

CONSTANTS
  Orders,     \* the order ids that may come to exist
  Sellers     \* the sellers whose items every order contains

VARIABLE
  nats        \* nats.<subject>: the undelivered messages, oldest first

\* order_status of order-service, migration 002.
OrderStatus ==
  {"pending", "confirmed", "shipped", "delivered", "cancelled", "refunded"}

\* The payment_token of a checkout: absent, declined by the provider (empty or
\* containing "fail"), or accepted.
Token == {"none", "declined", "accepted"}

CreatedMsg == [order: Orders, total: Nat, token: Token]
UpdatedMsg == [order: Orders, seller: Sellers, status: OrderStatus]

\* Messages carry only the fields their subscribers read.
NatsType ==
  [created:   Seq(CreatedMsg),    \* wemall.order.created      -> payment
   cancelled: Seq(Orders),        \* wemall.order.cancelled    -> payment
   completed: Seq(Orders),        \* wemall.payment.completed  -> order
   failed:    Seq(Orders),        \* wemall.payment.failed     -> order
   confirmed: Seq(Orders),        \* wemall.order.confirmed    -> seller
   updated:   Seq(UpdatedMsg)]    \* wemall.order.item.updated -> seller

Subjects ==
  {"created", "cancelled", "completed", "failed", "confirmed", "updated"}

NatsInit ==
  nats = [created   |-> <<>>, cancelled |-> <<>>, completed |-> <<>>,
          failed    |-> <<>>, confirmed |-> <<>>, updated   |-> <<>>]

\* nc.Publish(subject, msg)
Published(subject, msg) == [nats EXCEPT ![subject] = Append(@, msg)]

\* The subscription's goroutine takes the oldest message of its subject.
Pending(subject) == nats[subject] # <<>>
Taken(subject)   == [nats EXCEPT ![subject] = Tail(@)]

\* The server or a disconnected client drops the oldest message of a subject.
NatsLose(subject) ==
  /\ Pending(subject)
  /\ nats' = Taken(subject)
=============================================================================
