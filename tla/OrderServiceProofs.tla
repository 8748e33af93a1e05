-------------------------- MODULE OrderServiceProofs --------------------------
(***************************************************************************)
(* Lemmas about the message bus and about every operation of order-service,   *)
(* for the proofs about the modules that order-service is a part of.          *)
(***************************************************************************)
EXTENDS OrderService, TLAPS

-----------------------------------------------------------------------------
(* The bus.                                                                 *)

\* A queue after a publication holds the new message and the old ones.
LEMMA AppendedElements ==
  ASSUME NEW S, NEW q \in Seq(S), NEW x \in S
  PROVE  \A i \in 1..Len(Append(q, x)) :
           \/ Append(q, x)[i] = x
           \/ /\ i \in 1..Len(q)
              /\ Append(q, x)[i] = q[i]
<1> SUFFICES ASSUME NEW i \in 1..Len(Append(q, x))
             PROVE  \/ Append(q, x)[i] = x
                    \/ /\ i \in 1..Len(q)
                       /\ Append(q, x)[i] = q[i]
  OBVIOUS
<1>1. Len(Append(q, x)) = Len(q) + 1 /\ Len(q) \in Nat
  OBVIOUS
<1>2. CASE i = Len(q) + 1
  BY <1>2
<1>3. CASE i \in 1..Len(q)
  BY <1>3
<1> QED BY <1>1, <1>2, <1>3

\* Publishing a well-typed message keeps every queue well typed.
LEMMA PublishedType ==
  ASSUME nats \in NatsType
  PROVE  /\ \A m \in CreatedMsg : Published("created", m) \in NatsType
         /\ \A o \in Orders :
              \A subject \in {"cancelled", "completed", "failed", "confirmed"} :
                Published(subject, o) \in NatsType
         /\ \A m \in UpdatedMsg : Published("updated", m) \in NatsType
<1>1. ASSUME NEW S, NEW q \in Seq(S), NEW x \in S PROVE Append(q, x) \in Seq(S)
  BY <1>1
<1>2. ASSUME NEW m \in CreatedMsg PROVE Published("created", m) \in NatsType
  <2>1. Append(nats.created, m) \in Seq(CreatedMsg)
    BY <1>1, <1>2 DEF NatsType
  <2> QED BY <2>1 DEF NatsType, Published
<1>3. ASSUME NEW o \in Orders PROVE Published("cancelled", o) \in NatsType
  BY <1>1, <1>3 DEF NatsType, Published
<1>4. ASSUME NEW o \in Orders PROVE Published("completed", o) \in NatsType
  BY <1>1, <1>4 DEF NatsType, Published
<1>5. ASSUME NEW o \in Orders PROVE Published("failed", o) \in NatsType
  BY <1>1, <1>5 DEF NatsType, Published
<1>6. ASSUME NEW o \in Orders PROVE Published("confirmed", o) \in NatsType
  BY <1>1, <1>6 DEF NatsType, Published
<1>7. ASSUME NEW m \in UpdatedMsg PROVE Published("updated", m) \in NatsType
  <2>1. Append(nats.updated, m) \in Seq(UpdatedMsg)
    BY <1>1, <1>7 DEF NatsType
  <2> QED BY <2>1 DEF NatsType, Published
<1> QED BY <1>2, <1>3, <1>4, <1>5, <1>6, <1>7

\* Taking a message keeps every queue well typed.
LEMMA TakenType ==
  ASSUME nats \in NatsType, NEW subject \in Subjects, Pending(subject)
  PROVE  Taken(subject) \in NatsType
<1>1. ASSUME NEW S, NEW q \in Seq(S), q # <<>> PROVE Tail(q) \in Seq(S)
  BY <1>1
<1>2. CASE subject = "created"
  BY <1>1, <1>2 DEF NatsType, Pending, Taken
<1>3. CASE subject = "cancelled"
  BY <1>1, <1>3 DEF NatsType, Pending, Taken
<1>4. CASE subject = "completed"
  BY <1>1, <1>4 DEF NatsType, Pending, Taken
<1>5. CASE subject = "failed"
  BY <1>1, <1>5 DEF NatsType, Pending, Taken
<1>6. CASE subject = "confirmed"
  BY <1>1, <1>6 DEF NatsType, Pending, Taken
<1>7. CASE subject = "updated"
  BY <1>1, <1>7 DEF NatsType, Pending, Taken
<1> QED BY <1>2, <1>3, <1>4, <1>5, <1>6, <1>7 DEF Subjects

-----------------------------------------------------------------------------
(* Every operation of order-service keeps its tables and the bus well typed.  *)

OrderTyped == OrderTypeOK /\ nats \in NatsType

\* At the start there is no order and no message.
LEMMA OrderInitType ==
  ASSUME OrderInit, NatsInit
  PROVE  OrderTyped
BY DEF OrderInit, NatsInit, OrderTyped, OrderTypeOK, NatsType, OrderRow, AllItems, OrderStatus

\* Checkout's commit.
LEMMA CheckoutType ==
  ASSUME OrderTyped, NEW o \in Orders, NEW total \in Nat, NEW token \in Token,
         Checkout(o, total, token)
  PROVE  OrderTyped'
<1> USE DEF OrderTyped, OrderTypeOK
<1>1. orders' \in [Orders -> OrderRow]
  BY DEF Checkout, OrderRow, AllItems, OrderStatus
<1>2. [order |-> o, total |-> total, token |-> token] \in CreatedMsg
  BY DEF CreatedMsg
<1>3. unsent' \subseteq Publication
  BY <1>2 DEF Checkout, ToPublish, Publication
<1> QED BY <1>1, <1>3 DEF Checkout

\* CancelOrder.
LEMMA CancelOrderType ==
  ASSUME OrderTyped, NEW o \in Orders, CancelOrder(o)
  PROVE  OrderTyped'
<1> USE DEF OrderTyped, OrderTypeOK
<1>1. orders' \in [Orders -> OrderRow]
  BY DEF CancelOrder, OrderRow, OrderStatus
<1>2. unsent' \subseteq Publication
  BY DEF CancelOrder, ToPublish, Publication
<1> QED BY <1>1, <1>2 DEF CancelOrder

\* UpdateSellerOrderItemStatus.
LEMMA UpdateItemType ==
  ASSUME OrderTyped, NEW o \in Orders, NEW s \in Sellers, NEW st \in OrderStatus,
         UpdateSellerOrderItemStatus(o, s, st)
  PROVE  OrderTyped'
<1> USE DEF OrderTyped, OrderTypeOK
<1>1. [orders[o] EXCEPT !.items = [@ EXCEPT ![s] = st]] \in OrderRow
  BY DEF OrderRow
<1>2. orders' \in [Orders -> OrderRow]
  BY <1>1 DEF UpdateSellerOrderItemStatus
<1>3. unsent' \subseteq Publication
  BY DEF UpdateSellerOrderItemStatus, ToPublish, Publication, UpdatedMsg
<1> QED BY <1>2, <1>3 DEF UpdateSellerOrderItemStatus

\* An order and all its items get a status.
LEMMA SetOrderType ==
  ASSUME OrderTyped, NEW o \in Orders, NEW st \in OrderStatus
  PROVE  SetOrder(o, st) \in [Orders -> OrderRow]
<1>1. [orders[o] EXCEPT !.status = st, !.items = AllItems(st)] \in OrderRow
  BY DEF OrderTyped, OrderTypeOK, OrderRow, AllItems
<1> QED BY <1>1 DEF SetOrder, OrderTyped, OrderTypeOK

\* handlePaymentCompleted.
LEMMA PaymentCompletedType ==
  ASSUME OrderTyped, HandlePaymentCompleted
  PROVE  OrderTyped'
<1> USE DEF OrderTyped, OrderTypeOK
<1>1. Head(nats.completed) \in Orders
  BY DEF HandlePaymentCompleted, Pending, NatsType
<1>2. orders' \in [Orders -> OrderRow]
  BY <1>1, SetOrderType DEF HandlePaymentCompleted, OrderStatus
<1>3. unsent' \subseteq Publication
  BY <1>1 DEF HandlePaymentCompleted, ToPublish, Publication
<1>4. nats' \in NatsType
  BY TakenType DEF HandlePaymentCompleted, Subjects
<1> QED BY <1>2, <1>3, <1>4

\* handlePaymentFailed.
LEMMA PaymentFailedType ==
  ASSUME OrderTyped, HandlePaymentFailed
  PROVE  OrderTyped'
<1> USE DEF OrderTyped, OrderTypeOK
<1>1. Head(nats.failed) \in Orders
  BY DEF HandlePaymentFailed, Pending, NatsType
<1>2. orders' \in [Orders -> OrderRow]
  BY <1>1, SetOrderType DEF HandlePaymentFailed, OrderStatus
<1>3. nats' \in NatsType
  BY TakenType DEF HandlePaymentFailed, Subjects
<1> QED BY <1>2, <1>3 DEF HandlePaymentFailed

\* What was committed is published,
LEMMA PublishOrderType ==
  ASSUME OrderTyped, NEW p \in unsent, PublishOrderEvent(p)
  PROVE  OrderTyped'
<1>1. p \in Publication
  BY DEF OrderTyped, OrderTypeOK
<1>2. Published(p.subject, p.msg) \in NatsType
  BY <1>1, PublishedType DEF Publication, OrderTyped
<1> QED BY <1>2 DEF PublishOrderEvent, OrderTyped, OrderTypeOK

\* ... or is lost.
LEMMA LoseOrderType ==
  ASSUME OrderTyped, NEW p \in unsent, LoseOrderEvent(p)
  PROVE  OrderTyped'
BY DEF LoseOrderEvent, OrderTyped, OrderTypeOK
=============================================================================
