-------------------------- MODULE OrderPaymentProofs --------------------------
(***************************************************************************)
(* Proofs about OrderPayment, for any orders, payments, goroutines, totals    *)
(* and any number of faults.                                                *)
(***************************************************************************)
EXTENDS OrderPayment, OrderServiceProofs

-----------------------------------------------------------------------------
(* The inductive invariant.  ConfirmedWasCharged alone is not inductive: it   *)
(* needs that completed payments, announcements of success and the messages   *)
(* payment.completed all speak of money that was taken, and that a row once   *)
(* inserted is never reused for another order.                              *)

\* A row that exists belongs to an existing order, and its status tells the
\* truth about the money.
RowSound(p) ==
  /\ payment[p].status = "absent" => payment[p].order = NoOrder
  /\ payment[p].status # "absent" => payment[p].order \in Orders
                                      /\ OrderExists(payment[p].order)
  /\ payment[p].status \in {"completed", "refunded"} => payment[p].txn

\* A busy goroutine works on a row that exists; what it is about to announce
\* as a success, or to refund, was charged.
ThreadSound(t) ==
  thread[t].at # "idle" =>
    LET p == thread[t].payment IN
    /\ p \in Payments
    /\ payment[p].status # "absent"
    /\ thread[t].at = "announce" /\ thread[t].accepted => payment[p].txn
    /\ thread[t].at = "refund" => payment[p].txn

\* Messages, sent or not yet sent, speak of orders that exist, and those that
\* report a completed payment of orders that were charged.
Existing == {o \in Orders : OrderExists(o)}

UnsentCreatedSound ==
  \A p \in unsent : p.subject = "created" => p.msg.order \in Existing

CreatedSound ==
  \A i \in 1..Len(nats.created) : nats.created[i].order \in Existing

CompletedSound ==
  \A i \in 1..Len(nats.completed) : nats.completed[i] \in ChargedOrders

NewsSound == UnsentCreatedSound /\ CreatedSound /\ CompletedSound

IInv ==
  /\ TypeOK
  /\ \A p \in Payments : RowSound(p)
  /\ \A t \in Threads : ThreadSound(t)
  /\ NewsSound
  /\ ConfirmedWasCharged

-----------------------------------------------------------------------------
(* Type correctness.                                                        *)

\* A goroutine moves on to one of the stages, or rests.
LEMMA ThreadType ==
  ASSUME thread \in [Threads -> Activity], NEW t \in Threads
  PROVE  /\ \A st \in Stage : Goes(t, st) => thread' \in [Threads -> Activity]
         /\ \A st \in Stage, p \in Payments, a \in BOOLEAN :
              Works(t, st, p, a) => thread' \in [Threads -> Activity]
         /\ Rests(t) => thread' \in [Threads -> Activity]
<1>1. ASSUME NEW st \in Stage, Goes(t, st) PROVE thread' \in [Threads -> Activity]
  <2>1. [thread[t] EXCEPT !.at = st] \in Activity
    BY DEF Activity
  <2> QED BY <1>1, <2>1 DEF Goes
<1>2. ASSUME NEW st \in Stage, NEW p \in Payments, NEW a \in BOOLEAN, Works(t, st, p, a)
      PROVE  thread' \in [Threads -> Activity]
  <2>1. [at |-> st, payment |-> p, accepted |-> a] \in Activity
    BY DEF Activity
  <2> QED BY <1>2, <2>1 DEF Works
<1>3. ASSUME Rests(t) PROVE thread' \in [Threads -> Activity]
  <2>1. Idle \in Activity
    BY DEF Idle, Activity, Stage
  <2> QED BY <1>3, <2>1 DEF Rests
<1> QED BY <1>1, <1>2, <1>3

\* The steps of order-service keep its tables and the bus well typed.
LEMMA OrderStepType == TypeOK /\ OrderNext => TypeOK'
<1> SUFFICES ASSUME TypeOK, OrderNext PROVE TypeOK'
  OBVIOUS
<1>1. OrderTyped
  BY DEF TypeOK, OrderTyped
<1>2. UNCHANGED <<paymentVars, faults>> /\ OrderTyped'
  <2>1. ASSUME NEW o \in Orders, NEW total \in Totals, NEW token \in Token,
               PlaceOrder(o, total, token)
        PROVE  UNCHANGED <<paymentVars, faults>> /\ OrderTyped'
    BY <1>1, <2>1, TotalsAssumption, CheckoutType DEF PlaceOrder
  <2>2. ASSUME NEW o \in Orders, CustomerCancels(o)
        PROVE  UNCHANGED <<paymentVars, faults>> /\ OrderTyped'
    BY <1>1, <2>2, CancelOrderType DEF CustomerCancels
  <2>3. ASSUME NEW o \in Orders, NEW s \in Sellers, NEW st \in OrderStatus,
               SellerUpdates(o, s, st)
        PROVE  UNCHANGED <<paymentVars, faults>> /\ OrderTyped'
    BY <1>1, <2>3, UpdateItemType DEF SellerUpdates
  <2>4. CASE OnCompleted
    BY <1>1, <2>4, PaymentCompletedType DEF OnCompleted
  <2>5. CASE OnFailed
    BY <1>1, <2>5, PaymentFailedType DEF OnFailed
  <2>6. ASSUME NEW p \in unsent, OrderPublishes(p)
        PROVE  UNCHANGED <<paymentVars, faults>> /\ OrderTyped'
    BY <1>1, <2>6, PublishOrderType DEF OrderPublishes
  <2> QED BY <2>1, <2>2, <2>3, <2>4, <2>5, <2>6 DEF OrderNext
<1> QED BY <1>2 DEF TypeOK, OrderTyped, PaymentTypeOK, paymentVars

\* A busy goroutine that works on an existing row writes a well-typed row.
LEMMA RowType ==
  ASSUME payment \in [Payments -> PaymentRow], NEW p \in Payments
  PROVE  /\ \A st \in PaymentStatus :
              UpdatePaymentStatus(p, st) => payment' \in [Payments -> PaymentRow]
         /\ \A o \in Orders :
              InsertPayment(p, o) => payment' \in [Payments -> PaymentRow]
<1>1. ASSUME NEW st \in PaymentStatus, UpdatePaymentStatus(p, st)
      PROVE  payment' \in [Payments -> PaymentRow]
  <2>1. [payment[p] EXCEPT !.status = st] \in PaymentRow
    BY DEF PaymentRow
  <2> QED BY <1>1, <2>1 DEF UpdatePaymentStatus
<1>2. ASSUME NEW o \in Orders, InsertPayment(p, o)
      PROVE  payment' \in [Payments -> PaymentRow]
  <2>1. [order |-> o, status |-> "pending", txn |-> FALSE] \in PaymentRow
    BY DEF PaymentRow, PaymentStatus
  <2> QED BY <1>2, <2>1 DEF InsertPayment
<1> QED BY <1>1, <1>2

\* So do the steps of payment-service.  A busy goroutine's payment must be one
\* (and its row that of an order) for its writes to be well typed.
LEMMA PaymentStepType ==
  ASSUME TypeOK, \A p \in Payments : RowSound(p), \A t \in Threads : ThreadSound(t),
         NewsSound, PaymentNext
  PROVE  TypeOK'
<1> USE DEF TypeOK, PaymentTypeOK
<1>1. ASSUME NEW o \in Orders, NEW p \in Payments, InitiatePayment(o, p)
      PROVE  TypeOK'
  BY <1>1, RowType
     DEF InitiatePayment, CreatePayment, orderVars, OrderTypeOK
<1>2. ASSUME NEW t \in Rpc, NEW p \in Payments, NEW accepted \in BOOLEAN,
             CallsProcess(t, p, accepted)
      PROVE  TypeOK'
  BY <1>2, ThreadType
     DEF CallsProcess, ProcessPayment, BeginProcess, Threads, Stage, orderVars,
         OrderTypeOK
<1>3. ASSUME NEW t \in Rpc, NEW p \in Payments, CallsRefund(t, p)
      PROVE  TypeOK'
  BY <1>3, ThreadType
     DEF CallsRefund, RefundPayment, Threads, Stage, orderVars, OrderTypeOK
<1>4. CASE OnCreated
  <2>1. /\ Head(nats.created) \in CreatedMsg
        /\ nats' \in NatsType
        /\ UNCHANGED <<orderVars, faults>>
    BY <1>4, TakenType
       DEF OnCreated, HandleOrderCreated, Pending, NatsType, Subjects
  <2>2. PICK m \in CreatedMsg : m = Head(nats.created)
    BY <2>1
  <2>3. m.order \in Orders
    BY <2>2 DEF CreatedMsg
  <2>4. CASE m.total > 0
    <3>1. PICK p \in Payments :
            /\ InsertPayment(p, m.order)
            /\ IF m.token = "none"
               THEN UNCHANGED thread
               ELSE Works("onOrderCreated", "authorize", p, m.token = "accepted")
      BY <1>4, <2>2, <2>4 DEF OnCreated, HandleOrderCreated
    <3>2. payment' \in [Payments -> PaymentRow]
      BY <2>3, <3>1, RowType
    <3>3. thread' \in [Threads -> Activity]
      BY <3>1, ThreadType DEF Threads, Stage
    <3> QED BY <2>1, <3>2, <3>3 DEF orderVars, OrderTypeOK
  <2>5. CASE ~(m.total > 0)
    <3>1. UNCHANGED paymentVars
      BY <1>4, <2>2, <2>5 DEF OnCreated, HandleOrderCreated
    <3> QED BY <2>1, <3>1 DEF orderVars, OrderTypeOK, paymentVars
  <2> QED BY <2>4, <2>5
<1>5. CASE OnCancelled
  <2>1. /\ nats' \in NatsType
        /\ UNCHANGED <<orderVars, faults, payment>>
    BY <1>5, TakenType DEF OnCancelled, HandleOrderCancelled, Subjects
  <2>2. thread' \in [Threads -> Activity]
    BY <1>5, ThreadType
       DEF OnCancelled, HandleOrderCancelled, PaymentsOf, Threads, Stage
  <2> QED BY <2>1, <2>2 DEF orderVars, OrderTypeOK
<1>6. ASSUME NEW t \in Threads, Proceeds(t) PROVE TypeOK'
  <2>1. UNCHANGED <<orderVars, faults>>
    BY <1>6 DEF Proceeds
  <2> DEFINE p == thread[t].payment
  <2>2. CASE SettlePayment(t)
    <3>1. p \in Payments
      BY <2>2 DEF SettlePayment, ThreadSound
    <3>2. /\ [payment[p] EXCEPT !.status = "completed", !.txn = TRUE] \in PaymentRow
          /\ [payment[p] EXCEPT !.status = "failed"] \in PaymentRow
      BY <3>1 DEF PaymentRow, PaymentStatus
    <3>3. payment' \in [Payments -> PaymentRow]
      BY <2>2, <3>1, <3>2 DEF SettlePayment
    <3> QED BY <2>1, <2>2, <3>3, ThreadType DEF SettlePayment, Stage, orderVars, OrderTypeOK
  <2>3. CASE AnnouncePayment(t)
    <3>1. payment[p].order \in Orders
      BY <2>3 DEF AnnouncePayment, ThreadSound, RowSound
    <3>2. nats' \in NatsType
      BY <2>3, <3>1, PublishedType DEF AnnouncePayment
    <3> QED BY <2>1, <2>3, <3>2, ThreadType DEF AnnouncePayment, orderVars, OrderTypeOK
  <2>4. CASE CommitRefund(t)
    <3>1. p \in Payments
      BY <2>4 DEF CommitRefund, ThreadSound
    <3> QED BY <2>1, <2>4, <3>1, ThreadType, RowType
            DEF CommitRefund, PaymentStatus, orderVars, OrderTypeOK
  <2>5. CASE AuthorizeCreated(t)
    <3>1. p \in Payments /\ thread[t].accepted \in BOOLEAN
      BY <2>5 DEF AuthorizeCreated, ThreadSound, Activity
    <3> QED BY <2>1, <2>5, <3>1, ThreadType
            DEF AuthorizeCreated, BeginProcess, Stage, orderVars, OrderTypeOK
  <2>6. CASE RefundCancelled(t)
    BY <2>1, <2>6, ThreadType DEF RefundCancelled, Stage, orderVars, OrderTypeOK
  <2>7. CASE FailCancelled(t)
    <3>1. p \in Payments
      BY <2>7 DEF FailCancelled, ThreadSound
    <3> QED BY <2>1, <2>7, <3>1, ThreadType, RowType
            DEF FailCancelled, PaymentStatus, orderVars, OrderTypeOK
  <2> QED BY <1>6, <2>2, <2>3, <2>4, <2>5, <2>6, <2>7 DEF Proceeds, ThreadStep
<1> QED BY <1>1, <1>2, <1>3, <1>4, <1>5, <1>6 DEF PaymentNext

\* So do faults and what seller-service takes.
LEMMA EnvironmentStepType == TypeOK /\ (SellerTakes \/ Fault) => TypeOK'
<1> SUFFICES ASSUME TypeOK, SellerTakes \/ Fault PROVE TypeOK'
  OBVIOUS
<1> USE DEF TypeOK, PaymentTypeOK, OrderTypeOK, orderVars, paymentVars
<1>1. CASE SellerTakes
  BY <1>1, TakenType DEF SellerTakes, Subjects
<1>2. CASE MessageLost
  BY <1>2, TakenType, BoundsAssumption
     DEF MessageLost, OneMoreFault, NatsLose, Subjects
<1>3. CASE OrderServiceDies
  BY <1>3, BoundsAssumption DEF OrderServiceDies, OneMoreFault, LoseOrderEvent
<1>4. ASSUME NEW t \in Threads, CallCutShort(t) PROVE TypeOK'
  BY <1>4, ThreadType, BoundsAssumption
     DEF CallCutShort, OneMoreFault, AbortThread, Stage
<1> QED BY <1>1, <1>2, <1>3, <1>4 DEF Fault

-----------------------------------------------------------------------------
(* What no step undoes.                                                     *)

\* No step of payment-service frees a row, gives it to another order, or
\* forgets that it was charged.
LEMMA PaymentKeepsRows ==
  ASSUME IInv, PaymentNext, NEW p \in Payments, payment[p].status # "absent"
  PROVE  /\ payment'[p].status # "absent"
         /\ payment'[p].order = payment[p].order
         /\ payment[p].txn => payment'[p].txn
<1> USE DEF IInv, TypeOK, PaymentTypeOK
<1>1. ASSUME NEW q \in Payments, NEW o \in Orders, InsertPayment(q, o)
      PROVE  payment'[p] = payment[p]
  BY <1>1 DEF InsertPayment
<1>2. ASSUME NEW t \in Threads, thread[t].at # "idle" PROVE thread[t].payment \in Payments
  BY <1>2 DEF ThreadSound
<1>3. ASSUME NEW q \in Payments, NEW st \in PaymentStatus, UpdatePaymentStatus(q, st)
      PROVE  /\ payment'[p].status # "absent"
             /\ payment'[p].order = payment[p].order
             /\ payment[p].txn => payment'[p].txn
  BY <1>3 DEF UpdatePaymentStatus, PaymentRow, PaymentStatus
<1>4. ASSUME NEW o \in Orders, NEW q \in Payments, InitiatePayment(o, q)
      PROVE  payment'[p] = payment[p]
  BY <1>1, <1>4 DEF InitiatePayment, CreatePayment
<1>5. CASE OnCreated
  <2>1. Head(nats.created) \in CreatedMsg
    BY <1>5 DEF OnCreated, HandleOrderCreated, Pending, NatsType
  <2>2. payment' = payment \/ \E q \in Payments, o \in Orders : InsertPayment(q, o)
    BY <1>5, <2>1 DEF OnCreated, HandleOrderCreated, CreatedMsg, paymentVars
  <2> QED BY <1>1, <2>2
<1>6. ASSUME NEW t \in Threads, SettlePayment(t)
      PROVE  /\ payment'[p].status # "absent"
             /\ payment'[p].order = payment[p].order
             /\ payment[p].txn => payment'[p].txn
  BY <1>2, <1>6 DEF SettlePayment, PaymentRow
<1>7. ASSUME NEW t \in Threads, CommitRefund(t) \/ FailCancelled(t)
      PROVE  \E q \in Payments, st \in PaymentStatus : UpdatePaymentStatus(q, st)
  BY <1>2, <1>7 DEF CommitRefund, FailCancelled, PaymentStatus
<1>8. ASSUME NEW t \in Threads,
             AnnouncePayment(t) \/ AuthorizeCreated(t) \/ RefundCancelled(t)
      PROVE  payment' = payment
  BY <1>8 DEF AnnouncePayment, AuthorizeCreated, BeginProcess, RefundCancelled
<1>9. CASE OnCancelled
  BY <1>9 DEF OnCancelled, HandleOrderCancelled
<1>10. ASSUME NEW t \in Rpc, NEW q \in Payments,
              CallsRefund(t, q) \/ \E accepted \in BOOLEAN : CallsProcess(t, q, accepted)
       PROVE  payment' = payment
  BY <1>10 DEF CallsRefund, RefundPayment, CallsProcess, ProcessPayment, BeginProcess
<1> QED BY <1>3, <1>4, <1>5, <1>6, <1>7, <1>8, <1>9, <1>10
        DEF PaymentNext, Proceeds, ThreadStep

\* Nor does any other step.
LEMMA RowsKept ==
  ASSUME IInv, [Next]_vars, NEW p \in Payments, payment[p].status # "absent"
  PROVE  /\ payment'[p].status # "absent"
         /\ payment'[p].order = payment[p].order
         /\ payment[p].txn => payment'[p].txn
<1>1. CASE PaymentNext
  BY <1>1, PaymentKeepsRows
<1>2. CASE ~PaymentNext
  <2>1. payment' = payment
    BY <1>2 DEF Next, OrderNext, PlaceOrder, CustomerCancels, SellerUpdates, OnCompleted,
                OnFailed, OrderPublishes, SellerTakes, Fault, MessageLost,
                OrderServiceDies, CallCutShort, AbortThread, paymentVars, vars
  <2> QED BY <2>1
<1> QED BY <1>1, <1>2

\* An order that was charged stays charged.
LEMMA ChargesKept ==
  ASSUME IInv, [Next]_vars, NEW o \in Orders, Charged(o)
  PROVE  Charged(o)'
<1>1. PICK p \in Payments : payment[p].order = o /\ payment[p].txn
  BY DEF Charged, PaymentsOf
<1>2. payment[p].status # "absent"
  BY <1>1, NoOrderAssumption DEF IInv, RowSound
<1> QED BY <1>1, <1>2, RowsKept DEF Charged, PaymentsOf

\* An order that exists stays.
LEMMA OrdersKept ==
  ASSUME IInv, [Next]_vars, NEW o \in Orders, OrderExists(o)
  PROVE  OrderExists(o)'
<1> USE DEF IInv, TypeOK, OrderTypeOK, OrderExists
<1>1. ASSUME NEW q \in Orders, NEW st \in {"confirmed", "cancelled"},
             orders' = SetOrder(q, st)
      PROVE  OrderExists(o)'
  BY <1>1 DEF SetOrder, OrderRow
<1>2. ASSUME NEW q \in Orders, NEW total \in Totals, NEW token \in Token,
             PlaceOrder(q, total, token)
      PROVE  OrderExists(o)'
  BY <1>2 DEF PlaceOrder, Checkout
<1>3. ASSUME NEW q \in Orders, CustomerCancels(q) PROVE OrderExists(o)'
  BY <1>3 DEF CustomerCancels, CancelOrder, OrderRow
<1>4. ASSUME NEW q \in Orders, NEW s \in Sellers, NEW st \in OrderStatus,
             SellerUpdates(q, s, st)
      PROVE  OrderExists(o)'
  BY <1>4 DEF SellerUpdates, UpdateSellerOrderItemStatus, OrderRow
<1>5. CASE OnCompleted
  <2>1. Head(nats.completed) \in Orders
    BY <1>5 DEF OnCompleted, HandlePaymentCompleted, Pending, NatsType
  <2> QED BY <1>1, <1>5, <2>1 DEF OnCompleted, HandlePaymentCompleted
<1>6. CASE OnFailed
  <2>1. Head(nats.failed) \in Orders
    BY <1>6 DEF OnFailed, HandlePaymentFailed, Pending, NatsType
  <2> QED BY <1>1, <1>6, <2>1 DEF OnFailed, HandlePaymentFailed
<1>7. CASE ~OrderNext
  <2>1. orders' = orders
    BY <1>7 DEF Next, PaymentNext, InitiatePayment, CallsProcess, CallsRefund,
                OnCreated, OnCancelled, Proceeds, SellerTakes, Fault, MessageLost,
                OrderServiceDies, LoseOrderEvent, CallCutShort, orderVars, vars
  <2> QED BY <2>1
<1>8. ASSUME NEW p \in unsent, OrderPublishes(p) PROVE orders' = orders
  BY <1>8 DEF OrderPublishes, PublishOrderEvent
<1> QED BY <1>2, <1>3, <1>4, <1>5, <1>6, <1>7, <1>8 DEF OrderNext

-----------------------------------------------------------------------------
(* The inductive step, part by part.                                        *)

\* What a step may do to a row: insert it for an existing order, or write a
\* status that tells the truth about the money.
LEMMA RowStep ==
  ASSUME IInv, [Next]_vars, NEW p \in Payments
  PROVE  \/ payment'[p] = payment[p]
         \/ /\ payment[p].status = "absent"
            /\ \E o \in Orders :
                 /\ OrderExists(o)
                 /\ payment'[p] = [order |-> o, status |-> "pending", txn |-> FALSE]
         \/ /\ payment[p].status # "absent"
            /\ payment'[p].status \in {"completed", "refunded"} => payment'[p].txn
<1> USE DEF IInv, TypeOK, PaymentTypeOK
<1>1. ASSUME NEW q \in Payments, NEW o \in Orders, OrderExists(o), InsertPayment(q, o)
      PROVE  \/ payment'[p] = payment[p]
             \/ /\ payment[p].status = "absent"
                /\ payment'[p] = [order |-> o, status |-> "pending", txn |-> FALSE]
  BY <1>1 DEF InsertPayment
<1>2. ASSUME NEW o \in Orders, NEW q \in Payments, InitiatePayment(o, q)
      PROVE  OrderExists(o) /\ InsertPayment(q, o)
  BY <1>2 DEF InitiatePayment, CreatePayment
<1>3. CASE OnCreated
  <2>1. /\ Head(nats.created) = nats.created[1]
        /\ 1 \in 1..Len(nats.created)
        /\ nats.created[1] \in CreatedMsg
    BY <1>3 DEF OnCreated, HandleOrderCreated, Pending, NatsType
  <2>2. nats.created[1].order \in Orders /\ OrderExists(nats.created[1].order)
    BY <2>1 DEF NewsSound, CreatedSound, Existing
  <2>3. payment' = payment \/ \E q \in Payments : InsertPayment(q, nats.created[1].order)
    BY <1>3, <2>1 DEF OnCreated, HandleOrderCreated, paymentVars
  <2> QED BY <1>1, <2>2, <2>3
<1>4. ASSUME NEW t \in Threads, Proceeds(t)
      PROVE  \/ payment'[p] = payment[p]
             \/ /\ payment[p].status # "absent"
                /\ payment'[p].status \in {"completed", "refunded"} => payment'[p].txn
  <2> DEFINE q == thread[t].payment
  <2>1. CASE SettlePayment(t)
    <3>1. q \in Payments /\ payment[q].status # "absent"
      BY <2>1 DEF SettlePayment, ThreadSound
    <3>2. CASE q = p
      BY <2>1, <3>1, <3>2 DEF SettlePayment, PaymentRow
    <3>3. CASE q # p
      BY <2>1, <3>1, <3>3 DEF SettlePayment
    <3> QED BY <3>2, <3>3
  <2>2. CASE CommitRefund(t)
    <3>1. q \in Payments /\ payment[q].status # "absent" /\ payment[q].txn
      BY <2>2 DEF CommitRefund, ThreadSound
    <3> QED BY <2>2, <3>1 DEF CommitRefund, UpdatePaymentStatus, PaymentRow
  <2>3. CASE FailCancelled(t)
    <3>1. q \in Payments /\ payment[q].status # "absent"
      BY <2>3 DEF FailCancelled, ThreadSound
    <3> QED BY <2>3, <3>1 DEF FailCancelled, UpdatePaymentStatus, PaymentRow
  <2>4. CASE AnnouncePayment(t) \/ AuthorizeCreated(t) \/ RefundCancelled(t)
    BY <2>4 DEF AnnouncePayment, AuthorizeCreated, BeginProcess, RefundCancelled
  <2> QED BY <1>4, <2>1, <2>2, <2>3, <2>4 DEF Proceeds, ThreadStep
<1>5. ASSUME NEW t \in Rpc, NEW q \in Payments,
             CallsRefund(t, q) \/ \E accepted \in BOOLEAN : CallsProcess(t, q, accepted)
      PROVE  payment' = payment
  BY <1>5 DEF CallsRefund, RefundPayment, CallsProcess, ProcessPayment, BeginProcess
<1>6. CASE OnCancelled
  BY <1>6 DEF OnCancelled, HandleOrderCancelled
<1>7. CASE ~PaymentNext
  BY <1>7 DEF Next, OrderNext, PlaceOrder, CustomerCancels, SellerUpdates, OnCompleted,
              OnFailed, OrderPublishes, SellerTakes, Fault, MessageLost,
              OrderServiceDies, CallCutShort, AbortThread, paymentVars, vars
<1> QED BY <1>1, <1>2, <1>3, <1>4, <1>5, <1>6, <1>7 DEF PaymentNext

\* Rows stay sound.
LEMMA RowSoundStep ==
  ASSUME IInv, [Next]_vars, NEW p \in Payments
  PROVE  RowSound(p)'
<1>1. RowSound(p)
  BY DEF IInv
<1>2. CASE payment'[p] = payment[p]
  BY <1>1, <1>2, OrdersKept DEF RowSound
<1>3. ASSUME payment[p].status = "absent", NEW o \in Orders, OrderExists(o),
             payment'[p] = [order |-> o, status |-> "pending", txn |-> FALSE]
      PROVE  RowSound(p)'
  BY <1>3, OrdersKept DEF RowSound
<1>4. CASE /\ payment[p].status # "absent"
           /\ payment'[p].status \in {"completed", "refunded"} => payment'[p].txn
  <2>1. payment'[p].status # "absent" /\ payment'[p].order = payment[p].order
    BY <1>4, RowsKept
  <2> QED BY <1>1, <1>4, <2>1, OrdersKept DEF RowSound
<1> QED BY <1>2, <1>3, <1>4, RowStep

\* What a step may do to a goroutine, as far as soundness is concerned: leave it
\* or put it to rest, move it within its call, or start it on an existing row.
LEMMA ThreadSoundStep ==
  ASSUME IInv, [Next]_vars, NEW t \in Threads
  PROVE  ThreadSound(t)'
<1> USE DEF IInv, TypeOK, PaymentTypeOK
<1>1. ASSUME thread'[t] = thread[t] PROVE ThreadSound(t)'
  BY <1>1, RowsKept DEF ThreadSound
<1>2. ASSUME thread'[t] = Idle PROVE ThreadSound(t)'
  BY <1>2 DEF ThreadSound, Idle
<1>3. ASSUME NEW p \in Payments, payment'[p].status # "absent",
             thread'[t].payment = p, thread'[t].at \notin {"announce", "refund"}
      PROVE  ThreadSound(t)'
  BY <1>3 DEF ThreadSound
<1>4. ASSUME NEW p \in Payments, payment'[p].status # "absent", payment'[p].txn,
             thread'[t].payment = p
      PROVE  ThreadSound(t)'
  BY <1>4 DEF ThreadSound
<1>5. ASSUME NEW u \in Rpc, NEW p \in Payments, NEW accepted \in BOOLEAN,
             CallsProcess(u, p, accepted)
      PROVE  ThreadSound(t)'
  BY <1>1, <1>3, <1>5
     DEF CallsProcess, ProcessPayment, BeginProcess, Works, Threads
<1>6. ASSUME NEW u \in Rpc, NEW p \in Payments, CallsRefund(u, p)
      PROVE  ThreadSound(t)'
  <2>1. payment[p].txn /\ payment' = payment /\ payment[p].status # "absent"
    BY <1>6 DEF CallsRefund, RefundPayment, RowSound
  <2> QED BY <1>1, <1>4, <1>6, <2>1 DEF CallsRefund, RefundPayment, Works, Threads
<1>7. CASE OnCreated
  <2>1. CASE thread' = thread
    BY <1>1, <2>1
  <2>2. ASSUME NEW p \in Payments, NEW o, InsertPayment(p, o), NEW accepted,
               Works("onOrderCreated", "authorize", p, accepted)
        PROVE  ThreadSound(t)'
    <3>1. payment'[p].status # "absent"
      BY <2>2 DEF InsertPayment
    <3> QED BY <1>1, <1>3, <2>2, <3>1 DEF Works, Threads
  <2> QED BY <1>7, <2>1, <2>2 DEF OnCreated, HandleOrderCreated, paymentVars
<1>8. CASE OnCancelled
  <2>1. CASE thread' = thread
    BY <1>1, <2>1
  <2>2. ASSUME NEW p \in Payments, payment[p].status = "pending", payment' = payment,
               Works("onOrderCancelled", "probe", p, FALSE)
        PROVE  ThreadSound(t)'
    BY <1>1, <1>3, <2>2 DEF Works, Threads
  <2> QED BY <1>8, <2>1, <2>2 DEF OnCancelled, HandleOrderCancelled, PaymentsOf
<1>9. ASSUME NEW u \in Threads, Proceeds(u) PROVE ThreadSound(t)'
  <2> DEFINE p == thread[u].payment
  <2>1. CASE u # t
    BY <1>1, <1>9, <2>1 DEF Proceeds, ThreadStep, SettlePayment, AnnouncePayment,
       CommitRefund, AuthorizeCreated, BeginProcess, RefundCancelled, FailCancelled,
       Goes, Works, Rests
  <2>2. CASE u = t /\ SettlePayment(t)
    <3>1. p \in Payments /\ payment[p].status # "absent"
      BY <2>2 DEF SettlePayment, ThreadSound
    <3>2. payment'[p].status # "absent" /\ (thread[t].accepted => payment'[p].txn)
      BY <2>2, <3>1 DEF SettlePayment, PaymentRow
    <3>3. thread'[t] = [thread[t] EXCEPT !.at = "announce"]
      BY <2>2 DEF SettlePayment, Goes
    <3> QED BY <2>2, <3>1, <3>2, <3>3 DEF ThreadSound, Activity
  <2>3. CASE u = t /\ AuthorizeCreated(t)
    <3>1. p \in Payments /\ payment[p].status # "absent" /\ payment' = payment
      BY <2>3 DEF AuthorizeCreated, BeginProcess, ThreadSound
    <3> QED BY <1>2, <1>3, <2>3, <3>1
            DEF AuthorizeCreated, BeginProcess, Works, Rests
  <2>4. CASE u = t /\ RefundCancelled(t)
    <3>1. p \in Payments /\ payment[p].status # "absent" /\ payment' = payment
      BY <2>4 DEF RefundCancelled, ThreadSound
    <3>2. CASE payment[p].status = "completed"
      <4>1. payment[p].txn /\ thread'[t].payment = p
        BY <2>4, <3>1, <3>2 DEF RefundCancelled, RowSound, Goes, Activity
      <4> QED BY <1>4, <3>1, <4>1
    <3>3. CASE payment[p].status # "completed"
      <4>1. thread'[t].payment = p /\ thread'[t].at = "fail"
        BY <2>4, <3>1, <3>3 DEF RefundCancelled, Goes, Activity
      <4> QED BY <1>3, <3>1, <4>1
    <3> QED BY <3>2, <3>3
  <2>5. CASE u = t /\ (AnnouncePayment(t) \/ CommitRefund(t) \/ FailCancelled(t))
    BY <1>2, <2>5 DEF AnnouncePayment, CommitRefund, FailCancelled, Rests
  <2> QED BY <1>9, <2>1, <2>2, <2>3, <2>4, <2>5 DEF Proceeds, ThreadStep
<1>10. ASSUME NEW u \in Threads, CallCutShort(u) PROVE ThreadSound(t)'
  <2>1. payment' = payment
    BY <1>10 DEF CallCutShort, AbortThread
  <2>2. CASE Rests(u)
    BY <1>1, <1>2, <2>2 DEF Rests
  <2>3. CASE thread[u].at # "idle" /\ Goes(u, "fail")
    <3>1. CASE u # t
      BY <1>1, <2>3, <3>1 DEF Goes
    <3>2. CASE u = t
      <4>1. /\ thread[t].payment \in Payments
            /\ payment[thread[t].payment].status # "absent"
        BY <2>3, <3>2 DEF ThreadSound
      <4>2. thread'[t].payment = thread[t].payment /\ thread'[t].at = "fail"
        BY <2>3, <3>2 DEF Goes, Activity
      <4> QED BY <1>3, <2>1, <4>1, <4>2
    <3> QED BY <3>1, <3>2
  <2> QED BY <1>10, <2>2, <2>3 DEF CallCutShort, AbortThread
<1>11. CASE UNCHANGED thread
  BY <1>1, <1>11
<1>12. CASE OrderNext \/ SellerTakes \/ MessageLost \/ OrderServiceDies \/ UNCHANGED vars
            \/ \E o \in Orders, p \in Payments : InitiatePayment(o, p)
  <2>1. UNCHANGED thread
    BY <1>12 DEF OrderNext, PlaceOrder, CustomerCancels, SellerUpdates, OnCompleted,
                 OnFailed, OrderPublishes, SellerTakes, MessageLost, OrderServiceDies,
                 InitiatePayment, CreatePayment, paymentVars, vars
  <2> QED BY <1>11, <2>1
<1> QED BY <1>5, <1>6, <1>7, <1>8, <1>9, <1>10, <1>12 DEF Next, PaymentNext, Fault

\* The messages payment.completed: a step handles or loses the oldest one, or
\* appends the one it announces, or leaves them alone.
LEMMA CompletedQueueStep ==
  ASSUME IInv, [Next]_vars
  PROVE  \/ nats'.completed = nats.completed
         \/ /\ OnCompleted \/ MessageLost
            /\ nats.completed # <<>>
            /\ nats'.completed = Tail(nats.completed)
         \/ \E t \in Threads :
              /\ thread[t].at = "announce"
              /\ thread[t].accepted
              /\ nats'.completed =
                   Append(nats.completed, payment[thread[t].payment].order)
<1> USE DEF IInv, TypeOK, NatsType
<1>1. ASSUME NEW subject \in Subjects \ {"completed"}, NatsLose(subject)
      PROVE  nats'.completed = nats.completed
  BY <1>1 DEF NatsLose, Pending, Taken, Subjects
<1>2. CASE OnCompleted
  BY <1>2 DEF OnCompleted, HandlePaymentCompleted, Pending, Taken
<1>3. CASE OnFailed
  BY <1>1, <1>3 DEF OnFailed, HandlePaymentFailed, NatsLose, Subjects
<1>4. ASSUME NEW p \in unsent, OrderPublishes(p) PROVE nats'.completed = nats.completed
  <2>1. p.subject # "completed"
    BY DEF OrderTypeOK, Publication
  <2> QED BY <1>4, <2>1 DEF OrderPublishes, PublishOrderEvent, Published
<1>5. CASE OnCreated
  BY <1>1, <1>5 DEF OnCreated, HandleOrderCreated, NatsLose, Subjects
<1>6. CASE OnCancelled
  BY <1>1, <1>6 DEF OnCancelled, HandleOrderCancelled, NatsLose, Subjects
<1>7. ASSUME NEW t \in Threads, AnnouncePayment(t)
      PROVE  \/ nats'.completed = nats.completed
             \/ /\ thread[t].at = "announce"
                /\ thread[t].accepted
                /\ nats'.completed =
                     Append(nats.completed, payment[thread[t].payment].order)
  BY <1>7 DEF AnnouncePayment, Published
<1>8. ASSUME NEW t \in Threads, Proceeds(t), ~AnnouncePayment(t) PROVE nats' = nats
  BY <1>8 DEF Proceeds, ThreadStep, SettlePayment, CommitRefund, AuthorizeCreated,
              BeginProcess, RefundCancelled, FailCancelled
<1>9. CASE SellerTakes
  BY <1>1, <1>9 DEF SellerTakes, NatsLose, Subjects
<1>10. CASE MessageLost
  <2>1. CASE NatsLose("completed")
    BY <1>10, <2>1 DEF NatsLose, Pending, Taken
  <2>2. CASE ~NatsLose("completed")
    BY <1>1, <1>10, <2>2 DEF MessageLost, Subjects
  <2> QED BY <2>1, <2>2
<1>11. CASE \/ \E o \in Orders, total \in Totals, token \in Token : PlaceOrder(o, total, token)
            \/ \E o \in Orders : CustomerCancels(o)
            \/ \E o \in Orders, s \in Sellers, st \in OrderStatus : SellerUpdates(o, s, st)
            \/ \E o \in Orders, p \in Payments : InitiatePayment(o, p)
            \/ \E t \in Rpc, p \in Payments, accepted \in BOOLEAN : CallsProcess(t, p, accepted)
            \/ \E t \in Rpc, p \in Payments : CallsRefund(t, p)
            \/ OrderServiceDies
            \/ \E t \in Threads : CallCutShort(t)
            \/ UNCHANGED vars
  <2>1. UNCHANGED nats
    BY <1>11 DEF PlaceOrder, Checkout, CustomerCancels, CancelOrder, SellerUpdates,
       UpdateSellerOrderItemStatus, InitiatePayment, CreatePayment, CallsProcess,
       ProcessPayment, BeginProcess, CallsRefund, RefundPayment, OrderServiceDies,
       LoseOrderEvent, CallCutShort, AbortThread, vars
  <2> QED BY <2>1
<1> QED BY <1>2, <1>3, <1>4, <1>5, <1>6, <1>7, <1>8, <1>9, <1>10, <1>11
        DEF Next, OrderNext, PaymentNext, Fault, Proceeds, ThreadStep

\* The messages order.created, sent or not yet sent, speak of existing orders.
LEMMA CreatedNewsStep ==
  ASSUME IInv, [Next]_vars
  PROVE  UnsentCreatedSound' /\ CreatedSound'
<1> USE DEF IInv
<1>0. Existing \subseteq Existing'
  BY OrdersKept DEF Existing
<1>1. ASSUME \A p \in unsent' : p.subject = "created" => p \in unsent
      PROVE  UnsentCreatedSound'
  BY <1>0, <1>1 DEF NewsSound, UnsentCreatedSound
<1>2. nats.created \in Seq(CreatedMsg)
  BY DEF TypeOK, NatsType
<1>3. ASSUME \/ nats'.created = nats.created
             \/ nats.created # <<>> /\ nats'.created = Tail(nats.created)
      PROVE  CreatedSound'
  <2>1. CASE nats'.created = nats.created
    BY <1>0, <2>1 DEF NewsSound, CreatedSound
  <2>2. CASE nats.created # <<>> /\ nats'.created = Tail(nats.created)
    <3>1. /\ Len(nats'.created) = Len(nats.created) - 1
          /\ \A i \in 1..Len(nats'.created) : nats'.created[i] = nats.created[i + 1]
          /\ Len(nats.created) \in Nat
      BY <1>2, <2>2
    <3> QED BY <1>0, <3>1 DEF NewsSound, CreatedSound
  <2> QED BY <1>3, <2>1, <2>2
<1>4. ASSUME NEW subject \in Subjects, NatsLose(subject) PROVE CreatedSound'
  <2>1. \/ nats'.created = nats.created
        \/ nats.created # <<>> /\ nats'.created = Tail(nats.created)
    BY <1>4 DEF NatsLose, Pending, Taken, Subjects, TypeOK, NatsType
  <2> QED BY <1>3, <2>1
<1>5. ASSUME unsent' \subseteq unsent PROVE UnsentCreatedSound'
  BY <1>1, <1>5
<1>6. ASSUME nats' = nats PROVE CreatedSound'
  BY <1>3, <1>6
<1>7. ASSUME NEW o \in Orders, NEW total \in Totals, NEW token \in Token,
             PlaceOrder(o, total, token)
      PROVE  UnsentCreatedSound' /\ CreatedSound'
  <2>1. o \in Existing'
    BY <1>7 DEF PlaceOrder, Checkout, OrderExists, Existing, TypeOK, OrderTypeOK
  <2>2. UnsentCreatedSound'
    BY <1>0, <1>7, <2>1
       DEF PlaceOrder, Checkout, ToPublish, NewsSound, UnsentCreatedSound
  <2>3. nats' = nats
    BY <1>7 DEF PlaceOrder, Checkout
  <2> QED BY <1>6, <2>2, <2>3
<1>8. ASSUME NEW o \in Orders, CustomerCancels(o)
      PROVE  UnsentCreatedSound' /\ CreatedSound'
  <2>1. \A p \in unsent' : p.subject = "created" => p \in unsent
    BY <1>8 DEF CustomerCancels, CancelOrder, ToPublish
  <2>2. nats' = nats
    BY <1>8 DEF CustomerCancels, CancelOrder
  <2> QED BY <1>1, <1>6, <2>1, <2>2
<1>9. ASSUME NEW o \in Orders, NEW s \in Sellers, NEW st \in OrderStatus,
             SellerUpdates(o, s, st)
      PROVE  UnsentCreatedSound' /\ CreatedSound'
  <2>1. \A p \in unsent' : p.subject = "created" => p \in unsent
    BY <1>9 DEF SellerUpdates, UpdateSellerOrderItemStatus, ToPublish
  <2>2. nats' = nats
    BY <1>9 DEF SellerUpdates, UpdateSellerOrderItemStatus
  <2> QED BY <1>1, <1>6, <2>1, <2>2
<1>10. CASE OnCompleted
  <2>1. \A p \in unsent' : p.subject = "created" => p \in unsent
    BY <1>10 DEF OnCompleted, HandlePaymentCompleted, ToPublish
  <2>2. "completed" \in Subjects /\ NatsLose("completed")
    BY <1>10 DEF OnCompleted, HandlePaymentCompleted, NatsLose, Subjects
  <2> QED BY <1>1, <1>4, <2>1, <2>2
<1>11. CASE OnFailed
  <2>1. unsent' \subseteq unsent
    BY <1>11 DEF OnFailed, HandlePaymentFailed
  <2>2. "failed" \in Subjects /\ NatsLose("failed")
    BY <1>11 DEF OnFailed, HandlePaymentFailed, NatsLose, Subjects
  <2> QED BY <1>4, <1>5, <2>1, <2>2
<1>12. ASSUME NEW p \in unsent, OrderPublishes(p)
       PROVE  UnsentCreatedSound' /\ CreatedSound'
  <2>1. unsent' \subseteq unsent
    BY <1>12 DEF OrderPublishes, PublishOrderEvent
  <2>2. ASSUME p.subject = "created" PROVE CreatedSound'
    <3>1. p.msg \in CreatedMsg
      BY <2>2 DEF TypeOK, OrderTypeOK, Publication
    <3>2. p.msg.order \in Existing'
      BY <1>0, <2>2 DEF NewsSound, UnsentCreatedSound
    <3>3. nats'.created = Append(nats.created, p.msg)
      BY <1>12, <2>2
         DEF OrderPublishes, PublishOrderEvent, Published, TypeOK, NatsType
    <3>4. \A i \in 1..Len(Append(nats.created, p.msg)) :
            \/ Append(nats.created, p.msg)[i] = p.msg
            \/ /\ i \in 1..Len(nats.created)
               /\ Append(nats.created, p.msg)[i] = nats.created[i]
      <4> DEFINE q == nats.created
      <4>1. q \in Seq(CreatedMsg) /\ p.msg \in CreatedMsg
        BY <1>2, <3>1
      <4> HIDE DEF q
      <4> QED BY <4>1, AppendedElements
    <3> QED BY <1>0, <3>2, <3>3, <3>4 DEF NewsSound, CreatedSound
  <2>3. ASSUME p.subject # "created" PROVE nats'.created = nats.created
    BY <1>12, <2>3 DEF OrderPublishes, PublishOrderEvent, Published, TypeOK, NatsType
  <2> QED BY <1>3, <1>5, <2>1, <2>2, <2>3
<1>13. CASE OrderNext
  BY <1>7, <1>8, <1>9, <1>10, <1>11, <1>12, <1>13 DEF OrderNext
<1>14. CASE PaymentNext
  <2>1. unsent' \subseteq unsent
    BY <1>14 DEF PaymentNext, InitiatePayment, CallsProcess, CallsRefund, OnCreated,
                 OnCancelled, Proceeds, orderVars
  <2>2. CASE OnCreated
    <3>1. "created" \in Subjects /\ NatsLose("created")
      BY <2>2 DEF OnCreated, HandleOrderCreated, NatsLose, Subjects
    <3> QED BY <1>4, <1>5, <2>1, <3>1
  <2>3. CASE OnCancelled
    <3>1. "cancelled" \in Subjects /\ NatsLose("cancelled")
      BY <2>3 DEF OnCancelled, HandleOrderCancelled, NatsLose, Subjects
    <3> QED BY <1>4, <1>5, <2>1, <3>1
  <2>4. ASSUME NEW t \in Threads, AnnouncePayment(t) PROVE nats'.created = nats.created
    BY <2>4 DEF AnnouncePayment, Published, TypeOK, NatsType
  <2>5. ASSUME NEW t \in Threads, Proceeds(t), ~AnnouncePayment(t) PROVE nats' = nats
    BY <2>5 DEF Proceeds, ThreadStep, SettlePayment, CommitRefund, AuthorizeCreated,
                BeginProcess, RefundCancelled, FailCancelled
  <2>6. ASSUME NEW t \in Rpc, NEW p \in Payments,
               CallsRefund(t, p) \/ \E accepted \in BOOLEAN : CallsProcess(t, p, accepted)
        PROVE  nats' = nats
    BY <2>6 DEF CallsRefund, RefundPayment, CallsProcess, ProcessPayment, BeginProcess
  <2>7. ASSUME NEW o \in Orders, NEW p \in Payments, InitiatePayment(o, p)
        PROVE  nats' = nats
    BY <2>7 DEF InitiatePayment, CreatePayment
  <2> QED BY <1>3, <1>5, <1>14, <2>1, <2>2, <2>3, <2>4, <2>5, <2>6, <2>7
          DEF PaymentNext
<1>15. CASE SellerTakes \/ MessageLost
  <2>1. unsent' \subseteq unsent /\ \E subject \in Subjects : NatsLose(subject)
    BY <1>15 DEF SellerTakes, MessageLost, NatsLose, Subjects, orderVars
  <2> QED BY <1>4, <1>5, <2>1
<1>16. CASE OrderServiceDies \/ (\E t \in Threads : CallCutShort(t)) \/ UNCHANGED vars
  <2>1. unsent' \subseteq unsent /\ nats' = nats
    BY <1>16 DEF OrderServiceDies, LoseOrderEvent, CallCutShort, AbortThread,
                 orderVars, vars
  <2> QED BY <1>5, <1>6, <2>1
<1> QED BY <1>13, <1>14, <1>15, <1>16 DEF Next, Fault

\* Messages and publications stay sound.
LEMMA NewsSoundStep == IInv /\ [Next]_vars => NewsSound'
<1> SUFFICES ASSUME IInv, [Next]_vars PROVE NewsSound'
  OBVIOUS
<1> USE DEF IInv
<1>1. ChargedOrders \subseteq ChargedOrders'
  BY ChargesKept DEF ChargedOrders
<1>2. nats.completed \in Seq(Orders)
  BY DEF TypeOK, NatsType
<1>3. CASE nats'.completed = nats.completed
  BY <1>1, <1>3, CreatedNewsStep DEF NewsSound, CompletedSound
<1>4. CASE nats.completed # <<>> /\ nats'.completed = Tail(nats.completed)
  <2>1. /\ Len(nats'.completed) = Len(nats.completed) - 1
        /\ \A i \in 1..Len(nats'.completed) :
             nats'.completed[i] = nats.completed[i + 1]
        /\ Len(nats.completed) \in Nat
    BY <1>2, <1>4
  <2> QED BY <1>1, <2>1, CreatedNewsStep DEF NewsSound, CompletedSound
<1>5. ASSUME NEW t \in Threads, thread[t].at = "announce", thread[t].accepted,
             nats'.completed =
               Append(nats.completed, payment[thread[t].payment].order)
      PROVE  NewsSound'
  <2> DEFINE o == payment[thread[t].payment].order
  <2>1. o \in ChargedOrders
    BY <1>5 DEF ThreadSound, RowSound, Charged, PaymentsOf, ChargedOrders
  <2>2. o \in Orders
    BY <2>1 DEF ChargedOrders
  <2>3. \A i \in 1..Len(Append(nats.completed, o)) :
          \/ Append(nats.completed, o)[i] = o
          \/ /\ i \in 1..Len(nats.completed)
             /\ Append(nats.completed, o)[i] = nats.completed[i]
    <3> DEFINE q == nats.completed
    <3>1. q \in Seq(Orders) /\ o \in Orders
      BY <1>2, <2>2
    <3> HIDE DEF q, o
    <3> QED BY <3>1, AppendedElements
  <2> QED BY <1>1, <1>5, <2>1, <2>3, CreatedNewsStep DEF NewsSound, CompletedSound
<1> QED BY <1>3, <1>4, <1>5, CompletedQueueStep

\* What a step may do to an order's status: nothing, or place, cancel or confirm
\* that one order, and confirm it only if it was charged.
LEMMA OrderStep ==
  ASSUME IInv, [Next]_vars
  PROVE  \/ \A x \in Orders : orders'[x].status = orders[x].status
         \/ \E o \in Orders :
              /\ \A x \in Orders \ {o} : orders'[x].status = orders[x].status
              /\ payment' = payment
              /\ \/ orders[o].status = "absent" /\ orders'[o].status = "pending"
                 \/ OrderExists(o) /\ orders'[o].status = "cancelled"
                 \/ o \in ChargedOrders /\ orders'[o].status = "confirmed"
<1> USE DEF IInv, TypeOK, OrderTypeOK
<1>1. ASSUME NEW o \in Orders, NEW total \in Totals, NEW token \in Token,
             PlaceOrder(o, total, token)
      PROVE  /\ \A x \in Orders \ {o} : orders'[x].status = orders[x].status
             /\ payment' = payment
             /\ orders[o].status = "absent" /\ orders'[o].status = "pending"
  BY <1>1 DEF PlaceOrder, Checkout, paymentVars
<1>2. ASSUME NEW o \in Orders, CustomerCancels(o)
      PROVE  /\ \A x \in Orders \ {o} : orders'[x].status = orders[x].status
             /\ payment' = payment
             /\ OrderExists(o) /\ orders'[o].status = "cancelled"
  BY <1>2 DEF CustomerCancels, CancelOrder, OrderExists, OrderRow, paymentVars
<1>3. ASSUME NEW o \in Orders, NEW s \in Sellers, NEW st \in OrderStatus,
             SellerUpdates(o, s, st)
      PROVE  \A x \in Orders : orders'[x].status = orders[x].status
  BY <1>3 DEF SellerUpdates, UpdateSellerOrderItemStatus, OrderRow
<1>4. CASE OnCompleted
  <2>1. /\ nats.completed \in Seq(Orders)
        /\ nats.completed # <<>>
    BY <1>4 DEF OnCompleted, HandlePaymentCompleted, Pending, NatsType
  <2>2. PICK o \in Orders : o = Head(nats.completed)
    BY <2>1
  <2>3. 1 \in 1..Len(nats.completed) /\ nats.completed[1] = o
    BY <2>1, <2>2
  <2>4. o \in ChargedOrders
    BY <2>3 DEF NewsSound, CompletedSound
  <2>5. orders' = SetOrder(o, "confirmed") /\ payment' = payment
    BY <1>4, <2>2 DEF OnCompleted, HandlePaymentCompleted, paymentVars
  <2>6. CASE OrderExists(o)
    BY <2>4, <2>5, <2>6 DEF SetOrder, OrderRow
  <2>7. CASE ~OrderExists(o)
    BY <2>5, <2>7 DEF SetOrder
  <2> QED BY <2>6, <2>7
<1>5. CASE OnFailed
  <2>1. PICK o \in Orders : o = Head(nats.failed)
    BY <1>5 DEF OnFailed, HandlePaymentFailed, Pending, NatsType
  <2>2. orders' = SetOrder(o, "cancelled") /\ payment' = payment
    BY <1>5, <2>1 DEF OnFailed, HandlePaymentFailed, paymentVars
  <2>3. CASE OrderExists(o)
    BY <2>2, <2>3 DEF SetOrder, OrderRow
  <2>4. CASE ~OrderExists(o)
    BY <2>2, <2>4 DEF SetOrder
  <2> QED BY <2>3, <2>4
<1>6. CASE ~OrderNext \/ \E p \in unsent : OrderPublishes(p)
  <2>1. orders' = orders
    BY <1>6 DEF Next, PaymentNext, InitiatePayment, CallsProcess, CallsRefund,
                OnCreated, OnCancelled, Proceeds, SellerTakes, Fault, MessageLost,
                OrderServiceDies, LoseOrderEvent, CallCutShort, orderVars, vars,
                OrderPublishes, PublishOrderEvent
  <2> QED BY <2>1
<1> QED BY <1>1, <1>2, <1>3, <1>4, <1>5, <1>6 DEF OrderNext

\* The set of charged orders grows by the order of a payment that ProcessPayment
\* completes, and in no other way.
LEMMA ChargeStep ==
  ASSUME IInv, [Next]_vars
  PROVE  \/ ChargedOrders' = ChargedOrders
         \/ \E t \in Threads :
              LET o == payment[thread[t].payment].order IN
              /\ orders' = orders
              /\ o \in Existing
              /\ ChargedOrders' = ChargedOrders \cup {o}
              /\ thread'[t].at = "announce"
              /\ thread'[t].accepted
              /\ payment'[thread'[t].payment].order = o
<1> USE DEF IInv, TypeOK, PaymentTypeOK
<1>1. ChargedOrders \subseteq ChargedOrders'
  BY ChargesKept DEF ChargedOrders
<1>2. ASSUME \A p \in Payments : payment'[p].txn =>
               payment[p].txn /\ payment'[p].order = payment[p].order
      PROVE  ChargedOrders' = ChargedOrders
  BY <1>1, <1>2 DEF ChargedOrders, Charged, PaymentsOf
<1>3. ASSUME payment' = payment PROVE ChargedOrders' = ChargedOrders
  BY <1>2, <1>3
<1>4. ASSUME NEW p \in Payments, NEW o, InsertPayment(p, o)
      PROVE  ChargedOrders' = ChargedOrders
  BY <1>2, <1>4 DEF InsertPayment
<1>5. ASSUME NEW p \in Payments, NEW st, UpdatePaymentStatus(p, st)
      PROVE  ChargedOrders' = ChargedOrders
  BY <1>2, <1>5 DEF UpdatePaymentStatus, PaymentRow
<1>6. ASSUME NEW t \in Threads, Proceeds(t), SettlePayment(t), ~thread[t].accepted
      PROVE  ChargedOrders' = ChargedOrders
  <2>1. thread[t].payment \in Payments
    BY <1>6 DEF SettlePayment, ThreadSound
  <2> QED BY <1>2, <1>6, <2>1 DEF SettlePayment, PaymentRow
<1>7. ASSUME NEW t \in Threads, Proceeds(t), SettlePayment(t), thread[t].accepted
      PROVE  LET o == payment[thread[t].payment].order IN
             /\ orders' = orders
             /\ o \in Existing
             /\ ChargedOrders' = ChargedOrders \cup {o}
             /\ thread'[t].at = "announce"
             /\ thread'[t].accepted
             /\ payment'[thread'[t].payment].order = o
  <2> DEFINE p == thread[t].payment
             o == payment[p].order
  <2>1. p \in Payments /\ payment[p].status # "absent"
    BY <1>7 DEF SettlePayment, ThreadSound
  <2>2. o \in Orders /\ o \in Existing
    BY <2>1 DEF RowSound, Existing
  <2>3. /\ payment'[p].txn /\ payment'[p].order = o
        /\ \A q \in Payments \ {p} : payment'[q] = payment[q]
    BY <1>7, <2>1 DEF SettlePayment, PaymentRow
  <2>4. ChargedOrders' = ChargedOrders \cup {o}
    BY <1>1, <2>1, <2>2, <2>3 DEF ChargedOrders, Charged, PaymentsOf
  <2>5. /\ thread'[t].at = "announce"
        /\ thread'[t].accepted
        /\ thread'[t].payment = p
    BY <1>7 DEF SettlePayment, Goes, Activity
  <2>6. orders' = orders
    BY <1>7 DEF Proceeds, orderVars
  <2> QED BY <2>2, <2>3, <2>4, <2>5, <2>6
<1>8. CASE OnCreated
  BY <1>3, <1>4, <1>8 DEF OnCreated, HandleOrderCreated, paymentVars
<1>9. ASSUME NEW t \in Threads, CommitRefund(t) \/ FailCancelled(t)
      PROVE  ChargedOrders' = ChargedOrders
  <2>1. thread[t].payment \in Payments
    BY <1>9 DEF CommitRefund, FailCancelled, ThreadSound
  <2> QED BY <1>5, <1>9, <2>1 DEF CommitRefund, FailCancelled
<1>10. ASSUME NEW t \in Threads,
              AnnouncePayment(t) \/ AuthorizeCreated(t) \/ RefundCancelled(t)
       PROVE  ChargedOrders' = ChargedOrders
  BY <1>3, <1>10 DEF AnnouncePayment, AuthorizeCreated, BeginProcess, RefundCancelled
<1>11. ASSUME NEW t \in Rpc, NEW q \in Payments,
              CallsRefund(t, q) \/ \E accepted \in BOOLEAN : CallsProcess(t, q, accepted)
       PROVE  ChargedOrders' = ChargedOrders
  BY <1>3, <1>11 DEF CallsRefund, RefundPayment, CallsProcess, ProcessPayment, BeginProcess
<1>12. CASE OnCancelled
  BY <1>3, <1>12 DEF OnCancelled, HandleOrderCancelled
<1>13. ASSUME NEW o \in Orders, NEW p \in Payments, InitiatePayment(o, p)
       PROVE  ChargedOrders' = ChargedOrders
  BY <1>4, <1>13 DEF InitiatePayment, CreatePayment
<1>14. CASE ~PaymentNext
  <2>1. payment' = payment
    BY <1>14 DEF Next, OrderNext, PlaceOrder, CustomerCancels, SellerUpdates, OnCompleted,
                 OnFailed, OrderPublishes, SellerTakes, Fault, MessageLost,
                 OrderServiceDies, CallCutShort, AbortThread, paymentVars, vars
  <2> QED BY <1>3, <2>1
<1>15. ASSUME NEW t \in Threads, Proceeds(t)
       PROVE  \/ SettlePayment(t) \/ AnnouncePayment(t) \/ CommitRefund(t)
              \/ AuthorizeCreated(t) \/ RefundCancelled(t) \/ FailCancelled(t)
  BY <1>15 DEF Proceeds, ThreadStep
<1> QED BY <1>6, <1>7, <1>8, <1>9, <1>10, <1>11, <1>12, <1>13, <1>14, <1>15
        DEF PaymentNext

\* A goroutine that has committed does nothing before it has announced.
LEMMA AnnouncerStep ==
  ASSUME IInv, [Next]_vars, ~Fault, NEW t \in Threads, thread[t].at = "announce"
  PROVE  thread'[t] = thread[t] \/ AnnouncePayment(t)
<1> USE DEF IInv, TypeOK, PaymentTypeOK
<1>1. ASSUME NEW u \in Threads, thread[u].at # "announce",
             \E a : thread' = [thread EXCEPT ![u] = a]
      PROVE  thread'[t] = thread[t]
  BY <1>1
<1>2. ASSUME NEW u \in Threads, Proceeds(u) PROVE thread'[t] = thread[t] \/ AnnouncePayment(t)
  BY <1>1, <1>2 DEF Proceeds, ThreadStep, SettlePayment, AnnouncePayment, CommitRefund,
     AuthorizeCreated, BeginProcess, RefundCancelled, FailCancelled, Goes, Works, Rests
<1>3. ASSUME NEW u \in Rpc, NEW p \in Payments,
             CallsRefund(u, p) \/ \E accepted \in BOOLEAN : CallsProcess(u, p, accepted)
      PROVE  thread'[t] = thread[t]
  BY <1>1, <1>3 DEF CallsRefund, RefundPayment, CallsProcess, ProcessPayment,
                    BeginProcess, Works, Threads
<1>4. CASE OnCreated
  BY <1>1, <1>4 DEF OnCreated, HandleOrderCreated, Works, Threads, paymentVars
<1>5. CASE OnCancelled
  BY <1>1, <1>5 DEF OnCancelled, HandleOrderCancelled, Works, Threads
<1>6. CASE OrderNext \/ SellerTakes \/ UNCHANGED vars
            \/ \E o \in Orders, p \in Payments : InitiatePayment(o, p)
  BY <1>6 DEF OrderNext, PlaceOrder, CustomerCancels, SellerUpdates, OnCompleted,
              OnFailed, OrderPublishes, SellerTakes, InitiatePayment, CreatePayment,
              paymentVars, vars
<1> QED BY <1>2, <1>3, <1>4, <1>5, <1>6 DEF Next, PaymentNext

\* Unless something is lost, the news of a charge stays in flight until
\* order-service has handled it.
LEMMA InFlightStep ==
  ASSUME IInv, [Next]_vars, ~Fault, NEW o \in Orders, CompletionInFlight(o)
  PROVE  CompletionInFlight(o)' \/ orders'[o].status # "pending"
<1> USE DEF IInv
<1>1. nats.completed \in Seq(Orders)
  BY DEF TypeOK, NatsType
<1>2. ASSUME NEW t \in Threads, thread[t].at = "announce", thread[t].accepted,
             payment[thread[t].payment].order = o
      PROVE  CompletionInFlight(o)'
  <2>1. /\ thread[t].payment \in Payments
        /\ payment[thread[t].payment].status # "absent"
    BY <1>2 DEF ThreadSound
  <2>2. CASE thread'[t] = thread[t]
    <3>1. payment'[thread'[t].payment].order = o
      BY <1>2, <2>1, <2>2, RowsKept
    <3> QED BY <1>2, <2>2, <3>1 DEF CompletionInFlight
  <2>3. CASE AnnouncePayment(t)
    <3>1. nats'.completed = Append(nats.completed, o)
      BY <1>2, <2>3 DEF AnnouncePayment, Published, TypeOK, NatsType
    <3>2. Len(nats.completed) + 1 \in 1..Len(nats'.completed)
          /\ nats'.completed[Len(nats.completed) + 1] = o
      BY <1>1, <3>1
    <3> QED BY <3>2 DEF CompletionInFlight
  <2> QED BY <1>2, <2>2, <2>3, AnnouncerStep
<1>3. ASSUME NEW i \in 1..Len(nats.completed), nats.completed[i] = o
      PROVE  CompletionInFlight(o)' \/ orders'[o].status # "pending"
  <2>1. CASE nats'.completed = nats.completed
    BY <1>3, <2>1 DEF CompletionInFlight
  <2>2. CASE nats.completed # <<>> /\ nats'.completed = Tail(nats.completed) /\ i # 1
    <3>1. i - 1 \in 1..Len(nats'.completed) /\ nats'.completed[i - 1] = o
      BY <1>1, <1>3, <2>2
    <3> QED BY <3>1 DEF CompletionInFlight
  <2>3. CASE OnCompleted /\ i = 1
    <3>1. Head(nats.completed) = o
      BY <1>1, <1>3, <2>3
    <3> QED BY <2>3, <3>1
            DEF OnCompleted, HandlePaymentCompleted, SetOrder, OrderExists, TypeOK,
                OrderTypeOK, OrderRow
  <2>4. ASSUME NEW x \in Orders, nats'.completed = Append(nats.completed, x)
        PROVE  CompletionInFlight(o)'
    <3>1. i \in 1..Len(nats'.completed) /\ nats'.completed[i] = o
      BY <1>1, <1>3, <2>4
    <3> QED BY <3>1 DEF CompletionInFlight
  <2>5. ASSUME NEW t \in Threads, thread[t].at = "announce"
        PROVE  payment[thread[t].payment].order \in Orders
    BY <2>5 DEF ThreadSound, RowSound
  <2>6. ~MessageLost
    BY DEF Fault
  <2> QED BY <2>1, <2>2, <2>3, <2>4, <2>5, <2>6, CompletedQueueStep
<1> QED BY <1>2, <1>3 DEF CompletionInFlight

\* A charge is not forgotten by any step.
LEMMA ChargeNotForgottenStep ==
  IInv /\ ChargeNotForgotten /\ [Next]_vars => ChargeNotForgotten'
<1> SUFFICES ASSUME IInv, ChargeNotForgotten, [Next]_vars,
                    NEW o \in Orders, faults' = 0, Charged(o)',
                    orders'[o].status = "pending"
             PROVE  CompletionInFlight(o)'
  BY DEF ChargeNotForgotten
<1> USE DEF IInv
<1>1. ~Fault /\ faults = 0
  <2>1. faults \in Nat
    BY BoundsAssumption DEF TypeOK
  <2>2. ~Fault
    BY <2>1 DEF Fault, MessageLost, OrderServiceDies, CallCutShort, OneMoreFault
  <2>3. faults' = faults
    BY <2>2 DEF Next, OrderNext, PlaceOrder, CustomerCancels, SellerUpdates, OnCompleted,
       OnFailed, OrderPublishes, PaymentNext, InitiatePayment, CallsProcess, CallsRefund,
       OnCreated, OnCancelled, Proceeds, SellerTakes, vars
  <2> QED BY <2>2, <2>3
<1>2. o \in ChargedOrders'
  BY DEF ChargedOrders
<1>3. CASE o \notin ChargedOrders
  BY <1>2, <1>3, ChargeStep DEF CompletionInFlight
<1>4. CASE o \in ChargedOrders
  <2>1. Charged(o)
    BY <1>4 DEF ChargedOrders
  <2>2. OrderExists(o)
    BY <2>1, NoOrderAssumption DEF Charged, PaymentsOf, RowSound
  <2>3. orders[o].status = "pending"
    BY <2>2, OrderStep DEF OrderExists
  <2>4. CompletionInFlight(o)
    BY <1>1, <2>1, <2>3 DEF ChargeNotForgotten
  <2> QED BY <1>1, <2>4, InFlightStep
<1> QED BY <1>3, <1>4

\* The steps of the two services, seen through orders and charges alone, are
\* steps of the abstract specification or none.
LEMMA StepImplements ==
  IInv /\ [Next]_vars => [Settlement!Next]_<<OrderPhase, ChargedOrders>>
<1> SUFFICES ASSUME IInv, [Next]_vars
             PROVE  [Settlement!Next]_<<OrderPhase, ChargedOrders>>
  OBVIOUS
<1>1. ASSUME \A x \in Orders : orders'[x].status = orders[x].status
      PROVE  OrderPhase' = OrderPhase
  BY <1>1 DEF OrderPhase
<1>2. ASSUME NEW o \in Orders,
             \A x \in Orders \ {o} : orders'[x].status = orders[x].status
      PROVE  OrderPhase' = [OrderPhase EXCEPT ![o] = PhaseOf(orders'[o].status)]
  BY <1>2 DEF OrderPhase
<1>3. ASSUME NEW o \in Orders PROVE OrderPhase[o] = "none" <=> ~OrderExists(o)
  BY <1>3 DEF OrderPhase, PhaseOf, OrderExists, IInv, TypeOK, OrderTypeOK, OrderRow,
              OrderStatus
<1>4. CASE ChargedOrders' = ChargedOrders
  <2>1. CASE \A x \in Orders : orders'[x].status = orders[x].status
    BY <1>1, <1>4, <2>1
  <2>2. ASSUME NEW o \in Orders,
               \A x \in Orders \ {o} : orders'[x].status = orders[x].status
        PROVE  /\ orders[o].status = "absent" /\ orders'[o].status = "pending"
                    => Settlement!Place(o)
               /\ OrderExists(o) /\ orders'[o].status = "cancelled"
                    => Settlement!Cancel(o)
               /\ o \in ChargedOrders /\ orders'[o].status = "confirmed"
                    => Settlement!Confirm(o)
    BY <1>2, <1>3, <1>4, <2>2
       DEF Settlement!Place, Settlement!Cancel, Settlement!Confirm, PhaseOf, OrderExists
  <2> QED BY <2>1, <2>2, OrderStep DEF Settlement!Next
<1>5. ASSUME NEW o \in Existing, ChargedOrders' = ChargedOrders \cup {o}, orders' = orders
      PROVE  Settlement!Next
  <2>1. o \in Orders /\ OrderPhase[o] # "none" /\ OrderPhase' = OrderPhase
    BY <1>1, <1>3, <1>5 DEF Existing
  <2> QED BY <1>5, <2>1 DEF Settlement!Next, Settlement!Charge
<1> QED BY <1>4, <1>5, ChargeStep

-----------------------------------------------------------------------------
(* Theorems.                                                                *)

\* The initial state is sound.
LEMMA InitIInv == Init => IInv
<1> SUFFICES ASSUME Init PROVE IInv
  OBVIOUS
<1> USE DEF Init, OrderInit, PaymentInit, NatsInit
<1>1. OrderTypeOK
  BY DEF OrderTypeOK, OrderRow, AllItems, OrderStatus
<1>2. PaymentTypeOK
  BY DEF PaymentTypeOK, PaymentRow, PaymentStatus, Activity, Idle, Stage
<1>3. nats \in NatsType
  BY DEF NatsType
<1>4. TypeOK
  BY <1>1, <1>2, <1>3, BoundsAssumption DEF TypeOK
<1>5. \A p \in Payments : RowSound(p)
  BY DEF RowSound
<1>6. \A t \in Threads : ThreadSound(t)
  BY DEF ThreadSound, Idle
<1>7. NewsSound
  BY DEF NewsSound, UnsentCreatedSound, CreatedSound, CompletedSound
<1>8. ConfirmedWasCharged
  BY DEF ConfirmedWasCharged
<1> QED BY <1>4, <1>5, <1>6, <1>7, <1>8 DEF IInv

\* Every step keeps the state sound.
LEMMA NextIInv == IInv /\ [Next]_vars => IInv'
<1> SUFFICES ASSUME IInv, [Next]_vars PROVE IInv'
  OBVIOUS
<1>1. TypeOK'
  <2>1. CASE UNCHANGED vars
    BY <2>1 DEF IInv, TypeOK, OrderTypeOK, PaymentTypeOK, vars, orderVars, paymentVars
  <2> QED BY <2>1, OrderStepType, PaymentStepType, EnvironmentStepType DEF IInv, Next
<1>2. \A p \in Payments : RowSound(p)'
  BY RowSoundStep
<1>3. \A t \in Threads : ThreadSound(t)'
  BY ThreadSoundStep
<1>4. NewsSound'
  BY NewsSoundStep
<1>5. ConfirmedWasCharged'
  BY OrderStep, ChargesKept DEF ConfirmedWasCharged, IInv, ChargedOrders
<1> QED BY <1>1, <1>2, <1>3, <1>4, <1>5 DEF IInv, Threads

\* IInv is an invariant of the specification.
THEOREM Soundness == Spec => []IInv
BY InitIInv, NextIInv, PTL DEF Spec

\* The variables keep their types: no handler writes a status that the
\* tables' enums refuse, whatever the messages and goroutines do.
THEOREM TypeCorrect == Spec => []TypeOK
<1>1. IInv => TypeOK
  BY DEF IInv
<1> QED BY <1>1, Soundness, PTL

\* No order is confirmed unless the provider took money for it.
THEOREM ConfirmedOnlyIfCharged == Spec => []ConfirmedWasCharged
<1>1. IInv => ConfirmedWasCharged
  BY DEF IInv
<1> QED BY <1>1, Soundness, PTL

\* No payment is refunded unless the provider took money for it.
THEOREM RefundedOnlyIfCharged == Spec => []RefundedWasCharged
<1>1. IInv => RefundedWasCharged
  BY DEF IInv, RefundedWasCharged, RowSound
<1> QED BY <1>1, Soundness, PTL

\* As long as nothing was lost, an order that was charged and still waits for
\* its payment is about to hear of it.
THEOREM ChargesRemembered == Spec => []ChargeNotForgotten
<1>1. Init => ChargeNotForgotten
  BY NoOrderAssumption
     DEF Init, OrderInit, PaymentInit, ChargeNotForgotten, Charged, PaymentsOf
<1>2. IInv /\ ChargeNotForgotten /\ [Next]_vars => ChargeNotForgotten'
  BY ChargeNotForgottenStep
<1> QED BY <1>1, <1>2, Soundness, PTL DEF Spec

\* order-service and payment-service implement OrderSettlement.
THEOREM Implementation == Spec => ImplementsSettlement
<1>1. Init => Settlement!Init
  BY NoOrderAssumption
     DEF Init, OrderInit, PaymentInit, Settlement!Init, OrderPhase, PhaseOf,
         ChargedOrders, Charged, PaymentsOf
<1>2. IInv /\ [Next]_vars => [Settlement!Next]_<<OrderPhase, ChargedOrders>>
  BY StepImplements
<1> QED BY <1>1, <1>2, Soundness, PTL DEF Spec, ImplementsSettlement, Settlement!Spec
=============================================================================
