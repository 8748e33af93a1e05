---------------------------- MODULE PaymentService ----------------------------
(***************************************************************************)
(* payment-service: the payments table, the RPCs CreatePayment,             *)
(* ProcessPayment and RefundPayment, and the NATS worker that calls them.    *)
(*                                                                         *)
(* A transaction runs at READ COMMITTED, reads its payment with a plain      *)
(* SELECT and writes it later with UPDATE ... WHERE id = $1.  The read and    *)
(* the write (with its commit) are separate steps of the goroutine that runs  *)
(* the call, and so is the publication that follows the commit.              *)
(***************************************************************************)
EXTENDS Nats

CONSTANTS
  Payments,   \* ids of payments rows that may be inserted
  Rpc,        \* goroutines serving gRPC calls
  NoPayment,  \* the payment of a goroutine that works on none
  NoOrder     \* the order of a row that does not exist

ASSUME NoPaymentAssumption == NoPayment \notin Payments
ASSUME NoOrderAssumption   == NoOrder \notin Orders
ASSUME RpcAssumption       == Rpc \cap {"onOrderCreated", "onOrderCancelled"} = {}

VARIABLES
  payment,    \* the payments table
  thread      \* what each goroutine of the service is doing

paymentVars == <<payment, thread>>

Threads == Rpc \cup {"onOrderCreated", "onOrderCancelled"}

PaymentStatus == {"pending", "completed", "failed", "refunded"}

\* txn: the row has a transaction_id, that is, the provider took the money.
PaymentRow ==
  [order: Orders \cup {NoOrder}, status: PaymentStatus \cup {"absent"}, txn: BOOLEAN]

\* authorize  CreatePayment done, ProcessPayment not yet begun (worker)
\* settle     ProcessPayment has read a pending payment
\* announce   ProcessPayment has committed, its event is not published
\* probe      handleOrderCancelled has read a pending payment
\* fail       ... its RefundPayment was refused, it will mark the row failed
\* refund     RefundPayment has read a completed payment
Stage == {"idle", "authorize", "settle", "announce", "probe", "fail", "refund"}

Activity == [at: Stage, payment: Payments \cup {NoPayment}, accepted: BOOLEAN]

Idle == [at |-> "idle", payment |-> NoPayment, accepted |-> FALSE]

PaymentTypeOK ==
  /\ payment \in [Payments -> PaymentRow]
  /\ thread \in [Threads -> Activity]

PaymentInit ==
  /\ payment = [p \in Payments |->
                  [order |-> NoOrder, status |-> "absent", txn |-> FALSE]]
  /\ thread = [t \in Threads |-> Idle]

PaymentsOf(o) == {p \in Payments : payment[p].order = o}

Goes(t, stage) == thread' = [thread EXCEPT ![t].at = stage]

Works(t, stage, p, accepted) ==
  thread' = [thread EXCEPT ![t] =
               [at |-> stage, payment |-> p, accepted |-> accepted]]

Rests(t) == thread' = [thread EXCEPT ![t] = Idle]

\* INSERT INTO payments ... 'pending'; nothing makes order_id unique.
InsertPayment(p, o) ==
  /\ payment[p].status = "absent"
  /\ payment' = [payment EXCEPT ![p] =
                   [order |-> o, status |-> "pending", txn |-> FALSE]]

\* UPDATE payments SET status = st WHERE id = p.
UpdatePaymentStatus(p, st) == payment' = [payment EXCEPT ![p].status = st]

-----------------------------------------------------------------------------
(* RPCs.                                                                    *)

\* CreatePayment, which refuses amounts that are not positive.
CreatePayment(p, o, amount) ==
  /\ amount > 0
  /\ InsertPayment(p, o)
  /\ UNCHANGED <<thread, nats>>

\* ProcessPayment up to its status check; a payment that is not pending is
\* refused and nothing changes.
BeginProcess(t, p, accepted) ==
  /\ payment[p].status = "pending"
  /\ Works(t, "settle", p, accepted)
  /\ UNCHANGED <<payment, nats>>

ProcessPayment(t, p, accepted) ==
  /\ t \in Rpc
  /\ thread[t].at = "idle"
  /\ BeginProcess(t, p, accepted)

\* Fault for mutation: the call returns after its commit and announces nothing.
SettlePaymentSilently(t) ==
  LET p == thread[t].payment IN
  /\ thread[t].at = "settle"
  /\ payment' = IF thread[t].accepted
                THEN [payment EXCEPT ![p].status = "completed", ![p].txn = TRUE]
                ELSE [payment EXCEPT ![p].status = "failed"]
  /\ Rests(t)
  /\ UNCHANGED nats

\* Fault for mutation: one UPDATE for both outcomes, which clears the
\* transaction id of a declined attempt.
SettlePaymentOverwriting(t) ==
  LET p == thread[t].payment IN
  /\ thread[t].at = "settle"
  /\ payment' = [payment EXCEPT
                   ![p].status = IF thread[t].accepted THEN "completed" ELSE "failed",
                   ![p].txn = thread[t].accepted]
  /\ Goes(t, "announce")
  /\ UNCHANGED nats

\* ProcessPayment writes what the provider answered and commits.  Only
\* UpdatePaymentTransaction sets the transaction id, and nothing clears it.
SettlePayment(t) ==
  LET p == thread[t].payment IN
  /\ thread[t].at = "settle"
  /\ payment' = IF thread[t].accepted
                THEN [payment EXCEPT ![p].status = "completed", ![p].txn = TRUE]
                ELSE [payment EXCEPT ![p].status = "failed"]
  /\ Goes(t, "announce")
  /\ UNCHANGED nats

\* Fault for mutation: the event does not depend on the outcome.
AnnounceCompleted(t) ==
  LET o == payment[thread[t].payment].order IN
  /\ thread[t].at = "announce"
  /\ nats' = Published("completed", o)
  /\ Rests(t)
  /\ UNCHANGED payment

\* ProcessPayment publishes payment.completed or payment.failed.
AnnouncePayment(t) ==
  LET o == payment[thread[t].payment].order IN
  /\ thread[t].at = "announce"
  /\ nats' = Published(IF thread[t].accepted THEN "completed" ELSE "failed", o)
  /\ Rests(t)
  /\ UNCHANGED payment

\* Fault for mutation: the status check refuses failed payments only.
RefundPaymentUnlessFailed(t, p) ==
  /\ t \in Rpc
  /\ thread[t].at = "idle"
  /\ payment[p].status \in {"pending", "completed"}
  /\ Works(t, "refund", p, FALSE)
  /\ UNCHANGED <<payment, nats>>

\* RefundPayment up to its status check, for an amount in (0, amount].
RefundPayment(t, p) ==
  /\ t \in Rpc
  /\ thread[t].at = "idle"
  /\ payment[p].status = "completed"
  /\ Works(t, "refund", p, FALSE)
  /\ UNCHANGED <<payment, nats>>

\* RefundPayment writes refunded, for a partial amount too, and commits.
\* wemall.payment.refunded has no subscriber among these services.
CommitRefund(t) ==
  /\ thread[t].at = "refund"
  /\ UpdatePaymentStatus(thread[t].payment, "refunded")
  /\ Rests(t)
  /\ UNCHANGED nats

-----------------------------------------------------------------------------
(* The worker.                                                              *)

\* Fault for mutation: a token that will be declined is not processed.
HandleOrderCreatedLazily ==
  LET t == "onOrderCreated"
      m == Head(nats.created)
  IN
  /\ Pending("created")
  /\ thread[t].at = "idle"
  /\ nats' = Taken("created")
  /\ IF m.total > 0
     THEN \E p \in Payments :
            /\ InsertPayment(p, m.order)
            /\ IF m.token = "accepted"
               THEN Works(t, "authorize", p, TRUE)
               ELSE UNCHANGED thread
     ELSE UNCHANGED paymentVars

\* handleOrderCreated inserts a payment; a message with a payment token is
\* then processed at once, by the same goroutine.
HandleOrderCreated ==
  LET t == "onOrderCreated"
      m == Head(nats.created)
  IN
  /\ Pending("created")
  /\ thread[t].at = "idle"
  /\ nats' = Taken("created")
  /\ IF m.total > 0
     THEN \E p \in Payments :
            /\ InsertPayment(p, m.order)
            /\ IF m.token = "none"
               THEN UNCHANGED thread
               ELSE Works(t, "authorize", p, m.token = "accepted")
     ELSE UNCHANGED paymentVars

\* ... ProcessPayment begins for the worker's payment, or refuses it.
AuthorizeCreated(t) ==
  LET p == thread[t].payment IN
  /\ thread[t].at = "authorize"
  /\ IF payment[p].status = "pending"
     THEN BeginProcess(t, p, thread[t].accepted)
     ELSE Rests(t) /\ UNCHANGED <<payment, nats>>

\* handleOrderCancelled reads one payment of the order (:one, in no
\* particular order) and goes on only if it is pending.
HandleOrderCancelled ==
  LET t  == "onOrderCancelled"
      ps == PaymentsOf(Head(nats.cancelled))
  IN
  /\ Pending("cancelled")
  /\ thread[t].at = "idle"
  /\ nats' = Taken("cancelled")
  /\ \/ /\ \/ ps = {}
           \/ \E p \in ps : payment[p].status # "pending"
        /\ UNCHANGED thread
     \/ \E p \in ps :
          /\ payment[p].status = "pending"
          /\ Works(t, "probe", p, FALSE)
  /\ UNCHANGED payment

\* ... its call of RefundPayment reads the row again.
RefundCancelled(t) ==
  /\ thread[t].at = "probe"
  /\ IF payment[thread[t].payment].status = "completed"
     THEN Goes(t, "refund")
     ELSE Goes(t, "fail")
  /\ UNCHANGED <<payment, nats>>

\* ... a refused refund is followed by an unconditional status = failed.
FailCancelled(t) ==
  /\ thread[t].at = "fail"
  /\ UpdatePaymentStatus(thread[t].payment, "failed")
  /\ Rests(t)
  /\ UNCHANGED nats

-----------------------------------------------------------------------------

\* A goroutine ends early: its context expires or a query fails before the
\* commit, which rolls back, or the process dies, before or after the commit.
\* handleOrderCancelled takes any error of its RefundPayment for a refusal.
AbortThread(t) ==
  /\ thread[t].at # "idle"
  /\ \/ Rests(t)
     \/ /\ t = "onOrderCancelled"
        /\ thread[t].at \in {"probe", "refund"}
        /\ Goes(t, "fail")
  /\ UNCHANGED <<payment, nats>>

\* The next step of a call that has begun.
ThreadStep(t) ==
  \/ SettlePayment(t)    \/ AnnouncePayment(t) \/ CommitRefund(t)
  \/ AuthorizeCreated(t) \/ RefundCancelled(t) \/ FailCancelled(t)
=============================================================================
