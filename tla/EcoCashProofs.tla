---------------------------- MODULE EcoCashProofs ----------------------------
(***************************************************************************)
(* Proofs about EcoCash, for any orders, charges, refunds, callers, price,     *)
(* bounds and kinds of fault.                                                *)
(***************************************************************************)
EXTENDS EcoCash, SumProofs

-----------------------------------------------------------------------------
(* Types, and what a goroutine knows at each of its stages.                 *)

OfCharge == {"charge", "record", "event"}
OfLookup == {"lookup", "resolve", "found"}
OfRefund == {"refund", "answered", "parent", "refunded"}

\* What the task t of worker w is about.  Only callers charge and refund.
Shape(w, t) ==
  /\ t.at = "insert" => t.order \in Orders
  /\ t.at \in OfCharge \cup OfLookup \cup OfRefund \cup {"sum"} => t.txn \in Txns
  /\ t.at \in OfRefund => t.refund \in Refunds
  /\ t.at = "answered" => t.reply \in {"SUCCESS", "FAILED"}
  /\ t.at = "found" => t.reply = "SUCCESS"
  /\ w \notin Callers => t.at \in OfLookup \cup {"idle"}

About(t, stage, x, r, reply) ==
  t.at = stage /\ t.txn = x /\ t.refund = r /\ t.reply = reply

AllShaped == \A w \in Workers : Shape(w, task[w])

Counters == {"faults", "lookups", "webhooks"}

Typed == TypeOK /\ AllShaped /\ used \in [Counters -> Nat]

\* A goroutine's new task leaves the others' alone.
LEMMA TaskKeeps ==
  ASSUME task \in [Workers -> Task], AllShaped, NEW w \in Workers, NEW t \in Task,
         Shape(w, t), task' = [task EXCEPT ![w] = t]
  PROVE  task' \in [Workers -> Task] /\ AllShaped'
BY DEF AllShaped

\* The limits, one by one.
LEMMA Limits ==
  /\ Price \in Nat \ {0} /\ MaxAttempts \in Nat \ {0}
  /\ MaxFaults \in Nat /\ MaxLookups \in Nat /\ MaxWebhooks \in Nat
BY LimitsAssumption

\* An idle goroutine is about nothing.
LEMMA IdleTask == Idle \in Task /\ Idle.at = "idle" /\ \A w \in Workers : Shape(w, Idle)
<1>1. Idle \in Task /\ Idle.at = "idle"
  BY Limits DEF Idle, Task, Stage, TxnStatus
<1> QED
  BY <1>1 DEF Shape, OfCharge, OfLookup, OfRefund

\* A goroutine that has answered is idle.
LEMMA RestsKeeps ==
  ASSUME task \in [Workers -> Task], AllShaped, NEW w \in Workers, Rests(w)
  PROVE  task' \in [Workers -> Task] /\ AllShaped'
<1>1. Idle \in Task /\ Shape(w, Idle)
  BY IdleTask
<1> QED
  BY <1>1, TaskKeeps DEF Rests

\* A goroutine that goes on to another stage stays about the same.
LEMMA GoesKeeps ==
  ASSUME task \in [Workers -> Task], AllShaped, NEW w \in Workers, NEW stage \in Stage,
         \A t \in Task : About(t, stage, task[w].txn, task[w].refund, task[w].reply)
                          => Shape(w, t),
         Goes(w, stage)
  PROVE  task' \in [Workers -> Task] /\ AllShaped'
<1> DEFINE t == [task[w] EXCEPT !.at = stage]
<1>1. t \in Task /\ About(t, stage, task[w].txn, task[w].refund, task[w].reply)
  BY DEF Task, About
<1>2. task' = [task EXCEPT ![w] = t]
  BY DEF Goes
<1> QED
  BY <1>1, <1>2, TaskKeeps

\* ... and so does one whose request has ended,
LEMMA RepliedKeeps ==
  ASSUME task \in [Workers -> Task], AllShaped, NEW w \in Workers, NEW stage \in Stage,
         NEW reply \in TxnStatus,
         \A t \in Task : About(t, stage, task[w].txn, task[w].refund, reply) => Shape(w, t),
         Replied(w, stage, reply)
  PROVE  task' \in [Workers -> Task] /\ AllShaped'
<1> DEFINE t == [task[w] EXCEPT !.at = stage, !.reply = reply]
<1>1. t \in Task /\ About(t, stage, task[w].txn, task[w].refund, reply)
  BY DEF Task, About
<1>2. task' = [task EXCEPT ![w] = t]
  BY DEF Replied
<1> QED
  BY <1>1, <1>2, TaskKeeps

\* ... or is sent again, or given up.
LEMMA AgainKeeps ==
  ASSUME task \in [Workers -> Task], AllShaped, NEW w \in Workers, NEW stage \in Stage,
         \A t \in Task : About(t, stage, task[w].txn, task[w].refund, "FAILED") => Shape(w, t),
         Again(w, stage)
  PROVE  task' \in [Workers -> Task] /\ AllShaped'
<1>1. CASE task[w].attempt < MaxAttempts
  <2>1. [task[w] EXCEPT !.attempt = @ + 1] \in Task
    BY <1>1, Limits DEF Task
  <2>2. task' = [task EXCEPT ![w] = [task[w] EXCEPT !.attempt = @ + 1]]
    BY <1>1 DEF Again
  <2>3. Shape(w, [task[w] EXCEPT !.attempt = @ + 1])
    BY DEF AllShaped, Shape, Task
  <2> QED
    BY <2>1, <2>2, <2>3, TaskKeeps
<1>2. CASE ~(task[w].attempt < MaxAttempts)
  BY <1>2, RepliedKeeps DEF Again, TxnStatus
<1> QED
  BY <1>1, <1>2

\* A bound that is used up by one.
LEMMA UsesKeeps ==
  ASSUME used \in [Counters -> Nat], \A what \in DOMAIN used : used[what] \in 0..Bound[what],
         NEW what \in Counters, Uses(what)
  PROVE  /\ used' \in [Counters -> Nat]
         /\ \A k \in DOMAIN used' : used'[k] \in 0..Bound[k]
<1>1. Bound \in [Counters -> Nat]
  BY LimitsAssumption DEF Bound, Counters
<1>2. used[what] < Bound[what] /\ used' = [used EXCEPT ![what] = used[what] + 1]
  BY DEF Uses
<1>3. used[what] \in Nat /\ used[what] + 1 \in 0..Bound[what] /\ DOMAIN used = Counters
  BY <1>1, <1>2
<1> HIDE DEF Counters
<1>4. used' \in [Counters -> Nat]
  BY <1>2, <1>3
<1>5. \A k \in Counters : used'[k] = IF k = what THEN used[what] + 1 ELSE used[k]
  BY <1>2
<1> QED
  BY <1>3, <1>4, <1>5

\* An event that is added keeps the events before it.
LEMMA EventKeeps ==
  ASSUME outbox \in Seq([txn: Txns, type: EventType, published: BOOLEAN]),
         NEW x \in Txns, NEW type \in EventType, PublishOutboxEvent(x, type)
  PROVE  /\ outbox' \in Seq([txn: Txns, type: EventType, published: BOOLEAN])
         /\ Len(outbox') = Len(outbox) + 1
         /\ \A i \in 1..Len(outbox) : outbox'[i] = outbox[i]
         /\ outbox'[Len(outbox) + 1] = [txn |-> x, type |-> type, published |-> FALSE]
         /\ 1..Len(outbox) \subseteq 1..Len(outbox')
BY DEF PublishOutboxEvent

\* The oldest event of a list is of the list.
LEMMA OldestListed ==
  ASSUME relay \subseteq 1..Len(outbox), Len(outbox) \in Nat, relay # {}
  PROVE  Oldest \in relay
<1>1. relay \subseteq Nat
  OBVIOUS
<1>2. \E i \in relay : \A j \in relay : i <= j
  BY <1>1, LeastNat
<1> QED
  BY <1>2 DEF Oldest, Min
-----------------------------------------------------------------------------
(* Every step keeps the types.                                              *)

\* The sum of the refunds of a charge is a number,
LEMMA SumRefundedNat ==
  ASSUME TypeOK, NEW rs \in SUBSET Refunds
  PROVE  SumOfRefunds(rs) \in Nat
<1>1. IsFiniteSet(rs)
  BY FiniteAssumption, FS_Subset
<1>2. \A r \in rs : [q \in Refunds |-> refund[q].amount][r] \in Nat
  BY Limits DEF TypeOK
<1> QED
  BY <1>1, <1>2, SumNat DEF SumOfRefunds

\* ... and no call is let refund more than the charge.
LEMMA RefundableBound ==
  ASSUME NEW already \in Nat, NEW amount \in 0..Price
  PROVE  /\ Refundable(already, amount) \in 0..Price
         /\ Refundable(already, amount) > 0 => already + Refundable(already, amount) <= Price
BY Limits DEF Refundable

\* A lookup is about a charge, a refund's row is of the type of the table.
LEMMA TypeStep == Typed /\ [Next]_vars => Typed'
<1> SUFFICES ASSUME Typed, [Next]_vars PROVE Typed'
  OBVIOUS
<1> USE DEF Typed, TypeOK, rows, unworked
<1>1. Typed /\ [Next]_vars
  OBVIOUS
<1>a. ASSUME NEW w \in Workers, NEW x \in Txns, BeginLookup(w, x)
      PROVE  task' \in [Workers -> Task] /\ AllShaped'
  <2> DEFINE t == [Idle EXCEPT !.at = "lookup", !.txn = x]
  <2>0. t \in Task /\ t.at = "lookup" /\ t.txn = x
    BY IdleTask, Limits DEF Idle, Task, Stage
  <2>1. t \in Task /\ Shape(w, t)
    BY <2>0 DEF Shape, OfCharge, OfLookup, OfRefund
  <2> QED BY <1>1, <1>a, <2>1, TaskKeeps DEF BeginLookup
<1>b. ASSUME NEW what \in Counters, Uses(what)
      PROVE  /\ used' \in [Counters -> Nat]
             /\ \A k \in DOMAIN used' : used'[k] \in 0..Bound[k]
  BY <1>1, <1>b, UsesKeeps
<1>c. ASSUME NEW w \in Callers, NEW r \in Refunds, NEW type \in {"REF", "REV"},
             NEW x \in Txns, NEW amount \in 0..Price, InsertRefund(w, r, type, x, amount)
      PROVE  /\ task' \in [Workers -> Task] /\ AllShaped'
             /\ refund' \in [Refunds -> [txn: Txns \cup {NoTxn}, type: {"REF", "REV"},
                                         amount: 0..Price, status: RefundStatus \cup {"absent"}]]
  <2> DEFINE t == [Idle EXCEPT !.at = "refund", !.txn = x, !.refund = r,
                               !.amount = amount, !.attempt = 1]
  <2>a. 1 \in 0..MaxAttempts /\ "refund" \in Stage
    BY Limits DEF Stage
  <2>0. t \in Task /\ t.at = "refund" /\ t.txn = x /\ t.refund = r
    BY IdleTask, <2>a DEF Idle, Task
  <2>1. t \in Task /\ Shape(w, t)
    BY <2>0 DEF Shape, OfCharge, OfLookup, OfRefund
  <2>2. task' = [task EXCEPT ![w] = t]
    BY <1>c DEF InsertRefund
  <2>3. task' \in [Workers -> Task] /\ AllShaped'
    BY <1>1, <2>1, <2>2, TaskKeeps DEF Workers
  <2> QED BY <1>1, <1>c, <2>3 DEF InsertRefund, RefundStatus
<1>d. Len(outbox) \in Nat /\ relay \subseteq 1..Len(outbox)
  BY <1>1
<1>e. relay # {} => Oldest \in 1..Len(outbox)
  BY <1>d, OldestListed
<1>f. \A i \in 1..Len(outbox) : outbox[i] \in [txn: Txns, type: EventType, published: BOOLEAN]
  <2> DEFINE E == [txn: Txns, type: EventType, published: BOOLEAN]
  <2>1. outbox \in Seq(E)
    BY <1>1
  <2> HIDE DEF E
  <2>2. \A i \in 1..Len(outbox) : outbox[i] \in E
    BY <2>1
  <2> QED BY <2>2 DEF E
<1>2. ASSUME NEW w \in Callers, NEW o \in Orders, ChargeCustomer(w, o)
      PROVE  Typed'
  <2> DEFINE t == [Idle EXCEPT !.at = "insert", !.order = o]
  <2>0. t \in Task /\ t.at = "insert" /\ t.order = o
    BY IdleTask, Limits DEF Idle, Task, Stage
  <2>1. t \in Task /\ Shape(w, t)
    BY <2>0 DEF Shape, OfCharge, OfLookup, OfRefund
  <2>2. task' \in [Workers -> Task] /\ AllShaped'
    BY <1>1, <1>2, <2>1, TaskKeeps DEF ChargeCustomer, Workers
  <2> QED BY <1>1, <1>2, <2>2 DEF ChargeCustomer
<1>3. ASSUME NEW w \in Workers, NEW x \in Txns, InsertCharge(w, x)
      PROVE  Typed'
  <2> DEFINE t == [task[w] EXCEPT !.at = "charge", !.txn = x, !.attempt = 1]
  <2>0. w \in Callers /\ task[w].order \in Orders
    BY <1>1, <1>3 DEF InsertCharge, At, AllShaped, Shape, OfCharge, OfLookup, OfRefund
  <2>a. t \in Task /\ t.at = "charge" /\ t.txn = x
    <3>1. 1 \in 0..MaxAttempts /\ "charge" \in Stage /\ task[w] \in Task
      BY <1>1, Limits DEF Stage
    <3> QED BY <3>1 DEF Task
  <2>1. t \in Task /\ Shape(w, t) /\ task[w].order \in Orders
    BY <2>0, <2>a DEF Shape, OfCharge, OfLookup, OfRefund
  <2>2. task' = [task EXCEPT ![w] = t]
    BY <1>3 DEF InsertCharge
  <2>3. task' \in [Workers -> Task] /\ AllShaped'
    BY <1>1, <2>1, <2>2, TaskKeeps
  <2> QED BY <1>1, <1>3, <2>1, <2>3 DEF InsertCharge, TxnStatus
<1>4. ASSUME NEW w \in Workers, SendCharge(w)
      PROVE  Typed'
  <2>1. PICK st \in Wallet :
          /\ wallet' = [wallet EXCEPT ![task[w].txn] = st]
          /\ \/ Replied(w, "record", StatusOf(st))
             \/ Replied(w, "record", "FAILED")
             \/ Again(w, "record")
    BY <1>1, <1>4 DEF SendCharge, Wallet, At, AllShaped, Shape, OfCharge, OfLookup, OfRefund
  <2>2. \A t \in Task, reply \in TxnStatus :
          About(t, "record", task[w].txn, task[w].refund, reply) => Shape(w, t)
    BY <1>1, <1>4 DEF SendCharge, At, AllShaped, About, Shape, OfCharge, OfLookup, OfRefund
  <2>3. task' \in [Workers -> Task] /\ AllShaped'
    BY <1>1, <2>1, <2>2, RepliedKeeps, AgainKeeps DEF Stage, StatusOf, TxnStatus
  <2> QED BY <1>1, <1>4, <2>1, <2>3 DEF SendCharge
<1>5. ASSUME NEW w \in Workers, RecordCharge(w)
      PROVE  Typed'
  <2>1. \A t \in Task :
          About(t, "event", task[w].txn, task[w].refund, task[w].reply) => Shape(w, t)
    BY <1>1, <1>5 DEF RecordCharge, At, AllShaped, About, Shape, OfCharge, OfLookup, OfRefund
  <2>2. task' \in [Workers -> Task] /\ AllShaped'
    BY <1>1, <1>5, <2>1, GoesKeeps DEF RecordCharge, Stage
  <2>3. task[w].reply \in TxnStatus
    BY <1>1 DEF Task
  <2> QED BY <1>1, <1>5, <2>2, <2>3 DEF RecordCharge, SetStatus
<1>6. ASSUME NEW w \in Workers, WriteChargeEvent(w)
      PROVE  Typed'
  <2>1. task[w].txn \in Txns
    BY <1>1, <1>6 DEF WriteChargeEvent, At, AllShaped, Shape, OfCharge, OfLookup, OfRefund
  <2>2. task' \in [Workers -> Task] /\ AllShaped'
    BY <1>1, <1>6, RestsKeeps DEF WriteChargeEvent
  <2>3. /\ outbox' \in Seq([txn: Txns, type: EventType, published: BOOLEAN])
        /\ 1..Len(outbox) \subseteq 1..Len(outbox')
    BY <1>1, <1>6, <2>1, EventKeeps DEF WriteChargeEvent, EventType
  <2> QED BY <1>1, <1>6, <2>2, <2>3 DEF WriteChargeEvent
<1>7. ASSUME NEW w \in Callers, NEW x \in Txns, LookupTransaction(w, x)
      PROVE  Typed'
  BY <1>1, <1>7, <1>a, <1>b DEF LookupTransaction, Workers, Counters
<1>8. ASSUME NEW w \in Callers, NEW x \in Txns, HandleWebhook(w, x)
      PROVE  Typed'
  BY <1>1, <1>8, <1>a, <1>b DEF HandleWebhook, Workers, Counters
<1>9. ASSUME NEW w \in Workers, SendLookup(w)
      PROVE  Typed'
  <2>1. PICK reply \in TxnStatus : Replied(w, "resolve", reply)
    BY <1>9 DEF SendLookup, LookupReplies, StatusOf, TxnStatus
  <2>2. \A t \in Task :
          About(t, "resolve", task[w].txn, task[w].refund, reply) => Shape(w, t)
    BY <1>1, <1>9 DEF SendLookup, At, AllShaped, About, Shape, OfCharge, OfLookup, OfRefund
  <2>3. task' \in [Workers -> Task] /\ AllShaped'
    BY <1>1, <2>1, <2>2, RepliedKeeps DEF Stage
  <2> QED BY <1>1, <1>9, <2>3 DEF SendLookup
<1>10. ASSUME NEW w \in Workers, RecordLookup(w)
      PROVE  Typed'
  <2>1. ASSUME task[w].reply = "SUCCESS", NEW t \in Task,
               About(t, "found", task[w].txn, task[w].refund, task[w].reply)
        PROVE  Shape(w, t)
    BY <1>1, <1>10, <2>1 DEF RecordLookup, At, AllShaped, About, Shape, OfCharge, OfLookup, OfRefund
  <2>2. task' \in [Workers -> Task] /\ AllShaped'
    BY <1>1, <1>10, <2>1, GoesKeeps, RestsKeeps DEF RecordLookup, Stage
  <2>3. task[w].reply \in TxnStatus
    BY <1>1 DEF Task
  <2> QED BY <1>1, <1>10, <2>2, <2>3 DEF RecordLookup, SetStatus
<1>11. ASSUME NEW w \in Workers, WriteLookupEvent(w)
      PROVE  Typed'
  <2>1. task[w].txn \in Txns
    BY <1>1, <1>11 DEF WriteLookupEvent, At, AllShaped, Shape, OfCharge, OfLookup, OfRefund
  <2>2. task' \in [Workers -> Task] /\ AllShaped'
    BY <1>1, <1>11, RestsKeeps DEF WriteLookupEvent
  <2>3. /\ outbox' \in Seq([txn: Txns, type: EventType, published: BOOLEAN])
        /\ 1..Len(outbox) \subseteq 1..Len(outbox')
    BY <1>1, <1>11, <2>1, EventKeeps DEF WriteLookupEvent, EventType
  <2> QED BY <1>1, <1>11, <2>2, <2>3 DEF WriteLookupEvent
<1>12. ASSUME NEW w \in Callers, NEW x \in Txns, NEW amount \in 0..Price, RefundTransaction(w, x, amount)
      PROVE  Typed'
  <2> DEFINE t == [Idle EXCEPT !.at = "sum", !.txn = x, !.amount = amount]
  <2>0. t \in Task /\ t.at = "sum" /\ t.txn = x
    BY IdleTask, Limits DEF Idle, Task, Stage
  <2>1. t \in Task /\ Shape(w, t)
    BY <2>0 DEF Shape, OfCharge, OfLookup, OfRefund
  <2>2. task' \in [Workers -> Task] /\ AllShaped'
    BY <1>1, <1>12, <2>1, TaskKeeps DEF RefundTransaction, Workers
  <2> QED BY <1>1, <1>12, <2>2 DEF RefundTransaction
<1>13. ASSUME NEW w \in Workers, NEW r \in Refunds, CheckRefund(w, r)
      PROVE  Typed'
  <2> DEFINE amount == Refundable(SumRefunded(task[w].txn), task[w].amount)
  <2>1. task[w].txn \in Txns /\ task[w].amount \in 0..Price /\ w \in Callers
    BY <1>1, <1>13 DEF CheckRefund, At, AllShaped, Task, Shape, OfCharge, OfLookup, OfRefund
  <2>2. amount \in 0..Price
    <3>1. SumRefunded(task[w].txn) \in Nat
      BY <1>1, SumRefundedNat DEF SumRefunded, SuccessfulRefunds
    <3> QED BY <2>1, <3>1, RefundableBound
  <2>3. CASE Rests(w) /\ UNCHANGED refund
    BY <1>1, <1>13, <2>3, RestsKeeps DEF CheckRefund
  <2>4. CASE InsertRefund(w, r, "REF", task[w].txn, amount)
    BY <1>1, <1>13, <1>c, <2>1, <2>2, <2>4 DEF CheckRefund
  <2> QED BY <1>13, <2>3, <2>4 DEF CheckRefund
<1>14. ASSUME NEW w \in Callers, NEW x \in Txns, NEW r \in Refunds, ReverseTransaction(w, x, r)
      PROVE  Typed'
  <2>1. Price \in 0..Price
    BY Limits
  <2> QED BY <1>1, <1>14, <1>c, <2>1 DEF ReverseTransaction
<1>15. ASSUME NEW w \in Workers, SendRefund(w)
      PROVE  Typed'
  <2>1. \A t \in Task, reply \in {"SUCCESS", "FAILED"} :
          About(t, "answered", task[w].txn, task[w].refund, reply) => Shape(w, t)
    BY <1>1, <1>15 DEF SendRefund, At, AllShaped, About, Shape, OfCharge, OfLookup, OfRefund
  <2>2. task' \in [Workers -> Task] /\ AllShaped'
    BY <1>1, <1>15, <2>1, RepliedKeeps, AgainKeeps DEF SendRefund, Stage, TxnStatus
  <2>3. task[w].txn \in Txns
    BY <1>1, <1>15 DEF SendRefund, At, AllShaped, Shape, OfCharge, OfLookup, OfRefund
  <2>4. Granted(wallet[task[w].txn], refund[task[w].refund].type) \in Wallet
    BY <1>1, <2>3 DEF Granted, Wallet
  <2>5. wallet' \in [Txns -> Wallet]
    BY <1>1, <1>15, <2>4 DEF SendRefund
  <2> QED BY <1>1, <1>15, <2>2, <2>5 DEF SendRefund
<1>16. ASSUME NEW w \in Workers, RecordRefund(w)
      PROVE  Typed'
  <2>a. \A t \in Task :
          About(t, "parent", task[w].txn, task[w].refund, task[w].reply) => Shape(w, t)
    BY <1>1, <1>16 DEF RecordRefund, At, AllShaped, About, Shape, OfCharge, OfLookup, OfRefund
  <2>1. task[w].reply \in RefundStatus
    BY <1>1, <1>16 DEF RecordRefund, At, AllShaped, Shape, RefundStatus
  <2>2. task' \in [Workers -> Task] /\ AllShaped'
    BY <1>1, <1>16, <2>a, GoesKeeps, RestsKeeps DEF RecordRefund, Stage
  <2> QED BY <1>1, <1>16, <2>1, <2>2 DEF RecordRefund
<1>17. ASSUME NEW w \in Workers, RecordParent(w)
      PROVE  Typed'
  <2>1. \A t \in Task :
          About(t, "refunded", task[w].txn, task[w].refund, task[w].reply) => Shape(w, t)
    BY <1>1, <1>17 DEF RecordParent, At, AllShaped, About, Shape, OfCharge, OfLookup, OfRefund
  <2>2. task' \in [Workers -> Task] /\ AllShaped'
    BY <1>1, <1>17, <2>1, GoesKeeps, RestsKeeps DEF RecordParent, Stage
  <2>3. PICK st \in TxnStatus : SetStatus(task[w].txn, st)
    BY <1>17 DEF RecordParent, TxnStatus
  <2>4. txn' \in [Txns -> [order: Orders \cup {NoOrder}, status: TxnStatus \cup {"absent"}]]
    BY <1>1, <2>3 DEF SetStatus
  <2> QED BY <1>1, <1>17, <2>2, <2>4 DEF RecordParent
<1>18. ASSUME NEW w \in Workers, WriteRefundEvent(w)
      PROVE  Typed'
  <2>1. task[w].txn \in Txns
    BY <1>1, <1>18 DEF WriteRefundEvent, At, AllShaped, Shape, OfCharge, OfLookup, OfRefund
  <2>2. task' \in [Workers -> Task] /\ AllShaped'
    BY <1>1, <1>18, RestsKeeps DEF WriteRefundEvent
  <2>3. /\ outbox' \in Seq([txn: Txns, type: EventType, published: BOOLEAN])
        /\ 1..Len(outbox) \subseteq 1..Len(outbox')
    BY <1>1, <1>18, <2>1, EventKeeps DEF WriteRefundEvent, EventType
  <2> QED BY <1>1, <1>18, <2>2, <2>3 DEF WriteRefundEvent
<1>19. ASSUME NEW xs \in SUBSET Txns, ListStale(xs)
      PROVE  Typed'
  BY <1>1, <1>19 DEF ListStale, AllShaped
<1>20. ASSUME NEW x \in Txns, ResolveStale(x)
      PROVE  Typed'
  BY <1>1, <1>20, <1>a DEF ResolveStale, Workers
<1>21. ASSUME ListUnpublished
      PROVE  Typed'
  BY <1>1, <1>21 DEF ListUnpublished, AllShaped
<1>22. ASSUME RelayPublish
      PROVE  Typed'
  <2>1. Oldest \in 1..Len(outbox)
    BY <1>22, <1>e DEF RelayPublish
  <2>2. announced' \subseteq 1..Len(outbox)
    BY <1>1, <1>22, <2>1 DEF RelayPublish
  <2> QED BY <1>1, <1>22, <2>2 DEF RelayPublish, AllShaped
<1>23. ASSUME RelayMark
      PROVE  Typed'
  <2>1. Oldest \in 1..Len(outbox)
    BY <1>23, <1>e DEF RelayMark
  <2>2. /\ outbox' \in Seq([txn: Txns, type: EventType, published: BOOLEAN])
        /\ Len(outbox') = Len(outbox)
    <3>1. [outbox[Oldest] EXCEPT !.published = TRUE]
            \in [txn: Txns, type: EventType, published: BOOLEAN]
      <4>1. outbox[Oldest] \in [txn: Txns, type: EventType, published: BOOLEAN]
        BY <2>1, <1>f
      <4> QED BY <4>1
    <3>2. outbox' = [outbox EXCEPT ![Oldest] = [outbox[Oldest] EXCEPT !.published = TRUE]]
      BY <1>23 DEF RelayMark
    <3> QED BY <1>1, <2>1, <3>1, <3>2
  <2> QED BY <1>1, <1>23, <2>2 DEF RelayMark, AllShaped
<1>24. ASSUME NEW x \in Txns, CustomerActs(x)
      PROVE  Typed'
  BY <1>1, <1>24 DEF CustomerActs, AllShaped, Wallet
<1>25. ASSUME Crash
      PROVE  Typed'
  <2>1. Idle \in Task /\ \A w \in Workers : Shape(w, Idle)
    BY IdleTask
  <2>2. task' \in [Workers -> Task] /\ AllShaped'
    BY <1>25, <2>1 DEF Crash, AllShaped
  <2> QED BY <1>1, <1>25, <1>b, <2>2 DEF Crash, Faulty, Counters
<1>26. ASSUME NEW w \in Workers, CutShort(w)
      PROVE  Typed'
  <2>1. ASSUME At(w, "parent"), NEW t \in Task,
               About(t, "refunded", task[w].txn, task[w].refund, task[w].reply)
        PROVE  Shape(w, t)
    BY <1>1, <2>1 DEF At, AllShaped, About, Shape, OfCharge, OfLookup, OfRefund
  <2>2. task' \in [Workers -> Task] /\ AllShaped'
    BY <1>1, <1>26, <2>1, GoesKeeps, RestsKeeps DEF CutShort, Stage
  <2> QED BY <1>1, <1>26, <1>b, <2>2 DEF CutShort, Faulty, Counters
<1>27. ASSUME NEW w \in Workers, LookupFails(w)
      PROVE  Typed'
  BY <1>1, <1>27, <1>b, RestsKeeps DEF LookupFails, Faulty, Counters
<1>28. ASSUME NEW w \in Workers, NEW r \in Refunds, SumFails(w, r)
      PROVE  Typed'
  <2>1. task[w].txn \in Txns /\ task[w].amount \in 0..Price /\ w \in Callers
    BY <1>1, <1>28 DEF SumFails, At, AllShaped, Task, Shape, OfCharge, OfLookup, OfRefund
  <2>2. Refundable(0, task[w].amount) \in 0..Price
    BY <2>1, RefundableBound
  <2> QED BY <1>1, <1>28, <1>b, <1>c, <2>1, <2>2 DEF SumFails, Faulty, Counters
<1>29. ASSUME RelaySkips
      PROVE  Typed'
  BY <1>1, <1>29, <1>b DEF RelaySkips, Faulty, Counters, AllShaped
<1>30. CASE UNCHANGED vars
  BY <1>1, <1>30 DEF vars, AllShaped, Counters, Shape
<1> QED
  BY <1>1, <1>2, <1>3, <1>4, <1>5, <1>6, <1>7, <1>8, <1>9, <1>10, <1>11, <1>12, <1>13,
     <1>14, <1>15, <1>16, <1>17, <1>18, <1>19, <1>20, <1>21, <1>22, <1>23, <1>24, <1>25,
     <1>26, <1>27, <1>28, <1>29, <1>30
  DEF Next, Calls, Proceeds, Background, Fault
-----------------------------------------------------------------------------
(* What a step does to the tasks.                                           *)

OnlyTask(w) == \A v \in Workers : v # w => task'[v] = task[v]

SameRows(w) == task'[w].txn = task[w].txn /\ task'[w].refund = task[w].refund

\* What the updates of a task leave it at.
LEMMA Moves ==
  ASSUME task \in [Workers -> Task], NEW w \in Workers
  PROVE  /\ Rests(w) => OnlyTask(w) /\ task'[w].at = "idle"
         /\ \A stage \in Stage :
              Goes(w, stage) => /\ OnlyTask(w) /\ SameRows(w)
                                /\ task'[w].at = stage /\ task'[w].reply = task[w].reply
         /\ \A stage \in Stage, reply \in TxnStatus :
              Replied(w, stage, reply) => /\ OnlyTask(w) /\ SameRows(w)
                                          /\ task'[w].at = stage /\ task'[w].reply = reply
         /\ \A stage \in Stage :
              Again(w, stage) =>
                /\ OnlyTask(w) /\ SameRows(w)
                /\ \/ task'[w].at = task[w].at /\ task'[w].reply = task[w].reply
                   \/ task'[w].at = stage /\ task'[w].reply = "FAILED"
         /\ \A x : BeginLookup(w, x) =>
                     OnlyTask(w) /\ task'[w].at = "lookup" /\ task'[w].txn = x
         /\ \A r, type, x, amount :
              InsertRefund(w, r, type, x, amount) =>
                /\ OnlyTask(w)
                /\ task'[w].at = "refund" /\ task'[w].refund = r /\ task'[w].txn = x
<1>1. Idle.at = "idle" /\ DOMAIN task = Workers
  BY IdleTask
<1>2. Idle \in Task /\ task[w] \in Task
  BY IdleTask
<1>3. Rests(w) => OnlyTask(w) /\ task'[w].at = "idle"
  BY <1>1 DEF Rests, OnlyTask
<1>4. ASSUME NEW stage \in Stage, Goes(w, stage)
      PROVE  /\ OnlyTask(w) /\ SameRows(w)
             /\ task'[w].at = stage /\ task'[w].reply = task[w].reply
  BY <1>2, <1>4 DEF Goes, OnlyTask, SameRows, Task
<1>5. ASSUME NEW stage \in Stage, NEW reply \in TxnStatus, Replied(w, stage, reply)
      PROVE  /\ OnlyTask(w) /\ SameRows(w)
             /\ task'[w].at = stage /\ task'[w].reply = reply
  BY <1>2, <1>5 DEF Replied, OnlyTask, SameRows, Task
<1>6. ASSUME NEW stage \in Stage, Again(w, stage)
      PROVE  /\ OnlyTask(w) /\ SameRows(w)
             /\ \/ task'[w].at = task[w].at /\ task'[w].reply = task[w].reply
                \/ task'[w].at = stage /\ task'[w].reply = "FAILED"
  BY <1>2, <1>5, <1>6 DEF Again, OnlyTask, SameRows, Task, TxnStatus
<1>7. ASSUME NEW x, BeginLookup(w, x)
      PROVE  OnlyTask(w) /\ task'[w].at = "lookup" /\ task'[w].txn = x
  BY <1>2, <1>7 DEF BeginLookup, OnlyTask, Task
<1>8. ASSUME NEW r, NEW type, NEW x, NEW amount, InsertRefund(w, r, type, x, amount)
      PROVE  /\ OnlyTask(w)
             /\ task'[w].at = "refund" /\ task'[w].refund = r /\ task'[w].txn = x
  BY <1>2, <1>8 DEF InsertRefund, OnlyTask, Task
<1> QED
  BY <1>3, <1>4, <1>5, <1>6, <1>7, <1>8

-----------------------------------------------------------------------------
(* What is marked as paid was paid.  SuccessWasPaid alone is not inductive:   *)
(* an answer that is still to be recorded must tell the truth too.           *)

Answered == {"record", "event", "resolve", "found"}

ToldTruth(w) ==
  task[w].at \in Answered /\ task[w].reply = "SUCCESS" => CustomerPaid(task[w].txn)

PaidInv == SuccessWasPaid /\ \A w \in Workers : ToldTruth(w)

\* Once the customer has paid, that stays so.
PaidStays == \A x \in Txns : CustomerPaid(x) => CustomerPaid(x)'

\* Marking an event changes nothing else of it.
LEMMA MarkKeeps ==
  ASSUME outbox \in Seq([txn: Txns, type: EventType, published: BOOLEAN]),
         NEW i \in 1..Len(outbox), outbox' = [outbox EXCEPT ![i].published = TRUE]
  PROVE  /\ Len(outbox') = Len(outbox)
         /\ \A j \in 1..Len(outbox) :
              /\ outbox'[j].type = outbox[j].type /\ outbox'[j].txn = outbox[j].txn
              /\ outbox'[j].published = (j = i \/ outbox[j].published)
<1> DEFINE E == [txn: Txns, type: EventType, published: BOOLEAN]
<1>1. outbox' = [outbox EXCEPT ![i] = [outbox[i] EXCEPT !.published = TRUE]]
  OBVIOUS
<1>2. \A j \in 1..Len(outbox) : outbox[j] \in E
  <2> HIDE DEF E
  <2>1. outbox \in Seq(E)
    BY DEF E
  <2> QED BY <2>1
<1>3. Len(outbox') = Len(outbox)
  BY <1>1
<1>4. \A j \in 1..Len(outbox) :
        outbox'[j] = IF j = i THEN [outbox[i] EXCEPT !.published = TRUE] ELSE outbox[j]
  BY <1>1
<1>5. /\ [outbox[i] EXCEPT !.published = TRUE].type = outbox[i].type
      /\ [outbox[i] EXCEPT !.published = TRUE].txn = outbox[i].txn
      /\ [outbox[i] EXCEPT !.published = TRUE].published = TRUE
  BY <1>2
<1>6. \A j \in 1..Len(outbox) : outbox[j].published \in BOOLEAN
  BY <1>2
<1> HIDE DEF E
<1>7. ASSUME NEW j \in 1..Len(outbox)
      PROVE  /\ outbox'[j].type = outbox[j].type /\ outbox'[j].txn = outbox[j].txn
             /\ outbox'[j].published = (j = i \/ outbox[j].published)
  <2>1. CASE j = i
    <3>1. outbox'[j] = [outbox[i] EXCEPT !.published = TRUE]
      BY <1>4, <2>1
    <3> QED BY <1>5, <2>1, <3>1
  <2>2. CASE j # i
    <3>1. outbox'[j] = outbox[j]
      BY <1>4, <2>2
    <3> QED BY <1>6, <2>2, <3>1
  <2> QED BY <2>1, <2>2
<1> QED
  BY <1>3, <1>7

\* No step marks as paid what the customer did not pay.
LEMMA PaidStep == Typed /\ PaidInv /\ [Next]_vars => PaidInv'
<1> SUFFICES ASSUME Typed, PaidInv, [Next]_vars PROVE PaidInv'
  OBVIOUS
<1> USE DEF rows, unworked
<1>1. /\ task \in [Workers -> Task] /\ AllShaped
      /\ txn \in [Txns -> [order: Orders \cup {NoOrder}, status: TxnStatus \cup {"absent"}]]
      /\ outbox \in Seq([txn: Txns, type: EventType, published: BOOLEAN])
      /\ wallet \in [Txns -> Wallet]
      /\ relay \subseteq 1..Len(outbox) /\ Len(outbox) \in Nat
      /\ \A w \in Workers : ToldTruth(w)
      /\ SuccessWasPaid
      /\ [Next]_vars
      /\ UNCHANGED wallet => PaidStays
      /\ \A i \in 1..Len(outbox) : outbox[i].txn \in Txns
      /\ \A w \in Workers :
           task[w].at \in Answered => task[w].txn \in Txns
  <2>1. UNCHANGED wallet => PaidStays
    BY DEF PaidStays, CustomerPaid
  <2>2. ASSUME NEW i \in 1..Len(outbox)
        PROVE  outbox[i].txn \in Txns
    <3> DEFINE E == [txn: Txns, type: EventType, published: BOOLEAN]
    <3>1. outbox \in Seq(E)
      BY DEF Typed, TypeOK
    <3> HIDE DEF E
    <3>2. outbox[i] \in E
      BY <3>1
    <3> QED BY <3>2 DEF E
  <2>3. \A w \in Workers : task[w].at \in Answered => task[w].txn \in Txns
    BY DEF Typed, AllShaped, Shape, Answered, OfCharge, OfLookup
  <2>4. Len(outbox) \in Nat
    BY DEF Typed, TypeOK
  <2>5. SuccessWasPaid /\ \A w \in Workers : ToldTruth(w)
    BY DEF PaidInv
  <2> QED BY <2>1, <2>2, <2>3, <2>4, <2>5 DEF Typed, TypeOK
<1>a. ASSUME PaidStays, UNCHANGED <<txn, outbox, task>>
      PROVE  PaidInv'
  BY <1>1, <1>a DEF PaidInv, SuccessWasPaid, ToldTruth, PaidStays, CustomerPaid
<1>e. ASSUME PaidStays, NEW w \in Workers, OnlyTask(w), ToldTruth(w)'
      PROVE  \A v \in Workers : ToldTruth(v)'
  BY <1>1, <1>e DEF OnlyTask, ToldTruth, PaidStays
<1>b. ASSUME PaidStays, UNCHANGED <<txn, outbox>>,
             NEW w \in Workers, OnlyTask(w), ToldTruth(w)'
      PROVE  PaidInv'
  <2>1. SuccessWasPaid'
    BY <1>1, <1>b DEF SuccessWasPaid, PaidStays
  <2> QED BY <1>b, <1>e, <2>1 DEF PaidInv
<1>c. ASSUME UNCHANGED <<wallet, outbox>>,
             \A x \in Txns : txn'[x].status = "SUCCESS" => CustomerPaid(x),
             NEW w \in Workers, OnlyTask(w), ToldTruth(w)'
      PROVE  PaidInv'
  <2>1. SuccessWasPaid'
    BY <1>1, <1>c DEF SuccessWasPaid, CustomerPaid
  <2> QED BY <1>1, <1>c, <1>e, <2>1 DEF PaidInv
<1>d. ASSUME UNCHANGED <<wallet, txn>>, NEW x \in Txns, NEW type \in EventType,
             PublishOutboxEvent(x, type), type = "payment.succeeded" => CustomerPaid(x),
             NEW w \in Workers, Rests(w)
      PROVE  PaidInv'
  <2>1. /\ Len(outbox') = Len(outbox) + 1
        /\ \A i \in 1..Len(outbox) : outbox'[i] = outbox[i]
        /\ outbox'[Len(outbox) + 1] = [txn |-> x, type |-> type, published |-> FALSE]
    BY <1>1, <1>d, EventKeeps
  <2>2. ASSUME NEW i \in 1..Len(outbox'), outbox'[i].type = "payment.succeeded"
        PROVE  CustomerPaid(outbox'[i].txn)
    <3>1. CASE i = Len(outbox) + 1
      BY <1>d, <2>1, <2>2, <3>1
    <3>2. CASE i \in 1..Len(outbox)
      BY <1>1, <2>1, <2>2, <3>2 DEF SuccessWasPaid
    <3> QED BY <1>1, <2>1, <3>1, <3>2
  <2>3. SuccessWasPaid'
    BY <1>1, <1>d, <2>2 DEF SuccessWasPaid, CustomerPaid
  <2>4. OnlyTask(w) /\ ToldTruth(w)'
    BY <1>1, <1>d, Moves DEF ToldTruth, Answered
  <2> QED BY <1>1, <1>d, <1>e, <2>3, <2>4 DEF PaidInv
<1>2. ASSUME NEW w \in Callers, NEW o \in Orders, ChargeCustomer(w, o)
      PROVE  PaidInv'
  <2>1. task'[w].at = "insert" /\ OnlyTask(w)
    BY <1>1, <1>2, IdleTask DEF ChargeCustomer, OnlyTask, Task, Workers
  <2> QED BY <1>1, <1>2, <1>b, <2>1 DEF ChargeCustomer, Workers, ToldTruth, Answered
<1>3. ASSUME NEW w \in Workers, NEW x \in Txns, InsertCharge(w, x)
      PROVE  PaidInv'
  <2>1. task'[w].at = "charge" /\ OnlyTask(w)
    BY <1>1, <1>3 DEF InsertCharge, OnlyTask, Task
  <2>2. ToldTruth(w)'
    BY <2>1 DEF ToldTruth, Answered
  <2>3. \A y \in Txns : txn'[y].status = "SUCCESS" => txn[y].status = "SUCCESS"
    BY <1>1, <1>3 DEF InsertCharge
  <2>4. \A y \in Txns : txn'[y].status = "SUCCESS" => CustomerPaid(y)
    BY <1>1, <2>3 DEF SuccessWasPaid
  <2> QED BY <1>1, <1>3, <1>c, <2>1, <2>2, <2>4 DEF InsertCharge
<1>4. ASSUME NEW w \in Workers, SendCharge(w)
      PROVE  PaidInv'
  <2> DEFINE x == task[w].txn
  <2>1. x \in Txns
    BY <1>1, <1>4 DEF SendCharge, At, AllShaped, Shape, OfCharge
  <2>2. PICK st \in Wallet :
          /\ wallet' = [wallet EXCEPT ![x] = st]
          /\ wallet[x] # "unknown" => st = wallet[x]
          /\ \/ wallet[x] = "unknown" /\ Replied(w, "record", StatusOf(st))
             \/ Replied(w, "record", "FAILED")
             \/ Again(w, "record")
    BY <1>1, <1>4, <2>1 DEF SendCharge, Wallet
  <2>3. PaidStays
    BY <1>1, <2>1, <2>2 DEF PaidStays, CustomerPaid
  <2>4. wallet'[x] = st
    BY <1>1, <2>1, <2>2
  <2>5. OnlyTask(w) /\ SameRows(w)
    BY <1>1, <2>2, Moves DEF Stage, StatusOf, TxnStatus
  <2>6. \/ task'[w].reply = StatusOf(st)
        \/ task'[w].reply = "FAILED"
        \/ task'[w].at = "charge"
    BY <1>1, <1>4, <2>2, Moves DEF SendCharge, At, Stage, StatusOf, TxnStatus
  <2>7. ToldTruth(w)'
    BY <2>4, <2>5, <2>6 DEF ToldTruth, Answered, CustomerPaid, StatusOf, SameRows
  <2> QED BY <1>1, <1>4, <1>b, <2>3, <2>5, <2>7 DEF SendCharge
<1>5. ASSUME NEW w \in Workers, RecordCharge(w)
      PROVE  PaidInv'
  <2>1. task[w].txn \in Txns
    BY <1>1, <1>5 DEF RecordCharge, At, AllShaped, Shape, OfCharge
  <2>2. OnlyTask(w) /\ SameRows(w) /\ task'[w].reply = task[w].reply
    BY <1>1, <1>5, Moves DEF RecordCharge, Stage
  <2>3. task[w].reply = "SUCCESS" => CustomerPaid(task[w].txn)
    BY <1>1, <1>5 DEF RecordCharge, At, ToldTruth, Answered
  <2>4. ToldTruth(w)'
    BY <1>5, <2>2, <2>3 DEF RecordCharge, ToldTruth, SameRows, CustomerPaid
  <2>5. \A y \in Txns : txn'[y].status = "SUCCESS" => CustomerPaid(y)
    BY <1>1, <1>5, <2>1, <2>3 DEF RecordCharge, SetStatus, SuccessWasPaid
  <2> QED BY <1>1, <1>5, <1>c, <2>2, <2>4, <2>5 DEF RecordCharge
<1>6. ASSUME NEW w \in Workers, WriteChargeEvent(w)
      PROVE  PaidInv'
  <2>1. task[w].txn \in Txns
    BY <1>1, <1>6 DEF WriteChargeEvent, At, AllShaped, Shape, OfCharge
  <2>2. PICK type \in EventType :
          /\ PublishOutboxEvent(task[w].txn, type)
          /\ type = "payment.succeeded" => task[w].reply = "SUCCESS"
    BY <1>6 DEF WriteChargeEvent, EventType
  <2>3. type = "payment.succeeded" => CustomerPaid(task[w].txn)
    BY <1>1, <1>6, <2>2 DEF WriteChargeEvent, At, ToldTruth, Answered
  <2> QED BY <1>1, <1>6, <1>d, <2>1, <2>2, <2>3 DEF WriteChargeEvent
<1>7. ASSUME NEW w \in Callers, NEW x \in Txns, LookupTransaction(w, x)
      PROVE  PaidInv'
  <2>1. OnlyTask(w) /\ task'[w].at = "lookup"
    BY <1>1, <1>7, Moves DEF LookupTransaction, Workers
  <2> QED BY <1>1, <1>7, <1>b, <2>1 DEF LookupTransaction, Workers, ToldTruth, Answered
<1>8. ASSUME NEW w \in Callers, NEW x \in Txns, HandleWebhook(w, x)
      PROVE  PaidInv'
  <2>1. OnlyTask(w) /\ task'[w].at = "lookup"
    BY <1>1, <1>8, Moves DEF HandleWebhook, Workers
  <2> QED BY <1>1, <1>8, <1>b, <2>1 DEF HandleWebhook, Workers, ToldTruth, Answered
<1>9. ASSUME NEW w \in Workers, SendLookup(w)
      PROVE  PaidInv'
  <2>1. PICK reply \in LookupReplies(wallet[task[w].txn]) : Replied(w, "resolve", reply)
    BY <1>9 DEF SendLookup
  <2>2. /\ reply \in TxnStatus
        /\ reply = "SUCCESS" => CustomerPaid(task[w].txn)
    BY <2>1 DEF LookupReplies, StatusOf, TxnStatus, CustomerPaid
  <2>3. OnlyTask(w) /\ SameRows(w) /\ task'[w].reply = reply
    BY <1>1, <2>1, <2>2, Moves DEF Stage
  <2>4. ToldTruth(w)'
    BY <1>9, <2>2, <2>3 DEF SendLookup, ToldTruth, SameRows, CustomerPaid
  <2> QED BY <1>1, <1>9, <1>b, <2>3, <2>4 DEF SendLookup
<1>10. ASSUME NEW w \in Workers, RecordLookup(w)
      PROVE  PaidInv'
  <2>1. task[w].txn \in Txns
    BY <1>1, <1>10 DEF RecordLookup, At, AllShaped, Shape, OfLookup
  <2>2. /\ OnlyTask(w)
        /\ \/ task'[w].at = "idle"
           \/ SameRows(w) /\ task'[w].reply = task[w].reply
    BY <1>1, <1>10, Moves DEF RecordLookup, Stage
  <2>3. task[w].reply = "SUCCESS" => CustomerPaid(task[w].txn)
    BY <1>1, <1>10 DEF RecordLookup, At, ToldTruth, Answered
  <2>4. ToldTruth(w)'
    BY <1>10, <2>2, <2>3 DEF RecordLookup, ToldTruth, SameRows, CustomerPaid, Answered
  <2>5. \A y \in Txns : txn'[y].status = "SUCCESS" => CustomerPaid(y)
    BY <1>1, <1>10, <2>1, <2>3 DEF RecordLookup, SetStatus, SuccessWasPaid
  <2> QED BY <1>1, <1>10, <1>c, <2>2, <2>4, <2>5 DEF RecordLookup
<1>11. ASSUME NEW w \in Workers, WriteLookupEvent(w)
      PROVE  PaidInv'
  <2>1. task[w].txn \in Txns /\ CustomerPaid(task[w].txn)
    BY <1>1, <1>11 DEF WriteLookupEvent, At, AllShaped, Shape, OfLookup, ToldTruth, Answered
  <2> QED BY <1>1, <1>11, <1>d, <2>1 DEF WriteLookupEvent, EventType
<1>12. ASSUME NEW w \in Callers, NEW x \in Txns, NEW amount \in 0..Price, RefundTransaction(w, x, amount)
      PROVE  PaidInv'
  <2>1. task'[w].at = "sum" /\ OnlyTask(w)
    BY <1>1, <1>12, IdleTask DEF RefundTransaction, OnlyTask, Task, Workers
  <2> QED BY <1>1, <1>12, <1>b, <2>1 DEF RefundTransaction, Workers, ToldTruth, Answered
<1>13. ASSUME NEW w \in Workers, NEW r \in Refunds, CheckRefund(w, r)
      PROVE  PaidInv'
  <2>1. OnlyTask(w) /\ task'[w].at \in {"idle", "refund"}
    BY <1>1, <1>13, Moves DEF CheckRefund
  <2> QED BY <1>1, <1>13, <1>b, <2>1 DEF CheckRefund, ToldTruth, Answered
<1>14. ASSUME NEW w \in Callers, NEW x \in Txns, NEW r \in Refunds, ReverseTransaction(w, x, r)
      PROVE  PaidInv'
  <2>1. OnlyTask(w) /\ task'[w].at = "refund" /\ w \in Workers
    BY <1>1, <1>14, Moves DEF ReverseTransaction, Workers
  <2> QED BY <1>1, <1>14, <1>b, <2>1 DEF ReverseTransaction, ToldTruth, Answered
<1>15. ASSUME NEW w \in Workers, SendRefund(w)
      PROVE  PaidInv'
  <2>1. OnlyTask(w) /\ task'[w].at \in {"refund", "answered"}
    BY <1>1, <1>15, Moves DEF SendRefund, At, Stage, TxnStatus
  <2>2. PaidStays
    BY <1>1, <1>15 DEF SendRefund, PaidStays, CustomerPaid, Granted
  <2> QED BY <1>1, <1>15, <1>b, <2>1, <2>2 DEF SendRefund, ToldTruth, Answered
<1>16. ASSUME NEW w \in Workers, RecordRefund(w)
      PROVE  PaidInv'
  <2>1. OnlyTask(w) /\ task'[w].at \in {"parent", "idle"}
    BY <1>1, <1>16, Moves DEF RecordRefund, Stage
  <2> QED BY <1>1, <1>16, <1>b, <2>1 DEF RecordRefund, ToldTruth, Answered
<1>17. ASSUME NEW w \in Workers, RecordParent(w)
      PROVE  PaidInv'
  <2>1. OnlyTask(w) /\ task'[w].at \in {"refunded", "idle"}
    BY <1>1, <1>17, Moves DEF RecordParent, Stage
  <2>2. ToldTruth(w)'
    BY <2>1 DEF ToldTruth, Answered
  <2>3. \A y \in Txns : txn'[y].status = "SUCCESS" => txn[y].status = "SUCCESS"
    BY <1>1, <1>17 DEF RecordParent, SetStatus
  <2>4. \A y \in Txns : txn'[y].status = "SUCCESS" => CustomerPaid(y)
    BY <1>1, <2>3 DEF SuccessWasPaid
  <2> QED BY <1>1, <1>17, <1>c, <2>1, <2>2, <2>4 DEF RecordParent
<1>18. ASSUME NEW w \in Workers, WriteRefundEvent(w)
      PROVE  PaidInv'
  <2>1. task[w].txn \in Txns
    BY <1>1, <1>18 DEF WriteRefundEvent, At, AllShaped, Shape, OfRefund
  <2> QED BY <1>1, <1>18, <1>d, <2>1 DEF WriteRefundEvent, EventType
<1>19. ASSUME NEW xs \in SUBSET Txns, ListStale(xs)
      PROVE  PaidInv'
  BY <1>1, <1>19, <1>a DEF ListStale
<1>20. ASSUME NEW x \in Txns, ResolveStale(x)
      PROVE  PaidInv'
  <2>1. OnlyTask("reconciler") /\ task'["reconciler"].at = "lookup" /\ "reconciler" \in Workers
    BY <1>1, <1>20, Moves DEF ResolveStale, Workers
  <2> QED BY <1>1, <1>20, <1>b, <2>1 DEF ResolveStale, ToldTruth, Answered
<1>21. ASSUME ListUnpublished
      PROVE  PaidInv'
  BY <1>1, <1>21, <1>a DEF ListUnpublished
<1>22. ASSUME RelayPublish
      PROVE  PaidInv'
  BY <1>1, <1>22, <1>a DEF RelayPublish
<1>23. ASSUME RelayMark
      PROVE  PaidInv'
  <2>1. Oldest \in 1..Len(outbox)
    BY <1>1, <1>23, OldestListed DEF RelayMark
  <2>2. /\ Len(outbox') = Len(outbox)
        /\ \A i \in 1..Len(outbox) : /\ outbox'[i].type = outbox[i].type
                                    /\ outbox'[i].txn = outbox[i].txn
    BY <1>1, <1>23, <2>1, MarkKeeps DEF RelayMark
  <2> QED BY <1>1, <1>23, <2>2 DEF RelayMark, PaidInv, SuccessWasPaid, ToldTruth, CustomerPaid
<1>24. ASSUME NEW x \in Txns, CustomerActs(x)
      PROVE  PaidInv'
  <2>1. PaidStays
    BY <1>1, <1>24 DEF CustomerActs, PaidStays, CustomerPaid
  <2> QED BY <1>1, <1>24, <1>a, <2>1 DEF CustomerActs
<1>25. ASSUME Crash
      PROVE  PaidInv'
  <2>1. \A w \in Workers : task'[w].at = "idle"
    BY <1>1, <1>25, IdleTask DEF Crash
  <2> QED BY <1>1, <1>25, <2>1 DEF Crash, PaidInv, SuccessWasPaid, ToldTruth, CustomerPaid, Answered
<1>26. ASSUME NEW w \in Workers, CutShort(w)
      PROVE  PaidInv'
  <2>1. OnlyTask(w) /\ task'[w].at \in {"refunded", "idle"}
    BY <1>1, <1>26, Moves DEF CutShort, Stage
  <2> QED BY <1>1, <1>26, <1>b, <2>1 DEF CutShort, ToldTruth, Answered
<1>27. ASSUME NEW w \in Workers, LookupFails(w)
      PROVE  PaidInv'
  <2>1. OnlyTask(w) /\ task'[w].at = "idle"
    BY <1>1, <1>27, Moves DEF LookupFails
  <2> QED BY <1>1, <1>27, <1>b, <2>1 DEF LookupFails, ToldTruth, Answered
<1>28. ASSUME NEW w \in Workers, NEW r \in Refunds, SumFails(w, r)
      PROVE  PaidInv'
  <2>1. OnlyTask(w) /\ task'[w].at = "refund"
    BY <1>1, <1>28, Moves DEF SumFails
  <2> QED BY <1>1, <1>28, <1>b, <2>1 DEF SumFails, ToldTruth, Answered
<1>29. ASSUME RelaySkips
      PROVE  PaidInv'
  BY <1>1, <1>29, <1>a DEF RelaySkips
<1>30. CASE UNCHANGED vars
  BY <1>1, <1>30, <1>a DEF vars
<1> QED
  BY <1>1, <1>2, <1>3, <1>4, <1>5, <1>6, <1>7, <1>8, <1>9, <1>10, <1>11, <1>12, <1>13,
     <1>14, <1>15, <1>16, <1>17, <1>18, <1>19, <1>20, <1>21, <1>22, <1>23, <1>24, <1>25,
     <1>26, <1>27, <1>28, <1>29, <1>30
  DEF Next, Calls, Proceeds, Background, Fault
-----------------------------------------------------------------------------
(* The relay.                                                               *)

\* No step marks an event that was not published.
LEMMA RelayStep == Typed /\ MarkedWasAnnounced /\ [Next]_vars => MarkedWasAnnounced'
<1> SUFFICES ASSUME Typed, MarkedWasAnnounced, [Next]_vars PROVE MarkedWasAnnounced'
  OBVIOUS
<1> USE DEF rows, unworked
<1>1. /\ AllShaped /\ MarkedWasAnnounced /\ [Next]_vars
      /\ outbox \in Seq([txn: Txns, type: EventType, published: BOOLEAN])
      /\ relay \subseteq 1..Len(outbox) /\ Len(outbox) \in Nat
  BY DEF Typed, TypeOK
<1>a. ASSUME UNCHANGED <<outbox, announced>>
      PROVE  MarkedWasAnnounced'
  BY <1>1, <1>a DEF MarkedWasAnnounced
<1>b. ASSUME NEW x \in Txns, NEW type \in EventType, PublishOutboxEvent(x, type),
             UNCHANGED announced
      PROVE  MarkedWasAnnounced'
  <2>1. /\ Len(outbox') = Len(outbox) + 1
        /\ \A i \in 1..Len(outbox) : outbox'[i] = outbox[i]
        /\ outbox'[Len(outbox) + 1] = [txn |-> x, type |-> type, published |-> FALSE]
    BY <1>1, <1>b, EventKeeps
  <2>2. ~outbox'[Len(outbox) + 1].published
    BY <2>1
  <2>3. \A i \in 1..Len(outbox') : i \in 1..Len(outbox) \/ i = Len(outbox) + 1
    BY <1>1, <2>1
  <2> QED BY <1>1, <1>b, <2>1, <2>2, <2>3 DEF MarkedWasAnnounced
<1>2. ASSUME NEW w \in Callers, NEW o \in Orders, ChargeCustomer(w, o)
      PROVE  MarkedWasAnnounced'
  BY <1>1, <1>2, <1>a DEF ChargeCustomer
<1>3. ASSUME NEW w \in Workers, NEW x \in Txns, InsertCharge(w, x)
      PROVE  MarkedWasAnnounced'
  BY <1>1, <1>3, <1>a DEF InsertCharge
<1>4. ASSUME NEW w \in Workers, SendCharge(w)
      PROVE  MarkedWasAnnounced'
  BY <1>1, <1>4, <1>a DEF SendCharge
<1>5. ASSUME NEW w \in Workers, RecordCharge(w)
      PROVE  MarkedWasAnnounced'
  BY <1>1, <1>5, <1>a DEF RecordCharge
<1>6. ASSUME NEW w \in Workers, WriteChargeEvent(w)
      PROVE  MarkedWasAnnounced'
  <2>1. task[w].txn \in Txns
    BY <1>1, <1>6 DEF WriteChargeEvent, At, AllShaped, Shape, OfCharge, OfLookup, OfRefund
  <2>2. PICK type \in EventType : PublishOutboxEvent(task[w].txn, type)
    BY <1>6 DEF WriteChargeEvent, EventType
  <2> QED BY <1>6, <1>b, <2>1, <2>2 DEF WriteChargeEvent
<1>7. ASSUME NEW w \in Callers, NEW x \in Txns, LookupTransaction(w, x)
      PROVE  MarkedWasAnnounced'
  BY <1>1, <1>7, <1>a DEF LookupTransaction
<1>8. ASSUME NEW w \in Callers, NEW x \in Txns, HandleWebhook(w, x)
      PROVE  MarkedWasAnnounced'
  BY <1>1, <1>8, <1>a DEF HandleWebhook
<1>9. ASSUME NEW w \in Workers, SendLookup(w)
      PROVE  MarkedWasAnnounced'
  BY <1>1, <1>9, <1>a DEF SendLookup
<1>10. ASSUME NEW w \in Workers, RecordLookup(w)
      PROVE  MarkedWasAnnounced'
  BY <1>1, <1>10, <1>a DEF RecordLookup
<1>11. ASSUME NEW w \in Workers, WriteLookupEvent(w)
      PROVE  MarkedWasAnnounced'
  <2>1. task[w].txn \in Txns
    BY <1>1, <1>11 DEF WriteLookupEvent, At, AllShaped, Shape, OfCharge, OfLookup, OfRefund
  <2>2. PICK type \in EventType : PublishOutboxEvent(task[w].txn, type)
    BY <1>11 DEF WriteLookupEvent, EventType
  <2> QED BY <1>11, <1>b, <2>1, <2>2 DEF WriteLookupEvent
<1>12. ASSUME NEW w \in Callers, NEW x \in Txns, NEW amount \in 0..Price, RefundTransaction(w, x, amount)
      PROVE  MarkedWasAnnounced'
  BY <1>1, <1>12, <1>a DEF RefundTransaction
<1>13. ASSUME NEW w \in Workers, NEW r \in Refunds, CheckRefund(w, r)
      PROVE  MarkedWasAnnounced'
  BY <1>1, <1>13, <1>a DEF CheckRefund
<1>14. ASSUME NEW w \in Callers, NEW x \in Txns, NEW r \in Refunds, ReverseTransaction(w, x, r)
      PROVE  MarkedWasAnnounced'
  BY <1>1, <1>14, <1>a DEF ReverseTransaction
<1>15. ASSUME NEW w \in Workers, SendRefund(w)
      PROVE  MarkedWasAnnounced'
  BY <1>1, <1>15, <1>a DEF SendRefund
<1>16. ASSUME NEW w \in Workers, RecordRefund(w)
      PROVE  MarkedWasAnnounced'
  BY <1>1, <1>16, <1>a DEF RecordRefund
<1>17. ASSUME NEW w \in Workers, RecordParent(w)
      PROVE  MarkedWasAnnounced'
  BY <1>1, <1>17, <1>a DEF RecordParent
<1>18. ASSUME NEW w \in Workers, WriteRefundEvent(w)
      PROVE  MarkedWasAnnounced'
  <2>1. task[w].txn \in Txns
    BY <1>1, <1>18 DEF WriteRefundEvent, At, AllShaped, Shape, OfCharge, OfLookup, OfRefund
  <2>2. PICK type \in EventType : PublishOutboxEvent(task[w].txn, type)
    BY <1>18 DEF WriteRefundEvent, EventType
  <2> QED BY <1>18, <1>b, <2>1, <2>2 DEF WriteRefundEvent
<1>19. ASSUME NEW xs \in SUBSET Txns, ListStale(xs)
      PROVE  MarkedWasAnnounced'
  BY <1>1, <1>19, <1>a DEF ListStale
<1>20. ASSUME NEW x \in Txns, ResolveStale(x)
      PROVE  MarkedWasAnnounced'
  BY <1>1, <1>20, <1>a DEF ResolveStale
<1>21. ASSUME ListUnpublished
      PROVE  MarkedWasAnnounced'
  BY <1>1, <1>21, <1>a DEF ListUnpublished
<1>22. ASSUME RelayPublish
      PROVE  MarkedWasAnnounced'
  BY <1>1, <1>22 DEF RelayPublish, MarkedWasAnnounced
<1>23. ASSUME RelayMark
      PROVE  MarkedWasAnnounced'
  <2>1. Oldest \in 1..Len(outbox)
    BY <1>1, <1>23, OldestListed DEF RelayMark
  <2>2. /\ Len(outbox') = Len(outbox)
        /\ \A i \in 1..Len(outbox) :
             outbox'[i].published = (i = Oldest \/ outbox[i].published)
    BY <1>1, <1>23, <2>1, MarkKeeps DEF RelayMark
  <2> QED BY <1>1, <1>23, <2>2 DEF RelayMark, MarkedWasAnnounced
<1>24. ASSUME NEW x \in Txns, CustomerActs(x)
      PROVE  MarkedWasAnnounced'
  BY <1>1, <1>24, <1>a DEF CustomerActs
<1>25. ASSUME Crash
      PROVE  MarkedWasAnnounced'
  BY <1>1, <1>25, <1>a DEF Crash
<1>26. ASSUME NEW w \in Workers, CutShort(w)
      PROVE  MarkedWasAnnounced'
  BY <1>1, <1>26, <1>a DEF CutShort
<1>27. ASSUME NEW w \in Workers, LookupFails(w)
      PROVE  MarkedWasAnnounced'
  BY <1>1, <1>27, <1>a DEF LookupFails
<1>28. ASSUME NEW w \in Workers, NEW r \in Refunds, SumFails(w, r)
      PROVE  MarkedWasAnnounced'
  BY <1>1, <1>28, <1>a DEF SumFails
<1>29. ASSUME RelaySkips
      PROVE  MarkedWasAnnounced'
  BY <1>1, <1>29, <1>a DEF RelaySkips
<1>30. CASE UNCHANGED vars
  BY <1>30, <1>a DEF vars
<1> QED
  BY <1>1, <1>2, <1>3, <1>4, <1>5, <1>6, <1>7, <1>8, <1>9, <1>10, <1>11, <1>12, <1>13,
     <1>14, <1>15, <1>16, <1>17, <1>18, <1>19, <1>20, <1>21, <1>22, <1>23, <1>24, <1>25,
     <1>26, <1>27, <1>28, <1>29, <1>30
  DEF Next, Calls, Proceeds, Background, Fault

-----------------------------------------------------------------------------
(* The refunds of a charge, when one caller refunds at a time and the sum of   *)
(* what is refunded can be read.  RefundsWithinCharge alone is not inductive:    *)
(* the refund under way, which the sum does not count, must fit in what is left.  *)

OneCaller == \A v, w \in Callers : v = w

Sent == {"refund", "answered"}

\* The refunds given back of a charge.
Given(x) == {r \in SuccessfulRefunds(x) : refund[r].type = "REF"}

RefundSound(w) ==
  LET r == task[w].refund IN
  task[w].at \in Sent =>
    /\ refund[r].status = "PENDING"
    /\ refund[r].type = "REF" =>
         SumOfRefunds(Given(refund[r].txn)) + refund[r].amount <= Price

RefundInv == RefundsWithinCharge /\ \A w \in Callers : RefundSound(w)

\* No step gives back more than was charged.
LEMMA RefundStep ==
  ASSUME OneCaller, "sum" \notin FaultKinds
  PROVE  Typed /\ RefundInv /\ [Next]_vars => RefundInv'
<1> SUFFICES ASSUME Typed, RefundInv, [Next]_vars PROVE RefundInv'
  OBVIOUS
<1> USE DEF rows, unworked
<1>1. /\ TypeOK /\ task \in [Workers -> Task] /\ AllShaped /\ RefundInv /\ [Next]_vars
      /\ \A c \in Callers : RefundSound(c)
      /\ \A v, w \in Callers : v = w
      /\ "sum" \notin FaultKinds
  BY DEF Typed, TypeOK, RefundInv, OneCaller
<1>f. /\ \A y \in Txns : /\ IsFiniteSet(Given(y)) /\ Given(y) \subseteq Refunds
                         /\ SumOfRefunds(Given(y)) \in Nat
      /\ Price \in Nat
  <2>1. \A y \in Txns : Given(y) \subseteq Refunds
    BY DEF Given, SuccessfulRefunds
  <2> QED BY <1>1, <2>1, FiniteAssumption, FS_Subset, SumRefundedNat, Limits
<1>d. ASSUME UNCHANGED refund, \A c \in Callers : RefundSound(c)'
      PROVE  RefundInv'
  BY <1>1, <1>d DEF RefundInv, RefundsWithinCharge, SumOfRefunds, SuccessfulRefunds
<1>a. ASSUME UNCHANGED <<refund, task>>
      PROVE  RefundInv'
  BY <1>1, <1>a, <1>d DEF RefundSound, Given, SumOfRefunds, SuccessfulRefunds
<1>b. ASSUME UNCHANGED refund, NEW w \in Workers, OnlyTask(w), task'[w].at \notin Sent
      PROVE  RefundInv'
  <2>1. ASSUME NEW c \in Callers
        PROVE  RefundSound(c)'
    <3>1. CASE c = w
      BY <1>b, <3>1 DEF RefundSound
    <3>2. CASE c # w
      <4>1. task'[c] = task[c]
        BY <1>b, <3>2 DEF OnlyTask, Workers
      <4>2. \A x : SumOfRefunds(Given(x))' = SumOfRefunds(Given(x))
        BY <1>b DEF Given, SumOfRefunds, SuccessfulRefunds
      <4>3. RefundSound(c)
        BY <1>1
      <4> QED BY <1>b, <4>1, <4>2, <4>3 DEF RefundSound
    <3> QED BY <3>1, <3>2
  <2> QED BY <1>b, <1>d, <2>1
<1>c. ASSUME NEW w \in Callers, NEW r \in Refunds, NEW type \in {"REF", "REV"},
             NEW x \in Txns, NEW amount \in 0..Price, InsertRefund(w, r, type, x, amount),
             type = "REF" => SumRefunded(x) + amount <= Price
      PROVE  RefundInv'
  <2>1. /\ refund[r].status = "absent"
        /\ refund' = [refund EXCEPT ![r] = [txn |-> x, type |-> type, amount |-> amount,
                                           status |-> "PENDING"]]
        /\ task'[w].refund = r
    <3>1. w \in Workers
      BY DEF Workers
    <3>2. task'[w].refund = r
      BY <1>1, <1>c, <3>1, Moves
    <3> QED BY <1>c, <3>2 DEF InsertRefund
  <2>2. /\ refund'[r].txn = x /\ refund'[r].type = type /\ refund'[r].amount = amount
        /\ refund'[r].status = "PENDING"
        /\ \A p \in Refunds : p # r => refund'[p] = refund[p]
    BY <1>1, <2>1 DEF TypeOK
  <2>3. \A y \in Txns : Given(y)' = Given(y) /\ r \notin Given(y)
    BY <2>1, <2>2 DEF Given, SuccessfulRefunds
  <2>4. ASSUME NEW y \in Txns
        PROVE  SumOfRefunds(Given(y))' = SumOfRefunds(Given(y))
    <3> DEFINE f == [p \in Refunds |-> refund[p].amount]
               g == [p \in Refunds |-> refund'[p].amount]
    <3>1. \A p \in Given(y) : f[p] = g[p]
      BY <1>f, <2>2, <2>3
    <3>2. SumOf(f, Given(y)) = SumOf(g, Given(y))
      <4> HIDE DEF f, g
      <4> QED BY <1>f, <3>1, SumSame
    <3> QED BY <2>3, <3>2 DEF SumOfRefunds
  <2>5. RefundsWithinCharge'
    BY <1>1, <2>4 DEF RefundInv, RefundsWithinCharge, Given
  <2>6. SumOfRefunds(Given(x)) <= SumRefunded(x)
    <3> DEFINE f == [p \in Refunds |-> refund[p].amount]
    <3>1. /\ IsFiniteSet(SuccessfulRefunds(x)) /\ SuccessfulRefunds(x) \subseteq Refunds
          /\ Given(x) \in SUBSET SuccessfulRefunds(x)
      <4>1. SuccessfulRefunds(x) \subseteq Refunds
        BY DEF SuccessfulRefunds
      <4> QED BY <4>1, FiniteAssumption, FS_Subset DEF Given
    <3>2. \A p \in Refunds : f[p] \in Int /\ f[p] >= 0
      BY <1>1, Limits DEF TypeOK
    <3> HIDE DEF f
    <3>3. SumOf(f, Given(x)) <= SumOf(f, SuccessfulRefunds(x))
      BY <3>1, <3>2, SumSubset
    <3> QED BY <3>3 DEF SumOfRefunds, SumRefunded, f
  <2>7. SumRefunded(x) \in Nat
    BY <1>1, SumRefundedNat DEF SumRefunded, SuccessfulRefunds
  <2>8. type = "REF" => SumOfRefunds(Given(x)) + amount <= Price
    BY <1>c, <1>f, <2>6, <2>7
  <2>9. RefundSound(w)'
    BY <2>1, <2>2, <2>4, <2>8 DEF RefundSound
  <2> QED BY <1>1, <2>5, <2>9 DEF RefundInv
<1>2. ASSUME NEW w \in Callers, NEW o \in Orders, ChargeCustomer(w, o)
      PROVE  RefundInv'
  <2>1. OnlyTask(w) /\ task'[w].at \notin Sent
    BY <1>1, <1>2, IdleTask DEF ChargeCustomer, OnlyTask, Task, Workers, Sent
  <2> QED BY <1>2, <1>b, <2>1 DEF ChargeCustomer, Workers
<1>3. ASSUME NEW w \in Workers, NEW x \in Txns, InsertCharge(w, x)
      PROVE  RefundInv'
  <2>1. OnlyTask(w) /\ task'[w].at \notin Sent
    BY <1>1, <1>3, IdleTask DEF InsertCharge, OnlyTask, Task, Workers, Sent
  <2> QED BY <1>3, <1>b, <2>1 DEF InsertCharge, Workers
<1>4. ASSUME NEW w \in Workers, SendCharge(w)
      PROVE  RefundInv'
  <2>1. OnlyTask(w) /\ task'[w].at \notin Sent
    <3>1. \/ \E reply \in TxnStatus : Replied(w, "record", reply)
          \/ Again(w, "record")
      BY <1>4 DEF SendCharge, StatusOf, TxnStatus
    <3> QED BY <1>1, <1>4, <3>1, Moves DEF SendCharge, At, Sent, Stage
  <2> QED BY <1>4, <1>b, <2>1 DEF SendCharge
<1>5. ASSUME NEW w \in Workers, RecordCharge(w)
      PROVE  RefundInv'
  <2>1. OnlyTask(w) /\ task'[w].at \notin Sent
    BY <1>1, <1>5, Moves DEF RecordCharge, Stage, Sent, Workers
  <2> QED BY <1>1, <1>5, <1>b, <2>1 DEF RecordCharge, Workers
<1>6. ASSUME NEW w \in Workers, WriteChargeEvent(w)
      PROVE  RefundInv'
  <2>1. OnlyTask(w) /\ task'[w].at \notin Sent
    BY <1>1, <1>6, Moves DEF WriteChargeEvent, Sent, Workers
  <2> QED BY <1>1, <1>6, <1>b, <2>1 DEF WriteChargeEvent, Workers
<1>7. ASSUME NEW w \in Callers, NEW x \in Txns, LookupTransaction(w, x)
      PROVE  RefundInv'
  <2>1. OnlyTask(w) /\ task'[w].at \notin Sent
    BY <1>1, <1>7, Moves DEF LookupTransaction, Sent, Workers
  <2> QED BY <1>1, <1>7, <1>b, <2>1 DEF LookupTransaction, Workers
<1>8. ASSUME NEW w \in Callers, NEW x \in Txns, HandleWebhook(w, x)
      PROVE  RefundInv'
  <2>1. OnlyTask(w) /\ task'[w].at \notin Sent
    BY <1>1, <1>8, Moves DEF HandleWebhook, Sent, Workers
  <2> QED BY <1>1, <1>8, <1>b, <2>1 DEF HandleWebhook, Workers
<1>9. ASSUME NEW w \in Workers, SendLookup(w)
      PROVE  RefundInv'
  <2>1. OnlyTask(w) /\ task'[w].at \notin Sent
    <3>1. \E reply \in TxnStatus : Replied(w, "resolve", reply)
      BY <1>9 DEF SendLookup, LookupReplies, StatusOf, TxnStatus
    <3> QED BY <1>1, <3>1, Moves DEF Sent, Stage
  <2> QED BY <1>9, <1>b, <2>1 DEF SendLookup
<1>10. ASSUME NEW w \in Workers, RecordLookup(w)
      PROVE  RefundInv'
  <2>1. OnlyTask(w) /\ task'[w].at \notin Sent
    BY <1>1, <1>10, Moves DEF RecordLookup, Stage, Sent, Workers
  <2> QED BY <1>1, <1>10, <1>b, <2>1 DEF RecordLookup, Workers
<1>11. ASSUME NEW w \in Workers, WriteLookupEvent(w)
      PROVE  RefundInv'
  <2>1. OnlyTask(w) /\ task'[w].at \notin Sent
    BY <1>1, <1>11, Moves DEF WriteLookupEvent, Sent, Workers
  <2> QED BY <1>1, <1>11, <1>b, <2>1 DEF WriteLookupEvent, Workers
<1>12. ASSUME NEW w \in Callers, NEW x \in Txns, NEW amount \in 0..Price, RefundTransaction(w, x, amount)
      PROVE  RefundInv'
  <2>1. OnlyTask(w) /\ task'[w].at \notin Sent
    BY <1>1, <1>12, IdleTask DEF RefundTransaction, OnlyTask, Task, Workers, Sent
  <2> QED BY <1>12, <1>b, <2>1 DEF RefundTransaction, Workers
<1>13. ASSUME NEW w \in Workers, NEW r \in Refunds, CheckRefund(w, r)
      PROVE  RefundInv'
  <2> DEFINE x == task[w].txn
             amount == Refundable(SumRefunded(x), task[w].amount)
  <2>1. x \in Txns /\ task[w].amount \in 0..Price /\ w \in Callers
    BY <1>1, <1>13 DEF CheckRefund, At, AllShaped, Task, Shape, OfCharge, OfLookup, OfRefund
  <2>2. CASE Rests(w) /\ UNCHANGED refund
    <3>1. OnlyTask(w) /\ task'[w].at \notin Sent
      BY <1>1, <2>2, Moves DEF Sent
    <3> QED BY <2>2, <1>b, <3>1
  <2>3. CASE InsertRefund(w, r, "REF", x, amount) /\ amount # 0
    <3>1. SumRefunded(x) \in Nat
      BY <1>1, SumRefundedNat DEF SumRefunded, SuccessfulRefunds
    <3>2. amount \in 0..Price /\ (amount > 0 => SumRefunded(x) + amount <= Price)
      BY <2>1, <3>1, RefundableBound
    <3>3. SumRefunded(x) + amount <= Price
      <4> HIDE DEF amount
      <4> QED BY <1>f, <2>3, <3>2
    <3> QED BY <1>c, <2>1, <2>3, <3>2, <3>3
  <2> QED BY <1>13, <2>2, <2>3 DEF CheckRefund
<1>14. ASSUME NEW w \in Callers, NEW x \in Txns, NEW r \in Refunds, ReverseTransaction(w, x, r)
      PROVE  RefundInv'
  <2>1. Price \in 0..Price
    BY Limits
  <2> QED BY <1>14, <1>c, <2>1 DEF ReverseTransaction
<1>15. ASSUME NEW w \in Workers, SendRefund(w)
      PROVE  RefundInv'
  <2>1. OnlyTask(w) /\ SameRows(w) /\ UNCHANGED refund
    BY <1>1, <1>15, Moves DEF SendRefund, Stage, TxnStatus
  <2>2. w \in Callers /\ task[w].at \in Sent
    BY <1>1, <1>15 DEF SendRefund, At, AllShaped, Shape, OfLookup, Sent
  <2>3. RefundSound(w)'
    <3>1. \A x : SumOfRefunds(Given(x))' = SumOfRefunds(Given(x))
      BY <2>1 DEF Given, SumOfRefunds, SuccessfulRefunds
    <3>2. RefundSound(w)
      BY <1>1, <2>2
    <3> QED BY <2>1, <2>2, <3>1, <3>2 DEF RefundSound, SameRows
  <2>4. \A c \in Callers : c = w
    BY <1>1, <2>2
  <2> QED BY <1>d, <2>1, <2>3, <2>4
<1>16. ASSUME NEW w \in Workers, RecordRefund(w)
      PROVE  RefundInv'
  <2> DEFINE q == task[w].refund
             x == refund[q].txn
  <2>1. /\ w \in Callers /\ q \in Refunds /\ RefundSound(w) /\ task[w].at \in Sent
        /\ task[w].reply \in {"SUCCESS", "FAILED"}
    BY <1>1, <1>16 DEF RecordRefund, At, AllShaped, Shape, OfLookup, OfRefund, Sent
  <2>2. OnlyTask(w) /\ task'[w].at \notin Sent
    BY <1>1, <1>16, Moves DEF RecordRefund, Stage, Sent
  <2>3. \A c \in Callers : RefundSound(c)'
    BY <1>1, <2>1, <2>2 DEF RefundSound
  <2>4. /\ refund[q].status = "PENDING"
        /\ refund' = [refund EXCEPT ![q] = [refund[q] EXCEPT !.status = task[w].reply]]
    BY <1>16, <2>1 DEF RecordRefund, RefundSound, Sent
  <2>5. /\ refund'[q].txn = x /\ refund'[q].type = refund[q].type
        /\ refund'[q].amount = refund[q].amount /\ refund'[q].status = task[w].reply
        /\ \A p \in Refunds : p # q => refund'[p] = refund[p]
        /\ refund[q].amount \in Nat
    BY <1>1, <2>1, <2>4 DEF TypeOK
  <2>6. ASSUME NEW y \in Txns
        PROVE  SumOfRefunds(Given(y))' <= Price
    <3>1. CASE y = x /\ refund[q].type = "REF" /\ task[w].reply = "SUCCESS"
      <4>1. Given(y)' = Given(y) \cup {q} /\ q \notin Given(y)
        BY <2>1, <2>4, <2>5, <3>1 DEF Given, SuccessfulRefunds
      <4> DEFINE f == [p \in Refunds |-> refund[p].amount]
                 g == [p \in Refunds |-> refund'[p].amount]
      <4>2. f = g
        BY <2>5
      <4>3. SumOf(f, Given(y) \cup {q}) = f[q] + SumOf(f, Given(y))
        <5>1. \A p \in Refunds : f[p] \in Int
          BY <1>1, Limits DEF TypeOK
        <5>2. IsFiniteSet(Given(y)) /\ Given(y) \subseteq Refunds
          BY <1>f
        <5> HIDE DEF f
        <5> QED BY <2>1, <4>1, <5>1, <5>2, SumAdd
      <4>4. SumOfRefunds(Given(y))' = refund[q].amount + SumOfRefunds(Given(y))
        BY <2>1, <4>1, <4>2, <4>3 DEF SumOfRefunds
      <4>5. SumOfRefunds(Given(y)) + refund[q].amount <= Price
        BY <2>1, <3>1 DEF RefundSound
      <4> QED BY <1>f, <2>5, <4>4, <4>5
    <3>2. CASE ~(y = x /\ refund[q].type = "REF" /\ task[w].reply = "SUCCESS")
      <4>1. Given(y)' = Given(y)
        BY <2>1, <2>4, <2>5, <3>2 DEF Given, SuccessfulRefunds
      <4>2. SumOfRefunds(Given(y))' = SumOfRefunds(Given(y))
        <5>1. [p \in Refunds |-> refund[p].amount] = [p \in Refunds |-> refund'[p].amount]
          BY <2>5
        <5> QED BY <4>1, <5>1 DEF SumOfRefunds
      <4> QED BY <1>1, <4>2 DEF RefundInv, RefundsWithinCharge, Given
    <3> QED BY <3>1, <3>2
  <2> QED BY <2>3, <2>6 DEF RefundInv, RefundsWithinCharge, Given
<1>17. ASSUME NEW w \in Workers, RecordParent(w)
      PROVE  RefundInv'
  <2>1. OnlyTask(w) /\ task'[w].at \notin Sent
    BY <1>1, <1>17, Moves DEF RecordParent, Stage, Sent, Workers
  <2> QED BY <1>1, <1>17, <1>b, <2>1 DEF RecordParent, Workers
<1>18. ASSUME NEW w \in Workers, WriteRefundEvent(w)
      PROVE  RefundInv'
  <2>1. OnlyTask(w) /\ task'[w].at \notin Sent
    BY <1>1, <1>18, Moves DEF WriteRefundEvent, Sent, Workers
  <2> QED BY <1>1, <1>18, <1>b, <2>1 DEF WriteRefundEvent, Workers
<1>19. ASSUME NEW xs \in SUBSET Txns, ListStale(xs)
      PROVE  RefundInv'
  BY <1>1, <1>19, <1>a DEF ListStale
<1>20. ASSUME NEW x \in Txns, ResolveStale(x)
      PROVE  RefundInv'
  <2>1. /\ OnlyTask("reconciler") /\ task'["reconciler"].at \notin Sent
        /\ "reconciler" \in Workers
    BY <1>1, <1>20, Moves DEF ResolveStale, Workers, Sent
  <2> QED BY <1>20, <1>b, <2>1 DEF ResolveStale
<1>21. ASSUME ListUnpublished
      PROVE  RefundInv'
  BY <1>1, <1>21, <1>a DEF ListUnpublished
<1>22. ASSUME RelayPublish
      PROVE  RefundInv'
  BY <1>1, <1>22, <1>a DEF RelayPublish
<1>23. ASSUME RelayMark
      PROVE  RefundInv'
  BY <1>1, <1>23, <1>a DEF RelayMark
<1>24. ASSUME NEW x \in Txns, CustomerActs(x)
      PROVE  RefundInv'
  BY <1>1, <1>24, <1>a DEF CustomerActs
<1>25. ASSUME Crash
      PROVE  RefundInv'
  <2>1. \A w \in Callers : task'[w].at = "idle"
    BY <1>25, IdleTask DEF Crash, Workers
  <2> QED BY <1>25, <1>d, <2>1 DEF Crash, RefundSound, Sent
<1>26. ASSUME NEW w \in Workers, CutShort(w)
      PROVE  RefundInv'
  <2>1. OnlyTask(w) /\ task'[w].at \notin Sent
    BY <1>1, <1>26, Moves DEF CutShort, Stage, Sent, Workers
  <2> QED BY <1>1, <1>26, <1>b, <2>1 DEF CutShort, Workers
<1>27. ASSUME NEW w \in Workers, LookupFails(w)
      PROVE  RefundInv'
  <2>1. OnlyTask(w) /\ task'[w].at \notin Sent
    BY <1>1, <1>27, Moves DEF LookupFails, Sent, Workers
  <2> QED BY <1>1, <1>27, <1>b, <2>1 DEF LookupFails, Workers
<1>28. ASSUME NEW w \in Workers, NEW r \in Refunds, SumFails(w, r)
      PROVE  RefundInv'
  BY <1>1, <1>28 DEF SumFails, Faulty
<1>29. ASSUME RelaySkips
      PROVE  RefundInv'
  BY <1>1, <1>29, <1>a DEF RelaySkips
<1>30. CASE UNCHANGED vars
  BY <1>30, <1>a DEF vars
<1> QED
  BY <1>1, <1>2, <1>3, <1>4, <1>5, <1>6, <1>7, <1>8, <1>9, <1>10, <1>11, <1>12, <1>13,
     <1>14, <1>15, <1>16, <1>17, <1>18, <1>19, <1>20, <1>21, <1>22, <1>23, <1>24, <1>25,
     <1>26, <1>27, <1>28, <1>29, <1>30
  DEF Next, Calls, Proceeds, Background, Fault

-----------------------------------------------------------------------------
(* The life of a charge.  That every step is one of ChargeLife needs to know    *)
(* what a goroutine may rely on while others write: the charge it works on is  *)
(* on record, and the row of its refund or reversal is its own until decided.  *)

OnRecord(x) == txn[x].status # "absent"

Working == OfCharge \cup OfLookup \cup OfRefund \cup {"sum"}

Knows(w) ==
  LET t == task[w] IN
  /\ t.at \in Working => OnRecord(t.txn)
  /\ t.at \in {"record", "resolve"} => t.reply \in {"PENDING", "SUCCESS", "FAILED"}
  /\ t.at = "sum" => CustomerPaid(t.txn)
  /\ t.at \in OfRefund =>
       /\ refund[t.refund].txn = t.txn
       /\ refund[t.refund].status = IF t.at \in Sent THEN "PENDING" ELSE "SUCCESS"
  /\ t.at = "refunded" => refund[t.refund].type = "REF"

Apart(v, w) ==
  v # w /\ task[v].at \in Sent /\ task[w].at \in Sent => task[v].refund # task[w].refund

LifeInv ==
  /\ \A x \in Txns : wallet[x] # "unknown" => OnRecord(x)
  /\ \A w \in Workers : Knows(w)
  /\ \A v, w \in Workers : Apart(v, w)

\* A row that is on record stays there, and EcoCash knows of no other.
Recorded ==
  /\ \A x \in Txns : OnRecord(x) => OnRecord(x)'
  /\ \A x \in Txns : wallet'[x] # "unknown" => OnRecord(x)'

\* A step of one goroutine leaves the others what they know.
LEMMA OneKnows ==
  ASSUME AllShaped, LifeInv, NEW w \in Workers, OnlyTask(w), Knows(w)',
         Recorded, PaidStays,
         \A v \in Workers : v # w /\ task[v].at \in OfRefund =>
                              refund'[task[v].refund] = refund[task[v].refund],
         task'[w].at \in Sent =>
           \A v \in Workers : v # w /\ task[v].at \in Sent => task[v].refund # task'[w].refund
  PROVE  LifeInv'
<1>1. ASSUME NEW v \in Workers
      PROVE  Knows(v)'
  <2>1. CASE v = w
    BY <2>1
  <2>2. CASE v # w
    <3>1. task'[v] = task[v] /\ Knows(v) /\ Shape(v, task[v])
      BY <2>2 DEF OnlyTask, LifeInv, AllShaped
    <3>2. task[v].at \in Working => task[v].txn \in Txns
      BY <3>1 DEF Shape, Working
    <3>3. task[v].at \in Working => OnRecord(task[v].txn)'
      <4>1. task[v].at \in Working => OnRecord(task[v].txn)
        BY <3>1 DEF Knows
      <4>2. task[v].at \in Working => txn'[task[v].txn].status # "absent"
        BY <3>2, <4>1 DEF Recorded, OnRecord
      <4> QED BY <3>1, <4>2 DEF OnRecord
    <3>4. task[v].at = "sum" => CustomerPaid(task[v].txn)'
      <4>1. task[v].at = "sum" => CustomerPaid(task[v].txn) /\ task[v].txn \in Txns
        BY <3>1, <3>2 DEF Knows, Working
      <4>2. task[v].at = "sum" => wallet'[task[v].txn] \in {"taken", "returned"}
        BY <4>1 DEF PaidStays, CustomerPaid
      <4> QED BY <3>1, <4>2 DEF CustomerPaid
    <3>5. task[v].at \in OfRefund => refund'[task[v].refund] = refund[task[v].refund]
      BY <2>2
    <3> QED BY <3>1, <3>3, <3>4, <3>5 DEF Knows, OfRefund, Working
  <2> QED BY <2>1, <2>2
<1>2. ASSUME NEW u \in Workers, NEW v \in Workers
      PROVE  Apart(u, v)'
  <2>1. CASE u # w /\ v # w
    <3>1. task'[u] = task[u] /\ task'[v] = task[v] /\ Apart(u, v)
      BY <2>1 DEF OnlyTask, LifeInv
    <3> QED BY <3>1 DEF Apart
  <2>2. CASE u = w /\ v # w
    <3>1. task'[v] = task[v]
      BY <2>2 DEF OnlyTask
    <3> QED BY <2>2, <3>1 DEF Apart
  <2>3. CASE u # w /\ v = w
    <3>1. task'[u] = task[u]
      BY <2>3 DEF OnlyTask
    <3> QED BY <2>3, <3>1 DEF Apart
  <2> QED BY <2>1, <2>2, <2>3 DEF Apart
<1> QED BY <1>1, <1>2 DEF LifeInv, Recorded, OnRecord

\* ... when no refund is written and it asks for none,
LEMMA QuietKnows ==
  ASSUME AllShaped, LifeInv, NEW w \in Workers, OnlyTask(w), Knows(w)',
         Recorded, PaidStays, UNCHANGED refund,
         task'[w].at \in Sent => task[w].at \in Sent /\ task'[w].refund = task[w].refund
  PROVE  LifeInv'
<1>1. \A v \in Workers : v # w /\ task[v].at \in OfRefund =>
                           refund'[task[v].refund] = refund[task[v].refund]
  OBVIOUS
<1>2. ASSUME task'[w].at \in Sent, NEW v \in Workers, v # w, task[v].at \in Sent
      PROVE  task[v].refund # task'[w].refund
  BY <1>2 DEF LifeInv, Apart
<1> QED BY <1>1, <1>2, OneKnows

\* ... and when it only comes to rest.
LEMMA RestKnows ==
  ASSUME AllShaped, LifeInv, NEW w \in Workers, OnlyTask(w), task'[w].at \in {"idle", "insert"},
         Recorded, PaidStays, UNCHANGED refund
  PROVE  LifeInv'
<1>1. Knows(w)' /\ task'[w].at \notin Sent
  BY DEF Knows, Working, OfCharge, OfLookup, OfRefund, Sent
<1> QED BY <1>1, QuietKnows

\* A new row is nobody else's.
LEMMA InsertKnows ==
  ASSUME Typed, LifeInv, NEW w \in Workers, NEW r \in Refunds, NEW type \in {"REF", "REV"},
         NEW x \in Txns, NEW amount, InsertRefund(w, r, type, x, amount),
         OnRecord(x), UNCHANGED <<txn, wallet>>
  PROVE  LifeInv'
<1>1. /\ OnlyTask(w) /\ task'[w].at = "refund" /\ task'[w].refund = r /\ task'[w].txn = x
  BY Moves DEF Typed, TypeOK
<1>2. /\ refund[r].status = "absent"
      /\ refund'[r].txn = x /\ refund'[r].status = "PENDING"
      /\ \A p \in Refunds : p # r => refund'[p] = refund[p]
  BY DEF InsertRefund, Typed, TypeOK
<1>3. \A v \in Workers : task[v].at \in OfRefund => task[v].refund \in Refunds \ {r}
  <2>1. \A v \in Workers : task[v].at \in OfRefund =>
          task[v].refund \in Refunds /\ refund[task[v].refund].status \in {"PENDING", "SUCCESS"}
    BY DEF Typed, AllShaped, Shape, LifeInv, Knows
  <2> QED BY <1>2, <2>1
<1>4. Recorded /\ PaidStays
  BY DEF Recorded, PaidStays, OnRecord, CustomerPaid, LifeInv
<1>5. Knows(w)'
  BY <1>1, <1>2 DEF Knows, Working, OfRefund, Sent, OnRecord
<1>6. \A v \in Workers : task[v].at \in Sent => task[v].refund # r
  BY <1>3 DEF Sent, OfRefund
<1>7. AllShaped
  BY DEF Typed
<1>8. \A v \in Workers : v # w /\ task[v].at \in OfRefund =>
                           refund'[task[v].refund] = refund[task[v].refund]
  BY <1>2, <1>3
<1>9. task'[w].at \in Sent =>
        \A v \in Workers : v # w /\ task[v].at \in Sent => task[v].refund # task'[w].refund
  BY <1>1, <1>6
<1> QED BY <1>1, <1>4, <1>5, <1>7, <1>8, <1>9, OneKnows

\* Every goroutine goes on knowing what it relies on.
LEMMA LifeInvStep == Typed /\ PaidInv /\ LifeInv /\ [Next]_vars => LifeInv'
<1> SUFFICES ASSUME Typed, PaidInv, LifeInv, [Next]_vars PROVE LifeInv'
  OBVIOUS
<1> USE DEF rows, unworked
<1>1. /\ Typed /\ LifeInv /\ [Next]_vars
      /\ task \in [Workers -> Task] /\ AllShaped
      /\ txn \in [Txns -> [order: Orders \cup {NoOrder}, status: TxnStatus \cup {"absent"}]]
      /\ wallet \in [Txns -> Wallet]
      /\ \A w \in Workers : Knows(w) /\ Shape(w, task[w])
      /\ \A x \in Txns : wallet[x] # "unknown" => OnRecord(x)
      /\ \A w \in Workers : task[w].at \in Working => task[w].txn \in Txns
      /\ \A w \in Workers : task[w].at \in OfRefund => task[w].refund \in Refunds
      /\ Callers \subseteq Workers
  BY DEF Typed, TypeOK, LifeInv, AllShaped, Shape, Working, Workers
<1>a. UNCHANGED <<txn, wallet>> => Recorded /\ PaidStays
  BY <1>1 DEF Recorded, PaidStays, OnRecord, CustomerPaid
<1>b. ASSUME UNCHANGED <<txn, refund, task, wallet>>
      PROVE  LifeInv'
  BY <1>1, <1>b DEF LifeInv, Knows, Apart, OnRecord, CustomerPaid
<1>c. ASSUME NEW w \in Workers, task'[w].at \in Working, NEW x \in Txns, OnRecord(x)',
             task'[w].txn = x, task'[w].at \notin OfRefund \cup {"sum", "record", "resolve"}
      PROVE  Knows(w)'
  BY <1>c DEF Knows, OnRecord, OfRefund
<1>d. ASSUME NEW x \in Txns, NEW st \in TxnStatus, SetStatus(x, st), UNCHANGED wallet, OnRecord(x)
      PROVE  Recorded /\ PaidStays /\ \A y \in Txns : OnRecord(y) => OnRecord(y)'
  <2>1. \A y \in Txns : txn'[y].status = IF y = x THEN st ELSE txn[y].status
    BY <1>1, <1>d DEF SetStatus
  <2>2. st # "absent"
    BY DEF TxnStatus
  <2> QED BY <1>1, <1>d, <2>1, <2>2 DEF Recorded, PaidStays, OnRecord, CustomerPaid
<1>2. ASSUME NEW w \in Callers, NEW o \in Orders, ChargeCustomer(w, o)
      PROVE  LifeInv'
  <2>1. OnlyTask(w) /\ task'[w].at = "insert"
    BY <1>1, <1>2, IdleTask DEF ChargeCustomer, OnlyTask, Task
  <2> QED BY <1>1, <1>2, <1>a, <2>1, RestKnows DEF ChargeCustomer
<1>3. ASSUME NEW w \in Workers, NEW x \in Txns, InsertCharge(w, x)
      PROVE  LifeInv'
  <2>1. OnlyTask(w) /\ task'[w].at = "charge" /\ task'[w].txn = x
    BY <1>1, <1>3 DEF InsertCharge, OnlyTask, Task
  <2>2. \A y \in Txns : txn'[y].status = IF y = x THEN "PENDING" ELSE txn[y].status
    BY <1>1, <1>3 DEF InsertCharge
  <2>3. Recorded /\ PaidStays /\ OnRecord(x)'
    BY <1>1, <1>3, <2>2 DEF InsertCharge, Recorded, PaidStays, OnRecord, CustomerPaid
  <2>4. Knows(w)'
    BY <1>c, <2>1, <2>3 DEF Working, OfCharge, OfRefund
  <2> QED BY <1>1, <1>3, <2>1, <2>3, <2>4, QuietKnows DEF InsertCharge, Sent
<1>4. ASSUME NEW w \in Workers, SendCharge(w)
      PROVE  LifeInv'
  <2> DEFINE x == task[w].txn
  <2>1. x \in Txns /\ OnRecord(x) /\ task[w].at = "charge"
    BY <1>1, <1>4 DEF SendCharge, At, Knows, Working, OfCharge
  <2>2. PICK st \in Wallet :
          /\ wallet' = [wallet EXCEPT ![x] = st]
          /\ wallet[x] # "unknown" => st = wallet[x]
          /\ \/ Replied(w, "record", StatusOf(st))
             \/ Replied(w, "record", "FAILED")
             \/ Again(w, "record")
    BY <1>1, <1>4, <2>1 DEF SendCharge, Wallet
  <2>3. Recorded /\ PaidStays
    BY <1>1, <1>4, <2>1, <2>2 DEF SendCharge, Recorded, PaidStays, CustomerPaid, OnRecord
  <2>4. OnlyTask(w) /\ SameRows(w)
    BY <1>1, <2>2, Moves DEF Stage, StatusOf, TxnStatus
  <2>5. \/ task'[w].at = "charge"
        \/ task'[w].at = "record" /\ task'[w].reply \in {"PENDING", "SUCCESS", "FAILED"}
    BY <1>1, <2>1, <2>2, Moves DEF Stage, StatusOf, TxnStatus
  <2>6. OnRecord(x)' /\ task'[w].txn = x
    BY <1>4, <2>1, <2>4 DEF SendCharge, OnRecord, SameRows
  <2>7. Knows(w)'
    BY <2>5, <2>6 DEF Knows, OnRecord, OfRefund
  <2> QED BY <1>1, <1>4, <2>3, <2>4, <2>5, <2>7, QuietKnows DEF SendCharge, Sent
<1>5. ASSUME NEW w \in Workers, RecordCharge(w)
      PROVE  LifeInv'
  <2>1. PICK x \in Txns : x = task[w].txn /\ OnRecord(x) /\ task[w].reply \in TxnStatus
    BY <1>1, <1>5 DEF RecordCharge, At, Knows, Working, OfCharge, Task
  <2>2. OnlyTask(w) /\ task'[w].txn = x /\ task'[w].at = "event"
    BY <1>1, <1>5, <2>1, Moves DEF RecordCharge, Stage, SameRows
  <2>3. Recorded /\ PaidStays /\ OnRecord(x)'
    BY <1>5, <1>d, <2>1 DEF RecordCharge
  <2>4. Knows(w)'
    BY <1>c, <2>1, <2>2, <2>3 DEF Working, OfCharge, OfRefund, OnRecord
  <2> QED BY <1>1, <1>5, <2>2, <2>3, <2>4, QuietKnows DEF RecordCharge, Sent
<1>6. ASSUME NEW w \in Workers, WriteChargeEvent(w)
      PROVE  LifeInv'
  BY <1>1, <1>6, <1>a, Moves, RestKnows DEF WriteChargeEvent
<1>e. ASSUME NEW w \in Workers, NEW x \in Txns, BeginLookup(w, x), UNCHANGED <<txn, refund, wallet>>
      PROVE  LifeInv'
  <2>1. OnlyTask(w) /\ task'[w].at = "lookup" /\ task'[w].txn = x
    BY <1>1, <1>e, Moves
  <2>2. OnRecord(x)'
    BY <1>e DEF BeginLookup, OnRecord
  <2>3. Knows(w)'
    BY <1>c, <2>1, <2>2 DEF Working, OfLookup, OfRefund
  <2> QED BY <1>1, <1>a, <1>e, <2>1, <2>3, QuietKnows DEF Sent
<1>7. ASSUME NEW w \in Callers, NEW x \in Txns, LookupTransaction(w, x)
      PROVE  LifeInv'
  BY <1>1, <1>7, <1>e DEF LookupTransaction
<1>8. ASSUME NEW w \in Callers, NEW x \in Txns, HandleWebhook(w, x)
      PROVE  LifeInv'
  BY <1>1, <1>8, <1>e DEF HandleWebhook
<1>9. ASSUME NEW w \in Workers, SendLookup(w)
      PROVE  LifeInv'
  <2>1. PICK reply \in {"PENDING", "SUCCESS", "FAILED"} : Replied(w, "resolve", reply)
    BY <1>9 DEF SendLookup, LookupReplies, StatusOf
  <2>2. /\ OnlyTask(w) /\ task'[w].txn = task[w].txn
        /\ task'[w].at = "resolve" /\ task'[w].reply = reply
    BY <1>1, <2>1, Moves DEF Stage, TxnStatus, SameRows
  <2>3. OnRecord(task[w].txn)
    BY <1>1, <1>9 DEF SendLookup, At, Knows, Working, OfLookup
  <2>4. Knows(w)'
    BY <1>9, <2>2, <2>3 DEF SendLookup, Knows, OnRecord, OfRefund
  <2> QED BY <1>1, <1>9, <1>a, <2>2, <2>4, QuietKnows DEF SendLookup, Sent
<1>10. ASSUME NEW w \in Workers, RecordLookup(w)
      PROVE  LifeInv'
  <2>1. PICK x \in Txns : x = task[w].txn /\ OnRecord(x) /\ task[w].reply \in TxnStatus
    BY <1>1, <1>10 DEF RecordLookup, At, Knows, Working, OfLookup, Task
  <2>2. Recorded /\ PaidStays /\ OnRecord(x)'
    BY <1>10, <1>d, <2>1 DEF RecordLookup
  <2>3. CASE Goes(w, "found")
    <3>1. OnlyTask(w) /\ task'[w].txn = x /\ task'[w].at = "found"
      BY <1>1, <2>1, <2>3, Moves DEF Stage, SameRows
    <3>2. Knows(w)'
      BY <1>c, <2>1, <2>2, <3>1 DEF Working, OfLookup, OfRefund, OnRecord
    <3> QED BY <1>1, <1>10, <2>2, <3>1, <3>2, QuietKnows DEF RecordLookup, Sent
  <2>4. CASE Rests(w)
    BY <1>1, <1>10, <2>2, <2>4, Moves, RestKnows DEF RecordLookup
  <2> QED BY <1>10, <2>3, <2>4 DEF RecordLookup
<1>11. ASSUME NEW w \in Workers, WriteLookupEvent(w)
      PROVE  LifeInv'
  BY <1>1, <1>11, <1>a, Moves, RestKnows DEF WriteLookupEvent
<1>12. ASSUME NEW w \in Callers, NEW x \in Txns, NEW amount \in 0..Price, RefundTransaction(w, x, amount)
      PROVE  LifeInv'
  <2>1. OnlyTask(w) /\ task'[w].at = "sum" /\ task'[w].txn = x
    BY <1>1, <1>12, IdleTask DEF RefundTransaction, OnlyTask, Task
  <2>2. OnRecord(x) /\ CustomerPaid(x)
    BY <1>12 DEF RefundTransaction, OnRecord, PaidInv, SuccessWasPaid
  <2>3. Knows(w)'
    BY <1>12, <2>1, <2>2 DEF RefundTransaction, Knows, OnRecord, CustomerPaid, OfRefund
  <2> QED BY <1>1, <1>12, <1>a, <2>1, <2>3, QuietKnows DEF RefundTransaction, Sent
<1>13. ASSUME NEW w \in Workers, NEW r \in Refunds, CheckRefund(w, r)
      PROVE  LifeInv'
  <2> DEFINE amount == Refundable(SumRefunded(task[w].txn), task[w].amount)
  <2>1. task[w].txn \in Txns /\ OnRecord(task[w].txn)
    BY <1>1, <1>13 DEF CheckRefund, At, Knows, Working
  <2>2. CASE Rests(w) /\ UNCHANGED refund
    BY <1>1, <1>13, <1>a, <2>2, Moves, RestKnows DEF CheckRefund
  <2>3. CASE InsertRefund(w, r, "REF", task[w].txn, amount)
    <3> HIDE DEF amount
    <3> QED BY <1>1, <1>13, <2>1, <2>3, InsertKnows DEF CheckRefund
  <2> QED BY <1>13, <2>2, <2>3 DEF CheckRefund
<1>14. ASSUME NEW w \in Callers, NEW x \in Txns, NEW r \in Refunds, ReverseTransaction(w, x, r)
      PROVE  LifeInv'
  <2>1. OnRecord(x)
    BY <1>14 DEF ReverseTransaction, OnRecord
  <2> QED BY <1>1, <1>14, <2>1, InsertKnows DEF ReverseTransaction
<1>15. ASSUME NEW w \in Workers, SendRefund(w)
      PROVE  LifeInv'
  <2> DEFINE x == task[w].txn
  <2>1. /\ x \in Txns /\ OnRecord(x) /\ task[w].at = "refund"
        /\ refund[task[w].refund].txn = x /\ refund[task[w].refund].status = "PENDING"
    BY <1>1, <1>15 DEF SendRefund, At, Knows, Working, OfRefund, Sent
  <2>2. \A y \in Txns : wallet'[y] = wallet[y] \/ y = x
    BY <1>1, <1>15, <2>1 DEF SendRefund
  <2>3. wallet'[x] = wallet[x] \/ wallet'[x] = Granted(wallet[x], refund[task[w].refund].type)
    BY <1>1, <1>15, <2>1 DEF SendRefund
  <2>4. Recorded /\ PaidStays
    <3>1. \A y \in Txns : OnRecord(y) => OnRecord(y)'
      BY <1>15 DEF SendRefund, OnRecord
    <3>2. \A y \in Txns : wallet'[y] # "unknown" => OnRecord(y)'
      <4> HIDE DEF x
      <4> QED BY <1>1, <2>1, <2>2, <3>1
    <3>3. wallet[x] \in {"taken", "returned"} => wallet'[x] \in {"taken", "returned"}
      BY <2>3 DEF Granted
    <3> HIDE DEF x
    <3> QED BY <2>2, <3>1, <3>2, <3>3 DEF Recorded, PaidStays, CustomerPaid
  <2>5. \/ \E reply \in {"SUCCESS", "FAILED"} : Replied(w, "answered", reply)
        \/ Again(w, "answered")
    BY <1>15 DEF SendRefund
  <2>6. OnlyTask(w) /\ SameRows(w) /\ task'[w].at \in Sent
    BY <1>1, <2>1, <2>5, Moves DEF Stage, TxnStatus, Sent
  <2>7. Knows(w)'
    BY <1>15, <2>1, <2>6 DEF SendRefund, Knows, OnRecord, SameRows, Sent
  <2>8. task[w].at \in Sent
    BY <2>1 DEF Sent
  <2> QED BY <1>1, <1>15, <2>4, <2>6, <2>7, <2>8, QuietKnows DEF SendRefund, SameRows
<1>16. ASSUME NEW w \in Workers, RecordRefund(w)
      PROVE  LifeInv'
  <2> DEFINE r == task[w].refund
  <2>1. /\ task[w].at = "answered" /\ task[w].txn \in Txns /\ OnRecord(task[w].txn)
        /\ r \in Refunds /\ refund[r].txn = task[w].txn /\ refund[r].status = "PENDING"
    BY <1>1, <1>16 DEF RecordRefund, At, Knows, Working, OfRefund, Sent
  <2>2. /\ refund'[r].txn = refund[r].txn /\ refund'[r].status = task[w].reply
        /\ \A p \in Refunds : p # r => refund'[p] = refund[p]
    <3>1. refund' = [refund EXCEPT ![r].status = task[w].reply]
      BY <1>16 DEF RecordRefund
    <3>2. refund \in [Refunds -> [txn: Txns \cup {NoTxn}, type: {"REF", "REV"},
                                 amount: 0..Price, status: RefundStatus \cup {"absent"}]]
      BY <1>1 DEF Typed, TypeOK
    <3> QED BY <2>1, <3>1, <3>2
  <2>3. Recorded /\ PaidStays
    BY <1>16, <1>a DEF RecordRefund
  <2>4. ASSUME NEW v \in Workers, v # w, task[v].at \in OfRefund
        PROVE  refund'[task[v].refund] = refund[task[v].refund]
    <3>1. task[v].refund \in Refunds /\ Knows(v) /\ Apart(v, w)
      BY <1>1, <2>4 DEF LifeInv
    <3>2. task[v].refund # r
      BY <2>1, <2>4, <3>1 DEF Knows, Apart, Sent
    <3> QED BY <2>2, <3>1, <3>2
  <2>5. CASE task[w].reply = "SUCCESS" /\ Goes(w, "parent")
    <3>1. OnlyTask(w) /\ SameRows(w) /\ task'[w].at = "parent"
      BY <1>1, <2>5, Moves DEF Stage
    <3>2. Knows(w)'
      BY <1>16, <2>1, <2>2, <2>5, <3>1 DEF RecordRefund, Knows, OnRecord, SameRows, Sent
    <3>3. task'[w].at \notin Sent
      BY <3>1 DEF Sent
    <3> QED BY <1>1, <2>3, <2>4, <3>1, <3>2, <3>3, OneKnows
  <2>6. CASE Rests(w)
    <3>1. OnlyTask(w) /\ task'[w].at = "idle"
      BY <1>1, <2>6, Moves
    <3>2. Knows(w)' /\ task'[w].at \notin Sent
      BY <3>1 DEF Knows, Working, OfCharge, OfLookup, OfRefund, Sent
    <3> QED BY <1>1, <2>3, <2>4, <3>1, <3>2, OneKnows
  <2> QED BY <1>16, <2>5, <2>6 DEF RecordRefund
<1>17. ASSUME NEW w \in Workers, RecordParent(w)
      PROVE  LifeInv'
  <2> DEFINE r == task[w].refund
             st == IF refund[r].type = "REF" THEN "REFUNDED" ELSE "REVERSED"
  <2>1. PICK x \in Txns : /\ x = task[w].txn /\ OnRecord(x)
                          /\ refund[r].txn = x /\ refund[r].status = "SUCCESS"
    BY <1>1, <1>17 DEF RecordParent, At, Knows, Working, OfRefund, Sent
  <2>2. Recorded /\ PaidStays /\ OnRecord(x)'
    <3>1. st \in TxnStatus /\ SetStatus(x, st)
      BY <1>17, <2>1 DEF RecordParent, TxnStatus
    <3> HIDE DEF st
    <3> QED BY <1>17, <1>d, <2>1, <3>1 DEF RecordParent
  <2>3. CASE refund[r].type = "REF" /\ Goes(w, "refunded")
    <3>1. OnlyTask(w) /\ SameRows(w) /\ task'[w].at = "refunded"
      BY <1>1, <2>3, Moves DEF Stage
    <3>2. Knows(w)'
      BY <1>17, <2>1, <2>2, <2>3, <3>1 DEF RecordParent, Knows, OnRecord, SameRows, Sent
    <3> QED BY <1>1, <1>17, <2>2, <3>1, <3>2, QuietKnows DEF RecordParent, Sent
  <2>4. CASE Rests(w)
    BY <1>1, <1>17, <2>2, <2>4, Moves, RestKnows DEF RecordParent
  <2> QED BY <1>17, <2>3, <2>4 DEF RecordParent
<1>18. ASSUME NEW w \in Workers, WriteRefundEvent(w)
      PROVE  LifeInv'
  BY <1>1, <1>18, <1>a, Moves, RestKnows DEF WriteRefundEvent
<1>19. ASSUME NEW xs \in SUBSET Txns, ListStale(xs)
      PROVE  LifeInv'
  BY <1>19, <1>b DEF ListStale
<1>20. ASSUME NEW x \in Txns, ResolveStale(x)
      PROVE  LifeInv'
  BY <1>20, <1>e DEF ResolveStale, Workers
<1>21. ASSUME ListUnpublished
      PROVE  LifeInv'
  BY <1>21, <1>b DEF ListUnpublished
<1>22. ASSUME RelayPublish
      PROVE  LifeInv'
  BY <1>22, <1>b DEF RelayPublish
<1>23. ASSUME RelayMark
      PROVE  LifeInv'
  BY <1>23, <1>b DEF RelayMark
<1>24. ASSUME NEW x \in Txns, CustomerActs(x)
      PROVE  LifeInv'
  <2>1. /\ wallet[x] # "unknown" /\ ~CustomerPaid(x)
        /\ \A y \in Txns : y # x => wallet'[y] = wallet[y]
    BY <1>1, <1>24 DEF CustomerActs, CustomerPaid
  <2>2. \A y \in Txns : wallet'[y] # "unknown" => wallet[y] # "unknown"
    BY <2>1
  <2>3. \A y \in Txns : CustomerPaid(y) => CustomerPaid(y)'
    BY <2>1 DEF CustomerPaid
  <2>4. ASSUME NEW w \in Workers
        PROVE  Knows(w)'
    <3>1. task[w].at = "sum" => CustomerPaid(task[w].txn)'
      BY <1>1, <1>24, <2>3 DEF CustomerActs, Knows, Working
    <3> QED BY <1>1, <1>24, <3>1 DEF CustomerActs, Knows, OnRecord, CustomerPaid
  <2> QED BY <1>1, <1>24, <2>2, <2>4 DEF CustomerActs, LifeInv, Apart, OnRecord
<1>25. ASSUME Crash
      PROVE  LifeInv'
  <2>1. \A w \in Workers : task'[w].at = "idle"
    BY <1>25, IdleTask DEF Crash
  <2>2. \A w \in Workers : Knows(w)' /\ task'[w].at \notin Sent
    BY <2>1 DEF Knows, Working, OfCharge, OfLookup, OfRefund, Sent
  <2> QED BY <1>1, <1>25, <2>2 DEF Crash, LifeInv, Apart, OnRecord
<1>26. ASSUME NEW w \in Workers, CutShort(w)
      PROVE  LifeInv'
  <2>1. CASE Rests(w)
    BY <1>1, <1>26, <1>a, <2>1, Moves, RestKnows DEF CutShort
  <2>2. CASE At(w, "parent") /\ refund[task[w].refund].type = "REF" /\ Goes(w, "refunded")
    <3>1. OnlyTask(w) /\ SameRows(w) /\ task'[w].at = "refunded"
      BY <1>1, <2>2, Moves DEF Stage
    <3>2. /\ OnRecord(task[w].txn) /\ refund[task[w].refund].txn = task[w].txn
          /\ refund[task[w].refund].status = "SUCCESS"
      BY <1>1, <2>2 DEF At, Knows, Working, OfRefund, Sent
    <3>3. Knows(w)'
      BY <1>26, <2>2, <3>1, <3>2 DEF CutShort, Knows, OnRecord, SameRows, Sent
    <3> QED BY <1>1, <1>26, <1>a, <3>1, <3>3, QuietKnows DEF CutShort, Sent
  <2> QED BY <1>26, <2>1, <2>2 DEF CutShort
<1>27. ASSUME NEW w \in Workers, LookupFails(w)
      PROVE  LifeInv'
  BY <1>1, <1>27, <1>a, Moves, RestKnows DEF LookupFails
<1>28. ASSUME NEW w \in Workers, NEW r \in Refunds, SumFails(w, r)
      PROVE  LifeInv'
  <2> DEFINE amount == Refundable(0, task[w].amount)
  <2>1. task[w].txn \in Txns /\ OnRecord(task[w].txn)
    BY <1>1, <1>28 DEF SumFails, At, Knows, Working
  <2>2. InsertRefund(w, r, "REF", task[w].txn, amount) /\ UNCHANGED <<txn, wallet>>
    BY <1>28 DEF SumFails
  <2> HIDE DEF amount
  <2> QED BY <1>1, <2>1, <2>2, InsertKnows
<1>29. ASSUME RelaySkips
      PROVE  LifeInv'
  BY <1>29, <1>b DEF RelaySkips
<1>30. CASE UNCHANGED vars
  BY <1>30, <1>b DEF vars
<1> QED
  BY <1>1, <1>2, <1>3, <1>4, <1>5, <1>6, <1>7, <1>8, <1>9, <1>10, <1>11, <1>12, <1>13,
     <1>14, <1>15, <1>16, <1>17, <1>18, <1>19, <1>20, <1>21, <1>22, <1>23, <1>24, <1>25,
     <1>26, <1>27, <1>28, <1>29, <1>30
  DEF Next, Calls, Proceeds, Background, Fault

LifeStays == UNCHANGED <<PaidCharges, txn, refund, outbox, announced>>

\* Every step is one of ChargeLife's, or none.
LEMMA LifeStep ==
  Typed /\ PaidInv /\ LifeInv /\ [Next]_vars => [Life!LifeNext]_(Life!lifeVars)
<1> SUFFICES ASSUME Typed, PaidInv, LifeInv, [Next]_vars
             PROVE  LifeStays \/ Life!LifeNext
  BY DEF LifeStays, Life!lifeVars
<1> USE DEF rows, unworked
<1>1. /\ Typed /\ LifeInv /\ [Next]_vars
      /\ task \in [Workers -> Task] /\ AllShaped
      /\ wallet \in [Txns -> Wallet]
      /\ \A w \in Workers : Knows(w) /\ Shape(w, task[w]) /\ ToldTruth(w)
      /\ \A x \in Txns : wallet[x] # "unknown" => OnRecord(x)
      /\ \A w \in Workers : task[w].at \in Working => task[w].txn \in Txns /\ OnRecord(task[w].txn)
      /\ \A w \in Workers : task[w].at \in OfRefund => task[w].refund \in Refunds
      /\ Callers \subseteq Workers
      /\ relay \subseteq 1..Len(outbox) /\ Len(outbox) \in Nat
  BY DEF Typed, TypeOK, LifeInv, PaidInv, AllShaped, Shape, Working, Workers, Knows
<1>a. UNCHANGED <<txn, refund, outbox, announced, wallet>> => LifeStays
  BY DEF LifeStays, PaidCharges, CustomerPaid
<1>p. UNCHANGED wallet => UNCHANGED PaidCharges
  BY DEF PaidCharges, CustomerPaid
<1>r. \A x \in Txns : OnRecord(x) <=> Life!OnRecord(x)
  BY DEF OnRecord, Life!OnRecord
<1>b. ASSUME NEW x \in Txns, NEW st \in {"PENDING", "SUCCESS", "FAILED", "REFUNDED", "REVERSED"},
             OnRecord(x), Life!MaySay(x, st), SetStatus(x, st),
             UNCHANGED <<refund, outbox, announced, wallet>>
      PROVE  Life!LifeNext
  <2>1. Life!Write(x, st)
    BY <1>b, <1>p, <1>r DEF Life!Write, SetStatus
  <2> QED BY <2>1 DEF Life!LifeNext
<1>c. ASSUME NEW x \in Txns, NEW type \in EventType, OnRecord(x), Life!MaySay(x, type),
             PublishOutboxEvent(x, type), UNCHANGED <<txn, refund, announced, wallet>>
      PROVE  Life!LifeNext
  <2>1. Life!Tell(x, type)
    BY <1>c, <1>p, <1>r DEF Life!Tell, PublishOutboxEvent
  <2> QED BY <2>1 DEF Life!LifeNext, EventType
<1>d. ASSUME NEW x \in Txns, NEW r \in Refunds, NEW kind \in {"REF", "REV"}, NEW amount \in 1..Price,
             NEW w, InsertRefund(w, r, kind, x, amount), OnRecord(x), kind = "REF" => CustomerPaid(x),
             UNCHANGED <<txn, outbox, announced, wallet>>
      PROVE  Life!LifeNext
  <2>1. Life!Ask(r, x, kind, amount)
    BY <1>d, <1>p, <1>r DEF Life!Ask, InsertRefund, PaidCharges
  <2> QED BY <2>1 DEF Life!LifeNext
<1>e. ASSUME NEW x \in Txns, NEW word \in {"PENDING", "SUCCESS", "FAILED", "payment.pending",
                                           "payment.succeeded", "payment.failed"},
             word \in {"SUCCESS", "payment.succeeded"} => CustomerPaid(x)
      PROVE  Life!MaySay(x, word)
  BY <1>e DEF Life!MaySay, PaidCharges
<1>f. ASSUME NEW r \in Refunds, refund[r].status = "SUCCESS", NEW x \in Txns, refund[r].txn = x
      PROVE  /\ refund[r].type = "REF" => /\ Life!MaySay(x, "REFUNDED")
                                          /\ Life!MaySay(x, "refund.completed")
             /\ refund[r].type = "REV" => Life!MaySay(x, "REVERSED")
  BY <1>f DEF Life!MaySay, Life!GivenBack
<1>2. ASSUME NEW w \in Callers, NEW o \in Orders, ChargeCustomer(w, o)
      PROVE  LifeStays
  BY <1>2, <1>a DEF ChargeCustomer
<1>3. ASSUME NEW w \in Workers, NEW x \in Txns, InsertCharge(w, x)
      PROVE  Life!LifeNext
  <2>1. PICK o \in Orders : o = task[w].order
    BY <1>1, <1>3 DEF InsertCharge, At, Shape
  <2>2. Life!Place(x, o)
    BY <1>3, <1>p, <2>1 DEF InsertCharge, Life!Place, Life!OnRecord
  <2> QED BY <2>2 DEF Life!LifeNext
<1>4. ASSUME NEW w \in Workers, SendCharge(w)
      PROVE  LifeStays \/ Life!LifeNext
  <2>1. PICK x \in Txns : x = task[w].txn /\ OnRecord(x)
    BY <1>1, <1>4 DEF SendCharge, At, Working, OfCharge
  <2>2. PICK st \in Wallet :
          /\ wallet' = [wallet EXCEPT ![x] = st]
          /\ wallet[x] # "unknown" => st = wallet[x]
    BY <1>1, <1>4, <2>1 DEF SendCharge, Wallet
  <2>3. \A y \in Txns : wallet'[y] = IF y = x THEN st ELSE wallet[y]
    BY <1>1, <2>2
  <2>4. CASE st \in {"taken", "returned"}
    <3>1. PaidCharges' = PaidCharges \cup {x}
      BY <2>2, <2>3, <2>4 DEF PaidCharges, CustomerPaid
    <3>2. Life!Pay(x)
      BY <1>4, <1>r, <2>1, <3>1 DEF SendCharge, Life!Pay
    <3> QED BY <3>2 DEF Life!LifeNext
  <2>5. CASE st \notin {"taken", "returned"}
    <3>1. PaidCharges' = PaidCharges
      BY <2>2, <2>3, <2>5 DEF PaidCharges, CustomerPaid
    <3> QED BY <1>4, <3>1 DEF SendCharge, LifeStays
  <2> QED BY <2>4, <2>5
<1>5. ASSUME NEW w \in Workers, RecordCharge(w)
      PROVE  Life!LifeNext
  <2>1. PICK x \in Txns : x = task[w].txn /\ OnRecord(x)
    BY <1>1, <1>5 DEF RecordCharge, At, Working, OfCharge
  <2>2. PICK st \in {"PENDING", "SUCCESS", "FAILED"} : st = task[w].reply
    BY <1>1, <1>5 DEF RecordCharge, At, Knows
  <2>3. st = "SUCCESS" => CustomerPaid(x)
    BY <1>1, <1>5, <2>1, <2>2 DEF RecordCharge, At, ToldTruth, Answered
  <2>4. Life!MaySay(x, st)
    BY <1>e, <2>3
  <2> QED BY <1>5, <1>b, <2>1, <2>2, <2>4 DEF RecordCharge
<1>6. ASSUME NEW w \in Workers, WriteChargeEvent(w)
      PROVE  Life!LifeNext
  <2>1. PICK x \in Txns : x = task[w].txn /\ OnRecord(x)
    BY <1>1, <1>6 DEF WriteChargeEvent, At, Working, OfCharge
  <2>2. PICK type \in {"payment.pending", "payment.succeeded", "payment.failed"} :
          /\ PublishOutboxEvent(x, type)
          /\ type = "payment.succeeded" => task[w].reply = "SUCCESS"
    BY <1>6, <2>1 DEF WriteChargeEvent
  <2>3. type = "payment.succeeded" => CustomerPaid(x)
    BY <1>1, <1>6, <2>1, <2>2 DEF WriteChargeEvent, At, ToldTruth, Answered
  <2>4. Life!MaySay(x, type) /\ type \in EventType
    BY <1>e, <2>3 DEF EventType
  <2> QED BY <1>6, <1>c, <2>1, <2>2, <2>4 DEF WriteChargeEvent
<1>7. ASSUME NEW w \in Callers, NEW x \in Txns, LookupTransaction(w, x)
      PROVE  LifeStays
  BY <1>7, <1>a DEF LookupTransaction
<1>8. ASSUME NEW w \in Callers, NEW x \in Txns, HandleWebhook(w, x)
      PROVE  LifeStays
  BY <1>8, <1>a DEF HandleWebhook
<1>9. ASSUME NEW w \in Workers, SendLookup(w)
      PROVE  LifeStays
  BY <1>9, <1>a DEF SendLookup
<1>10. ASSUME NEW w \in Workers, RecordLookup(w)
      PROVE  Life!LifeNext
  <2>1. PICK x \in Txns : x = task[w].txn /\ OnRecord(x)
    BY <1>1, <1>10 DEF RecordLookup, At, Working, OfLookup
  <2>2. PICK st \in {"PENDING", "SUCCESS", "FAILED"} : st = task[w].reply
    BY <1>1, <1>10 DEF RecordLookup, At, Knows
  <2>3. st = "SUCCESS" => CustomerPaid(x)
    BY <1>1, <1>10, <2>1, <2>2 DEF RecordLookup, At, ToldTruth, Answered
  <2>4. Life!MaySay(x, st)
    BY <1>e, <2>3
  <2> QED BY <1>10, <1>b, <2>1, <2>2, <2>4 DEF RecordLookup
<1>11. ASSUME NEW w \in Workers, WriteLookupEvent(w)
      PROVE  Life!LifeNext
  <2>1. PICK x \in Txns : x = task[w].txn /\ OnRecord(x)
    BY <1>1, <1>11 DEF WriteLookupEvent, At, Working, OfLookup
  <2>2. CustomerPaid(x)
    BY <1>1, <1>11, <2>1 DEF WriteLookupEvent, At, ToldTruth, Answered, Shape
  <2>3. Life!MaySay(x, "payment.succeeded") /\ "payment.succeeded" \in EventType
    BY <1>e, <2>2 DEF EventType
  <2> QED BY <1>11, <1>c, <2>1, <2>3 DEF WriteLookupEvent
<1>12. ASSUME NEW w \in Callers, NEW x \in Txns, NEW amount \in 0..Price, RefundTransaction(w, x, amount)
      PROVE  LifeStays
  BY <1>12, <1>a DEF RefundTransaction
<1>g. ASSUME NEW w \in Workers, NEW r \in Refunds, NEW amount \in 1..Price, At(w, "sum"),
             InsertRefund(w, r, "REF", task[w].txn, amount),
             UNCHANGED <<txn, outbox, announced, wallet>>
      PROVE  Life!LifeNext
  <2>1. PICK x \in Txns : x = task[w].txn /\ OnRecord(x) /\ CustomerPaid(x)
    BY <1>1, <1>g DEF At, Knows, Working
  <2>2. InsertRefund(w, r, "REF", x, amount)
    BY <1>g, <2>1
  <2> QED BY <1>d, <1>g, <2>1, <2>2
<1>13. ASSUME NEW w \in Workers, NEW r \in Refunds, CheckRefund(w, r)
      PROVE  LifeStays \/ Life!LifeNext
  <2> DEFINE amount == Refundable(SumRefunded(task[w].txn), task[w].amount)
  <2>1. CASE amount = 0
    BY <1>13, <1>a, <2>1 DEF CheckRefund
  <2>2. CASE amount # 0
    <3>1. SumRefunded(task[w].txn) \in Nat /\ task[w].amount \in 0..Price
      BY <1>1, SumRefundedNat DEF Typed, SumRefunded, SuccessfulRefunds, Task
    <3>2. amount \in 1..Price
      <4>1. amount \in 0..Price
        BY <3>1, RefundableBound
      <4> HIDE DEF amount
      <4> QED BY <2>2, <4>1, Limits
    <3>3. At(w, "sum") /\ InsertRefund(w, r, "REF", task[w].txn, amount)
      BY <1>13, <2>2 DEF CheckRefund
    <3> HIDE DEF amount
    <3> QED BY <1>13, <1>g, <3>2, <3>3 DEF CheckRefund
  <2> QED BY <2>1, <2>2
<1>14. ASSUME NEW w \in Callers, NEW x \in Txns, NEW r \in Refunds, ReverseTransaction(w, x, r)
      PROVE  Life!LifeNext
  <2>1. OnRecord(x) /\ Price \in 1..Price
    BY <1>14, Limits DEF ReverseTransaction, OnRecord
  <2> QED BY <1>14, <1>d, <2>1 DEF ReverseTransaction
<1>15. ASSUME NEW w \in Workers, SendRefund(w)
      PROVE  LifeStays
  <2>1. PICK x \in Txns : x = task[w].txn
    BY <1>1, <1>15 DEF SendRefund, At, Working, OfRefund
  <2>2. /\ \A y \in Txns : wallet'[y] = wallet[y] \/ y = x
        /\ \/ wallet'[x] = wallet[x]
           \/ wallet'[x] = Granted(wallet[x], refund[task[w].refund].type)
    BY <1>1, <1>15, <2>1 DEF SendRefund
  <2>3. wallet'[x] \in {"taken", "returned"} <=> wallet[x] \in {"taken", "returned"}
    BY <2>2 DEF Granted
  <2>4. PaidCharges' = PaidCharges
    BY <2>2, <2>3 DEF PaidCharges, CustomerPaid
  <2> QED BY <1>15, <2>4 DEF SendRefund, LifeStays
<1>16. ASSUME NEW w \in Workers, RecordRefund(w)
      PROVE  Life!LifeNext
  <2>1. PICK r \in Refunds : r = task[w].refund /\ refund[r].status = "PENDING"
    BY <1>1, <1>16 DEF RecordRefund, At, Knows, OfRefund, Sent
  <2>2. PICK st \in {"SUCCESS", "FAILED"} : st = task[w].reply
    BY <1>1, <1>16 DEF RecordRefund, At, Shape
  <2>3. Life!Decide(r, st)
    BY <1>16, <1>p, <2>1, <2>2 DEF RecordRefund, Life!Decide
  <2> QED BY <2>3 DEF Life!LifeNext
<1>17. ASSUME NEW w \in Workers, RecordParent(w)
      PROVE  Life!LifeNext
  <2>1. PICK x \in Txns : x = task[w].txn /\ OnRecord(x)
    BY <1>1, <1>17 DEF RecordParent, At, Working, OfRefund
  <2>2. PICK r \in Refunds : /\ r = task[w].refund
                             /\ refund[r].status = "SUCCESS" /\ refund[r].txn = x
    BY <1>1, <1>17, <2>1 DEF RecordParent, At, Knows, OfRefund, Sent
  <2>3. refund[r].type \in {"REF", "REV"}
    BY <1>1 DEF Typed, TypeOK
  <2>4. PICK st \in {"REFUNDED", "REVERSED"} :
          /\ SetStatus(x, st)
          /\ st = IF refund[r].type = "REF" THEN "REFUNDED" ELSE "REVERSED"
    BY <1>17, <2>1, <2>2 DEF RecordParent
  <2>5. Life!MaySay(x, st)
    BY <1>f, <2>2, <2>3, <2>4
  <2> QED BY <1>17, <1>b, <2>1, <2>4, <2>5 DEF RecordParent
<1>18. ASSUME NEW w \in Workers, WriteRefundEvent(w)
      PROVE  Life!LifeNext
  <2>1. PICK x \in Txns : x = task[w].txn /\ OnRecord(x)
    BY <1>1, <1>18 DEF WriteRefundEvent, At, Working, OfRefund
  <2>2. PICK r \in Refunds : /\ r = task[w].refund /\ refund[r].type = "REF"
                             /\ refund[r].status = "SUCCESS" /\ refund[r].txn = x
    BY <1>1, <1>18, <2>1 DEF WriteRefundEvent, At, Knows, OfRefund, Sent
  <2>3. Life!MaySay(x, "refund.completed") /\ "refund.completed" \in EventType
    BY <1>f, <2>2 DEF EventType
  <2> QED BY <1>18, <1>c, <2>1, <2>3 DEF WriteRefundEvent
<1>19. ASSUME NEW xs \in SUBSET Txns, ListStale(xs)
      PROVE  LifeStays
  BY <1>19, <1>a DEF ListStale
<1>20. ASSUME NEW x \in Txns, ResolveStale(x)
      PROVE  LifeStays
  BY <1>20, <1>a DEF ResolveStale
<1>21. ASSUME ListUnpublished
      PROVE  LifeStays
  BY <1>21, <1>a DEF ListUnpublished
<1>22. ASSUME RelayPublish
      PROVE  Life!LifeNext
  <2>1. PICK i \in 1..Len(outbox) : i = Oldest
    BY <1>1, <1>22, OldestListed DEF RelayPublish
  <2>2. Life!Send(i)
    BY <1>22, <1>p, <2>1 DEF RelayPublish, Life!Send
  <2> QED BY <2>2 DEF Life!LifeNext
<1>23. ASSUME RelayMark
      PROVE  Life!LifeNext
  <2>1. PICK i \in 1..Len(outbox) : i = Oldest
    BY <1>1, <1>23, OldestListed DEF RelayMark
  <2>2. Life!Mark(i)
    BY <1>23, <1>p, <2>1 DEF RelayMark, Life!Mark
  <2> QED BY <2>2 DEF Life!LifeNext
<1>24. ASSUME NEW x \in Txns, CustomerActs(x)
      PROVE  LifeStays \/ Life!LifeNext
  <2>1. PICK st \in {"taken", "declined"} : wallet' = [wallet EXCEPT ![x] = st]
    BY <1>24 DEF CustomerActs
  <2>2. /\ \A y \in Txns : wallet'[y] = IF y = x THEN st ELSE wallet[y]
        /\ OnRecord(x) /\ wallet[x] = "pending"
    BY <1>1, <1>24, <2>1 DEF CustomerActs
  <2>3. CASE st = "taken"
    <3>1. PaidCharges' = PaidCharges \cup {x}
      BY <2>2, <2>3 DEF PaidCharges, CustomerPaid
    <3>2. Life!Pay(x)
      BY <1>24, <1>r, <2>2, <3>1 DEF CustomerActs, Life!Pay
    <3> QED BY <3>2 DEF Life!LifeNext
  <2>4. CASE st = "declined"
    <3>1. PaidCharges' = PaidCharges
      BY <2>2, <2>4 DEF PaidCharges, CustomerPaid
    <3> QED BY <1>24, <3>1 DEF CustomerActs, LifeStays
  <2> QED BY <2>3, <2>4
<1>25. ASSUME Crash
      PROVE  LifeStays
  BY <1>25, <1>a DEF Crash
<1>26. ASSUME NEW w \in Workers, CutShort(w)
      PROVE  LifeStays
  BY <1>26, <1>a DEF CutShort
<1>27. ASSUME NEW w \in Workers, LookupFails(w)
      PROVE  LifeStays
  BY <1>27, <1>a DEF LookupFails
<1>28. ASSUME NEW w \in Workers, NEW r \in Refunds, SumFails(w, r)
      PROVE  Life!LifeNext
  <2> DEFINE amount == Refundable(0, task[w].amount)
  <2>1. task[w].amount \in 0..Price
    BY <1>1 DEF Task
  <2>2. amount \in 1..Price
    BY <2>1, Limits DEF Refundable
  <2>3. At(w, "sum") /\ InsertRefund(w, r, "REF", task[w].txn, amount)
    BY <1>28 DEF SumFails
  <2> HIDE DEF amount
  <2> QED BY <1>28, <1>g, <2>2, <2>3 DEF SumFails
<1>29. ASSUME RelaySkips
      PROVE  LifeStays
  BY <1>29, <1>a DEF RelaySkips
<1>30. CASE UNCHANGED vars
  BY <1>30, <1>a DEF vars
<1> QED
  BY <1>1, <1>2, <1>3, <1>4, <1>5, <1>6, <1>7, <1>8, <1>9, <1>10, <1>11, <1>12, <1>13,
     <1>14, <1>15, <1>16, <1>17, <1>18, <1>19, <1>20, <1>21, <1>22, <1>23, <1>24, <1>25,
     <1>26, <1>27, <1>28, <1>29, <1>30
  DEF Next, Calls, Proceeds, Background, Fault

-----------------------------------------------------------------------------
(* The theorems.                                                            *)

\* The invariants hold at the start,
LEMMA InitInv == Init => Typed /\ PaidInv /\ MarkedWasAnnounced /\ RefundInv
<1> SUFFICES ASSUME Init PROVE Typed /\ PaidInv /\ MarkedWasAnnounced /\ RefundInv
  OBVIOUS
<1>1. Idle \in Task /\ Idle.at = "idle" /\ \A w \in Workers : Shape(w, Idle)
  BY IdleTask
<1>2. task = [w \in Workers |-> Idle] /\ outbox = <<>> /\ Len(outbox) = 0
  BY DEF Init
<1>3. TypeOK
  BY <1>1, <1>2, Limits DEF Init, TypeOK, TxnStatus, Wallet, Bound
<1>4. Typed
  BY <1>1, <1>2, <1>3 DEF Init, Typed, AllShaped, Counters
<1>5. PaidInv
  BY <1>1, <1>2 DEF Init, PaidInv, SuccessWasPaid, ToldTruth, Answered
<1>6. MarkedWasAnnounced
  BY <1>2 DEF MarkedWasAnnounced
<1>7. RefundInv
  <2>1. \A x \in Txns : {r \in SuccessfulRefunds(x) : refund[r].type = "REF"} = {}
    BY DEF Init, SuccessfulRefunds
  <2>2. RefundsWithinCharge
    <3>1. \A f : SumOf(f, {}) = 0
      BY SumEmpty
    <3>2. 0 <= Price
      BY Limits
    <3> QED BY <2>1, <3>1, <3>2 DEF RefundsWithinCharge, SumOfRefunds
  <2> QED BY <1>1, <1>2, <2>2 DEF RefundInv, RefundSound, Sent, Workers
<1> QED BY <1>4, <1>5, <1>6, <1>7

\* ... and so does what the goroutines rely on,
LEMMA InitLife == Init => LifeInv /\ Life!LifeInit
<1> SUFFICES ASSUME Init PROVE LifeInv /\ Life!LifeInit
  OBVIOUS
<1>1. \A w \in Workers : task[w].at = "idle"
  BY IdleTask DEF Init
<1>2. LifeInv
  BY <1>1 DEF Init, LifeInv, Knows, Apart, Working, OfCharge, OfLookup, OfRefund, Sent
<1>3. PaidCharges = {}
  BY DEF Init, PaidCharges, CustomerPaid
<1> QED BY <1>2, <1>3 DEF Init, Life!LifeInit

\* ... and throughout: the rows, the requests and the tasks keep their types, and
\* every goroutine has the rows that its stage needs.
THEOREM EcoCashTyped == Spec => []Typed
<1>1. Init => Typed
  BY InitInv
<1>2. Typed /\ [Next]_vars => Typed'
  BY TypeStep
<1> QED BY <1>1, <1>2, PTL DEF Spec

\* The variables of ecocash-service keep their types.
THEOREM EcoCashTypeOK == Spec => []TypeOK
<1>1. Typed => TypeOK
  BY DEF Typed
<1> QED BY <1>1, EcoCashTyped, PTL

\* Whatever the order of answers, lookups, webhooks, reversals and crashes, a
\* charge marked as paid was paid, and so was one announced as paid.
THEOREM OnlyPaidSucceeds == Spec => []SuccessWasPaid
<1>1. Init => PaidInv
  BY InitInv
<1>2. Typed /\ PaidInv /\ [Next]_vars => PaidInv'
  BY PaidStep
<1>3. PaidInv => SuccessWasPaid
  BY DEF PaidInv
<1> QED BY <1>1, <1>2, <1>3, EcoCashTyped, PTL DEF Spec

\* The relay never marks an event it has not published, so none is passed over.
THEOREM NothingMarkedUnpublished == Spec => []MarkedWasAnnounced
<1>1. Init => MarkedWasAnnounced
  BY InitInv
<1>2. Typed /\ MarkedWasAnnounced /\ [Next]_vars => MarkedWasAnnounced'
  BY RelayStep
<1> QED BY <1>1, <1>2, EcoCashTyped, PTL DEF Spec

\* One caller that refunds at a time, and that can read what was refunded, gives
\* back no more than was charged, wherever it is cut short.
THEOREM OneCallerRefundsWithin ==
  ASSUME OneCaller, "sum" \notin FaultKinds
  PROVE  Spec => []RefundsWithinCharge
<1>1. Init => RefundInv
  BY InitInv
<1>2. Typed /\ RefundInv /\ [Next]_vars => RefundInv'
  BY RefundStep
<1>3. RefundInv => RefundsWithinCharge
  BY DEF RefundInv
<1> QED BY <1>1, <1>2, <1>3, EcoCashTyped, PTL DEF Spec

\* ecocash-service implements ChargeLife: whatever answers are lost or overtaken, and
\* wherever a call or the process ends, no status and no event claims money that did
\* not move, only paid charges are refunded, and what became of a refund or reversal
\* is written once.
THEOREM ChargesLive == Spec => ImplementsChargeLife
<1>1. Init => Typed /\ PaidInv /\ LifeInv /\ Life!LifeInit
  BY InitInv, InitLife
<1>2. Typed /\ PaidInv /\ LifeInv /\ [Next]_vars => PaidInv' /\ LifeInv'
  BY PaidStep, LifeInvStep
<1>3. Typed /\ PaidInv /\ LifeInv /\ [Next]_vars => [Life!LifeNext]_(Life!lifeVars)
  BY LifeStep
<1> QED BY <1>1, <1>2, <1>3, EcoCashTyped, PTL DEF Spec, ImplementsChargeLife, Life!LifeSpec
=============================================================================
