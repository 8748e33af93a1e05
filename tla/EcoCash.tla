-------------------------------- MODULE EcoCash --------------------------------
(***************************************************************************)
(* ecocash-service: charges, refunds and reversals against the EcoCash       *)
(* mobile-money API, the webhook and the reconciler that settle charges left   *)
(* pending, and the outbox relay.  Payouts, two unguarded writes, are left out. *)
(*                                                                         *)
(* No operation opens a transaction: every statement commits by itself, and    *)
(* every statement and every request to EcoCash is a step of its own.  EcoCash  *)
(* is external: wallet says what it made of the charge with each correlator.    *)
(* It may answer, refuse, fail before or after it acted, or not answer in time.  *)
(***************************************************************************)
EXTENDS Naturals, Sequences, FiniteSets, Sums

CONSTANTS
  Orders,
  Txns,         \* payment_transactions rows, and their client_correlators
  Refunds,      \* refund_transactions rows
  Callers,      \* goroutines serving gRPC calls and webhooks
  NoOrder, NoTxn, NoRefund,
  Price,        \* cents of a charge
  MaxAttempts,  \* requests to EcoCash per call (5 in the code)
  FaultKinds,   \* the faults allowed, of those named by Faulty(_)
  MaxFaults,    \* ... and how many of them in one behaviour
  MaxLookups,   \* LookupTransaction calls in one behaviour
  MaxWebhooks   \* webhooks that find a row to look up, in one behaviour

ASSUME NilsAssumption ==
  NoOrder \notin Orders /\ NoTxn \notin Txns /\ NoRefund \notin Refunds
ASSUME CallersAssumption == "reconciler" \notin Callers
ASSUME FiniteAssumption == IsFiniteSet(Refunds)
ASSUME LimitsAssumption ==
  /\ {Price, MaxAttempts} \subseteq Nat \ {0}
  /\ {MaxFaults, MaxLookups, MaxWebhooks} \subseteq Nat
ASSUME KindsAssumption == FaultKinds \subseteq {"crash", "cut", "lookup", "sum", "relay"}

VARIABLES
  txn,          \* payment_transactions
  refund,       \* refund_transactions
  outbox,       \* outbox_events, by id
  wallet,       \* what EcoCash made of each charge
  task,         \* what each goroutine is doing
  stale,        \* the rows the reconciler has listed and not looked up yet
  relay,        \* the events the relay has listed and not marked yet
  announced,    \* the events published to NATS
  used          \* how much of each bound is used up

rows == <<txn, refund, outbox>>
vars == <<txn, refund, outbox, wallet, task, stale, relay, announced, used>>

TxnStatus    == {"PENDING", "SUCCESS", "FAILED", "REFUNDED", "REVERSED"}
Terminal     == TxnStatus \ {"PENDING"}
RefundStatus == {"PENDING", "SUCCESS", "FAILED"}
EventType    == {"payment.pending", "payment.succeeded", "payment.failed",
                 "refund.completed"}

\* taken: the customer paid.  returned: and was given money back.  reversed:
\* undone before the customer paid.
Wallet == {"unknown", "pending", "taken", "declined", "returned", "reversed"}

Workers == Callers \cup {"reconciler"}

\* insert   ChargeCustomer has found no pending charge of the order
\* charge   ... has inserted the row and sends the request
\* record   ... has an answer, or none
\* event    ... has written the status; the outbox event is next
\* lookup   LookupTransaction has read the row
\* resolve  ... has EcoCash's answer
\* found    ... has written SUCCESS; the outbox event is next
\* sum      RefundTransaction has read a SUCCESS row
\* refund   RefundTransaction or ReverseTransaction has inserted its row
\* answered ... has an answer, or none
\* parent   ... has written SUCCESS; the charge's status is next
\* refunded ... has written that too; the outbox event is next
Stage == {"idle", "insert", "charge", "record", "event", "lookup", "resolve",
          "found", "sum", "refund", "answered", "parent", "refunded"}

Task ==
  [at: Stage, order: Orders \cup {NoOrder}, txn: Txns \cup {NoTxn},
   refund: Refunds \cup {NoRefund}, amount: 0..Price, reply: TxnStatus,
   attempt: 0..MaxAttempts]

Idle == [at |-> "idle", order |-> NoOrder, txn |-> NoTxn, refund |-> NoRefund,
         amount |-> 0, reply |-> "PENDING", attempt |-> 0]

Bound == [faults |-> MaxFaults, lookups |-> MaxLookups, webhooks |-> MaxWebhooks]

TypeOK ==
  /\ txn \in [Txns -> [order: Orders \cup {NoOrder}, status: TxnStatus \cup {"absent"}]]
  /\ refund \in [Refunds -> [txn: Txns \cup {NoTxn}, type: {"REF", "REV"},
                             amount: 0..Price, status: RefundStatus \cup {"absent"}]]
  /\ outbox \in Seq([txn: Txns, type: EventType, published: BOOLEAN])
  /\ wallet \in [Txns -> Wallet]
  /\ task \in [Workers -> Task]
  /\ stale \subseteq Txns
  /\ relay \subseteq 1..Len(outbox)
  /\ announced \subseteq 1..Len(outbox)
  /\ \A what \in DOMAIN used : used[what] \in 0..Bound[what]

Init ==
  /\ txn = [x \in Txns |-> [order |-> NoOrder, status |-> "absent"]]
  /\ refund = [r \in Refunds |-> [txn |-> NoTxn, type |-> "REF", amount |-> 0,
                                  status |-> "absent"]]
  /\ outbox = <<>>
  /\ wallet = [x \in Txns |-> "unknown"]
  /\ task = [w \in Workers |-> Idle]
  /\ stale = {}
  /\ relay = {}
  /\ announced = {}
  /\ used = [faults |-> 0, lookups |-> 0, webhooks |-> 0]

Uses(what) ==
  /\ used[what] < Bound[what]
  /\ used' = [used EXCEPT ![what] = @ + 1]

At(w, stage) == task[w].at = stage
Goes(w, stage) == task' = [task EXCEPT ![w].at = stage]
Rests(w) == task' = [task EXCEPT ![w] = Idle]

\* A request ended: the next stage, and the status its reply stands for.
Replied(w, stage, reply) ==
  task' = [task EXCEPT ![w].at = stage, ![w].reply = reply]

\* E014, E015 or a 5xx: sent again after a while, or given up.
Again(w, stage) ==
  IF task[w].attempt < MaxAttempts
  THEN task' = [task EXCEPT ![w].attempt = @ + 1]
  ELSE Replied(w, stage, "FAILED")

SetStatus(x, st) == txn' = [txn EXCEPT ![x].status = st]

\* publishOutboxEvent
PublishOutboxEvent(x, type) ==
  outbox' = Append(outbox, [txn |-> x, type |-> type, published |-> FALSE])

unworked == <<stale, relay, announced>>

-----------------------------------------------------------------------------
(* ChargeCustomer.                                                          *)

\* A pending charge of the order is returned and nothing changes.
ChargeCustomer(w, o) ==
  /\ At(w, "idle")
  /\ ~\E x \in Txns : txn[x].order = o /\ txn[x].status = "PENDING"
  /\ task' = [task EXCEPT ![w] = [Idle EXCEPT !.at = "insert", !.order = o]]
  /\ UNCHANGED <<rows, wallet, unworked, used>>

InsertCharge(w, x) ==
  /\ At(w, "insert")
  /\ txn[x].status = "absent"
  /\ txn' = [txn EXCEPT ![x] = [order |-> task[w].order, status |-> "PENDING"]]
  /\ task' = [task EXCEPT ![w].at = "charge", ![w].txn = x, ![w].attempt = 1]
  /\ UNCHANGED <<refund, outbox, wallet, unworked, used>>

\* Fault for mutation: EcoCash's word for a refusal becomes the status.
StatusInItsWords(st) ==
  CASE st = "taken"   -> "SUCCESS"
    [] st = "pending" -> "PENDING"
    [] OTHER          -> "DECLINED"

\* Fault for mutation: a request that was accepted counts as paid.
StatusOfAccepted(st) == IF st \in {"taken", "pending"} THEN "SUCCESS" ELSE "FAILED"

\* resolveStatus of an answer that tells what became of the charge.
StatusOf(st) ==
  CASE st = "taken"   -> "SUCCESS"
    [] st = "pending" -> "PENDING"
    [] OTHER          -> "FAILED"

\* Client.Charge: the request gets there or not.  A correlator that EcoCash
\* knows is refused (E005); an answer that does not arrive counts as FAILED.
SendCharge(w) ==
  LET x == task[w].txn IN
  /\ At(w, "charge")
  /\ \E st \in IF wallet[x] = "unknown"
               THEN {"unknown", "pending", "taken", "declined"}
               ELSE {wallet[x]} :
       /\ wallet' = [wallet EXCEPT ![x] = st]
       /\ \/ wallet[x] = "unknown" /\ Replied(w, "record", StatusOf(st))
          \/ Replied(w, "record", "FAILED")
          \/ Again(w, "record")
  /\ UNCHANGED <<rows, unworked, used>>

\* Written whatever the row's status is by now.
RecordCharge(w) ==
  /\ At(w, "record")
  /\ SetStatus(task[w].txn, task[w].reply)
  /\ Goes(w, "event")
  /\ UNCHANGED <<refund, outbox, wallet, unworked, used>>

WriteChargeEvent(w) ==
  /\ At(w, "event")
  /\ PublishOutboxEvent(task[w].txn,
       CASE task[w].reply = "SUCCESS" -> "payment.succeeded"
         [] task[w].reply = "PENDING" -> "payment.pending"
         [] OTHER                     -> "payment.failed")
  /\ Rests(w)
  /\ UNCHANGED <<txn, refund, wallet, unworked, used>>

-----------------------------------------------------------------------------
(* LookupTransaction, called by the RPC, the webhook and the reconciler.    *)

BeginLookup(w, x) ==
  /\ At(w, "idle")
  /\ txn[x].status # "absent"
  /\ task' = [task EXCEPT ![w] = [Idle EXCEPT !.at = "lookup", !.txn = x]]

LookupTransaction(w, x) ==
  /\ w \in Callers
  /\ Uses("lookups")
  /\ BeginLookup(w, x)
  /\ UNCHANGED <<rows, wallet, unworked>>

\* HandleWebhook reads the row, and looks it up if it is not terminal.
HandleWebhook(w, x) ==
  /\ w \in Callers
  /\ txn[x].status \notin Terminal
  /\ Uses("webhooks")
  /\ BeginLookup(w, x)
  /\ UNCHANGED <<rows, wallet, unworked>>

\* What resolveStatus makes of a lookup.  EcoCash's words for a charge it does
\* not know, or gave money back for, are not documented; an empty message
\* counts as pending.
LookupReplies(st) ==
  CASE st = "unknown"  -> {"FAILED", "PENDING"}
    [] st = "returned" -> {"SUCCESS", "FAILED"}
    [] OTHER           -> {StatusOf(st)}

SendLookup(w) ==
  /\ At(w, "lookup")
  /\ \E reply \in LookupReplies(wallet[task[w].txn]) : Replied(w, "resolve", reply)
  /\ UNCHANGED <<rows, wallet, unworked, used>>

\* Fault for mutation: a lookup is recorded only if the charge went through.
RecordSuccessOnly(w) ==
  /\ At(w, "resolve")
  /\ IF task[w].reply = "SUCCESS"
     THEN SetStatus(task[w].txn, "SUCCESS") /\ Goes(w, "found")
     ELSE UNCHANGED txn /\ Rests(w)
  /\ UNCHANGED <<refund, outbox, wallet, unworked, used>>

\* Written whatever the row's status is by now; only SUCCESS is announced.
RecordLookup(w) ==
  /\ At(w, "resolve")
  /\ SetStatus(task[w].txn, task[w].reply)
  /\ IF task[w].reply = "SUCCESS" THEN Goes(w, "found") ELSE Rests(w)
  /\ UNCHANGED <<refund, outbox, wallet, unworked, used>>

WriteLookupEvent(w) ==
  /\ At(w, "found")
  /\ PublishOutboxEvent(task[w].txn, "payment.succeeded")
  /\ Rests(w)
  /\ UNCHANGED <<txn, refund, wallet, unworked, used>>

-----------------------------------------------------------------------------
(* RefundTransaction and ReverseTransaction.                                *)

RefundTransaction(w, x, amount) ==
  /\ w \in Callers
  /\ At(w, "idle")
  /\ txn[x].status = "SUCCESS"
  /\ task' = [task EXCEPT ![w] = [Idle EXCEPT !.at = "sum", !.txn = x, !.amount = amount]]
  /\ UNCHANGED <<rows, wallet, unworked, used>>

SuccessfulRefunds(x) ==
  {r \in Refunds : refund[r].txn = x /\ refund[r].status = "SUCCESS"}

SumOfRefunds(rs) == SumOf([r \in Refunds |-> refund[r].amount], rs)

\* SumRefundedAmountForTxn
SumRefunded(x) == SumOfRefunds(SuccessfulRefunds(x))

InsertRefund(w, r, type, x, amount) ==
  /\ refund[r].status = "absent"
  /\ refund' = [refund EXCEPT ![r] = [txn |-> x, type |-> type, amount |-> amount,
                                      status |-> "PENDING"]]
  /\ task' = [task EXCEPT ![w] = [Idle EXCEPT !.at = "refund", !.txn = x, !.refund = r,
                                              !.amount = amount, !.attempt = 1]]

\* Fault for mutation: the amount is compared with the whole charge.
RefundableWhole(already, amount) ==
  LET wanted == IF amount = 0 THEN Price ELSE amount IN
  IF wanted > 0 /\ wanted <= Price THEN wanted ELSE 0

\* The amount to refund when already is refunded, 0 if the call is refused; an
\* amount of 0 asks for all that is left.
Refundable(already, amount) ==
  LET left   == IF already < Price THEN Price - already ELSE 0
      wanted == IF amount = 0 THEN left ELSE amount
  IN  IF wanted <= left THEN wanted ELSE 0

\* The sum is read, and the row is inserted, which the sum does not count.
CheckRefund(w, r) ==
  LET x      == task[w].txn
      amount == Refundable(SumRefunded(x), task[w].amount)
  IN
  /\ At(w, "sum")
  /\ IF amount = 0
     THEN Rests(w) /\ UNCHANGED refund
     ELSE InsertRefund(w, r, "REF", x, amount)
  /\ UNCHANGED <<txn, outbox, wallet, unworked, used>>

ReverseTransaction(w, x, r) ==
  /\ w \in Callers
  /\ At(w, "idle")
  /\ txn[x].status = "PENDING"
  /\ InsertRefund(w, r, "REV", x, Price)
  /\ UNCHANGED <<txn, outbox, wallet, unworked, used>>

\* What EcoCash does when it grants the request.
Granted(st, type) ==
  CASE st = "taken"                    -> "returned"
    [] st = "pending" /\ type = "REV"  -> "reversed"
    [] OTHER                           -> st

\* Client.Refund: granted or not, answered or not.  A refusal counts as SUCCESS
\* if it comes without a status code: only the code is looked at.
SendRefund(w) ==
  LET x    == task[w].txn
      type == refund[task[w].refund].type
  IN
  /\ At(w, "refund")
  /\ wallet' \in {wallet, [wallet EXCEPT ![x] = Granted(@, type)]}
  /\ \/ \E reply \in {"SUCCESS", "FAILED"} : Replied(w, "answered", reply)
     \/ Again(w, "answered")
  /\ UNCHANGED <<rows, unworked, used>>

\* Fault for mutation: the charge is marked whether the request was granted or not.
RecordRefundEitherWay(w) ==
  /\ At(w, "answered")
  /\ refund' = [refund EXCEPT ![task[w].refund].status = task[w].reply]
  /\ Goes(w, "parent")
  /\ UNCHANGED <<txn, outbox, wallet, unworked, used>>

RecordRefund(w) ==
  /\ At(w, "answered")
  /\ refund' = [refund EXCEPT ![task[w].refund].status = task[w].reply]
  /\ IF task[w].reply = "SUCCESS" THEN Goes(w, "parent") ELSE Rests(w)
  /\ UNCHANGED <<txn, outbox, wallet, unworked, used>>

\* The charge becomes REFUNDED, by a partial refund too, or REVERSED, which is
\* not announced.
RecordParent(w) ==
  LET type == refund[task[w].refund].type IN
  /\ At(w, "parent")
  /\ SetStatus(task[w].txn, IF type = "REF" THEN "REFUNDED" ELSE "REVERSED")
  /\ IF type = "REF" THEN Goes(w, "refunded") ELSE Rests(w)
  /\ UNCHANGED <<refund, outbox, wallet, unworked, used>>

WriteRefundEvent(w) ==
  /\ At(w, "refunded")
  /\ PublishOutboxEvent(task[w].txn, "refund.completed")
  /\ Rests(w)
  /\ UNCHANGED <<txn, refund, wallet, unworked, used>>

-----------------------------------------------------------------------------
(* The reconciler and the outbox relay, one goroutine each.                 *)

\* Reconciler.run lists the PENDING rows older than the SLA.  How old a row is
\* is left open: a charge may outlive the SLA several times over.
ListStale(xs) ==
  /\ At("reconciler", "idle") /\ stale = {}
  /\ xs # {} /\ \A x \in xs : txn[x].status = "PENDING"
  /\ stale' = xs
  /\ UNCHANGED <<rows, wallet, task, relay, announced, used>>

\* resolveStaleTxn, whatever the status of the row is by now.
ResolveStale(x) ==
  /\ x \in stale
  /\ BeginLookup("reconciler", x)
  /\ stale' = stale \ {x}
  /\ UNCHANGED <<rows, wallet, relay, announced, used>>

\* OutboxRelay.flush lists the unpublished events,
ListUnpublished ==
  /\ relay = {}
  /\ relay' = {i \in 1..Len(outbox) : ~outbox[i].published}
  /\ relay' # {}
  /\ UNCHANGED <<rows, wallet, task, stale, announced, used>>

\* ... takes them oldest first,
Oldest == Min(relay)

\* Fault for mutation: an event is marked before it is published.
RelayUnpublished ==
  /\ relay # {} /\ Oldest \notin announced
  /\ IF outbox[Oldest].published
     THEN announced' = announced \cup {Oldest} /\ UNCHANGED outbox
     ELSE outbox' = [outbox EXCEPT ![Oldest].published = TRUE] /\ UNCHANGED announced
  /\ UNCHANGED <<txn, refund, wallet, task, stale, relay, used>>

\* ... publishes one,
RelayPublish ==
  /\ relay # {}
  /\ Oldest \notin announced
  /\ announced' = announced \cup {Oldest}
  /\ UNCHANGED <<rows, wallet, task, stale, relay, used>>

\* Fault for mutation: all that was listed is marked at once.
RelayMarkAll ==
  /\ relay # {}
  /\ Oldest \in announced
  /\ outbox' = [i \in 1..Len(outbox) |->
                  IF i \in relay THEN [outbox[i] EXCEPT !.published = TRUE] ELSE outbox[i]]
  /\ relay' = {}
  /\ UNCHANGED <<txn, refund, wallet, task, stale, announced, used>>

\* ... then marks it.  An event that was published before a crash, and not
\* marked, is published once more: the same event, so announced says no more.
RelayMark ==
  /\ relay # {}
  /\ Oldest \in announced
  /\ outbox' = [outbox EXCEPT ![Oldest].published = TRUE]
  /\ relay' = relay \ {Oldest}
  /\ UNCHANGED <<txn, refund, wallet, task, stale, announced, used>>

-----------------------------------------------------------------------------
(* EcoCash, and what may go wrong.                                          *)

\* The customer enters the PIN, or does not.
CustomerActs(x) ==
  /\ wallet[x] = "pending"
  /\ \E st \in {"taken", "declined"} : wallet' = [wallet EXCEPT ![x] = st]
  /\ UNCHANGED <<rows, task, unworked, used>>

Faulty(kind) == kind \in FaultKinds /\ Uses("faults")

\* The process dies and is started again.
Crash ==
  /\ Faulty("crash")
  /\ task' = [w \in Workers |-> Idle]
  /\ stale' = {}
  /\ relay' = {}
  /\ UNCHANGED <<rows, wallet, announced>>

\* The context of a call expires, or one of its statements fails: it returns.
\* A refund goes on to its event when the status of its charge is not written.
CutShort(w) ==
  /\ Faulty("cut")
  /\ ~At(w, "idle")
  /\ \/ Rests(w)
     \/ /\ At(w, "parent")
        /\ refund[task[w].refund].type = "REF"
        /\ Goes(w, "refunded")
  /\ UNCHANGED <<rows, wallet, unworked>>

\* A lookup is not answered: the row keeps its status.
LookupFails(w) ==
  /\ Faulty("lookup")
  /\ At(w, "lookup")
  /\ Rests(w)
  /\ UNCHANGED <<rows, wallet, unworked>>

\* SumRefundedAmountForTxn fails: nothing counts as refunded.
SumFails(w, r) ==
  /\ Faulty("sum")
  /\ At(w, "sum")
  /\ InsertRefund(w, r, "REF", task[w].txn, Refundable(0, task[w].amount))
  /\ UNCHANGED <<txn, outbox, wallet, unworked>>

\* An event cannot be published, or cannot be marked: the relay goes on to the
\* next one, and lists the event again at a later tick.
RelaySkips ==
  /\ Faulty("relay")
  /\ relay # {}
  /\ relay' = relay \ {Oldest}
  /\ UNCHANGED <<rows, wallet, task, stale, announced>>

-----------------------------------------------------------------------------

Proceeds(w) ==
  \/ \E x \in Txns : InsertCharge(w, x)
  \/ SendCharge(w) \/ RecordCharge(w) \/ WriteChargeEvent(w)
  \/ SendLookup(w) \/ RecordLookup(w) \/ WriteLookupEvent(w)
  \/ \E r \in Refunds : CheckRefund(w, r)
  \/ SendRefund(w) \/ RecordRefund(w) \/ RecordParent(w) \/ WriteRefundEvent(w)

Calls(w) ==
  \/ \E o \in Orders : ChargeCustomer(w, o)
  \/ \E x \in Txns : LookupTransaction(w, x)
  \/ \E x \in Txns : HandleWebhook(w, x)
  \/ \E x \in Txns, amount \in 0..Price : RefundTransaction(w, x, amount)
  \/ \E x \in Txns, r \in Refunds : ReverseTransaction(w, x, r)

Background ==
  \/ \E xs \in SUBSET Txns : ListStale(xs)
  \/ \E x \in Txns : ResolveStale(x)
  \/ ListUnpublished
  \/ RelayPublish
  \/ RelayMark

Fault ==
  \/ Crash
  \/ \E w \in Workers : CutShort(w)
  \/ \E w \in Workers : LookupFails(w)
  \/ \E w \in Workers, r \in Refunds : SumFails(w, r)
  \/ RelaySkips

Next ==
  \/ \E w \in Callers : Calls(w)
  \/ \E w \in Workers : Proceeds(w)
  \/ Background
  \/ \E x \in Txns : CustomerActs(x)
  \/ Fault

Spec == Init /\ [][Next]_vars

\* Calls that have begun run on, the tickers of the reconciler and the relay
\* tick, and a row that stays PENDING is old enough some day.  Nobody has to
\* call, and the customer need not act.
Fairness ==
  /\ \A w \in Workers : WF_vars(Proceeds(w))
  /\ \A x \in Txns : SF_vars(\E xs \in SUBSET Txns : x \in xs /\ ListStale(xs))
  /\ \A x \in Txns : SF_vars(ResolveStale(x))
  /\ WF_vars(ListUnpublished)
  /\ WF_vars(RelayPublish)
  /\ WF_vars(RelayMark)

FairSpec == Spec /\ Fairness

-----------------------------------------------------------------------------
(* Safety.                                                                  *)

CustomerPaid(x) == wallet[x] \in {"taken", "returned"}

\* No order of answers, lookups, webhooks, reversals and crashes marks a charge
\* as paid that the customer did not pay, and no such payment is announced.
SuccessWasPaid ==
  /\ \A x \in Txns : txn[x].status = "SUCCESS" => CustomerPaid(x)
  /\ \A i \in 1..Len(outbox) :
       outbox[i].type = "payment.succeeded" => CustomerPaid(outbox[i].txn)

\* The relay never marks an event that it has not published.
MarkedWasAnnounced ==
  \A i \in 1..Len(outbox) : outbox[i].published => i \in announced

\* The refunds of a charge that succeeded never exceed it.  They may when two
\* are under way at once, or when the sum cannot be read.
RefundsWithinCharge ==
  \A x \in Txns :
    SumOfRefunds({r \in SuccessfulRefunds(x) : refund[r].type = "REF"}) <= Price

PaidCharges == {x \in Txns : CustomerPaid(x)}

Life == INSTANCE ChargeLife
          WITH Charges <- Txns, Repayments <- Refunds,
               paid <- PaidCharges, book <- txn, repaid <- refund,
               events <- outbox, sent <- announced

\* Whatever order answers, lookups, webhooks and retries come in, and wherever the
\* process dies: no status and no event claims money that did not move, only paid
\* charges are refunded, and the outcome of a refund or reversal is written once.
ImplementsChargeLife == Life!LifeSpec

-----------------------------------------------------------------------------
(* Liveness.                                                                *)

Watched == 1..3   \* the places in the outbox that the property follows

\* Every event in the outbox is published, crashes notwithstanding.
EventsAreAnnounced ==
  \A i \in Watched : i <= Len(outbox) ~> i \in announced

\* A charge that was decided at EcoCash does not stay pending, though its call
\* or the whole process died and its webhook never came.
DecidedIsResolved ==
  \A x \in Txns :
    wallet[x] \in {"taken", "declined"} /\ txn[x].status = "PENDING"
      ~> txn[x].status # "PENDING"

-----------------------------------------------------------------------------
(* What the repository says and the code does not keep.                     *)

\* A webhook "only processes correlators that are ... in PENDING state".
TerminalIsFinal ==
  [][\A x \in Txns :
       txn[x].status \in Terminal => txn'[x].status # "PENDING"]_txn

\* "Guarantees no lost events": what succeeded is announced.
SuccessIsAnnounced ==
  \A x \in Txns :
    txn[x].status = "SUCCESS"
      ~> \E i \in 1..Len(outbox) :
           outbox[i].txn = x /\ outbox[i].type = "payment.succeeded"

\* Timeouts are transient: what the customer paid is found out by a lookup.
PaidIsFoundOut ==
  \A x \in Txns : CustomerPaid(x) ~> txn[x].status \in {"SUCCESS", "REFUNDED", "REVERSED"}

\* "Idempotent re-entry": an order has one pending charge.
OnePendingCharge ==
  \A o \in Orders :
    Cardinality({x \in Txns : txn[x].order = o /\ txn[x].status = "PENDING"}) <= 1
=============================================================================
