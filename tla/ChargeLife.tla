------------------------------- MODULE ChargeLife -------------------------------
(***************************************************************************)
(* What ecocash-service promises of the money of a charge.  Its books may be  *)
(* late, or too pessimistic, but they never say that money moved which did     *)
(* not; a request to give money back is made of a charge that is there, and of  *)
(* a paid one if it is a refund, and is decided once; an event is marked as     *)
(* published only when it was.  There is no goroutine, request or retry here.  *)
(***************************************************************************)
EXTENDS Naturals, Sequences

CONSTANTS
  Charges, Orders,
  Repayments,   \* refunds and reversals
  Price         \* cents of a charge

VARIABLES
  paid,         \* the charges that the customer paid
  book,         \* what is on record of each charge
  repaid,       \* ... and of each refund and reversal
  events,       \* what is to be published
  sent          \* which of the events were

lifeVars == <<paid, book, repaid, events, sent>>

LifeInit ==
  /\ paid = {}
  /\ \A x \in Charges : book[x].status = "absent"
  /\ \A r \in Repayments : repaid[r].status = "absent"
  /\ events = <<>>
  /\ sent = {}

OnRecord(x) == book[x].status # "absent"

\* A request of this kind to give money back of the charge was granted.
GivenBack(x, kind) ==
  \E r \in Repayments :
    repaid[r].txn = x /\ repaid[r].type = kind /\ repaid[r].status = "SUCCESS"

\* What may be said of a charge: of money, only what is so.
MaySay(x, word) ==
  /\ word \in {"SUCCESS", "payment.succeeded"} => x \in paid
  /\ word \in {"REFUNDED", "refund.completed"} => GivenBack(x, "REF")
  /\ word = "REVERSED" => GivenBack(x, "REV")

Place(x, o) ==
  /\ ~OnRecord(x)
  /\ book' = [book EXCEPT ![x] = [order |-> o, status |-> "PENDING"]]
  /\ UNCHANGED <<paid, repaid, events, sent>>

\* The customer pays a charge that is on record.
Pay(x) ==
  /\ OnRecord(x)
  /\ paid' = paid \cup {x}
  /\ UNCHANGED <<book, repaid, events, sent>>

Write(x, status) ==
  /\ OnRecord(x) /\ MaySay(x, status)
  /\ book' = [book EXCEPT ![x].status = status]
  /\ UNCHANGED <<paid, repaid, events, sent>>

Tell(x, type) ==
  /\ OnRecord(x) /\ MaySay(x, type)
  /\ events' = Append(events, [txn |-> x, type |-> type, published |-> FALSE])
  /\ UNCHANGED <<paid, book, repaid, sent>>

\* Money is asked back, all of it or a part.
Ask(r, x, kind, amount) ==
  /\ repaid[r].status = "absent"
  /\ OnRecord(x) /\ (kind = "REF" => x \in paid)
  /\ repaid' = [repaid EXCEPT ![r] = [txn |-> x, type |-> kind, amount |-> amount,
                                      status |-> "PENDING"]]
  /\ UNCHANGED <<paid, book, events, sent>>

Decide(r, status) ==
  /\ repaid[r].status = "PENDING"
  /\ repaid' = [repaid EXCEPT ![r].status = status]
  /\ UNCHANGED <<paid, book, events, sent>>

Send(i) ==
  /\ sent' = sent \cup {i}
  /\ UNCHANGED <<paid, book, repaid, events>>

Mark(i) ==
  /\ i \in sent
  /\ events' = [events EXCEPT ![i].published = TRUE]
  /\ UNCHANGED <<paid, book, repaid, sent>>

LifeNext ==
  \/ \E x \in Charges :
       \/ \E o \in Orders : Place(x, o)
       \/ Pay(x)
       \/ \E status \in {"PENDING", "SUCCESS", "FAILED", "REFUNDED", "REVERSED"} :
            Write(x, status)
       \/ \E type \in {"payment.pending", "payment.succeeded", "payment.failed",
                       "refund.completed"} : Tell(x, type)
  \/ \E r \in Repayments :
       \/ \E x \in Charges, kind \in {"REF", "REV"}, amount \in 1..Price :
            Ask(r, x, kind, amount)
       \/ \E status \in {"SUCCESS", "FAILED"} : Decide(r, status)
  \/ \E i \in 1..Len(events) : Send(i) \/ Mark(i)

LifeSpec == LifeInit /\ [][LifeNext]_lifeVars
=============================================================================
