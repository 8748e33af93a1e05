----------------------------- MODULE SellerLedger -----------------------------
(***************************************************************************)
(* seller-service's money: the seller_earnings ledger, the payouts drawn     *)
(* from it, the ad credit and the sales counter, written by the NATS worker    *)
(* and by the RPCs CreatePayout and AddAdCredit.                             *)
(*                                                                         *)
(* Transactions run at READ COMMITTED and lock nothing they read, so what a   *)
(* transaction read, and its commit, are steps of their own: CreatePayout      *)
(* reads the balance, then the earned entries, then writes; AddAdCredit reads  *)
(* the balance, then writes; the UPDATE of handleOrderItemUpdated finds its    *)
(* rows, waits for a payout that holds them, then writes those rows only.      *)
(* That payouts are refused for a day after a change of bank details is not    *)
(* modelled: a call may simply not be made.                                   *)
(***************************************************************************)
EXTENDS Nats, PayoutAllocation, SequencesExt

CONSTANTS
  SaleNet, SaleFee,  \* net and commission of an order's item, in cents
  Amounts,           \* amounts a seller asks for, in cents
  Callers,           \* goroutines serving CreatePayout and AddAdCredit
  NoOrder            \* the order of an ad credit's entry (uuid.Nil)

ASSUME FiniteAssumption  == IsFiniteSet(Sellers) /\ IsFiniteSet(Callers)
ASSUME SaleAssumption    == SaleNet \in Nat \ {0} /\ SaleFee \in Nat
ASSUME AmountsAssumption == Amounts \subseteq Nat
ASSUME NilAssumption     == NoOrder \notin Orders

VARIABLES
  ledger,     \* seller_earnings, in the order of insertion
  payouts,    \* seller_payouts
  adCredit,   \* sellers.ad_credit_balance
  sales,      \* sellers.total_sales
  call,       \* what each RPC goroutine is doing
  settling    \* what the goroutine of handleOrderItemUpdated is doing

sellerVars == <<ledger, payouts, adCredit, sales, call, settling>>

EarningStatus == {"escrowed", "earned", "refunded", "payout_released"}

Money == [gross: Int, fee: Int, net: Int]

\* born: created_at, which a split's remainder takes over from the original;
\* payout: payout_id, 0 for none.
Entry ==
  [seller: Sellers, order: Orders \cup {NoOrder}, status: EarningStatus,
   gross: Int, fee: Int, net: Int, born: Nat \ {0}, payout: Nat]

\* amount is what was asked for, net what the released entries add up to.
Payout == [seller: Sellers, amount: Nat, net: Int]

\* fetch     CreatePayout has found the balance sufficient
\* release   ... and has read the entries and allocated the amount: plan says
\*           what to write to which of them, rest what to insert
\* credit    AddAdCredit has found the balance sufficient; rest is its entry
Call ==
  [at: {"fetch", "release", "credit"}, seller: Sellers, amount: Nat,
   plan: Seq([id: Nat \ {0}, paid: Money]), rest: Seq(Entry)]

NoCall == [at |-> "idle"]

\* The status to give, and the rows found to give it to.
Settling == [seller: Sellers, status: EarningStatus, ids: SUBSET (Nat \ {0})]

NoSettling == [ids |-> {}]

SellerTypeOK ==
  /\ ledger \in Seq(Entry)
  /\ payouts \in Seq(Payout)
  /\ adCredit \in [Sellers -> Nat]
  /\ sales \in [Sellers -> Nat]
  /\ call \in [Callers -> Call \cup {NoCall}]
  /\ settling \in Settling \cup {NoSettling}

SellerInit ==
  /\ ledger = <<>>
  /\ payouts = <<>>
  /\ adCredit = [s \in Sellers |-> 0]
  /\ sales = [s \in Sellers |-> 0]
  /\ call = [c \in Callers |-> NoCall]
  /\ settling = NoSettling

Idle(c) == call[c].at = "idle"

\* The ids of seller s's entries in a status.
EntriesOf(s, status) ==
  {i \in 1..Len(ledger) : ledger[i].seller = s /\ ledger[i].status = status}

SumNet(ids) == SumOf([i \in DOMAIN ledger |-> ledger[i].net], ids)

\* GetSellerBalances
WithdrawableBalance(s) == SumNet(EntriesOf(s, "earned"))

-----------------------------------------------------------------------------
(* The worker.                                                              *)

\* Fault for mutation: the loop over the items ends one too early.
HandleOrderConfirmedButLast ==
  LET escrowed == [i \in 1..(Cardinality(Sellers) - 1) |->
                     [seller |-> SetToSeq(Sellers)[i],
                      order  |-> Head(nats.confirmed),
                      status |-> "escrowed",
                      gross  |-> SaleNet + SaleFee, fee |-> SaleFee, net |-> SaleNet,
                      born   |-> Len(ledger) + i,
                      payout |-> 0]]
  IN
  /\ Pending("confirmed")
  /\ ledger' = ledger \o escrowed
  /\ nats' = Taken("confirmed")
  /\ UNCHANGED <<payouts, adCredit, sales, call, settling>>

\* handleOrderConfirmed escrows one entry for the item of every seller,
\* whether or not the order has entries already.
HandleOrderConfirmed ==
  LET escrowed == [i \in 1..Cardinality(Sellers) |->
                     [seller |-> SetToSeq(Sellers)[i],
                      order  |-> Head(nats.confirmed),
                      status |-> "escrowed",
                      gross  |-> SaleNet + SaleFee, fee |-> SaleFee, net |-> SaleNet,
                      born   |-> Len(ledger) + i,
                      payout |-> 0]]
  IN
  /\ Pending("confirmed")
  /\ ledger' = ledger \o escrowed
  /\ nats' = Taken("confirmed")
  /\ UNCHANGED <<payouts, adCredit, sales, call, settling>>

\* Fault for mutation: the status that the plan names instead of delivered.
EarningStatusForCompleted(itemStatus) ==
  CASE itemStatus = "completed" -> "earned"
    [] itemStatus \in {"cancelled", "refunded"} -> "refunded"
    [] OTHER -> "none"

\* The status an update of the items gives to their earnings; others give none.
EarningStatusFor(itemStatus) ==
  CASE itemStatus = "delivered" -> "earned"
    [] itemStatus \in {"cancelled", "refunded"} -> "refunded"
    [] OTHER -> "none"

\* handleOrderItemUpdated: the update's rows are every entry of the order and
\* seller, whatever its status.
HandleOrderItemUpdated ==
  LET m  == Head(nats.updated)
      st == EarningStatusFor(m.status)
  IN
  /\ Pending("updated")
  /\ settling = NoSettling
  /\ nats' = Taken("updated")
  /\ settling' = IF st = "none" THEN NoSettling
                 ELSE [seller |-> m.seller, status |-> st,
                       ids |-> {i \in DOMAIN ledger :
                                  /\ ledger[i].order = m.order
                                  /\ ledger[i].seller = m.seller}]
  /\ UNCHANGED <<ledger, payouts, adCredit, sales, call>>

\* Fault for mutation: the delivery is not counted.
SettleEarningsUncounted ==
  /\ settling # NoSettling
  /\ ledger' = [i \in DOMAIN ledger |->
                  IF i \in settling.ids
                  THEN [ledger[i] EXCEPT !.status = settling.status]
                  ELSE ledger[i]]
  /\ settling' = NoSettling
  /\ UNCHANGED <<payouts, adCredit, sales, call, nats>>

\* ... it overwrites their status, counts a delivery as a sale, and commits.
SettleEarnings ==
  /\ settling # NoSettling
  /\ ledger' = [i \in DOMAIN ledger |->
                  IF i \in settling.ids
                  THEN [ledger[i] EXCEPT !.status = settling.status]
                  ELSE ledger[i]]
  /\ sales' = IF settling.status = "earned"
              THEN [sales EXCEPT ![settling.seller] = @ + 1]
              ELSE sales
  /\ settling' = NoSettling
  /\ UNCHANGED <<payouts, adCredit, call, nats>>

-----------------------------------------------------------------------------
(* CreatePayout.                                                            *)

\* A positive amount that the balance covers is accepted.
CreatePayout(c, s, amount) ==
  /\ Idle(c)
  /\ amount > 0
  /\ WithdrawableBalance(s) >= amount
  /\ call' = [call EXCEPT ![c] = [at |-> "fetch", seller |-> s, amount |-> amount,
                                  plan |-> <<>>, rest |-> <<>>]]
  /\ UNCHANGED <<ledger, payouts, adCredit, sales, settling, nats>>

\* GetEarnedEarnings: ORDER BY created_at, which leaves equals in any order.
EarnedInOrder(s) ==
  {q \in SetToSeqs(EntriesOf(s, "earned")) :
     \A i, j \in 1..Len(q) : i < j => ledger[q[i]].born <= ledger[q[j]].born}

\* Fault for mutation: the remainder of a split is not inserted.
NoRest(e, paid) == <<>>

\* The row inserted for what a split leaves of entry e: earned, and as old as e.
RestOf(e, paid) ==
  LET left == Remainder(e, paid) IN
  <<[e EXCEPT !.gross = left.gross, !.fee = left.fee, !.net = left.net,
              !.payout = 0]>>

\* The earned entries are read and the amount is spread over them.
FetchEarned(c) ==
  /\ call[c].at = "fetch"
  /\ \E ids \in EarnedInOrder(call[c].seller) :
       LET entries == [i \in 1..Len(ids) |-> ledger[ids[i]]]
           alloc   == Allocate(entries, call[c].amount)
           n       == Len(alloc.paid)
       IN
       call' = [call EXCEPT ![c].at = "release",
                            ![c].plan = [i \in 1..n |->
                                           [id |-> ids[i], paid |-> alloc.paid[i]]],
                            ![c].rest = IF alloc.split
                                        THEN RestOf(entries[n], alloc.paid[n])
                                        ELSE <<>>]
  /\ UNCHANGED <<ledger, payouts, adCredit, sales, settling, nats>>

\* Fault for mutation: a released entry stays earned.
ReleasedUnmarked(e, paid, payout) ==
  [e EXCEPT !.payout = payout,
            !.gross = paid.gross, !.fee = paid.fee, !.net = paid.net]

\* UpdateEarningAmountsAndStatus
Released(e, paid, payout) ==
  [e EXCEPT !.status = "payout_released", !.payout = payout,
            !.gross = paid.gross, !.fee = paid.fee, !.net = paid.net]

\* Writes by id, whatever the entries are by now, and commits: the planned
\* entries are released with their portions, the remainder is inserted as
\* earned, and the payout is recorded with the amount that was asked for.
ReleasePayout(c) ==
  LET plan     == call[c].plan
      paid(id) == plan[CHOOSE i \in 1..Len(plan) : plan[i].id = id].paid
      released == [id \in DOMAIN ledger |->
                     IF \E i \in 1..Len(plan) : plan[i].id = id
                     THEN Released(ledger[id], paid(id), Len(payouts) + 1)
                     ELSE ledger[id]]
  IN
  /\ call[c].at = "release"
  /\ ledger' = released \o call[c].rest
  /\ payouts' = Append(payouts,
                  [seller |-> call[c].seller, amount |-> call[c].amount,
                   net |-> Total([i \in 1..Len(plan) |-> plan[i].paid], "net")])
  /\ call' = [call EXCEPT ![c] = NoCall]
  /\ UNCHANGED <<adCredit, sales, settling, nats>>

-----------------------------------------------------------------------------
(* AddAdCredit.                                                             *)

\* Funded from the balance: accepted if the balance covers it.  The entry's
\* created_at is the time the transaction began.
AddAdCredit(c, s, amount) ==
  /\ Idle(c)
  /\ amount > 0
  /\ WithdrawableBalance(s) >= amount
  /\ call' = [call EXCEPT ![c] =
                [at |-> "credit", seller |-> s, amount |-> amount, plan |-> <<>>,
                 rest |-> <<[seller |-> s, order |-> NoOrder, status |-> "earned",
                             gross |-> -amount, fee |-> 0, net |-> -amount,
                             born |-> Len(ledger) + 1, payout |-> 0]>>]]
  /\ UNCHANGED <<ledger, payouts, adCredit, sales, settling, nats>>

\* ... the negative earned entry and the credit are written together.
CommitAdCredit(c) ==
  /\ call[c].at = "credit"
  /\ ledger' = ledger \o call[c].rest
  /\ adCredit' = [adCredit EXCEPT ![call[c].seller] = @ + call[c].amount]
  /\ call' = [call EXCEPT ![c] = NoCall]
  /\ UNCHANGED <<payouts, sales, settling, nats>>

\* Not funded from the balance: the credit is simply added.
GrantAdCredit(s, amount) ==
  /\ amount > 0
  /\ adCredit' = [adCredit EXCEPT ![s] = @ + amount]
  /\ UNCHANGED <<ledger, payouts, sales, call, settling, nats>>

-----------------------------------------------------------------------------

\* A transaction of the worker fails before its commit: its message is gone.
AbortSettling ==
  /\ settling # NoSettling
  /\ settling' = NoSettling
  /\ UNCHANGED <<ledger, payouts, adCredit, sales, call, nats>>

\* A call fails or the process dies before the commit, which rolls back.
AbortCall(c) ==
  /\ ~Idle(c)
  /\ call' = [call EXCEPT ![c] = NoCall]
  /\ UNCHANGED <<ledger, payouts, adCredit, sales, settling, nats>>

\* The next step of a call that has begun.
CallStep(c) == FetchEarned(c) \/ ReleasePayout(c) \/ CommitAdCredit(c)
=============================================================================
