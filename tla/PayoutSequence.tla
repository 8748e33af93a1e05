---------------------------- MODULE PayoutSequence ----------------------------
(***************************************************************************)
(* Payouts drawn one after the other from a seller's earned entries, each     *)
(* allocated by PayoutAllocation and compared with what it should be.         *)
(***************************************************************************)
EXTENDS PayoutAllocation, SequencesExt

CONSTANTS
  MaxEntries,   \* length of a ledger
  MaxNet,       \* net cents of one entry, and of one ad credit
  MaxFee        \* fee cents of one entry

ASSUME LedgerAssumption == MaxEntries \in Nat /\ MaxNet \in Nat /\ MaxFee \in Nat

VARIABLES
  earnings,     \* the earned entries, oldest first
  previous,     \* the earned entries before the last payout
  requested,    \* the amount of the last payout, 0 before the first
  portions      \* what the last payout paid, entry by entry

\* What handleOrderConfirmed and AddAdCredit insert.
Sale(fee, net) == [gross |-> net + fee, fee |-> fee, net |-> net]
AdCredit(net)  == [gross |-> -net, fee |-> 0, net |-> -net]

Entries ==
  {Sale(fee, net) : fee \in 0..MaxFee, net \in 1..MaxNet}
    \cup {AdCredit(net) : net \in 1..MaxNet}

PayoutInit ==
  /\ earnings \in BoundedSeq(Entries, MaxEntries)
  /\ previous = earnings
  /\ requested = 0
  /\ portions = <<>>

\* A payout that the balance covers, when nothing runs at the same time.  The
\* remainder of a split takes the place of the entry that was split.
DrawPayout(a) ==
  LET alloc == Allocate(earnings, a)
      n     == Len(alloc.paid)
  IN
  /\ a <= Total(earnings, "net")
  /\ previous' = earnings
  /\ requested' = a
  /\ portions' = alloc.paid
  /\ earnings' = (IF alloc.split THEN <<Remainder(earnings[n], alloc.paid[n])>> ELSE <<>>)
                 \o SubSeq(earnings, n + 1, Len(earnings))

PayoutNext == \E a \in 1..(MaxEntries * MaxNet) : DrawPayout(a)

payoutVars == <<earnings, previous, requested, portions>>

PayoutSpec == PayoutInit /\ [][PayoutNext]_payoutVars

-----------------------------------------------------------------------------

\* A payout pays its amount exactly, whatever ad credits lie between the sales.
PaysItsAmount == Total(portions, "net") = requested

\* Nothing is created or lost by a split: what was paid and what is left add up
\* to what was there, in each of the three columns.
ConservesMoney ==
  requested > 0 =>
    \A field \in {"gross", "fee", "net"} :
      Total(portions, field) + Total(earnings, field) = Total(previous, field)

\* However often an entry is split, its gross stays the sum of net and fee, and
\* neither a payout nor a remainder ever carries a negative fee.
GrossAddsUp ==
  \A i \in 1..Len(earnings) :
    /\ earnings[i].gross = earnings[i].net + earnings[i].fee
    /\ earnings[i].fee >= 0

\* The fee of a portion is within half a cent of its exact share.
FeeIsFair ==
  \A i \in 1..Len(portions) :
    previous[i].net > 0 =>
      LET error == portions[i].fee * previous[i].net - previous[i].fee * portions[i].net
      IN
      2 * error \in -previous[i].net..previous[i].net

\* Oldest first: every entry that is paid but the last is paid whole, and no entry
\* is touched that the ones before it made unnecessary, ad credits or not.
OldestFirst ==
  \A i \in 1..Len(portions) :
    /\ i < Len(portions) => portions[i] = previous[i]
    /\ Total(SubSeq(previous, 1, i - 1), "net") < requested
=============================================================================
