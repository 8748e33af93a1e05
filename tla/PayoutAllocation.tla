--------------------------- MODULE PayoutAllocation ---------------------------
(***************************************************************************)
(* How CreatePayout of seller-service spreads the amount of a payout over   *)
(* the seller's earned ledger entries: oldest first, whole entries while      *)
(* they fit, and a split of the first that does not.                         *)
(*                                                                         *)
(* Money is counted in cents, the scale of the NUMERIC(12,2) columns it is    *)
(* read from and written to.  The code computes in float64 units in between:   *)
(* a residue below half a cent is not represented here.                      *)
(***************************************************************************)
EXTENDS Integers, Sequences, Sums

\* Fault for mutation: the fee of a split is truncated to the cent.
TruncatedFee(e, part) == (e.fee * part) \div e.net

\* math.Round(fee * (part / net) * 100) / 100, for 0 < part < net and 0 <= fee.
RoundedFee(e, part) == (2 * e.fee * part + e.net) \div (2 * e.net)

IsSplit(e, left) == e.net > left

\* What is paid of entry e when left is still to be paid.
Portion(e, left) ==
  IF ~IsSplit(e, left)
  THEN [gross |-> e.gross, fee |-> e.fee, net |-> e.net]
  ELSE LET fee == RoundedFee(e, left) IN
       [gross |-> left + fee, fee |-> fee, net |-> left]

\* Fault for mutation: the new entry keeps the fee of the whole.
RemainderWithWholeFee(e, paid) ==
  [gross |-> e.gross - paid.gross, fee |-> e.fee, net |-> e.net - paid.net]

\* What a split leaves to a new entry.
Remainder(e, paid) ==
  [gross |-> e.gross - paid.gross,
   fee   |-> e.fee - paid.fee,
   net   |-> e.net - paid.net]

\* Where the loop stands: what is left to pay, the portions paid of the entries
\* so far, and whether the last of these is split.
Start(amount) == [left |-> amount, paid |-> <<>>, split |-> FALSE]

PayPortion(acc, e) ==
  [left  |-> acc.left - Portion(e, acc.left).net,
   paid  |-> Append(acc.paid, Portion(e, acc.left)),
   split |-> IsSplit(e, acc.left)]

\* Fault for mutation: the loop goes on after the payout is used up.
PayAlways(acc, e) == PayPortion(acc, e)

\* One turn of the loop; there are no more once the payout is used up.
PayEntry(acc, e) == IF acc.left <= 0 THEN acc ELSE PayPortion(acc, e)

\* The loop over the earned entries.
Loop(entries, amount) ==
  LET after[i \in 0..Len(entries)] ==
        IF i = 0 THEN Start(amount) ELSE PayEntry(after[i - 1], entries[i])
  IN  after

Allocate(entries, amount) == Loop(entries, amount)[Len(entries)]

Total(money, field) ==
  SumOf([i \in 1..Len(money) |-> money[i][field]], 1..Len(money))
=============================================================================
