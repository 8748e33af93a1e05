------------------------------ MODULE SellerProofs ------------------------------
(***************************************************************************)
(* Proofs about PayoutSequence, for any ledger and any number of payouts, and    *)
(* about OrderSeller, for any orders, sellers, goroutines, amounts of money,      *)
(* bounds and numbers of faults.                                                 *)
(***************************************************************************)
EXTENDS PayoutSequence, OrderSeller, OrderServiceProofs, SumProofs, SequenceTheorems

-----------------------------------------------------------------------------
(* The allocation of a payout.                                              *)

Whole(e) == [gross |-> e.gross, fee |-> e.fee, net |-> e.net]

\* The loop's state after i entries is what the next turn makes of the one before.
LoopStep(entries, amount, g, i) ==
  IF i = 0 THEN Start(amount) ELSE PayEntry(g[i - 1], entries[i])

\* There is such a loop over any number of entries,
LEMMA LoopUpTo ==
  ASSUME NEW entries, NEW amount, NEW n \in Nat
  PROVE  \E g : g = [i \in 0..n |-> LoopStep(entries, amount, g, i)]
<1> DEFINE P(k) == \E g : g = [i \in 0..k |-> LoopStep(entries, amount, g, i)]
<1>1. P(0)
  <2> DEFINE g == [i \in 0..0 |-> Start(amount)]
  <2>1. \A i \in 0..0 : i = 0
    OBVIOUS
  <2>2. g = [i \in 0..0 |-> LoopStep(entries, amount, g, i)]
    BY <2>1 DEF LoopStep
  <2> QED BY <2>2
<1>2. ASSUME NEW k \in Nat, P(k)
      PROVE  P(k + 1)
  <2>1. PICK g : g = [i \in 0..k |-> LoopStep(entries, amount, g, i)]
    BY <1>2
  <2> DEFINE h == [i \in 0..(k + 1) |-> LoopStep(entries, amount, g, i)]
  <2>2. \A i \in 0..k : h[i] = g[i]
    <3>1. \A i \in 0..k : g[i] = LoopStep(entries, amount, g, i) /\ i \in 0..(k + 1)
      BY <2>1
    <3> QED BY <3>1
  <2>3. \A i \in 0..(k + 1) :
          LoopStep(entries, amount, g, i) = LoopStep(entries, amount, h, i)
    <3> TAKE i \in 0..(k + 1)
    <3>1. i = 0 \/ i - 1 \in 0..k
      OBVIOUS
    <3> HIDE DEF h
    <3> QED BY <2>2, <3>1 DEF LoopStep
  <2>4. h = [i \in 0..(k + 1) |-> LoopStep(entries, amount, h, i)]
    BY <2>3
  <2> HIDE DEF h
  <2> QED BY <2>4
<1> DEFINE K == {k \in Nat : P(k)}
<1>3. K \subseteq Nat /\ 0 \in K /\ \A k \in K : k + 1 \in K
  BY <1>1, <1>2
<1>4. n \in K
  <2> HIDE DEF K
  <2> QED BY <1>3, NatSet
<1> QED BY <1>4

\* ... and Loop is one.
LEMMA LoopDef ==
  ASSUME NEW entries, NEW amount, Len(entries) \in Nat
  PROVE  /\ Loop(entries, amount)[0] = Start(amount)
         /\ \A i \in 1..Len(entries) :
              Loop(entries, amount)[i] = PayEntry(Loop(entries, amount)[i - 1], entries[i])
<1>1. \E g : g = [i \in 0..Len(entries) |-> LoopStep(entries, amount, g, i)]
  BY LoopUpTo
<1>2. \E g : g = [i \in 0..Len(entries) |->
                    IF i = 0 THEN Start(amount) ELSE PayEntry(g[i - 1], entries[i])]
  BY <1>1 DEF LoopStep
<1> DEFINE f == Loop(entries, amount)
<1>3. f = CHOOSE g : g = [i \in 0..Len(entries) |->
                 IF i = 0 THEN Start(amount) ELSE PayEntry(g[i - 1], entries[i])]
  BY DEF Loop
<1> HIDE DEF f
<1>4. f = [i \in 0..Len(entries) |->
             IF i = 0 THEN Start(amount) ELSE PayEntry(f[i - 1], entries[i])]
  BY <1>2, <1>3
<1>5. f[0] = Start(amount) /\ \A i \in 1..Len(entries) : f[i] = PayEntry(f[i - 1], entries[i])
  <2>1. 0 \in 0..Len(entries) /\ \A i \in 1..Len(entries) : i \in 0..Len(entries) /\ i # 0
    OBVIOUS
  <2> QED BY <1>4, <2>1
<1> QED BY <1>5 DEF f

\* What is paid of an entry: the whole of it, or all that is left to pay.
LEMMA PortionSound ==
  ASSUME NEW e, e.gross \in Int, e.fee \in Int, e.net \in Int, NEW left \in Nat \ {0}
  PROVE  /\ Portion(e, left) \in Money /\ Portion(e, left).net <= left
         /\ IsSplit(e, left) \in BOOLEAN
         /\ IsSplit(e, left) => Portion(e, left).net = left /\ left < e.net
         /\ ~IsSplit(e, left) => Portion(e, left) = Whole(e)
<1>0. IsSplit(e, left) \in BOOLEAN
  BY DEF IsSplit
<1>1. CASE IsSplit(e, left)
  <2> DEFINE a == 2 * e.fee * left + e.net
             b == 2 * e.net
  <2>1. a \in Int /\ b \in Nat \ {0} /\ left < e.net
    BY <1>1 DEF IsSplit
  <2>2. a \div b \in Int
    <3> HIDE DEF a, b
    <3> QED BY <2>1
  <2>3. RoundedFee(e, left) \in Int
    BY <2>2 DEF RoundedFee
  <2>4. Portion(e, left) = [gross |-> left + RoundedFee(e, left),
                            fee |-> RoundedFee(e, left), net |-> left]
    BY <1>1 DEF Portion
  <2> QED BY <1>0, <1>1, <2>1, <2>3, <2>4 DEF Money
<1>2. CASE ~IsSplit(e, left)
  <2>1. Portion(e, left) = Whole(e)
    BY <1>2 DEF Portion, Whole
  <2>2. e.net <= left
    BY <1>2 DEF IsSplit
  <2>3. Whole(e) \in Money /\ Whole(e).net = e.net
    BY DEF Whole, Money
  <2>4. Portion(e, left) \in Money /\ Portion(e, left).net <= left
    BY <2>1, <2>2, <2>3
  <2> QED BY <1>0, <1>2, <2>1, <2>4
<1> QED BY <1>1, <1>2

\* The sum of a list of numbers of money is a number,
LEMMA TotalInt ==
  ASSUME NEW money, NEW field, Len(money) \in Nat,
         \A i \in 1..Len(money) : money[i][field] \in Int
  PROVE  Total(money, field) \in Int
<1> DEFINE f == [i \in 1..Len(money) |-> money[i][field]]
<1>1. IsFiniteSet(1..Len(money)) /\ \A i \in 1..Len(money) : f[i] \in Int
  BY FS_Interval
<1>2. SumOf(f, 1..Len(money)) \in Int
  <2> HIDE DEF f
  <2> QED BY <1>1, SumInt
<1> QED BY <1>2 DEF Total

\* ... and grows by what is appended to the list.
LEMMA TotalAppend ==
  ASSUME NEW S, NEW money \in Seq(S), NEW m \in S, NEW field,
         \A x \in S : x[field] \in Int
  PROVE  Total(Append(money, m), field) = Total(money, field) + m[field]
<1> DEFINE n == Len(money)
           f == [i \in 1..n |-> money[i][field]]
           g == [i \in 1..(n + 1) |-> Append(money, m)[i][field]]
<1>1. n \in Nat /\ Len(Append(money, m)) = n + 1
  OBVIOUS
<1>2. /\ \A i \in 1..n : Append(money, m)[i] = money[i] /\ money[i] \in S
      /\ Append(money, m)[n + 1] = m
  OBVIOUS
<1>3. /\ \A i \in 1..n : f[i] = g[i] /\ f[i] \in Int
      /\ g[n + 1] = m[field] /\ m[field] \in Int
  BY <1>1, <1>2
<1>4. /\ 1..(n + 1) = (1..n) \cup {n + 1} /\ n + 1 \notin 1..n
      /\ IsFiniteSet(1..n)
  <2>1. \A k \in Nat : 1..(k + 1) = (1..k) \cup {k + 1} /\ k + 1 \notin 1..k
    OBVIOUS
  <2>2. \A k \in Nat : IsFiniteSet(1..k)
    BY FS_Interval
  <2> QED BY <1>1, <2>1, <2>2
<1>5. Total(Append(money, m), field) = SumOf(g, 1..(n + 1)) /\ Total(money, field) = SumOf(f, 1..n)
  BY <1>1 DEF Total
<1> HIDE DEF f, g, n
<1>6. SumOf(f, 1..n) = SumOf(g, 1..n)
  BY <1>3, <1>4, SumSame
<1>7. \A i \in (1..n) \cup {n + 1} : g[i] \in Int
  BY <1>3
<1>8. SumOf(g, (1..n) \cup {n + 1}) = g[n + 1] + SumOf(g, 1..n)
  BY <1>4, <1>7, SumAdd
<1>9. SumOf(g, 1..n) \in Int
  BY <1>3, <1>4, SumInt
<1>10. Total(Append(money, m), field) = m[field] + Total(money, field)
  BY <1>3, <1>4, <1>5, <1>6, <1>8
<1>11. m[field] \in Int /\ Total(money, field) \in Int
  BY <1>3, <1>5, <1>6, <1>9
<1> QED BY <1>10, <1>11

\* The net amounts of the first k entries.
NetOfFirst(entries, k) == SumOf([j \in 1..k |-> entries[j]["net"]], 1..k)

\* How the loop stands after i entries: while something is left to pay, every
\* entry so far was paid whole; and none was paid that those before it made
\* unnecessary.
Standing(entries, amount, a, i) ==
  LET n == Len(a.paid) IN
  /\ a.left \in Nat /\ a.split \in BOOLEAN /\ a.paid \in Seq(Money) /\ n <= i
  /\ a.left > 0 => n = i /\ ~a.split
  /\ \A k \in 1..n : (k < n \/ ~a.split) => a.paid[k] = Whole(entries[k])
  /\ a.split => n > 0 /\ a.paid[n].net > 0 /\ a.paid[n].net < entries[n].net
  /\ a.split => \E left \in Nat \ {0} :
                 IsSplit(entries[n], left) /\ a.paid[n] = Portion(entries[n], left)
  /\ Total(a.paid, "net") = amount - a.left
  /\ \A k \in 1..n : NetOfFirst(entries, k - 1) < amount

\* A turn of the loop leaves it where the next may begin.
LEMMA StandingKept ==
  ASSUME NEW entries, NEW amount \in Nat, NEW a, NEW i \in Nat,
         LET e == entries[i + 1] IN e.gross \in Int /\ e.fee \in Int /\ e.net \in Int,
         Standing(entries, amount, a, i)
  PROVE  Standing(entries, amount, PayEntry(a, entries[i + 1]), i + 1)
<1> DEFINE e == entries[i + 1]
           n == Len(a.paid)
<1>0. /\ a.left \in Nat /\ a.paid \in Seq(Money) /\ n \in Nat /\ n <= i
      /\ e.gross \in Int /\ e.fee \in Int /\ e.net \in Int
  BY DEF Standing
<1>1. CASE a.left <= 0
  <2>1. PayEntry(a, e) = a
    BY <1>1 DEF PayEntry
  <2> QED BY <1>0, <1>1, <2>1 DEF Standing
<1>2. CASE a.left > 0
  <2> DEFINE p == Portion(e, a.left)
             b == PayPortion(a, e)
  <2>1. PayEntry(a, e) = b
    BY <1>0, <1>2 DEF PayEntry
  <2>2. n = i /\ \A k \in 1..i : a.paid[k] = Whole(entries[k])
    BY <1>0, <1>2 DEF Standing
  <2>3. /\ p \in Money /\ p.net <= a.left /\ p.net \in Int
        /\ IsSplit(e, a.left) \in BOOLEAN
        /\ IsSplit(e, a.left) => p.net = a.left /\ a.left < e.net
        /\ ~IsSplit(e, a.left) => p = Whole(e)
    <3>1. a.left \in Nat \ {0}
      BY <1>0, <1>2
    <3>2. p \in Money /\ p.net <= a.left
      BY <1>0, <3>1, PortionSound
    <3> QED BY <1>0, <3>1, <3>2, PortionSound DEF Money
  <2>4. /\ b.left = a.left - p.net /\ b.paid = Append(a.paid, p)
        /\ b.split = IsSplit(e, a.left)
    BY DEF PayPortion
  <2>5. Total(b.paid, "net") = amount - b.left
    <3>1. \A m \in Money : m["net"] \in Int
      BY DEF Money
    <3>2. Total(Append(a.paid, p), "net") = Total(a.paid, "net") + p["net"]
      <4> HIDE DEF p
      <4> QED BY <1>0, <2>3, <3>1, TotalAppend
    <3>3. Total(a.paid, "net") = amount - a.left
      BY DEF Standing
    <3> HIDE DEF p, b
    <3> QED BY <1>0, <2>3, <2>4, <3>2, <3>3
  <2>6. /\ b.paid \in Seq(Money) /\ Len(b.paid) = i + 1 /\ b.paid[i + 1] = p
        /\ \A k \in 1..i : b.paid[k] = a.paid[k]
    <3> HIDE DEF p, b
    <3> QED BY <1>0, <2>2, <2>3, <2>4
  <2>7. b.left \in Nat /\ (b.split => b.left = 0) /\ b.split \in BOOLEAN
    <3> HIDE DEF p, b, e
    <3> QED BY <1>0, <2>3, <2>4
  <2>8. \A k \in 1..(i + 1) : (k < i + 1 \/ ~b.split) => b.paid[k] = Whole(entries[k])
    <3> TAKE k \in 1..(i + 1)
    <3>1. CASE k \in 1..i
      BY <2>2, <2>6, <3>1
    <3>2. CASE k = i + 1
      <4> HIDE DEF b
      <4> QED BY <2>3, <2>4, <2>6, <3>2
    <3> QED BY <3>1, <3>2
  <2>9. b.split => b.paid[i + 1].net > 0 /\ b.paid[i + 1].net < entries[i + 1].net
    <3> HIDE DEF b, p
    <3> QED BY <1>2, <2>3, <2>4, <2>6
  <2>10. b.split => \E left \in Nat \ {0} :
                      IsSplit(entries[i + 1], left) /\ b.paid[i + 1] = Portion(entries[i + 1], left)
    <3>1. a.left \in Nat \ {0} /\ e = entries[i + 1] /\ p = Portion(entries[i + 1], a.left)
      BY <1>0, <1>2
    <3> HIDE DEF b, p, e
    <3> QED BY <2>4, <2>6, <3>1
  <2>11. \A k \in 1..(i + 1) : NetOfFirst(entries, k - 1) < amount
    <3>1. \A k \in 1..i : NetOfFirst(entries, k - 1) < amount
      BY <2>2 DEF Standing
    <3>2. \A k \in 1..i : a.paid[k]["net"] = entries[k]["net"]
      <4>1. \A x : Whole(x)["net"] = x["net"]
        BY DEF Whole
      <4> QED BY <2>2, <4>1
    <3>3. [k \in 1..i |-> a.paid[k]["net"]] = [k \in 1..i |-> entries[k]["net"]]
      BY <3>2
    <3>4. NetOfFirst(entries, i) = Total(a.paid, "net")
      BY <2>2, <3>3 DEF NetOfFirst, Total
    <3>5. NetOfFirst(entries, i) < amount
      <4>1. Total(a.paid, "net") = amount - a.left
        BY DEF Standing
      <4> QED BY <1>0, <1>2, <3>4, <4>1
    <3>6. \A k \in 1..(i + 1) : k \in 1..i \/ k - 1 = i
      OBVIOUS
    <3> QED BY <3>1, <3>5, <3>6
  <2> HIDE DEF b, p, e
  <2>12. Standing(entries, amount, b, i + 1)
    BY <2>5, <2>6, <2>7, <2>8, <2>9, <2>10, <2>11 DEF Standing
  <2> QED BY <2>1, <2>12 DEF e
<1> QED BY <1>0, <1>1, <1>2

\* A payout is spread over the first of the entries: each is paid whole, but
\* the last perhaps in part, and none is paid that those before it made
\* unnecessary.  Entries that cover the amount are paid exactly the amount,
\* whatever ad credits lie between the sales.
THEOREM AllocateSound ==
  ASSUME NEW entries, Len(entries) \in Nat, NEW amount \in Nat,
         \A i \in 1..Len(entries) :
           entries[i].gross \in Int /\ entries[i].fee \in Int /\ entries[i].net \in Int
  PROVE  LET alloc == Allocate(entries, amount)
             n     == Len(alloc.paid)
         IN
         /\ alloc.paid \in Seq(Money) /\ n \in 0..Len(entries) /\ alloc.split \in BOOLEAN
         /\ \A k \in 1..n : (k < n \/ ~alloc.split) => alloc.paid[k] = Whole(entries[k])
         /\ alloc.split => n > 0 /\ alloc.paid[n].net > 0 /\ alloc.paid[n].net < entries[n].net
         /\ alloc.split => \E left \in Nat \ {0} :
                            IsSplit(entries[n], left) /\ alloc.paid[n] = Portion(entries[n], left)
         /\ \A k \in 1..n : NetOfFirst(entries, k - 1) < amount
         /\ Total(entries, "net") >= amount => Total(alloc.paid, "net") = amount
<1> DEFINE N == Len(entries)
           loop == Loop(entries, amount)
           alloc == Allocate(entries, amount)
           n == Len(alloc.paid)
<1>1. loop[0] = Start(amount) /\ \A i \in 1..N : loop[i] = PayEntry(loop[i - 1], entries[i])
  BY LoopDef
<1> HIDE DEF loop
<1>2. Standing(entries, amount, loop[0], 0)
  <2>1. \A f : SumOf(f, {}) = 0
    BY SumEmpty
  <2>2. 1..0 = {}
    OBVIOUS
  <2>3. Total(<<>>, "net") = 0
    BY <2>1, <2>2 DEF Total
  <2> QED BY <1>1, <2>3 DEF Standing, Start
<1>3. \A i \in Nat : i <= N => Standing(entries, amount, loop[i], i)
  <2> DEFINE P(i) == i <= N => Standing(entries, amount, loop[i], i)
  <2>1. ASSUME NEW i \in Nat, P(i)
        PROVE  P(i + 1)
    <3> SUFFICES ASSUME i + 1 <= N
                 PROVE  Standing(entries, amount, loop[i + 1], i + 1)
      OBVIOUS
    <3>1. /\ i + 1 \in 1..N /\ i <= N /\ (i + 1) - 1 = i
      OBVIOUS
    <3>2. loop[i + 1] = PayEntry(loop[i], entries[i + 1])
      BY <1>1, <3>1
    <3>3. Standing(entries, amount, loop[i], i)
      BY <2>1, <3>1
    <3> QED BY <3>1, <3>2, <3>3, StandingKept
  <2> DEFINE K == {i \in Nat : P(i)}
  <2>2. K \subseteq Nat /\ 0 \in K /\ \A i \in K : i + 1 \in K
    BY <1>2, <2>1
  <2>3. \A i \in Nat : i \in K
    <3> HIDE DEF K
    <3> QED BY <2>2, NatSet
  <2> QED BY <2>3
<1>4. alloc = loop[N]
  BY DEF Allocate, loop
<1>5. Standing(entries, amount, alloc, N)
  BY <1>3, <1>4
<1> HIDE DEF alloc
<1>6. n \in Nat
  BY <1>5 DEF Standing
<1>7. ASSUME Total(entries, "net") >= amount
      PROVE  Total(alloc.paid, "net") = amount
  <2>1. CASE alloc.left = 0
    BY <1>5, <2>1 DEF Standing
  <2>2. CASE alloc.left > 0
    <3>1. n = N /\ \A k \in 1..N : alloc.paid[k] = Whole(entries[k])
      BY <1>5, <2>2 DEF Standing
    <3>2. \A k \in 1..N : alloc.paid[k].net = entries[k].net
      <4>1. \A e : Whole(e).net = e.net
        BY DEF Whole
      <4> QED BY <3>1, <4>1
    <3>3. [k \in 1..N |-> alloc.paid[k]["net"]] = [k \in 1..N |-> entries[k]["net"]]
      BY <3>2
    <3>4. Total(alloc.paid, "net") = Total(entries, "net")
      BY <3>1, <3>3 DEF Total
    <3>5. Total(alloc.paid, "net") < amount
      BY <1>5, <2>2 DEF Standing
    <3> QED BY <1>5, <1>7, <2>2, <3>4, <3>5 DEF Standing
  <2> QED BY <1>5, <2>1, <2>2 DEF Standing
<1> QED BY <1>5, <1>6, <1>7 DEF Standing, alloc

\* A split divides an entry without loss in any of its columns, leaves both parts
\* a gross that is net and fee and a fee that is not negative, and gives the
\* portion the share of the fee that it should have, to half a cent.
THEOREM SplitSound ==
  ASSUME NEW e, NEW left \in Nat \ {0}, e.net \in Nat, e.fee \in Nat, e.gross = e.net + e.fee,
         IsSplit(e, left)
  PROVE  LET paid == Portion(e, left)
             rest == Remainder(e, paid)
         IN
         /\ paid.gross + rest.gross = e.gross
         /\ paid.fee + rest.fee = e.fee
         /\ paid.net + rest.net = e.net /\ paid.net = left /\ rest.net > 0
         /\ paid.gross = paid.net + paid.fee /\ paid.fee >= 0
         /\ rest.gross = rest.net + rest.fee /\ rest.fee >= 0
         /\ 2 * (paid.fee * e.net - e.fee * paid.net) \in -e.net..e.net
<1> DEFINE q == RoundedFee(e, left)
           paid == Portion(e, left)
           rest == Remainder(e, paid)
<1>1. PICK net \in Nat, fee \in Nat : e.net = net /\ e.fee = fee /\ e.gross = net + fee
  OBVIOUS
<1>2. left < net
  BY <1>1 DEF IsSplit
<1>3. paid.gross = left + q /\ paid.fee = q /\ paid.net = left
  BY DEF Portion
<1> DEFINE a == 2 * fee * left + net
           b == 2 * net
<1>4. q = a \div b
  BY <1>1 DEF RoundedFee
<1>5. a \in Nat /\ b \in Nat \ {0}
  <2>1. \A x, y, z \in Nat : 2 * x * y + z \in Nat
    OBVIOUS
  <2>2. b \in Nat \ {0}
    BY <1>2
  <2> QED BY <2>1, <2>2
<1>6. q \in Int /\ b * q <= a /\ a < b * (q + 1)
  <2> HIDE DEF a, b, q
  <2>1. \A x \in Nat, y \in Nat \ {0} :
          x \div y \in Int /\ y * (x \div y) <= x /\ x < y * ((x \div y) + 1)
    OBVIOUS
  <2> QED BY <1>4, <1>5, <2>1
<1>7. q >= 0
  <2> HIDE DEF a, b, q
  <2>1. \A x \in Nat, y \in Nat \ {0}, z \in Int : x < y * (z + 1) => z >= 0
    OBVIOUS
  <2> QED BY <1>5, <1>6, <2>1
<1>8. q <= fee
  <2>1. fee * left <= fee * net
    <3>1. \A x, y, z \in Nat : y < z => x * y <= x * z
      OBVIOUS
    <3> QED BY <1>2, <3>1
  <2>2. a < b * (fee + 1)
    <3>1. b * (fee + 1) = 2 * (fee * net) + 2 * net /\ a = 2 * (fee * left) + net
      OBVIOUS
    <3>2. fee * left \in Nat /\ fee * net \in Nat
      OBVIOUS
    <3> HIDE DEF a, b
    <3> QED BY <1>2, <2>1, <3>1, <3>2
  <2>3. \A x \in Nat \ {0}, y, z \in Int : x * y < x * (z + 1) => y <= z
    OBVIOUS
  <2>4. b * q < b * (fee + 1)
    <3>1. b * q \in Int /\ b * (fee + 1) \in Int
      BY <1>5, <1>6
    <3> HIDE DEF a, b, q
    <3> QED BY <1>5, <1>6, <2>2, <3>1
  <2> HIDE DEF a, b, q
  <2> QED BY <1>5, <1>6, <2>3, <2>4
<1>9. 2 * (q * net - fee * left) \in -net..net
  <2>1. PICK u \in Int : u = q * net
    BY <1>6
  <2>2. PICK v \in Int : v = fee * left
    OBVIOUS
  <2>3. b * q = 2 * u /\ b * (q + 1) = 2 * u + 2 * net /\ a = 2 * v + net
    <3>1. \A x, y \in Int : (2 * x) * y = 2 * (y * x) /\ (2 * x) * (y + 1) = 2 * (y * x) + 2 * x
      OBVIOUS
    <3>2. \A x, y, z \in Int : 2 * x * y + z = 2 * (x * y) + z
      OBVIOUS
    <3> HIDE DEF q
    <3> QED BY <1>6, <2>1, <2>2, <3>1, <3>2
  <2> HIDE DEF a, b, q
  <2>4. 2 * u <= 2 * v + net /\ 2 * v + net < 2 * u + 2 * net
    BY <1>6, <2>3
  <2>5. 2 * (u - v) \in -net..net
    BY <2>4
  <2> QED BY <2>1, <2>2, <2>5
<1>10. /\ rest.gross = (net + fee) - (left + q) /\ rest.fee = fee - q /\ rest.net = net - left
  BY <1>1, <1>3 DEF Remainder
<1> HIDE DEF paid, q, rest
<1>11. /\ paid.gross + rest.gross = net + fee /\ paid.fee + rest.fee = fee
       /\ paid.net + rest.net = net /\ rest.net > 0
       /\ paid.gross = paid.net + paid.fee /\ paid.fee >= 0
       /\ rest.gross = rest.net + rest.fee /\ rest.fee >= 0
  BY <1>2, <1>3, <1>6, <1>7, <1>8, <1>10
<1>12. 2 * (paid.fee * e.net - e.fee * paid.net) \in -e.net..e.net
  BY <1>1, <1>3, <1>9
<1> QED BY <1>1, <1>3, <1>11, <1>12 DEF paid, rest

-----------------------------------------------------------------------------
(* What a payout makes of the rows it is drawn from.                         *)

\* A row whose gross is net and fee, and whose fee is not negative.
SoundRow(e) ==
  /\ e \in Money
  /\ e.gross = e.net + e.fee
  /\ e.fee >= 0

-----------------------------------------------------------------------------
(* Totals of lists of rows.                                                 *)

\* The columns of a row are numbers.
LEMMA Columns ==
  \A e \in Money, field \in {"gross", "fee", "net"} : e[field] \in Int
BY DEF Money

\* An empty list adds up to nothing, any list to a number,
LEMMA TotalType ==
  ASSUME NEW field \in {"gross", "fee", "net"}
  PROVE  /\ Total(<<>>, field) = 0
         /\ \A s \in Seq(Money) : Total(s, field) \in Int
<1>1. Total(<<>>, field) = 0
  <2>1. \A f : SumOf(f, {}) = 0
    BY SumEmpty
  <2>2. 1..0 = {}
    OBVIOUS
  <2> QED BY <2>1, <2>2 DEF Total
<1>2. ASSUME NEW s \in Seq(Money)
      PROVE  Total(s, field) \in Int
  <2>1. \A i \in 1..Len(s) : s[i][field] \in Int
    <3>1. \A i \in 1..Len(s) : s[i] \in Money
      BY ElementOfSeq
    <3> QED BY <3>1, Columns
  <2> QED BY <2>1, TotalInt
<1> QED BY <1>1, <1>2

\* ... and a list that is put together to what its parts add up to.
LEMMA TotalConcat ==
  ASSUME NEW field \in {"gross", "fee", "net"}, NEW s \in Seq(Money), NEW t \in Seq(Money)
  PROVE  Total(s \o t, field) = Total(s, field) + Total(t, field)
<1> DEFINE P(k) == \A u \in Seq(Money) :
                     Len(u) = k => Total(s \o u, field) = Total(s, field) + Total(u, field)
<1>1. P(0)
  <2> SUFFICES ASSUME NEW u \in Seq(Money), Len(u) = 0
               PROVE  Total(s \o u, field) = Total(s, field) + Total(u, field)
    OBVIOUS
  <2>1. u = <<>>
    BY EmptySeq
  <2>2. s \o u = s
    BY <2>1, ConcatEmptySeq
  <2>3. Total(u, field) = 0 /\ Total(s, field) \in Int
    BY <2>1, TotalType
  <2> QED BY <2>2, <2>3
<1>2. ASSUME NEW k \in Nat, P(k)
      PROVE  P(k + 1)
  <2> SUFFICES ASSUME NEW u \in Seq(Money), Len(u) = k + 1
               PROVE  Total(s \o u, field) = Total(s, field) + Total(u, field)
    OBVIOUS
  <2>1. u # <<>>
    BY EmptySeq
  <2>2. PICK v \in Seq(Money), m \in Money : u = Append(v, m)
    BY <2>1, SequenceEmptyOrAppend
  <2>3. Len(v) = k
    <3>1. Len(Append(v, m)) = Len(v) + 1 /\ Len(v) \in Nat
      BY AppendProperties, LenProperties
    <3> QED BY <2>2, <3>1
  <2>4. s \o v \in Seq(Money)
    BY ConcatProperties
  <2>5. s \o u = Append(s \o v, m)
    <3>1. PICK one \in Seq(Money) : one = <<m>>
      <4>1. <<m>> \in Seq(Money)
        OBVIOUS
      <4> QED BY <4>1
    <3>2. u = v \o one /\ Append(s \o v, m) = (s \o v) \o one
      BY <2>2, <2>4, <3>1, AppendIsConcat
    <3>3. (s \o v) \o one = s \o (v \o one)
      BY ConcatAssociative
    <3> QED BY <3>2, <3>3
  <2>6. \A x \in Money : x[field] \in Int
    BY Columns
  <2>7. Total(Append(v, m), field) = Total(v, field) + m[field]
    BY <2>6, TotalAppend
  <2>8. Total(Append(s \o v, m), field) = Total(s \o v, field) + m[field]
    <3>1. \A w \in Seq(Money) : Total(Append(w, m), field) = Total(w, field) + m[field]
      BY <2>6, TotalAppend
    <3> QED BY <2>4, <3>1
  <2>9. Total(s \o v, field) = Total(s, field) + Total(v, field)
    BY <1>2, <2>3
  <2>10. Total(s, field) \in Int /\ Total(v, field) \in Int /\ m[field] \in Int
    BY <2>6, TotalType
  <2> QED BY <2>2, <2>5, <2>7, <2>8, <2>9, <2>10
<1> DEFINE K == {k \in Nat : P(k)}
<1>3. K \subseteq Nat /\ 0 \in K /\ \A k \in K : k + 1 \in K
  BY <1>1, <1>2
<1>4. Len(t) \in K
  <2>1. Len(t) \in Nat
    BY LenProperties
  <2> HIDE DEF K
  <2> QED BY <1>3, <2>1, NatSet
<1> QED BY <1>4

\* A list of one row adds up to it.
LEMMA TotalOne ==
  ASSUME NEW field \in {"gross", "fee", "net"}, NEW m \in Money
  PROVE  <<m>> \in Seq(Money) /\ Total(<<m>>, field) = m[field]
<1>1. <<>> \in Seq(Money) /\ \A x \in Money : x[field] \in Int
  BY EmptySeq, Columns
<1>2. Total(Append(<<>>, m), field) = Total(<<>>, field) + m[field]
  BY <1>1, TotalAppend
<1>3. Append(<<>>, m) = <<m>> /\ <<m>> \in Seq(Money)
  OBVIOUS
<1>4. Total(<<>>, field) = 0 /\ m[field] \in Int
  BY <1>1, TotalType
<1> QED BY <1>2, <1>3, <1>4

-----------------------------------------------------------------------------
(* One payout.                                                              *)

\* A row is the whole of itself.
LEMMA WholeRow == \A e \in Money : Whole(e) = e
BY DEF Money, Whole

\* A split divides a sound row into two, without loss and at a fair fee.
LEMMA SplitRow ==
  ASSUME NEW e, SoundRow(e), NEW left \in Nat \ {0}, IsSplit(e, left),
         NEW part, part = Portion(e, left)
  PROVE  /\ part \in Money /\ SoundRow(Remainder(e, part))
         /\ \A field \in {"gross", "fee", "net"} :
              part[field] + Remainder(e, part)[field] = e[field]
         /\ 2 * (part.fee * e.net - e.fee * part.net) \in -e.net..e.net
<1>1. /\ e.gross \in Int /\ e.fee \in Int /\ e.net \in Int
      /\ e.gross = e.net + e.fee /\ e.fee >= 0
  BY DEF SoundRow, Money
<1>2. e.net \in Nat /\ e.fee \in Nat
  BY <1>1 DEF IsSplit
<1>3. part \in Money
  BY <1>1, PortionSound
<1> DEFINE rest == Remainder(e, part)
<1>4. /\ part.gross + rest.gross = e.gross
      /\ part.fee + rest.fee = e.fee
      /\ part.net + rest.net = e.net
      /\ rest.gross = rest.net + rest.fee /\ rest.fee >= 0
      /\ 2 * (part.fee * e.net - e.fee * part.net) \in -e.net..e.net
  BY <1>1, <1>2, SplitSound
<1>5. rest \in Money
  <2>1. part.gross \in Int /\ part.fee \in Int /\ part.net \in Int
    BY <1>3 DEF Money
  <2> QED BY <1>1, <2>1 DEF Remainder, Money
<1> HIDE DEF rest
<1>6. SoundRow(rest)
  BY <1>4, <1>5 DEF SoundRow
<1>7. \A field \in {"gross", "fee", "net"} : part[field] + rest[field] = e[field]
  BY <1>4
<1> QED BY <1>3, <1>4, <1>6, <1>7 DEF rest

\* What a payout leaves of the entries: the remainder of the one it split, and
\* those it did not reach.
Left(entries, alloc) ==
  LET n == Len(alloc.paid) IN
  (IF alloc.split THEN <<Remainder(entries[n], alloc.paid[n])>> ELSE <<>>)
    \o SubSeq(entries, n + 1, Len(entries))

\* What a payout of a should be and leave, when alloc is how it is allocated.
PayoutIsSound(entries, a, alloc) ==
  LET n == Len(alloc.paid) IN
  /\ alloc.paid \in Seq(Money) /\ n \in 0..Len(entries)
  /\ Total(alloc.paid, "net") = a
  /\ Left(entries, alloc) \in Seq(Money)
  /\ \A i \in 1..Len(Left(entries, alloc)) : SoundRow(Left(entries, alloc)[i])
  /\ \A field \in {"gross", "fee", "net"} :
       Total(alloc.paid, field) + Total(Left(entries, alloc), field) = Total(entries, field)
  /\ \A i \in 1..n :
       2 * (alloc.paid[i].fee * entries[i].net - entries[i].fee * alloc.paid[i].net)
         \in -entries[i].net..entries[i].net
         \/ entries[i].net <= 0
  /\ \A i \in 1..n :
       /\ i < n => alloc.paid[i] = entries[i]
       /\ Total(SubSeq(entries, 1, i - 1), "net") < a

\* A payout from sound rows that cover it pays its amount exactly and oldest
\* first, leaves sound rows, loses nothing in any column, and splits at a fair fee.
LEMMA PayoutSound ==
  ASSUME NEW entries \in Seq(Money), \A i \in 1..Len(entries) : SoundRow(entries[i]),
         NEW a \in Nat \ {0}, a <= Total(entries, "net"),
         NEW alloc, alloc = Allocate(entries, a)
  PROVE  PayoutIsSound(entries, a, alloc)
<1> DEFINE N == Len(entries)
           parts == alloc.paid
           n == Len(parts)
           after == SubSeq(entries, n + 1, N)
           rest == Left(entries, alloc)
<1>0. /\ N \in Nat
      /\ \A i \in 1..N : entries[i] \in Money /\ SoundRow(entries[i])
                         /\ entries[i].gross \in Int /\ entries[i].fee \in Int /\ entries[i].net \in Int
  <2>1. \A e \in Money : e.gross \in Int /\ e.fee \in Int /\ e.net \in Int
    BY DEF Money
  <2>2. N \in Nat /\ \A i \in 1..N : entries[i] \in Money
    BY LenProperties, ElementOfSeq
  <2> QED BY <2>1, <2>2
<1>1. /\ parts \in Seq(Money) /\ n \in 0..N /\ alloc.split \in BOOLEAN
      /\ \A k \in 1..n : (k < n \/ ~alloc.split) => parts[k] = entries[k]
      /\ alloc.split => n > 0
      /\ alloc.split => \E left \in Nat \ {0} :
                         IsSplit(entries[n], left) /\ parts[n] = Portion(entries[n], left)
      /\ \A k \in 1..n : NetOfFirst(entries, k - 1) < a
      /\ Total(parts, "net") = a
  <2>1. Total(entries, "net") >= a
    BY TotalType
  <2>2. /\ parts \in Seq(Money) /\ n \in 0..N /\ alloc.split \in BOOLEAN
        /\ \A k \in 1..n : (k < n \/ ~alloc.split) => parts[k] = Whole(entries[k])
        /\ alloc.split => n > 0
        /\ alloc.split => \E left \in Nat \ {0} :
                           IsSplit(entries[n], left) /\ parts[n] = Portion(entries[n], left)
        /\ \A k \in 1..n : NetOfFirst(entries, k - 1) < a
        /\ Total(entries, "net") >= a => Total(parts, "net") = a
    BY <1>0, AllocateSound
  <2>3. \A k \in 1..n : Whole(entries[k]) = entries[k]
    BY <1>0, <2>2, WholeRow
  <2> QED BY <2>1, <2>2, <2>3
<1>2. /\ after \in Seq(Money) /\ Len(after) = N - n
      /\ \A i \in 1..(N - n) : after[i] = entries[n + i]
  <2>1. n + 1 \in Int /\ N \in Int /\ \A i \in (n + 1)..N : entries[i] \in Money
    BY <1>0, <1>1
  <2>2. PICK lo \in Int, hi \in Int : lo = n + 1 /\ hi = N
    BY <2>1
  <2>3. \A i \in lo..hi : entries[i] \in Money
    BY <2>1, <2>2
  <2>4. /\ SubSeq(entries, lo, hi) \in Seq(Money)
        /\ Len(SubSeq(entries, lo, hi)) = IF lo <= hi THEN hi - lo + 1 ELSE 0
        /\ \A i \in 1..(hi - lo + 1) : SubSeq(entries, lo, hi)[i] = entries[lo + i - 1]
    BY <2>3, SubSeqProperties
  <2>5. hi - lo + 1 = N - n /\ \A i \in 1..(N - n) : lo + i - 1 = n + i
    BY <1>0, <1>1, <2>2
  <2> HIDE DEF n, N
  <2> QED BY <1>0, <1>1, <2>2, <2>4, <2>5
<1>3. \A i \in 1..Len(after) : SoundRow(after[i])
  <2>1. \A i \in 1..(N - n) : n + i \in 1..N
    BY <1>0, <1>1
  <2> HIDE DEF after, n, N
  <2> QED BY <1>0, <1>2, <2>1
<1>4. SubSeq(entries, 1, n) \in Seq(Money) /\ SubSeq(entries, 1, n) \o after = entries
  <2>1. 1 \in 1..N + 1 /\ n \in (1 - 1)..N /\ N \in n..N
    BY <1>0, <1>1
  <2>2. SubSeq(entries, 1, n) \o after = SubSeq(entries, 1, N)
    BY <2>1, ConcatAdjacentSubSeq
  <2>3. SubSeq(entries, 1, N) = entries
    BY SubSeqFull
  <2>4. 1 \in Int /\ n \in Int /\ \A i \in 1..n : entries[i] \in Money
    BY <1>0, <1>1
  <2>5. SubSeq(entries, 1, n) \in Seq(Money)
    BY <2>4, SubSeqProperties
  <2> QED BY <2>2, <2>3, <2>5
<1>5. \A field \in {"gross", "fee", "net"} :
        Total(entries, field) = Total(SubSeq(entries, 1, n), field) + Total(after, field)
  <2> TAKE field \in {"gross", "fee", "net"}
  <2>1. PICK s \in Seq(Money) : s = SubSeq(entries, 1, n)
    BY <1>4
  <2>2. s \o after = entries
    BY <1>4, <2>1
  <2>3. Total(s \o after, field) = Total(s, field) + Total(after, field)
    <3> HIDE DEF after
    <3> QED BY <1>2, TotalConcat
  <2> HIDE DEF after, n
  <2> QED BY <2>1, <2>2, <2>3
<1>6. \A i \in 1..n : Total(SubSeq(entries, 1, i - 1), "net") < a
  <2> TAKE i \in 1..n
  <2> DEFINE first == SubSeq(entries, 1, i - 1)
  <2>1. 1 \in Int /\ i - 1 \in Int /\ i - 1 \in Nat /\ \A k \in 1..(i - 1) : entries[k] \in Money
    BY <1>0, <1>1
  <2>2. /\ Len(first) = IF 1 <= i - 1 THEN (i - 1) - 1 + 1 ELSE 0
        /\ \A k \in 1..((i - 1) - 1 + 1) : first[k] = entries[1 + k - 1]
    BY <2>1, SubSeqProperties
  <2>3. Len(first) = i - 1 /\ \A k \in 1..(i - 1) : first[k] = entries[k]
    <3>1. (i - 1) - 1 + 1 = i - 1 /\ \A k \in 1..(i - 1) : 1 + k - 1 = k
      BY <2>1
    <3> QED BY <2>1, <2>2, <3>1
  <2>4. [k \in 1..(i - 1) |-> first[k]["net"]] = [k \in 1..(i - 1) |-> entries[k]["net"]]
    BY <2>3
  <2>5. Total(first, "net") = NetOfFirst(entries, i - 1)
    BY <2>3, <2>4 DEF Total, NetOfFirst
  <2> QED BY <1>1, <2>5
<1>7. \A i \in 1..n : (i < n \/ ~alloc.split) =>
        2 * (parts[i].fee * entries[i].net - entries[i].fee * parts[i].net)
          \in -entries[i].net..entries[i].net
          \/ entries[i].net <= 0
  <2> TAKE i \in 1..n
  <2> HAVE i < n \/ ~alloc.split
  <2>1. parts[i] = entries[i] /\ entries[i].fee \in Int /\ entries[i].net \in Int
    BY <1>0, <1>1
  <2>2. \A x, y \in Int : 2 * (x * y - x * y) = 0 /\ (y > 0 => 0 \in -y..y)
    OBVIOUS
  <2> QED BY <2>1, <2>2
<1>8. CASE ~alloc.split
  <2>1. rest = after
    <3>1. rest = <<>> \o after
      BY <1>8 DEF Left
    <3> QED BY <1>2, <3>1, ConcatEmptySeq
  <2>2. parts = SubSeq(entries, 1, n)
    <3> DEFINE first == SubSeq(entries, 1, n)
    <3>1. 1 \in Int /\ n \in Int /\ \A i \in 1..n : entries[i] \in Money
      BY <1>0, <1>1
    <3>2. /\ Len(first) = IF 1 <= n THEN n - 1 + 1 ELSE 0
          /\ \A i \in 1..(n - 1 + 1) : first[i] = entries[1 + i - 1]
      BY <3>1, SubSeqProperties
    <3>3. Len(first) = n /\ \A i \in 1..n : first[i] = entries[i]
      <4>1. n - 1 + 1 = n /\ \A i \in 1..n : 1 + i - 1 = i
        BY <1>1
      <4> QED BY <1>1, <3>2, <4>1
    <3>4. Len(parts) = Len(first) /\ \A i \in 1..Len(parts) : parts[i] = first[i]
      BY <1>1, <1>8, <3>3
    <3> QED BY <1>1, <1>4, <3>4, SeqEqual
  <2>3. \A field \in {"gross", "fee", "net"} :
          Total(parts, field) + Total(rest, field) = Total(entries, field)
    BY <1>5, <2>1, <2>2
  <2> QED BY <1>1, <1>2, <1>3, <1>6, <1>7, <1>8, <2>1, <2>3 DEF PayoutIsSound
<1>9. CASE alloc.split
  <2>1. PICK left \in Nat \ {0} : IsSplit(entries[n], left) /\ parts[n] = Portion(entries[n], left)
    BY <1>1, <1>9
  <2> DEFINE e == entries[n]
             part == parts[n]
             remains == Remainder(e, part)
             first == SubSeq(entries, 1, n - 1)
  <2>2. n \in 1..N /\ n > 0 /\ e \in Money /\ SoundRow(e)
    BY <1>0, <1>1, <1>9
  <2>3. /\ part \in Money /\ SoundRow(remains)
        /\ \A field \in {"gross", "fee", "net"} : part[field] + remains[field] = e[field]
        /\ 2 * (part.fee * e.net - e.fee * part.net) \in -e.net..e.net
    <3> HIDE DEF e, part
    <3>1. part = Portion(e, left) /\ IsSplit(e, left)
      BY <2>1 DEF e, part
    <3> QED BY <2>2, <3>1, SplitRow
  <2>4. remains \in Money
    BY <2>3 DEF SoundRow
  <2>5. /\ first \in Seq(Money) /\ Len(first) = n - 1
        /\ \A i \in 1..(n - 1) : first[i] = entries[i]
    <3>1. 1 \in Int /\ n - 1 \in Int /\ \A i \in 1..(n - 1) : entries[i] \in Money
      BY <1>0, <1>1
    <3>2. /\ first \in Seq(Money)
          /\ Len(first) = IF 1 <= n - 1 THEN (n - 1) - 1 + 1 ELSE 0
          /\ \A i \in 1..((n - 1) - 1 + 1) : first[i] = entries[1 + i - 1]
      BY <3>1, SubSeqProperties
    <3>3. (n - 1) - 1 + 1 = n - 1 /\ \A i \in 1..(n - 1) : 1 + i - 1 = i
      BY <1>1
    <3> QED BY <1>1, <2>2, <3>2, <3>3
  <2>6. parts = first \o <<part>> /\ SubSeq(entries, 1, n) = first \o <<e>>
    <3>1. 1 \in 1..N /\ n \in 1..N
      BY <1>0, <2>2
    <3>2. SubSeq(entries, 1, n) = first \o <<e>>
      BY <3>1, SubSeqRecursiveSecond
    <3>3. /\ Append(first, part) \in Seq(Money) /\ Len(Append(first, part)) = (n - 1) + 1
          /\ \A i \in 1..(n - 1) : Append(first, part)[i] = first[i]
          /\ Append(first, part)[(n - 1) + 1] = part
      <4> HIDE DEF first, part
      <4> QED BY <2>3, <2>5, AppendProperties
    <3>4. Len(parts) = Len(Append(first, part))
          /\ \A i \in 1..Len(parts) : parts[i] = Append(first, part)[i]
      <4>1. (n - 1) + 1 = n /\ \A i \in 1..n : (i \in 1..(n - 1) /\ i < n) \/ i = n
        BY <1>1
      <4>2. \A i \in 1..(n - 1) : parts[i] = entries[i]
        BY <1>1
      <4> HIDE DEF first
      <4> QED BY <2>5, <3>3, <4>1, <4>2
    <3>5. parts = Append(first, part)
      BY <1>1, <3>3, <3>4, SeqEqual
    <3>6. Append(first, part) = first \o <<part>>
      <4> HIDE DEF first, part
      <4> QED BY <2>3, <2>5, AppendIsConcat
    <3> QED BY <3>2, <3>5, <3>6
  <2>7. rest = <<remains>> \o after
    BY <1>9 DEF Left
  <2>8. \A field \in {"gross", "fee", "net"} :
          Total(parts, field) + Total(rest, field) = Total(entries, field)
    <3> TAKE field \in {"gross", "fee", "net"}
    <3> HIDE DEF first, part, remains, e, after, rest, n, parts
    <3>1. /\ <<part>> \in Seq(Money) /\ Total(<<part>>, field) = part[field]
          /\ <<e>> \in Seq(Money) /\ Total(<<e>>, field) = e[field]
          /\ <<remains>> \in Seq(Money) /\ Total(<<remains>>, field) = remains[field]
      BY <2>2, <2>3, <2>4, TotalOne
    <3>2. /\ Total(first \o <<part>>, field) = Total(first, field) + Total(<<part>>, field)
          /\ Total(first \o <<e>>, field) = Total(first, field) + Total(<<e>>, field)
          /\ Total(<<remains>> \o after, field) = Total(<<remains>>, field) + Total(after, field)
      BY <1>2, <2>5, <3>1, TotalConcat
    <3>3. Total(entries, field) = Total(SubSeq(entries, 1, n), field) + Total(after, field)
      BY <1>5
    <3>4. /\ Total(first, field) \in Int /\ Total(after, field) \in Int
          /\ part[field] \in Int /\ e[field] \in Int /\ remains[field] \in Int
      BY <1>2, <2>2, <2>3, <2>4, <2>5, TotalType, Columns
    <3>5. part[field] + remains[field] = e[field]
      BY <2>3
    <3>6. /\ Total(parts, field) = Total(first, field) + part[field]
          /\ Total(rest, field) = remains[field] + Total(after, field)
          /\ Total(entries, field) = Total(first, field) + e[field] + Total(after, field)
      BY <2>6, <2>7, <3>1, <3>2, <3>3
    <3> QED BY <3>4, <3>5, <3>6
  <2>9. rest \in Seq(Money) /\ \A i \in 1..Len(rest) : SoundRow(rest[i])
    <3> HIDE DEF remains, after, rest, n
    <3>1. <<remains>> \in Seq(Money) /\ Len(<<remains>>) = 1 /\ <<remains>>[1] = remains
      BY <2>4
    <3>2. /\ rest \in Seq(Money) /\ Len(rest) = 1 + Len(after) /\ Len(after) \in Nat
          /\ \A i \in 1..(1 + Len(after)) :
               rest[i] = IF i <= 1 THEN <<remains>>[i] ELSE after[i - 1]
      BY <1>2, <2>7, <3>1, ConcatProperties, LenProperties
    <3>3. \A i \in 1..Len(rest) : rest[i] = remains \/ \E j \in 1..Len(after) : rest[i] = after[j]
      <4> TAKE i \in 1..Len(rest)
      <4>1. (i = 1 /\ i <= 1) \/ (~(i <= 1) /\ i - 1 \in 1..Len(after))
        BY <3>2
      <4> QED BY <3>1, <3>2, <4>1
    <3> QED BY <1>3, <2>3, <3>2, <3>3
  <2>10. \A i \in 1..n :
          2 * (parts[i].fee * entries[i].net - entries[i].fee * parts[i].net)
            \in -entries[i].net..entries[i].net
            \/ entries[i].net <= 0
    <3> TAKE i \in 1..n
    <3>1. CASE i < n
      BY <1>7, <3>1
    <3>2. CASE i = n
      BY <2>3, <3>2
    <3>3. i < n \/ i = n
      BY <1>1
    <3> QED BY <3>1, <3>2, <3>3
  <2> QED BY <1>1, <1>6, <2>8, <2>9, <2>10 DEF PayoutIsSound
<1> QED BY <1>1, <1>8, <1>9

-----------------------------------------------------------------------------
(* Any number of payouts.                                                   *)

PayoutsTyped ==
  /\ earnings \in Seq(Money) /\ previous \in Seq(Money)
  /\ requested \in Nat /\ portions \in Seq(Money)

\* Together, what the payouts so far have left and what the last one did.
PayoutInv ==
  /\ PayoutsTyped /\ GrossAddsUp
  /\ PaysItsAmount /\ ConservesMoney /\ FeeIsFair /\ OldestFirst

\* What seller-service inserts is sound.
LEMMA EntriesSound == \A e \in Entries : SoundRow(e)
<1> TAKE e \in Entries
<1>1. CASE \E fee \in 0..MaxFee, net \in 1..MaxNet : e = Sale(fee, net)
  <2>1. PICK fee \in 0..MaxFee, net \in 1..MaxNet : e = Sale(fee, net)
    BY <1>1
  <2> QED BY <2>1, LedgerAssumption DEF Sale, SoundRow, Money
<1>2. CASE \E net \in 1..MaxNet : e = AdCredit(net)
  <2>1. PICK net \in 1..MaxNet : e = AdCredit(net)
    BY <1>2
  <2> QED BY <2>1, LedgerAssumption DEF AdCredit, SoundRow, Money
<1> QED BY <1>1, <1>2 DEF Entries

\* Nothing is paid at first, from a ledger of sound rows.
LEMMA InitSound == PayoutInit => PayoutInv
<1> SUFFICES ASSUME PayoutInit
             PROVE  PayoutInv
  OBVIOUS
<1>1. previous = earnings /\ requested = 0 /\ portions = <<>> /\ Len(portions) = 0
  BY DEF PayoutInit
<1>2. PICK m \in 0..MaxEntries : earnings \in [1..m -> Entries]
  BY DEF PayoutInit, BoundedSeq, SeqOf
<1>3. earnings \in Seq(Entries) /\ m \in Nat /\ Len(earnings) = m
  <2>1. m \in Nat
    BY LedgerAssumption
  <2> QED BY <1>2, <2>1, SeqDef
<1>4. \A i \in 1..Len(earnings) : SoundRow(earnings[i])
  BY <1>2, <1>3, EntriesSound
<1>5. earnings \in Seq(Money)
  <2>1. Entries \subseteq Money
    BY EntriesSound DEF SoundRow
  <2> QED BY <1>3, <2>1, SeqMonotonic
<1>6. PayoutsTyped
  BY <1>1, <1>5 DEF PayoutsTyped
<1>7. GrossAddsUp
  BY <1>4 DEF GrossAddsUp, SoundRow
<1>8. PaysItsAmount
  BY <1>1, TotalType DEF PaysItsAmount
<1>9. ConservesMoney /\ FeeIsFair /\ OldestFirst
  BY <1>1 DEF ConservesMoney, FeeIsFair, OldestFirst
<1> QED BY <1>6, <1>7, <1>8, <1>9 DEF PayoutInv

\* A payout from a ledger of sound rows does what it should, and leaves one.
LEMMA PayoutKeeps ==
  ASSUME PayoutsTyped, GrossAddsUp, NEW a \in 1..(MaxEntries * MaxNet), DrawPayout(a)
  PROVE  PayoutInv'
<1> DEFINE alloc == Allocate(earnings, a)
<1>1. a \in Nat \ {0}
  <2>1. MaxEntries * MaxNet \in Int
    BY LedgerAssumption
  <2> QED BY <2>1
<1>2. earnings \in Seq(Money) /\ \A i \in 1..Len(earnings) : SoundRow(earnings[i])
  <2>1. earnings \in Seq(Money) /\ \A i \in 1..Len(earnings) : earnings[i] \in Money
    BY ElementOfSeq DEF PayoutsTyped
  <2> QED BY <2>1 DEF GrossAddsUp, SoundRow
<1>3. /\ a <= Total(earnings, "net") /\ previous' = earnings /\ requested' = a
      /\ portions' = alloc.paid /\ earnings' = Left(earnings, alloc)
  BY DEF DrawPayout, Left
<1>4. PICK al : al = alloc
  OBVIOUS
<1> HIDE DEF alloc
<1>5. /\ al.paid \in Seq(Money) /\ Len(al.paid) \in 0..Len(earnings)
      /\ Total(al.paid, "net") = a
      /\ Left(earnings, al) \in Seq(Money)
      /\ \A i \in 1..Len(Left(earnings, al)) : SoundRow(Left(earnings, al)[i])
      /\ \A field \in {"gross", "fee", "net"} :
           Total(al.paid, field) + Total(Left(earnings, al), field) = Total(earnings, field)
      /\ \A i \in 1..Len(al.paid) :
           2 * (al.paid[i].fee * earnings[i].net - earnings[i].fee * al.paid[i].net)
             \in -earnings[i].net..earnings[i].net
             \/ earnings[i].net <= 0
      /\ \A i \in 1..Len(al.paid) :
           /\ i < Len(al.paid) => al.paid[i] = earnings[i]
           /\ Total(SubSeq(earnings, 1, i - 1), "net") < a
  <2>1. al = Allocate(earnings, a)
    BY <1>4 DEF alloc
  <2>2. PICK s \in Seq(Money) : s = earnings
    BY <1>2
  <2>3. a <= Total(s, "net") /\ (\A i \in 1..Len(s) : SoundRow(s[i])) /\ al = Allocate(s, a)
    BY <1>2, <1>3, <2>1, <2>2
  <2>4. PayoutIsSound(s, a, al)
    BY <1>1, <2>3, PayoutSound
  <2> QED BY <2>2, <2>4 DEF PayoutIsSound
<1>6. portions' = al.paid /\ earnings' = Left(earnings, al)
  BY <1>3, <1>4
<1>7. PayoutsTyped'
  BY <1>1, <1>2, <1>3, <1>5, <1>6 DEF PayoutsTyped
<1>8. GrossAddsUp'
  BY <1>5, <1>6 DEF GrossAddsUp, SoundRow
<1>9. PaysItsAmount'
  BY <1>3, <1>5, <1>6 DEF PaysItsAmount
<1>10. ConservesMoney'
  BY <1>3, <1>5, <1>6 DEF ConservesMoney
<1>11. FeeIsFair'
  <2> SUFFICES ASSUME NEW i \in 1..Len(al.paid), earnings[i].net > 0
               PROVE  2 * (al.paid[i].fee * earnings[i].net - earnings[i].fee * al.paid[i].net)
                        \in -earnings[i].net..earnings[i].net
    BY <1>3, <1>6 DEF FeeIsFair
  <2>1. earnings[i].net \in Int
    <3>1. i \in 1..Len(earnings)
      BY <1>2, <1>5
    <3> QED BY <1>2, <3>1 DEF SoundRow, Money
  <2>2. ~(earnings[i].net <= 0)
    BY <2>1
  <2> QED BY <1>5, <2>2
<1>12. OldestFirst'
  BY <1>3, <1>5, <1>6 DEF OldestFirst
<1> QED BY <1>7, <1>8, <1>9, <1>10, <1>11, <1>12 DEF PayoutInv

\* The invariant holds of every ledger and every sequence of payouts.
THEOREM PayoutsSound == PayoutSpec => []PayoutInv
<1>1. PayoutInit => PayoutInv
  BY InitSound
<1>2. PayoutInv /\ [PayoutNext]_payoutVars => PayoutInv'
  <2> SUFFICES ASSUME PayoutInv, [PayoutNext]_payoutVars
               PROVE  PayoutInv'
    OBVIOUS
  <2>1. CASE UNCHANGED payoutVars
    BY <2>1 DEF payoutVars, PayoutInv, PayoutsTyped, GrossAddsUp, PaysItsAmount, ConservesMoney, FeeIsFair, OldestFirst
  <2>2. CASE PayoutNext
    <3>1. PICK a \in 1..(MaxEntries * MaxNet) : DrawPayout(a)
      BY <2>2 DEF PayoutNext
    <3> QED BY <3>1, PayoutKeeps DEF PayoutInv
  <2> QED BY <2>1, <2>2
<1> QED BY <1>1, <1>2, PTL DEF PayoutSpec

\* Every payout of every sequence pays exactly the amount asked for, whatever
\* splits and ad credits earlier ones left in the ledger.
THEOREM EveryPayoutExact == PayoutSpec => []PaysItsAmount
<1>1. PayoutInv => PaysItsAmount
  BY DEF PayoutInv
<1> QED BY <1>1, PayoutsSound, PTL

\* No payout of any sequence creates or loses a cent in any column.
THEOREM EveryPayoutConserves == PayoutSpec => []ConservesMoney
<1>1. PayoutInv => ConservesMoney
  BY DEF PayoutInv
<1> QED BY <1>1, PayoutsSound, PTL

\* However often an entry is split again, what is left of it has a gross that is
\* net and fee, and no negative fee.
THEOREM SplitsKeepGross == PayoutSpec => []GrossAddsUp
<1>1. PayoutInv => GrossAddsUp
  BY DEF PayoutInv
<1> QED BY <1>1, PayoutsSound, PTL

\* The fee of every portion, of a remainder of a remainder too, is the share that
\* it should be, to half a cent.
THEOREM EveryFeeFair == PayoutSpec => []FeeIsFair
<1>1. PayoutInv => FeeIsFair
  BY DEF PayoutInv
<1> QED BY <1>1, PayoutsSound, PTL

\* Entries are paid oldest first, whole but for the last, and none that those
\* before it made unnecessary.
THEOREM EveryPayoutOldestFirst == PayoutSpec => []OldestFirst
<1>1. PayoutInv => OldestFirst
  BY DEF PayoutInv
<1> QED BY <1>1, PayoutsSound, PTL

-----------------------------------------------------------------------------
(* What the steps of seller-service do to its tables.                       *)

\* The amounts and the bounds, one by one.
LEMMA SaleAmounts ==
  /\ SaleNet \in Nat \ {0} /\ SaleFee \in Nat /\ Amounts \subseteq Nat
  /\ NoOrder \notin Orders /\ IsFiniteSet(Sellers) /\ ItemStatuses \subseteq OrderStatus
  /\ MaxNews \in Nat /\ MaxUpdates \in Nat /\ MaxCalls \in Nat /\ MaxFaults \in Nat
BY SaleAssumption, AmountsAssumption, NilAssumption, FiniteAssumption,
   StatusesAssumption, BoundsAssumption

\* The tables of seller-service and the rows that its steps write are well typed.
LEMMA EntryFields ==
  /\ \A e \in Entry :
       /\ e.seller \in Sellers /\ e.order \in Orders \cup {NoOrder}
       /\ e.status \in EarningStatus /\ e.gross \in Int /\ e.fee \in Int /\ e.net \in Int
       /\ e.born \in Nat \ {0} /\ e.payout \in Nat
  /\ \A e \in Entry, st \in EarningStatus : [e EXCEPT !.status = st] \in Entry
  /\ \A e \in Entry, m \in Money, p \in Nat : Released(e, m, p) \in Entry
BY DEF Entry, Money, Released, EarningStatus

\* The statuses of an entry keep all the rest of it.
LEMMA EntryKept ==
  /\ \A e \in Entry, st \in EarningStatus :
       LET f == [e EXCEPT !.status = st] IN
       /\ f.status = st /\ f.seller = e.seller /\ f.order = e.order
       /\ f.net = e.net /\ f.born = e.born /\ f.payout = e.payout
  /\ \A e \in Entry, m \in Money, p \in Nat :
       LET f == Released(e, m, p) IN
       /\ f.status = "payout_released" /\ f.seller = e.seller /\ f.order = e.order
       /\ f.net = m.net /\ f.born = e.born /\ f.payout = p
BY DEF Entry, Money, Released, EarningStatus

\* Rows are inserted after those there are.
LEMMA LedgerGrows ==
  ASSUME NEW old \in Seq(Entry), NEW added \in Seq(Entry)
  PROVE  /\ old \o added \in Seq(Entry)
         /\ Len(old \o added) = Len(old) + Len(added)
         /\ \A i \in 1..Len(old) : (old \o added)[i] = old[i]
         /\ \A j \in 1..Len(added) : (old \o added)[Len(old) + j] = added[j]
<1>1. Len(old) \in Nat /\ Len(added) \in Nat
  OBVIOUS
<1>2. /\ old \o added \in Seq(Entry)
      /\ Len(old \o added) = Len(old) + Len(added)
      /\ \A i \in 1..(Len(old) + Len(added)) :
           (old \o added)[i] = IF i <= Len(old) THEN old[i] ELSE added[i - Len(old)]
  BY ConcatProperties
<1>3. ASSUME NEW j \in 1..Len(added)
      PROVE  (old \o added)[Len(old) + j] = added[j]
  <2>1. /\ Len(old) + j \in 1..(Len(old) + Len(added))
        /\ ~(Len(old) + j <= Len(old)) /\ (Len(old) + j) - Len(old) = j
    BY <1>1
  <2> QED BY <1>2, <2>1
<1>4. ASSUME NEW i \in 1..Len(old)
      PROVE  (old \o added)[i] = old[i]
  BY <1>1, <1>2
<1> QED BY <1>2, <1>3, <1>4

\* The order of the sellers' items names sellers.
LEMMA SellersInARow ==
  /\ Cardinality(Sellers) \in Nat
  /\ SetToSeq(Sellers) \in [1..Cardinality(Sellers) -> Sellers]
<1> DEFINE n == Cardinality(Sellers)
<1>1. n \in Nat /\ ExistsBijection(1..n, Sellers)
  BY SaleAmounts, FS_CardinalityType
<1>2. \E f \in [1..n -> Sellers] : IsInjective(f)
  BY <1>1 DEF ExistsBijection, Bijection, Injection
<1>3. SetToSeq(Sellers) = CHOOSE f \in [1..n -> Sellers] : IsInjective(f)
  BY DEF SetToSeq
<1> HIDE DEF n
<1>4. SetToSeq(Sellers) \in [1..n -> Sellers]
  BY <1>2, <1>3
<1> QED BY <1>1, <1>4 DEF n

\* handleOrderConfirmed inserts escrowed entries of the order, each as old as
\* its place in the ledger.
LEMMA ConfirmedEffect ==
  ASSUME TypeOK, HandleOrderConfirmed
  PROVE  /\ ledger' \in Seq(Entry) /\ Len(ledger') >= Len(ledger)
         /\ \A i \in 1..Len(ledger) : ledger'[i] = ledger[i]
         /\ \A i \in (Len(ledger) + 1)..Len(ledger') :
              /\ ledger'[i].status = "escrowed" /\ ledger'[i].order \in Orders
              /\ ledger'[i].net = SaleNet /\ ledger'[i].born = i
<1> DEFINE n == Cardinality(Sellers)
           o == Head(nats.confirmed)
           row(i) == [seller |-> SetToSeq(Sellers)[i], order |-> o, status |-> "escrowed",
                      gross |-> SaleNet + SaleFee, fee |-> SaleFee, net |-> SaleNet,
                      born |-> Len(ledger) + i, payout |-> 0]
           escrowed == [i \in 1..n |-> row(i)]
<1>1. o \in Orders
  BY DEF TypeOK, NatsType, HandleOrderConfirmed, Pending
<1>2. ledger \in Seq(Entry) /\ Len(ledger) \in Nat
  BY DEF TypeOK, SellerTypeOK
<1>3. \A i \in 1..n : row(i) \in Entry
  <2> SUFFICES ASSUME NEW i \in 1..n PROVE row(i) \in Entry
    OBVIOUS
  <2>1. SetToSeq(Sellers)[i] \in Sellers /\ i \in Nat \ {0}
    BY SellersInARow
  <2>2. /\ SaleNet + SaleFee \in Int /\ SaleFee \in Int /\ SaleNet \in Int
        /\ Len(ledger) + i \in Nat \ {0}
    BY <1>2, <2>1, SaleAmounts
  <2> QED BY <1>1, <2>1, <2>2 DEF Entry, EarningStatus
<1>4. n \in Nat
  BY SellersInARow
<1>5. /\ \A i \in 1..n : /\ row(i).status = "escrowed" /\ row(i).order = o
                         /\ row(i).net = SaleNet /\ row(i).born = Len(ledger) + i
  OBVIOUS
<1>6. ledger' = ledger \o escrowed
  BY DEF HandleOrderConfirmed
<1> HIDE DEF row, n
<1>7. escrowed \in Seq(Entry) /\ Len(escrowed) = n /\ \A i \in 1..n : escrowed[i] = row(i)
  BY <1>3, <1>4
<1> HIDE DEF escrowed
<1>8. /\ ledger' \in Seq(Entry) /\ Len(ledger') = Len(ledger) + n
      /\ \A i \in 1..Len(ledger) : ledger'[i] = ledger[i]
      /\ \A j \in 1..n : ledger'[Len(ledger) + j] = row(j)
  BY <1>2, <1>6, <1>7, LedgerGrows
<1>9. ASSUME NEW i \in (Len(ledger) + 1)..Len(ledger')
      PROVE  /\ ledger'[i].status = "escrowed" /\ ledger'[i].order \in Orders
             /\ ledger'[i].net = SaleNet /\ ledger'[i].born = i
  <2> DEFINE j == i - Len(ledger)
  <2>1. j \in 1..n /\ i = Len(ledger) + j
    BY <1>2, <1>4, <1>8
  <2> HIDE DEF j, o
  <2> QED BY <1>1, <1>5, <1>8, <2>1
<1>10. Len(ledger') >= Len(ledger)
  BY <1>2, <1>4, <1>8
<1> QED BY <1>8, <1>9, <1>10

\* The settling update writes the status of the rows it found, and nothing else.
LEMMA SettleEffect ==
  ASSUME TypeOK, SettleEarnings
  PROVE  /\ settling \in Settling
         /\ ledger' \in Seq(Entry) /\ Len(ledger') = Len(ledger)
         /\ \A i \in 1..Len(ledger) :
              ledger'[i] = IF i \in settling.ids
                           THEN [ledger[i] EXCEPT !.status = settling.status]
                           ELSE ledger[i]
<1> DEFINE row(i) == IF i \in settling.ids
                     THEN [ledger[i] EXCEPT !.status = settling.status]
                     ELSE ledger[i]
<1>1. settling \in Settling /\ ledger \in Seq(Entry)
  BY DEF TypeOK, SellerTypeOK, SettleEarnings
<1>2. settling.status \in EarningStatus
  BY <1>1 DEF Settling
<1>3. Len(ledger) \in Nat /\ DOMAIN ledger = 1..Len(ledger)
      /\ \A i \in 1..Len(ledger) : ledger[i] \in Entry
  BY <1>1
<1>4. \A i \in 1..Len(ledger) : row(i) \in Entry
  BY <1>2, <1>3, EntryFields
<1>5. ledger' = [i \in 1..Len(ledger) |-> row(i)]
  BY <1>3 DEF SettleEarnings
<1>6. /\ ledger' \in Seq(Entry) /\ Len(ledger') = Len(ledger)
      /\ \A i \in 1..Len(ledger) : ledger'[i] = row(i)
  <2> HIDE DEF row
  <2> QED BY <1>3, <1>4, <1>5
<1> QED BY <1>1, <1>6

\* What a goroutine that has begun knows.
LEMMA CallFields ==
  ASSUME TypeOK, NEW c \in Callers, ~Idle(c)
  PROVE  /\ call[c] \in Call
         /\ call[c].at \in {"fetch", "release", "credit"}
         /\ call[c].seller \in Sellers /\ call[c].amount \in Nat
         /\ call[c].plan \in Seq([id: Nat \ {0}, paid: Money])
         /\ call[c].rest \in Seq(Entry) /\ Len(call[c].plan) \in Nat
         /\ \A k \in 1..Len(call[c].plan) :
              call[c].plan[k].id \in Nat \ {0} /\ call[c].plan[k].paid \in Money
<1>1. call[c] \in Call
  BY DEF TypeOK, SellerTypeOK, Idle, NoCall
<1>2. call[c].plan \in Seq([id: Nat \ {0}, paid: Money])
  BY <1>1 DEF Call
<1>3. \A k \in 1..Len(call[c].plan) :
        call[c].plan[k].id \in Nat \ {0} /\ call[c].plan[k].paid \in Money
  <2> DEFINE R == [id: Nat \ {0}, paid: Money]
  <2>1. \A k \in 1..Len(call[c].plan) : call[c].plan[k] \in R
    <3> HIDE DEF R
    <3> QED BY <1>2, ElementOfSeq DEF R
  <2> QED BY <2>1
<1>4. /\ call[c].at \in {"fetch", "release", "credit"}
      /\ call[c].seller \in Sellers /\ call[c].amount \in Nat
      /\ call[c].rest \in Seq(Entry)
  BY <1>1 DEF Call
<1>5. Len(call[c].plan) \in Nat
  BY <1>2
<1> QED BY <1>1, <1>2, <1>3, <1>4, <1>5

\* The release writes the planned portions to the planned rows and inserts
\* the remainder.
LEMMA ReleaseEffect ==
  ASSUME TypeOK, NEW c \in Callers, ReleasePayout(c)
  PROVE  LET plan == call[c].plan
             rest == call[c].rest
         IN
         /\ ledger' \in Seq(Entry) /\ payouts' \in Seq(Payout)
         /\ Len(ledger') = Len(ledger) + Len(rest)
         /\ \A i \in 1..Len(ledger) :
              \/ ledger'[i] = ledger[i] /\ \A k \in 1..Len(plan) : plan[k].id # i
              \/ \E k \in 1..Len(plan) :
                   plan[k].id = i /\ ledger'[i] = Released(ledger[i], plan[k].paid, Len(payouts) + 1)
         /\ \A j \in 1..Len(rest) : ledger'[Len(ledger) + j] = rest[j]
         /\ payouts' = Append(payouts,
                [seller |-> call[c].seller, amount |-> call[c].amount,
                 net |-> Total([k \in 1..Len(plan) |-> plan[k].paid], "net")])
<1> DEFINE plan == call[c].plan
           rest == call[c].rest
           n == Len(plan)
           p == Len(payouts) + 1
           item(id) == CHOOSE k \in 1..n : plan[k].id = id
           row(id) == IF \E k \in 1..n : plan[k].id = id
                      THEN Released(ledger[id], plan[item(id)].paid, p)
                      ELSE ledger[id]
           released == [id \in 1..Len(ledger) |-> row(id)]
<1>1. /\ n \in Nat /\ \A k \in 1..n : plan[k].paid \in Money
      /\ rest \in Seq(Entry) /\ call[c].seller \in Sellers /\ call[c].amount \in Nat
  <2>1. ~Idle(c)
    BY DEF ReleasePayout, Idle
  <2> QED BY <2>1, CallFields
<1>2. /\ ledger \in Seq(Entry) /\ Len(ledger) \in Nat /\ DOMAIN ledger = 1..Len(ledger)
      /\ \A i \in 1..Len(ledger) : ledger[i] \in Entry
      /\ payouts \in Seq(Payout) /\ p \in Nat
  <2>1. ledger \in Seq(Entry) /\ payouts \in Seq(Payout)
    BY DEF TypeOK, SellerTypeOK
  <2> QED BY <2>1
<1>3. \A id : (\E k \in 1..n : plan[k].id = id) =>
        item(id) \in 1..n /\ plan[item(id)].id = id
  <2> HIDE DEF n, plan
  <2> QED OBVIOUS
<1>4. ledger' = released \o rest
  BY <1>2 DEF ReleasePayout
<1> HIDE DEF item, p
<1>5. \A i \in 1..Len(ledger) :
        \/ row(i) = ledger[i] /\ \A k \in 1..n : plan[k].id # i
        \/ \E k \in 1..n : plan[k].id = i /\ row(i) = Released(ledger[i], plan[k].paid, p)
  <2> HIDE DEF n, plan
  <2> QED BY <1>3
<1>6. \A i \in 1..Len(ledger) : row(i) \in Entry
  <2> HIDE DEF n, plan, row
  <2> QED BY <1>1, <1>2, <1>5, EntryFields
<1> HIDE DEF row
<1>7. /\ released \in Seq(Entry) /\ Len(released) = Len(ledger)
      /\ \A i \in 1..Len(ledger) : released[i] = row(i)
  BY <1>2, <1>6
<1> HIDE DEF released
<1>8. /\ ledger' \in Seq(Entry) /\ Len(ledger') = Len(ledger) + Len(rest)
      /\ \A i \in 1..Len(ledger) : ledger'[i] = row(i)
      /\ \A j \in 1..Len(rest) : ledger'[Len(ledger) + j] = rest[j]
  <2>1. rest \in Seq(Entry)
    BY <1>1
  <2> HIDE DEF rest
  <2>2. /\ released \o rest \in Seq(Entry)
        /\ Len(released \o rest) = Len(released) + Len(rest)
        /\ \A i \in 1..Len(released) : (released \o rest)[i] = released[i]
        /\ \A j \in 1..Len(rest) : (released \o rest)[Len(released) + j] = rest[j]
    BY <1>7, <2>1, LedgerGrows
  <2> QED BY <1>4, <1>7, <2>2
<1> DEFINE paid == [i \in 1..n |-> plan[i].paid]
           payout == [seller |-> call[c].seller, amount |-> call[c].amount,
                      net |-> Total(paid, "net")]
<1>9. payouts' \in Seq(Payout) /\ payouts' = Append(payouts, payout)
  <2>1. Len(paid) = n /\ \A i \in 1..n : paid[i] = plan[i].paid
    BY <1>1
  <2>2. \A m \in Money : m["net"] \in Int
    BY DEF Money
  <2>3. \A i \in 1..Len(paid) : paid[i]["net"] \in Int
    BY <1>1, <2>1, <2>2
  <2>4. Total(paid, "net") \in Int
    <3> HIDE DEF paid
    <3> QED BY <1>1, <2>1, <2>3, TotalInt
  <2>5. payouts' = Append(payouts, payout)
    BY DEF ReleasePayout
  <2>6. payout \in Payout
    <3> HIDE DEF paid
    <3> QED BY <1>1, <2>4 DEF Payout
  <2> HIDE DEF payout
  <2> QED BY <1>2, <2>5, <2>6
<1> QED BY <1>5, <1>8, <1>9 DEF p

\* Funding ads inserts the entry that was prepared.
LEMMA CreditEffect ==
  ASSUME TypeOK, NEW c \in Callers, CommitAdCredit(c)
  PROVE  LET rest == call[c].rest IN
         /\ ledger' \in Seq(Entry) /\ Len(ledger') = Len(ledger) + Len(rest)
         /\ \A i \in 1..Len(ledger) : ledger'[i] = ledger[i]
         /\ \A j \in 1..Len(rest) : ledger'[Len(ledger) + j] = rest[j]
<1>1. ~Idle(c) /\ ledger' = ledger \o call[c].rest
  BY DEF CommitAdCredit, Idle
<1>2. call[c].rest \in Seq(Entry) /\ ledger \in Seq(Entry)
  BY <1>1, CallFields DEF TypeOK, SellerTypeOK
<1> QED BY <1>1, <1>2, LedgerGrows

\* The rows that are read are the seller's earned entries,
LEMMA EarnedRows ==
  ASSUME TypeOK, NEW s, NEW q \in EarnedInOrder(s)
  PROVE  /\ Len(q) \in Nat
         /\ \A i \in 1..Len(q) :
              /\ q[i] \in 1..Len(ledger) /\ ledger[q[i]] \in Entry
              /\ ledger[q[i]].seller = s /\ ledger[q[i]].status = "earned"
         /\ \A i, j \in 1..Len(q) : q[i] = q[j] => i = j
<1> DEFINE E == EntriesOf(s, "earned")
<1>1. ledger \in Seq(Entry)
  BY DEF TypeOK, SellerTypeOK
<1>2. IsFiniteSet(1..Len(ledger)) /\ E \subseteq 1..Len(ledger)
  BY <1>1, FS_Interval DEF EntriesOf
<1>3. Cardinality(E) \in Nat
  <2> HIDE DEF E
  <2> QED BY <1>2, FS_Subset, FS_CardinalityType
<1>4. /\ q \in [1..Cardinality(E) -> E]
      /\ \A i, j \in 1..Cardinality(E) : i # j => q[i] # q[j]
  BY DEF EarnedInOrder, SetToSeqs
<1>5. /\ Len(q) = Cardinality(E) /\ \A i \in 1..Len(q) : q[i] \in E
      /\ \A i, j \in 1..Len(q) : q[i] = q[j] => i = j
  <2> HIDE DEF E
  <2> QED BY <1>3, <1>4
<1> QED BY <1>1, <1>3, <1>5 DEF EntriesOf

\* ... and the plan made of them pays the first of these, each whole but
\* perhaps the last, whose remainder is then to be inserted.
LEMMA FetchEffect ==
  ASSUME TypeOK, NEW c \in Callers, FetchEarned(c)
  PROVE  /\ call' = [call EXCEPT ![c] = call'[c]]
         /\ call'[c] \in Call /\ call'[c].at = "release"
         /\ call'[c].seller = call[c].seller
         /\ LET plan == call'[c].plan
                rest == call'[c].rest
                n    == Len(plan)
            IN
            /\ n \in Nat
            /\ \A k \in 1..n :
                 /\ plan[k].id \in 1..Len(ledger)
                 /\ ledger[plan[k].id].seller = call[c].seller
                 /\ ledger[plan[k].id].status = "earned"
                 /\ (k < n \/ rest = <<>>) => plan[k].paid = Whole(ledger[plan[k].id])
            /\ \A j, k \in 1..n : plan[j].id = plan[k].id => j = k
            /\ rest # <<>> =>
                 /\ n > 0 /\ Len(rest) = 1 /\ plan[n].paid.net > 0
                 /\ rest[1].net = ledger[plan[n].id].net - plan[n].paid.net
                 /\ rest[1].net > 0
                 /\ rest[1].seller = ledger[plan[n].id].seller
                 /\ rest[1].order = ledger[plan[n].id].order
                 /\ rest[1].born = ledger[plan[n].id].born
                 /\ rest[1].status = "earned" /\ rest[1].payout = 0
<1> DEFINE amount == call[c].amount
           s == call[c].seller
<1>1. PICK ids \in EarnedInOrder(s) :
        LET entries == [i \in 1..Len(ids) |-> ledger[ids[i]]]
            alloc   == Allocate(entries, amount)
            n       == Len(alloc.paid)
        IN
        call' = [call EXCEPT ![c].at = "release",
                             ![c].plan = [i \in 1..n |->
                                            [id |-> ids[i], paid |-> alloc.paid[i]]],
                             ![c].rest = IF alloc.split
                                         THEN RestOf(entries[n], alloc.paid[n])
                                         ELSE <<>>]
  BY DEF FetchEarned
<1> DEFINE entries == [i \in 1..Len(ids) |-> ledger[ids[i]]]
           alloc == Allocate(entries, amount)
           n == Len(alloc.paid)
           plan == [i \in 1..n |-> [id |-> ids[i], paid |-> alloc.paid[i]]]
           rest == IF alloc.split THEN RestOf(entries[n], alloc.paid[n]) ELSE <<>>
           made == [call[c] EXCEPT !.at = "release", !.plan = plan, !.rest = rest]
<1>2. call' = [call EXCEPT ![c] = made]
  <2>1. \A p, r : [call EXCEPT ![c].at = "release", ![c].plan = p, ![c].rest = r]
                 = [call EXCEPT ![c] = [call[c] EXCEPT !.at = "release", !.plan = p, !.rest = r]]
    BY DEF TypeOK, SellerTypeOK
  <2>2. call' = [call EXCEPT ![c].at = "release", ![c].plan = plan, ![c].rest = rest]
    BY <1>1
  <2> HIDE DEF plan, rest
  <2> QED BY <2>1, <2>2
<1>3. call[c] \in Call /\ amount \in Nat /\ s \in Sellers
  <2>1. ~Idle(c)
    BY DEF FetchEarned, Idle
  <2> QED BY <2>1, CallFields
<1>4. /\ Len(ids) \in Nat
      /\ \A i \in 1..Len(ids) :
           /\ ids[i] \in 1..Len(ledger) /\ ledger[ids[i]] \in Entry
           /\ ledger[ids[i]].seller = s /\ ledger[ids[i]].status = "earned"
      /\ \A i, j \in 1..Len(ids) : ids[i] = ids[j] => i = j
  BY EarnedRows
<1>5. /\ Len(entries) = Len(ids)
      /\ \A i \in 1..Len(ids) : entries[i] = ledger[ids[i]] /\ entries[i] \in Entry
  BY <1>4
<1>6. \A i \in 1..Len(entries) :
        entries[i].gross \in Int /\ entries[i].fee \in Int /\ entries[i].net \in Int
  <2> HIDE DEF entries
  <2> QED BY <1>5, EntryFields
<1>7. /\ alloc.paid \in Seq(Money) /\ n \in 0..Len(entries) /\ alloc.split \in BOOLEAN
      /\ \A k \in 1..n : (k < n \/ ~alloc.split) => alloc.paid[k] = Whole(entries[k])
      /\ alloc.split => n > 0 /\ alloc.paid[n].net > 0 /\ alloc.paid[n].net < entries[n].net
  <2>1. Len(entries) \in Nat
    BY <1>4, <1>5
  <2> HIDE DEF entries, amount
  <2> QED BY <1>3, <1>6, <2>1, AllocateSound
<1> HIDE DEF entries, alloc, s, amount
<1>8. /\ n \in Nat /\ n <= Len(ids)
      /\ \A k \in 1..n : alloc.paid[k] \in Money /\ k \in 1..Len(ids)
  BY <1>4, <1>5, <1>7
<1> HIDE DEF n
<1>9. /\ Len(plan) = n
      /\ \A k \in 1..n : plan[k].id = ids[k] /\ plan[k].paid = alloc.paid[k]
  BY <1>8
<1>o. \A j, k \in 1..n : plan[j].id = plan[k].id => j = k
  <2> HIDE DEF plan
  <2> QED BY <1>4, <1>8, <1>9
<1>p. ASSUME NEW k \in 1..n
      PROVE  /\ plan[k].id = ids[k] /\ plan[k].id \in 1..Len(ledger)
             /\ ledger[plan[k].id].seller = s /\ ledger[plan[k].id].status = "earned"
             /\ (k < n \/ ~alloc.split) => plan[k].paid = Whole(ledger[plan[k].id])
  <2> HIDE DEF plan
  <2>1. plan[k].id = ids[k] /\ plan[k].paid = alloc.paid[k]
    BY <1>9
  <2>2. k \in 1..Len(ids)
    BY <1>8
  <2>3. /\ ids[k] \in 1..Len(ledger)
        /\ ledger[ids[k]].seller = s /\ ledger[ids[k]].status = "earned"
    BY <1>4, <2>2
  <2>4. (k < n \/ ~alloc.split) => alloc.paid[k] = Whole(ledger[ids[k]])
    <3>1. entries[k] = ledger[ids[k]]
      BY <1>5, <2>2
    <3>2. (k < n \/ ~alloc.split) => alloc.paid[k] = Whole(entries[k])
      BY <1>7
    <3> QED BY <3>1, <3>2
  <2> QED BY <2>1, <2>3, <2>4
<1>10. plan \in Seq([id: Nat \ {0}, paid: Money])
  <2>1. \A k \in 1..n : ids[k] \in Nat \ {0}
    BY <1>4, <1>8
  <2> DEFINE R == [id: Nat \ {0}, paid: Money]
  <2>2. n \in Nat /\ \A k \in 1..n : [id |-> ids[k], paid |-> alloc.paid[k]] \in R
    BY <1>8, <2>1
  <2>3. plan \in Seq(R)
    <3> HIDE DEF R
    <3> QED BY <2>2
  <2> QED BY <2>3
<1>11. CASE alloc.split
  <2> DEFINE e == entries[n]
             m == alloc.paid[n]
             left == Remainder(e, m)
             row == [e EXCEPT !.gross = left.gross, !.fee = left.fee, !.net = left.net,
                              !.payout = 0]
  <2>1. rest = <<row>>
    BY <1>11 DEF RestOf
  <2>2. /\ n \in 1..Len(ids) /\ n \in 1..n /\ e \in Entry /\ m \in Money
        /\ m.net > 0 /\ m.net < e.net /\ e = ledger[ids[n]] /\ e.status = "earned"
    BY <1>4, <1>5, <1>7, <1>8, <1>11
  <2>3. /\ left.gross \in Int /\ left.fee \in Int /\ left.net \in Int
        /\ left.net = e.net - m.net
    <3>1. e.gross \in Int /\ e.fee \in Int /\ e.net \in Int
      BY <2>2, EntryFields
    <3>2. m.gross \in Int /\ m.fee \in Int /\ m.net \in Int
      BY <2>2 DEF Money
    <3> HIDE DEF e, m
    <3> QED BY <3>1, <3>2 DEF Remainder
  <2>4. left.net > 0
    <3>1. e.net \in Int /\ m.net \in Int
      BY <2>2, EntryFields DEF Money
    <3> HIDE DEF e, m, left
    <3> QED BY <2>2, <2>3, <3>1
  <2> HIDE DEF e, m, left
  <2>5. /\ row \in Entry /\ row.net = left.net /\ row.seller = e.seller
        /\ row.order = e.order /\ row.born = e.born /\ row.status = e.status
        /\ row.payout = 0
    BY <2>2, <2>3 DEF Entry
  <2> HIDE DEF row
  <2>6. rest \in Seq(Entry) /\ Len(rest) = 1 /\ rest[1] = row
    <3> HIDE DEF rest
    <3> QED BY <2>1, <2>5
  <2> HIDE DEF rest, plan
  <2>7. /\ made \in Call /\ made.at = "release" /\ made.seller = s
        /\ made.plan = plan /\ made.rest = rest
    BY <1>3, <1>10, <2>6 DEF Call, s
  <2> HIDE DEF made
  <2>8. call'[c] = made /\ call' = [call EXCEPT ![c] = call'[c]]
    BY <1>2 DEF TypeOK, SellerTypeOK
  <2>9. \A k \in 1..n :
          /\ plan[k].id \in 1..Len(ledger) /\ ledger[plan[k].id].seller = s
          /\ ledger[plan[k].id].status = "earned"
          /\ k < n => plan[k].paid = Whole(ledger[plan[k].id])
    BY <1>p
  <2>10. /\ n > 0 /\ Len(rest) = 1 /\ rest # <<>> /\ rest[1].net > 0 /\ plan[n].paid.net > 0
         /\ rest[1].net = ledger[plan[n].id].net - plan[n].paid.net
         /\ rest[1].seller = ledger[plan[n].id].seller
         /\ rest[1].order = ledger[plan[n].id].order
         /\ rest[1].born = ledger[plan[n].id].born
         /\ rest[1].status = "earned" /\ rest[1].payout = 0
    <3>1. plan[n].id = ids[n] /\ plan[n].paid = m /\ ledger[ids[n]] = e /\ n > 0
      BY <1>8, <1>9, <2>2 DEF m
    <3>2. Len(rest) = 1 /\ rest[1] = row /\ rest # <<>>
      BY <2>6
    <3> QED BY <2>2, <2>3, <2>4, <2>5, <3>1, <3>2
  <2>11. /\ call'[c].plan = plan /\ call'[c].rest = rest /\ call'[c] \in Call
         /\ call'[c].at = "release" /\ call'[c].seller = s
    BY <2>7, <2>8
  <2> QED BY <1>8, <1>9, <1>o, <2>8, <2>9, <2>10, <2>11 DEF s
<1>12. CASE ~alloc.split
  <2>1. rest = <<>> /\ rest \in Seq(Entry)
    BY <1>12
  <2> HIDE DEF plan, rest
  <2>2. /\ made \in Call /\ made.at = "release" /\ made.seller = s
        /\ made.plan = plan /\ made.rest = rest
    BY <1>3, <1>10, <2>1 DEF Call, s
  <2> HIDE DEF made
  <2>3. call'[c] = made /\ call' = [call EXCEPT ![c] = call'[c]]
    BY <1>2 DEF TypeOK, SellerTypeOK
  <2>4. \A k \in 1..n :
          /\ plan[k].id \in 1..Len(ledger) /\ ledger[plan[k].id].seller = s
          /\ ledger[plan[k].id].status = "earned"
          /\ plan[k].paid = Whole(ledger[plan[k].id])
    BY <1>p, <1>12
  <2> QED BY <1>8, <1>9, <1>o, <2>1, <2>2, <2>3, <2>4 DEF s
<1> QED BY <1>7, <1>11, <1>12

-----------------------------------------------------------------------------
(* Types.                                                                   *)

UsedOK == \A what \in DOMAIN used : used[what] \in 0..Bound[what]

\* TypeOK by its parts.
LEMMA SellerParts ==
  TypeOK <=> OrderTyped /\ SellerTypeOK /\ UsedOK
BY DEF TypeOK, OrderTyped, UsedOK

\* A bound that is not used up is a little more used up.
LEMMA UsesOK ==
  ASSUME UsedOK, NEW what \in {"news", "updates", "calls", "faults"}, Uses(what)
  PROVE  UsedOK'
<1>1. Bound[what] \in Nat
  BY SaleAmounts DEF Bound
<1>2. used[what] < Bound[what] /\ used' = [used EXCEPT ![what] = used[what] + 1]
  BY DEF Uses
<1>3. DOMAIN used' = DOMAIN used
  BY <1>2
<1>4. ASSUME NEW w \in DOMAIN used
      PROVE  used'[w] \in 0..Bound[w]
  <2>1. CASE w = what
    BY <1>1, <1>2, <2>1 DEF UsedOK
  <2>2. CASE w # what
    BY <1>2, <2>2 DEF UsedOK
  <2> QED BY <2>1, <2>2
<1> QED BY <1>3, <1>4 DEF UsedOK, Bound

\* At the start the tables are empty.
LEMMA SellerInitType == Init => TypeOK
<1> SUFFICES ASSUME Init PROVE TypeOK
  OBVIOUS
<1>1. OrderTyped
  BY OrderInitType DEF Init
<1>2. SellerTypeOK
  BY DEF Init, SellerInit, SellerTypeOK
<1>3. UsedOK
  <2>1. /\ used["news"] = 0 /\ used["updates"] = 0 /\ used["calls"] = 0 /\ used["faults"] = 0
        /\ DOMAIN used = {"news", "updates", "calls", "faults"}
    BY DEF Init
  <2>2. /\ Bound["news"] \in Nat /\ Bound["updates"] \in Nat
        /\ Bound["calls"] \in Nat /\ Bound["faults"] \in Nat
    BY SaleAmounts DEF Bound
  <2>3. \A b \in Nat : 0 \in 0..b
    OBVIOUS
  <2> QED BY <2>1, <2>2, <2>3 DEF UsedOK
<1> QED BY <1>1, <1>2, <1>3, SellerParts

\* The tables but the ledger, and the goroutines, after a step of the sellers'
\* service.
LEMMA CallKept ==
  ASSUME TypeOK, NEW c \in Callers, NEW new \in Call \cup {NoCall},
         call' = [call EXCEPT ![c] = new]
  PROVE  /\ call' \in [Callers -> Call \cup {NoCall}] /\ call'[c] = new
         /\ \A d \in Callers \ {c} : call'[d] = call[d]
BY DEF TypeOK, SellerTypeOK

\* The worker's steps keep seller-service's tables well typed.
LEMMA WorkerTypes ==
  ASSUME TypeOK, HandleOrderConfirmed \/ HandleOrderItemUpdated \/ SettleEarnings \/ AbortSettling
  PROVE  SellerTypeOK' /\ nats' \in NatsType
<1>0. OrderTyped /\ SellerTypeOK
  BY SellerParts
<1>1. CASE HandleOrderConfirmed
  <2>1. ledger' \in Seq(Entry)
    BY <1>1, ConfirmedEffect
  <2>2. nats' \in NatsType
    BY <1>0, <1>1, TakenType DEF HandleOrderConfirmed, Subjects, OrderTyped
  <2> QED BY <1>0, <1>1, <2>1, <2>2 DEF HandleOrderConfirmed, SellerTypeOK
<1>2. CASE HandleOrderItemUpdated
  <2> DEFINE m == Head(nats.updated)
             st == EarningStatusFor(m.status)
             ids == {i \in DOMAIN ledger : ledger[i].order = m.order /\ ledger[i].seller = m.seller}
  <2>1. nats' \in NatsType
    BY <1>0, <1>2, TakenType DEF HandleOrderItemUpdated, Subjects, OrderTyped
  <2>2. m \in UpdatedMsg
    BY <1>0, <1>2 DEF HandleOrderItemUpdated, Pending, OrderTyped, NatsType
  <2>3. m.seller \in Sellers
    BY <2>2 DEF UpdatedMsg
  <2>4. st # "none" => st \in EarningStatus
    BY DEF EarningStatusFor, EarningStatus
  <2>5. ids \subseteq Nat \ {0}
    BY <1>0 DEF SellerTypeOK
  <2>6. settling' = IF st = "none" THEN NoSettling
                    ELSE [seller |-> m.seller, status |-> st, ids |-> ids]
    BY <1>2 DEF HandleOrderItemUpdated
  <2> HIDE DEF m, st, ids
  <2>7. settling' \in Settling \cup {NoSettling}
    BY <2>3, <2>4, <2>5, <2>6 DEF Settling
  <2> QED BY <1>0, <1>2, <2>1, <2>7 DEF HandleOrderItemUpdated, SellerTypeOK
<1>3. CASE SettleEarnings
  <2>1. ledger' \in Seq(Entry) /\ settling \in Settling
    BY <1>3, SettleEffect
  <2>2. sales' \in [Sellers -> Nat]
    <3>1. settling.seller \in Sellers
      BY <2>1 DEF Settling
    <3> QED BY <1>0, <1>3, <3>1 DEF SettleEarnings, SellerTypeOK
  <2> QED BY <1>0, <1>3, <2>1, <2>2 DEF SettleEarnings, SellerTypeOK, OrderTyped
<1>4. CASE AbortSettling
  BY <1>0, <1>4 DEF AbortSettling, SellerTypeOK, OrderTyped
<1> QED BY <1>1, <1>2, <1>3, <1>4

\* So do the steps that begin an RPC,
LEMMA AskTypes ==
  ASSUME TypeOK, NEW c \in Callers, NEW s \in Sellers, NEW amount \in Amounts,
         CreatePayout(c, s, amount) \/ AddAdCredit(c, s, amount)
  PROVE  SellerTypeOK' /\ nats' = nats
<1>0. SellerTypeOK /\ amount \in Nat
  BY SellerParts, SaleAmounts
<1>1. CASE CreatePayout(c, s, amount)
  <2> DEFINE new == [at |-> "fetch", seller |-> s, amount |-> amount,
                     plan |-> <<>>, rest |-> <<>>]
  <2>1. new \in Call
    BY <1>0 DEF Call
  <2>2. call' = [call EXCEPT ![c] = new]
    BY <1>1 DEF CreatePayout
  <2> HIDE DEF new
  <2>3. call' \in [Callers -> Call \cup {NoCall}]
    BY <2>1, <2>2, CallKept
  <2> QED BY <1>0, <1>1, <2>3 DEF CreatePayout, SellerTypeOK
<1>2. CASE AddAdCredit(c, s, amount)
  <2> DEFINE entry == [seller |-> s, order |-> NoOrder, status |-> "earned",
                       gross |-> -amount, fee |-> 0, net |-> -amount,
                       born |-> Len(ledger) + 1, payout |-> 0]
             new == [at |-> "credit", seller |-> s, amount |-> amount, plan |-> <<>>,
                     rest |-> <<entry>>]
  <2>1. Len(ledger) + 1 \in Nat \ {0} /\ -amount \in Int
    BY <1>0 DEF SellerTypeOK
  <2>2. entry \in Entry
    BY <2>1 DEF Entry, EarningStatus
  <2>3. call' = [call EXCEPT ![c] = new]
    BY <1>2 DEF AddAdCredit
  <2> HIDE DEF entry
  <2>4. new \in Call
    BY <1>0, <2>2 DEF Call
  <2> HIDE DEF new
  <2>5. call' \in [Callers -> Call \cup {NoCall}]
    BY <2>3, <2>4, CallKept
  <2> QED BY <1>0, <1>2, <2>5 DEF AddAdCredit, SellerTypeOK
<1>3. nats' = nats
  BY DEF CreatePayout, AddAdCredit
<1> QED BY <1>1, <1>2, <1>3

\* ... the one that is done at once,
LEMMA GrantTypes ==
  ASSUME TypeOK, NEW s \in Sellers, NEW amount \in Amounts, GrantAdCredit(s, amount)
  PROVE  SellerTypeOK' /\ nats' = nats
<1>0. SellerTypeOK /\ amount \in Nat
  BY SellerParts, SaleAmounts
<1> QED BY <1>0 DEF GrantAdCredit, SellerTypeOK

\* ... and those that one that has begun goes on with.
LEMMA CallTypes ==
  ASSUME TypeOK, NEW c \in Callers, CallStep(c) \/ AbortCall(c)
  PROVE  SellerTypeOK' /\ nats' = nats
<1>0. SellerTypeOK
  BY SellerParts
<1>1. CASE FetchEarned(c)
  <2>1. call' \in [Callers -> Call \cup {NoCall}]
    BY <1>1, FetchEffect, CallKept
  <2> QED BY <1>0, <1>1, <2>1 DEF FetchEarned, SellerTypeOK
<1>2. CASE ReleasePayout(c)
  <2>1. ledger' \in Seq(Entry) /\ payouts' \in Seq(Payout)
    BY <1>2, ReleaseEffect
  <2>2. call' \in [Callers -> Call \cup {NoCall}]
    BY <1>2, CallKept DEF ReleasePayout
  <2> QED BY <1>0, <1>2, <2>1, <2>2 DEF ReleasePayout, SellerTypeOK
<1>3. CASE CommitAdCredit(c)
  <2>1. ledger' \in Seq(Entry)
    BY <1>3, CreditEffect
  <2>2. call' \in [Callers -> Call \cup {NoCall}]
    BY <1>3, CallKept DEF CommitAdCredit
  <2>3. call[c].seller \in Sellers /\ call[c].amount \in Nat
    BY <1>3, CallFields DEF CommitAdCredit, Idle
  <2>4. adCredit' \in [Sellers -> Nat]
    BY <1>0, <1>3, <2>3 DEF CommitAdCredit, SellerTypeOK
  <2> QED BY <1>0, <1>3, <2>1, <2>2, <2>4 DEF CommitAdCredit, SellerTypeOK
<1>4. CASE AbortCall(c)
  <2>1. call' \in [Callers -> Call \cup {NoCall}]
    BY <1>4, CallKept DEF AbortCall
  <2> QED BY <1>0, <1>4, <2>1 DEF AbortCall, SellerTypeOK
<1>5. nats' = nats
  BY DEF CallStep, FetchEarned, ReleasePayout, CommitAdCredit, AbortCall
<1> QED BY <1>1, <1>2, <1>3, <1>4, <1>5 DEF CallStep

\* Every step is one of order-service or of the bus, which leaves the tables of
\* seller-service alone, one of its worker, or one of its RPCs.
SellersRest == UNCHANGED sellerVars

\* The steps that leave the tables of seller-service alone keep the types.
LEMMA OtherTypes ==
  ASSUME TypeOK, OrderNext \/ PaymentNext \/ MessageLost \/ OrderServiceDies
  PROVE  TypeOK' /\ SellersRest
<1>0. OrderTyped /\ SellerTypeOK /\ UsedOK
  BY SellerParts
<1>t. ASSUME OrderTyped', SellersRest, UsedOK' PROVE TypeOK' /\ SellersRest
  <2>1. SellerTypeOK'
    BY <1>0, <1>t DEF SellersRest, sellerVars, SellerTypeOK
  <2> QED BY <1>t, <2>1 DEF TypeOK, OrderTyped, UsedOK
<1>u. ASSUME UNCHANGED used PROVE UsedOK'
  BY <1>0, <1>u DEF UsedOK
<1> USE DEF SellersRest
<1>1. ASSUME NEW o \in Orders, NEW total \in Totals, PlaceOrder(o, total)
      PROVE  TypeOK' /\ SellersRest
  <2>1. OrderTyped'
    BY <1>0, <1>1, TotalsAssumption, CheckoutType DEF PlaceOrder, Token
  <2> QED BY <1>1, <1>t, <1>u, <2>1 DEF PlaceOrder
<1>2. ASSUME NEW o \in Orders, CustomerCancels(o) PROVE TypeOK' /\ SellersRest
  <2>1. OrderTyped'
    BY <1>0, <1>2, CancelOrderType DEF CustomerCancels
  <2> QED BY <1>2, <1>t, <1>u, <2>1 DEF CustomerCancels
<1>3. ASSUME NEW o \in Orders, NEW s \in Sellers, NEW st \in ItemStatuses,
             SellerUpdates(o, s, st)
      PROVE  TypeOK' /\ SellersRest
  <2>1. OrderTyped'
    BY <1>0, <1>3, SaleAmounts, UpdateItemType DEF SellerUpdates
  <2> QED BY <1>0, <1>3, <1>t, <2>1, UsesOK DEF SellerUpdates
<1>4. CASE OnCompleted
  BY <1>0, <1>4, <1>t, <1>u, PaymentCompletedType DEF OnCompleted
<1>5. CASE OnFailed
  BY <1>0, <1>5, <1>t, <1>u, PaymentFailedType DEF OnFailed
<1>6. ASSUME NEW p \in unsent, OrderPublishes(p) PROVE TypeOK' /\ SellersRest
  <2>1. OrderTyped'
    BY <1>0, <1>6, PublishOrderType DEF OrderPublishes
  <2> QED BY <1>6, <1>t, <1>u, <2>1 DEF OrderPublishes
<1>7. ASSUME NEW o \in Orders, NEW subject \in {"completed", "failed"},
             PaymentAnnounces(o, subject)
      PROVE  TypeOK' /\ SellersRest
  <2>1. nats' \in NatsType
    BY <1>0, <1>7, PublishedType DEF PaymentAnnounces, OrderTyped
  <2>2. OrderTyped'
    BY <1>0, <1>7, <2>1 DEF PaymentAnnounces, orderVars, OrderTyped, OrderTypeOK
  <2> QED BY <1>0, <1>7, <1>t, <2>2, UsesOK DEF PaymentAnnounces
<1>8. ASSUME NEW subject \in {"created", "cancelled"}, PaymentTakes(subject)
      PROVE  TypeOK' /\ SellersRest
  <2>1. nats' \in NatsType
    BY <1>0, <1>8, TakenType DEF PaymentTakes, Subjects, OrderTyped
  <2>2. OrderTyped'
    BY <1>0, <1>8, <2>1 DEF PaymentTakes, orderVars, OrderTyped, OrderTypeOK
  <2> QED BY <1>8, <1>t, <1>u, <2>2 DEF PaymentTakes
<1>9. CASE MessageLost
  <2>1. nats' \in NatsType
    BY <1>0, <1>9, TakenType DEF MessageLost, NatsLose, Subjects, OrderTyped
  <2>2. OrderTyped'
    BY <1>0, <1>9, <2>1 DEF MessageLost, orderVars, OrderTyped, OrderTypeOK
  <2> QED BY <1>0, <1>9, <1>t, <2>2, UsesOK DEF MessageLost
<1>10. CASE OrderServiceDies
  <2>1. OrderTyped'
    BY <1>0, <1>10, LoseOrderType DEF OrderServiceDies
  <2> QED BY <1>0, <1>10, <1>t, <2>1, UsesOK DEF OrderServiceDies
<1> HIDE DEF SellersRest
<1>11. CASE OrderNext
  BY <1>11, <1>1, <1>2, <1>3, <1>4, <1>5, <1>6 DEF OrderNext
<1>12. CASE PaymentNext
  BY <1>12, <1>7, <1>8 DEF PaymentNext
<1> QED BY <1>9, <1>10, <1>11, <1>12

\* The steps of seller-service, one by one; every other step leaves its tables
\* alone.
SellerStep ==
  \/ HandleOrderConfirmed
  \/ HandleOrderItemUpdated
  \/ SettleEarnings
  \/ AbortSettling
  \/ \E c \in Callers, s \in Sellers, a \in Amounts :
       CreatePayout(c, s, a) \/ AddAdCredit(c, s, a)
  \/ \E s \in Sellers, a \in Amounts : GrantAdCredit(s, a)
  \/ \E c \in Callers : FetchEarned(c) \/ ReleasePayout(c) \/ CommitAdCredit(c) \/ AbortCall(c)

\* Every step keeps the types, and is a step of seller-service or of another.
LEMMA SellerTypeStep ==
  ASSUME TypeOK, [Next]_vars
  PROVE  TypeOK' /\ (SellerStep \/ SellersRest)
<1>0. OrderTyped /\ SellerTypeOK /\ UsedOK
  BY SellerParts
<1>t. ASSUME SellerTypeOK', nats' \in NatsType, UNCHANGED orderVars, UsedOK'
      PROVE  TypeOK'
  BY <1>0, <1>t DEF TypeOK, OrderTyped, OrderTypeOK, orderVars, UsedOK
<1>u. ASSUME UNCHANGED used PROVE UsedOK'
  BY <1>0, <1>u DEF UsedOK
<1>n. nats \in NatsType
  BY <1>0 DEF OrderTyped
<1>1. CASE UNCHANGED vars
  <2>1. SellerTypeOK' /\ SellersRest
    BY <1>0, <1>1 DEF vars, sellerVars, SellerTypeOK, SellersRest
  <2> QED BY <1>1, <1>t, <1>u, <1>n, <2>1 DEF vars
<1>2. CASE OrderNext \/ PaymentNext \/ MessageLost \/ OrderServiceDies
  BY <1>2, OtherTypes
<1>3. CASE OnConfirmed \/ OnUpdated \/ Settles
  <2>1. /\ HandleOrderConfirmed \/ HandleOrderItemUpdated \/ SettleEarnings
        /\ UNCHANGED <<orderVars, used>>
    BY <1>3 DEF OnConfirmed, OnUpdated, Settles
  <2> QED BY <1>t, <1>u, <2>1, WorkerTypes DEF SellerStep
<1>4. CASE UpdateCutShort
  <2>1. Uses("faults") /\ AbortSettling /\ UNCHANGED orderVars
    BY <1>4 DEF UpdateCutShort
  <2> QED BY <1>0, <1>t, <2>1, WorkerTypes, UsesOK DEF SellerStep
<1>5. ASSUME NEW c \in Callers, NEW s \in Sellers, NEW a \in Amounts,
             RequestsPayout(c, s, a) \/ FundsAds(c, s, a)
      PROVE  TypeOK' /\ SellerStep
  <2>1. Uses("calls") /\ (CreatePayout(c, s, a) \/ AddAdCredit(c, s, a)) /\ UNCHANGED orderVars
    BY <1>5 DEF RequestsPayout, FundsAds
  <2> QED BY <1>0, <1>t, <1>n, <2>1, AskTypes, UsesOK DEF SellerStep
<1>6. ASSUME NEW s \in Sellers, NEW a \in Amounts, GrantsAds(s, a)
      PROVE  TypeOK' /\ SellerStep
  <2>1. Uses("calls") /\ GrantAdCredit(s, a) /\ UNCHANGED orderVars
    BY <1>6 DEF GrantsAds
  <2> QED BY <1>0, <1>t, <1>n, <2>1, GrantTypes, UsesOK DEF SellerStep
<1>7. ASSUME NEW c \in Callers, Proceeds(c)
      PROVE  TypeOK' /\ SellerStep
  <2>1. CallStep(c) /\ UNCHANGED <<orderVars, used>>
    BY <1>7 DEF Proceeds
  <2> QED BY <1>t, <1>u, <1>n, <2>1, CallTypes DEF SellerStep, CallStep
<1>8. ASSUME NEW c \in Callers, CallCutShort(c)
      PROVE  TypeOK' /\ SellerStep
  <2>1. Uses("faults") /\ AbortCall(c) /\ UNCHANGED orderVars
    BY <1>8 DEF CallCutShort
  <2> QED BY <1>0, <1>t, <1>n, <2>1, CallTypes, UsesOK DEF SellerStep
<1> QED BY <1>1, <1>2, <1>3, <1>4, <1>5, <1>6, <1>7, <1>8 DEF Next, SellerNext, Fault

\* The tables, the bus and the goroutines of order-service and seller-service
\* hold what their columns and fields can hold.
THEOREM SellerTyped == Spec => []TypeOK
<1>1. TypeOK /\ [Next]_vars => TypeOK'
  BY SellerTypeStep
<1> QED BY <1>1, SellerInitType, PTL DEF Spec

-----------------------------------------------------------------------------
(* The rows of the ledger, and what the goroutines know of them.              *)

\* A planned release is of rows that exist and are the caller's; a remainder
\* belongs to the last of them, and is never older than it was.  An entry for
\* ads is of no order.
PlanSound(c) ==
  LET plan == call[c].plan
      rest == call[c].rest
      n    == Len(plan)
  IN
  /\ call[c].at = "release" =>
       /\ \A k \in 1..n : plan[k].id \in Ids /\ ledger[plan[k].id].seller = call[c].seller
       /\ rest # <<>> =>
            /\ n > 0 /\ Len(rest) = 1 /\ rest[1].net > 0
            /\ rest[1].order = ledger[plan[n].id].order
            /\ rest[1].seller = ledger[plan[n].id].seller
            /\ rest[1].born <= Len(ledger)
  /\ call[c].at = "credit" =>
       Len(rest) = 1 /\ rest[1].order = NoOrder /\ rest[1].born <= Len(ledger) + 1

\* The rows found for a settling update are all of one order and seller, and
\* become earned or refunded.
SettlingSound ==
  settling # NoSettling =>
    /\ settling.ids \subseteq Ids /\ settling.status \in {"earned", "refunded"}
    /\ \E o \in Orders : \A i \in settling.ids :
         ledger[i].order = o /\ ledger[i].seller = settling.seller

BornSound == \A i \in Ids : ledger[i].born <= i

Shape == BornSound /\ SettlingSound /\ \A c \in Callers : PlanSound(c)

\* Rows are neither removed nor moved, and what they are about does not change.
Lasting ==
  /\ Len(ledger') >= Len(ledger)
  /\ \A i \in Ids : /\ ledger'[i].seller = ledger[i].seller
                    /\ ledger'[i].order = ledger[i].order
                    /\ ledger'[i].born = ledger[i].born

\* The ledger's length is a number and its rows are entries.
LEMMA LedgerRows ==
  ASSUME TypeOK
  PROVE  /\ Len(ledger) \in Nat /\ Ids = 1..Len(ledger) /\ DOMAIN ledger = Ids
         /\ \A i \in Ids : ledger[i] \in Entry /\ i \in Nat /\ ledger[i].born \in Nat
<1>1. ledger \in Seq(Entry)
  BY DEF TypeOK, SellerTypeOK
<1>2. \A i \in 1..Len(ledger) : ledger[i] \in Entry
  BY <1>1
<1> QED BY <1>1, <1>2, EntryFields DEF Ids

\* Every step of seller-service lets the rows last.
LEMMA LastingStep ==
  ASSUME TypeOK, SellerStep \/ SellersRest
  PROVE  Lasting
<1>0. /\ Len(ledger) \in Nat /\ Ids = 1..Len(ledger)
      /\ \A i \in Ids : ledger[i] \in Entry
  BY LedgerRows
<1>k. ASSUME UNCHANGED ledger PROVE Lasting
  BY <1>0, <1>k DEF Lasting
<1>1. CASE HandleOrderConfirmed
  BY <1>0, <1>1, ConfirmedEffect DEF Lasting
<1>2. CASE SettleEarnings
  <2>1. settling.status \in EarningStatus
    BY <1>2, SettleEffect DEF Settling
  <2>2. \A i \in Ids : \/ ledger'[i] = ledger[i]
                       \/ ledger'[i] = [ledger[i] EXCEPT !.status = settling.status]
    BY <1>0, <1>2, SettleEffect
  <2>3. Len(ledger') = Len(ledger)
    BY <1>2, SettleEffect
  <2>4. \A i \in Ids : /\ ledger'[i].seller = ledger[i].seller
                       /\ ledger'[i].order = ledger[i].order
                       /\ ledger'[i].born = ledger[i].born
    <3>1. \A e \in Entry : /\ [e EXCEPT !.status = settling.status].seller = e.seller
                           /\ [e EXCEPT !.status = settling.status].order = e.order
                           /\ [e EXCEPT !.status = settling.status].born = e.born
      BY DEF Entry
    <3> QED BY <1>0, <2>2, <3>1
  <2> QED BY <1>0, <2>3, <2>4 DEF Lasting
<1>3. ASSUME NEW c \in Callers, ReleasePayout(c) PROVE Lasting
  <2> DEFINE plan == call[c].plan
             p == Len(payouts) + 1
  <2>1. p \in Nat /\ ~Idle(c)
    <3>1. payouts \in Seq(Payout)
      BY DEF TypeOK, SellerTypeOK
    <3>2. p \in Nat
      BY <3>1
    <3>3. call[c].at = "release"
      BY <1>3 DEF ReleasePayout
    <3> QED BY <3>2, <3>3 DEF Idle
  <2>2. \A k \in 1..Len(plan) : plan[k].paid \in Money
    BY <2>1, CallFields
  <2>3. /\ Len(call[c].rest) \in Nat /\ Len(ledger') = Len(ledger) + Len(call[c].rest)
    <3>1. call[c].rest \in Seq(Entry)
      BY <2>1, CallFields
    <3>2. Len(ledger') = Len(ledger) + Len(call[c].rest)
      BY <1>3, ReleaseEffect
    <3> QED BY <3>1, <3>2
  <2>4. \A i \in Ids : \/ ledger'[i] = ledger[i]
                       \/ \E k \in 1..Len(plan) :
                            ledger'[i] = Released(ledger[i], plan[k].paid, p)
    BY <1>0, <1>3, ReleaseEffect
  <2> HIDE DEF p, plan
  <2>5. \A i \in Ids : /\ ledger'[i].seller = ledger[i].seller
                       /\ ledger'[i].order = ledger[i].order
                       /\ ledger'[i].born = ledger[i].born
    BY <1>0, <2>1, <2>2, <2>4, EntryKept
  <2> QED BY <1>0, <2>3, <2>5 DEF Lasting
<1>4. ASSUME NEW c \in Callers, CommitAdCredit(c) PROVE Lasting
  <2>1. /\ Len(call[c].rest) \in Nat
    BY <1>4, CallFields DEF CommitAdCredit, Idle
  <2> QED BY <1>0, <1>4, <2>1, CreditEffect DEF Lasting
<1>5. SellersRest => UNCHANGED ledger
  BY DEF SellersRest, sellerVars
<1> QED BY <1>1, <1>2, <1>3, <1>4, <1>5, <1>k
     DEF SellerStep, HandleOrderItemUpdated, AbortSettling, CreatePayout, AddAdCredit,
         GrantAdCredit, FetchEarned, AbortCall

\* So a plan, an entry to insert and an update remain as they are while others
\* write.
LEMMA PlanKept ==
  ASSUME TypeOK, Lasting, TypeOK', NEW c \in Callers, PlanSound(c), call'[c] = call[c]
  PROVE  PlanSound(c)'
<1>1. /\ Len(ledger) \in Nat /\ Len(ledger') \in Nat /\ Ids = 1..Len(ledger)
      /\ Ids' = 1..Len(ledger')
  BY LedgerRows DEF TypeOK, SellerTypeOK, Ids
<1>2. Len(ledger) <= Len(ledger') /\ Ids \subseteq Ids'
  BY <1>1 DEF Lasting
<1>3. CASE call[c].at = "release"
  <2> DEFINE plan == call[c].plan
             rest == call[c].rest
             n == Len(plan)
  <2>1. /\ n \in Nat /\ rest \in Seq(Entry)
    BY <1>3, CallFields DEF Idle
  <2>2. \A k \in 1..n : /\ plan[k].id \in Ids' /\ ledger'[plan[k].id].seller = call[c].seller
                        /\ ledger'[plan[k].id].order = ledger[plan[k].id].order
    BY <1>2, <1>3 DEF PlanSound, Lasting
  <2>3. ASSUME rest # <<>>
        PROVE  /\ n > 0 /\ Len(rest) = 1 /\ rest[1].net > 0
               /\ rest[1].order = ledger'[plan[n].id].order
               /\ rest[1].seller = ledger'[plan[n].id].seller
               /\ rest[1].born <= Len(ledger')
    <3>1. /\ n > 0 /\ Len(rest) = 1 /\ rest[1].net > 0 /\ n \in 1..n
          /\ rest[1].order = ledger[plan[n].id].order
          /\ rest[1].seller = ledger[plan[n].id].seller
          /\ rest[1].born <= Len(ledger)
      BY <1>3, <2>1, <2>3 DEF PlanSound
    <3>2. plan[n].id \in Ids
      BY <1>3, <3>1 DEF PlanSound
    <3>3. rest[1].born \in Nat
      BY <2>1, <3>1, EntryFields
    <3>4. rest[1].born <= Len(ledger')
      BY <1>1, <1>2, <3>1, <3>3
    <3> QED BY <3>1, <3>2, <3>4 DEF Lasting
  <2> QED BY <1>3, <2>2, <2>3 DEF PlanSound
<1>4. CASE call[c].at = "credit"
  <2>1. /\ Len(call[c].rest) = 1 /\ call[c].rest[1].order = NoOrder
        /\ call[c].rest[1].born <= Len(ledger) + 1
    BY <1>4 DEF PlanSound
  <2>2. call[c].rest \in Seq(Entry)
    BY <1>4, CallFields DEF Idle
  <2>3. call[c].rest[1].born \in Nat
    BY <2>1, <2>2, EntryFields
  <2>4. call[c].rest[1].born <= Len(ledger') + 1
    BY <1>1, <1>2, <2>1, <2>3
  <2> QED BY <1>4, <2>1, <2>4 DEF PlanSound
<1>5. CASE call[c].at \notin {"release", "credit"}
  BY <1>5 DEF PlanSound
<1> QED BY <1>3, <1>4, <1>5

\* An update that waits keeps the rows that it found.
LEMMA SettlingKept ==
  ASSUME TypeOK, Lasting, TypeOK', SettlingSound, settling' = settling
  PROVE  SettlingSound'
<1>1. Ids \subseteq Ids'
  BY LedgerRows DEF TypeOK, SellerTypeOK, Ids, Lasting
<1>2. CASE settling # NoSettling
  <2>1. PICK o \in Orders :
          \A i \in settling.ids : ledger[i].order = o /\ ledger[i].seller = settling.seller
    BY <1>2 DEF SettlingSound
  <2>2. settling.ids \subseteq Ids /\ settling.status \in {"earned", "refunded"}
    BY <1>2 DEF SettlingSound
  <2>3. \A i \in settling.ids : ledger'[i].order = o /\ ledger'[i].seller = settling.seller
    BY <2>1, <2>2 DEF Lasting
  <2> QED BY <1>1, <1>2, <2>2, <2>3 DEF SettlingSound
<1>3. CASE settling = NoSettling
  BY <1>3 DEF SettlingSound
<1> QED BY <1>2, <1>3

\* Where nothing is inserted, no row is younger than its place.
LEMMA BornKept ==
  ASSUME TypeOK, Lasting, BornSound,
         Len(ledger') \in Nat,
         \A i \in (Len(ledger) + 1)..Len(ledger') : ledger'[i].born <= i
  PROVE  BornSound'
<1>1. Len(ledger) \in Nat /\ Ids = 1..Len(ledger) /\ Ids' = 1..Len(ledger')
  BY LedgerRows DEF Ids
<1> SUFFICES ASSUME NEW i \in 1..Len(ledger') PROVE ledger'[i].born <= i
  BY <1>1 DEF BornSound
<1>2. CASE i \in 1..Len(ledger)
  BY <1>1, <1>2 DEF BornSound, Lasting
<1>3. CASE i \in (Len(ledger) + 1)..Len(ledger')
  BY <1>3
<1> QED BY <1>1, <1>2, <1>3

\* Every step keeps the rows and the plans sound.
LEMMA ShapeStep ==
  ASSUME TypeOK, TypeOK', Shape, SellerStep \/ SellersRest
  PROVE  Shape'
<1>0. /\ Len(ledger) \in Nat /\ Len(ledger') \in Nat /\ Ids = 1..Len(ledger)
      /\ \A i \in Ids : ledger[i] \in Entry /\ i \in Nat /\ ledger[i].born \in Nat
  BY LedgerRows DEF TypeOK, SellerTypeOK
<1>l. Lasting
  BY LastingStep
<1>s. BornSound /\ SettlingSound /\ \A c \in Callers : PlanSound(c)
  BY DEF Shape
<1>b. ASSUME UNCHANGED ledger PROVE BornSound'
  BY <1>s, <1>b DEF BornSound, Ids
<1>p. ASSUME NEW c \in Callers, call'[c] = call[c] PROVE PlanSound(c)'
  BY <1>l, <1>s, <1>p, PlanKept
<1>q. ASSUME UNCHANGED call PROVE \A c \in Callers : PlanSound(c)'
  BY <1>p, <1>q
<1>r. ASSUME NEW c \in Callers, NEW new \in Call \cup {NoCall},
             call' = [call EXCEPT ![c] = new], PlanSound(c)'
      PROVE  \A d \in Callers : PlanSound(d)'
  <2>1. \A d \in Callers \ {c} : call'[d] = call[d]
    BY <1>r, CallKept
  <2>2. ASSUME NEW d \in Callers \ {c} PROVE PlanSound(d)'
    BY <1>p, <2>1
  <2> QED BY <1>r, <2>2
<1>t. ASSUME UNCHANGED settling PROVE SettlingSound'
  BY <1>l, <1>s, <1>t, SettlingKept
<1>n. ASSUME settling' = NoSettling PROVE SettlingSound'
  BY <1>n DEF SettlingSound
<1>1. CASE HandleOrderConfirmed
  <2>1. \A i \in (Len(ledger) + 1)..Len(ledger') : ledger'[i].born <= i
    BY <1>0, <1>1, ConfirmedEffect
  <2>2. BornSound'
    BY <1>0, <1>l, <1>s, <2>1, BornKept
  <2>3. (\A c \in Callers : PlanSound(c)') /\ SettlingSound'
    BY <1>1, <1>q, <1>t DEF HandleOrderConfirmed
  <2> QED BY <2>2, <2>3 DEF Shape
<1>2. CASE HandleOrderItemUpdated
  <2> DEFINE m == Head(nats.updated)
             st == EarningStatusFor(m.status)
             ids == {i \in DOMAIN ledger : ledger[i].order = m.order /\ ledger[i].seller = m.seller}
  <2>1. m \in UpdatedMsg
    BY <1>2 DEF HandleOrderItemUpdated, Pending, TypeOK, NatsType
  <2>2. m.order \in Orders
    BY <2>1 DEF UpdatedMsg
  <2>3. UNCHANGED <<ledger, call>>
    BY <1>2 DEF HandleOrderItemUpdated
  <2>4. /\ ids \subseteq Ids
        /\ \A i \in ids : ledger[i].order = m.order /\ ledger[i].seller = m.seller
    BY LedgerRows
  <2>5. settling' = IF st = "none" THEN NoSettling
                    ELSE [seller |-> m.seller, status |-> st, ids |-> ids]
    BY <1>2 DEF HandleOrderItemUpdated
  <2>6. st # "none" => st \in {"earned", "refunded"}
    BY DEF EarningStatusFor
  <2> HIDE DEF m, st, ids
  <2>7. CASE st = "none"
    BY <1>b, <1>n, <1>q, <2>3, <2>5, <2>7 DEF Shape
  <2>8. CASE st # "none"
    <3>1. /\ settling'.ids = ids /\ settling'.seller = m.seller
          /\ settling'.status \in {"earned", "refunded"}
      BY <2>5, <2>8, <2>6
    <3>2. SettlingSound'
      BY <2>2, <2>3, <2>4, <3>1 DEF SettlingSound, Ids
    <3> QED BY <1>b, <1>q, <2>3, <3>2 DEF Shape
  <2> QED BY <2>7, <2>8
<1>3. CASE SettleEarnings
  <2>1. \A i \in (Len(ledger) + 1)..Len(ledger') : ledger'[i].born <= i
    BY <1>0, <1>3, SettleEffect
  <2>2. BornSound'
    BY <1>0, <1>l, <1>s, <2>1, BornKept
  <2> QED BY <1>3, <1>q, <1>n, <2>2 DEF SettleEarnings, Shape
<1>4. CASE AbortSettling
  BY <1>4, <1>b, <1>n, <1>q DEF AbortSettling, Shape
<1>5. ASSUME NEW c \in Callers, NEW s \in Sellers, NEW a \in Amounts, CreatePayout(c, s, a)
      PROVE  Shape'
  <2>1. call'[c].at = "fetch" /\ \A d \in Callers \ {c} : call'[d] = call[d]
    BY <1>5 DEF CreatePayout, TypeOK, SellerTypeOK
  <2>2. PlanSound(c)'
    BY <2>1 DEF PlanSound
  <2>3. \A d \in Callers : PlanSound(d)'
    BY <1>p, <2>1, <2>2
  <2> QED BY <1>5, <1>b, <1>t, <2>3 DEF CreatePayout, Shape
<1>6. ASSUME NEW c \in Callers, NEW s \in Sellers, NEW a \in Amounts, AddAdCredit(c, s, a)
      PROVE  Shape'
  <2> DEFINE entry == [seller |-> s, order |-> NoOrder, status |-> "earned",
                       gross |-> -a, fee |-> 0, net |-> -a,
                       born |-> Len(ledger) + 1, payout |-> 0]
  <2>1. /\ call'[c].at = "credit" /\ call'[c].rest = <<entry>>
        /\ \A d \in Callers \ {c} : call'[d] = call[d]
    BY <1>6 DEF AddAdCredit, TypeOK, SellerTypeOK
  <2>2. entry.order = NoOrder /\ entry.born = Len(ledger) + 1
    OBVIOUS
  <2> HIDE DEF entry
  <2>3. Len(ledger') = Len(ledger)
    BY <1>6 DEF AddAdCredit
  <2>4. PlanSound(c)'
    BY <1>0, <2>1, <2>2, <2>3 DEF PlanSound
  <2>5. \A d \in Callers : PlanSound(d)'
    BY <1>p, <2>1, <2>4
  <2> QED BY <1>6, <1>b, <1>t, <2>5 DEF AddAdCredit, Shape
<1>7. ASSUME NEW s \in Sellers, NEW a \in Amounts, GrantAdCredit(s, a)
      PROVE  Shape'
  BY <1>7, <1>b, <1>q, <1>t DEF GrantAdCredit, Shape
<1>8. ASSUME NEW c \in Callers, FetchEarned(c)
      PROVE  Shape'
  <2> DEFINE plan == call'[c].plan
             rest == call'[c].rest
             n == Len(plan)
  <2>1. UNCHANGED <<ledger, settling>>
    BY <1>8 DEF FetchEarned
  <2>2. /\ call' = [call EXCEPT ![c] = call'[c]] /\ call'[c] \in Call
        /\ call'[c].at = "release" /\ call'[c].seller = call[c].seller /\ n \in Nat
        /\ \A k \in 1..n : plan[k].id \in 1..Len(ledger)
                           /\ ledger[plan[k].id].seller = call[c].seller
        /\ rest # <<>> =>
             /\ n > 0 /\ Len(rest) = 1 /\ rest[1].net > 0
             /\ rest[1].seller = ledger[plan[n].id].seller
             /\ rest[1].order = ledger[plan[n].id].order
             /\ rest[1].born = ledger[plan[n].id].born
    BY <1>8, FetchEffect
  <2>3. rest # <<>> => rest[1].born <= Len(ledger)
    <3> SUFFICES ASSUME rest # <<>> PROVE rest[1].born <= Len(ledger)
      OBVIOUS
    <3>1. plan[n].id \in Ids /\ rest[1].born = ledger[plan[n].id].born
      BY <1>0, <2>2
    <3>2. ledger[plan[n].id].born <= plan[n].id
      BY <1>s, <3>1 DEF BornSound
    <3> HIDE DEF plan, rest, n
    <3> QED BY <1>0, <3>1, <3>2
  <2>4. PlanSound(c)'
    BY <1>0, <2>1, <2>2, <2>3 DEF PlanSound, Ids
  <2>5. \A d \in Callers : PlanSound(d)'
    BY <1>r, <2>2, <2>4
  <2> QED BY <1>b, <1>t, <2>1, <2>5 DEF Shape
<1>9. ASSUME NEW c \in Callers, ReleasePayout(c)
      PROVE  Shape'
  <2> DEFINE rest == call[c].rest
  <2>1. /\ call' = [call EXCEPT ![c] = NoCall] /\ UNCHANGED settling
        /\ call[c].at = "release"
    BY <1>9 DEF ReleasePayout
  <2>2. \A d \in Callers : PlanSound(d)'
    <3>1. call'[c] = NoCall
      BY <2>1, CallKept
    <3>2. PlanSound(c)'
      BY <3>1 DEF PlanSound, NoCall
    <3> QED BY <1>r, <2>1, <3>2
  <2>3. /\ Len(ledger') = Len(ledger) + Len(rest)
        /\ \A j \in 1..Len(rest) : ledger'[Len(ledger) + j] = rest[j]
    BY <1>9, ReleaseEffect
  <2>4. /\ rest \in Seq(Entry)
        /\ rest # <<>> => Len(rest) = 1 /\ rest[1].born <= Len(ledger) /\ rest[1].born \in Nat
    <3>1. rest \in Seq(Entry)
      BY <2>1, CallFields DEF Idle
    <3>2. rest # <<>> => Len(rest) = 1 /\ rest[1].born <= Len(ledger)
      BY <1>s, <2>1 DEF PlanSound
    <3>3. Len(rest) = 1 => rest[1].born \in Nat
      BY <3>1, EntryFields
    <3> QED BY <3>1, <3>2, <3>3
  <2> HIDE DEF rest
  <2>5. \A i \in (Len(ledger) + 1)..Len(ledger') : ledger'[i].born <= i
    <3>1. CASE rest = <<>>
      BY <1>0, <2>3, <3>1
    <3>2. CASE rest # <<>>
      <4>1. /\ Len(ledger') = Len(ledger) + 1 /\ ledger'[Len(ledger) + 1] = rest[1]
        <5>1. Len(rest) = 1 /\ 1 \in 1..Len(rest)
          BY <2>4, <3>2
        <5> QED BY <2>3, <5>1
      <4>2. rest[1].born <= Len(ledger) /\ rest[1].born \in Nat
        BY <2>4, <3>2
      <4>3. \A i \in (Len(ledger) + 1)..Len(ledger') : i = Len(ledger) + 1
        BY <1>0, <4>1
      <4> QED BY <1>0, <4>1, <4>2, <4>3
    <3> QED BY <3>1, <3>2
  <2>6. BornSound'
    BY <1>0, <1>l, <1>s, <2>5, BornKept
  <2> QED BY <1>t, <2>1, <2>2, <2>6 DEF Shape
<1>10. ASSUME NEW c \in Callers, CommitAdCredit(c)
       PROVE  Shape'
  <2> DEFINE rest == call[c].rest
  <2>1. /\ call' = [call EXCEPT ![c] = NoCall] /\ UNCHANGED settling
        /\ call[c].at = "credit"
    BY <1>10 DEF CommitAdCredit
  <2>2. \A d \in Callers : PlanSound(d)'
    <3>1. call'[c] = NoCall
      BY <2>1, CallKept
    <3>2. PlanSound(c)'
      BY <3>1 DEF PlanSound, NoCall
    <3> QED BY <1>r, <2>1, <3>2
  <2>3. /\ Len(ledger') = Len(ledger) + Len(rest)
        /\ \A j \in 1..Len(rest) : ledger'[Len(ledger) + j] = rest[j]
    BY <1>10, CreditEffect
  <2>4. Len(rest) = 1 /\ rest[1].born <= Len(ledger) + 1
    BY <1>s, <2>1 DEF PlanSound
  <2> HIDE DEF rest
  <2>5. \A i \in (Len(ledger) + 1)..Len(ledger') : ledger'[i].born <= i
    <3>1. /\ Len(ledger') = Len(ledger) + 1 /\ ledger'[Len(ledger) + 1] = rest[1]
      BY <2>3, <2>4
    <3>2. \A i \in (Len(ledger) + 1)..Len(ledger') : i = Len(ledger) + 1
      BY <1>0, <3>1
    <3> QED BY <2>4, <3>1, <3>2
  <2>6. BornSound'
    BY <1>0, <1>l, <1>s, <2>5, BornKept
  <2> QED BY <1>t, <2>1, <2>2, <2>6 DEF Shape
<1>11. ASSUME NEW c \in Callers, AbortCall(c)
       PROVE  Shape'
  <2>1. call' = [call EXCEPT ![c] = NoCall] /\ UNCHANGED <<ledger, settling>>
    BY <1>11 DEF AbortCall
  <2>2. call'[c] = NoCall
    BY <2>1, CallKept
  <2>3. PlanSound(c)'
    BY <2>2 DEF PlanSound, NoCall
  <2>4. \A d \in Callers : PlanSound(d)'
    BY <1>r, <2>1, <2>3
  <2> QED BY <1>b, <1>t, <2>1, <2>4 DEF Shape
<1>12. CASE SellersRest
  BY <1>12, <1>b, <1>q, <1>t DEF SellersRest, sellerVars, Shape
<1> QED BY <1>1, <1>2, <1>3, <1>4, <1>5, <1>6, <1>7, <1>8, <1>9, <1>10, <1>11, <1>12
     DEF SellerStep

\* At the start there is no row and no plan.
LEMMA ShapeInit == Init => Shape
<1> SUFFICES ASSUME Init PROVE Shape
  OBVIOUS
<1>1. /\ ledger = <<>> /\ settling = NoSettling
      /\ \A c \in Callers : call[c].at = "idle"
  BY DEF Init, SellerInit, NoCall
<1>2. Ids = {}
  BY <1>1 DEF Ids
<1> QED BY <1>1, <1>2 DEF Shape, BornSound, SettlingSound, PlanSound

-----------------------------------------------------------------------------
(* The rows of an order never add up to less than was escrowed for it.         *)

RowsOf(o, s) == {i \in Ids : ledger[i].order = o /\ ledger[i].seller = s}

\* What each row was escrowed as: the remainder of a split was not.
Escrowed == [i \in Ids |-> IF IsOriginal(i) THEN SaleNet ELSE 0]

\* What goroutine c is to insert beside the k-th row that it releases.
Deferred(c, k) ==
  IF k = Len(call[c].plan) /\ call[c].rest # <<>> THEN call[c].rest[1].net ELSE 0

\* Of what was escrowed, due[i] is row i's share, which the row covers and which
\* every planned release leaves covered: by the portion that it writes and the
\* remainder that it inserts.  When it does, the remainder takes its part of the
\* share with it, so that the same row may be split a second time.
Backs(due) ==
  /\ \A i \in Ids : ledger[i].net >= due[i]
  /\ \A o \in Orders, s \in Sellers : SumOf(due, RowsOf(o, s)) = SumOf(Escrowed, RowsOf(o, s))
  /\ \A c \in Callers : call[c].at = "release" =>
       \A k \in 1..Len(call[c].plan) :
         call[c].plan[k].paid.net + Deferred(c, k) >= due[call[c].plan[k].id]

Backed == \E due \in [Ids -> Int] : Backs(due)

\* Backed says what LedgerNeverShort does.
LEMMA BackedSuffices == TypeOK /\ Backed => LedgerNeverShort
<1> SUFFICES ASSUME TypeOK, Backed, NEW o \in Orders, NEW s \in Sellers
             PROVE  SumNet(RowsOf(o, s))
                      >= SaleNet * Cardinality({i \in RowsOf(o, s) : IsOriginal(i)})
  BY DEF LedgerNeverShort, RowsOf
<1> DEFINE rows == RowsOf(o, s)
           firsts == {i \in rows : IsOriginal(i)}
           net == [i \in DOMAIN ledger |-> ledger[i].net]
<1>1. PICK due \in [Ids -> Int] : Backs(due)
  BY DEF Backed
<1>2. /\ Len(ledger) \in Nat /\ Ids = 1..Len(ledger) /\ DOMAIN ledger = Ids
      /\ \A i \in Ids : ledger[i].net \in Int
  BY LedgerRows, EntryFields
<1>3. IsFiniteSet(rows) /\ rows \subseteq Ids
  <2>1. IsFiniteSet(Ids) /\ rows \subseteq Ids
    BY <1>2, FS_Interval DEF RowsOf
  <2> HIDE DEF rows
  <2> QED BY <2>1, FS_Subset
<1>4. \A i \in rows : due[i] \in Int /\ net[i] \in Int /\ due[i] <= net[i]
  BY <1>1, <1>2, <1>3 DEF Backs
<1>5. SumOf(due, rows) <= SumOf(net, rows)
  <2> HIDE DEF rows, net
  <2> QED BY <1>3, <1>4, SumMonotone
<1>6. /\ firsts \in SUBSET rows /\ SaleNet \in Int
      /\ \A i \in firsts : Escrowed[i] = SaleNet
      /\ \A i \in rows \ firsts : Escrowed[i] = 0
  BY <1>3, SaleAmounts DEF Escrowed
<1>7. SumOf(Escrowed, rows) = SaleNet * Cardinality(firsts)
  <2> HIDE DEF rows, firsts
  <2> QED BY <1>3, <1>6, SumCount
<1>8. SumOf(due, rows) = SumOf(Escrowed, rows)
  BY <1>1 DEF Backs
<1>9. SumOf(due, rows) \in Int /\ SumOf(net, rows) \in Int
  <2> HIDE DEF rows, net
  <2> QED BY <1>3, <1>4, SumInt
<1>10. SumNet(rows) = SumOf(net, rows)
  BY DEF SumNet
<1> HIDE DEF rows, firsts, net
<1> QED BY <1>5, <1>7, <1>8, <1>9, <1>10 DEF rows, firsts

\* The rows of an order and seller after a step: those that there were, escrowed
\* as they were, and those inserted.
LEMMA RowsGrow ==
  ASSUME TypeOK, TypeOK', Lasting, NEW o \in Orders, NEW s \in Sellers
  PROVE  /\ RowsOf(o, s) = RowsOf(o, s)' \cap Ids
         /\ RowsOf(o, s)' = RowsOf(o, s) \cup (RowsOf(o, s)' \ Ids)
         /\ RowsOf(o, s) \cap (RowsOf(o, s)' \ Ids) = {}
         /\ IsFiniteSet(RowsOf(o, s)) /\ IsFiniteSet(RowsOf(o, s)' \ Ids)
         /\ \A i \in RowsOf(o, s) : Escrowed'[i] = Escrowed[i]
         /\ \A i \in RowsOf(o, s)' : Escrowed'[i] \in Int
         /\ SumOf(Escrowed', RowsOf(o, s)')
              = SumOf(Escrowed, RowsOf(o, s)) + SumOf(Escrowed', RowsOf(o, s)' \ Ids)
         /\ SumOf(Escrowed, RowsOf(o, s)) \in Int
         /\ SumOf(Escrowed', RowsOf(o, s)' \ Ids) \in Int
<1> DEFINE old == RowsOf(o, s)
           all == RowsOf(o, s)'
           new == all \ Ids
<1>1. /\ Len(ledger) \in Nat /\ Len(ledger') \in Nat
      /\ Ids = 1..Len(ledger) /\ Ids' = 1..Len(ledger')
  BY LedgerRows DEF TypeOK, SellerTypeOK, Ids
<1>2. Ids \subseteq Ids' /\ all \subseteq Ids' /\ IsFiniteSet(Ids')
  <2>1. IsFiniteSet(1..Len(ledger'))
    BY <1>1, FS_Interval
  <2>2. Ids \subseteq Ids'
    BY <1>1 DEF Lasting
  <2> QED BY <1>1, <2>1, <2>2 DEF RowsOf
<1>3. old = all \cap Ids
  BY <1>2 DEF RowsOf, Lasting
<1>4. IsFiniteSet(all)
  <2> HIDE DEF all
  <2> QED BY <1>2, FS_Subset
<1>5. IsFiniteSet(old) /\ IsFiniteSet(new)
  <2>1. old \subseteq all /\ new \subseteq all
    BY <1>3
  <2> HIDE DEF old, new, all
  <2> QED BY <1>4, <2>1, FS_Subset
<1>6. \A i \in old : Escrowed'[i] = Escrowed[i]
  BY <1>2, <1>3 DEF Escrowed, IsOriginal, Lasting
<1>7. /\ \A i \in all : Escrowed'[i] \in Int
      /\ \A i \in old : Escrowed[i] \in Int
  BY <1>2, <1>3, SaleAmounts DEF Escrowed
<1>8. all = old \cup new /\ old \cap new = {}
  BY <1>3
<1> HIDE DEF old, all, new
<1>9. SumOf(Escrowed', old \cup new) = SumOf(Escrowed', old) + SumOf(Escrowed', new)
  BY <1>5, <1>7, <1>8, SumUnion
<1>10. SumOf(Escrowed', old) = SumOf(Escrowed, old)
  BY <1>5, <1>6, SumSame
<1>11. SumOf(Escrowed, old) \in Int /\ SumOf(Escrowed', new) \in Int
  BY <1>5, <1>7, <1>8, SumInt
<1> QED BY <1>3, <1>5, <1>6, <1>7, <1>8, <1>9, <1>10, <1>11 DEF old, all, new

\* A share stays a share when every row still covers it and the rows inserted,
\* none of them a remainder, bring what is escrowed with them.
LEMMA SharesGrow ==
  ASSUME TypeOK, TypeOK', Lasting, NEW due \in [Ids -> Int], Backs(due),
         \A i \in Ids : ledger'[i].net >= due[i],
         \A i \in Ids' \ Ids : ledger'[i].order \in Orders => ledger'[i].net >= Escrowed'[i],
         \A c \in Callers : call'[c].at = "release" =>
           \A k \in 1..Len(call'[c].plan) :
             /\ call'[c].plan[k].id \in Ids
             /\ call'[c].plan[k].paid.net + Deferred(c, k)' >= due[call'[c].plan[k].id]
  PROVE  Backed'
<1> DEFINE due2 == [i \in Ids' |-> IF i \in Ids THEN due[i]
                                   ELSE IF ledger'[i].order \in Orders THEN Escrowed'[i]
                                   ELSE ledger'[i].net]
<1>1. Ids \subseteq Ids' /\ Len(ledger') \in Nat /\ Ids' = 1..Len(ledger')
      /\ \A i \in Ids' : ledger'[i].net \in Int
  <2>1. ledger' \in Seq(Entry) /\ Len(ledger) \in Nat
    BY DEF TypeOK, SellerTypeOK
  <2>2. Len(ledger') \in Nat /\ Ids' = 1..Len(ledger')
    BY <2>1 DEF Ids
  <2>3. \A i \in Ids' : ledger'[i] \in Entry
    BY <2>1, <2>2
  <2>4. Ids \subseteq Ids'
    BY <2>1, <2>2, LedgerRows DEF Lasting
  <2> QED BY <2>2, <2>3, <2>4, EntryFields
<1>2. \A i \in Ids' : Escrowed'[i] \in Int
  BY SaleAmounts DEF Escrowed
<1>3. due2 \in [Ids' -> Int]
  BY <1>1, <1>2
<1>4. \A i \in Ids : due2[i] = due[i]
  BY <1>1
<1>5. \A i \in Ids' : ledger'[i].net >= due2[i]
  BY <1>1, <1>4
<1>6. ASSUME NEW o \in Orders, NEW s \in Sellers
      PROVE  SumOf(due2, RowsOf(o, s)') = SumOf(Escrowed', RowsOf(o, s)')
  <2> DEFINE old == RowsOf(o, s)
             new == RowsOf(o, s)' \ Ids
  <2>1. /\ RowsOf(o, s)' = old \cup new /\ old \cap new = {}
        /\ IsFiniteSet(old) /\ IsFiniteSet(new) /\ old \subseteq Ids
        /\ SumOf(Escrowed', RowsOf(o, s)') = SumOf(Escrowed, old) + SumOf(Escrowed', new)
    BY RowsGrow DEF RowsOf
  <2>2. \A i \in new : due2[i] = Escrowed'[i]
    BY DEF RowsOf
  <2>3. \A i \in old : due2[i] = due[i]
    BY <1>4, <2>1
  <2>4. \A i \in old \cup new : due2[i] \in Int
    BY <1>3, <2>1 DEF RowsOf
  <2>5. SumOf(due, old) = SumOf(Escrowed, old)
    BY DEF Backs
  <2> HIDE DEF due2, old, new
  <2>6. SumOf(due2, old \cup new) = SumOf(due2, old) + SumOf(due2, new)
    BY <2>1, <2>4, SumUnion
  <2>7. SumOf(due2, old) = SumOf(due, old) /\ SumOf(due2, new) = SumOf(Escrowed', new)
    BY <2>1, <2>2, <2>3, SumSame
  <2> QED BY <2>1, <2>5, <2>6, <2>7
<1>7. \A c \in Callers : call'[c].at = "release" =>
        \A k \in 1..Len(call'[c].plan) :
          call'[c].plan[k].paid.net + Deferred(c, k)' >= due2[call'[c].plan[k].id]
  BY <1>4
<1> HIDE DEF due2
<1>8. PICK d \in [Ids' -> Int] : d = due2
  BY <1>3
<1>9. Backs(d)'
  BY <1>5, <1>6, <1>7, <1>8 DEF Backs
<1> QED BY <1>9 DEF Backed

\* A payout that splits its last row: the remainder takes its part of the row's
\* share along, and what other goroutines plan covers what the row keeps.
LEMMA SplitBacked ==
  ASSUME TypeOK, TypeOK', Shape, Backed, NEW c \in Callers, ReleasePayout(c),
         call[c].rest # <<>>
  PROVE  Backed'
<1> DEFINE plan == call[c].plan
           n == Len(plan)
           id == plan[n].id
           r == call[c].rest[1].net
           L == Len(ledger) + 1
<1>1. PICK due \in [Ids -> Int] : Backs(due)
  BY DEF Backed
<1>2. /\ Len(ledger) \in Nat /\ Ids = 1..Len(ledger)
      /\ \A i \in Ids : ledger[i].net \in Int /\ ledger[i].net >= due[i]
  BY <1>1, LedgerRows, EntryFields DEF Backs
<1>3. /\ call[c].at = "release" /\ ~Idle(c) /\ call' = [call EXCEPT ![c] = NoCall]
  BY DEF ReleasePayout, Idle
<1>4. /\ n \in Nat \ {0} /\ r \in Int /\ r > 0 /\ id \in Ids /\ Len(call[c].rest) = 1
      /\ \A k \in 1..n : plan[k].id \in Ids /\ plan[k].paid.net \in Int
      /\ call[c].rest[1].order = ledger[id].order
      /\ call[c].rest[1].seller = ledger[id].seller
      /\ call[c].rest[1].born <= Len(ledger) /\ call[c].rest[1].born \in Nat
  <2>1. PlanSound(c)
    BY DEF Shape
  <2>2. /\ n \in Nat /\ call[c].rest \in Seq(Entry) /\ \A k \in 1..n : plan[k].paid \in Money
    BY <1>3, CallFields
  <2>3. /\ n > 0 /\ Len(call[c].rest) = 1 /\ call[c].rest[1].net > 0
        /\ \A k \in 1..n : plan[k].id \in Ids
        /\ call[c].rest[1].order = ledger[plan[n].id].order
        /\ call[c].rest[1].seller = ledger[plan[n].id].seller
        /\ call[c].rest[1].born <= Len(ledger)
    BY <1>3, <2>1 DEF PlanSound
  <2>4. call[c].rest[1] \in Entry
    BY <2>2, <2>3
  <2>5. call[c].rest[1].net \in Int /\ call[c].rest[1].born \in Nat
    BY <2>4, EntryFields
  <2>6. \A k \in 1..n : plan[k].paid.net \in Int
    BY <2>2 DEF Money
  <2>7. n \in Nat \ {0} /\ n \in 1..n
    BY <2>2, <2>3
  <2> HIDE DEF plan, n
  <2> QED BY <2>3, <2>5, <2>6, <2>7
<1>5. /\ Len(ledger') = L /\ Ids' = 1..L /\ ledger'[L] = call[c].rest[1]
      /\ \A i \in Ids :
           \/ ledger'[i] = ledger[i] /\ \A k \in 1..n : plan[k].id # i
           \/ \E k \in 1..n : plan[k].id = i
                              /\ ledger'[i] = Released(ledger[i], plan[k].paid, Len(payouts) + 1)
  <2>1. /\ Len(ledger') = Len(ledger) + Len(call[c].rest)
        /\ \A j \in 1..Len(call[c].rest) : ledger'[Len(ledger) + j] = call[c].rest[j]
        /\ \A i \in 1..Len(ledger) :
             \/ ledger'[i] = ledger[i] /\ \A k \in 1..n : plan[k].id # i
             \/ \E k \in 1..n : plan[k].id = i
                                /\ ledger'[i] = Released(ledger[i], plan[k].paid, Len(payouts) + 1)
    BY ReleaseEffect
  <2>2. 1 \in 1..Len(call[c].rest)
    BY <1>4
  <2>3. Len(ledger') = L /\ ledger'[L] = call[c].rest[1]
    BY <1>4, <2>1, <2>2
  <2>4. Ids' = 1..L
    BY <2>3 DEF Ids
  <2> HIDE DEF n, plan, L
  <2> QED BY <1>2, <2>1, <2>3, <2>4
<1>6. L \in Nat /\ L \notin Ids /\ Ids' = Ids \cup {L}
  BY <1>2, <1>5
<1>l. Lasting
  BY LastingStep DEF SellerStep
<1> DEFINE due2 == [i \in Ids' |-> IF i = L THEN r ELSE IF i = id THEN due[id] - r ELSE due[i]]
<1>7. /\ due2 \in [Ids' -> Int] /\ due2[L] = r /\ due2[id] = due[id] - r
      /\ \A i \in Ids \ {id} : due2[i] = due[i]
  <2> HIDE DEF L, id, r
  <2> QED BY <1>1, <1>4, <1>6
<1>8. \A i \in Ids : due2[i] <= due[i] /\ due[i] \in Int /\ due2[i] \in Int
  <2> HIDE DEF L, id, r, due2
  <2> QED BY <1>1, <1>4, <1>6, <1>7
<1>9. \A i \in Ids' : ledger'[i].net >= due2[i]
  <2>1. ledger'[L].net >= due2[L]
    <3> HIDE DEF due2, L
    <3> QED BY <1>4, <1>5, <1>7
  <2>2. ASSUME NEW i \in Ids
        PROVE  ledger'[i].net >= due2[i]
    <3>1. CASE ledger'[i] = ledger[i]
      <4> HIDE DEF due2
      <4> QED BY <1>2, <1>8, <3>1
    <3>2. CASE \E k \in 1..n : plan[k].id = i
                               /\ ledger'[i] = Released(ledger[i], plan[k].paid, Len(payouts) + 1)
      <4>1. PICK k \in 1..n : plan[k].id = i
                              /\ ledger'[i] = Released(ledger[i], plan[k].paid, Len(payouts) + 1)
        BY <3>2
      <4>2. ledger'[i].net = plan[k].paid.net
        <5>1. \A e \in Entry : \A m, p : Released(e, m, p).net = m.net
          BY DEF Entry, Released
        <5> QED BY <4>1, <5>1, LedgerRows
      <4>3. plan[k].paid.net + Deferred(c, k) >= due[i]
        BY <1>1, <1>3, <4>1 DEF Backs
      <4>4. CASE k = n
        <5>1. Deferred(c, k) = r /\ i = id
          BY <4>1, <4>4 DEF Deferred
        <5> HIDE DEF r, id, due2, plan, n
        <5> QED BY <1>4, <1>7, <1>8, <4>2, <4>3, <5>1
      <4>5. CASE k # n
        <5>1. Deferred(c, k) = 0
          BY <4>5 DEF Deferred
        <5> HIDE DEF r, id, due2, plan, n
        <5> QED BY <1>4, <1>8, <4>2, <4>3, <5>1
      <4> QED BY <4>4, <4>5
    <3> HIDE DEF due2
    <3> QED BY <1>5, <3>1, <3>2
  <2> HIDE DEF due2, L
  <2> QED BY <1>6, <2>1, <2>2
<1>10. Escrowed'[L] = 0
  <2>1. ledger'[L].born # L
    BY <1>2, <1>4, <1>5
  <2> QED BY <1>6, <2>1 DEF Escrowed, IsOriginal
<1>11. ASSUME NEW o \in Orders, NEW s \in Sellers
       PROVE  SumOf(due2, RowsOf(o, s)') = SumOf(Escrowed', RowsOf(o, s)')
  <2> DEFINE old == RowsOf(o, s)
             new == RowsOf(o, s)' \ Ids
  <2>1. /\ RowsOf(o, s)' = old \cup new /\ old \cap new = {}
        /\ IsFiniteSet(old) /\ IsFiniteSet(new) /\ old \subseteq Ids
        /\ SumOf(Escrowed', RowsOf(o, s)') = SumOf(Escrowed, old) + SumOf(Escrowed', new)
        /\ SumOf(Escrowed, old) \in Int
    <3>1. old \subseteq Ids
      BY DEF RowsOf
    <3> QED BY <1>l, <3>1, RowsGrow
  <2>2. new \subseteq {L} /\ (L \in new <=> id \in old)
    BY <1>4, <1>5, <1>6 DEF RowsOf
  <2>3. SumOf(due, old) = SumOf(Escrowed, old)
    BY <1>1 DEF Backs
  <2> HIDE DEF due2, old, new, L, id, r
  <2>4. SumOf(Escrowed', new) = 0
    BY <1>10, <2>1, <2>2, SumZero
  <2>5. CASE id \in old
    <3>1. new = {L} /\ L \notin old
      BY <1>6, <2>1, <2>2, <2>5
    <3>2. SumOf(due2, old \cup {L}) = due2[L] + SumOf(due2, old)
      <4>1. \A i \in old \cup {L} : due2[i] \in Int
        BY <1>4, <1>7, <1>8, <2>1
      <4> QED BY <2>1, <3>1, <4>1, SumAdd
    <3>3. SumOf(due2, old) = SumOf(due, old) - due[id] + due2[id]
      <4>1. /\ \A i \in old : due[i] \in Int /\ due2[i] \in Int
            /\ \A i \in old \ {id} : due[i] = due2[i]
        BY <1>7, <1>8, <2>1
      <4> QED BY <2>1, <2>5, <4>1, SumChange
    <3>4. due[id] \in Int
      BY <1>4, <1>8
    <3> QED BY <1>4, <1>7, <2>1, <2>3, <2>4, <3>1, <3>2, <3>3, <3>4
  <2>6. CASE id \notin old
    <3>1. new = {} /\ RowsOf(o, s)' = old
      BY <2>1, <2>2, <2>6
    <3>2. \A i \in old : due2[i] = due[i]
      BY <1>7, <2>1, <2>6
    <3>3. SumOf(due2, old) = SumOf(due, old)
      BY <2>1, <3>2, SumSame
    <3> QED BY <2>1, <2>3, <2>4, <3>1, <3>3
  <2> QED BY <2>5, <2>6
<1>12. ASSUME NEW d \in Callers, call'[d].at = "release", NEW k \in 1..Len(call'[d].plan)
       PROVE  call'[d].plan[k].paid.net + Deferred(d, k)' >= due2[call'[d].plan[k].id]
  <2>1. d # c /\ call'[d] = call[d]
    <3>1. call'[c] = NoCall /\ \A e \in Callers \ {c} : call'[e] = call[e]
      BY <1>3, CallKept
    <3> QED BY <1>12, <3>1 DEF NoCall
  <2>2. call[d].at = "release" /\ k \in 1..Len(call[d].plan)
    BY <1>12, <2>1
  <2>3. Deferred(d, k)' = Deferred(d, k)
    BY <2>1 DEF Deferred
  <2>4. call[d].plan[k].id \in Ids
    BY <2>2 DEF Shape, PlanSound
  <2>5. call[d].plan[k].paid.net + Deferred(d, k) >= due[call[d].plan[k].id]
    BY <1>1, <2>2 DEF Backs
  <2>6. call[d].plan[k].paid.net + Deferred(d, k) \in Int
    <3>1. /\ call[d].rest \in Seq(Entry) /\ call[d].plan[k].paid \in Money
      BY <2>2, CallFields DEF Idle
    <3>2. call[d].rest # <<>> => call[d].rest[1] \in Entry
      BY <3>1
    <3>3. Deferred(d, k) \in Int
      BY <3>2, EntryFields DEF Deferred
    <3>4. call[d].plan[k].paid.net \in Int
      BY <3>1 DEF Money
    <3> QED BY <3>3, <3>4
  <2>7. call[d].plan[k].paid.net + Deferred(d, k) >= due2[call[d].plan[k].id]
    <3> HIDE DEF due2
    <3> QED BY <1>8, <2>4, <2>5, <2>6
  <2> QED BY <2>1, <2>3, <2>7
<1> HIDE DEF due2
<1>13. PICK d \in [Ids' -> Int] : d = due2
  BY <1>7
<1>14. Backs(d)'
  BY <1>9, <1>11, <1>12, <1>13 DEF Backs
<1> QED BY <1>14 DEF Backed

\* Every step keeps the shares covered.
LEMMA BackedStep ==
  ASSUME TypeOK, TypeOK', Shape, Backed, SellerStep \/ SellersRest
  PROVE  Backed'
<1>1. PICK due \in [Ids -> Int] : Backs(due)
  BY DEF Backed
<1>l. Lasting
  BY LastingStep
<1>2. /\ Len(ledger) \in Nat /\ Ids = 1..Len(ledger)
      /\ \A i \in Ids : ledger[i] \in Entry /\ ledger[i].net \in Int
                        /\ ledger[i].net >= due[i] /\ due[i] \in Int
  BY <1>1, LedgerRows, EntryFields DEF Backs
<1>i. Ids' = 1..Len(ledger')
  BY DEF Ids
<1>c. ASSUME NEW c \in Callers, call'[c] = call[c] \/ call'[c].at # "release"
      PROVE  call'[c].at = "release" =>
               \A k \in 1..Len(call'[c].plan) :
                 /\ call'[c].plan[k].id \in Ids
                 /\ call'[c].plan[k].paid.net + Deferred(c, k)' >= due[call'[c].plan[k].id]
  <2> SUFFICES ASSUME call'[c].at = "release", NEW k \in 1..Len(call'[c].plan)
               PROVE  /\ call'[c].plan[k].id \in Ids
                      /\ call'[c].plan[k].paid.net + Deferred(c, k)' >= due[call'[c].plan[k].id]
    OBVIOUS
  <2>1. call'[c] = call[c]
    BY <1>c
  <2>2. call[c].plan[k].id \in Ids
    BY <2>1 DEF Shape, PlanSound
  <2>3. Deferred(c, k)' = Deferred(c, k)
    BY <2>1 DEF Deferred
  <2> QED BY <1>1, <2>1, <2>2, <2>3 DEF Backs
<1>u. ASSUME UNCHANGED ledger,
             \A c \in Callers : call'[c] = call[c] \/ call'[c].at # "release"
      PROVE  Backed'
  <2>1. \A i \in Ids : ledger'[i].net >= due[i]
    BY <1>2, <1>u
  <2>2. Ids' = Ids
    BY <1>u DEF Ids
  <2> QED BY <1>1, <1>l, <1>c, <1>u, <2>1, <2>2, SharesGrow
<1>3. CASE HandleOrderConfirmed
  <2>1. \A i \in Ids : ledger'[i].net >= due[i]
    BY <1>2, <1>3, ConfirmedEffect
  <2>2. \A i \in Ids' \ Ids : ledger'[i].order \in Orders => ledger'[i].net >= Escrowed'[i]
    <3> SUFFICES ASSUME NEW i \in Ids' \ Ids PROVE ledger'[i].net >= Escrowed'[i]
      OBVIOUS
    <3>1. ledger' \in Seq(Entry)
      BY <1>3, ConfirmedEffect
    <3>2. Len(ledger') \in Nat
      BY <3>1
    <3>3. i \in (Len(ledger) + 1)..Len(ledger')
      BY <1>2, <1>i, <3>2
    <3>4. ledger'[i].net = SaleNet
      BY <1>3, <3>3, ConfirmedEffect
    <3>5. Escrowed'[i] = SaleNet \/ Escrowed'[i] = 0
      BY DEF Escrowed
    <3> QED BY <3>4, <3>5, SaleAmounts
  <2>3. call' = call
    BY <1>3 DEF HandleOrderConfirmed
  <2> QED BY <1>1, <1>l, <1>c, <2>1, <2>2, <2>3, SharesGrow
<1>4. CASE SettleEarnings
  <2>1. \A i \in Ids : ledger'[i].net = ledger[i].net
    <3>1. \A e \in Entry : [e EXCEPT !.status = settling.status].net = e.net
      BY DEF Entry
    <3> QED BY <1>2, <1>4, <3>1, SettleEffect
  <2>2. Ids' = Ids /\ call' = call
    BY <1>4, SettleEffect DEF Ids, SettleEarnings
  <2> QED BY <1>1, <1>2, <1>l, <1>c, <2>1, <2>2, SharesGrow
<1>5. ASSUME NEW c \in Callers, FetchEarned(c) PROVE Backed'
  <2> DEFINE plan == call'[c].plan
             rest == call'[c].rest
             n == Len(plan)
  <2>1. /\ call' = [call EXCEPT ![c] = call'[c]] /\ call'[c] \in Call /\ n \in Nat
        /\ \A k \in 1..n :
             /\ plan[k].id \in 1..Len(ledger)
             /\ (k < n \/ rest = <<>>) => plan[k].paid = Whole(ledger[plan[k].id])
        /\ rest # <<>> => n > 0 /\ rest[1].net = ledger[plan[n].id].net - plan[n].paid.net
        /\ plan \in Seq([id: Nat \ {0}, paid: Money])
    BY <1>5, FetchEffect DEF Call
  <2>2. UNCHANGED ledger /\ \A d \in Callers \ {c} : call'[d] = call[d]
    BY <1>5, <2>1, CallKept DEF FetchEarned
  <2>3. ASSUME NEW k \in 1..n
        PROVE  plan[k].id \in Ids /\ plan[k].paid.net + Deferred(c, k)' >= due[plan[k].id]
    <3> DEFINE e == ledger[plan[k].id]
    <3>1. plan[k].id \in Ids /\ e.net \in Int /\ e.net >= due[plan[k].id] /\ due[plan[k].id] \in Int
      BY <1>2, <2>1
    <3>2. plan[k].paid.net \in Int
      <4>1. \A j \in 1..n : plan[j] \in [id: Nat \ {0}, paid: Money]
        <5> HIDE DEF plan
        <5> QED BY <2>1, ElementOfSeq
      <4> QED BY <4>1 DEF Money
    <3>3. CASE k < n \/ rest = <<>>
      <4>1. Deferred(c, k)' = 0
        BY <2>1, <3>3 DEF Deferred
      <4>2. plan[k].paid = Whole(e)
        BY <2>1, <3>3
      <4>3. plan[k].paid.net = e.net
        <5>1. Whole(e).net = e.net
          BY DEF Whole
        <5> QED BY <4>2, <5>1
      <4> HIDE DEF plan, e
      <4> QED BY <3>1, <3>2, <4>1, <4>3
    <3>4. CASE k = n /\ rest # <<>>
      <4>1. Deferred(c, k)' = e.net - plan[k].paid.net
        BY <2>1, <3>4 DEF Deferred
      <4> HIDE DEF plan, e
      <4> QED BY <3>1, <3>2, <4>1
    <3> QED BY <2>1, <3>3, <3>4
  <2>4. \A d \in Callers : call'[d].at = "release" =>
          \A k \in 1..Len(call'[d].plan) :
            /\ call'[d].plan[k].id \in Ids
            /\ call'[d].plan[k].paid.net + Deferred(d, k)' >= due[call'[d].plan[k].id]
    <3> TAKE d \in Callers
    <3>1. CASE d = c
      BY <2>3, <3>1
    <3>2. CASE d # c
      BY <1>c, <2>2, <3>2
    <3> QED BY <3>1, <3>2
  <2>5. \A i \in Ids : ledger'[i].net >= due[i]
    BY <1>2, <2>2
  <2>6. Ids' = Ids
    BY <2>2 DEF Ids
  <2> QED BY <1>1, <1>l, <2>4, <2>5, <2>6, SharesGrow
<1>6. ASSUME NEW c \in Callers, CommitAdCredit(c) PROVE Backed'
  <2> DEFINE rest == call[c].rest
  <2>1. /\ call' = [call EXCEPT ![c] = NoCall] /\ call[c].at = "credit"
    BY <1>6 DEF CommitAdCredit
  <2>2. call'[c] = NoCall /\ \A d \in Callers \ {c} : call'[d] = call[d]
    BY <2>1, CallKept
  <2>3. \A d \in Callers : call'[d] = call[d] \/ call'[d].at # "release"
    BY <2>2 DEF NoCall
  <2>4. Len(rest) = 1 /\ rest[1].order = NoOrder
    BY <2>1 DEF Shape, PlanSound
  <2>5. /\ Len(ledger') = Len(ledger) + Len(rest)
        /\ \A i \in 1..Len(ledger) : ledger'[i] = ledger[i]
        /\ \A j \in 1..Len(rest) : ledger'[Len(ledger) + j] = rest[j]
    BY <1>6, CreditEffect
  <2>6. \A i \in Ids : ledger'[i].net >= due[i]
    BY <1>2, <2>5
  <2> HIDE DEF rest
  <2>7. \A i \in Ids' \ Ids : ledger'[i].order \notin Orders
    <3>1. Len(ledger') = Len(ledger) + 1 /\ ledger'[Len(ledger) + 1] = rest[1]
      BY <2>4, <2>5
    <3>2. \A i \in Ids' \ Ids : i = Len(ledger) + 1
      BY <1>2, <1>i, <3>1
    <3> QED BY <2>4, <3>1, <3>2, SaleAmounts
  <2> QED BY <1>1, <1>l, <1>c, <2>3, <2>6, <2>7, SharesGrow
<1>7. ASSUME NEW c \in Callers, ReleasePayout(c), call[c].rest = <<>> PROVE Backed'
  <2> DEFINE plan == call[c].plan
             n == Len(plan)
             p == Len(payouts) + 1
  <2>1. /\ call' = [call EXCEPT ![c] = NoCall] /\ call[c].at = "release"
    BY <1>7 DEF ReleasePayout
  <2>2. call'[c] = NoCall /\ \A d \in Callers \ {c} : call'[d] = call[d]
    BY <2>1, CallKept
  <2>3. \A d \in Callers : call'[d] = call[d] \/ call'[d].at # "release"
    BY <2>2 DEF NoCall
  <2>4. /\ Len(ledger') = Len(ledger) + Len(call[c].rest)
        /\ \A i \in 1..Len(ledger) :
             \/ ledger'[i] = ledger[i] /\ \A k \in 1..n : plan[k].id # i
             \/ \E k \in 1..n :
                  plan[k].id = i /\ ledger'[i] = Released(ledger[i], plan[k].paid, p)
    BY <1>7, ReleaseEffect
  <2>5. Ids' = Ids
    BY <1>2, <1>7, <1>i, <2>4
  <2>6. ASSUME NEW i \in Ids PROVE ledger'[i].net >= due[i]
    <3>1. CASE ledger'[i] = ledger[i]
      BY <1>2, <3>1
    <3>2. ASSUME NEW k \in 1..n, plan[k].id = i,
                 ledger'[i] = Released(ledger[i], plan[k].paid, p)
          PROVE  ledger'[i].net >= due[i]
      <4>1. \A e \in Entry : \A m, q : Released(e, m, q).net = m.net
        BY DEF Entry, Released
      <4>2. ledger'[i].net = plan[k].paid.net
        BY <1>2, <3>2, <4>1
      <4>3. Deferred(c, k) = 0
        BY <1>7 DEF Deferred
      <4>4. plan[k].paid.net + Deferred(c, k) >= due[i]
        BY <1>1, <2>1, <3>2 DEF Backs
      <4>5. plan[k].paid.net \in Int
        <5>1. plan[k].paid \in Money
          BY <2>1, CallFields DEF Idle
        <5> QED BY <5>1 DEF Money
      <4> HIDE DEF plan
      <4> QED BY <4>2, <4>3, <4>4, <4>5
    <3> QED BY <1>2, <2>4, <3>1, <3>2
  <2> QED BY <1>1, <1>l, <1>c, <2>3, <2>5, <2>6, SharesGrow
<1>8. ASSUME NEW c \in Callers, ReleasePayout(c), call[c].rest # <<>> PROVE Backed'
  BY <1>8, SplitBacked
<1>9. ASSUME NEW c \in Callers, NEW s \in Sellers, NEW a \in Amounts,
             CreatePayout(c, s, a) \/ AddAdCredit(c, s, a)
      PROVE  Backed'
  <2>1. \A d \in Callers : call'[d] = call[d] \/ call'[d].at # "release"
    BY <1>9 DEF CreatePayout, AddAdCredit, TypeOK, SellerTypeOK
  <2> QED BY <1>9, <1>u, <2>1 DEF CreatePayout, AddAdCredit
<1>10. ASSUME NEW c \in Callers, AbortCall(c) PROVE Backed'
  <2>1. \A d \in Callers : call'[d] = call[d] \/ call'[d].at # "release"
    BY <1>10 DEF AbortCall, TypeOK, SellerTypeOK, NoCall
  <2> QED BY <1>10, <1>u, <2>1 DEF AbortCall
<1>11. CASE \/ HandleOrderItemUpdated \/ AbortSettling \/ SellersRest
            \/ \E s \in Sellers, a \in Amounts : GrantAdCredit(s, a)
  <2>1. UNCHANGED <<ledger, call>>
    BY <1>11 DEF HandleOrderItemUpdated, AbortSettling, SellersRest, sellerVars, GrantAdCredit
  <2> QED BY <1>u, <2>1
<1> QED BY <1>3, <1>4, <1>5, <1>6, <1>7, <1>8, <1>9, <1>10, <1>11 DEF SellerStep

\* At the start nothing is escrowed.
LEMMA BackedInit == Init => Backed
<1> SUFFICES ASSUME Init PROVE Backed
  OBVIOUS
<1>1. /\ Ids = {} /\ \A c \in Callers : call[c].at = "idle"
  BY DEF Init, SellerInit, NoCall, Ids
<1>2. \A o, s : RowsOf(o, s) = {}
  BY <1>1 DEF RowsOf
<1>3. \A f : SumOf(f, {}) = 0
  BY SumEmpty
<1>4. PICK due \in [Ids -> Int] : TRUE
  <2>1. [i \in Ids |-> 0] \in [Ids -> Int]
    OBVIOUS
  <2> QED BY <2>1
<1>5. Backs(due)
  BY <1>1, <1>2, <1>3 DEF Backs
<1> QED BY <1>5 DEF Backed

\* However the payouts that read the same rows, the ad credits and the deliveries
\* interleave, no order's rows ever add up to less than what was escrowed for it.
THEOREM SplitsLoseNothing == Spec => []LedgerNeverShort
<1>1. TypeOK /\ Shape /\ Backed /\ [Next]_vars => TypeOK' /\ Shape' /\ Backed'
  BY SellerTypeStep, ShapeStep, BackedStep
<1>2. Init => TypeOK /\ Shape /\ Backed
  BY SellerInitType, ShapeInit, BackedInit
<1> QED BY <1>1, <1>2, BackedSuffices, PTL DEF Spec

-----------------------------------------------------------------------------
(* A seller has earned money of no more orders than it has delivered.          *)

\* Row i is among those that a goroutine is about to release.
Planned(i) ==
  \E c \in Callers : /\ call[c].at = "release"
                     /\ \E k \in 1..Len(call[c].plan) : call[c].plan[k].id = i

\* Row i has left escrow, or is about to be paid though it was refunded since.
OutOfEscrow(i) == ledger[i].status \in {"earned", "payout_released"} \/ Planned(i)

FreedRows(s) ==
  {i \in Ids : ledger[i].seller = s /\ ledger[i].order # NoOrder /\ OutOfEscrow(i)}

Freed(s) == {ledger[i].order : i \in FreedRows(s)}

FreedHeld == \A s \in Sellers : Cardinality(Freed(s)) <= sales[s]

\* There are finitely many of these orders.
LEMMA FreedFinite ==
  ASSUME TypeOK, NEW s
  PROVE  IsFiniteSet(Freed(s)) /\ Cardinality(Freed(s)) \in Nat
<1> DEFINE rows == FreedRows(s)
           f == [i \in rows |-> ledger[i].order]
<1>1. IsFiniteSet(rows)
  <2>1. IsFiniteSet(Ids) /\ rows \subseteq Ids
    BY LedgerRows, FS_Interval DEF FreedRows
  <2> HIDE DEF rows
  <2> QED BY <2>1, FS_Subset
<1>2. f \in Surjection(rows, Freed(s))
  BY DEF Surjection, Freed
<1>3. IsFiniteSet(Freed(s))
  <2> HIDE DEF f, rows
  <2> QED BY <1>1, <1>2, FS_Surjection
<1> QED BY <1>3, FS_CardinalityType

\* FreedHeld says more than EscrowHolds.
LEMMA FreedSuffices == TypeOK /\ FreedHeld => EscrowHolds
<1> SUFFICES ASSUME TypeOK, FreedHeld, NEW s \in Sellers
             PROVE  Cardinality({ledger[i].order :
                      i \in {j \in Ids : /\ ledger[j].seller = s
                                         /\ ledger[j].order # NoOrder
                                         /\ ledger[j].status \in {"earned", "payout_released"}}})
                      <= sales[s]
  BY DEF EscrowHolds
<1> DEFINE out == {ledger[i].order :
                     i \in {j \in Ids : /\ ledger[j].seller = s
                                        /\ ledger[j].order # NoOrder
                                        /\ ledger[j].status \in {"earned", "payout_released"}}}
<1>1. out \subseteq Freed(s)
  BY DEF Freed, FreedRows, OutOfEscrow
<1> HIDE DEF out
<1>2. Cardinality(out) <= Cardinality(Freed(s)) /\ Cardinality(out) \in Nat
  BY <1>1, FreedFinite, FS_Subset, FS_CardinalityType
<1>3. Cardinality(Freed(s)) <= sales[s] /\ sales[s] \in Nat
  BY DEF FreedHeld, TypeOK, SellerTypeOK
<1> QED BY <1>2, <1>3, FreedFinite DEF out

\* Row j, now out of escrow, is of the order and seller of one that was.
Inherits(j) ==
  \E i \in Ids : /\ ledger'[j].seller = ledger[i].seller
                 /\ ledger'[j].order = ledger[i].order
                 /\ OutOfEscrow(i)

\* A step after which every row out of escrow inherits frees no more orders.
LEMMA FreedKept ==
  ASSUME TypeOK, TypeOK', FreedHeld, UNCHANGED sales,
         \A j \in Ids' : ledger'[j].order # NoOrder /\ OutOfEscrow(j)' => Inherits(j)
  PROVE  FreedHeld'
<1> SUFFICES ASSUME NEW s \in Sellers
             PROVE  Cardinality(Freed(s)') <= sales'[s]
  BY DEF FreedHeld
<1>1. Freed(s)' \subseteq Freed(s)
  BY DEF Freed, FreedRows, Inherits
<1>2. /\ Cardinality(Freed(s)') <= Cardinality(Freed(s))
      /\ Cardinality(Freed(s)') \in Nat /\ Cardinality(Freed(s)) \in Nat
  BY <1>1, FreedFinite, FS_Subset, FS_CardinalityType
<1>3. Cardinality(Freed(s)) <= sales[s] /\ sales[s] \in Nat
  BY DEF FreedHeld, TypeOK, SellerTypeOK
<1> QED BY <1>2, <1>3

\* A delivery frees the money of one order, and is counted.
LEMMA FreedBySettling ==
  ASSUME TypeOK, TypeOK', Shape, FreedHeld, SettleEarnings
  PROVE  FreedHeld'
<1>1. PICK o \in Orders : \A i \in settling.ids :
        ledger[i].order = o /\ ledger[i].seller = settling.seller
  BY DEF Shape, SettlingSound, SettleEarnings
<1>2. /\ settling.ids \subseteq Ids /\ settling.status \in {"earned", "refunded"}
      /\ settling.seller \in Sellers
  BY SettleEffect DEF Shape, SettlingSound, SettleEarnings, Settling
<1>3. /\ Ids' = Ids /\ call' = call
      /\ \A i \in Ids : ledger[i] \in Entry
      /\ \A i \in Ids : ledger'[i] = IF i \in settling.ids
                                     THEN [ledger[i] EXCEPT !.status = settling.status]
                                     ELSE ledger[i]
  BY SettleEffect, LedgerRows DEF Ids, SettleEarnings
<1>4. \A i \in Ids : ledger'[i].seller = ledger[i].seller /\ ledger'[i].order = ledger[i].order
  BY LastingStep DEF SellerStep, Lasting
<1>5. \A i \in Ids : Planned(i)' <=> Planned(i)
  BY <1>3 DEF Planned
<1>6. \A i \in settling.ids : ledger'[i].status = settling.status
  <2>1. \A e \in Entry : [e EXCEPT !.status = settling.status].status = settling.status
    BY DEF Entry
  <2> TAKE i \in settling.ids
  <2>2. i \in Ids /\ ledger[i] \in Entry
    BY <1>2, <1>3
  <2>3. ledger'[i] = [ledger[i] EXCEPT !.status = settling.status]
    BY <1>3, <2>2
  <2>4. [ledger[i] EXCEPT !.status = settling.status].status = settling.status
    BY <2>1, <2>2
  <2> QED BY <2>3, <2>4
<1>7. \A j \in Ids' : OutOfEscrow(j)' =>
        OutOfEscrow(j) \/ (j \in settling.ids /\ settling.status = "earned")
  <2> TAKE j \in Ids'
  <2>1. CASE j \in settling.ids
    BY <1>2, <1>3, <1>5, <1>6, <2>1 DEF OutOfEscrow
  <2>2. CASE j \notin settling.ids
    <3>1. ledger'[j] = ledger[j]
      BY <1>3, <2>2
    <3> QED BY <1>3, <1>5, <3>1 DEF OutOfEscrow
  <2> QED BY <2>1, <2>2
<1>8. CASE settling.status # "earned"
  <2>1. UNCHANGED sales
    BY <1>8 DEF SettleEarnings
  <2>2. \A j \in Ids' : OutOfEscrow(j)' => Inherits(j)
    BY <1>3, <1>4, <1>7, <1>8 DEF Inherits
  <2> QED BY <2>1, <2>2, FreedKept
<1>9. CASE settling.status = "earned"
  <2> SUFFICES ASSUME NEW s \in Sellers
               PROVE  Cardinality(Freed(s)') <= sales'[s]
    BY DEF FreedHeld
  <2>1. Cardinality(Freed(s)) <= sales[s] /\ sales[s] \in Nat /\ sales \in [Sellers -> Nat]
    BY DEF FreedHeld, TypeOK, SellerTypeOK
  <2>2. sales' = [sales EXCEPT ![settling.seller] = sales[settling.seller] + 1]
    BY <1>9 DEF SettleEarnings
  <2>3. Freed(s)' \subseteq Freed(s) \cup {x \in {o} : s = settling.seller}
    <3> SUFFICES ASSUME NEW j \in Ids', ledger'[j].seller = s, ledger'[j].order # NoOrder,
                        OutOfEscrow(j)'
                 PROVE  ledger'[j].order \in Freed(s) \cup {x \in {o} : s = settling.seller}
      BY DEF Freed, FreedRows
    <3>1. j \in Ids /\ ledger[j].seller = s /\ ledger[j].order = ledger'[j].order
      BY <1>3, <1>4
    <3>2. CASE OutOfEscrow(j)
      BY <3>1, <3>2 DEF Freed, FreedRows
    <3>3. CASE j \in settling.ids
      BY <1>1, <3>1, <3>3
    <3> QED BY <1>7, <3>2, <3>3
  <2>4. CASE s = settling.seller
    <3>1. Freed(s)' \subseteq Freed(s) \cup {o}
      BY <2>3
    <3>2. /\ IsFiniteSet(Freed(s) \cup {o})
          /\ Cardinality(Freed(s) \cup {o}) <= Cardinality(Freed(s)) + 1
          /\ Cardinality(Freed(s) \cup {o}) \in Nat
      <4>1. IsFiniteSet(Freed(s)) /\ Cardinality(Freed(s)) \in Nat
        BY FreedFinite
      <4>2. IsFiniteSet(Freed(s) \cup {o})
        BY <4>1, FS_AddElement
      <4>3. \/ Cardinality(Freed(s) \cup {o}) = Cardinality(Freed(s))
            \/ Cardinality(Freed(s) \cup {o}) = Cardinality(Freed(s)) + 1
        BY <4>1, FS_AddElement
      <4> QED BY <4>1, <4>2, <4>3
    <3>3. Cardinality(Freed(s)') <= Cardinality(Freed(s) \cup {o}) /\ Cardinality(Freed(s)') \in Nat
      BY <3>1, <3>2, FS_Subset, FS_CardinalityType
    <3>4. sales'[s] = sales[s] + 1
      BY <2>1, <2>2, <2>4
    <3> QED BY <2>1, <3>2, <3>3, <3>4, FreedFinite
  <2>5. CASE s # settling.seller
    <3>1. Freed(s)' \subseteq Freed(s)
      BY <2>3, <2>5
    <3>2. Cardinality(Freed(s)') <= Cardinality(Freed(s)) /\ Cardinality(Freed(s)') \in Nat
      BY <3>1, FreedFinite, FS_Subset, FS_CardinalityType
    <3>3. sales'[s] = sales[s]
      BY <2>1, <2>2, <2>5
    <3> QED BY <2>1, <3>2, <3>3, FreedFinite
  <2> QED BY <2>4, <2>5
<1> QED BY <1>8, <1>9

\* Every step keeps the orders freed within the deliveries.
LEMMA FreedStep ==
  ASSUME TypeOK, TypeOK', Shape, FreedHeld, SellerStep \/ SellersRest
  PROVE  FreedHeld'
<1>0. Len(ledger) \in Nat /\ Ids = 1..Len(ledger) /\ Ids' = 1..Len(ledger')
  BY LedgerRows DEF Ids
<1>l. \A i \in Ids : ledger'[i].seller = ledger[i].seller /\ ledger'[i].order = ledger[i].order
  BY LastingStep DEF Lasting
<1>i. \A i \in Ids : OutOfEscrow(i) => Inherits(i)
  BY <1>l DEF Inherits
<1>p. ASSUME NEW i, \A c \in Callers : call'[c] = call[c] \/ call'[c].at # "release"
      PROVE  Planned(i)' => Planned(i)
  BY <1>p DEF Planned
<1>r. \A i : Planned(i) => i \in Ids
  BY DEF Planned, Shape, PlanSound
<1>u. ASSUME UNCHANGED <<ledger, sales>>,
             \A c \in Callers : call'[c] = call[c] \/ call'[c].at # "release"
      PROVE  FreedHeld'
  <2>1. Ids' = Ids
    BY <1>u DEF Ids
  <2>2. \A j \in Ids' : OutOfEscrow(j)' => OutOfEscrow(j)
    BY <1>p, <1>u DEF OutOfEscrow
  <2> QED BY <1>i, <1>u, <2>1, <2>2, FreedKept
<1>1. CASE HandleOrderConfirmed
  <2>1. UNCHANGED <<sales, call>>
    BY <1>1 DEF HandleOrderConfirmed
  <2>2. \A i : Planned(i)' => Planned(i)
    BY <1>p, <2>1
  <2>3. Len(ledger') \in Nat
    <3>1. ledger' \in Seq(Entry)
      BY <1>1, ConfirmedEffect
    <3> QED BY <3>1
  <2>4. ASSUME NEW j \in Ids', OutOfEscrow(j)'
        PROVE  Inherits(j)
    <3>1. CASE j \in Ids
      <4>1. ledger'[j] = ledger[j]
        BY <1>0, <1>1, <3>1, ConfirmedEffect
      <4>2. OutOfEscrow(j)
        BY <2>2, <2>4, <4>1 DEF OutOfEscrow
      <4> QED BY <1>i, <3>1, <4>2
    <3>2. CASE j \notin Ids
      <4>1. j \in (Len(ledger) + 1)..Len(ledger')
        BY <1>0, <2>3, <3>2
      <4>2. ledger'[j].status = "escrowed"
        BY <1>1, <4>1, ConfirmedEffect
      <4> QED BY <1>r, <2>2, <2>4, <3>2, <4>2 DEF OutOfEscrow
    <3> QED BY <3>1, <3>2
  <2> QED BY <2>1, <2>4, FreedKept
<1>2. CASE SettleEarnings
  BY <1>2, FreedBySettling
<1>3. ASSUME NEW c \in Callers, FetchEarned(c) PROVE FreedHeld'
  <2> DEFINE plan == call'[c].plan
  <2>1. /\ call' = [call EXCEPT ![c] = call'[c]] /\ call'[c] \in Call
        /\ \A k \in 1..Len(plan) : /\ plan[k].id \in 1..Len(ledger)
                                   /\ ledger[plan[k].id].status = "earned"
    BY <1>3, FetchEffect
  <2>2. /\ UNCHANGED <<ledger, sales>> /\ \A d \in Callers \ {c} : call'[d] = call[d]
    BY <1>3, <2>1, CallKept DEF FetchEarned
  <2>3. Ids' = Ids
    BY <2>2 DEF Ids
  <2>4. ASSUME NEW j \in Ids, OutOfEscrow(j)' PROVE OutOfEscrow(j)
    <3>1. CASE Planned(j)'
      <4>1. PICK d \in Callers : /\ call'[d].at = "release"
                                 /\ \E k \in 1..Len(call'[d].plan) : call'[d].plan[k].id = j
        BY <3>1 DEF Planned
      <4>2. CASE d = c
        BY <2>1, <4>1, <4>2 DEF OutOfEscrow
      <4>3. CASE d # c
        BY <2>2, <4>1, <4>3 DEF OutOfEscrow, Planned
      <4> QED BY <4>2, <4>3
    <3>2. CASE ~Planned(j)'
      BY <2>2, <2>4, <3>2 DEF OutOfEscrow
    <3> QED BY <3>1, <3>2
  <2> QED BY <1>i, <2>2, <2>3, <2>4, FreedKept
<1>4. ASSUME NEW c \in Callers, ReleasePayout(c) PROVE FreedHeld'
  <2> DEFINE plan == call[c].plan
             rest == call[c].rest
             n == Len(plan)
             p == Len(payouts) + 1
  <2>1. /\ call' = [call EXCEPT ![c] = NoCall] /\ call[c].at = "release" /\ UNCHANGED sales
    BY <1>4 DEF ReleasePayout
  <2>2. \A i : Planned(i)' => Planned(i)
    <3>1. call'[c] = NoCall /\ \A d \in Callers \ {c} : call'[d] = call[d]
      BY <2>1, CallKept
    <3>2. \A d \in Callers : call'[d] = call[d] \/ call'[d].at # "release"
      BY <3>1 DEF NoCall
    <3> QED BY <1>p, <3>2
  <2>3. /\ Len(ledger') = Len(ledger) + Len(rest)
        /\ \A i \in 1..Len(ledger) :
             \/ ledger'[i] = ledger[i] /\ \A k \in 1..n : plan[k].id # i
             \/ \E k \in 1..n :
                  plan[k].id = i /\ ledger'[i] = Released(ledger[i], plan[k].paid, p)
        /\ \A j \in 1..Len(rest) : ledger'[Len(ledger) + j] = rest[j]
    BY <1>4, ReleaseEffect
  <2>4. \A k \in 1..n : Planned(plan[k].id) /\ plan[k].id \in Ids
    BY <2>1 DEF Planned, Shape, PlanSound
  <2>5. ASSUME NEW j \in Ids, OutOfEscrow(j)' PROVE OutOfEscrow(j)
    <3>1. CASE \E k \in 1..n : plan[k].id = j
      BY <2>4, <3>1 DEF OutOfEscrow
    <3>2. CASE ~\E k \in 1..n : plan[k].id = j
      <4>1. ledger'[j] = ledger[j]
        BY <1>0, <2>3, <3>2
      <4> QED BY <2>2, <2>5, <4>1 DEF OutOfEscrow
    <3> QED BY <3>1, <3>2
  <2>6. ASSUME NEW j \in Ids', j \notin Ids PROVE Inherits(j)
    <3>0. n \in Nat /\ rest \in Seq(Entry)
      BY <2>1, CallFields DEF Idle
    <3>1. rest # <<>>
      BY <1>0, <2>3, <2>6
    <3>2. /\ n > 0 /\ Len(rest) = 1 /\ rest[1].order = ledger[plan[n].id].order
          /\ rest[1].seller = ledger[plan[n].id].seller
      BY <2>1, <3>1 DEF Shape, PlanSound
    <3>3. 1 \in 1..Len(rest) /\ n \in 1..n
      BY <3>0, <3>2
    <3> HIDE DEF rest, plan, n
    <3>4. Len(ledger') = Len(ledger) + 1 /\ ledger'[Len(ledger) + 1] = rest[1]
      BY <2>3, <3>2, <3>3
    <3>5. j = Len(ledger) + 1
      BY <1>0, <2>6, <3>4
    <3>6. plan[n].id \in Ids /\ OutOfEscrow(plan[n].id)
      BY <2>4, <3>3 DEF OutOfEscrow
    <3> QED BY <3>2, <3>4, <3>5, <3>6 DEF Inherits
  <2> QED BY <1>i, <2>1, <2>5, <2>6, FreedKept
<1>5. ASSUME NEW c \in Callers, CommitAdCredit(c) PROVE FreedHeld'
  <2> DEFINE rest == call[c].rest
  <2>1. /\ call' = [call EXCEPT ![c] = NoCall] /\ call[c].at = "credit" /\ UNCHANGED sales
    BY <1>5 DEF CommitAdCredit
  <2>2. \A i : Planned(i)' => Planned(i)
    <3>1. call'[c] = NoCall /\ \A d \in Callers \ {c} : call'[d] = call[d]
      BY <2>1, CallKept
    <3>2. \A d \in Callers : call'[d] = call[d] \/ call'[d].at # "release"
      BY <3>1 DEF NoCall
    <3> QED BY <1>p, <3>2
  <2>3. Len(rest) = 1 /\ rest[1].order = NoOrder
    BY <2>1 DEF Shape, PlanSound
  <2>4. /\ Len(ledger') = Len(ledger) + Len(rest)
        /\ \A i \in 1..Len(ledger) : ledger'[i] = ledger[i]
        /\ \A j \in 1..Len(rest) : ledger'[Len(ledger) + j] = rest[j]
    BY <1>5, CreditEffect
  <2> HIDE DEF rest
  <2>5. ASSUME NEW j \in Ids, OutOfEscrow(j)' PROVE OutOfEscrow(j)
    <3>1. ledger'[j] = ledger[j]
      BY <1>0, <2>4
    <3> QED BY <2>2, <2>5, <3>1 DEF OutOfEscrow
  <2>6. ASSUME NEW j \in Ids', j \notin Ids PROVE ledger'[j].order = NoOrder
    <3>1. Len(ledger') = Len(ledger) + 1 /\ ledger'[Len(ledger) + 1] = rest[1]
      BY <2>3, <2>4
    <3>2. j = Len(ledger) + 1
      BY <1>0, <2>6, <3>1
    <3> QED BY <2>3, <3>1, <3>2
  <2> QED BY <1>i, <2>1, <2>5, <2>6, FreedKept
<1>6. ASSUME NEW c \in Callers, NEW s \in Sellers, NEW a \in Amounts,
             CreatePayout(c, s, a) \/ AddAdCredit(c, s, a)
      PROVE  FreedHeld'
  <2>1. \A d \in Callers : call'[d] = call[d] \/ call'[d].at # "release"
    BY <1>6 DEF CreatePayout, AddAdCredit, TypeOK, SellerTypeOK
  <2> QED BY <1>6, <1>u, <2>1 DEF CreatePayout, AddAdCredit
<1>7. ASSUME NEW c \in Callers, AbortCall(c) PROVE FreedHeld'
  <2>1. \A d \in Callers : call'[d] = call[d] \/ call'[d].at # "release"
    BY <1>7 DEF AbortCall, TypeOK, SellerTypeOK, NoCall
  <2> QED BY <1>7, <1>u, <2>1 DEF AbortCall
<1>8. CASE \/ HandleOrderItemUpdated \/ AbortSettling \/ SellersRest
           \/ \E s \in Sellers, a \in Amounts : GrantAdCredit(s, a)
  <2>1. UNCHANGED <<ledger, sales, call>>
    BY <1>8 DEF HandleOrderItemUpdated, AbortSettling, SellersRest, sellerVars, GrantAdCredit
  <2> QED BY <1>u, <2>1
<1> QED BY <1>1, <1>2, <1>3, <1>4, <1>5, <1>6, <1>7, <1>8 DEF SellerStep

\* At the start no order's money is out of escrow.
LEMMA FreedInit == Init => FreedHeld
<1> SUFFICES ASSUME Init, NEW s \in Sellers PROVE Cardinality(Freed(s)) <= sales[s]
  BY DEF FreedHeld
<1>1. Ids = {} /\ sales[s] = 0
  BY DEF Init, SellerInit, Ids
<1>2. Freed(s) = {}
  BY <1>1 DEF Freed, FreedRows
<1> QED BY <1>1, <1>2, FS_EmptySet

\* A seller has earned money of no more orders than it has delivered, whatever is
\* lost, repeated or cut short, and however payouts, updates and cancellations
\* overtake each other.
THEOREM EscrowIsKept == Spec => []EscrowHolds
<1>1. TypeOK /\ Shape /\ FreedHeld /\ [Next]_vars => TypeOK' /\ Shape' /\ FreedHeld'
  BY SellerTypeStep, ShapeStep, FreedStep
<1>2. Init => TypeOK /\ Shape /\ FreedHeld
  BY SellerInitType, ShapeInit, FreedInit
<1> QED BY <1>1, <1>2, FreedSuffices, PTL DEF Spec

-----------------------------------------------------------------------------
(* With one call at a time, nothing is paid twice.                            *)

\* A row of an order stands for money, an entry for ads takes it away.
RightSign(e) == IF e.order = NoOrder THEN e.net <= 0 ELSE e.net >= 0

Signed == \A i \in Ids : RightSign(ledger[i])

\* Nothing happened to the entries of seller s yet.
Untouched(s) ==
  /\ \A c \in Callers : ~Idle(c) => call[c].seller # s
  /\ \A k \in 1..Len(payouts) : payouts[k].seller # s
  /\ \A i \in Ids : ledger[i].seller = s => IsOriginal(i) /\ ledger[i].net = SaleNet

WhileUnsold == \A s \in Sellers : sales[s] = 0 => Untouched(s)

\* The only goroutine knows exactly what its rows are worth: the portion that it
\* is to write and the remainder that it is to insert.  It splits no entry for
\* ads, and those that it releases nobody else touches.
PlanExact(c) ==
  LET plan == call[c].plan
      rest == call[c].rest
  IN
  /\ call[c].at = "release" =>
       /\ \A j, k \in 1..Len(plan) : plan[j].id = plan[k].id => j = k
       /\ \A k \in 1..Len(plan) :
            LET e == ledger[plan[k].id] IN
            /\ e.net = plan[k].paid.net + Deferred(c, k)
            /\ e.order = NoOrder => e.status = "earned" /\ Deferred(c, k) = 0
            /\ e.order # NoOrder => plan[k].paid.net >= 0
  /\ call[c].at = "credit" =>
       rest[1].status = "earned" /\ rest[1].net <= 0 /\ rest[1].seller = call[c].seller

\* Row i is money that the seller has, or that a payout is about to release
\* whatever the row says by then.
Held(i) == ledger[i].status \in {"escrowed", "earned"} \/ Planned(i)

HeldNet(i)   == IF Held(i) THEN ledger[i].net ELSE 0
AdNet(i)     == IF ledger[i].order = NoOrder THEN ledger[i].net ELSE 0
EscrowNet(i) == IF IsOriginal(i) THEN SaleNet ELSE 0

\* What row i lets seller s claim beyond what was escrowed.
Worth(s) ==
  [i \in Ids |-> IF ledger[i].seller = s THEN HeldNet(i) - AdNet(i) - EscrowNet(i) ELSE 0]

\* What the seller was paid is not in any row any more.
Balanced == \A s \in Sellers : sales[s] <= 1 => PaidOut(s) + SumOf(Worth(s), Ids) <= 0

PaidInv ==
  Cardinality(Callers) = 1 =>
    Signed /\ WhileUnsold /\ (\A c \in Callers : PlanExact(c)) /\ Balanced

\* The rows after an order is confirmed,
LEMMA ConfirmedRows ==
  ASSUME TypeOK, HandleOrderConfirmed
  PROVE  /\ Ids \subseteq Ids' /\ \A i \in Ids : ledger'[i] = ledger[i]
         /\ \A i \in Ids' \ Ids :
              /\ ledger'[i].status = "escrowed" /\ ledger'[i].order # NoOrder
              /\ ledger'[i].net = SaleNet /\ IsOriginal(i)'
<1>1. /\ Len(ledger) \in Nat /\ Ids = 1..Len(ledger) /\ Ids' = 1..Len(ledger')
      /\ ledger' \in Seq(Entry) /\ Len(ledger') >= Len(ledger)
      /\ \A i \in 1..Len(ledger) : ledger'[i] = ledger[i]
      /\ \A i \in (Len(ledger) + 1)..Len(ledger') :
           /\ ledger'[i].status = "escrowed" /\ ledger'[i].order \in Orders
           /\ ledger'[i].net = SaleNet /\ ledger'[i].born = i
  BY LedgerRows, ConfirmedEffect DEF Ids
<1>2. Len(ledger') \in Nat
  BY <1>1
<1>3. Ids \subseteq Ids' /\ \A i \in Ids' \ Ids : i \in (Len(ledger) + 1)..Len(ledger')
  BY <1>1, <1>2
<1> QED BY <1>1, <1>3, SaleAmounts DEF IsOriginal

\* ... after an update has settled them,
LEMMA SettledRows ==
  ASSUME TypeOK, SettlingSound, SettleEarnings
  PROVE  /\ Ids' = Ids /\ settling.status \in {"earned", "refunded"}
         /\ settling.seller \in Sellers
         /\ \A i \in Ids : /\ ledger'[i].net = ledger[i].net
                           /\ ledger'[i].order = ledger[i].order
                           /\ ledger'[i].seller = ledger[i].seller
                           /\ ledger'[i].born = ledger[i].born
                           /\ i \notin settling.ids => ledger'[i] = ledger[i]
                           /\ i \in settling.ids =>
                                /\ ledger'[i].status = settling.status
                                /\ ledger[i].order # NoOrder
                                /\ ledger[i].seller = settling.seller
<1>1. /\ settling \in Settling /\ Len(ledger') = Len(ledger)
      /\ \A i \in 1..Len(ledger) :
           ledger'[i] = IF i \in settling.ids
                        THEN [ledger[i] EXCEPT !.status = settling.status]
                        ELSE ledger[i]
  BY SettleEffect
<1>2. /\ settling # NoSettling /\ settling.seller \in Sellers /\ settling.status \in EarningStatus
  BY <1>1 DEF SettleEarnings, Settling
<1>3. /\ settling.status \in {"earned", "refunded"}
      /\ \A i \in settling.ids : ledger[i].order # NoOrder /\ ledger[i].seller = settling.seller
  BY <1>2, SaleAmounts DEF SettlingSound
<1>4. Ids' = Ids /\ Ids = 1..Len(ledger) /\ \A i \in Ids : ledger[i] \in Entry
  BY <1>1, LedgerRows DEF Ids
<1>5. ASSUME NEW i \in Ids
      PROVE  /\ ledger'[i].net = ledger[i].net
             /\ ledger'[i].order = ledger[i].order
             /\ ledger'[i].seller = ledger[i].seller
             /\ ledger'[i].born = ledger[i].born
             /\ i \notin settling.ids => ledger'[i] = ledger[i]
             /\ i \in settling.ids => ledger'[i].status = settling.status
  <2>1. CASE i \in settling.ids
    <3>1. ledger'[i] = [ledger[i] EXCEPT !.status = settling.status]
      BY <1>1, <1>4, <2>1
    <3> QED BY <1>2, <1>4, <2>1, <3>1, EntryKept
  <2>2. CASE i \notin settling.ids
    BY <1>1, <1>4, <2>2
  <2> QED BY <2>1, <2>2
<1> QED BY <1>2, <1>3, <1>4, <1>5

\* ... after a payout,
LEMMA ReleasedRows ==
  ASSUME TypeOK, Shape, NEW c \in Callers, ReleasePayout(c)
  PROVE  LET plan == call[c].plan
             rest == call[c].rest
             L    == Len(ledger) + 1
         IN
         /\ \A i \in Ids :
              /\ ledger'[i].order = ledger[i].order
              /\ ledger'[i].seller = ledger[i].seller
              /\ ledger'[i].born = ledger[i].born
              /\ \/ ledger'[i] = ledger[i] /\ \A k \in 1..Len(plan) : plan[k].id # i
                 \/ \E k \in 1..Len(plan) : /\ plan[k].id = i
                                            /\ ledger'[i].status = "payout_released"
                                            /\ ledger'[i].net = plan[k].paid.net
         /\ rest = <<>> => Ids' = Ids
         /\ rest # <<>> =>
              /\ L \notin Ids /\ Ids' = Ids \cup {L} /\ ledger'[L] = rest[1]
              /\ Len(plan) \in 1..Len(plan) /\ plan[Len(plan)].id \in Ids
              /\ rest[1].net \in Int /\ rest[1].net > 0
              /\ rest[1].seller = call[c].seller
              /\ rest[1].order = ledger[plan[Len(plan)].id].order
              /\ ledger'[L].born # L
<1> DEFINE plan == call[c].plan
           rest == call[c].rest
           n == Len(plan)
           L == Len(ledger) + 1
           p == Len(payouts) + 1
<1>1. call[c].at = "release" /\ ~Idle(c) /\ p \in Nat
  <2>1. payouts \in Seq(Payout)
    BY DEF TypeOK, SellerTypeOK
  <2>2. p \in Nat
    BY <2>1
  <2>3. call[c].at = "release"
    BY DEF ReleasePayout
  <2> QED BY <2>2, <2>3 DEF Idle
<1>2. n \in Nat /\ rest \in Seq(Entry) /\ \A k \in 1..n : plan[k].paid \in Money
  BY <1>1, CallFields
<1>3. /\ Len(ledger') = Len(ledger) + Len(rest)
      /\ \A i \in 1..Len(ledger) :
           \/ ledger'[i] = ledger[i] /\ \A k \in 1..n : plan[k].id # i
           \/ \E k \in 1..n : plan[k].id = i /\ ledger'[i] = Released(ledger[i], plan[k].paid, p)
      /\ \A j \in 1..Len(rest) : ledger'[Len(ledger) + j] = rest[j]
  BY ReleaseEffect
<1>4. /\ Len(ledger) \in Nat /\ Ids = 1..Len(ledger) /\ Ids' = 1..Len(ledger')
      /\ \A i \in Ids : ledger[i] \in Entry
  BY LedgerRows DEF Ids
<1> HIDE DEF p
<1>5. ASSUME NEW i \in Ids
      PROVE  /\ ledger'[i].order = ledger[i].order
             /\ ledger'[i].seller = ledger[i].seller
             /\ ledger'[i].born = ledger[i].born
             /\ \/ ledger'[i] = ledger[i] /\ \A k \in 1..n : plan[k].id # i
                \/ \E k \in 1..n : /\ plan[k].id = i
                                   /\ ledger'[i].status = "payout_released"
                                   /\ ledger'[i].net = plan[k].paid.net
  <2> HIDE DEF plan, n, rest
  <2>1. CASE ledger'[i] = ledger[i] /\ \A k \in 1..n : plan[k].id # i
    BY <2>1
  <2>2. ASSUME NEW k \in 1..n, plan[k].id = i, ledger'[i] = Released(ledger[i], plan[k].paid, p)
        PROVE  /\ ledger'[i].order = ledger[i].order
               /\ ledger'[i].seller = ledger[i].seller
               /\ ledger'[i].born = ledger[i].born
               /\ ledger'[i].status = "payout_released"
               /\ ledger'[i].net = plan[k].paid.net
    <3>1. ledger[i] \in Entry /\ plan[k].paid \in Money /\ p \in Nat
      BY <1>1, <1>2, <1>4
    <3> QED BY <2>2, <3>1, EntryKept
  <2> QED BY <1>3, <1>4, <2>1, <2>2
<1>6. rest = <<>> => Ids' = Ids
  BY <1>3, <1>4
<1>7. ASSUME rest # <<>>
      PROVE  /\ L \notin Ids /\ Ids' = Ids \cup {L} /\ ledger'[L] = rest[1]
             /\ n \in 1..n /\ plan[n].id \in Ids
             /\ rest[1].net \in Int /\ rest[1].net > 0
             /\ rest[1].seller = call[c].seller
             /\ rest[1].order = ledger[plan[n].id].order
             /\ ledger'[L].born # L
  <2>1. /\ n > 0 /\ Len(rest) = 1 /\ rest[1].net > 0
        /\ rest[1].order = ledger[plan[n].id].order
        /\ rest[1].seller = ledger[plan[n].id].seller
        /\ rest[1].born <= Len(ledger)
        /\ \A k \in 1..n : plan[k].id \in Ids /\ ledger[plan[k].id].seller = call[c].seller
    BY <1>1, <1>7 DEF Shape, PlanSound
  <2> HIDE DEF rest, plan, n
  <2>2. rest[1] \in Entry /\ n \in 1..n
    <3>0. rest \in Seq(Entry) /\ Len(rest) = 1
      BY <1>2, <2>1
    <3>1. rest[1] \in Entry
      BY <3>0
    <3>2. n \in 1..n
      BY <1>2, <2>1
    <3> QED BY <3>1, <3>2
  <2>3. rest[1].net \in Int /\ rest[1].born \in Nat
    BY <2>2, EntryFields
  <2>4. Len(ledger') = L /\ ledger'[L] = rest[1]
    BY <1>3, <2>1
  <2>5. L \notin Ids /\ Ids' = Ids \cup {L}
    BY <1>4, <2>4
  <2>6. ledger'[L].born # L
    BY <1>4, <2>1, <2>3, <2>4
  <2> HIDE DEF L
  <2> QED BY <2>1, <2>2, <2>3, <2>4, <2>5, <2>6
<1> QED BY <1>5, <1>6, <1>7

\* ... and after ads were funded.
LEMMA CreditedRows ==
  ASSUME TypeOK, Shape, NEW c \in Callers, CommitAdCredit(c)
  PROVE  LET rest == call[c].rest
             L    == Len(ledger) + 1
         IN  /\ L \notin Ids /\ Ids' = Ids \cup {L} /\ ledger'[L] = rest[1]
             /\ rest[1].order = NoOrder /\ rest[1].net \in Int
             /\ \A i \in Ids : ledger'[i] = ledger[i]
<1> DEFINE rest == call[c].rest
           L == Len(ledger) + 1
<1>1. call[c].at = "credit" /\ ~Idle(c)
  BY DEF CommitAdCredit, Idle
<1>2. rest \in Seq(Entry)
  BY <1>1, CallFields
<1>3. Len(rest) = 1 /\ rest[1].order = NoOrder
  BY <1>1 DEF Shape, PlanSound
<1>4. /\ Len(ledger') = Len(ledger) + Len(rest)
      /\ \A i \in 1..Len(ledger) : ledger'[i] = ledger[i]
      /\ \A j \in 1..Len(rest) : ledger'[Len(ledger) + j] = rest[j]
  BY CreditEffect
<1>5. Len(ledger) \in Nat /\ Ids = 1..Len(ledger) /\ Ids' = 1..Len(ledger')
  BY LedgerRows DEF Ids
<1> HIDE DEF rest
<1>6. rest[1] \in Entry
  BY <1>2, <1>3
<1>7. rest[1].net \in Int
  BY <1>6, EntryFields
<1>8. Len(ledger') = L /\ ledger'[L] = rest[1]
  BY <1>3, <1>4
<1>9. L \notin Ids /\ Ids' = Ids \cup {L}
  BY <1>5, <1>8
<1> QED BY <1>3, <1>4, <1>5, <1>7, <1>8, <1>9 DEF rest

\* Every step keeps the signs.
LEMMA SignedStep ==
  ASSUME TypeOK, Shape, Signed, \A c \in Callers : PlanExact(c), SellerStep \/ SellersRest
  PROVE  Signed'
<1>u. ASSUME UNCHANGED ledger PROVE Signed'
  BY <1>u DEF Signed, Ids
<1>1. CASE HandleOrderConfirmed
  <2>1. \A i \in Ids' : RightSign(ledger'[i])
    BY <1>1, ConfirmedRows, SaleAmounts DEF Signed, RightSign
  <2> QED BY <2>1 DEF Signed
<1>2. CASE SettleEarnings
  <2>1. \A i \in Ids' : RightSign(ledger'[i])
    BY <1>2, SettledRows DEF Shape, Signed, RightSign
  <2> QED BY <2>1 DEF Signed
<1>3. ASSUME NEW c \in Callers, ReleasePayout(c) PROVE Signed'
  <2> DEFINE plan == call[c].plan
             rest == call[c].rest
             n == Len(plan)
             L == Len(ledger) + 1
  <2>0. call[c].at = "release" /\ ~Idle(c)
    BY <1>3 DEF ReleasePayout, Idle
  <2>1. \A k \in 1..n :
          LET e == ledger[plan[k].id] IN
          /\ e.net = plan[k].paid.net + Deferred(c, k)
          /\ e.order = NoOrder => e.status = "earned" /\ Deferred(c, k) = 0
          /\ e.order # NoOrder => plan[k].paid.net >= 0
    BY <2>0 DEF PlanExact
  <2>2. \A k \in 1..n : plan[k].paid.net \in Int
    BY <2>0, CallFields DEF Money
  <2>3. ASSUME NEW i \in Ids PROVE RightSign(ledger'[i])
    <3>1. /\ ledger'[i].order = ledger[i].order
          /\ \/ ledger'[i] = ledger[i]
             \/ \E k \in 1..n : plan[k].id = i /\ ledger'[i].net = plan[k].paid.net
      BY <1>3, ReleasedRows
    <3>2. RightSign(ledger[i])
      BY DEF Signed
    <3> HIDE DEF plan, n
    <3>3. ASSUME NEW k \in 1..n, plan[k].id = i, ledger'[i].net = plan[k].paid.net
          PROVE  RightSign(ledger'[i])
      BY <2>1, <2>2, <3>1, <3>2, <3>3 DEF RightSign
    <3> QED BY <3>1, <3>2, <3>3
  <2>4. ASSUME rest # <<>>
        PROVE  Ids' = Ids \cup {L} /\ RightSign(ledger'[L])
    <3>1. /\ Ids' = Ids \cup {L} /\ ledger'[L] = rest[1]
          /\ n \in 1..n /\ rest[1].net \in Int /\ rest[1].net > 0
          /\ rest[1].order = ledger[plan[n].id].order
      BY <1>3, <2>4, ReleasedRows
    <3>2. Deferred(c, n) = rest[1].net
      BY <2>4 DEF Deferred
    <3>3. rest[1].order # NoOrder
      BY <2>1, <3>1, <3>2
    <3>4. RightSign(rest[1])
      BY <3>1, <3>3 DEF RightSign
    <3> QED BY <3>1, <3>4
  <2>5. rest = <<>> => Ids' = Ids
    BY <1>3, ReleasedRows
  <2> HIDE DEF L, rest
  <2>6. \A i \in Ids' : RightSign(ledger'[i])
    BY <2>3, <2>4, <2>5
  <2> QED BY <2>6 DEF Signed
<1>4. ASSUME NEW c \in Callers, CommitAdCredit(c) PROVE Signed'
  <2> DEFINE rest == call[c].rest
             L == Len(ledger) + 1
  <2>1. /\ Ids' = Ids \cup {L} /\ ledger'[L] = rest[1] /\ rest[1].order = NoOrder
        /\ \A i \in Ids : ledger'[i] = ledger[i]
    BY <1>4, CreditedRows
  <2>2. rest[1].net <= 0
    BY <1>4 DEF PlanExact, CommitAdCredit
  <2>3. RightSign(rest[1])
    BY <2>1, <2>2 DEF RightSign
  <2> HIDE DEF L, rest
  <2>4. \A i \in Ids' : RightSign(ledger'[i])
    BY <2>1, <2>3 DEF Signed
  <2> QED BY <2>4 DEF Signed
<1> QED BY <1>1, <1>2, <1>3, <1>4, <1>u
     DEF SellerStep, SellersRest, sellerVars, HandleOrderItemUpdated, AbortSettling,
         CreatePayout, AddAdCredit, GrantAdCredit, FetchEarned, AbortCall

\* A seller of whom nothing was delivered has nothing to withdraw.
LEMMA NothingToWithdraw ==
  ASSUME TypeOK, FreedHeld, NEW s \in Sellers, sales[s] = 0, Untouched(s)
  PROVE  WithdrawableBalance(s) = 0
<1>1. Cardinality(Freed(s)) = 0
  BY FreedFinite DEF FreedHeld
<1>2. Freed(s) = {}
  BY <1>1, FreedFinite, FS_EmptySet
<1>3. EntriesOf(s, "earned") = {}
  <2> SUFFICES ASSUME NEW i \in EntriesOf(s, "earned") PROVE FALSE
    OBVIOUS
  <2>1. i \in Ids /\ ledger[i].seller = s /\ ledger[i].status = "earned"
    BY DEF EntriesOf, Ids
  <2>2. ledger[i].order # NoOrder
    BY <2>1 DEF Untouched, IsOriginal
  <2>3. i \in FreedRows(s)
    BY <2>1, <2>2 DEF FreedRows, OutOfEscrow
  <2>4. ledger[i].order \in Freed(s)
    BY <2>3 DEF Freed
  <2> QED BY <1>2, <2>4
<1> QED BY <1>3, SumEmpty DEF WithdrawableBalance, SumNet

\* As long as nothing is delivered, nothing happens to a seller's entries.
LEMMA UnsoldStep ==
  ASSUME TypeOK, TypeOK', Shape, FreedHeld, WhileUnsold,
         \A c \in Callers : PlanExact(c), SellerStep \/ SellersRest
  PROVE  WhileUnsold'
<1> SUFFICES ASSUME NEW s \in Sellers, sales'[s] = 0
             PROVE  Untouched(s)'
  BY DEF WhileUnsold
<1>0. sales[s] = 0
  <2>1. sales \in [Sellers -> Nat]
    BY DEF TypeOK, SellerTypeOK
  <2>2. CASE UNCHANGED sales
    BY <2>2
  <2>3. CASE SettleEarnings
    <3>1. \/ sales' = sales
          \/ sales' = [sales EXCEPT ![settling.seller] = @ + 1]
      BY <2>3 DEF SettleEarnings
    <3> QED BY <2>1, <3>1
  <2> QED BY <2>2, <2>3
       DEF SellerStep, SellersRest, sellerVars, HandleOrderConfirmed, HandleOrderItemUpdated,
           AbortSettling, CreatePayout, AddAdCredit, GrantAdCredit, FetchEarned, ReleasePayout,
           CommitAdCredit, AbortCall
<1>1. Untouched(s)
  BY <1>0 DEF WhileUnsold
<1>c. ASSUME UNCHANGED call PROVE \A c \in Callers : ~Idle(c)' => call'[c].seller # s
  BY <1>1, <1>c DEF Untouched, Idle
<1>d. ASSUME NEW c \in Callers, NEW new \in Call \cup {NoCall}, call' = [call EXCEPT ![c] = new],
             new.at # "idle" => new.seller # s
      PROVE  \A d \in Callers : ~Idle(d)' => call'[d].seller # s
  <2>1. call'[c] = new /\ \A d \in Callers \ {c} : call'[d] = call[d]
    BY <1>d, CallKept
  <2> QED BY <1>1, <1>d, <2>1 DEF Untouched, Idle
<1>p. ASSUME UNCHANGED payouts PROVE \A k \in 1..Len(payouts') : payouts'[k].seller # s
  BY <1>1, <1>p DEF Untouched
<1>r. ASSUME UNCHANGED ledger
      PROVE  \A i \in Ids' : ledger'[i].seller = s => IsOriginal(i)' /\ ledger'[i].net = SaleNet
  BY <1>1, <1>r DEF Untouched, IsOriginal, Ids
<1>o. \A i \in Ids : ledger[i].seller = s => IsOriginal(i) /\ ledger[i].net = SaleNet
  BY <1>1 DEF Untouched
<1>2. CASE HandleOrderConfirmed
  <2>1. \A i \in Ids' : ledger'[i].seller = s => IsOriginal(i)' /\ ledger'[i].net = SaleNet
    BY <1>2, <1>o, ConfirmedRows DEF IsOriginal
  <2> QED BY <1>2, <1>c, <1>p, <2>1 DEF HandleOrderConfirmed, Untouched
<1>3. CASE SettleEarnings
  <2>1. \A i \in Ids' : ledger'[i].seller = s => IsOriginal(i)' /\ ledger'[i].net = SaleNet
    BY <1>3, <1>o, SettledRows DEF Shape, IsOriginal
  <2> QED BY <1>3, <1>c, <1>p, <2>1 DEF SettleEarnings, Untouched
<1>4. ASSUME NEW c \in Callers, FetchEarned(c) PROVE Untouched(s)'
  <2>1. /\ call' = [call EXCEPT ![c] = call'[c]] /\ call'[c] \in Call
        /\ call'[c].seller = call[c].seller
    BY <1>4, FetchEffect
  <2>2. call[c].seller # s
    BY <1>1, <1>4 DEF FetchEarned, Untouched, Idle
  <2>3. \A d \in Callers : ~Idle(d)' => call'[d].seller # s
    <3> DEFINE new == call'[c]
    <3>1. new \in Call \cup {NoCall} /\ call' = [call EXCEPT ![c] = new] /\ new.seller # s
      BY <2>1, <2>2
    <3> HIDE DEF new
    <3> QED BY <1>d, <3>1
  <2> QED BY <1>4, <1>p, <1>r, <2>3 DEF FetchEarned, Untouched
<1>5. ASSUME NEW c \in Callers, ReleasePayout(c) PROVE Untouched(s)'
  <2> DEFINE rest == call[c].rest
             plan == call[c].plan
             n == Len(plan)
             L == Len(ledger) + 1
  <2>1. call[c].at = "release" /\ call[c].seller # s /\ call' = [call EXCEPT ![c] = NoCall]
    BY <1>1, <1>5 DEF ReleasePayout, Untouched, Idle
  <2>2. \A d \in Callers : ~Idle(d)' => call'[d].seller # s
    BY <1>d, <2>1 DEF NoCall
  <2>3. \A k \in 1..n : plan[k].id \in Ids /\ ledger[plan[k].id].seller = call[c].seller
    BY <2>1 DEF Shape, PlanSound
  <2>4. ASSUME NEW i \in Ids, ledger'[i].seller = s
        PROVE  IsOriginal(i)' /\ ledger'[i].net = SaleNet
    <3>1. /\ ledger'[i].seller = ledger[i].seller
          /\ \/ ledger'[i] = ledger[i]
             \/ \E k \in 1..n : plan[k].id = i
      BY <1>5, ReleasedRows
    <3>2. ledger'[i] = ledger[i]
      BY <2>1, <2>3, <2>4, <3>1
    <3> QED BY <1>o, <2>4, <3>2 DEF IsOriginal
  <2>5. \A i \in Ids' : ledger'[i].seller = s => i \in Ids
    <3>1. /\ rest = <<>> => Ids' = Ids
          /\ rest # <<>> => /\ Ids' = Ids \cup {L} /\ ledger'[L] = rest[1]
                            /\ rest[1].seller = call[c].seller
      BY <1>5, ReleasedRows
    <3> HIDE DEF rest, L
    <3> QED BY <2>1, <3>1
  <2>6. \A k \in 1..Len(payouts') : payouts'[k].seller # s
    <3> DEFINE x == [seller |-> call[c].seller, amount |-> call[c].amount,
                     net |-> Total([k \in 1..Len(plan) |-> plan[k].paid], "net")]
    <3>1. payouts' = Append(payouts, x) /\ x.seller # s
      BY <1>5, <2>1, ReleaseEffect
    <3> HIDE DEF x
    <3>2. payouts \in Seq(Payout) /\ \A k \in 1..Len(payouts) : payouts[k].seller # s
      BY <1>1 DEF Untouched, TypeOK, SellerTypeOK
    <3> QED BY <3>1, <3>2
  <2> QED BY <2>2, <2>4, <2>5, <2>6 DEF Untouched
<1>6. ASSUME NEW c \in Callers, CommitAdCredit(c) PROVE Untouched(s)'
  <2> DEFINE rest == call[c].rest
             L == Len(ledger) + 1
  <2>1. /\ call[c].at = "credit" /\ call[c].seller # s /\ call' = [call EXCEPT ![c] = NoCall]
        /\ UNCHANGED payouts
    BY <1>1, <1>6 DEF CommitAdCredit, Untouched, Idle
  <2>2. \A d \in Callers : ~Idle(d)' => call'[d].seller # s
    BY <1>d, <2>1 DEF NoCall
  <2>3. rest[1].seller # s
    BY <2>1 DEF PlanExact
  <2>4. /\ Ids' = Ids \cup {L} /\ ledger'[L] = rest[1] /\ \A i \in Ids : ledger'[i] = ledger[i]
    BY <1>6, CreditedRows
  <2> HIDE DEF rest, L
  <2>5. \A i \in Ids' : ledger'[i].seller = s => IsOriginal(i)' /\ ledger'[i].net = SaleNet
    BY <1>o, <2>3, <2>4 DEF IsOriginal
  <2> QED BY <1>p, <2>1, <2>2, <2>5 DEF Untouched
<1>7. ASSUME NEW c \in Callers, NEW t \in Sellers, NEW a \in Amounts,
             CreatePayout(c, t, a) \/ AddAdCredit(c, t, a)
      PROVE  Untouched(s)'
  <2>1. /\ a > 0 /\ a \in Nat /\ WithdrawableBalance(t) >= a /\ UNCHANGED <<ledger, payouts>>
    BY <1>7, SaleAmounts DEF CreatePayout, AddAdCredit
  <2>2. t # s
    BY <1>0, <1>1, <2>1, NothingToWithdraw
  <2>3. /\ call'[c].seller = t /\ \A d \in Callers \ {c} : call'[d] = call[d]
    BY <1>7 DEF CreatePayout, AddAdCredit, TypeOK, SellerTypeOK
  <2>4. \A d \in Callers : ~Idle(d)' => call'[d].seller # s
    BY <1>1, <2>2, <2>3 DEF Untouched, Idle
  <2> QED BY <1>p, <1>r, <2>1, <2>4 DEF Untouched
<1>8. ASSUME NEW c \in Callers, AbortCall(c) PROVE Untouched(s)'
  <2>1. \A d \in Callers : ~Idle(d)' => call'[d].seller # s
    BY <1>8, <1>d DEF NoCall, AbortCall
  <2> QED BY <1>8, <1>p, <1>r, <2>1 DEF AbortCall, Untouched
<1>9. CASE \/ HandleOrderItemUpdated \/ AbortSettling \/ SellersRest
           \/ \E t \in Sellers, a \in Amounts : GrantAdCredit(t, a)
  <2>1. UNCHANGED <<ledger, payouts, call>>
    BY <1>9 DEF HandleOrderItemUpdated, AbortSettling, SellersRest, sellerVars, GrantAdCredit
  <2> QED BY <1>c, <1>p, <1>r, <2>1 DEF Untouched
<1> QED BY <1>2, <1>3, <1>4, <1>5, <1>6, <1>7, <1>8, <1>9 DEF SellerStep

\* A plan stays exact while its rows keep what they are worth.
LEMMA ExactKept ==
  ASSUME TypeOK, Shape, NEW c \in Callers, PlanExact(c), call'[c] = call[c],
         \A i \in Ids : /\ ledger'[i].net = ledger[i].net
                        /\ ledger'[i].order = ledger[i].order
                        /\ ledger[i].order = NoOrder => ledger'[i].status = ledger[i].status
  PROVE  PlanExact(c)'
<1> DEFINE plan == call[c].plan
           n == Len(plan)
<1>1. ASSUME call[c].at = "release"
      PROVE  /\ \A j, k \in 1..n : plan[j].id = plan[k].id => j = k
             /\ \A k \in 1..n :
                  LET e == ledger'[plan[k].id] IN
                  /\ e.net = plan[k].paid.net + Deferred(c, k)'
                  /\ e.order = NoOrder => e.status = "earned" /\ Deferred(c, k)' = 0
                  /\ e.order # NoOrder => plan[k].paid.net >= 0
  <2>1. \A k \in 1..n : plan[k].id \in Ids
    BY <1>1 DEF Shape, PlanSound
  <2>2. \A k \in 1..n : Deferred(c, k)' = Deferred(c, k)
    BY DEF Deferred
  <2>3. /\ \A j, k \in 1..n : plan[j].id = plan[k].id => j = k
        /\ \A k \in 1..n :
             LET e == ledger[plan[k].id] IN
             /\ e.net = plan[k].paid.net + Deferred(c, k)
             /\ e.order = NoOrder => e.status = "earned" /\ Deferred(c, k) = 0
             /\ e.order # NoOrder => plan[k].paid.net >= 0
    BY <1>1 DEF PlanExact
  <2> HIDE DEF plan, n
  <2> QED BY <2>1, <2>2, <2>3
<1> QED BY <1>1 DEF PlanExact

\* What a fetch plans is worth what the rows are.
LEMMA ExactFetched ==
  ASSUME TypeOK, Signed, NEW c \in Callers, FetchEarned(c)
  PROVE  PlanExact(c)'
<1> DEFINE plan == call'[c].plan
           rest == call'[c].rest
           n == Len(plan)
<1>1. call'[c].at = "release" /\ UNCHANGED ledger
  BY FetchEffect DEF FetchEarned
<1>2. /\ n \in Nat
      /\ \A k \in 1..n :
           /\ plan[k].id \in 1..Len(ledger)
           /\ ledger[plan[k].id].status = "earned"
           /\ (k < n \/ rest = <<>>) => plan[k].paid = Whole(ledger[plan[k].id])
      /\ \A j, k \in 1..n : plan[j].id = plan[k].id => j = k
      /\ rest # <<>> =>
           /\ n > 0 /\ plan[n].paid.net > 0
           /\ rest[1].net = ledger[plan[n].id].net - plan[n].paid.net
           /\ rest[1].net > 0
  BY FetchEffect
<1>3. call'[c] \in Call
  BY FetchEffect
<1>p. \A k \in 1..n : plan[k].paid.net \in Int
  <2>1. plan \in Seq([id: Nat \ {0}, paid: Money])
    BY <1>3 DEF Call
  <2>2. \A j \in 1..n : plan[j] \in [id: Nat \ {0}, paid: Money]
    <3> HIDE DEF plan
    <3> QED BY <2>1, ElementOfSeq
  <2> QED BY <2>2 DEF Money
<1>4. \A k \in 1..n : Deferred(c, k)' = IF k = n /\ rest # <<>> THEN rest[1].net ELSE 0
  BY DEF Deferred
<1> HIDE DEF plan, rest, n
<1>5. ASSUME NEW k \in 1..n
      PROVE  LET e == ledger'[plan[k].id] IN
             /\ e.net = plan[k].paid.net + Deferred(c, k)'
             /\ e.order = NoOrder => e.status = "earned" /\ Deferred(c, k)' = 0
             /\ e.order # NoOrder => plan[k].paid.net >= 0
  <2> DEFINE e == ledger[plan[k].id]
  <2>1. /\ plan[k].id \in Ids /\ e.net \in Int /\ RightSign(e) /\ e.status = "earned"
        /\ plan[k].paid.net \in Int
    <3>1. plan[k].id \in Ids
      BY <1>2, LedgerRows
    <3>2. e.net \in Int
      BY <3>1, LedgerRows, EntryFields
    <3> QED BY <1>2, <1>p, <3>1, <3>2 DEF Signed
  <2>2. CASE k < n \/ rest = <<>>
    <3>1. Deferred(c, k)' = 0
      BY <1>2, <1>4, <2>2
    <3>2. plan[k].paid.net = e.net
      <4>1. Whole(e).net = e.net
        BY DEF Whole
      <4> QED BY <1>2, <2>2, <4>1
    <3> HIDE DEF e
    <3>3. /\ e.net = plan[k].paid.net + Deferred(c, k)'
          /\ e.order = NoOrder => e.status = "earned" /\ Deferred(c, k)' = 0
          /\ e.order # NoOrder => plan[k].paid.net >= 0
      BY <2>1, <3>1, <3>2 DEF RightSign
    <3> QED BY <1>1, <3>3 DEF e
  <2>3. CASE k = n /\ rest # <<>>
    <3>1. /\ Deferred(c, k)' = e.net - plan[k].paid.net
          /\ e.net - plan[k].paid.net > 0 /\ plan[k].paid.net > 0
      BY <1>2, <1>4, <2>3
    <3> HIDE DEF e
    <3>2. e.net > 0
      BY <2>1, <3>1
    <3>3. /\ e.net = plan[k].paid.net + Deferred(c, k)'
          /\ e.order # NoOrder /\ plan[k].paid.net >= 0
      BY <2>1, <3>1, <3>2 DEF RightSign
    <3> QED BY <1>1, <3>3 DEF e
  <2> QED BY <1>2, <2>2, <2>3
<1>6. \A j, k \in 1..n : plan[j].id = plan[k].id => j = k
  BY <1>2
<1> QED BY <1>1, <1>5, <1>6 DEF PlanExact, plan, n

\* Every step keeps the plan of the only goroutine exact.
LEMMA ExactStep ==
  ASSUME TypeOK, Shape, Signed, NEW c \in Callers, Callers = {c}, PlanExact(c),
         SellerStep \/ SellersRest
  PROVE  PlanExact(c)'
<1>u. ASSUME UNCHANGED <<ledger, call>> PROVE PlanExact(c)'
  BY <1>u, ExactKept
<1>n. ASSUME call'[c].at \notin {"release", "credit"} PROVE PlanExact(c)'
  BY <1>n DEF PlanExact
<1>1. CASE HandleOrderConfirmed
  BY <1>1, ConfirmedRows, ExactKept DEF HandleOrderConfirmed
<1>2. CASE SettleEarnings
  <2>1. \A i \in Ids : /\ ledger'[i].net = ledger[i].net
                       /\ ledger'[i].order = ledger[i].order
                       /\ ledger[i].order = NoOrder => ledger'[i].status = ledger[i].status
    BY <1>2, SettledRows DEF Shape
  <2>2. call'[c] = call[c]
    BY <1>2 DEF SettleEarnings
  <2> QED BY <2>1, <2>2, ExactKept
<1>3. ASSUME NEW d \in Callers, FetchEarned(d) PROVE PlanExact(c)'
  BY <1>3, ExactFetched
<1>4. ASSUME NEW d \in Callers, ReleasePayout(d) \/ CommitAdCredit(d) \/ AbortCall(d)
      PROVE  PlanExact(c)'
  <2>1. call' = [call EXCEPT ![c] = NoCall]
    BY <1>4 DEF ReleasePayout, CommitAdCredit, AbortCall
  <2>2. call'[c] = NoCall
    BY <2>1, CallKept
  <2> QED BY <1>n, <2>2 DEF NoCall
<1>5. ASSUME NEW d \in Callers, NEW s \in Sellers, NEW a \in Amounts, CreatePayout(d, s, a)
      PROVE  PlanExact(c)'
  <2>1. call'[c].at = "fetch"
    BY <1>5 DEF CreatePayout, TypeOK, SellerTypeOK
  <2> QED BY <1>n, <2>1
<1>6. ASSUME NEW d \in Callers, NEW s \in Sellers, NEW a \in Amounts, AddAdCredit(d, s, a)
      PROVE  PlanExact(c)'
  <2> DEFINE entry == [seller |-> s, order |-> NoOrder, status |-> "earned",
                       gross |-> -a, fee |-> 0, net |-> -a,
                       born |-> Len(ledger) + 1, payout |-> 0]
             new == [at |-> "credit", seller |-> s, amount |-> a, plan |-> <<>>,
                     rest |-> <<entry>>]
  <2>1. call' = [call EXCEPT ![c] = new]
    BY <1>6 DEF AddAdCredit
  <2>2. call'[c] = new
    <3> HIDE DEF new
    <3> QED BY <2>1 DEF TypeOK, SellerTypeOK
  <2>3. a \in Nat /\ -a <= 0
    <3>1. a \in Nat
      BY SaleAmounts
    <3> QED BY <3>1
  <2>4. entry.status = "earned" /\ entry.net <= 0 /\ entry.seller = s
    BY <2>3
  <2> HIDE DEF entry
  <2>5. /\ call'[c].at = "credit" /\ call'[c].seller = s /\ call'[c].rest[1] = entry
    BY <2>2
  <2> QED BY <2>4, <2>5 DEF PlanExact
<1>7. CASE \/ HandleOrderItemUpdated \/ AbortSettling \/ SellersRest
           \/ \E t \in Sellers, a \in Amounts : GrantAdCredit(t, a)
  <2>1. UNCHANGED <<ledger, call>>
    BY <1>7 DEF HandleOrderItemUpdated, AbortSettling, SellersRest, sellerVars, GrantAdCredit
  <2> QED BY <1>u, <2>1
<1> QED BY <1>1, <1>2, <1>3, <1>4, <1>5, <1>6, <1>7 DEF SellerStep

\* What rows are worth, and what payouts paid, are numbers.
LEMMA WorthInt ==
  ASSUME TypeOK
  PROVE  /\ IsFiniteSet(Ids) /\ \A s \in Sellers : PaidOut(s) \in Int
         /\ \A s \in Sellers, i \in Ids : ledger[i].net \in Int /\ Worth(s)[i] \in Int
         /\ \A s \in Sellers : SumOf(Worth(s), Ids) \in Int
<1>1. IsFiniteSet(Ids) /\ \A i \in Ids : ledger[i].net \in Int
  BY LedgerRows, EntryFields, FS_Interval
<1>2. \A s \in Sellers, i \in Ids : Worth(s)[i] \in Int
  BY <1>1, SaleAmounts DEF Worth, HeldNet, AdNet, EscrowNet
<1>3. ASSUME NEW s \in Sellers PROVE SumOf(Worth(s), Ids) \in Int
  <2> DEFINE w == Worth(s)
  <2>1. \A i \in Ids : w[i] \in Int
    BY <1>2
  <2> HIDE DEF w
  <2>2. SumOf(w, Ids) \in Int
    BY <1>1, <2>1, SumInt
  <2> QED BY <2>2 DEF w
<1>4. ASSUME NEW s \in Sellers PROVE PaidOut(s) \in Int
  <2> DEFINE f == [k \in 1..Len(payouts) |-> payouts[k].net]
             S == {k \in 1..Len(payouts) : payouts[k].seller = s}
  <2>1. payouts \in Seq(Payout) /\ Len(payouts) \in Nat
    BY DEF TypeOK, SellerTypeOK
  <2>2. \A k \in 1..Len(payouts) : payouts[k] \in Payout
    BY <2>1
  <2>3. \A k \in S : f[k] \in Int
    BY <2>2 DEF Payout
  <2>4. IsFiniteSet(S)
    <3>1. IsFiniteSet(1..Len(payouts)) /\ S \subseteq 1..Len(payouts)
      BY <2>1, FS_Interval
    <3> HIDE DEF S
    <3> QED BY <3>1, FS_Subset
  <2> HIDE DEF f, S
  <2>5. SumOf(f, S) \in Int
    BY <2>3, <2>4, SumInt
  <2> QED BY <2>5 DEF PaidOut, f, S
<1> QED BY <1>1, <1>2, <1>3, <1>4

\* The seller's rows are in balance after a step if they were so for amounts w
\* that they are not worth more than, nor the new ones more than nothing.
LEMMA BalancedBy ==
  ASSUME TypeOK, TypeOK', NEW s \in Sellers, NEW w, Ids \subseteq Ids',
         \A i \in Ids : w[i] \in Int /\ Worth(s)'[i] <= w[i],
         \A i \in Ids' \ Ids : Worth(s)'[i] <= 0,
         PaidOut(s)' \in Int, PaidOut(s)' + SumOf(w, Ids) <= 0
  PROVE  PaidOut(s)' + SumOf(Worth(s)', Ids') <= 0
<1>1. IsFiniteSet(Ids') /\ \A i \in Ids' : ledger'[i].net \in Int
  <2>1. ledger' \in Seq(Entry)
    BY DEF TypeOK, SellerTypeOK
  <2>2. Len(ledger') \in Nat /\ \A i \in 1..Len(ledger') : ledger'[i] \in Entry
    BY <2>1
  <2>3. Ids' = 1..Len(ledger') /\ IsFiniteSet(1..Len(ledger'))
    BY <2>2, FS_Interval DEF Ids
  <2>4. \A i \in 1..Len(ledger') : ledger'[i].net \in Int
    BY <2>2, EntryFields
  <2> QED BY <2>3, <2>4
<1>2. \A i \in Ids' : Worth(s)'[i] \in Int
  BY <1>1, SaleAmounts DEF Worth, HeldNet, AdNet, EscrowNet
<1> DEFINE v == Worth(s)'
           I == Ids
           J == Ids'
           g == [i \in J |-> IF i \in I THEN w[i] ELSE 0]
<1>3. \A i \in J : v[i] \in Int
  BY <1>2
<1>4. /\ \A i \in I : w[i] \in Int /\ v[i] <= w[i]
      /\ \A i \in J \ I : v[i] <= 0
      /\ I \in SUBSET J /\ IsFiniteSet(J)
  BY <1>1
<1> HIDE DEF v, I, J
<1>5. /\ \A i \in I : w[i] = g[i] /\ w[i] \in Int
      /\ \A i \in J \ I : g[i] = 0
      /\ \A i \in J : v[i] \in Int /\ g[i] \in Int /\ v[i] <= g[i]
  BY <1>3, <1>4
<1> HIDE DEF g
<1>6. SumOf(w, I) = SumOf(g, J)
  BY <1>4, <1>5, SumPart
<1>7. SumOf(v, J) <= SumOf(g, J)
  BY <1>4, <1>5, SumMonotone
<1>8. SumOf(v, J) \in Int /\ SumOf(g, J) \in Int
  <2>1. SumOf(v, J) \in Int
    BY <1>4, <1>5, SumInt
  <2>2. SumOf(g, J) \in Int
    BY <1>4, <1>5, SumInt
  <2> QED BY <2>1, <2>2
<1>9. PaidOut(s)' \in Int /\ PaidOut(s)' + SumOf(w, I) <= 0
  BY DEF I
<1>10. PICK p \in Int : p = PaidOut(s)'
  BY <1>9
<1>11. p + SumOf(v, J) <= 0
  BY <1>6, <1>7, <1>8, <1>9, <1>10
<1> QED BY <1>10, <1>11 DEF v, J

\* A row whose money does not change is worth no more, unless it is held anew.
LEMMA WorthKept ==
  ASSUME TypeOK, NEW s \in Sellers, NEW i \in Ids, i \in Ids',
         ledger'[i].net = ledger[i].net, ledger'[i].order = ledger[i].order,
         ledger'[i].seller = ledger[i].seller, ledger'[i].born = ledger[i].born,
         Held(i)' => Held(i),
         Held(i) /\ ~Held(i)' => ledger[i].net >= 0
  PROVE  Worth(s)'[i] <= Worth(s)[i]
<1>1. ledger[i].net \in Int /\ SaleNet \in Int
  BY WorthInt, SaleAmounts
<1>2. AdNet(i)' = AdNet(i) /\ AdNet(i) \in Int
  BY <1>1 DEF AdNet
<1>3. EscrowNet(i)' = EscrowNet(i) /\ EscrowNet(i) \in Int
  BY <1>1 DEF EscrowNet, IsOriginal
<1>4. HeldNet(i)' <= HeldNet(i) /\ HeldNet(i)' \in Int /\ HeldNet(i) \in Int
  <2>1. CASE Held(i)'
    BY <1>1, <2>1 DEF HeldNet
  <2>2. CASE ~Held(i)'
    BY <1>1, <2>2 DEF HeldNet
  <2> QED BY <2>1, <2>2
<1>5. Worth(s)[i] = IF ledger[i].seller = s THEN HeldNet(i) - AdNet(i) - EscrowNet(i) ELSE 0
  BY DEF Worth
<1>6. Worth(s)'[i] = IF ledger[i].seller = s
                     THEN HeldNet(i)' - AdNet(i)' - EscrowNet(i)' ELSE 0
  BY DEF Worth
<1> DEFINE h == HeldNet(i)
           k == HeldNet(i)'
           a == AdNet(i)
           e == EscrowNet(i)
<1>7. /\ h \in Int /\ k \in Int /\ a \in Int /\ e \in Int /\ k <= h
      /\ Worth(s)[i] = IF ledger[i].seller = s THEN h - a - e ELSE 0
      /\ Worth(s)'[i] = IF ledger[i].seller = s THEN k - a - e ELSE 0
  BY <1>2, <1>3, <1>4, <1>5, <1>6
<1> HIDE DEF h, k, a, e
<1> QED BY <1>7

\* A row that only the plan of the only goroutine holds is of an order.
LEMMA HeldByPlan ==
  ASSUME TypeOK, Signed, NEW c \in Callers, Callers = {c}, PlanExact(c),
         NEW i \in Ids, Held(i), ledger[i].status \notin {"escrowed", "earned"}
  PROVE  ledger[i].order # NoOrder /\ ledger[i].net >= 0
<1>1. Planned(i)
  BY DEF Held
<1>2. /\ call[c].at = "release"
      /\ \E k \in 1..Len(call[c].plan) : call[c].plan[k].id = i
  BY <1>1 DEF Planned
<1>3. ledger[i].order # NoOrder
  BY <1>2 DEF PlanExact
<1> QED BY <1>3 DEF Signed, RightSign

\* A step that pays nothing, holds none of the seller's rows anew, and inserts
\* none that is worth anything leaves the seller in balance.
LEMMA BalanceQuiet ==
  ASSUME TypeOK, TypeOK', NEW s \in Sellers, PaidOut(s) + SumOf(Worth(s), Ids) <= 0,
         UNCHANGED payouts, Ids \subseteq Ids',
         \A i \in Ids :
           /\ ledger'[i].net = ledger[i].net /\ ledger'[i].order = ledger[i].order
           /\ ledger'[i].seller = ledger[i].seller /\ ledger'[i].born = ledger[i].born
           /\ ledger[i].seller = s =>
                /\ Held(i)' => Held(i)
                /\ Held(i) /\ ~Held(i)' => ledger[i].net >= 0,
         \A i \in Ids' \ Ids : Worth(s)'[i] <= 0
  PROVE  PaidOut(s)' + SumOf(Worth(s)', Ids') <= 0
<1>1. ASSUME NEW i \in Ids PROVE Worth(s)[i] \in Int /\ Worth(s)'[i] <= Worth(s)[i]
  <2>1. Worth(s)[i] \in Int /\ i \in Ids'
    BY WorthInt
  <2>2. CASE ledger[i].seller = s
    BY <2>1, <2>2, WorthKept
  <2>3. CASE ledger[i].seller # s
    <3>1. Worth(s)[i] = 0 /\ Worth(s)'[i] = 0
      BY <2>1, <2>3 DEF Worth
    <3> QED BY <3>1
  <2> QED BY <2>1, <2>2, <2>3
<1>2. PaidOut(s)' = PaidOut(s) /\ PaidOut(s) \in Int
  BY WorthInt DEF PaidOut
<1> DEFINE w == Worth(s)
<1>3. /\ \A i \in Ids : w[i] \in Int /\ Worth(s)'[i] <= w[i]
      /\ PaidOut(s)' \in Int /\ PaidOut(s)' + SumOf(w, Ids) <= 0
  BY <1>1, <1>2
<1> HIDE DEF w
<1> QED BY <1>3, BalancedBy

\* An order's new rows are worth what is escrowed for them.
LEMMA BalanceConfirmed ==
  ASSUME TypeOK, TypeOK', NEW s \in Sellers, PaidOut(s) + SumOf(Worth(s), Ids) <= 0,
         HandleOrderConfirmed
  PROVE  PaidOut(s)' + SumOf(Worth(s)', Ids') <= 0
<1>1. /\ Ids \subseteq Ids' /\ \A i \in Ids : ledger'[i] = ledger[i]
      /\ \A i \in Ids' \ Ids :
           /\ ledger'[i].status = "escrowed" /\ ledger'[i].order # NoOrder
           /\ ledger'[i].net = SaleNet /\ IsOriginal(i)'
  BY ConfirmedRows
<1>2. UNCHANGED <<payouts, call>>
  BY DEF HandleOrderConfirmed
<1>3. \A i \in Ids : Held(i)' <=> Held(i)
  BY <1>1, <1>2 DEF Held, Planned
<1>4. ASSUME NEW i \in Ids' \ Ids PROVE Worth(s)'[i] <= 0
  <2>1. HeldNet(i)' = SaleNet /\ AdNet(i)' = 0 /\ EscrowNet(i)' = SaleNet
    BY <1>1 DEF HeldNet, Held, AdNet, EscrowNet
  <2>2. Worth(s)'[i] = IF ledger'[i].seller = s
                       THEN HeldNet(i)' - AdNet(i)' - EscrowNet(i)' ELSE 0
    BY DEF Worth
  <2> QED BY <2>1, <2>2, SaleAmounts
<1> QED BY <1>1, <1>2, <1>3, <1>4, BalanceQuiet

\* Money that is refunded is not held any more, unless a payout has planned it.
\* A first delivery finds all of the seller's money in escrow.
LEMMA BalanceSettled ==
  ASSUME TypeOK, TypeOK', Shape, Signed, WhileUnsold, NEW s \in Sellers,
         PaidOut(s) + SumOf(Worth(s), Ids) <= 0, SettleEarnings, sales'[s] <= 1
  PROVE  PaidOut(s)' + SumOf(Worth(s)', Ids') <= 0
<1>1. /\ Ids' = Ids /\ settling.status \in {"earned", "refunded"}
      /\ settling.seller \in Sellers
      /\ \A i \in Ids : /\ ledger'[i].net = ledger[i].net
                        /\ ledger'[i].order = ledger[i].order
                        /\ ledger'[i].seller = ledger[i].seller
                        /\ ledger'[i].born = ledger[i].born
                        /\ i \notin settling.ids => ledger'[i] = ledger[i]
                        /\ i \in settling.ids =>
                             /\ ledger'[i].status = settling.status
                             /\ ledger[i].order # NoOrder
                             /\ ledger[i].seller = settling.seller
  BY SettledRows DEF Shape
<1>2. UNCHANGED <<payouts, call>>
  BY DEF SettleEarnings
<1>3. \A i \in Ids : Planned(i)' <=> Planned(i)
  BY <1>2 DEF Planned
<1>4. CASE settling.status = "refunded" \/ settling.seller # s
  <2>1. ASSUME NEW i \in Ids, ledger[i].seller = s
        PROVE  /\ Held(i)' => Held(i)
               /\ Held(i) /\ ~Held(i)' => ledger[i].net >= 0
    <3>1. CASE i \in settling.ids
      <4>1. ledger'[i].status = "refunded"
        BY <1>1, <1>4, <2>1, <3>1
      <4>2. ledger[i].net >= 0
        BY <1>1, <3>1 DEF Signed, RightSign
      <4> QED BY <1>3, <4>1, <4>2 DEF Held
    <3>2. CASE i \notin settling.ids
      BY <1>1, <1>3, <3>2 DEF Held
    <3> QED BY <3>1, <3>2
  <2> QED BY <1>1, <1>2, <2>1, BalanceQuiet
<1>5. CASE settling.status = "earned" /\ settling.seller = s
  <2>1. sales[s] = 0
    <3>1. sales \in [Sellers -> Nat] /\ sales' = [sales EXCEPT ![s] = sales[s] + 1]
      BY <1>5 DEF SettleEarnings, TypeOK, SellerTypeOK
    <3>2. sales'[s] = sales[s] + 1 /\ sales[s] \in Nat
      BY <3>1
    <3> QED BY <3>2
  <2>2. Untouched(s)
    BY <2>1 DEF WhileUnsold
  <2>3. PaidOut(s)' = 0
    <3>1. {k \in 1..Len(payouts) : payouts[k].seller = s} = {}
      BY <2>2 DEF Untouched
    <3>2. \A f : SumOf(f, {}) = 0
      BY SumEmpty
    <3>3. PaidOut(s) = 0
      BY <3>1, <3>2 DEF PaidOut
    <3> QED BY <1>2, <3>3 DEF PaidOut
  <2>4. ASSUME NEW i \in Ids PROVE Worth(s)'[i] <= 0
    <3>1. Worth(s)'[i] = IF ledger'[i].seller = s
                         THEN HeldNet(i)' - AdNet(i)' - EscrowNet(i)' ELSE 0
      BY <1>1 DEF Worth
    <3>2. CASE ledger[i].seller = s
      <4>1. IsOriginal(i) /\ ledger[i].net = SaleNet
        BY <2>2, <3>2 DEF Untouched
      <4>2. IsOriginal(i)' /\ ledger'[i].net = SaleNet /\ ledger'[i].order # NoOrder
        BY <1>1, <4>1 DEF IsOriginal
      <4>3. AdNet(i)' = 0 /\ EscrowNet(i)' = SaleNet
        BY <4>2 DEF AdNet, EscrowNet
      <4>4. HeldNet(i)' = SaleNet \/ HeldNet(i)' = 0
        BY <4>2 DEF HeldNet
      <4> QED BY <3>1, <4>3, <4>4, SaleAmounts
    <3>3. CASE ledger[i].seller # s
      BY <1>1, <3>1, <3>3
    <3> QED BY <3>2, <3>3
  <2> DEFINE w == [i \in Ids |-> 0]
  <2>5. \A i \in Ids : w[i] = 0
    OBVIOUS
  <2> HIDE DEF w
  <2>6. SumOf(w, Ids) = 0
    BY <2>5, WorthInt, SumZero
  <2>7. /\ \A i \in Ids : w[i] \in Int /\ Worth(s)'[i] <= w[i]
        /\ PaidOut(s)' \in Int /\ PaidOut(s)' + SumOf(w, Ids) <= 0
    BY <2>3, <2>4, <2>5, <2>6
  <2> QED BY <1>1, <2>7, BalancedBy
<1> QED BY <1>1, <1>4, <1>5

\* What is planned is earned, and what is planned no more was money of orders.
LEMMA BalanceCalled ==
  ASSUME TypeOK, TypeOK', Shape, Signed, NEW c \in Callers, Callers = {c}, PlanExact(c),
         NEW s \in Sellers, PaidOut(s) + SumOf(Worth(s), Ids) <= 0,
         UNCHANGED <<ledger, payouts>>,
         \A i \in Ids : Planned(i)' => ledger[i].status = "earned"
  PROVE  PaidOut(s)' + SumOf(Worth(s)', Ids') <= 0
<1>1. Ids' = Ids
  BY DEF Ids
<1>2. ASSUME NEW i \in Ids
      PROVE  /\ Held(i)' => Held(i)
             /\ Held(i) /\ ~Held(i)' => ledger[i].net >= 0
  BY HeldByPlan DEF Held
<1> QED BY <1>1, <1>2, BalanceQuiet

\* Money set aside for ads is not paid out.
LEMMA BalanceCredited ==
  ASSUME TypeOK, TypeOK', Shape, Signed, NEW c \in Callers, Callers = {c}, PlanExact(c),
         NEW s \in Sellers, PaidOut(s) + SumOf(Worth(s), Ids) <= 0, CommitAdCredit(c)
  PROVE  PaidOut(s)' + SumOf(Worth(s)', Ids') <= 0
<1> DEFINE rest == call[c].rest
           L == Len(ledger) + 1
<1>1. /\ L \notin Ids /\ Ids' = Ids \cup {L} /\ ledger'[L] = rest[1]
      /\ rest[1].order = NoOrder /\ rest[1].net \in Int
      /\ \A i \in Ids : ledger'[i] = ledger[i]
  BY CreditedRows
<1>2. /\ UNCHANGED payouts /\ call[c].at = "credit" /\ call' = [call EXCEPT ![c] = NoCall]
      /\ rest[1].status = "earned"
  BY DEF CommitAdCredit, PlanExact
<1>3. call'[c] = NoCall
  BY <1>2, CallKept
<1>4. \A i \in Ids' : ~Planned(i)'
  BY <1>3 DEF Planned, NoCall
<1>5. PICK l \in Ids' : l = L
  BY <1>1
<1> HIDE DEF L, rest
<1>6. ASSUME NEW i \in Ids
      PROVE  /\ Held(i)' => Held(i)
             /\ Held(i) /\ ~Held(i)' => ledger[i].net >= 0
  <2>1. Held(i)' <=> ledger[i].status \in {"escrowed", "earned"}
    BY <1>1, <1>4 DEF Held
  <2> QED BY <2>1, HeldByPlan DEF Held
<1>7. Worth(s)'[l] <= 0
  <2>1. HeldNet(l)' = rest[1].net /\ AdNet(l)' = rest[1].net /\ EscrowNet(l)' = 0
    BY <1>1, <1>2, <1>5 DEF HeldNet, Held, AdNet, EscrowNet, IsOriginal
  <2>2. Worth(s)'[l] = IF ledger'[l].seller = s
                       THEN HeldNet(l)' - AdNet(l)' - EscrowNet(l)' ELSE 0
    BY DEF Worth
  <2> QED BY <1>1, <2>1, <2>2
<1>8. \A i \in Ids' \ Ids : Worth(s)'[i] <= 0
  BY <1>1, <1>5, <1>7
<1> QED BY <1>1, <1>2, <1>6, <1>8, BalanceQuiet

\* What goroutine c is to insert altogether.
Rest(c) == IF call[c].rest = <<>> THEN 0 ELSE call[c].rest[1].net

\* What the planned rows are worth is what is paid and what is inserted.
LEMMA PlanTotal ==
  ASSUME TypeOK, Shape, NEW c \in Callers, PlanExact(c), call[c].at = "release"
  PROVE  LET plan == call[c].plan
             n    == Len(plan)
             paid == Total([k \in 1..n |-> plan[k].paid], "net")
         IN  /\ paid \in Int /\ Rest(c) \in Int
             /\ SumOf([i \in Ids |-> ledger[i].net], {plan[k].id : k \in 1..n})
                  = paid + Rest(c)
<1> DEFINE plan == call[c].plan
           n == Len(plan)
           P == {plan[k].id : k \in 1..n}
           net == [i \in Ids |-> ledger[i].net]
           e == [k \in 1..n |-> plan[k].id]
           p == [k \in 1..n |-> plan[k].paid.net]
           d == [k \in 1..n |-> Deferred(c, k)]
           g == [k \in 1..n |-> p[k] + d[k]]
<1>1. /\ n \in Nat /\ call[c].rest \in Seq(Entry)
      /\ \A k \in 1..n : plan[k].paid \in Money
  BY CallFields DEF Idle
<1>2. \A k \in 1..n : p[k] \in Int
  BY <1>1 DEF Money
<1>3. Rest(c) \in Int /\ (call[c].rest # <<>> => n > 0)
  <2>1. call[c].rest # <<>> => n > 0 /\ Len(call[c].rest) = 1
    BY DEF Shape, PlanSound
  <2>2. CASE call[c].rest # <<>>
    <3>1. PICK r \in Seq(Entry) : r = call[c].rest
      BY <1>1
    <3>2. r[1] \in Entry
      <4>1. Len(r) = 1
        BY <2>1, <2>2, <3>1
      <4>2. r \in Seq(Entry) /\ 1 \in 1..Len(r)
        BY <3>1, <4>1
      <4> QED BY <4>2, ElementOfSeq
    <3>3. r[1].net \in Int
      BY <3>2, EntryFields
    <3> QED BY <2>1, <2>2, <3>1, <3>3 DEF Rest
  <2>3. CASE call[c].rest = <<>>
    BY <2>3 DEF Rest
  <2> QED BY <2>2, <2>3
<1>4. \A k \in 1..n : d[k] = (IF k = n THEN Rest(c) ELSE 0)
  BY DEF Deferred, Rest
<1>5. /\ \A j, k \in 1..n : e[j] = e[k] => j = k
      /\ \A k \in 1..n : e[k] \in Ids /\ net[e[k]] = g[k]
  <2>1. /\ \A j, k \in 1..n : plan[j].id = plan[k].id => j = k
        /\ \A k \in 1..n : ledger[plan[k].id].net = plan[k].paid.net + Deferred(c, k)
    BY DEF PlanExact
  <2>2. \A k \in 1..n : plan[k].id \in Ids
    BY DEF Shape, PlanSound
  <2> HIDE DEF plan, n
  <2> QED BY <2>1, <2>2
<1>6. e \in Bijection(1..n, P)
  <2>1. e \in [1..n -> P] /\ \A x \in P : \E k \in 1..n : e[k] = x
    OBVIOUS
  <2>2. \A j, k \in 1..n : e[j] = e[k] => j = k
    BY <1>5
  <2> HIDE DEF e, P, n
  <2> QED BY <2>1, <2>2 DEF Bijection, Injection, Surjection, IsInjective
<1>7. \A k \in 1..n : g[k] = p[k] + d[k]
  OBVIOUS
<1>8. Total([k \in 1..n |-> plan[k].paid], "net") = SumOf(p, 1..n)
  <2> DEFINE m == [k \in 1..n |-> plan[k].paid]
  <2>1. Len(m) = n
    BY <1>1
  <2>2. [k \in 1..n |-> m[k]["net"]] = p
    OBVIOUS
  <2> HIDE DEF m, n, p
  <2>3. Total(m, "net") = SumOf(p, 1..n)
    BY <2>1, <2>2 DEF Total
  <2> QED BY <2>3 DEF m
<1> HIDE DEF e, p, d, g, P, net, n, plan
<1>9. IsFiniteSet(1..n) /\ \A k \in 1..n : d[k] \in Int /\ g[k] \in Int
  <2>1. \A k \in 1..n : d[k] \in Int
    BY <1>3, <1>4
  <2>2. IsFiniteSet(1..n)
    BY <1>1, FS_Interval
  <2> QED BY <1>2, <1>7, <2>1, <2>2
<1>10. SumOf(net, P) = SumOf(g, 1..n)
  <2>1. \A k \in 1..n : g[k] \in Int /\ net[e[k]] = g[k]
    BY <1>5, <1>9
  <2>2. n \in Nat
    BY <1>1
  <2> QED BY <1>6, <2>1, <2>2, SumImage
<1>11. SumOf(g, 1..n) = SumOf(p, 1..n) + SumOf(d, 1..n)
  <2> DEFINE I == 1..n
  <2>1. \A k \in I : p[k] \in Int /\ d[k] \in Int /\ g[k] = p[k] + d[k]
    BY <1>2, <1>7, <1>9
  <2>2. IsFiniteSet(I)
    BY <1>9
  <2> HIDE DEF I
  <2>3. SumOf(g, I) = SumOf(p, I) + SumOf(d, I)
    BY <2>1, <2>2, SumPlus
  <2> QED BY <2>3 DEF I
<1>12. SumOf(d, 1..n) = Rest(c)
  <2>1. CASE n = 0
    <3>1. \A k \in 1..n : d[k] = 0
      BY <2>1
    <3>2. SumOf(d, 1..n) = 0
      BY <1>9, <3>1, SumZero
    <3> QED BY <1>3, <2>1, <3>2 DEF Rest
  <2>2. CASE n > 0
    <3> DEFINE T == {n}
    <3>1. T \in SUBSET (1..n) /\ \A k \in T : d[k] = Rest(c)
      BY <1>1, <1>4, <2>2
    <3>2. \A k \in (1..n) \ T : d[k] = 0
      BY <1>4
    <3>3. Cardinality(T) = 1
      BY FS_Singleton
    <3> HIDE DEF T
    <3>4. SumOf(d, 1..n) = Rest(c) * Cardinality(T)
      BY <1>3, <1>9, <3>1, <3>2, SumCount
    <3> QED BY <1>3, <3>3, <3>4
  <2> QED BY <1>1, <2>1, <2>2
<1>13. SumOf(p, 1..n) \in Int
  BY <1>2, <1>9, SumInt
<1> QED BY <1>3, <1>8, <1>10, <1>11, <1>12, <1>13 DEF net, plan, n, P

\* A payout adds what it paid to what its seller was paid.
LEMMA PaidAppended ==
  ASSUME TypeOK, NEW p \in Payout, payouts' = Append(payouts, p), NEW s \in Sellers
  PROVE  PaidOut(s)' = PaidOut(s) + (IF p.seller = s THEN p.net ELSE 0)
<1> DEFINE n == Len(payouts)
           f == [k \in 1..n |-> payouts[k].net]
           S == {k \in 1..n : payouts[k].seller = s}
           g == [k \in 1..(n + 1) |-> payouts'[k].net]
           T == {k \in 1..(n + 1) : payouts'[k].seller = s}
<1>1. payouts \in Seq(Payout) /\ n \in Nat
  BY DEF TypeOK, SellerTypeOK
<1>2. /\ Len(payouts') = n + 1 /\ payouts'[n + 1] = p
      /\ \A k \in 1..n : payouts'[k] = payouts[k] /\ payouts[k] \in Payout
  BY <1>1
<1>3. PaidOut(s) = SumOf(f, S) /\ PaidOut(s)' = SumOf(g, T)
  BY <1>2 DEF PaidOut
<1>4. /\ \A k \in S : f[k] = g[k] /\ f[k] \in Int
      /\ n + 1 \notin S /\ g[n + 1] = p.net /\ p.net \in Int /\ IsFiniteSet(S)
  <2>1. \A k \in S : f[k] = g[k] /\ f[k] \in Int
    BY <1>1, <1>2 DEF Payout
  <2>2. n + 1 \notin S /\ g[n + 1] = p.net /\ p.net \in Int
    BY <1>1, <1>2 DEF Payout
  <2>3. IsFiniteSet(S)
    <3>1. IsFiniteSet(1..n) /\ S \subseteq 1..n
      BY <1>1, FS_Interval
    <3> HIDE DEF S
    <3> QED BY <3>1, FS_Subset
  <2> QED BY <2>1, <2>2, <2>3
<1>5. T = IF p.seller = s THEN S \cup {n + 1} ELSE S
  <2>1. \A k : k \in 1..(n + 1) <=> (k \in 1..n \/ k = n + 1)
    BY <1>1
  <2>2. \A k : k \in T <=> (k \in 1..(n + 1) /\ payouts'[k].seller = s)
    OBVIOUS
  <2>3. \A k : k \in S <=> (k \in 1..n /\ payouts[k].seller = s)
    OBVIOUS
  <2> HIDE DEF T, S, n
  <2> QED BY <1>2, <2>1, <2>2, <2>3
<1> HIDE DEF f, g, S, T, n
<1>6. SumOf(f, S) = SumOf(g, S)
  BY <1>4, SumSame
<1>7. SumOf(f, S) \in Int
  BY <1>4, SumInt
<1>8. CASE p.seller = s
  <2>1. \A k \in S \cup {n + 1} : g[k] \in Int
    BY <1>4
  <2>2. SumOf(g, S \cup {n + 1}) = g[n + 1] + SumOf(g, S)
    BY <1>4, <2>1, SumAdd
  <2> QED BY <1>3, <1>4, <1>5, <1>6, <1>7, <1>8, <2>2
<1>9. CASE p.seller # s
  BY <1>3, <1>5, <1>6, <1>7, <1>9
<1> QED BY <1>8, <1>9

\* A payout leaves the balance of other sellers alone,
LEMMA BalanceOthers ==
  ASSUME TypeOK, TypeOK', Shape, Signed, NEW c \in Callers, Callers = {c}, PlanExact(c),
         NEW s \in Sellers, PaidOut(s) + SumOf(Worth(s), Ids) <= 0, ReleasePayout(c),
         call[c].seller # s
  PROVE  PaidOut(s)' + SumOf(Worth(s)', Ids') <= 0
<1> DEFINE plan == call[c].plan
           n == Len(plan)
           rest == call[c].rest
           paid == Total([k \in 1..n |-> plan[k].paid], "net")
           pay == [seller |-> call[c].seller, amount |-> call[c].amount, net |-> paid]
           L == Len(ledger) + 1
<1>1. call[c].at = "release" /\ call' = [call EXCEPT ![c] = NoCall]
  BY DEF ReleasePayout
<1>2. call'[c] = NoCall
  BY <1>1, CallKept
<1>3. PaidOut(s)' = PaidOut(s)
  <2>1. payouts' = Append(payouts, pay)
    BY ReleaseEffect
  <2>2. pay \in Payout /\ pay.seller # s
    <3>1. call[c].seller \in Sellers /\ call[c].amount \in Nat
      BY <1>1, CallFields DEF Idle
    <3>2. paid \in Int
      BY <1>1, PlanTotal
    <3> HIDE DEF paid
    <3> QED BY <3>1, <3>2 DEF Payout
  <2> HIDE DEF pay
  <2>3. PaidOut(s)' = PaidOut(s) + (IF pay.seller = s THEN pay.net ELSE 0)
    BY <2>1, <2>2, PaidAppended
  <2> QED BY <2>2, <2>3, WorthInt
<1>4. /\ \A i \in Ids :
           /\ ledger'[i].seller = ledger[i].seller
           /\ \/ ledger'[i] = ledger[i]
              \/ \E k \in 1..n : plan[k].id = i
      /\ rest = <<>> => Ids' = Ids
      /\ rest # <<>> => /\ Ids' = Ids \cup {L} /\ ledger'[L] = rest[1]
                        /\ rest[1].seller = call[c].seller
  BY ReleasedRows
<1>5. \A k \in 1..n : plan[k].id \in Ids /\ ledger[plan[k].id].seller = call[c].seller
  BY <1>1 DEF Shape, PlanSound
<1>6. \A i \in Ids' : ~Planned(i)'
  BY <1>2 DEF Planned, NoCall
<1> HIDE DEF plan, n, rest, L
<1>7. Ids \subseteq Ids' /\ \A i \in Ids' \ Ids : ledger'[i].seller # s
  BY <1>4
<1>8. ASSUME NEW i \in Ids PROVE Worth(s)[i] \in Int /\ Worth(s)'[i] <= Worth(s)[i]
  <2>1. Worth(s)[i] \in Int /\ i \in Ids'
    BY <1>7, WorthInt
  <2>2. CASE ledger[i].seller = s
    <3>1. ledger'[i] = ledger[i]
      BY <1>4, <1>5, <2>2
    <3>2. Held(i)' <=> ledger[i].status \in {"escrowed", "earned"}
      BY <1>6, <2>1, <3>1 DEF Held
    <3>3. Held(i)' => Held(i)
      BY <3>2 DEF Held
    <3>4. Held(i) /\ ~Held(i)' => ledger[i].net >= 0
      BY <3>2, HeldByPlan
    <3> QED BY <2>1, <3>1, <3>3, <3>4, WorthKept
  <2>3. CASE ledger[i].seller # s
    <3>1. Worth(s)[i] = 0 /\ Worth(s)'[i] = 0
      BY <1>4, <2>1, <2>3 DEF Worth
    <3> QED BY <3>1
  <2> QED BY <2>1, <2>2, <2>3
<1>9. \A i \in Ids' \ Ids : Worth(s)'[i] <= 0
  BY <1>7 DEF Worth
<1> DEFINE w == Worth(s)
<1>10. /\ \A i \in Ids : w[i] \in Int /\ Worth(s)'[i] <= w[i]
       /\ PaidOut(s)' \in Int /\ PaidOut(s)' + SumOf(w, Ids) <= 0
  BY <1>3, <1>8, WorthInt
<1> HIDE DEF w
<1> QED BY <1>7, <1>9, <1>10, BalancedBy

\* A planned row of the seller loses all that it was worth beyond its share of the
\* escrow; the others keep what they were worth.
LEMMA PlannedWorth ==
  ASSUME TypeOK, TypeOK', Shape, NEW c \in Callers, Callers = {c}, PlanExact(c),
         NEW s \in Sellers, ReleasePayout(c), call[c].seller = s, NEW i \in Ids, i \in Ids'
  PROVE  Worth(s)'[i]
           = Worth(s)[i]
             - (IF \E k \in 1..Len(call[c].plan) : call[c].plan[k].id = i
                THEN ledger[i].net ELSE 0)
<1> DEFINE plan == call[c].plan
           n == Len(plan)
<1>1. call[c].at = "release" /\ call' = [call EXCEPT ![c] = NoCall]
  BY DEF ReleasePayout
<1>2. call'[c] = NoCall
  BY <1>1, CallKept
<1>3. ~Planned(i)'
  BY <1>2 DEF Planned, NoCall
<1>4. Planned(i) <=> \E k \in 1..n : plan[k].id = i
  BY <1>1 DEF Planned
<1>5. /\ ledger'[i].order = ledger[i].order
      /\ ledger'[i].seller = ledger[i].seller
      /\ ledger'[i].born = ledger[i].born
      /\ \/ ledger'[i] = ledger[i] /\ \A k \in 1..n : plan[k].id # i
         \/ \E k \in 1..n : /\ plan[k].id = i
                            /\ ledger'[i].status = "payout_released"
                            /\ ledger'[i].net = plan[k].paid.net
  BY ReleasedRows
<1>6. /\ \A k \in 1..n : ledger[plan[k].id].seller = s
      /\ \A k \in 1..n :
           LET e == ledger[plan[k].id] IN
           /\ e.net = plan[k].paid.net + Deferred(c, k)
           /\ e.order = NoOrder => e.status = "earned" /\ Deferred(c, k) = 0
           /\ e.order # NoOrder => plan[k].paid.net >= 0
  BY <1>1 DEF Shape, PlanSound, PlanExact
<1>7. /\ \A k \in 1..n : plan[k].paid.net \in Int
  BY <1>1, CallFields DEF Idle, Money
<1>8. ledger[i].net \in Int /\ SaleNet \in Int
  BY WorthInt, SaleAmounts
<1>9. EscrowNet(i)' = EscrowNet(i) /\ EscrowNet(i) \in Int
  BY <1>5, <1>8 DEF EscrowNet, IsOriginal
<1>10. Worth(s)[i] = IF ledger[i].seller = s THEN HeldNet(i) - AdNet(i) - EscrowNet(i) ELSE 0
  BY DEF Worth
<1>11. Worth(s)'[i] = IF ledger[i].seller = s
                      THEN HeldNet(i)' - AdNet(i)' - EscrowNet(i)' ELSE 0
  BY <1>5 DEF Worth
<1> HIDE DEF plan, n
<1>12. HeldNet(i) \in Int /\ AdNet(i) \in Int
  BY <1>8 DEF HeldNet, AdNet
<1>13. CASE \E k \in 1..n : plan[k].id = i
  <2>2. PICK k \in 1..n : /\ plan[k].id = i
                         /\ ledger'[i].status = "payout_released"
                         /\ ledger'[i].net = plan[k].paid.net
    BY <1>5, <1>13
  <2>3. HeldNet(i) = ledger[i].net /\ HeldNet(i)' = 0
    BY <1>3, <1>4, <1>13, <2>2 DEF HeldNet, Held
  <2>4. AdNet(i)' = AdNet(i)
    BY <1>5, <1>6, <1>7, <2>2 DEF AdNet
  <2>5. ledger[i].seller = s
    BY <1>6, <2>2
  <2> DEFINE a == AdNet(i)
             e == EscrowNet(i)
             m == ledger[i].net
  <2>6. /\ a \in Int /\ e \in Int /\ m \in Int
        /\ Worth(s)[i] = m - a - e /\ Worth(s)'[i] = 0 - a - e
    BY <1>8, <1>9, <1>10, <1>11, <1>12, <2>3, <2>4, <2>5
  <2> HIDE DEF a, e, m
  <2>7. Worth(s)'[i] = Worth(s)[i] - m
    BY <2>6
  <2> QED BY <1>13, <2>7 DEF m, n, plan
<1>14. CASE ~\E k \in 1..n : plan[k].id = i
  <2>1. ledger'[i] = ledger[i]
    BY <1>5, <1>14
  <2>2. HeldNet(i)' = HeldNet(i) /\ AdNet(i)' = AdNet(i)
    BY <1>3, <1>4, <1>14, <2>1 DEF HeldNet, Held, AdNet
  <2>3. Worth(s)'[i] = Worth(s)[i] /\ Worth(s)[i] \in Int
    BY <1>9, <1>10, <1>11, <2>2, WorthInt
  <2> QED BY <1>14, <2>3 DEF n, plan
<1> QED BY <1>13, <1>14

\* A payout takes out of its seller's rows what it pays.
LEMMA BalanceReleased ==
  ASSUME TypeOK, TypeOK', Shape, NEW c \in Callers, Callers = {c}, PlanExact(c),
         NEW s \in Sellers, PaidOut(s) + SumOf(Worth(s), Ids) <= 0, ReleasePayout(c),
         call[c].seller = s
  PROVE  PaidOut(s)' + SumOf(Worth(s)', Ids') <= 0
<1> DEFINE plan == call[c].plan
           n == Len(plan)
           rest == call[c].rest
           paid == Total([k \in 1..n |-> plan[k].paid], "net")
           pay == [seller |-> call[c].seller, amount |-> call[c].amount, net |-> paid]
           L == Len(ledger) + 1
           w == Worth(s)
           v == Worth(s)'
           net == [i \in Ids |-> ledger[i].net]
           P == {plan[k].id : k \in 1..n}
           drop == [i \in Ids |-> IF i \in P THEN ledger[i].net ELSE 0]
           m == Rest(c)
           I == Ids
           J == Ids'
<1>1. call[c].at = "release" /\ call' = [call EXCEPT ![c] = NoCall]
  BY DEF ReleasePayout
<1>2. call'[c] = NoCall
  BY <1>1, CallKept
<1>3. /\ paid \in Int /\ m \in Int /\ SumOf(net, P) = paid + m
  BY <1>1, PlanTotal
<1>4. PaidOut(s)' = PaidOut(s) + paid /\ PaidOut(s) \in Int
  <2>1. payouts' = Append(payouts, pay)
    BY ReleaseEffect
  <2>2. pay \in Payout /\ pay.seller = s /\ pay.net = paid
    <3>1. call[c].seller \in Sellers /\ call[c].amount \in Nat
      BY <1>1, CallFields DEF Idle
    <3> HIDE DEF paid
    <3> QED BY <1>3, <3>1 DEF Payout
  <2> HIDE DEF pay, paid
  <2>3. PaidOut(s)' = PaidOut(s) + (IF pay.seller = s THEN pay.net ELSE 0)
    BY <2>1, <2>2, PaidAppended
  <2> QED BY <2>2, <2>3, WorthInt
<1>5. P \in SUBSET I /\ IsFiniteSet(I)
  BY <1>1, WorthInt DEF Shape, PlanSound
<1>6. /\ \A i \in I : w[i] \in Int /\ net[i] \in Int
      /\ SumOf(w, I) \in Int /\ PaidOut(s) + SumOf(w, I) <= 0
  BY WorthInt
<1>7. /\ rest = <<>> => J = I
      /\ rest # <<>> =>
           /\ L \notin I /\ J = I \cup {L} /\ ledger'[L] = rest[1]
           /\ Len(plan) \in 1..Len(plan)
           /\ rest[1].net \in Int /\ rest[1].net > 0
           /\ rest[1].order = ledger[plan[Len(plan)].id].order
           /\ ledger'[L].born # L
  BY ReleasedRows
<1>8. \A i \in I : v[i] = w[i] - drop[i] /\ i \in J
  <2> SUFFICES ASSUME NEW i \in Ids PROVE v[i] = w[i] - drop[i] /\ i \in J
    OBVIOUS
  <2>1. i \in Ids'
    BY <1>7
  <2>2. v[i] = w[i] - (IF \E k \in 1..n : plan[k].id = i THEN ledger[i].net ELSE 0)
    BY <2>1, PlannedWorth
  <2>3. i \in P <=> \E k \in 1..n : plan[k].id = i
    OBVIOUS
  <2> HIDE DEF P, n, plan, v, w
  <2> QED BY <2>1, <2>2, <2>3
<1>9. \A i \in P : net[i] = drop[i] /\ net[i] \in Int
  <2> HIDE DEF P
  <2> QED BY <1>5, <1>6
<1>10. \A i \in I \ P : drop[i] = 0
  <2> HIDE DEF P
  <2> QED OBVIOUS
<1>11. ASSUME rest # <<>> PROVE v[L] \in Int /\ v[L] <= m
  <2>1. rest[1].order # NoOrder
    <3>1. Deferred(c, n) = rest[1].net
      BY <1>11 DEF Deferred
    <3>2. ledger[plan[n].id].order = NoOrder => Deferred(c, n) = 0
      BY <1>1, <1>7, <1>11 DEF PlanExact
    <3> QED BY <1>7, <1>11, <3>1, <3>2
  <2>2. PICK l \in Ids' : l = L
    BY <1>7, <1>11
  <2>3. m = rest[1].net
    BY <1>11 DEF Rest
  <2> HIDE DEF L, rest, plan, n, m
  <2>4. AdNet(l)' = 0 /\ EscrowNet(l)' = 0
    BY <1>7, <1>11, <2>1, <2>2 DEF AdNet, EscrowNet, IsOriginal
  <2>5. HeldNet(l)' = rest[1].net \/ HeldNet(l)' = 0
    BY <1>7, <1>11, <2>2 DEF HeldNet
  <2>6. Worth(s)'[l] = IF ledger'[l].seller = s
                       THEN HeldNet(l)' - AdNet(l)' - EscrowNet(l)' ELSE 0
    BY DEF Worth
  <2>7. Worth(s)'[l] \in Int /\ Worth(s)'[l] <= m
    BY <1>7, <1>11, <2>3, <2>4, <2>5, <2>6
  <2> QED BY <2>2, <2>7
<1>12. rest = <<>> => m = 0
  BY DEF Rest
<1> HIDE DEF plan, n, rest, paid, pay, L, w, v, net, P, drop, m, I, J
<1>13. SumOf(net, P) = SumOf(drop, I)
  BY <1>5, <1>9, <1>10, SumPart
<1>14. \A i \in I : v[i] \in Int /\ drop[i] \in Int /\ w[i] = v[i] + drop[i]
  <2>1. ASSUME NEW i \in I PROVE drop[i] \in Int
    <3>1. i \in P \/ i \in I \ P
      OBVIOUS
    <3>2. i \in P => drop[i] \in Int
      BY <1>9
    <3>3. i \in I \ P => drop[i] \in Int
      BY <1>10
    <3> QED BY <3>1, <3>2, <3>3
  <2> QED BY <1>6, <1>8, <2>1
<1>15. SumOf(w, I) = SumOf(v, I) + SumOf(drop, I)
  BY <1>5, <1>14, SumPlus
<1>16. SumOf(v, I) \in Int
  BY <1>5, <1>14, SumInt
<1>17. SumOf(v, J) \in Int /\ SumOf(v, J) <= SumOf(v, I) + m
  <2>1. CASE rest = <<>>
    BY <1>3, <1>7, <1>12, <1>16, <2>1
  <2>2. CASE rest # <<>>
    <3>1. L \notin I /\ J = I \cup {L} /\ v[L] \in Int /\ v[L] <= m
      BY <1>7, <1>11, <2>2
    <3>2. \A i \in I \cup {L} : v[i] \in Int
      BY <1>14, <3>1
    <3>3. SumOf(v, I \cup {L}) = v[L] + SumOf(v, I)
      BY <1>5, <3>1, <3>2, SumAdd
    <3> QED BY <1>3, <1>16, <3>1, <3>3
  <2> QED BY <2>1, <2>2
<1>18. PICK b \in Int, q \in Int : b = PaidOut(s) /\ q = SumOf(drop, I) /\ q = paid + m
  BY <1>3, <1>4, <1>13
<1>19. (b + paid) + SumOf(v, J) <= 0
  BY <1>3, <1>6, <1>15, <1>16, <1>17, <1>18
<1>20. PaidOut(s)' + SumOf(v, J) <= 0
  BY <1>4, <1>18, <1>19
<1> QED BY <1>20 DEF v, J

\* Every step keeps every seller in balance.
LEMMA BalanceStep ==
  ASSUME TypeOK, TypeOK', Shape, Signed, WhileUnsold, NEW c \in Callers, Callers = {c},
         PlanExact(c), Balanced, SellerStep \/ SellersRest
  PROVE  Balanced'
<1> SUFFICES ASSUME NEW s \in Sellers, sales'[s] <= 1
             PROVE  PaidOut(s)' + SumOf(Worth(s)', Ids') <= 0
  BY DEF Balanced
<1>1. sales[s] <= 1
  <2>1. sales \in [Sellers -> Nat]
    BY DEF TypeOK, SellerTypeOK
  <2>2. CASE UNCHANGED sales
    BY <2>2
  <2>3. CASE SettleEarnings
    <3>1. \/ sales' = sales
          \/ sales' = [sales EXCEPT ![settling.seller] = @ + 1]
      BY <2>3 DEF SettleEarnings
    <3> QED BY <2>1, <3>1
  <2> QED BY <2>2, <2>3
       DEF SellerStep, SellersRest, sellerVars, HandleOrderConfirmed, HandleOrderItemUpdated,
           AbortSettling, CreatePayout, AddAdCredit, GrantAdCredit, FetchEarned, ReleasePayout,
           CommitAdCredit, AbortCall
<1>2. PaidOut(s) + SumOf(Worth(s), Ids) <= 0
  BY <1>1 DEF Balanced
<1>3. CASE HandleOrderConfirmed
  BY <1>2, <1>3, BalanceConfirmed
<1>4. CASE SettleEarnings
  BY <1>2, <1>4, BalanceSettled
<1>5. ASSUME NEW d \in Callers, FetchEarned(d) PROVE PaidOut(s)' + SumOf(Worth(s)', Ids') <= 0
  <2>1. UNCHANGED <<ledger, payouts>>
    BY <1>5 DEF FetchEarned
  <2>2. \A k \in 1..Len(call'[c].plan) : ledger[call'[c].plan[k].id].status = "earned"
    BY <1>5, FetchEffect
  <2>3. \A i \in Ids : Planned(i)' => ledger[i].status = "earned"
    BY <2>2 DEF Planned
  <2> QED BY <1>2, <2>1, <2>3, BalanceCalled
<1>6. ASSUME NEW d \in Callers, ReleasePayout(d) PROVE PaidOut(s)' + SumOf(Worth(s)', Ids') <= 0
  <2>1. ReleasePayout(c)
    BY <1>6
  <2> QED BY <1>2, <2>1, BalanceOthers, BalanceReleased
<1>7. ASSUME NEW d \in Callers, CommitAdCredit(d) PROVE PaidOut(s)' + SumOf(Worth(s)', Ids') <= 0
  <2>1. CommitAdCredit(c)
    BY <1>7
  <2> QED BY <1>2, <2>1, BalanceCredited
<1>8. ASSUME NEW d \in Callers,
             \/ AbortCall(d)
             \/ \E t \in Sellers, a \in Amounts : CreatePayout(d, t, a) \/ AddAdCredit(d, t, a)
      PROVE  PaidOut(s)' + SumOf(Worth(s)', Ids') <= 0
  <2>1. UNCHANGED <<ledger, payouts>>
    BY <1>8 DEF AbortCall, CreatePayout, AddAdCredit
  <2>2. call'[c].at # "release"
    BY <1>8 DEF AbortCall, CreatePayout, AddAdCredit, TypeOK, SellerTypeOK, NoCall
  <2>3. \A i \in Ids : ~Planned(i)'
    BY <2>2 DEF Planned
  <2> QED BY <1>2, <2>1, <2>3, BalanceCalled
<1>9. CASE \/ HandleOrderItemUpdated \/ AbortSettling \/ SellersRest
           \/ \E t \in Sellers, a \in Amounts : GrantAdCredit(t, a)
  <2>1. UNCHANGED <<ledger, payouts, call>>
    BY <1>9 DEF HandleOrderItemUpdated, AbortSettling, SellersRest, sellerVars, GrantAdCredit
  <2>2. PaidOut(s)' = PaidOut(s) /\ Worth(s)' = Worth(s) /\ Ids' = Ids
    BY <2>1 DEF PaidOut, Worth, HeldNet, AdNet, EscrowNet, Held, Planned, IsOriginal, Ids
  <2> QED BY <1>2, <2>2
<1> QED BY <1>3, <1>4, <1>5, <1>6, <1>7, <1>8, <1>9 DEF SellerStep

\* Where one call is made at a time there is one goroutine.
LEMMA OneCaller ==
  ASSUME Cardinality(Callers) = 1
  PROVE  \E c \in Callers : Callers = {c}
<1>1. \E c : Callers = {c}
  BY FiniteAssumption, FS_Singleton
<1> QED BY <1>1

\* Every step keeps all of it.
LEMMA PaidStep ==
  ASSUME TypeOK, TypeOK', Shape, FreedHeld, PaidInv, SellerStep \/ SellersRest
  PROVE  PaidInv'
<1> SUFFICES ASSUME Cardinality(Callers) = 1
             PROVE  /\ Signed' /\ WhileUnsold' /\ Balanced'
                    /\ \A d \in Callers : PlanExact(d)'
  BY DEF PaidInv
<1>1. Signed /\ WhileUnsold /\ (\A d \in Callers : PlanExact(d)) /\ Balanced
  BY DEF PaidInv
<1>2. PICK c \in Callers : Callers = {c}
  BY OneCaller
<1>3. Signed'
  BY <1>1, SignedStep
<1>4. WhileUnsold'
  BY <1>1, UnsoldStep
<1>5. PlanExact(c)'
  BY <1>1, <1>2, ExactStep
<1>6. Balanced'
  BY <1>1, <1>2, BalanceStep
<1>7. \A d \in Callers : PlanExact(d)'
  <2> SUFFICES ASSUME NEW d \in Callers PROVE PlanExact(d)'
    OBVIOUS
  <2>1. d = c
    BY <1>2
  <2> QED BY <1>5, <2>1
<1> QED BY <1>3, <1>4, <1>6, <1>7

\* At the start nothing is sold and nothing paid.
LEMMA PaidInit == Init => PaidInv
<1> SUFFICES ASSUME Init PROVE PaidInv
  OBVIOUS
<1>1. /\ ledger = <<>> /\ payouts = <<>> /\ \A c \in Callers : call[c].at = "idle"
  BY DEF Init, SellerInit, NoCall
<1>2. Ids = {} /\ 1..Len(payouts) = {}
  BY <1>1 DEF Ids
<1>3. Signed /\ WhileUnsold
  BY <1>1, <1>2 DEF Signed, WhileUnsold, Untouched, Idle
<1>4. \A c \in Callers : PlanExact(c)
  BY <1>1 DEF PlanExact
<1>5. Balanced
  <2>1. \A f : SumOf(f, {}) = 0
    BY SumEmpty
  <2>2. ASSUME NEW s \in Sellers PROVE PaidOut(s) = 0 /\ SumOf(Worth(s), Ids) = 0
    <3>1. {k \in 1..Len(payouts) : payouts[k].seller = s} = {}
      BY <1>2
    <3>2. PaidOut(s) = 0
      BY <2>1, <3>1 DEF PaidOut
    <3> QED BY <1>2, <2>1, <3>2
  <2> QED BY <2>2 DEF Balanced
<1> QED BY <1>3, <1>4, <1>5 DEF PaidInv

\* A seller in balance is paid nothing twice.
LEMMA PaidSuffices == TypeOK /\ PaidInv => PaidOnce
<1> SUFFICES ASSUME TypeOK, PaidInv, NEW s \in Sellers, sales[s] <= 1, Cardinality(Callers) = 1
             PROVE  Claims(s) <= SaleNet * Cardinality({i \in Ids : /\ ledger[i].seller = s
                                                                    /\ IsOriginal(i)})
  BY DEF PaidOnce
<1>1. PICK c \in Callers : Callers = {c}
  BY OneCaller
<1>2. Signed /\ PlanExact(c) /\ PaidOut(s) + SumOf(Worth(s), Ids) <= 0
  BY DEF PaidInv, Balanced
<1> DEFINE I == Ids
           H == EntriesOf(s, "escrowed") \cup EntriesOf(s, "earned")
           A == {i \in Ids : ledger[i].seller = s /\ ledger[i].order = NoOrder}
           O == {i \in Ids : ledger[i].seller = s /\ IsOriginal(i)}
           net == [i \in DOMAIN ledger |-> ledger[i].net]
           h == [i \in Ids |-> IF i \in H THEN ledger[i].net ELSE 0]
           a == [i \in Ids |-> IF i \in A THEN ledger[i].net ELSE 0]
           x == [i \in Ids |-> IF i \in O THEN SaleNet ELSE 0]
           w == Worth(s)
           y == [i \in Ids |-> w[i] + a[i]]
           z == [i \in Ids |-> y[i] + x[i]]
<1>3. /\ IsFiniteSet(I) /\ DOMAIN ledger = I
      /\ \A i \in I : ledger[i].net \in Int /\ w[i] \in Int /\ net[i] = ledger[i].net
      /\ PaidOut(s) \in Int /\ SumOf(w, I) \in Int
  BY LedgerRows, WorthInt
<1>4. H \in SUBSET I /\ A \in SUBSET I /\ O \in SUBSET I
  BY DEF EntriesOf, Ids
<1>5. Claims(s) = PaidOut(s) + SumOf(net, H) - SumOf(net, A)
  BY DEF Claims, SumNet
<1>6. ASSUME NEW i \in I
      PROVE  /\ h[i] \in Int /\ a[i] \in Int /\ x[i] \in Int /\ h[i] <= w[i] + a[i] + x[i]
  <2>1. /\ ledger[i].net \in Int /\ SaleNet \in Int
    BY <1>3, SaleAmounts
  <2>2. i \in H <=> (ledger[i].seller = s /\ ledger[i].status \in {"escrowed", "earned"})
    BY DEF EntriesOf, Ids
  <2>3. CASE ledger[i].seller = s
    <3>1. w[i] = HeldNet(i) - a[i] - x[i]
      BY <2>3 DEF Worth, AdNet, EscrowNet
    <3>2. a[i] \in Int /\ x[i] \in Int
      BY <2>1
    <3>3. h[i] \in Int /\ HeldNet(i) \in Int /\ h[i] <= HeldNet(i)
      <4>1. CASE i \in H
        <5>1. h[i] = ledger[i].net
          BY <4>1
        <5>2. HeldNet(i) = ledger[i].net
          BY <2>2, <4>1 DEF HeldNet, Held
        <5> QED BY <2>1, <5>1, <5>2
      <4>2. CASE i \notin H
        <5>1. h[i] = 0
          BY <4>2
        <5>2. Held(i) => ledger[i].net >= 0
          BY <1>1, <1>2, <2>2, <2>3, <4>2, HeldByPlan
        <5>3. HeldNet(i) \in Int /\ HeldNet(i) >= 0
          BY <2>1, <5>2 DEF HeldNet
        <5> QED BY <5>1, <5>3
      <4> QED BY <4>1, <4>2
    <3> HIDE DEF w, a, x, h
    <3> QED BY <3>1, <3>2, <3>3
  <2>4. CASE ledger[i].seller # s
    <3>1. h[i] = 0 /\ a[i] = 0 /\ x[i] = 0 /\ w[i] = 0
      BY <2>2, <2>4 DEF Worth
    <3> HIDE DEF w, a, x, h
    <3> QED BY <3>1
  <2> QED BY <2>3, <2>4
<1>7. /\ \A i \in H : net[i] = h[i] /\ net[i] \in Int
      /\ \A i \in I \ H : h[i] = 0
  <2> HIDE DEF H, net
  <2> QED BY <1>3, <1>4
<1>8. /\ \A i \in A : net[i] = a[i] /\ net[i] \in Int
      /\ \A i \in I \ A : a[i] = 0
  <2> HIDE DEF A, net
  <2> QED BY <1>3, <1>4
<1>9. /\ \A i \in O : x[i] = SaleNet
      /\ \A i \in I \ O : x[i] = 0
  <2> HIDE DEF O
  <2> QED BY <1>4
<1>10. \A i \in I : y[i] = w[i] + a[i] /\ z[i] = y[i] + x[i]
  OBVIOUS
<1> HIDE DEF I, H, A, O, net, h, a, x, w, y, z
<1>11. SumOf(net, H) = SumOf(h, I)
  BY <1>3, <1>4, <1>7, SumPart
<1>12. SumOf(net, A) = SumOf(a, I)
  BY <1>3, <1>4, <1>8, SumPart
<1>13. SumOf(x, I) = SaleNet * Cardinality(O)
  <2>1. SaleNet \in Int
    BY SaleAmounts
  <2> QED BY <1>3, <1>4, <1>9, <2>1, SumCount
<1>14. \A i \in I : /\ w[i] \in Int /\ a[i] \in Int /\ y[i] = w[i] + a[i]
                    /\ y[i] \in Int /\ x[i] \in Int /\ z[i] = y[i] + x[i]
                    /\ h[i] \in Int /\ z[i] \in Int /\ h[i] <= z[i]
  BY <1>3, <1>6, <1>10
<1>15. SumOf(y, I) = SumOf(w, I) + SumOf(a, I)
  BY <1>3, <1>14, SumPlus
<1>16. SumOf(z, I) = SumOf(y, I) + SumOf(x, I)
  BY <1>3, <1>14, SumPlus
<1>17. SumOf(h, I) <= SumOf(z, I)
  BY <1>3, <1>14, SumMonotone
<1>18. SumOf(h, I) \in Int
  BY <1>3, <1>14, SumInt
<1>19. SumOf(a, I) \in Int
  BY <1>3, <1>14, SumInt
<1>20. SumOf(x, I) \in Int
  BY <1>3, <1>14, SumInt
<1>21. PaidOut(s) + SumOf(w, I) <= 0
  BY <1>2 DEF w, I
<1>22. PaidOut(s) + SumOf(h, I) - SumOf(a, I) <= SumOf(x, I)
  BY <1>3, <1>15, <1>16, <1>17, <1>18, <1>19, <1>20, <1>21
<1> QED BY <1>5, <1>11, <1>12, <1>13, <1>22 DEF O

\* A seller that makes one call at a time and delivers once is never paid the
\* same money twice: not by splits, not by ad credits set against a payout, not
\* by cancellations that overtake one.
THEOREM NothingPaidTwice == Spec => []PaidOnce
<1>1. TypeOK /\ Shape /\ FreedHeld /\ PaidInv /\ [Next]_vars
        => TypeOK' /\ Shape' /\ FreedHeld' /\ PaidInv'
  BY SellerTypeStep, ShapeStep, FreedStep, PaidStep
<1>2. Init => TypeOK /\ Shape /\ FreedHeld /\ PaidInv
  BY SellerInitType, ShapeInit, FreedInit, PaidInit
<1> QED BY <1>1, <1>2, PaidSuffices, PTL DEF Spec
=============================================================================
