----------------------------- MODULE SumProofs -----------------------------
(***************************************************************************)
(* Lemmas about SumOf, which the proofs about refunds, carts and the ledger  *)
(* need.  The library's induction principles take a predicate as their        *)
(* argument, which the provers cannot instantiate: induction is done here on   *)
(* sets of numbers (NatSet), which rest on the least element of a set of        *)
(* numbers.  The fold that SumOf is defined by is a recursive function: that     *)
(* it satisfies its equation on the subsets of a finite set is proved first.      *)
(***************************************************************************)
EXTENDS Sums, FiniteSets, FiniteSetTheorems, WellFoundedInduction, TLAPS

\* Every non-empty set of natural numbers has a least element.
LEMMA LeastNat ==
  ASSUME NEW T, T \subseteq Nat, T # {}
  PROVE  \E n \in T : \A m \in T : n <= m
<1>1. IsWellFoundedOn(OpToRel(<, Nat), Nat)
  BY NatLessThanWellFounded
<1>2. PICK n \in T : \A m \in T : <<m, n>> \notin OpToRel(<, Nat)
  BY <1>1, WFMin
<1>3. \A m \in T : ~(m < n)
  BY <1>2 DEF OpToRel
<1> QED
  BY <1>3

\* Induction: a set that holds 0 and every successor holds every number.
LEMMA NatSet ==
  ASSUME NEW T, T \subseteq Nat, 0 \in T, \A k \in T : k + 1 \in T
  PROVE  \A k \in Nat : k \in T
<1>1. SUFFICES ASSUME Nat \ T # {} PROVE FALSE
  OBVIOUS
<1>2. PICK k \in Nat \ T : \A m \in Nat \ T : k <= m
  BY <1>1, LeastNat
<1>3. k # 0 /\ k - 1 \in Nat /\ k - 1 \in T
  BY <1>2
<1>4. (k - 1) + 1 \in T
  BY <1>3
<1> QED
  BY <1>2, <1>4

\* One step of the fold of f, for a function g that holds the smaller sums.
FoldStep(f, g, s) ==
  IF s = {} THEN 0 ELSE LET x == CHOOSE x \in s : TRUE IN f[x] + g[s \ {x}]

\* The function that MapThenSumSet looks its value up in.
FoldFcn(f, S) == CHOOSE g : g = [s \in SUBSET S |-> FoldStep(f, g, s)]

\* A sum is the fold of the whole set.
LEMMA SumDef ==
  ASSUME NEW f, NEW S
  PROVE  SumOf(f, S) = FoldFcn(f, S)[S]
BY DEF SumOf, MapThenSumSet, MapThenFoldSet, FoldStep, FoldFcn

\* The subsets of S with at most n elements.
SubsetsUpTo(S, n) == {s \in SUBSET S : Cardinality(s) <= n}

\* A set that an element is chosen from is one smaller without it.
LEMMA SmallerSum ==
  ASSUME NEW S, IsFiniteSet(S), NEW s \in SUBSET S, s # {}
  PROVE  LET x == CHOOSE x \in s : TRUE IN
         /\ x \in s /\ s \ {x} \in SUBSET S
         /\ Cardinality(s) \in Nat /\ Cardinality(s \ {x}) = Cardinality(s) - 1
<1> DEFINE x == CHOOSE x \in s : TRUE
<1>1. x \in s
  OBVIOUS
<1>2. IsFiniteSet(s)
  BY FS_Subset
<1>3. Cardinality(s) \in Nat
  BY <1>2, FS_CardinalityType
<1>4. Cardinality(s \ {x}) = Cardinality(s) - 1
  BY <1>1, <1>2, FS_RemoveElement
<1> QED
  BY <1>1, <1>3, <1>4

\* The fold is well defined on the small subsets of a finite set,
LEMMA FoldUpTo ==
  ASSUME NEW S, IsFiniteSet(S), NEW f, NEW n \in Nat
  PROVE  \E g : g = [s \in SubsetsUpTo(S, n) |-> FoldStep(f, g, s)]
<1> DEFINE P(k) == \E g : g = [s \in SubsetsUpTo(S, k) |-> FoldStep(f, g, s)]
<1>0. \A s \in SUBSET S : Cardinality(s) \in Nat /\ (Cardinality(s) = 0 <=> s = {})
  BY FS_Subset, FS_CardinalityType, FS_EmptySet
<1>1. P(0)
  <2> DEFINE g == [s \in SubsetsUpTo(S, 0) |-> 0]
  <2>1. \A s \in SubsetsUpTo(S, 0) : s = {}
    BY <1>0 DEF SubsetsUpTo
  <2>2. \A s \in SubsetsUpTo(S, 0) : FoldStep(f, g, s) = 0
    BY <2>1 DEF FoldStep
  <2>3. g = [s \in SubsetsUpTo(S, 0) |-> FoldStep(f, g, s)]
    BY <2>2
  <2> QED
    BY <2>3
<1>2. ASSUME NEW k \in Nat, P(k)
      PROVE  P(k + 1)
  <2>1. PICK g : g = [s \in SubsetsUpTo(S, k) |-> FoldStep(f, g, s)]
    BY <1>2
  <2> DEFINE h == [s \in SubsetsUpTo(S, k + 1) |-> FoldStep(f, g, s)]
  <2>2. ASSUME NEW s \in SubsetsUpTo(S, k + 1)
        PROVE  FoldStep(f, g, s) = FoldStep(f, h, s)
    <3>1. CASE s = {}
      BY <3>1 DEF FoldStep
    <3>2. CASE s # {}
      <4> DEFINE x == CHOOSE x \in s : TRUE
                 t == s \ {x}
      <4>0. s \in SUBSET S
        BY DEF SubsetsUpTo
      <4>1. /\ Cardinality(s) \in Nat /\ t \in SUBSET S
            /\ Cardinality(t) = Cardinality(s) - 1
        BY <3>2, <4>0, SmallerSum
      <4>2. t \in SubsetsUpTo(S, k) /\ t \in SubsetsUpTo(S, k + 1)
        BY <4>1 DEF SubsetsUpTo
      <4>3. h[t] = FoldStep(f, g, t) /\ g[t] = FoldStep(f, g, t)
        BY <4>2, <2>1
      <4>4. h[t] = g[t]
        BY <4>3
      <4> QED
        BY <3>2, <4>4 DEF FoldStep
    <3> QED
      BY <3>1, <3>2
  <2>3. h = [s \in SubsetsUpTo(S, k + 1) |-> FoldStep(f, h, s)]
    BY <2>2
  <2> HIDE DEF h
  <2> QED
    BY <2>3
<1> DEFINE K == {k \in Nat : P(k)}
<1>3. K \subseteq Nat /\ 0 \in K /\ \A k \in K : k + 1 \in K
  BY <1>1, <1>2
<1>4. \A k \in Nat : k \in K
  <2> HIDE DEF K
  <2> QED
    BY <1>3, NatSet
<1> QED
  BY <1>4 DEF P

\* ... hence on all of them.
LEMMA FoldDef ==
  ASSUME NEW S, IsFiniteSet(S), NEW f
  PROVE  \A s \in SUBSET S : FoldFcn(f, S)[s] = FoldStep(f, FoldFcn(f, S), s)
<1>1. /\ Cardinality(S) \in Nat
      /\ \A s \in SUBSET S : Cardinality(s) \in Nat /\ Cardinality(s) <= Cardinality(S)
  BY FS_CardinalityType, FS_Subset
<1>2. PICK n \in Nat : SubsetsUpTo(S, n) = SUBSET S
  BY <1>1 DEF SubsetsUpTo
<1>3. PICK g : g = [s \in SubsetsUpTo(S, n) |-> FoldStep(f, g, s)]
  BY FoldUpTo
<1>4. g = [s \in SUBSET S |-> FoldStep(f, g, s)]
  BY <1>2, <1>3
<1>5. FoldFcn(f, S) = [s \in SUBSET S |-> FoldStep(f, FoldFcn(f, S), s)]
  BY <1>4 DEF FoldFcn
<1> QED
  BY <1>5

\* The sum over a subset is the same, whatever set it is a subset of.
LEMMA FoldSum ==
  ASSUME NEW S, IsFiniteSet(S), NEW f, NEW T \in SUBSET S
  PROVE  FoldFcn(f, S)[T] = SumOf(f, T)
<1> DEFINE P(k) == \A t \in SUBSET T :
                     Cardinality(t) <= k => FoldFcn(f, S)[t] = FoldFcn(f, T)[t]
<1>a. IsFiniteSet(T)
  BY FS_Subset
<1>b. \A t \in SUBSET T : /\ FoldFcn(f, S)[t] = FoldStep(f, FoldFcn(f, S), t)
                         /\ FoldFcn(f, T)[t] = FoldStep(f, FoldFcn(f, T), t)
  BY <1>a, FoldDef
<1>0. \A t \in SUBSET T : Cardinality(t) \in Nat /\ (Cardinality(t) = 0 <=> t = {})
  BY <1>a, FS_Subset, FS_CardinalityType, FS_EmptySet
<1>1. P(0)
  BY <1>0, <1>b DEF FoldStep
<1>2. ASSUME NEW k \in Nat, P(k)
      PROVE  P(k + 1)
  <2> SUFFICES ASSUME NEW t \in SUBSET T, Cardinality(t) <= k + 1
               PROVE  FoldFcn(f, S)[t] = FoldFcn(f, T)[t]
    OBVIOUS
  <2>1. CASE t = {}
    BY <2>1, <1>b DEF FoldStep
  <2>2. CASE t # {}
    <3> DEFINE u == t \ {CHOOSE x \in t : TRUE}
    <3>1. u \in SUBSET T /\ Cardinality(u) = Cardinality(t) - 1
      BY <2>2, <1>a, SmallerSum
    <3>2. FoldFcn(f, S)[u] = FoldFcn(f, T)[u]
      BY <3>1, <1>0, <1>2
    <3> QED
      BY <2>2, <3>2, <1>b DEF FoldStep
  <2> QED
    BY <2>1, <2>2
<1> DEFINE K == {k \in Nat : P(k)}
<1>3. K \subseteq Nat /\ 0 \in K /\ \A k \in K : k + 1 \in K
  BY <1>1, <1>2
<1>4. \A k \in Nat : k \in K
  <2> HIDE DEF K
  <2> QED
    BY <1>3, NatSet
<1>5. Cardinality(T) \in Nat /\ P(Cardinality(T))
  BY <1>4, <1>0
<1> QED
  BY <1>5, SumDef

\* The sum over no elements is 0.
LEMMA SumEmpty ==
  ASSUME NEW f
  PROVE  SumOf(f, {}) = 0
BY FoldDef, SumDef, FS_EmptySet DEF FoldStep

\* The fold: some element, and the sum over the others.
LEMMA SumStep ==
  ASSUME NEW S, IsFiniteSet(S), S # {}, NEW f
  PROVE  \E x \in S : SumOf(f, S) = f[x] + SumOf(f, S \ {x})
<1> DEFINE x == CHOOSE x \in S : TRUE
<1>1. x \in S
  OBVIOUS
<1>2. SumOf(f, S) = f[x] + FoldFcn(f, S)[S \ {x}]
  BY FoldDef, SumDef DEF FoldStep
<1>3. FoldFcn(f, S)[S \ {x}] = SumOf(f, S \ {x})
  BY FoldSum
<1> QED
  BY <1>1, <1>2, <1>3

\* A sum of integers is an integer, a sum of natural numbers a natural number.
LEMMA SumType ==
  ASSUME NEW S, IsFiniteSet(S), NEW f, NEW V,
         V \subseteq Int, 0 \in V, \A a, b \in V : a + b \in V, \A x \in S : f[x] \in V
  PROVE  SumOf(f, S) \in V
<1> DEFINE P(k) == \A t \in SUBSET S : Cardinality(t) <= k => SumOf(f, t) \in V
<1>0. \A t \in SUBSET S : /\ IsFiniteSet(t) /\ Cardinality(t) \in Nat
                         /\ (Cardinality(t) = 0 <=> t = {})
  BY FS_Subset, FS_CardinalityType, FS_EmptySet
<1>1. P(0)
  BY <1>0, SumEmpty
<1>2. ASSUME NEW k \in Nat, P(k)
      PROVE  P(k + 1)
  <2> SUFFICES ASSUME NEW t \in SUBSET S, Cardinality(t) <= k + 1, t # {}
               PROVE  SumOf(f, t) \in V
    BY SumEmpty
  <2>1. PICK x \in t : SumOf(f, t) = f[x] + SumOf(f, t \ {x})
    BY <1>0, SumStep
  <2>2. Cardinality(t \ {x}) = Cardinality(t) - 1
    BY <1>0, FS_RemoveElement
  <2>3. SumOf(f, t \ {x}) \in V
    BY <1>0, <1>2, <2>2
  <2> QED
    BY <2>1, <2>3
<1> DEFINE K == {k \in Nat : P(k)}
<1>3. K \subseteq Nat /\ 0 \in K /\ \A k \in K : k + 1 \in K
  BY <1>1, <1>2
<1>4. \A k \in Nat : k \in K
  <2> HIDE DEF K
  <2> QED
    BY <1>3, NatSet
<1> QED
  BY <1>0, <1>4

\* A sum of integers is an integer,
LEMMA SumInt ==
  ASSUME NEW S, IsFiniteSet(S), NEW f, \A x \in S : f[x] \in Int
  PROVE  SumOf(f, S) \in Int
BY SumType

\* ... and one of natural numbers a natural number.
LEMMA SumNat ==
  ASSUME NEW S, IsFiniteSet(S), NEW f, \A x \in S : f[x] \in Nat
  PROVE  SumOf(f, S) \in Nat
<1>1. Nat \subseteq Int /\ 0 \in Nat /\ \A a, b \in Nat : a + b \in Nat
  OBVIOUS
<1> QED
  BY <1>1, SumType

\* Any element may be taken out first.
LEMMA SumRemove ==
  ASSUME NEW S, IsFiniteSet(S), NEW f, \A x \in S : f[x] \in Int, NEW y \in S
  PROVE  SumOf(f, S) = f[y] + SumOf(f, S \ {y})
<1> DEFINE P(k) == \A t \in SUBSET S : Cardinality(t) <= k =>
                     \A z \in t : SumOf(f, t) = f[z] + SumOf(f, t \ {z})
<1>0. \A t \in SUBSET S : /\ IsFiniteSet(t) /\ Cardinality(t) \in Nat
                         /\ (Cardinality(t) = 0 <=> t = {})
                         /\ SumOf(f, t) \in Int
  BY FS_Subset, FS_CardinalityType, FS_EmptySet, SumType
<1>1. P(0)
  BY <1>0
<1>2. ASSUME NEW k \in Nat, P(k)
      PROVE  P(k + 1)
  <2> SUFFICES ASSUME NEW t \in SUBSET S, Cardinality(t) <= k + 1, NEW z \in t
               PROVE  SumOf(f, t) = f[z] + SumOf(f, t \ {z})
    OBVIOUS
  <2>1. PICK x \in t : SumOf(f, t) = f[x] + SumOf(f, t \ {x})
    BY <1>0, SumStep
  <2>2. CASE x = z
    BY <2>1, <2>2
  <2>3. CASE x # z
    <3> DEFINE r == (t \ {x}) \ {z}
    <3>1. Cardinality(t \ {x}) = Cardinality(t) - 1 /\ Cardinality(t \ {z}) = Cardinality(t) - 1
      BY <1>0, FS_RemoveElement
    <3>2. SumOf(f, t \ {x}) = f[z] + SumOf(f, r)
      BY <1>0, <1>2, <2>3, <3>1
    <3>3. SumOf(f, t \ {z}) = f[x] + SumOf(f, r)
      <4>1. (t \ {z}) \ {x} = r /\ x \in t \ {z} /\ t \ {z} \in SUBSET S
        BY <2>3
      <4> QED
        BY <1>0, <1>2, <3>1, <4>1
    <3>4. f[x] \in Int /\ f[z] \in Int /\ SumOf(f, r) \in Int
      BY <1>0
    <3> HIDE DEF r
    <3> QED
      BY <2>1, <3>2, <3>3, <3>4
  <2> QED
    BY <2>2, <2>3
<1> DEFINE K == {k \in Nat : P(k)}
<1>3. K \subseteq Nat /\ 0 \in K /\ \A k \in K : k + 1 \in K
  BY <1>1, <1>2
<1>4. \A k \in Nat : k \in K
  <2> HIDE DEF K
  <2> QED
    BY <1>3, NatSet
<1>5. P(Cardinality(S))
  BY <1>0, <1>4
<1> QED
  BY <1>0, <1>5

\* Only the values on the set count.
LEMMA SumSame ==
  ASSUME NEW S, IsFiniteSet(S), NEW f, NEW g, \A x \in S : f[x] = g[x]
  PROVE  SumOf(f, S) = SumOf(g, S)
<1> DEFINE P(k) == \A t \in SUBSET S : Cardinality(t) <= k =>
                     FoldFcn(f, S)[t] = FoldFcn(g, S)[t]
<1>0. \A t \in SUBSET S : Cardinality(t) \in Nat /\ (Cardinality(t) = 0 <=> t = {})
  BY FS_Subset, FS_CardinalityType, FS_EmptySet
<1>b. \A t \in SUBSET S : /\ FoldFcn(f, S)[t] = FoldStep(f, FoldFcn(f, S), t)
                         /\ FoldFcn(g, S)[t] = FoldStep(g, FoldFcn(g, S), t)
  BY FoldDef
<1>1. P(0)
  BY <1>0, <1>b DEF FoldStep
<1>2. ASSUME NEW k \in Nat, P(k)
      PROVE  P(k + 1)
  <2> SUFFICES ASSUME NEW t \in SUBSET S, Cardinality(t) <= k + 1
               PROVE  FoldFcn(f, S)[t] = FoldFcn(g, S)[t]
    OBVIOUS
  <2>1. CASE t = {}
    BY <2>1, <1>b DEF FoldStep
  <2>2. CASE t # {}
    <3> DEFINE x == CHOOSE x \in t : TRUE
               u == t \ {x}
    <3>1. x \in t /\ u \in SUBSET S /\ Cardinality(u) = Cardinality(t) - 1
      BY <2>2, SmallerSum
    <3>2. FoldFcn(f, S)[u] = FoldFcn(g, S)[u] /\ f[x] = g[x]
      BY <3>1, <1>0, <1>2
    <3> QED
      BY <2>2, <3>2, <1>b DEF FoldStep
  <2> QED
    BY <2>1, <2>2
<1> DEFINE K == {k \in Nat : P(k)}
<1>3. K \subseteq Nat /\ 0 \in K /\ \A k \in K : k + 1 \in K
  BY <1>1, <1>2
<1>4. \A k \in Nat : k \in K
  <2> HIDE DEF K
  <2> QED
    BY <1>3, NatSet
<1>5. Cardinality(S) \in Nat /\ P(Cardinality(S))
  BY <1>4, <1>0
<1> QED
  BY <1>5, SumDef

\* A new element adds its value.
LEMMA SumAdd ==
  ASSUME NEW S, IsFiniteSet(S), NEW f, NEW y, y \notin S,
         \A x \in S \cup {y} : f[x] \in Int
  PROVE  SumOf(f, S \cup {y}) = f[y] + SumOf(f, S)
<1>1. IsFiniteSet(S \cup {y}) /\ (S \cup {y}) \ {y} = S
  BY FS_AddElement
<1> QED
  BY <1>1, SumRemove

\* A larger value at every element makes a larger sum.
LEMMA SumMonotone ==
  ASSUME NEW S, IsFiniteSet(S), NEW f, NEW g,
         \A x \in S : f[x] \in Int /\ g[x] \in Int /\ f[x] <= g[x]
  PROVE  SumOf(f, S) <= SumOf(g, S)
<1> DEFINE P(k) == \A t \in SUBSET S : Cardinality(t) <= k => SumOf(f, t) <= SumOf(g, t)
<1>0. \A t \in SUBSET S : /\ IsFiniteSet(t) /\ Cardinality(t) \in Nat
                         /\ (Cardinality(t) = 0 <=> t = {})
                         /\ SumOf(f, t) \in Int /\ SumOf(g, t) \in Int
  BY FS_Subset, FS_CardinalityType, FS_EmptySet, SumType
<1>1. P(0)
  BY <1>0, SumEmpty
<1>2. ASSUME NEW k \in Nat, P(k)
      PROVE  P(k + 1)
  <2> SUFFICES ASSUME NEW t \in SUBSET S, Cardinality(t) <= k + 1, t # {}
               PROVE  SumOf(f, t) <= SumOf(g, t)
    BY SumEmpty
  <2>1. PICK x \in t : TRUE
    OBVIOUS
  <2>2. /\ SumOf(f, t) = f[x] + SumOf(f, t \ {x})
        /\ SumOf(g, t) = g[x] + SumOf(g, t \ {x})
    BY <1>0, SumRemove
  <2>3. Cardinality(t \ {x}) = Cardinality(t) - 1
    BY <1>0, FS_RemoveElement
  <2>4. SumOf(f, t \ {x}) <= SumOf(g, t \ {x})
    BY <1>0, <1>2, <2>3
  <2> QED
    BY <1>0, <2>2, <2>4
<1> DEFINE K == {k \in Nat : P(k)}
<1>3. K \subseteq Nat /\ 0 \in K /\ \A k \in K : k + 1 \in K
  BY <1>1, <1>2
<1>4. \A k \in Nat : k \in K
  <2> HIDE DEF K
  <2> QED
    BY <1>3, NatSet
<1> QED
  BY <1>0, <1>4

\* The sum over two sets without a common element.
LEMMA SumUnion ==
  ASSUME NEW S, IsFiniteSet(S), NEW T, IsFiniteSet(T), S \cap T = {},
         NEW f, \A x \in S \cup T : f[x] \in Int
  PROVE  SumOf(f, S \cup T) = SumOf(f, S) + SumOf(f, T)
<1> DEFINE P(k) == \A t \in SUBSET T : Cardinality(t) <= k =>
                     SumOf(f, S \cup t) = SumOf(f, S) + SumOf(f, t)
<1>0. \A t \in SUBSET T : /\ IsFiniteSet(t) /\ Cardinality(t) \in Nat
                         /\ (Cardinality(t) = 0 <=> t = {})
  BY FS_Subset, FS_CardinalityType, FS_EmptySet
<1>a. \A t \in SUBSET T : IsFiniteSet(S \cup t) /\ SumOf(f, t) \in Int
  BY <1>0, FS_Union, SumInt
<1>b. SumOf(f, S) \in Int
  BY SumInt
<1>1. P(0)
  <2>1. S \cup {} = S /\ SumOf(f, {}) = 0
    BY SumEmpty
  <2>2. SumOf(f, S \cup {}) = SumOf(f, S) + SumOf(f, {})
    BY <1>b, <2>1
  <2>3. \A t \in SUBSET T : Cardinality(t) <= 0 => t = {}
    BY <1>0
  <2> QED
    BY <2>2, <2>3
<1>2. ASSUME NEW k \in Nat, P(k)
      PROVE  P(k + 1)
  <2> SUFFICES ASSUME NEW t \in SUBSET T, Cardinality(t) <= k + 1, t # {}
               PROVE  SumOf(f, S \cup t) = SumOf(f, S) + SumOf(f, t)
    BY <1>1, <1>0
  <2>1. PICK x \in t : TRUE
    OBVIOUS
  <2>2. SumOf(f, t) = f[x] + SumOf(f, t \ {x})
    BY <1>0, SumRemove
  <2>3. SumOf(f, S \cup t) = f[x] + SumOf(f, S \cup (t \ {x}))
    <3>1. (S \cup t) \ {x} = S \cup (t \ {x})
      OBVIOUS
    <3>2. IsFiniteSet(S \cup t) /\ x \in S \cup t
      BY <1>a
    <3> QED
      BY <3>1, <3>2, SumRemove
  <2>4. Cardinality(t \ {x}) = Cardinality(t) - 1
    BY <1>0, FS_RemoveElement
  <2>5. SumOf(f, S \cup (t \ {x})) = SumOf(f, S) + SumOf(f, t \ {x})
    BY <1>0, <1>2, <2>4
  <2>6. f[x] \in Int /\ SumOf(f, t \ {x}) \in Int
    BY <1>a
  <2> QED
    BY <1>b, <2>2, <2>3, <2>5, <2>6
<1> DEFINE K == {k \in Nat : P(k)}
<1>3. K \subseteq Nat /\ 0 \in K /\ \A k \in K : k + 1 \in K
  BY <1>1, <1>2
<1>4. \A k \in Nat : k \in K
  <2> HIDE DEF K
  <2> QED
    BY <1>3, NatSet
<1>5. P(Cardinality(T))
  BY <1>0, <1>4
<1> QED
  BY <1>0, <1>5

\* A sum over a subset of elements whose values are not negative.
LEMMA SumSubset ==
  ASSUME NEW S, IsFiniteSet(S), NEW f, \A x \in S : f[x] \in Int, NEW T \in SUBSET S,
         \A x \in S \ T : f[x] >= 0
  PROVE  SumOf(f, T) <= SumOf(f, S)
<1>1. /\ IsFiniteSet(T) /\ IsFiniteSet(S \ T)
      /\ T \cap (S \ T) = {} /\ T \cup (S \ T) = S
  BY FS_Subset
<1>2. SumOf(f, S) = SumOf(f, T) + SumOf(f, S \ T)
  <2> DEFINE U == S \ T
  <2>1. /\ IsFiniteSet(U) /\ T \cap U = {} /\ T \cup U = S
    BY <1>1
  <2> HIDE DEF U
  <2>2. SumOf(f, T \cup U) = SumOf(f, T) + SumOf(f, U)
    BY <1>1, <2>1, SumUnion
  <2> QED
    BY <2>1, <2>2 DEF U
<1>3. SumOf(f, S \ T) \in Nat
  BY <1>1, SumNat
<1>4. SumOf(f, T) \in Int
  BY <1>1, SumType
<1> QED
  BY <1>2, <1>3, <1>4

\* The value of one element changes.
LEMMA SumChange ==
  ASSUME NEW S, IsFiniteSet(S), NEW y \in S, NEW f, NEW g,
         \A x \in S : f[x] \in Int /\ g[x] \in Int,
         \A x \in S \ {y} : f[x] = g[x]
  PROVE  SumOf(g, S) = SumOf(f, S) - f[y] + g[y]
<1>1. IsFiniteSet(S \ {y}) /\ SumOf(f, S \ {y}) = SumOf(g, S \ {y})
  BY FS_RemoveElement, SumSame
<1>2. /\ SumOf(f, S) = f[y] + SumOf(f, S \ {y})
      /\ SumOf(g, S) = g[y] + SumOf(g, S \ {y})
  BY SumRemove
<1>3. SumOf(f, S \ {y}) \in Int
  BY <1>1, SumType
<1> QED
  BY <1>1, <1>2, <1>3

\* Elements that count for nothing sum to nothing.
LEMMA SumZero ==
  ASSUME NEW S, IsFiniteSet(S), NEW f, \A x \in S : f[x] = 0
  PROVE  SumOf(f, S) = 0
<1> DEFINE V == {0}
<1>1. V \subseteq Int /\ 0 \in V /\ (\A a, b \in V : a + b \in V) /\ \A x \in S : f[x] \in V
  OBVIOUS
<1>2. SumOf(f, S) \in V
  <2> HIDE DEF V
  <2> QED
    BY <1>1, SumType
<1> QED
  BY <1>2

\* Elements of one value sum to that value times their number.
LEMMA SumConst ==
  ASSUME NEW S, IsFiniteSet(S), NEW c \in Int, NEW f, \A x \in S : f[x] = c
  PROVE  SumOf(f, S) = c * Cardinality(S)
<1> DEFINE P(k) == \A t \in SUBSET S :
                     Cardinality(t) <= k => SumOf(f, t) = c * Cardinality(t)
<1>0. \A t \in SUBSET S : /\ IsFiniteSet(t) /\ Cardinality(t) \in Nat
                         /\ (Cardinality(t) = 0 <=> t = {})
  BY FS_Subset, FS_CardinalityType, FS_EmptySet
<1>z. c * 0 = 0
  OBVIOUS
<1>1. P(0)
  <2> SUFFICES ASSUME NEW t \in SUBSET S, Cardinality(t) <= 0
               PROVE  SumOf(f, t) = c * Cardinality(t)
    OBVIOUS
  <2>1. Cardinality(t) = 0 /\ t = {}
    BY <1>0
  <2> QED
    BY <1>z, <2>1, SumEmpty
<1>2. ASSUME NEW k \in Nat, P(k)
      PROVE  P(k + 1)
  <2> SUFFICES ASSUME NEW t \in SUBSET S, Cardinality(t) <= k + 1, t # {}
               PROVE  SumOf(f, t) = c * Cardinality(t)
    BY <1>1, <1>0
  <2>1. PICK x \in t : SumOf(f, t) = f[x] + SumOf(f, t \ {x})
    BY <1>0, SumStep
  <2>2. PICK m \in Nat : m = Cardinality(t)
    BY <1>0
  <2>3. Cardinality(t \ {x}) = m - 1
    BY <1>0, <2>2, FS_RemoveElement
  <2>4. SumOf(f, t \ {x}) = c * (m - 1)
    BY <1>0, <1>2, <2>2, <2>3
  <2>5. f[x] = c
    BY <2>1
  <2>6. c + c * (m - 1) = c * m
    OBVIOUS
  <2> QED
    BY <2>1, <2>2, <2>4, <2>5, <2>6
<1> DEFINE K == {k \in Nat : P(k)}
<1>3. K \subseteq Nat /\ 0 \in K /\ \A k \in K : k + 1 \in K
  BY <1>1, <1>2
<1>4. \A k \in Nat : k \in K
  <2> HIDE DEF K
  <2> QED
    BY <1>3, NatSet
<1> QED
  BY <1>0, <1>4

\* Elements that are of one value or count for nothing.
LEMMA SumCount ==
  ASSUME NEW S, IsFiniteSet(S), NEW T \in SUBSET S, NEW c \in Int, NEW f,
         \A x \in T : f[x] = c, \A x \in S \ T : f[x] = 0
  PROVE  SumOf(f, S) = c * Cardinality(T)
<1>1. /\ IsFiniteSet(T) /\ IsFiniteSet(S \ T) /\ T \cap (S \ T) = {}
      /\ T \cup (S \ T) = S /\ Cardinality(T) \in Nat
  BY FS_Subset, FS_CardinalityType
<1>2. SumOf(f, T) = c * Cardinality(T) /\ SumOf(f, S \ T) = 0
  BY <1>1, SumConst, SumZero
<1>3. \A x \in T \cup (S \ T) : f[x] \in Int
  OBVIOUS
<1>4. SumOf(f, T \cup (S \ T)) = SumOf(f, T) + SumOf(f, S \ T)
  BY <1>1, <1>3, SumUnion
<1>5. \A m \in Nat : c * m \in Int /\ c * m + 0 = c * m
  OBVIOUS
<1> QED
  BY <1>1, <1>2, <1>4, <1>5

\* The sum of sums.
LEMMA SumPlus ==
  ASSUME NEW S, IsFiniteSet(S), NEW f, NEW g, NEW h,
         \A x \in S : g[x] \in Int /\ h[x] \in Int /\ f[x] = g[x] + h[x]
  PROVE  SumOf(f, S) = SumOf(g, S) + SumOf(h, S)
<1> DEFINE P(k) == \A t \in SUBSET S : Cardinality(t) <= k =>
                     SumOf(f, t) = SumOf(g, t) + SumOf(h, t)
<1>0. \A t \in SUBSET S : /\ IsFiniteSet(t) /\ Cardinality(t) \in Nat
                         /\ (Cardinality(t) = 0 <=> t = {})
                         /\ SumOf(g, t) \in Int /\ SumOf(h, t) \in Int
  BY FS_Subset, FS_CardinalityType, FS_EmptySet, SumInt
<1>a. \A x \in S : f[x] \in Int
  OBVIOUS
<1>1. P(0)
  <2>1. SumOf(f, {}) = 0 /\ SumOf(g, {}) = 0 /\ SumOf(h, {}) = 0
    BY SumEmpty
  <2>2. \A t \in SUBSET S : Cardinality(t) <= 0 => t = {}
    BY <1>0
  <2>3. SumOf(f, {}) = SumOf(g, {}) + SumOf(h, {})
    BY <2>1
  <2> QED
    BY <2>2, <2>3
<1>2. ASSUME NEW k \in Nat, P(k)
      PROVE  P(k + 1)
  <2> SUFFICES ASSUME NEW t \in SUBSET S, Cardinality(t) <= k + 1, t # {}
               PROVE  SumOf(f, t) = SumOf(g, t) + SumOf(h, t)
    BY <1>1, <1>0
  <2>1. PICK x \in t : TRUE
    OBVIOUS
  <2>2. /\ SumOf(f, t) = f[x] + SumOf(f, t \ {x})
        /\ SumOf(g, t) = g[x] + SumOf(g, t \ {x})
        /\ SumOf(h, t) = h[x] + SumOf(h, t \ {x})
    BY <1>0, <1>a, SumRemove
  <2>3. Cardinality(t \ {x}) = Cardinality(t) - 1
    BY <1>0, FS_RemoveElement
  <2>4. SumOf(f, t \ {x}) = SumOf(g, t \ {x}) + SumOf(h, t \ {x})
    BY <1>0, <1>2, <2>3
  <2>5. SumOf(g, t \ {x}) \in Int /\ SumOf(h, t \ {x}) \in Int
    BY <1>0
  <2>6. g[x] \in Int /\ h[x] \in Int /\ f[x] = g[x] + h[x]
    OBVIOUS
  <2> QED
    BY <2>2, <2>4, <2>5, <2>6
<1> DEFINE K == {k \in Nat : P(k)}
<1>3. K \subseteq Nat /\ 0 \in K /\ \A k \in K : k + 1 \in K
  BY <1>1, <1>2
<1>4. \A k \in Nat : k \in K
  <2> HIDE DEF K
  <2> QED
    BY <1>3, NatSet
<1> QED
  BY <1>0, <1>4

\* A sum over some elements is one over all in which the others count for
\* nothing.
LEMMA SumPart ==
  ASSUME NEW S, IsFiniteSet(S), NEW T \in SUBSET S, NEW f, NEW g,
         \A x \in T : f[x] = g[x] /\ f[x] \in Int,
         \A x \in S \ T : g[x] = 0
  PROVE  SumOf(f, T) = SumOf(g, S)
<1> DEFINE U == S \ T
<1>1. IsFiniteSet(T) /\ IsFiniteSet(U) /\ T \cap U = {} /\ T \cup U = S
  BY FS_Subset
<1>2. (\A x \in T \cup U : g[x] \in Int) /\ \A x \in U : g[x] = 0
  OBVIOUS
<1> HIDE DEF U
<1>3. SumOf(g, T \cup U) = SumOf(g, T) + SumOf(g, U)
  BY <1>1, <1>2, SumUnion
<1>4. SumOf(g, U) = 0
  BY <1>1, <1>2, SumZero
<1>5. SumOf(f, T) = SumOf(g, T)
  BY <1>1, SumSame
<1>6. SumOf(f, T) \in Int
  BY <1>1, SumInt
<1> QED
  <2>1. SumOf(g, S) = SumOf(g, T) + SumOf(g, U)
    BY <1>1, <1>3
  <2> QED
    BY <1>4, <1>5, <1>6, <2>1

\* The sum over elements that a list names, each once, is the sum over the list.
LEMMA SumImage ==
  ASSUME NEW n \in Nat, NEW T, NEW e \in Bijection(1..n, T), NEW f, NEW g,
         \A k \in 1..n : g[k] \in Int /\ f[e[k]] = g[k]
  PROVE  SumOf(f, T) = SumOf(g, 1..n)
<1>0. /\ \A k \in 1..n : e[k] \in T
      /\ \A x \in T : \E k \in 1..n : x = e[k]
      /\ \A j, k \in 1..n : e[j] = e[k] => j = k
  <2>1. e \in Injection(1..n, T) /\ e \in Surjection(1..n, T)
    BY DEF Bijection
  <2>2. e \in [1..n -> T] /\ \A x \in T : \E k \in 1..n : e[k] = x
    BY <2>1 DEF Surjection
  <2>3. \A j, k \in 1..n : e[j] = e[k] => j = k
    BY <2>1 DEF Injection, IsInjective
  <2> QED
    BY <2>2, <2>3
<1> DEFINE P(m) == m <= n => SumOf(f, {e[k] : k \in 1..m}) = SumOf(g, 1..m)
<1>1. P(0)
  <2>1. 1..0 = {} /\ {e[k] : k \in 1..0} = {}
    OBVIOUS
  <2>2. SumOf(f, {}) = 0 /\ SumOf(g, {}) = 0
    BY SumEmpty
  <2> QED
    BY <2>1, <2>2
<1>2. ASSUME NEW m \in Nat, P(m)
      PROVE  P(m + 1)
  <2> SUFFICES ASSUME m + 1 <= n
               PROVE  SumOf(f, {e[k] : k \in 1..(m + 1)}) = SumOf(g, 1..(m + 1))
    OBVIOUS
  <2> DEFINE I == {e[k] : k \in 1..m}
             D == 1..m
             y == m + 1
  <2>1. /\ 1..(m + 1) = D \cup {y} /\ y \notin D /\ IsFiniteSet(D) /\ D \cup {y} \subseteq 1..n
    <3>1. /\ 1..(m + 1) = (1..m) \cup {m + 1} /\ m + 1 \notin 1..m
          /\ 1..(m + 1) \subseteq 1..n
      OBVIOUS
    <3>2. IsFiniteSet(1..m)
      BY FS_Interval
    <3> QED
      BY <3>1, <3>2
  <2>2. {e[k] : k \in 1..(m + 1)} = I \cup {e[y]} /\ e[y] \notin I
    BY <1>0, <2>1
  <2>3. IsFiniteSet(I)
    <3> DEFINE image == [k \in D |-> e[k]]
    <3>1. image \in Surjection(D, I)
      BY DEF Surjection
    <3>2. IsFiniteSet(D)
      BY <2>1
    <3> HIDE DEF image, D, I
    <3> QED
      BY <3>1, <3>2, FS_Surjection
  <2>4. /\ \A k \in D \cup {y} : g[k] \in Int
        /\ \A x \in I \cup {e[y]} : f[x] \in Int
        /\ f[e[y]] = g[y]
    BY <2>1
  <2>5. SumOf(f, I) = SumOf(g, D)
    BY <1>2
  <2> HIDE DEF I, D, y
  <2>6. SumOf(g, D \cup {y}) = g[y] + SumOf(g, D)
    BY <2>1, <2>4, SumAdd
  <2>7. SumOf(f, I \cup {e[y]}) = f[e[y]] + SumOf(f, I)
    BY <2>2, <2>3, <2>4, SumAdd
  <2> QED
    BY <2>1, <2>2, <2>4, <2>5, <2>6, <2>7
<1> DEFINE K == {k \in Nat : P(k)}
<1>3. K \subseteq Nat /\ 0 \in K /\ \A k \in K : k + 1 \in K
  BY <1>1, <1>2
<1>4. n \in K
  <2> HIDE DEF K
  <2> QED
    BY <1>3, NatSet
<1>5. T = {e[k] : k \in 1..n}
  BY <1>0
<1>6. SumOf(f, {e[k] : k \in 1..n}) = SumOf(g, 1..n)
  BY <1>4
<1> QED
  BY <1>5, <1>6
=============================================================================
