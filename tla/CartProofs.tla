------------------------------ MODULE CartProofs ------------------------------
(***************************************************************************)
(* Proofs about CartCheckout, for any customers, variants, goroutines, orders, *)
(* amounts of money, limits and numbers of calls.                            *)
(***************************************************************************)
EXTENDS CartCheckout, OrderServiceProofs, SumProofs

-----------------------------------------------------------------------------
(* Types.                                                                   *)

Checking == {"read", "price", "count", "create"}

CartTyped ==
  /\ cart \in [Users -> Items]
  /\ chosen \in [Users -> Items]
  /\ calls \in 0..MaxCalls

LockTyped ==
  /\ cartLock \in [Users -> Callers \cup {NoCaller}]
  /\ couponLock \in Callers \cup {NoCaller}

SessionTyped == session \in [Callers -> Session \cup {Resting}]

ReceiptTyped ==
  /\ receipt \in [Orders -> Receipt \cup {NoReceipt}]
  /\ \A o \in Orders : OrderExists(o) => receipt[o] \in Receipt
  /\ couponUses \in Nat

\* TypeOK by its parts.
LEMMA Parts ==
  TypeOK <=> OrderTyped /\ CartTyped /\ LockTyped /\ SessionTyped /\ ReceiptTyped
BY DEF TypeOK, OrderTyped, CartTyped, LockTyped, SessionTyped, ReceiptTyped

\* The amounts and the limits, one by one.
LEMMA Amounts ==
  /\ UnitPrice \in Nat /\ ShippingFee \in Nat /\ Discount \in Nat
  /\ MinOrderValue \in Nat /\ MaxUses \in Nat /\ MaxCalls \in Nat
  /\ Quantities \subseteq Nat
  /\ IsFiniteSet(Orders) /\ IsFiniteSet(Users) /\ IsFiniteSet(Variants)
  /\ IsFiniteSet(Callers) /\ Users # {} /\ Callers # {}
BY MoneyAssumption, QuantityAssumption, FiniteAssumption

\* What a goroutine knows at each of its stages.
LEMMA SessionFields ==
  ASSUME SessionTyped, NEW c \in Callers
  PROVE  /\ session[c].at \in {"rest", "edit"} \cup Checking
         /\ session[c].at = "edit" =>
              session[c].user \in Users /\ session[c].change \in Change
         /\ session[c].at \in Checking =>
              /\ session[c].user \in Users /\ session[c].items \in Items
              /\ session[c].coupon \in BOOLEAN
              /\ session[c] \in [at: Checking, user: Users, coupon: BOOLEAN, items: Items]
<1>1. session[c] \in Session \cup {Resting}
  BY DEF SessionTyped
<1>2. CASE session[c] = Resting
  BY <1>2 DEF Resting, Checking
<1>3. CASE session[c] \in [at: {"edit"}, user: Users, change: Change]
  BY <1>3 DEF Checking
<1>4. CASE session[c] \in [at: Checking, user: Users, coupon: BOOLEAN, items: Items]
  BY <1>4 DEF Checking
<1> QED BY <1>1, <1>2, <1>3, <1>4 DEF Session, Checking

\* A goroutine's step leaves the others where they are.
OnlySession(c) == \A d \in Callers \ {c} : session'[d] = session[d]

\* How a goroutine moves on.
LEMMA SessionMoves ==
  ASSUME SessionTyped, NEW c \in Callers
  PROVE  /\ Rests(c) => SessionTyped' /\ OnlySession(c) /\ session'[c] = Resting
         /\ \A stage \in Checking :
              Goes(c, stage) /\ session[c].at \in Checking =>
                /\ SessionTyped' /\ OnlySession(c)
                /\ session'[c].at = stage /\ session'[c].user = session[c].user
                /\ session'[c].items = session[c].items
         /\ \A what \in Session :
              Begins(c, what) => SessionTyped' /\ OnlySession(c) /\ session'[c] = what
<1>1. Resting \in Session \cup {Resting}
  OBVIOUS
<1>2. Rests(c) => SessionTyped' /\ OnlySession(c) /\ session'[c] = Resting
  BY <1>1 DEF Rests, SessionTyped, OnlySession
<1>3. ASSUME NEW stage \in Checking, Goes(c, stage), session[c].at \in Checking
      PROVE  /\ SessionTyped' /\ OnlySession(c)
             /\ session'[c].at = stage /\ session'[c].user = session[c].user
             /\ session'[c].items = session[c].items
  <2> DEFINE s == [session[c] EXCEPT !.at = stage]
  <2>1. session' = [session EXCEPT ![c] = s]
    BY <1>3 DEF Goes
  <2>2. session[c] \in [at: Checking, user: Users, coupon: BOOLEAN, items: Items]
    BY <1>3, SessionFields
  <2>3. /\ s \in [at: Checking, user: Users, coupon: BOOLEAN, items: Items]
        /\ s.at = stage /\ s.user = session[c].user /\ s.items = session[c].items
    BY <2>2
  <2>4. s \in Session
    BY <2>3 DEF Session, Checking
  <2>5. session'[c] = s
    BY <2>1 DEF SessionTyped
  <2> HIDE DEF s
  <2>6. SessionTyped' /\ OnlySession(c)
    BY <2>1, <2>4 DEF SessionTyped, OnlySession
  <2> QED BY <2>3, <2>5, <2>6
<1>4. ASSUME NEW what \in Session, Begins(c, what)
      PROVE  SessionTyped' /\ OnlySession(c) /\ session'[c] = what
  BY <1>4 DEF Begins, SessionTyped, OnlySession
<1> QED BY <1>2, <1>3, <1>4

\* The locks of a transaction that ends are released, no others.
LEMMA ReleasesLocks ==
  ASSUME LockTyped, NEW c \in Callers, Releases(c)
  PROVE  /\ LockTyped'
         /\ \A d \in Callers \ {c}, u \in Users : cartLock[u] = d => cartLock'[u] = d
         /\ couponLock' = IF couponLock = c THEN NoCaller ELSE couponLock
BY DEF Releases, LockTyped

\* The subtotal of an order and its total are amounts of money.
LEMMA TotalNat ==
  ASSUME NEW items \in Items, NEW discounted \in BOOLEAN
  PROVE  OrderTotal(items, discounted) \in Nat
<1>1. SumOf(items, Variants) \in Nat
  BY Amounts, SumNat DEF Items
<1>2. UnitPrice * SumOf(items, Variants) \in Nat
  BY <1>1, Amounts
<1> QED BY <1>2, Amounts DEF OrderTotal, Subtotal

\* An edit leaves a cart a cart.
LEMMA EditedType ==
  ASSUME NEW items \in Items, NEW change \in Change
  PROVE  Edited(items, change) \subseteq Items
<1> USE Amounts DEF Items
<1>1. CASE change \in [op: {"add", "update"}, variant: Variants, quantity: Quantities]
  <2>1. change.op = "add" \/ change.op = "update"
    BY <1>1
  <2>2. CASE change.op = "add"
    <3>1. Edited(items, change) =
            {[items EXCEPT ![change.variant] = items[change.variant] + change.quantity]}
      BY <2>2 DEF Edited
    <3>2. change.variant \in Variants /\ change.quantity \in Nat
      BY <1>1
    <3> QED BY <3>1, <3>2
  <2>3. CASE change.op = "update"
    BY <1>1, <2>3 DEF Edited
  <2> QED BY <2>1, <2>2, <2>3
<1>2. CASE change \in [op: {"remove"}, variant: Variants]
  BY <1>2 DEF Edited
<1>3. CASE change \in [op: {"clear"}]
  <2>1. Edited(items, change) = {Nothing}
    BY <1>3 DEF Edited
  <2> QED BY <2>1 DEF Nothing
<1> QED BY <1>1, <1>2, <1>3 DEF Change

-----------------------------------------------------------------------------
(* Every step keeps the types.                                              *)

\* Every step keeps the carts, the locks, the sessions and the receipts well typed.
LEMMA CartTypeStep == TypeOK /\ [Next]_vars => TypeOK'
<1> SUFFICES ASSUME TypeOK, [Next]_vars PROVE TypeOK'
  OBVIOUS
<1>0. /\ OrderTyped /\ CartTyped /\ LockTyped /\ SessionTyped /\ ReceiptTyped
      /\ [Next]_vars
  BY Parts
<1>t. ASSUME OrderTyped', CartTyped', LockTyped', SessionTyped', ReceiptTyped'
      PROVE  TypeOK'
  BY <1>t DEF TypeOK, OrderTyped, CartTyped, LockTyped, SessionTyped, ReceiptTyped
<1>o. UNCHANGED <<orderVars, nats>> => OrderTyped'
  BY <1>0 DEF orderVars, OrderTyped, OrderTypeOK
<1>r. UNCHANGED <<orderVars, couponUses, receipt>> => ReceiptTyped'
  BY <1>0 DEF orderVars, ReceiptTyped, OrderExists
<1>k. UNCHANGED <<cart, chosen, calls>> => CartTyped'
  BY <1>0 DEF CartTyped
<1>l. UNCHANGED <<cartLock, couponLock>> => LockTyped'
  BY <1>0 DEF LockTyped
<1>c. ASSUME NEW c \in Callers, NEW what, Begins(c, what), UNCHANGED <<cart, chosen>>
      PROVE  CartTyped'
  BY <1>0, <1>c, Amounts DEF Begins, CartTyped
<1>1. CASE UNCHANGED vars
  <2>1. SessionTyped'
    BY <1>0, <1>1 DEF vars, cartVars, SessionTyped
  <2> QED BY <1>1, <1>t, <1>o, <1>r, <1>k, <1>l, <2>1 DEF vars, cartVars
<1>2. ASSUME NEW c \in Callers, NEW u \in Users, NEW change \in Change,
             BeginEdit(c, u, change)
      PROVE  TypeOK'
  <2>1. [at |-> "edit", user |-> u, change |-> change] \in Session
    BY DEF Session
  <2>2. SessionTyped'
    BY <1>0, <1>2, <2>1, SessionMoves DEF BeginEdit
  <2> QED BY <1>2, <1>t, <1>o, <1>r, <1>c, <1>l, <2>2 DEF BeginEdit
<1>3. ASSUME NEW c \in Callers, NEW u \in Users, NEW coupon \in BOOLEAN,
             BeginCheckout(c, u, coupon)
      PROVE  TypeOK'
  <2>1. [at |-> "read", user |-> u, coupon |-> coupon, items |-> Nothing] \in Session
    BY DEF Session, Items, Nothing
  <2>2. SessionTyped'
    BY <1>0, <1>3, <2>1, SessionMoves DEF BeginCheckout
  <2>3. LockTyped'
    BY <1>0, <1>3 DEF BeginCheckout, LockTyped
  <2> QED BY <1>3, <1>t, <1>o, <1>r, <1>c, <2>2, <2>3 DEF BeginCheckout
<1>4. ASSUME NEW c \in Callers, WriteCart(c) PROVE TypeOK'
  <2>1. session[c].user \in Users /\ session[c].change \in Change
    BY <1>0, <1>4, SessionFields DEF WriteCart, At
  <2> DEFINE u == session[c].user
  <2>2. PICK items \in Edited(cart[u], session[c].change) :
          /\ cart' = [cart EXCEPT ![u] = items]
          /\ chosen' = [chosen EXCEPT ![u] = [v \in Variants |->
               IF items[v] > cart[u][v] THEN chosen[u][v] + items[v] - cart[u][v]
               ELSE chosen[u][v]]]
    BY <1>4 DEF WriteCart
  <2>3. items \in Items /\ cart[u] \in Items /\ chosen[u] \in Items
    BY <1>0, <2>1, EditedType DEF CartTyped
  <2>4. [v \in Variants |-> IF items[v] > cart[u][v] THEN chosen[u][v] + items[v] - cart[u][v]
                            ELSE chosen[u][v]] \in Items
    BY <2>3 DEF Items
  <2>5. CartTyped'
    BY <1>0, <1>4, <2>1, <2>2, <2>3, <2>4 DEF WriteCart, CartTyped
  <2>6. SessionTyped'
    BY <1>0, <1>4, SessionMoves DEF WriteCart
  <2> QED BY <1>4, <1>t, <1>o, <1>r, <1>l, <2>5, <2>6 DEF WriteCart
<1>5. ASSUME NEW c \in Callers, ReadCart(c) PROVE TypeOK'
  <2>1. session[c].user \in Users /\ session[c].at \in Checking
        /\ session[c] \in [at: Checking, user: Users, coupon: BOOLEAN, items: Items]
    BY <1>0, <1>5, SessionFields DEF ReadCart, At, Checking
  <2>2. cart[session[c].user] \in Items
    BY <1>0, <2>1 DEF CartTyped
  <2>3. CASE cart[session[c].user] = Nothing
    <3>1. LockTyped' /\ SessionTyped'
      BY <1>0, <1>5, <2>3, ReleasesLocks, SessionMoves DEF ReadCart
    <3> QED BY <1>5, <1>t, <1>o, <1>r, <1>k, <3>1 DEF ReadCart
  <2>4. CASE cart[session[c].user] # Nothing
    <3> DEFINE s == [session[c] EXCEPT !.at = "price", !.items = cart[session[c].user]]
    <3>1. s \in Session
      BY <2>1, <2>2 DEF Session, Checking
    <3>2. session' = [session EXCEPT ![c] = s]
      BY <1>5, <2>4 DEF ReadCart
    <3>3. SessionTyped'
      BY <1>0, <3>1, <3>2 DEF SessionTyped
    <3> QED BY <1>5, <1>t, <1>o, <1>r, <1>k, <1>l, <2>4, <3>3 DEF ReadCart
  <2> QED BY <2>3, <2>4
<1>6. ASSUME NEW c \in Callers, PriceItems(c) PROVE TypeOK'
  <2>1. SessionTyped'
    BY <1>0, <1>6, SessionMoves DEF PriceItems, At, Checking
  <2> QED BY <1>6, <1>t, <1>o, <1>r, <1>k, <1>l, <2>1 DEF PriceItems
<1>7. ASSUME NEW c \in Callers, IncrementCouponUses(c) PROVE TypeOK'
  <2>1. SessionTyped'
    BY <1>0, <1>7, SessionMoves DEF IncrementCouponUses, At, Checking
  <2>2. LockTyped'
    BY <1>0, <1>7 DEF IncrementCouponUses, LockTyped
  <2> QED BY <1>7, <1>t, <1>o, <1>r, <1>k, <2>1, <2>2 DEF IncrementCouponUses
<1>8. ASSUME NEW c \in Callers, NEW o \in Orders, PlaceOrder(c, o) PROVE TypeOK'
  <2> DEFINE u == session[c].user
             items == session[c].items
             discounted == couponLock = c
  <2>1. u \in Users /\ items \in Items
    BY <1>0, <1>8, SessionFields DEF PlaceOrder, At, Checking
  <2>2. OrderTotal(items, discounted) \in Nat
    BY <2>1, TotalNat
  <2>3. OrderTyped'
    BY <1>0, <1>8, <2>2, CheckoutType DEF PlaceOrder, Token
  <2>4. [user |-> u, items |-> items, discounted |-> discounted] \in Receipt
    BY <2>1 DEF Receipt
  <2>5. /\ receipt' = [receipt EXCEPT ![o] =
                         [user |-> u, items |-> items, discounted |-> discounted]]
        /\ \A p \in Orders \ {o} : OrderExists(p)' <=> OrderExists(p)
    BY <1>0, <1>8 DEF PlaceOrder, Checkout, OrderExists, OrderTyped, OrderTypeOK
  <2>6. couponUses' \in Nat
    BY <1>0, <1>8 DEF PlaceOrder, ReceiptTyped
  <2>7. ReceiptTyped'
    <3> DEFINE r == [user |-> u, items |-> items, discounted |-> discounted]
    <3> HIDE DEF r
    <3> QED BY <1>0, <2>4, <2>5, <2>6 DEF ReceiptTyped, r
  <2>8. CartTyped'
    BY <1>0, <1>8, <2>1 DEF PlaceOrder, CartTyped, Nothing, Items
  <2>9. LockTyped' /\ SessionTyped'
    BY <1>0, <1>8, ReleasesLocks, SessionMoves DEF PlaceOrder
  <2> QED BY <1>t, <2>3, <2>7, <2>8, <2>9
<1>9. ASSUME NEW c \in Callers, CallFails(c) PROVE TypeOK'
  <2>1. LockTyped' /\ SessionTyped'
    BY <1>0, <1>9, ReleasesLocks, SessionMoves DEF CallFails
  <2> QED BY <1>9, <1>t, <1>o, <1>r, <1>k, <2>1 DEF CallFails
<1>10. ASSUME NEW p \in unsent, OrderPublishes(p) PROVE TypeOK'
  <2>1. OrderTyped'
    BY <1>0, <1>10, PublishOrderType DEF OrderPublishes
  <2>2. ReceiptTyped' /\ SessionTyped'
    BY <1>0, <1>10 DEF OrderPublishes, PublishOrderEvent, cartVars, ReceiptTyped, OrderExists,
                       SessionTyped
  <2> QED BY <1>10, <1>t, <1>k, <1>l, <2>1, <2>2 DEF OrderPublishes, cartVars
<1> QED
  BY <1>0, <1>1, <1>2, <1>3, <1>4, <1>5, <1>6, <1>7, <1>8, <1>9, <1>10 DEF Next, Proceeds

-----------------------------------------------------------------------------
(* The locks: a checkout holds the carts row of its customer throughout, and   *)
(* the coupons row from its increment to its end.                            *)

LocksSound ==
  /\ \A c \in Callers : session[c].at \in Checking => cartLock[session[c].user] = c
  /\ couponLock \in Callers => At(couponLock, "create")

\* The checkouts that will give a discount which is not counted yet.
Counting == {c \in Callers : At(c, "count") \/ couponLock = c}

\* No step of one call takes a lock from another's transaction.
LEMMA LocksStep == TypeOK /\ LocksSound /\ [Next]_vars => LocksSound'
<1> SUFFICES ASSUME TypeOK, LocksSound, [Next]_vars PROVE LocksSound'
  OBVIOUS
<1>0. LockTyped /\ SessionTyped /\ [Next]_vars /\ NoCaller \notin Callers
  BY Parts, CallerAssumption
<1>a. ASSUME UNCHANGED <<session, cartLock, couponLock>>
      PROVE  LocksSound'
  BY <1>a DEF LocksSound, At
<1>b. ASSUME NEW c \in Callers, SessionTyped', OnlySession(c),
             \A d \in Callers \ {c} :
               session[d].at \in Checking =>
                 cartLock'[session[d].user] = cartLock[session[d].user],
             session'[c].at \in Checking => cartLock'[session'[c].user] = c,
             couponLock' \in Callers =>
               \/ couponLock' = couponLock /\ couponLock # c
               \/ couponLock' = c /\ At(c, "create")'
      PROVE  LocksSound'
  <2>1. ASSUME NEW d \in Callers, session'[d].at \in Checking
        PROVE  cartLock'[session'[d].user] = d
    <3>1. CASE d = c
      BY <1>b, <2>1, <3>1
    <3>2. CASE d # c
      <4>1. session'[d] = session[d]
        BY <1>b, <3>2 DEF OnlySession
      <4> QED BY <1>b, <2>1, <3>2, <4>1 DEF LocksSound
    <3> QED BY <3>1, <3>2
  <2>2. ASSUME couponLock' \in Callers
        PROVE  session'[couponLock'].at = "create"
    BY <1>b, <2>2 DEF LocksSound, OnlySession, At
  <2> QED BY <2>1, <2>2 DEF LocksSound, At
<1>c. ASSUME NEW c \in Callers, SessionTyped', OnlySession(c), Releases(c),
             session'[c] = Resting
      PROVE  LocksSound'
  <2>1. ASSUME NEW d \in Callers \ {c}, session[d].at \in Checking
        PROVE  cartLock'[session[d].user] = cartLock[session[d].user]
    <3>1. session[d].user \in Users /\ cartLock[session[d].user] = d
      BY <1>0, <2>1, SessionFields DEF LocksSound
    <3> QED BY <1>0, <1>c, <3>1, ReleasesLocks
  <2>2. session'[c].at \notin Checking
    BY <1>c DEF Resting, Checking
  <2>3. couponLock' \in Callers => couponLock' = couponLock /\ couponLock # c
    BY <1>0, <1>c, ReleasesLocks
  <2> QED BY <1>b, <1>c, <2>1, <2>2, <2>3
\* A step that leaves the locks alone, and the coupons row to those who hold it.
<1>d. ASSUME NEW c \in Callers, SessionTyped', OnlySession(c),
             UNCHANGED <<cartLock, couponLock>>, ~At(c, "create"),
             session'[c].at \in Checking =>
               session[c].at \in Checking /\ session'[c].user = session[c].user
      PROVE  LocksSound'
  BY <1>b, <1>d DEF LocksSound
<1>1. CASE UNCHANGED vars
  BY <1>1, <1>a DEF vars, cartVars
<1>2. ASSUME NEW c \in Callers, NEW u \in Users, NEW change \in Change,
             BeginEdit(c, u, change)
      PROVE  LocksSound'
  <2>1. [at |-> "edit", user |-> u, change |-> change] \in Session
    BY DEF Session
  <2>2. SessionTyped' /\ OnlySession(c) /\ session'[c].at = "edit"
    BY <1>0, <1>2, <2>1, SessionMoves DEF BeginEdit
  <2> QED BY <1>2, <1>d, <2>2 DEF BeginEdit, Begins, At, Checking
<1>3. ASSUME NEW c \in Callers, NEW u \in Users, NEW coupon \in BOOLEAN,
             BeginCheckout(c, u, coupon)
      PROVE  LocksSound'
  <2>1. [at |-> "read", user |-> u, coupon |-> coupon, items |-> Nothing] \in Session
    BY DEF Session, Items, Nothing
  <2>2. SessionTyped' /\ OnlySession(c) /\ session'[c].user = u
    BY <1>0, <1>3, <2>1, SessionMoves DEF BeginCheckout
  <2>3. /\ cartLock' = [cartLock EXCEPT ![u] = c] /\ cartLock[u] = NoCaller
        /\ couponLock' = couponLock /\ session[c].at = "rest"
    BY <1>3 DEF BeginCheckout, Begins, At
  <2>4. ASSUME NEW d \in Callers \ {c}, session[d].at \in Checking
        PROVE  cartLock'[session[d].user] = cartLock[session[d].user]
    <3>1. session[d].user \in Users /\ cartLock[session[d].user] = d
      BY <1>0, <2>4, SessionFields DEF LocksSound
    <3> QED BY <1>0, <2>3, <3>1
  <2>5. cartLock'[u] = c
    BY <1>0, <2>3 DEF LockTyped
  <2>6. couponLock' \in Callers => couponLock # c
    BY <2>3 DEF LocksSound, At
  <2> QED BY <1>b, <2>2, <2>3, <2>4, <2>5, <2>6
<1>4. ASSUME NEW c \in Callers, WriteCart(c) PROVE LocksSound'
  BY <1>0, <1>4, <1>d, SessionMoves DEF WriteCart, At, Resting, Checking
<1>5. ASSUME NEW c \in Callers, ReadCart(c) PROVE LocksSound'
  <2>1. CASE cart[session[c].user] = Nothing
    BY <1>0, <1>5, <1>c, <2>1, SessionMoves DEF ReadCart
  <2>2. CASE cart[session[c].user] # Nothing
    <3>1. session[c] \in [at: Checking, user: Users, coupon: BOOLEAN, items: Items]
      BY <1>0, <1>5, SessionFields DEF ReadCart, At, Checking
    <3>2. /\ session'[c] = [session[c] EXCEPT !.at = "price",
                                              !.items = cart[session[c].user]]
          /\ OnlySession(c)
      BY <1>0, <1>5, <2>2 DEF ReadCart, OnlySession, SessionTyped
    <3>3. session'[c].user = session[c].user
      BY <3>1, <3>2
    <3>4. SessionTyped'
      BY CartTypeStep, Parts DEF TypeOK, SessionTyped
    <3> QED BY <1>5, <1>d, <2>2, <3>2, <3>3, <3>4 DEF ReadCart, At, Checking
  <2> QED BY <2>1, <2>2
<1>6. ASSUME NEW c \in Callers, PriceItems(c) PROVE LocksSound'
  <2>1. SessionTyped' /\ OnlySession(c) /\ session'[c].user = session[c].user
    BY <1>0, <1>6, SessionMoves DEF PriceItems, At, Checking
  <2> QED BY <1>6, <1>d, <2>1 DEF PriceItems, At, Checking
<1>7. ASSUME NEW c \in Callers, IncrementCouponUses(c) PROVE LocksSound'
  <2>1. /\ SessionTyped' /\ OnlySession(c) /\ session'[c].user = session[c].user
        /\ session'[c].at = "create"
    BY <1>0, <1>7, SessionMoves DEF IncrementCouponUses, At, Checking
  <2> QED BY <1>0, <1>7, <1>b, <2>1 DEF IncrementCouponUses, At, Checking, LocksSound
<1>8. ASSUME NEW c \in Callers, NEW o \in Orders, PlaceOrder(c, o) PROVE LocksSound'
  BY <1>0, <1>8, <1>c, SessionMoves DEF PlaceOrder
<1>9. ASSUME NEW c \in Callers, CallFails(c) PROVE LocksSound'
  BY <1>0, <1>9, <1>c, SessionMoves DEF CallFails
<1>10. ASSUME NEW p \in unsent, OrderPublishes(p) PROVE LocksSound'
  BY <1>10, <1>a DEF OrderPublishes, cartVars
<1> QED
  BY <1>0, <1>1, <1>2, <1>3, <1>4, <1>5, <1>6, <1>7, <1>8, <1>9, <1>10 DEF Next, Proceeds

-----------------------------------------------------------------------------
(* The coupon.                                                              *)

Discounted == {o \in Orders : OrderExists(o) /\ receipt[o].discounted}

\* What an order's commit does to the other orders.
LEMMA PlacedOrder ==
  ASSUME TypeOK, NEW c \in Callers, NEW o \in Orders, PlaceOrder(c, o)
  PROVE  /\ ~OrderExists(o) /\ OrderExists(o)'
         /\ receipt'[o] = [user |-> session[c].user, items |-> session[c].items,
                           discounted |-> couponLock = c]
         /\ \A p \in Orders \ {o} :
              (OrderExists(p)' <=> OrderExists(p)) /\ receipt'[p] = receipt[p]
<1>1. /\ receipt \in [Orders -> Receipt \cup {NoReceipt}]
      /\ orders \in [Orders -> OrderRow]
  BY DEF TypeOK, OrderTypeOK
<1>2. /\ orders[o].status = "absent"
      /\ orders' = [orders EXCEPT ![o] =
                      [status |-> "pending", total |-> OrderTotal(session[c].items, couponLock = c),
                       items |-> AllItems("pending")]]
  BY DEF PlaceOrder, Checkout
<1>3. orders'[o].status = "pending" /\ \A p \in Orders \ {o} : orders'[p] = orders[p]
  BY <1>1, <1>2
<1>4. receipt' = [receipt EXCEPT ![o] =
                   [user |-> session[c].user, items |-> session[c].items,
                    discounted |-> couponLock = c]]
  BY DEF PlaceOrder
<1> QED BY <1>1, <1>2, <1>3, <1>4 DEF OrderExists

\* Any step other than a commit leaves the orders that exist and their receipts.
LEMMA OrdersStay ==
  ASSUME TypeOK, [Next]_vars,
         \A c \in Callers, o \in Orders : ~PlaceOrder(c, o)
  PROVE  /\ \A o \in Orders : OrderExists(o)' = OrderExists(o)
         /\ UNCHANGED <<receipt, couponUses>>
BY DEF Next, Proceeds, BeginEdit, BeginCheckout, WriteCart, ReadCart, PriceItems,
       IncrementCouponUses, CallFails, OrderPublishes, PublishOrderEvent, orderVars,
       cartVars, vars, OrderExists

\* A commit counts its own discount, and nothing else changes the count.
LEMMA CountStep == TypeOK /\ UsesAreCounted /\ [Next]_vars => UsesAreCounted'
<1> SUFFICES ASSUME TypeOK, UsesAreCounted, [Next]_vars PROVE UsesAreCounted'
  OBVIOUS
<1>0. couponUses = Cardinality(Discounted) /\ IsFiniteSet(Discounted)
  BY Amounts, FS_Subset DEF UsesAreCounted, Discounted
<1>1. CASE \A c \in Callers, o \in Orders : ~PlaceOrder(c, o)
  BY <1>1, OrdersStay DEF UsesAreCounted
<1>2. ASSUME NEW c \in Callers, NEW o \in Orders, PlaceOrder(c, o)
      PROVE  UsesAreCounted'
  <2>0. /\ ~OrderExists(o) /\ OrderExists(o)'
        /\ receipt'[o] = [user |-> session[c].user, items |-> session[c].items,
                          discounted |-> couponLock = c]
        /\ \A p \in Orders \ {o} :
             (OrderExists(p)' <=> OrderExists(p)) /\ receipt'[p] = receipt[p]
    BY <1>2, PlacedOrder
  <2>1. o \notin Discounted
    BY <2>0 DEF Discounted
  <2>3. ASSUME NEW p \in Orders
        PROVE  p \in Discounted' <=> (p \in Discounted \/ (p = o /\ couponLock = c))
    <3>1. CASE p = o
      <4>1. OrderExists(o)' /\ (receipt'[o].discounted <=> couponLock = c)
        <5>1. receipt'[o].discounted = (couponLock = c)
          BY <2>0
        <5>2. CASE couponLock = c
          BY <2>0, <5>1, <5>2
        <5>3. CASE couponLock # c
          BY <2>0, <5>1, <5>3
        <5> QED BY <5>2, <5>3
      <4> QED BY <2>1, <3>1, <4>1 DEF Discounted
    <3>2. CASE p # o
      <4>1. (OrderExists(p)' <=> OrderExists(p)) /\ receipt'[p] = receipt[p]
        BY <2>0, <3>2
      <4> QED BY <3>2, <4>1 DEF Discounted
    <3> QED BY <3>1, <3>2
  <2>4. Discounted' = IF couponLock = c THEN Discounted \cup {o} ELSE Discounted
    BY <2>3 DEF Discounted
  <2>2. couponUses' = IF couponLock = c THEN couponUses + 1 ELSE couponUses
    BY <1>2 DEF PlaceOrder
  <2>5. couponUses' = Cardinality(Discounted')
    BY <1>0, <2>1, <2>2, <2>4, FS_AddElement
  <2> QED BY <2>5 DEF UsesAreCounted, Discounted
<1> QED BY <1>1, <1>2

\* The fewer of the customers and the goroutines.
Fewest == Min({Cardinality(Users), Cardinality(Callers)})

\* Fewest is the smaller of two positive numbers.
LEMMA FewestNat ==
  /\ Fewest \in Nat \ {0}
  /\ \A n \in Nat : n <= Cardinality(Users) /\ n <= Cardinality(Callers) => n <= Fewest
<1>1. /\ Cardinality(Users) \in Nat /\ Cardinality(Users) # 0
      /\ Cardinality(Callers) \in Nat /\ Cardinality(Callers) # 0
  BY Amounts, FS_CardinalityType, FS_EmptySet
<1>2. \E x \in {Cardinality(Users), Cardinality(Callers)} :
        \A y \in {Cardinality(Users), Cardinality(Callers)} : x <= y
  BY <1>1
<1>3. Fewest \in {Cardinality(Users), Cardinality(Callers)}
  BY <1>2 DEF Fewest, Min
<1> QED BY <1>1, <1>3

\* Calls of which no two are of one customer are no more than either.
LEMMA FewCalls ==
  ASSUME NEW W \in SUBSET Callers, NEW f \in [W -> Users],
         \A c, d \in W : f[c] = f[d] => c = d
  PROVE  Cardinality(W) \in Nat /\ Cardinality(W) <= Fewest
<1>1. /\ IsFiniteSet(W) /\ Cardinality(W) \in Nat /\ Cardinality(Users) \in Nat
      /\ Cardinality(W) <= Cardinality(Callers)
  BY Amounts, FS_Subset, FS_CardinalityType
<1>2. ~(Cardinality(Users) < Cardinality(W))
  BY <1>1, Amounts, FS_PigeonHole
<1> QED BY <1>1, <1>2, FewestNat

\* UsesNearLimit alone is not inductive: a checkout that has found a use left
\* takes it later.  With those uses counted as taken, it is.
CountedNearLimit == couponUses + Cardinality(Counting) < MaxUses + Fewest

\* A use is found left only below the limit, and taken once.
LEMMA NearLimitStep ==
  TypeOK /\ LocksSound /\ CountedNearLimit /\ [Next]_vars => CountedNearLimit'
<1> SUFFICES ASSUME TypeOK, LocksSound, CountedNearLimit, [Next]_vars
             PROVE  CountedNearLimit'
  OBVIOUS
<1>0. /\ LockTyped /\ SessionTyped /\ [Next]_vars /\ NoCaller \notin Callers
      /\ TypeOK' /\ LocksSound'
      /\ couponUses \in Nat /\ MaxUses \in Nat /\ Fewest \in Nat
  BY Parts, CallerAssumption, CartTypeStep, LocksStep, Amounts, FewestNat DEF TypeOK
<1>1. /\ Counting \subseteq Callers /\ Counting' \subseteq Callers
      /\ IsFiniteSet(Counting) /\ Cardinality(Counting) \in Nat
      /\ IsFiniteSet(Counting') /\ Cardinality(Counting') \in Nat
  <2>1. Counting \in SUBSET Callers /\ Counting' \in SUBSET Callers
    BY DEF Counting
  <2> HIDE DEF Counting
  <2> QED BY <2>1, Amounts, FS_Subset, FS_CardinalityType
<1>2. Cardinality(Counting') <= Fewest
  <2> DEFINE f == [c \in Counting' |-> session'[c].user]
  <2>1. \A c \in Counting' : session'[c].at \in Checking
    BY <1>0 DEF Counting, LocksSound, At, Checking
  <2>2. \A c \in Counting' : session'[c].user \in Users /\ cartLock'[session'[c].user] = c
    <3>1. SessionTyped'
      BY <1>0 DEF TypeOK, SessionTyped
    <3>2. ASSUME NEW c \in Counting'
          PROVE  session'[c].user \in Users
      <4>1. session'[c] \in Session \cup {Resting} /\ session'[c].at \in Checking
        BY <1>1, <2>1, <3>1 DEF SessionTyped
      <4> QED BY <4>1 DEF Session, Resting, Checking
    <3> QED BY <1>0, <1>1, <2>1, <3>2 DEF LocksSound
  <2>3. f \in [Counting' -> Users] /\ \A c, d \in Counting' : f[c] = f[d] => c = d
    BY <2>2
  <2> HIDE DEF f
  <2> QED BY <1>1, <2>3, FewCalls
\* Fewer calls, as many uses.
<1>a. ASSUME Counting' \subseteq Counting, UNCHANGED couponUses
      PROVE  CountedNearLimit'
  <2>1. Cardinality(Counting') <= Cardinality(Counting)
    BY <1>1, <1>a, FS_Subset
  <2>2. couponUses + Cardinality(Counting) < MaxUses + Fewest
    BY DEF CountedNearLimit
  <2>3. couponUses' + Cardinality(Counting') < MaxUses + Fewest
    BY <1>0, <1>1, <1>a, <2>1, <2>2
  <2> QED BY <2>3 DEF CountedNearLimit
\* A step of one call that brings it to no increment.
<1>b. ASSUME NEW c \in Callers, OnlySession(c), UNCHANGED couponUses,
             session'[c].at # "count", couponLock' = couponLock \/ couponLock' \notin Callers
      PROVE  CountedNearLimit'
  <2>1. Counting' \subseteq Counting
    BY <1>b DEF Counting, OnlySession, At
  <2> QED BY <1>a, <1>b, <2>1
<1>c. ASSUME NEW c \in Callers, Rests(c), Releases(c), UNCHANGED couponUses
      PROVE  CountedNearLimit'
  BY <1>0, <1>b, <1>c, SessionMoves, ReleasesLocks DEF Resting
<1>3. CASE UNCHANGED vars
  BY <1>3, <1>a DEF vars, cartVars, Counting, At
<1>4. ASSUME NEW c \in Callers, NEW u \in Users, NEW change \in Change,
             BeginEdit(c, u, change)
      PROVE  CountedNearLimit'
  <2>1. [at |-> "edit", user |-> u, change |-> change] \in Session
    BY DEF Session
  <2> QED BY <1>0, <1>b, <1>4, <2>1, SessionMoves DEF BeginEdit
<1>5. ASSUME NEW c \in Callers, NEW u \in Users, NEW coupon \in BOOLEAN,
             BeginCheckout(c, u, coupon)
      PROVE  CountedNearLimit'
  <2>1. [at |-> "read", user |-> u, coupon |-> coupon, items |-> Nothing] \in Session
    BY DEF Session, Items, Nothing
  <2> QED BY <1>0, <1>b, <1>5, <2>1, SessionMoves DEF BeginCheckout
<1>6. ASSUME NEW c \in Callers, WriteCart(c) PROVE CountedNearLimit'
  BY <1>0, <1>6, <1>b, SessionMoves DEF WriteCart, Resting
<1>7. ASSUME NEW c \in Callers, ReadCart(c) PROVE CountedNearLimit'
  <2>1. CASE cart[session[c].user] = Nothing
    BY <1>7, <1>c, <2>1 DEF ReadCart
  <2>2. CASE cart[session[c].user] # Nothing
    <3>1. session[c] \in [at: Checking, user: Users, coupon: BOOLEAN, items: Items]
      BY <1>0, <1>7, SessionFields DEF ReadCart, At, Checking
    <3>2. OnlySession(c) /\ session'[c].at = "price"
      BY <1>0, <1>7, <2>2, <3>1 DEF ReadCart, OnlySession, SessionTyped
    <3> QED BY <1>7, <1>b, <2>2, <3>2 DEF ReadCart
  <2> QED BY <2>1, <2>2
<1>8. ASSUME NEW c \in Callers, PriceItems(c) PROVE CountedNearLimit'
  <2>1. OnlySession(c)
    BY <1>0, <1>8, SessionMoves DEF PriceItems, At, Checking
  <2>2. CASE session[c].coupon /\ CouponApplies(session[c].items)
    <3>1. couponUses' = couponUses /\ couponUses < MaxUses
      BY <1>8, <2>2 DEF PriceItems, CouponApplies
    <3>2. couponUses' + Cardinality(Counting') < MaxUses + Fewest
      BY <1>0, <1>1, <1>2, <3>1
    <3> QED BY <3>2 DEF CountedNearLimit
  <2>3. CASE ~(session[c].coupon /\ CouponApplies(session[c].items))
    <3>1. session'[c].at = "create"
      BY <1>0, <1>8, <2>3, SessionMoves DEF PriceItems, At, Checking
    <3> QED BY <1>8, <1>b, <2>1, <3>1 DEF PriceItems
  <2> QED BY <2>2, <2>3
<1>9. ASSUME NEW c \in Callers, IncrementCouponUses(c) PROVE CountedNearLimit'
  <2>1. OnlySession(c) /\ session'[c].at = "create"
    BY <1>0, <1>9, SessionMoves DEF IncrementCouponUses, At, Checking
  <2>2. Counting' \subseteq Counting
    BY <1>0, <1>9, <2>1 DEF IncrementCouponUses, Counting, OnlySession, At
  <2> QED BY <1>9, <1>a, <2>2 DEF IncrementCouponUses
<1>10. ASSUME NEW c \in Callers, NEW o \in Orders, PlaceOrder(c, o)
       PROVE  CountedNearLimit'
  <2>1. CASE couponLock = c
    <3>1. OnlySession(c) /\ session'[c].at = "rest" /\ couponLock' = NoCaller
      BY <1>0, <1>10, <2>1, SessionMoves, ReleasesLocks DEF PlaceOrder, Resting
    <3>2. c \in Counting /\ Counting' \subseteq Counting \ {c}
      BY <1>0, <2>1, <3>1 DEF Counting, OnlySession, At
    <3>3. Cardinality(Counting') <= Cardinality(Counting) - 1
      <4> DEFINE rest == Counting \ {c}
      <4>1. IsFiniteSet(rest) /\ Cardinality(rest) = Cardinality(Counting) - 1
        BY <1>1, <3>2, FS_RemoveElement
      <4>2. Counting' \in SUBSET rest
        BY <3>2
      <4> HIDE DEF rest
      <4> QED BY <4>1, <4>2, FS_Subset
    <3>4. couponUses' = couponUses + 1
      BY <1>10, <2>1 DEF PlaceOrder
    <3>5. couponUses + Cardinality(Counting) < MaxUses + Fewest
      BY DEF CountedNearLimit
    <3>6. couponUses' + Cardinality(Counting') < MaxUses + Fewest
      BY <1>0, <1>1, <3>3, <3>4, <3>5
    <3> QED BY <3>6 DEF CountedNearLimit
  <2>2. CASE couponLock # c
    BY <1>10, <1>c, <2>2 DEF PlaceOrder
  <2> QED BY <2>1, <2>2
<1>11. ASSUME NEW c \in Callers, CallFails(c) PROVE CountedNearLimit'
  BY <1>11, <1>c DEF CallFails
<1>12. ASSUME NEW p \in unsent, OrderPublishes(p) PROVE CountedNearLimit'
  BY <1>12, <1>a DEF OrderPublishes, cartVars, Counting, At
<1> QED
  BY <1>0, <1>3, <1>4, <1>5, <1>6, <1>7, <1>8, <1>9, <1>10, <1>11, <1>12 DEF Next, Proceeds

-----------------------------------------------------------------------------
(* The units bought.                                                        *)

Priced == {"price", "count", "create"}

\* The number of units of v that the receipt of each order of u says.
Units(u, v) == [o \in OrdersOf(u) |-> receipt[o].items[v]]

\* NothingBoughtTwice alone is not inductive: a checkout buys what it read of
\* the cart, which may be more than is in the cart by then.  What it has read is
\* still to be bought, because no other checkout of the cart can run.
ClaimSound(c) ==
  session[c].at \in Priced =>
    \A v \in Variants :
      Bought(session[c].user, v) + session[c].items[v] <= chosen[session[c].user][v]

BoughtInv == NothingBoughtTwice /\ \A c \in Callers : ClaimSound(c)

\* What a customer has bought of a variant is a number.
LEMMA BoughtNat ==
  ASSUME TypeOK, NEW u \in Users, NEW v \in Variants
  PROVE  /\ Bought(u, v) \in Nat /\ IsFiniteSet(OrdersOf(u))
         /\ \A o \in OrdersOf(u) : Units(u, v)[o] \in Nat
<1>1. IsFiniteSet(OrdersOf(u))
  <2>1. OrdersOf(u) \in SUBSET Orders
    BY DEF OrdersOf
  <2> QED BY <2>1, Amounts, FS_Subset
<1>2. \A o \in OrdersOf(u) : Units(u, v)[o] \in Nat
  <2>1. \A o \in OrdersOf(u) : receipt[o] \in Receipt
    BY DEF OrdersOf, TypeOK
  <2>2. \A o \in OrdersOf(u) : receipt[o].items \in [Variants -> Nat]
    BY <2>1 DEF Receipt, Items
  <2> QED BY <2>2 DEF Units
<1>3. SumOf(Units(u, v), OrdersOf(u)) \in Nat
  BY <1>1, <1>2, SumNat
<1> QED BY <1>1, <1>2, <1>3 DEF Bought, Units

\* A commit changes the orders.
LEMMA Committed ==
  ASSUME TypeOK, orders' = orders
  PROVE  \A c \in Callers, o \in Orders : ~PlaceOrder(c, o)
<1>1. ASSUME NEW c \in Callers, NEW o \in Orders, PlaceOrder(c, o)
      PROVE  FALSE
  <2>1. ~OrderExists(o) /\ OrderExists(o)'
    BY <1>1, PlacedOrder
  <2> QED BY <2>1 DEF OrderExists
<1> QED BY <1>1

\* A step other than a commit buys nothing.
LEMMA BoughtStays ==
  ASSUME TypeOK, [Next]_vars, \A c \in Callers, o \in Orders : ~PlaceOrder(c, o),
         NEW u, NEW v
  PROVE  Bought(u, v)' = Bought(u, v)
<1>1. (\A o \in Orders : OrderExists(o)' = OrderExists(o)) /\ receipt' = receipt
  BY OrdersStay
<1>2. OrdersOf(u)' = OrdersOf(u)
  BY <1>1 DEF OrdersOf
<1> QED BY <1>1, <1>2 DEF Bought

\* A commit buys what the call has read, for its customer.
LEMMA BoughtPlaced ==
  ASSUME TypeOK, NEW c \in Callers, NEW o \in Orders, PlaceOrder(c, o),
         NEW u \in Users, NEW v \in Variants
  PROVE  /\ session[c].user \in Users /\ session[c].items \in Items
         /\ Bought(u, v)' = IF u = session[c].user
                            THEN session[c].items[v] + Bought(u, v)
                            ELSE Bought(u, v)
<1>0. session[c].user \in Users /\ session[c].items \in Items
  BY Parts, SessionFields DEF PlaceOrder, At, Checking
<1>1. /\ ~OrderExists(o) /\ OrderExists(o)'
      /\ receipt'[o] = [user |-> session[c].user, items |-> session[c].items,
                        discounted |-> couponLock = c]
      /\ \A p \in Orders \ {o} :
           (OrderExists(p)' <=> OrderExists(p)) /\ receipt'[p] = receipt[p]
  BY PlacedOrder
<1>2. receipt'[o].user = session[c].user /\ receipt'[o].items = session[c].items
  BY <1>1
<1>3. o \notin OrdersOf(u)
  BY <1>1 DEF OrdersOf
<1>4. /\ \A p \in Orders \ {o} : p \in OrdersOf(u)' <=> p \in OrdersOf(u)
      /\ o \in OrdersOf(u)' <=> u = session[c].user
      /\ OrdersOf(u)' \subseteq Orders /\ OrdersOf(u) \subseteq Orders
  BY <1>1, <1>2 DEF OrdersOf
<1>5. /\ IsFiniteSet(OrdersOf(u)) /\ \A p \in OrdersOf(u) : Units(u, v)[p] \in Nat
      /\ session[c].items[v] \in Nat
  BY <1>0, BoughtNat DEF Items
<1>6. \A p \in OrdersOf(u) : p \in OrdersOf(u)' /\ Units(u, v)'[p] = Units(u, v)[p]
  <2>1. ASSUME NEW p \in OrdersOf(u)
        PROVE  p \in OrdersOf(u)' /\ receipt'[p] = receipt[p]
    <3>1. p \in Orders \ {o}
      BY <1>3, <1>4, <2>1
    <3> QED BY <1>1, <1>4, <2>1, <3>1
  <2>2. ASSUME NEW p \in OrdersOf(u)
        PROVE  Units(u, v)'[p] = Units(u, v)[p]
    BY <2>1, <2>2 DEF Units
  <2> QED BY <2>1, <2>2
<1>7. SumOf(Units(u, v)', OrdersOf(u)) = SumOf(Units(u, v), OrdersOf(u))
  BY <1>5, <1>6, SumSame
<1>8. CASE u = session[c].user
  <2>1. OrdersOf(u)' = OrdersOf(u) \cup {o}
    BY <1>4, <1>8
  <2>2. Units(u, v)'[o] = session[c].items[v]
    BY <1>2, <2>1 DEF Units
  <2>3. \A p \in OrdersOf(u) \cup {o} : Units(u, v)'[p] \in Int
    <3>1. \A p \in OrdersOf(u) : Units(u, v)'[p] \in Nat
      BY <1>5, <1>6
    <3> QED BY <1>5, <2>2, <3>1
  <2>4. SumOf(Units(u, v)', OrdersOf(u) \cup {o})
          = Units(u, v)'[o] + SumOf(Units(u, v)', OrdersOf(u))
    BY <1>3, <1>5, <2>3, SumAdd
  <2>5. /\ Bought(u, v)' = SumOf(Units(u, v)', OrdersOf(u)')
        /\ Bought(u, v) = SumOf(Units(u, v), OrdersOf(u))
    BY DEF Bought, Units
  <2> QED BY <1>0, <1>7, <1>8, <2>1, <2>2, <2>4, <2>5
<1>9. CASE u # session[c].user
  <2>1. OrdersOf(u)' = OrdersOf(u)
    BY <1>3, <1>4, <1>9
  <2>5. /\ Bought(u, v)' = SumOf(Units(u, v)', OrdersOf(u)')
        /\ Bought(u, v) = SumOf(Units(u, v), OrdersOf(u))
    BY DEF Bought, Units
  <2> QED BY <1>0, <1>7, <1>9, <2>1, <2>5
<1> QED BY <1>0, <1>8, <1>9

\* No step lets a unit be bought twice.
LEMMA BoughtStep == TypeOK /\ LocksSound /\ BoughtInv /\ [Next]_vars => BoughtInv'
<1> SUFFICES ASSUME TypeOK, LocksSound, BoughtInv, [Next]_vars PROVE BoughtInv'
  OBVIOUS
<1>0. /\ SessionTyped /\ CartTyped /\ [Next]_vars
      /\ \A u \in Users, v \in Variants : Bought(u, v) + cart[u][v] <= chosen[u][v]
      /\ \A c \in Callers : ClaimSound(c)
      /\ \A u \in Users, v \in Variants :
           Bought(u, v) \in Nat /\ cart[u][v] \in Nat /\ chosen[u][v] \in Nat
  <2>1. \A u \in Users : cart[u] \in Items /\ chosen[u] \in Items
    BY DEF TypeOK
  <2> QED BY <2>1, Parts, BoughtNat DEF BoughtInv, NothingBoughtTwice, Items
\* A goroutine that stays where it is has as much right as before to what it
\* has read, if its customer's cart was not bought and chosen never shrinks.
<1>a. ASSUME NEW c \in Callers, session'[c] = session[c],
             session[c].at \in Priced =>
               \A v \in Variants :
                 /\ Bought(session[c].user, v)' = Bought(session[c].user, v)
                 /\ chosen'[session[c].user][v] \in Nat
                 /\ chosen'[session[c].user][v] >= chosen[session[c].user][v]
      PROVE  ClaimSound(c)'
  <2>1. ASSUME session[c].at \in Priced, NEW v \in Variants
        PROVE  Bought(session[c].user, v)' + session[c].items[v]
                 <= chosen'[session[c].user][v]
    <3> DEFINE u == session[c].user
               n == session[c].items[v]
    <3>1. u \in Users /\ n \in Nat
      BY <1>0, <2>1, SessionFields DEF Priced, Checking, Items
    <3>2. Bought(u, v) + n <= chosen[u][v]
      BY <1>0, <2>1 DEF ClaimSound
    <3>3. /\ Bought(u, v) \in Nat /\ chosen[u][v] \in Nat
          /\ Bought(u, v)' = Bought(u, v) /\ chosen'[u][v] \in Nat
          /\ chosen'[u][v] >= chosen[u][v]
      BY <1>0, <1>a, <2>1, <3>1
    <3> HIDE DEF u, n
    <3>4. Bought(u, v)' + n <= chosen'[u][v]
      BY <3>1, <3>2, <3>3
    <3> QED BY <3>4 DEF u, n
  <2> QED BY <1>a, <2>1 DEF ClaimSound
\* A step of one call that buys nothing and edits no cart.
<1>b. ASSUME NEW c \in Callers, OnlySession(c), UNCHANGED <<cart, chosen>>,
             \A d \in Callers, o \in Orders : ~PlaceOrder(d, o),
             ClaimSound(c)'
      PROVE  BoughtInv'
  <2>1. \A u \in Users, v \in Variants : Bought(u, v)' = Bought(u, v)
    BY <1>0, <1>b, BoughtStays
  <2>2. NothingBoughtTwice'
    BY <1>0, <1>b, <2>1 DEF NothingBoughtTwice
  <2>3. ASSUME NEW d \in Callers \ {c}
        PROVE  ClaimSound(d)'
    <3>1. session[d].at \in Priced => session[d].user \in Users
      BY <1>0, SessionFields DEF Priced, Checking
    <3>2. session'[d] = session[d]
      BY <1>b DEF OnlySession
    <3> QED BY <1>0, <1>a, <1>b, <2>1, <3>1, <3>2
  <2> QED BY <1>b, <2>2, <2>3 DEF BoughtInv
\* A call that goes nowhere near a price.
<1>c. ASSUME NEW c \in Callers, session'[c].at \notin Priced
      PROVE  ClaimSound(c)'
  BY <1>c DEF ClaimSound
<1>d. ASSUME NEW c \in Callers, session[c].at \in Priced, UNCHANGED chosen,
             \A d \in Callers, o \in Orders : ~PlaceOrder(d, o),
             session'[c].user = session[c].user, session'[c].items = session[c].items
      PROVE  ClaimSound(c)'
  BY <1>0, <1>d, BoughtStays DEF ClaimSound
<1>1. CASE UNCHANGED vars
  <2>1. /\ UNCHANGED <<cart, chosen, session>>
        /\ \A u, v : Bought(u, v)' = Bought(u, v)
    BY <1>1 DEF vars, cartVars, orderVars, Bought, OrdersOf, OrderExists
  <2> QED BY <1>0, <2>1 DEF BoughtInv, NothingBoughtTwice, ClaimSound
<1>2. ASSUME NEW c \in Callers, NEW u \in Users, NEW change \in Change,
             BeginEdit(c, u, change)
      PROVE  BoughtInv'
  <2>1. [at |-> "edit", user |-> u, change |-> change] \in Session
    BY DEF Session
  <2>2. OnlySession(c) /\ session'[c].at = "edit"
    BY <1>0, <1>2, <2>1, SessionMoves DEF BeginEdit
  <2>3. \A d \in Callers, o \in Orders : ~PlaceOrder(d, o)
    BY <1>2, Committed DEF BeginEdit, orderVars
  <2> QED BY <1>2, <1>b, <1>c, <2>2, <2>3 DEF BeginEdit, Priced
<1>3. ASSUME NEW c \in Callers, NEW u \in Users, NEW coupon \in BOOLEAN,
             BeginCheckout(c, u, coupon)
      PROVE  BoughtInv'
  <2>1. [at |-> "read", user |-> u, coupon |-> coupon, items |-> Nothing] \in Session
    BY DEF Session, Items, Nothing
  <2>2. OnlySession(c) /\ session'[c].at = "read"
    BY <1>0, <1>3, <2>1, SessionMoves DEF BeginCheckout
  <2>3. \A d \in Callers, o \in Orders : ~PlaceOrder(d, o)
    BY <1>3, Committed DEF BeginCheckout, orderVars
  <2> QED BY <1>3, <1>b, <1>c, <2>2, <2>3 DEF BeginCheckout, Priced
<1>4. ASSUME NEW c \in Callers, WriteCart(c) PROVE BoughtInv'
  <2>1. session[c].user \in Users /\ session[c].change \in Change
    BY <1>0, <1>4, SessionFields DEF WriteCart, At
  <2> DEFINE u == session[c].user
  <2>2. PICK items \in Edited(cart[u], session[c].change) :
          /\ cart' = [cart EXCEPT ![u] = items]
          /\ chosen' = [chosen EXCEPT ![u] = [v \in Variants |->
               IF items[v] > cart[u][v] THEN chosen[u][v] + items[v] - cart[u][v]
               ELSE chosen[u][v]]]
    BY <1>4 DEF WriteCart
  <2>3. items \in Items
    BY <1>0, <2>1, EditedType DEF CartTyped
  <2>4. \A d \in Callers, o \in Orders : ~PlaceOrder(d, o)
    BY <1>4, Committed DEF WriteCart, orderVars
  <2>5. \A w \in Users, v \in Variants : Bought(w, v)' = Bought(w, v)
    BY <1>0, <2>4, BoughtStays
  <2>6. \A v \in Variants :
          /\ items[v] \in Nat /\ cart'[u][v] = items[v]
          /\ chosen'[u][v] = IF items[v] > cart[u][v]
                             THEN chosen[u][v] + items[v] - cart[u][v] ELSE chosen[u][v]
    BY <1>0, <2>1, <2>2, <2>3 DEF CartTyped, Items
  <2>7. \A w \in Users : w # u => cart'[w] = cart[w] /\ chosen'[w] = chosen[w]
    BY <1>0, <2>2 DEF CartTyped
  <2> HIDE DEF u
  <2>8. \A w \in Users, v \in Variants :
          chosen'[w][v] \in Nat /\ chosen'[w][v] >= chosen[w][v]
    <3> TAKE w \in Users, v \in Variants
    <3>1. CASE w = u
      BY <1>0, <2>6, <3>1
    <3>2. CASE w # u
      BY <1>0, <2>7, <3>2
    <3> QED BY <3>1, <3>2
  <2>9. \A w \in Users, v \in Variants : Bought(w, v)' + cart'[w][v] <= chosen'[w][v]
    <3> TAKE w \in Users, v \in Variants
    <3>0. /\ Bought(w, v) + cart[w][v] <= chosen[w][v] /\ Bought(w, v)' = Bought(w, v)
          /\ Bought(w, v) \in Nat /\ cart[w][v] \in Nat /\ chosen[w][v] \in Nat
      BY <1>0, <2>5
    <3>1. CASE w = u
      <4>1. /\ items[v] \in Nat /\ cart'[w][v] = items[v]
            /\ chosen'[w][v] = IF items[v] > cart[w][v]
                               THEN chosen[w][v] + items[v] - cart[w][v] ELSE chosen[w][v]
        BY <2>6, <3>1
      <4>2. CASE items[v] > cart[w][v]
        BY <3>0, <4>1, <4>2
      <4>3. CASE ~(items[v] > cart[w][v])
        BY <3>0, <4>1, <4>3
      <4> QED BY <4>2, <4>3
    <3>2. CASE w # u
      BY <2>7, <3>0, <3>2
    <3> QED BY <3>1, <3>2
  <2>10. OnlySession(c) /\ session'[c].at = "rest"
    BY <1>0, <1>4, SessionMoves DEF WriteCart, Resting
  <2>11. ASSUME NEW d \in Callers
         PROVE  ClaimSound(d)'
    <3>1. CASE d = c
      BY <1>c, <2>10, <3>1 DEF Priced
    <3>2. CASE d # c
      <4>1. session[d].at \in Priced => session[d].user \in Users
        BY <1>0, SessionFields DEF Priced, Checking
      <4>2. session'[d] = session[d]
        BY <2>10, <3>2 DEF OnlySession
      <4> QED BY <1>a, <2>5, <2>8, <4>1, <4>2
    <3> QED BY <3>1, <3>2
  <2> QED BY <2>9, <2>11 DEF BoughtInv, NothingBoughtTwice
<1>5. ASSUME NEW c \in Callers, ReadCart(c) PROVE BoughtInv'
  <2>1. /\ session[c] \in [at: Checking, user: Users, coupon: BOOLEAN, items: Items]
        /\ session[c].user \in Users
    BY <1>0, <1>5, SessionFields DEF ReadCart, At, Checking
  <2>2. \A d \in Callers, o \in Orders : ~PlaceOrder(d, o)
    BY <1>5, Committed DEF ReadCart, orderVars
  <2>3. CASE cart[session[c].user] = Nothing
    <3>1. OnlySession(c) /\ session'[c].at = "rest"
      BY <1>0, <1>5, <2>3, SessionMoves DEF ReadCart, Resting
    <3> QED BY <1>5, <1>b, <1>c, <2>2, <3>1 DEF ReadCart, Priced
  <2>4. CASE cart[session[c].user] # Nothing
    <3> DEFINE s == [session[c] EXCEPT !.at = "price", !.items = cart[session[c].user]]
    <3>1. s.user = session[c].user /\ s.items = cart[session[c].user]
      BY <2>1
    <3>2. session'[c] = s /\ OnlySession(c)
      BY <1>0, <1>5, <2>4 DEF ReadCart, OnlySession, SessionTyped
    <3> HIDE DEF s
    <3>3. ClaimSound(c)'
      <4>1. \A u \in Users, v \in Variants : Bought(u, v)' = Bought(u, v)
        BY <1>0, <2>2, BoughtStays
      <4>2. chosen' = chosen
        BY <1>5 DEF ReadCart
      <4> QED BY <1>0, <2>1, <3>1, <3>2, <4>1, <4>2 DEF ClaimSound
    <3> QED BY <1>5, <1>b, <2>2, <3>2, <3>3 DEF ReadCart
  <2> QED BY <2>3, <2>4
<1>6. ASSUME NEW c \in Callers, PriceItems(c) PROVE BoughtInv'
  <2>1. /\ OnlySession(c) /\ session'[c].user = session[c].user
        /\ session'[c].items = session[c].items
    BY <1>0, <1>6, SessionMoves DEF PriceItems, At, Checking
  <2>2. \A d \in Callers, o \in Orders : ~PlaceOrder(d, o)
    BY <1>6, Committed DEF PriceItems, orderVars
  <2> QED BY <1>6, <1>b, <1>d, <2>1, <2>2 DEF PriceItems, At, Priced
<1>7. ASSUME NEW c \in Callers, IncrementCouponUses(c) PROVE BoughtInv'
  <2>1. /\ OnlySession(c) /\ session'[c].user = session[c].user
        /\ session'[c].items = session[c].items
    BY <1>0, <1>7, SessionMoves DEF IncrementCouponUses, At, Checking
  <2>2. \A d \in Callers, o \in Orders : ~PlaceOrder(d, o)
    BY <1>7, Committed DEF IncrementCouponUses, orderVars
  <2> QED BY <1>7, <1>b, <1>d, <2>1, <2>2 DEF IncrementCouponUses, At, Priced
<1>8. ASSUME NEW c \in Callers, NEW o \in Orders, PlaceOrder(c, o) PROVE BoughtInv'
  <2> DEFINE u == session[c].user
             items == session[c].items
  <2>1. /\ u \in Users /\ items \in Items
        /\ \A v \in Variants : items[v] \in Nat
    BY <1>0, <1>8, SessionFields DEF PlaceOrder, At, Checking, Items
  <2>2. \A w \in Users, v \in Variants :
          Bought(w, v)' = IF w = u THEN items[v] + Bought(w, v) ELSE Bought(w, v)
    BY <1>8, BoughtPlaced
  <2>3. /\ cart' = [cart EXCEPT ![u] = Nothing] /\ chosen' = chosen
        /\ OnlySession(c) /\ session'[c].at = "rest" /\ session[c].at = "create"
    BY <1>0, <1>8, SessionMoves DEF PlaceOrder, Resting, At
  <2>4. \A v \in Variants : Bought(u, v) + items[v] <= chosen[u][v]
    BY <1>0, <2>3 DEF ClaimSound, Priced
  <2>5. /\ \A v \in Variants : cart'[u][v] = 0
        /\ \A w \in Users : w # u => cart'[w] = cart[w]
    BY <1>0, <2>1, <2>3 DEF CartTyped, Nothing
  <2>6. \A w \in Users, v \in Variants : Bought(w, v)' + cart'[w][v] <= chosen'[w][v]
    <3> HIDE DEF u, items
    <3> TAKE w \in Users, v \in Variants
    <3>1. CASE w = u
      BY <1>0, <2>1, <2>2, <2>3, <2>4, <2>5, <3>1
    <3>2. CASE w # u
      BY <1>0, <2>2, <2>3, <2>5, <3>2
    <3> QED BY <3>1, <3>2
  <2>7. ASSUME NEW d \in Callers
        PROVE  ClaimSound(d)'
    <3>1. CASE d = c
      BY <1>c, <2>3, <3>1 DEF Priced
    <3>2. CASE d # c
      <4>1. session[d].at \in Priced => session[d].user \in Users /\ session[d].user # u
        <5>1. session[d].at \in Priced => cartLock[session[d].user] = d
          BY DEF LocksSound, Priced, Checking
        <5>2. cartLock[u] = c
          BY <2>3 DEF LocksSound, Checking
        <5> QED BY <1>0, <3>2, <5>1, <5>2, SessionFields DEF Priced, Checking
      <4>2. session'[d] = session[d]
        BY <2>3, <3>2 DEF OnlySession
      <4> HIDE DEF u, items
      <4> QED BY <1>0, <1>a, <2>2, <2>3, <4>1, <4>2
    <3> QED BY <3>1, <3>2
  <2> QED BY <2>6, <2>7 DEF BoughtInv, NothingBoughtTwice
<1>9. ASSUME NEW c \in Callers, CallFails(c) PROVE BoughtInv'
  <2>1. OnlySession(c) /\ session'[c].at = "rest"
    BY <1>0, <1>9, SessionMoves DEF CallFails, Resting
  <2>2. \A d \in Callers, o \in Orders : ~PlaceOrder(d, o)
    BY <1>9, Committed DEF CallFails, orderVars
  <2> QED BY <1>9, <1>b, <1>c, <2>1, <2>2 DEF CallFails, Priced
<1>10. ASSUME NEW p \in unsent, OrderPublishes(p) PROVE BoughtInv'
  <2>1. /\ UNCHANGED <<cart, chosen, session>>
        /\ \A u, v : Bought(u, v)' = Bought(u, v)
    BY <1>10 DEF OrderPublishes, PublishOrderEvent, cartVars, Bought, OrdersOf, OrderExists
  <2> QED BY <1>0, <2>1 DEF BoughtInv, NothingBoughtTwice, ClaimSound
<1> QED
  BY <1>0, <1>1, <1>2, <1>3, <1>4, <1>5, <1>6, <1>7, <1>8, <1>9, <1>10 DEF Next, Proceeds

-----------------------------------------------------------------------------
(* The theorems.                                                            *)

\* The invariants hold at the start.
LEMMA CartInit ==
  Init => TypeOK /\ LocksSound /\ UsesAreCounted /\ CountedNearLimit /\ BoughtInv
<1> SUFFICES ASSUME Init
             PROVE  TypeOK /\ LocksSound /\ UsesAreCounted /\ CountedNearLimit /\ BoughtInv
  OBVIOUS
<1>1. /\ \A c \in Callers : session[c].at = "rest"
      /\ \A o \in Orders : ~OrderExists(o)
      /\ couponLock = NoCaller /\ couponUses = 0 /\ chosen = cart
      /\ cart \in [Users -> Items]
  <2>1. {0} \cup Quantities \subseteq Nat
    BY Amounts
  <2>2. [Variants -> {0} \cup Quantities] \subseteq Items
    BY <2>1 DEF Items
  <2>3. cart \in [Users -> Items]
    BY <2>2 DEF Init
  <2> QED BY <2>3 DEF Init, OrderInit, OrderExists, Resting
<1>2. TypeOK
  <2>1. OrderTyped
    BY OrderInitType DEF Init
  <2>2. SessionTyped
    BY DEF Init, SessionTyped
  <2>3. LockTyped /\ CartTyped /\ ReceiptTyped
    BY <1>1, Amounts DEF Init, LockTyped, CartTyped, ReceiptTyped
  <2> QED BY <2>1, <2>2, <2>3, Parts
<1>3. LocksSound
  BY <1>1, CallerAssumption DEF LocksSound, Checking
<1>4. UsesAreCounted
  BY <1>1, FS_EmptySet DEF UsesAreCounted
<1>5. CountedNearLimit
  <2>1. Counting = {}
    BY <1>1, CallerAssumption DEF Counting, At
  <2> QED BY <1>1, <2>1, FS_EmptySet, FewestNat, Amounts DEF CountedNearLimit
<1>6. BoughtInv
  <2>1. ASSUME NEW u \in Users, NEW v \in Variants
        PROVE  Bought(u, v) + cart[u][v] <= chosen[u][v]
    <3>1. OrdersOf(u) = {}
      BY <1>1 DEF OrdersOf
    <3>2. \A f : SumOf(f, {}) = 0
      BY SumEmpty
    <3>3. Bought(u, v) = 0
      BY <3>1, <3>2 DEF Bought
    <3>4. cart[u][v] \in Nat
      BY <1>1 DEF Items
    <3> QED BY <1>1, <3>3, <3>4
  <2> QED BY <1>1, <2>1 DEF BoughtInv, NothingBoughtTwice, ClaimSound, Priced
<1> QED BY <1>2, <1>3, <1>4, <1>5, <1>6

\* The carts, the locks, the coupon and the calls keep their types.
THEOREM CartTypeOK == Spec => []TypeOK
BY CartInit, CartTypeStep, PTL DEF Spec

\* A checkout holds its customer's carts row throughout, and nobody else does.
THEOREM CartLocksHeld == Spec => []LocksSound
BY CartInit, LocksStep, CartTypeOK, PTL DEF Spec

\* Each discount given is counted once, whoever else increments the coupon and
\* whichever checkouts fail.
THEOREM EveryUseCounted == Spec => []UsesAreCounted
BY CartInit, CountStep, CartTypeOK, PTL DEF Spec

\* A coupon is never used more often than its limit by as many times as there are
\* customers, or goroutines, whichever are fewer.
THEOREM CouponOverrunBounded == Spec => []UsesNearLimit
<1>1. TypeOK /\ CountedNearLimit => UsesNearLimit
  <2>1. Counting \in SUBSET Callers
    BY DEF Counting
  <2>2. IsFiniteSet(Counting) /\ Cardinality(Counting) \in Nat
    BY <2>1, Amounts, FS_Subset, FS_CardinalityType
  <2>3. ASSUME TypeOK, CountedNearLimit
        PROVE  couponUses < MaxUses + Fewest
    <3>1. couponUses \in Nat /\ MaxUses \in Nat /\ Fewest \in Nat
      BY <2>3, Amounts, FewestNat DEF TypeOK
    <3> QED BY <2>2, <2>3, <3>1 DEF CountedNearLimit
  <2> QED BY <2>3 DEF UsesNearLimit, Fewest
<1> QED BY <1>1, CartInit, NearLimitStep, CartTypeOK, CartLocksHeld, PTL DEF Spec

\* No unit put into a cart is bought twice.
THEOREM NoUnitBoughtTwice == Spec => []NothingBoughtTwice
<1>1. BoughtInv => NothingBoughtTwice
  BY DEF BoughtInv
<1> QED BY <1>1, CartInit, BoughtStep, CartTypeOK, CartLocksHeld, PTL DEF Spec
=============================================================================
