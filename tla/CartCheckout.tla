----------------------------- MODULE CartCheckout -----------------------------
(***************************************************************************)
(* order-service's carts and coupons, and the whole of Checkout: the call    *)
(* whose commit is OrderService's Checkout.                                 *)
(*                                                                         *)
(* Checkout is one transaction at READ COMMITTED.  Its first statement,       *)
(* GetOrCreateCart, is an upsert that updates the carts row and so locks it    *)
(* until the transaction ends; its increment of a coupon locks the coupons     *)
(* row.  The edits of a cart run the same upsert on its own, which waits for    *)
(* the lock and keeps none, and then write cart_items in a second statement.   *)
(***************************************************************************)
EXTENDS OrderService, FiniteSets, Sums

CONSTANTS
  Users,
  Variants,
  Callers,      \* goroutines serving gRPC calls
  NoCaller,     \* the holder of a row that is not locked
  Quantities,   \* quantities asked for; the column's CHECK refuses others
  UnitPrice, ShippingFee, Discount, MinOrderValue,   \* in cents
  MaxUses,      \* coupons.max_uses of the one coupon
  MaxCalls      \* calls in one behaviour

ASSUME CallerAssumption   == NoCaller \notin Callers
ASSUME QuantityAssumption == Quantities \subseteq Nat \ {0}
ASSUME MoneyAssumption    ==
  {UnitPrice, ShippingFee, Discount, MinOrderValue, MaxUses, MaxCalls} \subseteq Nat
ASSUME FiniteAssumption   ==
  /\ \A S \in {Orders, Users, Variants, Callers} : IsFiniteSet(S)
  /\ Users # {} /\ Callers # {}

VARIABLES
  cart,         \* cart_items: the quantity of each variant, 0 for no row
  cartLock,     \* the call whose transaction holds a user's carts row
  couponUses,   \* coupons.used_count, as committed
  couponLock,   \* the call whose increment of it is not committed yet
  session,      \* what each goroutine is doing
  receipt,      \* order_items and the discount of each order
  chosen,       \* history: units ever put into a cart, by user and variant
  calls         \* how many calls were made

cartVars == <<cart, cartLock, couponUses, couponLock, session, receipt, chosen, calls>>
vars == <<orderVars, nats, cartVars>>

Items == [Variants -> Nat]
Nothing == [v \in Variants |-> 0]

\* AddToCart, UpdateCartItem, RemoveCartItem and ClearCart.
Change ==
  [op: {"add", "update"}, variant: Variants, quantity: Quantities]
    \cup [op: {"remove"}, variant: Variants]
    \cup [op: {"clear"}]

\* read      Checkout holds the carts row
\* price     ... has read its items, which are not empty
\* count     ... will give a discount, and increments the coupon first
\* create    ... inserts the order and its items and clears the cart
\* edit      an edit has found the cart
Session ==
  [at: {"edit"}, user: Users, change: Change]
    \cup [at: {"read", "price", "count", "create"}, user: Users, coupon: BOOLEAN,
          items: Items]

Resting == [at |-> "rest"]

Receipt == [user: Users, items: Items, discounted: BOOLEAN]
NoReceipt == Resting   \* of an order that was not placed

TypeOK ==
  /\ OrderTypeOK
  /\ nats \in NatsType
  /\ cart \in [Users -> Items]
  /\ cartLock \in [Users -> Callers \cup {NoCaller}]
  /\ couponUses \in Nat
  /\ couponLock \in Callers \cup {NoCaller}
  /\ session \in [Callers -> Session \cup {Resting}]
  /\ receipt \in [Orders -> Receipt \cup {NoReceipt}]
  /\ \A o \in Orders : OrderExists(o) => receipt[o] \in Receipt
  /\ chosen \in [Users -> Items]
  /\ calls \in 0..MaxCalls

\* The carts hold what was put into them by earlier calls.
Init ==
  /\ OrderInit
  /\ NatsInit
  /\ cart \in [Users -> [Variants -> {0} \cup Quantities]]
  /\ cartLock = [u \in Users |-> NoCaller]
  /\ couponUses = 0
  /\ couponLock = NoCaller
  /\ session = [c \in Callers |-> Resting]
  /\ receipt = [o \in Orders |-> NoReceipt]
  /\ chosen = cart
  /\ calls = 0

At(c, stage) == session[c].at = stage
Goes(c, stage) == session' = [session EXCEPT ![c].at = stage]
Rests(c) == session' = [session EXCEPT ![c] = Resting]

Begins(c, what) ==
  /\ At(c, "rest")
  /\ calls < MaxCalls
  /\ calls' = calls + 1
  /\ session' = [session EXCEPT ![c] = what]

\* COMMIT or ROLLBACK: the locks of the transaction are released.
Releases(c) ==
  /\ cartLock' = [u \in Users |-> IF cartLock[u] = c THEN NoCaller ELSE cartLock[u]]
  /\ couponLock' = IF couponLock = c THEN NoCaller ELSE couponLock

-----------------------------------------------------------------------------
(* The edits of a cart.                                                     *)

BeginEdit(c, u, change) ==
  /\ cartLock[u] = NoCaller
  /\ Begins(c, [at |-> "edit", user |-> u, change |-> change])
  /\ UNCHANGED <<orderVars, nats, cart, cartLock, couponUses, couponLock, receipt, chosen>>

\* An update or a removal names a row by its id: if that row is gone, even if
\* another row of the variant took its place, nothing changes.
Edited(items, change) ==
  CASE change.op = "add" ->
         {[items EXCEPT ![change.variant] = @ + change.quantity]}
    [] change.op = "update" ->
         {items} \cup {[items EXCEPT ![v] = change.quantity] :
                         v \in {change.variant} \cap {w \in Variants : items[w] > 0}}
    [] change.op = "remove" -> {items, [items EXCEPT ![change.variant] = 0]}
    [] OTHER -> {Nothing}

\* The second statement of an edit, whether or not a checkout has begun.
WriteCart(c) ==
  LET u == session[c].user IN
  /\ At(c, "edit")
  /\ \E items \in Edited(cart[u], session[c].change) :
       /\ cart' = [cart EXCEPT ![u] = items]
       /\ chosen' = [chosen EXCEPT ![u] = [v \in Variants |->
                       IF items[v] > cart[u][v] THEN @[v] + items[v] - cart[u][v] ELSE @[v]]]
  /\ Rests(c)
  /\ UNCHANGED <<orderVars, nats, cartLock, couponUses, couponLock, receipt, calls>>

-----------------------------------------------------------------------------
(* Checkout.                                                                *)

\* Fault for mutation: the cart is looked up without being written.
BeginCheckoutUnlocked(c, u, coupon) ==
  /\ Begins(c, [at |-> "read", user |-> u, coupon |-> coupon, items |-> Nothing])
  /\ UNCHANGED <<orderVars, nats, cart, cartLock, couponUses, couponLock, receipt, chosen>>

\* coupon: the code given is one whose promotion is running.
BeginCheckout(c, u, coupon) ==
  /\ cartLock[u] = NoCaller
  /\ Begins(c, [at |-> "read", user |-> u, coupon |-> coupon, items |-> Nothing])
  /\ cartLock' = [cartLock EXCEPT ![u] = c]
  /\ UNCHANGED <<orderVars, nats, cart, couponUses, couponLock, receipt, chosen>>

\* GetCartItems; an empty cart is refused.
ReadCart(c) ==
  LET items == cart[session[c].user] IN
  /\ At(c, "read")
  /\ IF items = Nothing
     THEN Rests(c) /\ Releases(c)
     ELSE /\ session' = [session EXCEPT ![c].at = "price", ![c].items = items]
          /\ UNCHANGED <<cartLock, couponLock>>
  /\ UNCHANGED <<orderVars, nats, cart, couponUses, receipt, chosen, calls>>

Subtotal(items) == UnitPrice * SumOf(items, Variants)

\* Fault for mutation: the last use is given twice.
CouponAppliesOnceMore(items) == Subtotal(items) >= MinOrderValue /\ couponUses <= MaxUses

CouponApplies(items) == Subtotal(items) >= MinOrderValue /\ couponUses < MaxUses

\* Fault for mutation: a discount bigger than all there is to pay.
OrderTotalUnfloored(items, discounted) ==
  Subtotal(items) + ShippingFee - (IF discounted THEN Discount ELSE 0)

\* A discount may be bigger than all there is to pay.
OrderTotal(items, discounted) ==
  LET full == Subtotal(items) + ShippingFee IN
  IF ~discounted THEN full
  ELSE IF full > Discount THEN full - Discount ELSE 0

\* The prices are fetched, then the coupon is read, without a lock.
PriceItems(c) ==
  /\ At(c, "price")
  /\ Goes(c, IF session[c].coupon /\ CouponApplies(session[c].items)
             THEN "count" ELSE "create")
  /\ UNCHANGED <<orderVars, nats, cart, cartLock, couponUses, couponLock, receipt, chosen,
                 calls>>

\* Fault for mutation: the increment is not part of the transaction, and stays
\* when the checkout fails.
IncrementCouponUsesAtOnce(c) ==
  /\ At(c, "count")
  /\ couponLock = NoCaller
  /\ couponUses' = couponUses + 1
  /\ Goes(c, "create")
  /\ UNCHANGED <<orderVars, nats, cart, cartLock, couponLock, receipt, chosen, calls>>

\* used_count = used_count + 1 waits for whoever else increments it, and then
\* adds to the value that one committed.
IncrementCouponUses(c) ==
  /\ At(c, "count")
  /\ couponLock = NoCaller
  /\ couponLock' = c
  /\ Goes(c, "create")
  /\ UNCHANGED <<orderVars, nats, cart, cartLock, couponUses, receipt, chosen, calls>>

\* The order and its items are inserted, the cart is cleared of all that is in
\* it by now, and the transaction commits; then the order is published.
PlaceOrder(c, o) ==
  LET u          == session[c].user
      items      == session[c].items
      discounted == couponLock = c
  IN
  /\ At(c, "create")
  /\ Checkout(o, OrderTotal(items, discounted), "none")
  /\ receipt' = [receipt EXCEPT ![o] =
                   [user |-> u, items |-> items, discounted |-> discounted]]
  /\ cart' = [cart EXCEPT ![u] = Nothing]
  /\ couponUses' = IF discounted THEN couponUses + 1 ELSE couponUses
  /\ Rests(c)
  /\ Releases(c)
  /\ UNCHANGED <<chosen, calls>>

\* product-service or seller-service does not answer or lacks a variant, the
\* call's time is up, or the process dies: the transaction rolls back.
CallFails(c) ==
  /\ ~At(c, "rest")
  /\ Rests(c)
  /\ Releases(c)
  /\ UNCHANGED <<orderVars, nats, cart, couponUses, receipt, chosen, calls>>

OrderPublishes(p) == PublishOrderEvent(p) /\ UNCHANGED cartVars

-----------------------------------------------------------------------------

Proceeds(c) ==
  \/ WriteCart(c)
  \/ ReadCart(c)
  \/ PriceItems(c)
  \/ IncrementCouponUses(c)
  \/ \E o \in Orders : PlaceOrder(c, o)

Next ==
  \/ \E c \in Callers, u \in Users, change \in Change : BeginEdit(c, u, change)
  \/ \E c \in Callers, u \in Users, coupon \in BOOLEAN : BeginCheckout(c, u, coupon)
  \/ \E c \in Callers : Proceeds(c) \/ CallFails(c)
  \/ \E p \in unsent : OrderPublishes(p)

Spec == Init /\ [][Next]_vars

-----------------------------------------------------------------------------

OrdersOf(u) == {o \in Orders : OrderExists(o) /\ receipt[o].user = u}

Bought(u, v) == SumOf([o \in OrdersOf(u) |-> receipt[o].items[v]], OrdersOf(u))

\* No unit is bought twice: not by two checkouts of one cart at a time, nor by
\* one that is tried again, nor when the cart is edited under it.  What is in
\* the cart after a checkout was put there since.
NothingBoughtTwice ==
  \A u \in Users, v \in Variants : Bought(u, v) + cart[u][v] <= chosen[u][v]

\* Each discount given is counted, and only those: increments of concurrent
\* checkouts are not lost, and those of checkouts that fail are undone.
UsesAreCounted ==
  couponUses = Cardinality({o \in Orders : OrderExists(o) /\ receipt[o].discounted})

\* The check of max_uses is not atomic with the increment, but the checkouts of
\* one customer wait for each other: the limit is overrun by less than there are
\* customers, and calls at a time, and kept when there is one of either.
UsesNearLimit ==
  couponUses < MaxUses + Min({Cardinality(Users), Cardinality(Callers)})
=============================================================================
