SPECIFICATION Spec
CONSTANTS
  Orders = {o1, o2, o3}
  Sellers = {s1}
  Totals = {}
  Users = {u1, u2}
  Variants = {v1}
  Callers = {c1, c2, c3}
  NoCaller = NoCaller
  Quantities = {1, 2}
  UnitPrice = 1
  ShippingFee = 1
  Discount = 4
  MinOrderValue = 2
  MaxUses = 1
  MaxCalls = 4
SYMMETRY Symmetry
INVARIANTS
  TypeOK
  NothingBoughtTwice
  UsesAreCounted
  UsesNearLimit
CHECK_DEADLOCK FALSE
