SPECIFICATION Spec
CONSTANTS
  Orders = {o1}
  Sellers = {s1}
  Payments = {p1, p2}
  Rpc = {r1}
  NoPayment = NoPayment
  NoOrder = NoOrder
  Totals = {0, 1}
  MaxFaults = 1
  MaxUpdates = 1
SYMMETRY Symmetry
INVARIANTS
  TypeOK
  ConfirmedWasCharged
  RefundedWasCharged
  ChargeNotForgotten
PROPERTY
  ImplementsSettlement
CHECK_DEADLOCK FALSE
