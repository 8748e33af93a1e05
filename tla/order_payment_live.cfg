SPECIFICATION FairSpec
CONSTANTS
  Orders = {o1}
  Sellers = {s1}
  Payments = {p1, p2}
  Rpc = {r1}
  NoPayment = NoPayment
  NoOrder = NoOrder
  Totals = {0, 1}
  MaxFaults = 0
  MaxUpdates = 0
PROPERTIES
  TokenCheckoutResolves
  ChargedOrderConfirmed
CHECK_DEADLOCK FALSE
