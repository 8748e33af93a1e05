SPECIFICATION Spec
CONSTANTS
  Orders = {o1}
  Sellers = {s1}
  Callers = {c1}
  NoOrder = NoOrder
  Totals = {1}
  SaleNet = 3
  SaleFee = 1
  Amounts = {1, 2}
  ItemStatuses = {"delivered", "cancelled", "shipped"}
  MaxNews = 2
  MaxUpdates = 2
  MaxCalls = 3
  MaxFaults = 1
INVARIANTS
  EscrowHolds
  
CHECK_DEADLOCK FALSE
