SPECIFICATION Spec
CONSTANTS
  Orders = {o1}
  Sellers = {s1}
  Callers = {c1, c2}
  NoOrder = NoOrder
  Totals = {1}
  SaleNet = 2
  SaleFee = 1
  Amounts = {2}
  ItemStatuses = {"delivered"}
  MaxNews = 1
  MaxUpdates = 1
  MaxCalls = 2
  MaxFaults = 0
INVARIANT PayoutBacked
CHECK_DEADLOCK FALSE
