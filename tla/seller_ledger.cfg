SPECIFICATION FairSpec
CONSTANTS
  Orders = {o1}
  Sellers = {s1}
  Callers = {c1, c2}
  NoOrder = NoOrder
  Totals = {1}
  SaleNet = 3
  SaleFee = 1
  Amounts = {1, 2}
  ItemStatuses = {"delivered", "cancelled"}
  MaxNews = 1
  MaxUpdates = 2
  MaxCalls = 2
  MaxFaults = 0
INVARIANTS
  TypeOK
  LedgerNeverShort
PROPERTIES
  ConfirmedIsEscrowed
  DeliveryFrees
CHECK_DEADLOCK FALSE
