SPECIFICATION FairSpec
CONSTANTS
  Orders = {o1}
  Txns = {x1}
  Refunds = {}
  Callers = {c1}
  NoOrder = NoOrder
  NoTxn = NoTxn
  NoRefund = NoRefund
  Price = 1
  MaxAttempts = 1
  FaultKinds = {"crash", "lookup", "relay"}
  MaxFaults = 1
  MaxLookups = 0
  MaxWebhooks = 1
PROPERTIES
  EventsAreAnnounced
  
CHECK_DEADLOCK FALSE
