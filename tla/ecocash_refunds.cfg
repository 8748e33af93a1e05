SPECIFICATION Spec
CONSTANTS
  Orders = {o1}
  Txns = {x1}
  Refunds = {r1, r2}
  Callers = {c1}
  NoOrder = NoOrder
  NoTxn = NoTxn
  NoRefund = NoRefund
  Price = 2
  MaxAttempts = 2
  FaultKinds = {"crash"}
  MaxFaults = 1
  MaxLookups = 1
  MaxWebhooks = 0
SYMMETRY Symmetry
INVARIANT RefundsWithinCharge
CHECK_DEADLOCK FALSE
