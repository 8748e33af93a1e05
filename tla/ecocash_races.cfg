SPECIFICATION Spec
CONSTANTS
  Orders = {o1}
  Txns = {x1}
  Refunds = {r1}
  Callers = {c1, c2}
  NoOrder = NoOrder
  NoTxn = NoTxn
  NoRefund = NoRefund
  Price = 1
  MaxAttempts = 1
  FaultKinds = {"crash", "cut", "lookup", "sum"}
  MaxFaults = 1
  MaxLookups = 0
  MaxWebhooks = 1
SYMMETRY Symmetry
INVARIANTS
  TypeOK
  SuccessWasPaid
  MarkedWasAnnounced
PROPERTY ImplementsChargeLife
CHECK_DEADLOCK FALSE
