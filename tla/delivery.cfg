SPECIFICATION FairSpec
CONSTANTS
  Deliveries = {d1}
  Couriers = {k1, k2}
  Stations = {s1}
  Callers = {g1, g2}
  NoDelivery = NoDelivery
  NoCourier = NoCourier
  NoStation = NoStation
  Reports = {"picked_up", "delivered"}
  MaxCalls = 3
  FaultKinds = {"redis", "db", "call", "crash"}
INVARIANTS
  TypeOK
  CountMatches
  OneCarrier
  CourierAccepted
  PaidAccepted
PROPERTY DispatchResolves
CHECK_DEADLOCK FALSE
