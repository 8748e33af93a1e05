SPECIFICATION PayoutSpec
CONSTANTS
  MaxEntries = 3
  MaxNet = 4
  MaxFee = 3
INVARIANTS
  
  
  
  FeeIsFair
  OldestFirst
CHECK_DEADLOCK FALSE
