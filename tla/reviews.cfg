SPECIFICATION FairSpec
CONSTANTS
  Orders = {o1}
  NumItems = 2
  Callers = {g1, g2}
  Ratings = {2, 4}
  MaxCalls = 3
  MaxFaults = 1
INVARIANTS
  TypeOK
  ProcessedIsReviewed
  DefaultIsFinal
PROPERTIES
  ImplementsRatingLife
  DueIsProcessed
CHECK_DEADLOCK FALSE
