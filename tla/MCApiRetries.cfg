SPECIFICATION FairSpec
CONSTANTS
  MaxRetries = 2
  MaxContext = 1
  MaxTurns = 2
CHECK_DEADLOCK FALSE
INVARIANTS
  WellFormed
  RequestsComplete
PROPERTIES
  LoopSettles
