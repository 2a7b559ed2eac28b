SPECIFICATION FairSpec
CONSTANTS
  MaxBlocks = 3
  MaxFailures = 1
CHECK_DEADLOCK FALSE
INVARIANTS
  WellFormed
  ResultsAnswerCalls
PROPERTIES
  TurnEnds
