SPECIFICATION Spec
CONSTANTS
  MaxBlocks = 3
  MaxFailures = 1
CHECK_DEADLOCK FALSE
INVARIANTS
  ValidResultsKept
