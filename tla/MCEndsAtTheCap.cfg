SPECIFICATION Spec
CONSTANTS
  MaxRetries = 2
  MaxContext = 0
  MaxTurns = 1
CHECK_DEADLOCK FALSE
INVARIANTS
  EndsAtTheCap
