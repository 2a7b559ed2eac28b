SPECIFICATION FairSpec
CONSTANTS
  a = a b = b
  Subagent = {a, b}
  FanOut = {1, 2}
  FanOutOf <- TwoFanOuts
  MaxInstances = 2
  MaxUserMessages = 1
CHECK_DEADLOCK FALSE
INVARIANTS
  WellFormed
  NeverTwice
  NoLostWakeup
  RestingGetsResults
  CompletesAfterItsSubagents
PROPERTIES
  DroppedOnlyWithItsAsk
  WaitEnds
  RestingGoesOn
