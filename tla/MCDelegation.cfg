SPECIFICATION FairSpec
CONSTANTS
  A = A B = B
  None = None
  Task <- Pair
  Root = A
  MaxRestarts = 1
  Hurried <- Careful
CHECK_DEADLOCK FALSE
INVARIANTS
  WellFormed
  ResultAnswersOpenCall
  AwaitedChildAlive
  NotBesideChild
  ReturnedNotAwaited
  CompletedIsReturned
PROPERTIES
  ReattachOnlyFrozen
  EveryOperationEnds
