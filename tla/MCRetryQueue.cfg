SPECIFICATION FairSpec
CONSTANTS
  MaxRetries = 2
  MaxQueueSize = 2
  anna = anna ben = ben
  User = {anna, ben}
  NoUser = NoUser
  MaxRequests = 3
  MaxEvents = 2
CHECK_DEADLOCK FALSE
INVARIANTS
  WellFormed
  AttemptsBounded
PROPERTIES
  QueueDrains
