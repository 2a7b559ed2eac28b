SPECIFICATION FairSpec
CONSTANTS
  w1 = w1 w2 = w2 w3 = w3
  f1 = f1 f2 = f2 local = local cloud = cloud
  Unset = Unset
  Waiter = {w1, w2, w3}
  Profile = {local, cloud}
  FanOut = {f1, f2}
  SlotRequests <- MCSlotRequests
CHECK_DEADLOCK FALSE
INVARIANTS
  BookInv
  LimitsHold
  NoIdleSlot
PROPERTIES
  FirstFittingServed
  AbortedNeverGranted
  AllocationSpec
  EveryWaiterServed
