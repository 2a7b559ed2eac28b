SPECIFICATION FairSpec
CONSTANTS
  s1 = s1 s2 = s2 f = f g = g local = local cloud = cloud
  Unset = Unset
  Subtask = {s1, s2}
  FanOut = {f, g}
  SlotRequests <- MCSlotRequests
CHECK_DEADLOCK FALSE
INVARIANTS
  SlotsMatchChildren
  NoOrphanedChild
  RowMatchesResult
PROPERTIES
  SubtasksEnd
