SPECIFICATION FairSpec
CONSTANTS
  w1 = w1 w2 = w2 t = t
  Window = {w1, w2}
  Task = {t}
  Nobody = Nobody
  MaxOps = 2
  MaxFaults = 1
CHECK_DEADLOCK FALSE
INVARIANTS
  WellFormed
  FileHoldsLastWrites
PROPERTIES
  TransactionsAreAtomic
  CacheCatchesUp
