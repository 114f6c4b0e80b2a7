SPECIFICATION StreamFairSpec
CONSTANTS
  Last = 2
  Workers = {w1, w2}
  Prefetch = 2
  MaxDrops = 1
  MaxDiscards = 1
  None = None
INVARIANTS
  NothingSkipped
PROPERTIES
  EveryEntryRead
CHECK_DEADLOCK FALSE
