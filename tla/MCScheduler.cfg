SPECIFICATION FairSpec
CONSTANTS
  Messages = {m1, m2}
  Foreign = {f1}
  Schedulers = {s1}
  App = App
  Rungs = {2, 4}
  RetryRung = 4
  Prefetch = 2
  MaxDelay = 7
  MaxSlack = 1
  MaxFaults = 1
  None = None
INVARIANTS
  KeptUntilSent
  OnTime
PROPERTIES
  EveryMessageArrives
CHECK_DEADLOCK FALSE
