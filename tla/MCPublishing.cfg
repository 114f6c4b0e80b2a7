SPECIFICATION FairSpec
CONSTANTS
  Publishes = {p1, p2, p3}
  Batch = {p1, p2}
  MaxOutstanding = 1
  MaxAlarms = 1
  MaxDrops = 1
  MaxChecks = 1
INVARIANTS
  PermitsConserved
  ToldTheTruth
  BatchTold
PROPERTIES
  HealthTellsTheTruth
  EveryCallEnds
CHECK_DEADLOCK FALSE
