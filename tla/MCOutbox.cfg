CONSTANTS
  Records = {1, 2, 3}
  Refused = {2}
  Sweepers = {relay, flush}
  Relay = relay
  Batch = 2
  MaxAttempts = 2
  MaxFaults = 1
  MaxStarts = 2
SPECIFICATION FairSpec
INVARIANTS
  NothingLost
  TwiceOnlyIfDisturbed
PROPERTIES
  WrittenOrder
  EveryRecordLeaves
CHECK_DEADLOCK FALSE
