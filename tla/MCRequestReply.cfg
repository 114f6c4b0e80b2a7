SPECIFICATION FairSpec
CONSTANTS
  Calls = {c1, c2}
  Mute = {m1}
  MaxTries = 2
  MaxFaults = 1
  None = None
INVARIANTS
  EveryReplyAccounted
  ToldOrOwed
PROPERTIES
  CloseEndsCalls
CHECK_DEADLOCK FALSE
