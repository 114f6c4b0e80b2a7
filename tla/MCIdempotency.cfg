CONSTANTS
  w1 = w1
  w2 = w2
  n1 = n1
  n2 = n2
  m1 = m1
  m2 = m2
  k1 = k1
  Workers = {w1, w2}
  Nodes = {n1, n2}
  NodeOf <- OwnProcess
  NoNode = NoNode
  Messages = {m1, m2}
  Keys = {k1}
  KeyOf <- OneKey
  NoMessage = NoMessage
  Kinds = {"sql", "memory"}
  ClaimTimeout = 2
  Retention = 3
  MaxAttempts = 2
  MaxStall = 1
  MaxFaults = 1
SPECIFICATION FairSpec
INVARIANTS
  NothingLost
  TwiceOnlyIfLapsed
  Exclusive
PROPERTIES
  ConfirmationStands
  EverySettled
CHECK_DEADLOCK FALSE
