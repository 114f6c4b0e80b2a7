SPECIFICATION FairSpec
CONSTANTS
  t1 = t1
  t2 = t2
  k1 = k1
  NoKey = NoKey
  None = None
  Messages <- MCMessages
  KeyOf <- MCKeyOf
  Tasks <- MCTasks
  Shapes <- MCShapes
  Size = 2
  Prefetch = 2
  PoolSize = 1
  SagaLength = 4
  Compensable = {2, 3}
  MaxAttempts = 2
INVARIANTS
  OneOfAKey
  SagaUndone
PROPERTIES
  EveryMessageSettled
  CloseReturns
CHECK_DEADLOCK FALSE
