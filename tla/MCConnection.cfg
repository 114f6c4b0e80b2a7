SPECIFICATION ConnFairSpec
CONSTANTS
  Consumers = {c1, c2}
  Concurrency = 2
  AppMayClose = TRUE
  LateStart = TRUE

  
PROPERTIES
  TransportLast
  CloseReturns
CHECK_DEADLOCK FALSE
