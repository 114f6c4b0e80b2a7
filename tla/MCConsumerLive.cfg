SPECIFICATION FairSpec
CONSTANTS
  Msgs = {m1, m2}
  Garbled = {m2}
  Copies = {1, 2, 3, 4}
  Workers = {w1}
  Prefetch = 2
  Policy <- RungPolicy
  Declare = TRUE
  Answers = {"accept", "in_progress", "stop", "retry"}
  Escapes = FALSE
  MaxFaults = 1
  None = None
PROPERTIES
  Promise
  CloseCompletes
CHECK_DEADLOCK FALSE
