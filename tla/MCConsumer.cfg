SPECIFICATION Spec
CONSTANTS
  Msgs = {m1}
  Garbled = {}
  Copies = {1, 2, 3}
  Workers = {w1, w2}
  Prefetch = 2
  Policy <- RungPolicy
  Declare = TRUE
  Answers = {"accept", "reject", "park", "in_progress", "stop", "fatal", "retry", "not_an_ack"}
  Escapes = TRUE
  MaxFaults = 2
  None = None
SYMMETRY Interchangeable
INVARIANTS
  NoLoss
  SettledOnce
  AttemptsAreFailures
  ExactlyOnceUndisturbed
CHECK_DEADLOCK FALSE
