SPECIFICATION TopologySpec
CONSTANTS
  Services = {s1, s2}
  Settings <- MCSettings
  Second = 4
  Milli = 2
  MaxDelta = 100
  MaxFailures = 1
INVARIANTS
  RungsKeepTime
  AgreementIsEnough
CHECK_DEADLOCK FALSE
