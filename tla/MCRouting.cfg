SPECIFICATION FairSpec
CONSTANTS
  r1 = r1
  r2 = r2
  Runs = {r1, r2}
  LastStop = 2
  Setups <- MCSetups
  MaxAttempts = 2
  Limit = 2
  MaxPasses = 1
  MaxFaults = 1
  MaxCount = 9
  None = None
  Foreign <- MCForeign
  AppNames <- MCAppNames
  Empty = ""
  Default = "message"
  Numerals <- MCNumerals
  Instants <- MCInstants
  Shown <- MCShown
INVARIANTS
  RunKept
  RepeatsEarned
PROPERTIES
  EveryRunEnds
CHECK_DEADLOCK FALSE
