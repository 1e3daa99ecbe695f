CONSTANTS
  Areas <- NoAreas
  Binaries <- OneBinary
  Preferred = "none"
  NoBinary = "none"
  Capacity = 1
  MaxTicks = 3
  MaxTokens = 2
  MaxForeign = 1
  MaxFaults = 0
SPECIFICATION Spec
INVARIANT StaleResultsAreDropped
CHECK_DEADLOCK FALSE
