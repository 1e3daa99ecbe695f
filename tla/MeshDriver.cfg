CONSTANTS
  Areas <- TwoAreas
  Binaries <- TwoBinaries
  Preferred = "codex"
  NoBinary = "none"
  Capacity = 1
  MaxTicks = 4
  MaxTokens = 3
  MaxForeign = 1
  MaxFaults = 1
SPECIFICATION FairSpec
INVARIANT TypeOK SingleDriver DependencyOrder NoLeakedClaim
PROPERTY NeverRedispatched RunEnds Drains
CHECK_DEADLOCK FALSE
