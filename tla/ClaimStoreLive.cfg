CONSTANTS
  Tasks = {t1}
  Pids = {p1, p2}
  Desktops = {2, 3}
  NoTask = NoTask
  NoPid = NoPid
  Ttl = 0
  MaxClock = 1
  MaxTokens = 1
  MaxStarts = 3
SPECIFICATION FairSpec
PROPERTY CallsReturn OrphansAreFreed
CHECK_DEADLOCK FALSE
