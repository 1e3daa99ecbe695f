CONSTANTS
  Tasks = {t1}
  Pids = {p1, p2}
  Desktops = {1, 2, 3}
  NoTask = NoTask
  NoPid = NoPid
  Ttl = 1
  MaxClock = 2
  MaxTokens = 2
  MaxStarts = 3
SYMMETRY Symmetry
SPECIFICATION Spec
INVARIANT TypeOK NoLostUpdate RecordsAreLeases OneAcquirer
PROPERTY EndingsAreFinal LiveHolderSpared ImplementsLease
CHECK_DEADLOCK FALSE
