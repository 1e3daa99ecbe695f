CONSTANTS
  Ids = {a, b}
  Procs = {p1, p2}
  NoId = NoId
  MaxTokens = 2
SYMMETRY Symmetry
SPECIFICATION Spec
INVARIANT TypeOK GraphIsAcyclic DoneWasReported UndisturbedWritesStay
CHECK_DEADLOCK FALSE
