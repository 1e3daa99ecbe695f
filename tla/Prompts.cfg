SPECIFICATION Spec
CONSTANTS
  r1 = r1
  r2 = r2
  r3 = r3
  Requests = {r1, r2, r3}
  MaxCrashes = 1
  MaxFaults = 1
CONSTRAINT Few
SYMMETRY Swaps
INVARIANTS
  TypeOK
  SurvivesRestart
  TakenForGood
CHECK_DEADLOCK FALSE
