SPECIFICATION Spec
CONSTANTS
  plan = plan
  implement = implement
  Ids = {plan, implement}
  MaxAttempts = 2
  MaxMishaps = 1
INVARIANTS
  TypeOK
  NoWorkLost
  OnlyGatedWork
  IntegratedIsInHead
  NothingOfferedTwice
  CleanTreesAreRemoved
SYMMETRY Swaps
