CONSTANTS
  Ids = {a, b}
  Procs = {p1, p2}
  NoId = NoId
  MaxTokens = 2
SPECIFICATION Spec
INVARIANT CompletionsAreRemembered
CHECK_DEADLOCK FALSE
