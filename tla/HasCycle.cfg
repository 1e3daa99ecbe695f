CONSTANTS
  Ids = {a, b, c}
  Deps <- MCDeps
SPECIFICATION Spec
INVARIANT NoUnderflow AnswerIsRight
CHECK_DEADLOCK FALSE
