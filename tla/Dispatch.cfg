SPECIFICATION FairSpec
CONSTANTS
  Requests = {"r1", "r2"}
  Binaries = {"claude"}
  binary_key <- SameBinary
  MaxLines <- LinesOf
  Capacity = 1
INVARIANTS
  TypeOK
  OnePerBinary
  StreamIsOutput
PROPERTIES
  DispatchReturns
CHECK_DEADLOCK FALSE
