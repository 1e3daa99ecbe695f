CONSTANTS
  Blades = {b1}
  Procs = {p1, p2}
  NoOne = NoOne
  MaxMessages = 3
SYMMETRY Symmetry
SPECIFICATION Spec
INVARIANT TypeOK DeliveredOnce SenderOrder AckedWasSeen
PROPERTY ImplementsInbox
CHECK_DEADLOCK FALSE
