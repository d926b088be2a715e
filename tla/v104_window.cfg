\* One interface, a window of four slots, sequences in any order.  The run
\* ends when MaxClock observations have been made.
SPECIFICATION Spec
CHECK_DEADLOCK FALSE
CONSTANTS
  can0 = can0
  can1 = can1
  can2 = can2
  unnamed = unnamed
  NoEvidence = NoEvidence
  Interfaces = {can0}
  ValidInterfaces = {can0}
  WindowSize = 4
  MaximumInterfaces = 1
  Frames <- TupleUnlistedBad
  MaxSequence = 1
  MaxClock = 7
INVARIANTS
  TypeOK
  RingsInStep
  TupleIsFresh
PROPERTY
  ImplementsContract
