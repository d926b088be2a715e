\* Three interfaces compete for two windows.
SPECIFICATION Spec
CONSTANTS
  can0 = can0
  can1 = can1
  can2 = can2
  unnamed = unnamed
  NoEvidence = NoEvidence
  Interfaces = {can0, can1, can2, unnamed}
  ValidInterfaces = {can0, can1, can2}
  WindowSize = 3
  MaximumInterfaces = 2
  Frames <- TupleAndBad
  MaxSequence = 0
  MaxClock = 5
INVARIANTS
  RecencyDistinct
PROPERTY
  ImplementsContract
