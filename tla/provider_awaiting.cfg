\* The README sentence on "awaiting", refuted.
SPECIFICATION Spec
CONSTANTS
  can0 = can0
  can1 = can1
  alice = alice
  bob = bob
  NoEvidence = NoEvidence
  NoCaller = NoCaller
  Interfaces = {can0}
  ValidInterfaces = {can0}
  WindowSize = 4
  MaximumInterfaces = 1
  Callers = {alice}
  Selected = can0
  MaxGeneration = 1
  MaxSequence = 3
  Frames <- TupleAndBad
INVARIANTS
  AwaitingMeansNoTupleYet
