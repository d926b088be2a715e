\* One caller, two generations, evidence of every kind in any order.
SPECIFICATION Spec
CONSTANTS
  can0 = can0
  can1 = can1
  alice = alice
  bob = bob
  NoEvidence = NoEvidence
  NoCaller = NoCaller
  Interfaces = {can0, can1}
  ValidInterfaces = {can0, can1}
  WindowSize = 3
  MaximumInterfaces = 1
  Callers = {alice}
  Selected = can0
  MaxGeneration = 2
  MaxSequence = 2
  Frames <- TupleAndBad
INVARIANTS
  TypeOK
  EvidenceFromOneSource
  FenceIsOwn
PROPERTIES
  HistoryMonotone
  ImplementsHistory
