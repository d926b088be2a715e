\* Two callers, three generations; the data is as small as it gets.
SPECIFICATION FairSpec
CONSTANTS
  can0 = can0
  can1 = can1
  alice = alice
  bob = bob
  NoEvidence = NoEvidence
  NoCaller = NoCaller
  Interfaces = {can0}
  ValidInterfaces = {can0}
  WindowSize = 1
  MaximumInterfaces = 1
  Callers = {alice, bob}
  Selected = can0
  MaxGeneration = 3
  MaxSequence = 0
  Frames <- OneFrame
INVARIANTS
  SingleReceiver
  StoppedIsQuiescent
  LiveIsServed
PROPERTIES
  StoppedIsFrozen
  CancellationIsNoLoss
  ClosedForGood
  CallsReturn
  LossIsReported
