\* Two callers whose calls interleave between profiles; one interface is unnamed.
SPECIFICATION Spec
CONSTANTS
  can0 = can0
  can1 = can1
  unnamed = unnamed
  alice = alice
  bob = bob
  NoEvidence = NoEvidence
  Interfaces = {can0, can1, unnamed}
  ValidInterfaces = {can0, can1}
  WindowSize = 3
  MaximumInterfaces = 1
  Profiles <- Mixed
  Callers = {alice, bob}
  Observations <- OneBus
  GreeFrames <- MCGreeFrames
  MaxCalls = 4
SYMMETRY Symmetry
INVARIANTS
  AnswerIsSoleClaim
  EveryProfileHears
\* The bound on calls ends every behaviour.
CHECK_DEADLOCK FALSE
