\* One caller; a nil profile and two V1.04 profiles around the Gree candidate.
SPECIFICATION Spec
CONSTANTS
  can0 = can0
  can1 = can1
  unnamed = unnamed
  alice = alice
  bob = bob
  NoEvidence = NoEvidence
  Interfaces = {can0, can1, unnamed}
  ValidInterfaces = {can0, can1}
  WindowSize = 4
  MaximumInterfaces = 1
  Profiles <- Twins
  Callers = {alice}
  Observations <- ThreeBuses
  GreeFrames <- MCGreeFrames
  MaxCalls = 6
INVARIANTS
  TwinsAgree
  GreeIsHeardAlone
\* The bound on calls ends every behaviour.
CHECK_DEADLOCK FALSE
