\* Candidate and map in sequence: starts and lengths around every coordinate.
SPECIFICATION ReplaySpec
CONSTANTS
  can0 = can0
  can1 = can1
  unnamed = unnamed
  Interfaces = {can0, can1, unnamed}
  ValidInterfaces = {can0, can1}
  Selected = can0
  Observations <- MCObservations
  Decoders <- MCDecoders
  Traffic <- MCTraffic
  SlotCount = 3
INVARIANTS
  UpdatesMatchCoverage
  TwoViewsAgree
  StateIsCopied
