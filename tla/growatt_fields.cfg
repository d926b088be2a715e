\* Every pair of observations of tuple frames that differ in a byte or two.
SPECIFICATION Spec
CONSTANTS
  can0 = can0
  can1 = can1
  unnamed = unnamed
  NoEvidence = NoEvidence
  Interfaces = {can0, can1, unnamed}
  ValidInterfaces = {can0, can1}
  Selected = can0
  Observations <- MCObservations
INVARIANTS
  SharedFieldsAgree
  FieldsTellBytesApart
