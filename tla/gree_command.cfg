\* Every row of the command table at the edges of seeds, units and values.
SPECIFICATION CommandSpec
CONSTANTS
  PropertyRequests <- MCPropertyRequests
  TimeRequests <- MCTimeRequests
INVARIANT
  ReceiverReadsRequest
