SPECIFICATION Spec
CONSTANTS
  Functions <- MCFunctions
  FlowOf <- MCFlowOf
  Runs <- MCRuns
  Orders <- MCOrders
  Address <- MCAddress
  Pointers = {"s", "t", "r", "m", "p"}
  Returned <- Nothing
INVARIANT
  EveryAccessReported
CHECK_DEADLOCK FALSE
