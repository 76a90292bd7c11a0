SPECIFICATION Spec
CONSTANTS
  Functions <- MCFunctions
  FlowOf <- MCFlowOf
  Runs <- MCRuns
  Orders <- MCOrders
  Address <- MCAddress
  Pointers = {"s", "t", "r", "m", "p"}
  Returned <- Pointer
INVARIANTS
  PathsWalked
  AccessesReported
  ReportsReal
  WarningsRight
PROPERTY
  AnalysisEnds
CHECK_DEADLOCK FALSE
