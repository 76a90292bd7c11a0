SPECIFICATION Spec
CONSTANTS
  Signals = {"Alert"}
  Handlers = {"Update"}
  Types = {"bool"}
  MaxLines = 7
  MaxContracts = 2
INVARIANTS TypeOK BindingsAsWritten DeclaredSignalsCreated
PROPERTY EmitReachesSubscribers
CHECK_DEADLOCK FALSE
