SPECIFICATION Spec
CONSTANTS
  WordSize = 2
  Base = 4
  Literals = {1}
  Lengths = {4}
  UnknownValues = {0, 1}
  Initial <- MCInitial
  AfterCall <- MemoryChanged
  Instrs = {"MSTORE", "MLOAD", "KECCAK256", "CALL", "CREATESIGNAL"}
  MaxSteps = 3
INVARIANTS ClassesSound MemoryKnowledgeSound GeneratedCodeEquivalent
CHECK_DEADLOCK FALSE
