SPECIFICATION Spec
CONSTANTS
  WordSize = 2
  Base = 2
  Literals = {1}
  Lengths = {2}
  UnknownValues = {0, 1}
  Initial <- MCInitial
  AfterCall <- StorageChanged
  Instrs = {"SSTORE", "SLOAD", "ADD", "CALL"}
  MaxSteps = 4
INVARIANTS TypeOK ClassesSound StorageKnowledgeSound GeneratedCodeEquivalent SequenceNumbersSeparate
CHECK_DEADLOCK FALSE
