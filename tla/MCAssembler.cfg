SPECIFICATION Spec
CONSTANTS
  Base = 4
  WordBytes = 4
  AddressBytes = 2
  SizeBytes = 4
  Trees <- MCTrees
  Libraries = {"l", "m"}
  Immutables = {"x", "y"}
INVARIANTS
  SpaceSuffices
  ReferencesRight
  LinksRight
  ImmutablesWritten
CHECK_DEADLOCK FALSE
