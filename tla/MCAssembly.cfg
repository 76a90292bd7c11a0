SPECIFICATION Spec
CONSTANTS
  TagMask = 7
  Modulus = 8
  Fuel = 20
  Tags <- MCTags
  MaxEntries = 1
  Programs <- AllPrograms
  runJumpdestRemover = TRUE
INVARIANTS TypeOK TagsResolved EntriesPreserved ReplacementsNew
PROPERTY OptimiserTerminates
CHECK_DEADLOCK FALSE
