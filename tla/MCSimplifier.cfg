SPECIFICATION Spec
CONSTANTS
  ByteBits = 2
  WordSize = 2
  AddressBits = 3
  Literals = {0, 1, 2, 3, 4, 7, 8, 15}
  Samples = {0, 1, 6, 11, 15}
  MaxRounds = 3
  Builtins <- MCBuiltins
  Rules <- SimplificationRuleList
  Given <- MCGiven
INVARIANTS
  MeaningPreserved
  SimplificationEnds
CHECK_DEADLOCK FALSE
