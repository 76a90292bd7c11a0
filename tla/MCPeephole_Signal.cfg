SPECIFICATION Spec
CONSTANTS
  TagMask = 3
  Modulus = 8
  Alphabets <- SignalAlphabets
  MaxItems = 4
  Stacks <- EntryStacks
  Fuel = 10
INVARIANT EffectsKept
CHECK_DEADLOCK FALSE
