SPECIFICATION Spec
CONSTANTS
  TagMask = 3
  Modulus = 8
  Alphabets <- MainAlphabets
  MaxItems = 4
  Stacks <- EntryStacks
  Fuel = 10
INVARIANTS BehaviourPreserved LabelsKept
PROPERTY PeepholeTerminates
CHECK_DEADLOCK FALSE
