SPECIFICATION Spec
CONSTANTS
  ByteBits = 2
  WordSize = 2
  AddressBits = 3
  NestingLimit = 2
  MaxSteps = 1000
  MaxRounds = 12
  MaxIterations = 16
  MaxInstructions = 4096
  Builtins <- MCBuiltins
  Rules <- SimplificationRuleList
  Prepare <- Disambiguated
  StepOf <- AllSteps
  Compress <- CompressStack
  Surplus <- StackSurplus
  Generate <- CompileObject
  CodeBehaviour <- AssemblyOutcome
  CleanNames <- VarNameCleaner
  Behaviour <- Outcome
  Correct <- AnalyzeStrict
  Tasks <- MCTasks
  Environments <- MCEnvironments
  AnyStep <- MCAnyStep
INVARIANTS
  BehaviourPreserved
  CodeValid
  Prerequisites
  HeightsBalanced
  CodeDoesAsWritten
CHECK_DEADLOCK FALSE
