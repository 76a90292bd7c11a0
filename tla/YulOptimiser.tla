---------------------------- MODULE YulOptimiser ----------------------------
(***************************************************************************)
(* From Yul to EVM code (AssemblyStack).  OptimiserSuite::run: the         *)
(* Disambiguator, the steps "fgo", the sequence the user asks for, the     *)
(* stack compressor and the final clean-up, one step after the other; then *)
(* the code generator, which also says how much the compressor has to do.  *)
(***************************************************************************)
EXTENDS YulSyntax

CONSTANTS
  Prepare(_),       \* the Disambiguator: the code and the names it uses
  StepOf(_, _, _),  \* what a step makes of the code and the names
  Surplus(_, _, _), \* the CompilabilityChecker: the slots every function has too many
  Compress(_, _),   \* a round of the StackCompressor, for these
  CleanNames(_),    \* the VarNameCleaner
  Generate(_, _, _),  \* the CodeTransform: code, stack errors, failed assertions
  Behaviour(_, _),  \* what a program does in an environment
  CodeBehaviour(_, _),  \* what EVM code does in an environment
  Correct(_)        \* analyzeStrictAssertCorrect

CONSTANTS
  Tasks,          \* programs with the settings of the optimiser and the code generator
  Environments,   \* the calldata and storage they are tried with
  AnyStep,        \* what the step "?" stands for: sequences of steps
  MaxRounds,      \* maxRounds: how often a segment in brackets may run (12)
  MaxIterations   \* stackCompressorMaxIterations: how often the stack is compressed (16)

VARIABLES
  settings,    \* the task: whether to optimise and how, how deep the stack can be reached
  expected,    \* what it does in the environments
  ast,         \* the program as it is now
  dispenser,   \* m_context.dispenser
  stage,       \* "sequence", "finish", "ready" for the code generator, or "done"
  plan,        \* the segments left; the first one is being run
  todo,        \* the steps left of it
  rounds,      \* how often it was run
  codeSize,    \* codeSize: the size before the last round
  object       \* what the code generator returns
vars == <<settings, expected, ast, dispenser, stage, plan, todo, rounds, codeSize, object>>

Once(steps)        == [steps |-> steps, loop |-> FALSE]
UntilStable(steps) == [steps |-> steps, loop |-> TRUE]

Preparation == <<Once(<<"f", "g", "o">>)>>
Grouping    == <<Once(<<"g">>)>>
CleanUp     == <<Once(<<"f", "D", "n", "T", "O", "c", "g">>)>>

(* DefaultYulOptimiserSteps.                                               *)
DefaultYulOptimiserSteps == <<
  Once(<<"d", "h", "f", "o", "D", "g", "v", "u", "l", "f", "n", "T", "U", "t", "n", "I", "f">>),
  UntilStable(<<"x", "a", "r", "r", "s", "c", "L", "M",
                "c", "C", "T", "U", "t", "T", "O", "n", "t", "n", "f", "D", "I", "u", "l",
                "L", "c", "u", "l",
                "V", "c", "u", "l", "j", "j",
                "e", "u", "l",
                "x", "a", "r", "u", "l", "r", "u", "l",
                "x", "a", "r", "r", "c", "L",
                "g", "v", "i", "f",
                "C", "T", "U", "c", "a", "r", "r", "L", "s", "T", "O", "t", "f", "D", "n",
                "c", "a", "r", "r", "I", "u", "l", "c">>),
  Once(<<"j", "m", "u", "l", "j", "u", "l", "j", "u", "l",
         "V", "c", "T", "O", "c", "u", "l", "j", "m", "u", "l">>)>>

StepAll(os, b, d) == FoldLeft(LAMBDA r, o : StepOf(o, r.x, r.c), Keep(b, d), os)

-----------------------------------------------------------------------------
NoObject == [code |-> <<>>, errors |-> {}, failed |-> FALSE]

(* AssemblyStack::optimize: without the optimiser the program stays as it is. *)
Init ==
  /\ settings \in Tasks
  /\ expected = [env \in Environments |-> Behaviour(settings.program, env)]
  /\ IF settings.runYulOptimiser
     THEN LET p == Prepare(settings.program)
          IN  /\ ast = p.x /\ dispenser = p.c
              /\ plan = Preparation \o settings.yulOptimiserSteps \o Grouping
              /\ stage = "sequence"
     ELSE ast = settings.program /\ dispenser = {} /\ plan = <<>> /\ stage = "ready"
  /\ todo = <<>>
  /\ rounds = 0
  /\ codeSize = 0
  /\ object = NoObject

(* runSequence(vector): one step.                                          *)
RunStep ==
  /\ todo # <<>>
  /\ \E os \in IF Head(todo) = "?" THEN AnyStep ELSE {<<Head(todo)>>} :
       LET r == StepAll(os, ast, dispenser)
       IN  /\ ast' = r.x
           /\ dispenser' = r.c
  /\ todo' = Tail(todo)
  /\ UNCHANGED <<settings, expected, stage, plan, rounds, codeSize, object>>

(* runSequenceUntilStable, and runSequence(string) from segment to segment.*)
RunsAgain(s, now) ==
  IF s.loop THEN rounds < MaxRounds /\ now # codeSize ELSE rounds = 0

NextRound ==
  /\ todo = <<>> /\ plan # <<>>
  /\ LET now == CodeSizeIncludingFunctions(ast)
     IN  /\ RunsAgain(Head(plan), now)
         /\ codeSize' = now
  /\ rounds' = rounds + 1
  /\ todo' = Head(plan).steps
  /\ UNCHANGED <<settings, expected, ast, dispenser, stage, plan, object>>

NextSegment ==
  /\ todo = <<>> /\ plan # <<>>
  /\ ~ RunsAgain(Head(plan), CodeSizeIncludingFunctions(ast))
  /\ plan' = Tail(plan)
  /\ rounds' = 0
  /\ codeSize' = 0
  /\ UNCHANGED <<settings, expected, ast, dispenser, stage, todo, object>>

(* StackCompressor: while the code generator misses slots, variables are   *)
(* computed anew where they are used.                                      *)
SlotsMissing == Surplus(ast, settings.reach, settings.optimizeStackAllocation)

CompressStackRound ==
  /\ stage = "sequence" /\ plan = <<>>
  /\ rounds < MaxIterations
  /\ LET surplus == SlotsMissing
     IN  /\ DOMAIN surplus # {}
         /\ ast' = Compress(ast, surplus)
  /\ rounds' = rounds + 1
  /\ UNCHANGED <<settings, expected, dispenser, stage, plan, todo, codeSize, object>>

StartCleanUp ==
  /\ stage = "sequence" /\ plan = <<>>
  /\ rounds = MaxIterations \/ DOMAIN SlotsMissing = {}
  /\ stage' = "finish"
  /\ plan' = CleanUp
  /\ rounds' = 0
  /\ UNCHANGED <<settings, expected, ast, dispenser, todo, codeSize, object>>

(* VarNameCleaner, which ends the run of the suite.                        *)
Finish ==
  /\ stage = "finish" /\ plan = <<>>
  /\ ast' = CleanNames(ast)
  /\ stage' = "ready"
  /\ UNCHANGED <<settings, expected, dispenser, plan, todo, rounds, codeSize, object>>

(* AssemblyStack::assemble, by EVMObjectCompiler.                          *)
Assemble ==
  /\ stage = "ready"
  /\ object' = Generate(ast, settings.reach, settings.optimizeStackAllocation)
  /\ stage' = "done"
  /\ UNCHANGED <<settings, expected, ast, dispenser, plan, todo, rounds, codeSize>>

Next == \/ RunStep \/ NextRound \/ NextSegment
        \/ CompressStackRound \/ StartCleanUp \/ Finish \/ Assemble
Spec == Init /\ [][Next]_vars

-----------------------------------------------------------------------------
(* Whatever steps run in whatever order, the program does what it did:     *)
(* same end, same logs, same storage (every step of the suite, compared    *)
(* with the interpreter of the test tools).                                *)
BehaviourPreserved == \A env \in Environments : Behaviour(ast, env) = expected[env]

(* Every step leaves valid code: names are in scope, and functions are     *)
(* called with what they take (analyzeStrictAssertCorrect, which the suite *)
(* calls at its end and the stack compressor before every round).          *)
CodeValid == Correct(ast)

(* Until the names are cleaned, no name is declared twice, and loops start *)
(* with nothing: DataFlowAnalyzer, SSAValueTracker and the motion of loop  *)
(* invariants assert it, wherever they are in the sequence.                *)
Prerequisites ==
  LET ss == Statements(ast)
      fs == SelectSeq(ss, LAMBDA s : s.k = "fun")
      ls == SelectSeq(ss, LAMBDA s : s.k = "let")
      declared == Replacing(ls, LAMBDA s : s.vars) \o
                  Replacing(fs, LAMBDA s : <<s.n>> \o s.params \o s.rets)
  IN  /\ stage \in {"sequence", "finish"} => IsInjective(declared)
      /\ stage = "finish" \/ plan = Grouping => \A s \in Kind(ss, "for") : s.pre = <<>>

(* The code generator keeps count of the stack: no assertion of its own    *)
(* fails about heights, slots and references, with and without reuse of    *)
(* slots, whether or not variables are out of reach.                       *)
HeightsBalanced == ~ object.failed

(* The EVM code does what the program said, or there is a stack error.     *)
CodeDoesAsWritten ==
  stage = "done" /\ object.errors = {} =>
    \A env \in Environments : CodeBehaviour(object.code, env) = expected[env]
=============================================================================
