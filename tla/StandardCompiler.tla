--------------------------- MODULE StandardCompiler ---------------------------
(***************************************************************************)
(* The users of the compiler stack: a program that calls it as a library,  *)
(* in any order, and the standard JSON interface, which makes a stack of   *)
(* its own for every input and turns its result into one output.           *)
(***************************************************************************)
EXTENDS CompilerStack

CONSTANT Selections     \* sets of records [file, name, artefact]

VARIABLE output         \* the answer of the standard JSON interface

allVars == <<program, stack, output>>

NoOutput == [done |-> FALSE]

-----------------------------------------------------------------------------
(* The output selection                                                    *)

experimental == {"ir", "ewasm.wast"}

\* A list of artefacts asks for one if it names it, or names all and the
\* artefact is not experimental.
AsksFor(artefacts, a) ==
    a \in artefacts \/ ("*" \in artefacts /\ a \notin experimental)

isArtifactRequested(selection, c, a) ==
    \E f \in {c[1], <<"*">>}, n \in {c[2], "*"} :
        AsksFor({r.artefact : r \in {q \in selection : q.file = f /\ q.name = n}}, a)

\* Whether some file and name ask for one of the artefacts.
SomeRequested(selection, artefacts) ==
    \E r \in selection, a \in artefacts : AsksFor({r.artefact}, a)

isBinaryRequested(selection) ==
    SomeRequested(selection, {"*", "evm.bytecode", "ir", "ewasm.wast"})
\* Mutant: all outputs do not include bytecode.
OnlyByName(selection) == \E r \in selection : r.artefact = "evm.bytecode"
isEvmBytecodeRequested(selection) == SomeRequested(selection, {"*", "evm.bytecode"})
isEwasmRequested(selection) == \E r \in selection : r.artefact = "ewasm.wast"
isIRRequested(selection) ==
    isEwasmRequested(selection) \/ \E r \in selection : r.artefact = "ir"

\* The empty name, which selects outputs of the source itself, becomes the name
\* that stands for all contracts.
requestedContractNames(selection) ==
    {[file |-> r.file, name |-> IF r.name = "" THEN "*" ELSE r.name] : r \in selection}

-----------------------------------------------------------------------------
\* The stack after all calls for one input.
StackFor(selection, version, recovery) ==
    LET kinds == {k \in {"evm", "ir", "ewasm"} :
                    CASE k = "evm" -> isEvmBytecodeRequested(selection)
                      [] k = "ir" -> isIRRequested(selection)
                      [] OTHER -> isEwasmRequested(selection)}
        set == setVersion(setSources(FreshStack, program.given), version)
        ready == enableGeneration(
                    setRequestedContractNames(
                        setParserErrorRecovery(set, recovery),
                        requestedContractNames(selection)),
                    kinds)
    IN  IF isBinaryRequested(selection) THEN compile(ready) ELSE parseAndAnalyze(ready)

\* What the output holds for a contract.
ContractData(s, selection, c, compiled) ==
    {a \in {"abi", "evm.bytecode", "ir", "ewasm.wast"} :
        /\ isArtifactRequested(selection, c, a)
        /\ a # "abi" =>
            /\ compiled
            /\ CASE a = "evm.bytecode" -> s.contracts[c].evm # {}
                 [] a = "ir" -> s.contracts[c].ir # {}
                 [] OTHER -> s.contracts[c].ewasm # {}}

\* The output made from a stack after all calls.
Answer(s, selection, recovery) ==
    LET errors == s.errors \cup ({s.answer} \ {"true", "false"})
        compiled == s.state = CompilationSuccessful
        analysed == s.state >= AnalysisPerformed /\ (s.hasError => recovery)
    IN  [done |-> TRUE, selection |-> selection, errors |-> errors,
         fatal |-> /\ (isBinaryRequested(selection) /\ ~ compiled) \/ ~ analysed
                   /\ errors = {},
         data |-> IF ~ analysed THEN <<>>
                  ELSE [c \in DOMAIN s.contracts |-> ContractData(s, selection, c, compiled)]]

compileSolidity(selection, version, recovery) ==
    /\ stack = FreshStack /\ output = NoOutput
    /\ stack' = StackFor(selection, version, recovery)
    /\ output' = Answer(stack', selection, recovery)
    /\ UNCHANGED program

\* The stack of an input is destroyed with it.
Finish ==
    /\ output # NoOutput
    /\ stack' = FreshStack /\ output' = NoOutput
    /\ UNCHANGED program

-----------------------------------------------------------------------------
Init == InitStack /\ output = NoOutput

Library == output = NoOutput /\ NextCall /\ UNCHANGED output

Standard == \E selection \in Selections, v \in Versions, r \in BOOLEAN :
                compileSolidity(selection, v, r)

Next == Library \/ Standard \/ Finish

Spec == Init /\ [][Next]_allVars

-----------------------------------------------------------------------------
(* The stack implements the interface                                      *)

TaskOf(s) == [version |-> s.version, remappings |-> s.remappings,
              language |-> IF s.importedSources THEN "AST" ELSE "source",
              requests |-> s.requests, kinds |-> s.kinds]

StageOf(s) ==
    CASE s.state < ParsingPerformed -> "open"
      [] s.state = ParsingPerformed -> "fixed"
      [] s.state = AnalysisPerformed -> IF s.hasError THEN "rejected" ELSE "accepted"
      [] OTHER -> "compiled"

\* The code that the getters hand out: they throw in all other states.
Readable(s) ==
    IF s.state # CompilationSuccessful THEN {}
    ELSE UNION {s.contracts[c].evm \cup s.contracts[c].ir \cup s.contracts[c].ewasm :
                    c \in DOMAIN s.contracts}

AllTasks ==
    [version : Versions, remappings : Remappings, language : {"source", "AST"},
     requests : SUBSET [file : Seq(STRING), name : STRING],
     kinds : SUBSET {"evm", "ir", "ewasm"}]

Interface == INSTANCE CompilerInterface WITH
                Tasks <- AllTasks, task <- TaskOf(stack), stage <- StageOf(stack),
                delivered <- Readable(stack)

\* Whatever the order of the calls, the stack keeps the promises of its
\* interface: settings do not change once parsing was performed, only correct
\* programs are accepted, and the code that can be read is for every requested
\* contract the one that the program and the settings determine, although the
\* dependencies are compiled recursively, metadata and IR are made once and
\* kept, and a call may stop anywhere (CompilerStack::compile).
ImplementsInterface == Interface!Spec

\* Code can only be read when no stage has reported an error: "producing code
\* is only possible without errors" (CompilerStack.h).
NoCodeWithErrors == stack.state = CompilationSuccessful => stack.errors = {}

\* The sources to analyse are closed under imports, each once, and a source
\* comes after the ones it imports, unless they import each other
\* (CompilerStack::resolveImports).
AnalysedInOrder ==
    LET o == stack.sourceOrder
        before(p, q) == \E i, j \in DOMAIN o : i < j /\ o[i] = p /\ o[j] = q
    IN  stack.state >= AnalysisPerformed =>
            /\ Cardinality(Range(o)) = Len(o)
            /\ \A p \in Range(o) : Ast(stack, p) =>
                \A q \in Range(stack.links[p]) :
                    /\ q \in Range(o)
                    /\ before(q, p) \/ p \in Interface!Closure(program, TaskOf(stack), {q})

\* An output without errors holds every artefact that was asked for, of every
\* contract that can have it, and the internal error "No error reported, but
\* compilation failed." is never given (StandardCompiler::compileSolidity).
RequestsServed ==
    output # NoOutput /\ output.errors = {} =>
        /\ ~ output.fatal
        /\ \A c \in ContractsOf({p \in Names : p \in stack.sources /\ isRequestedSource(stack, p)}) :
            \A a \in {"abi", "evm.bytecode", "ir", "ewasm.wast"} :
                isArtifactRequested(output.selection, c, a) /\ (a # "abi" => canBeDeployed(c))
                    => c \in DOMAIN output.data /\ a \in output.data[c]

\* With error recovery the stages can be gone through even when there are
\* errors: no assertion of the compiler fails (CompilerStack.h).
RecoveryProgresses ==
    stack.recovery /\ ~ stack.importedSources => stack.answer # "InternalCompilerError"

=============================================================================
