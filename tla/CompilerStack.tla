---------------------------- MODULE CompilerStack ----------------------------
(***************************************************************************)
(* The compiler stack: one object that is given sources and settings and   *)
(* is then taken through parsing, analysis and compilation by calls that   *)
(* are valid in some of its states only.  A call is an operator from the   *)
(* state of the object to its next state, in which "answer" is what the    *)
(* call returned or threw.                                                 *)
(*                                                                         *)
(* A program is abstracted to what decides about control: which source     *)
(* imports which, where parsing and analysis fail, which contract creates  *)
(* which other one and which ones the code generator refuses.              *)
(***************************************************************************)
EXTENDS Integers, Sequences, SequencesExt, FiniteSets, TLC

CONSTANTS
    Programs,           \* records, see MCCompiler
    Versions,           \* values of the settings that are guarded by the state
    Remappings,         \* lists of remappings
    Requests,           \* sets of requested contracts
    Kinds,              \* sets of outputs to generate
    LateRequests,       \* contracts may be requested after the analysis
    ReuseAfterImport    \* a stack that imported an AST is given sources later

ASSUME SettingsAssumption == LateRequests \in BOOLEAN /\ ReuseAfterImport \in BOOLEAN

VARIABLES
    program,            \* the program of this behaviour, never changed
    stack               \* the object

Empty == 0
SourcesSet == 1
ParsingPerformed == 2
AnalysisPerformed == 3
CompilationSuccessful == 4

DefaultVersion == CHOOSE v \in Versions : \A w \in Versions : v <= w

\* Contract: everything is made at most once, hence a set of at most one.
NoContract == [evm |-> {}, ir |-> {}, ewasm |-> {}, metadata |-> {}]

FreshStack ==
    [state |-> Empty, hasError |-> FALSE, importedSources |-> FALSE,
     version |-> DefaultVersion, remappings |-> <<>>, kinds |-> {"evm"},
     recovery |-> FALSE, requests |-> {},
     sources |-> <<>>, links |-> <<>>, sourceOrder |-> <<>>,
     contracts |-> <<>>, errors |-> {}, answer |-> "none"]

Throw(s, exception) == [s EXCEPT !.answer = exception]

Names == Range(program.names)
Ast(s, path) == path \in DOMAIN s.links

-----------------------------------------------------------------------------
(* Settings and sources                                                    *)

\* The settings that are guarded: EVM version, optimiser, libraries, ...
setVersion(s, v) ==
    IF s.state >= ParsingPerformed THEN Throw(s, "CompilerError")
    ELSE [s EXCEPT !.version = v, !.answer = "true"]

setRemappings(s, r) ==
    IF s.state >= ParsingPerformed THEN Throw(s, "CompilerError")
    ELSE [s EXCEPT !.remappings = r, !.answer = "true"]

\* The ones that are not.
setParserErrorRecovery(s, b) == [s EXCEPT !.recovery = b, !.answer = "true"]
setRequestedContractNames(s, r) == [s EXCEPT !.requests = r, !.answer = "true"]
enableGeneration(s, k) == [s EXCEPT !.kinds = k, !.answer = "true"]

reset(s, keepSettings) ==
    LET cleared == [s EXCEPT !.state = Empty, !.hasError = FALSE, !.sources = <<>>,
                             !.links = <<>>, !.sourceOrder = <<>>, !.contracts = <<>>,
                             !.errors = {}, !.answer = "true"]
    IN  IF keepSettings THEN cleared
        ELSE [cleared EXCEPT !.remappings = <<>>, !.version = DefaultVersion,
                             !.kinds = s.kinds \cap {"evm"}]

setSources(s, given) ==
    IF s.state # Empty THEN Throw(s, "CompilerError")
    ELSE [s EXCEPT !.sources = given, !.state = SourcesSet, !.answer = "true"]

\* The ASTs come from a run of the compiler and name their imports in full.
importASTs(s, given) ==
    IF s.state # Empty THEN Throw(s, "CompilerError")
    ELSE [s EXCEPT !.sources = given, !.links = [p \in given |-> program.imports[p]],
                   !.state = ParsingPerformed, !.importedSources = TRUE,
                   !.answer = "true"]

-----------------------------------------------------------------------------
(* Parsing                                                                 *)

\* Mutant: a later remapping with a more general context wins.
ForgetContext(s, path, context) ==
    LET skip(best, r) ==
            \/ ~ IsPrefix(r.context, context)
            \/ Len(r.prefix) < best.prefix /\ Len(r.context) = best.context
            \/ ~ IsPrefix(r.prefix, path)
        take(best, r) ==
            IF skip(best, r) THEN best
            ELSE [context |-> Len(r.context), prefix |-> Len(r.prefix),
                  target |-> r.target]
        best == FoldLeft(take, [context |-> 0, prefix |-> 0, target |-> <<>>],
                         s.remappings)
    IN  best.target \o SubSeq(path, best.prefix + 1, Len(path))

applyRemapping(s, path, context) ==
    LET skip(best, r) ==
            \/ Len(r.context) < best.context
            \/ ~ IsPrefix(r.context, context)
            \/ Len(r.prefix) < best.prefix /\ Len(r.context) = best.context
            \/ ~ IsPrefix(r.prefix, path)
        take(best, r) ==
            IF skip(best, r) THEN best
            ELSE [context |-> Len(r.context), prefix |-> Len(r.prefix),
                  target |-> r.target]
        best == FoldLeft(take, [context |-> 0, prefix |-> 0, target |-> <<>>],
                         s.remappings)
    IN  best.target \o SubSeq(path, best.prefix + 1, Len(path))

\* An AST is linked to what it imports, and the sources that are missing are
\* read, if they can be, and are parsed later.
loadMissingSources(s, path) ==
    LET links == Range(s.links[path])
        found == (links \ s.sources) \cap program.files
    IN  [s EXCEPT !.sources = @ \cup found,
                  !.toParse = @ \o SelectSeq(program.names, LAMBDA n : n \in found),
                  !.errors = @ \cup (IF links \subseteq s.sources \cup program.files THEN {}
                                     ELSE {"missing"})]

\* One round of the loop in parse: the source at the head of the list is
\* parsed, and the sources it imports are put at the end.
ParseSource(s, path) ==
    LET fine == program.syntax[path] = "ok"
        read == IF fine THEN s ELSE [s EXCEPT !.errors = @ \cup {"syntax"}]
        import(t, i) == [t EXCEPT !.links[path] = Append(@, applyRemapping(s, i, path))]
        linked == FoldLeft(import, [read EXCEPT !.links = @ @@ (path :> <<>>)],
                           program.imports[path])
    IN  IF fine \/ (s.recovery /\ program.syntax[path] = "recoverable")
        THEN loadMissingSources(linked, path)
        ELSE read

\* The stack after the loop in parse, given what the loop has done.
Parsed(s, all) ==
    [f \in DOMAIN s |->
        CASE f = "state" -> ParsingPerformed
          [] f = "hasError" -> s.hasError \/ all.errors # {}
          [] f = "answer" -> IF s.hasError \/ all.errors # {} THEN "false" ELSE "true"
          [] OTHER -> all[f]]

parse(s) ==
    LET start == [s EXCEPT !.errors = {}] @@
                    [toParse |-> SelectSeq(program.names, LAMBDA n : n \in s.sources)]
        round(t, i) == IF i > Len(t.toParse) THEN t ELSE ParseSource(t, t.toParse[i])
    IN  IF s.state # SourcesSet THEN Throw(s, "CompilerError")
        ELSE Parsed(s, FoldLeftDomain(round, start, program.names))

-----------------------------------------------------------------------------
(* Analysis                                                                *)

isRequestedSource(s, path) ==
    \/ s.requests = {}
    \/ \E r \in s.requests : r.file \in {<<"*">>, path}

isRequestedContract(s, c) ==
    \/ s.requests = {}
    \/ \E r \in s.requests : r.file \in {<<"*">>, c[1]} /\ r.name \in {"*", c[2]}

\* Mutant: a source is put before what it imports.
Preorder(s) ==
    LET visit[n \in Nat, path \in Names,
              t \in [seen : SUBSET Names, order : Seq(Names), broken : BOOLEAN]] ==
            IF path \in t.seen \/ t.broken THEN t
            ELSE LET into(u, q) == IF q \notin s.sources THEN [u EXCEPT !.broken = TRUE]
                                   ELSE visit[n - 1, q, u]
                 IN  FoldLeft(into, [t EXCEPT !.seen = @ \cup {path}, !.order = Append(@, path)],
                              IF Ast(s, path) THEN s.links[path] ELSE <<>>)
        from(t, path) == IF path \in s.sources /\ isRequestedSource(s, path)
                         THEN visit[Len(program.names), path, t] ELSE t
    IN  FoldLeft(from, [seen |-> {}, order |-> <<>>, broken |-> FALSE], program.names)

\* Depth first search through the imports, cutting cycles.  "broken" is the
\* failed assertion that an imported source is there.
toposort(s) ==
    LET visit[n \in Nat, path \in Names,
              t \in [seen : SUBSET Names, order : Seq(Names), broken : BOOLEAN]] ==
            IF path \in t.seen \/ t.broken THEN t
            ELSE LET into(u, q) == IF q \notin s.sources THEN [u EXCEPT !.broken = TRUE]
                                   ELSE visit[n - 1, q, u]
                     below == FoldLeft(into, [t EXCEPT !.seen = @ \cup {path}],
                                       IF Ast(s, path) THEN s.links[path] ELSE <<>>)
                 IN  [below EXCEPT !.order = Append(@, path)]
        from(t, path) == IF path \in s.sources /\ isRequestedSource(s, path)
                         THEN visit[Len(program.names), path, t] ELSE t
    IN  FoldLeft(from, [seen |-> {}, order |-> <<>>, broken |-> FALSE], program.names)

ContractsOf(paths) == UNION {{<<p, n>> : n \in Range(program.contracts[p])} : p \in paths}

\* registerDeclarations, performImports, resolveNamesAndTypes ("undeclared") and
\* the DeclarationTypeChecker ("signature") return from the middle of the
\* analysis.  All other checks go on, and a fatal error among them is caught.
Checked(s, asts, faults) ==
    LET report(t, f) == [t EXCEPT !.errors = @ \cup f, !.answer = "false"]
        stored == [s EXCEPT !.contracts = @ @@ [c \in ContractsOf(asts) |-> NoContract]]
        failed == s.hasError \/ s.errors # {} \/ faults # {}
    IN  IF "undeclared" \in faults THEN report(s, {"undeclared"})
        ELSE IF "signature" \in faults THEN report(stored, {"signature"})
        ELSE [report(stored, faults) EXCEPT
                !.state = AnalysisPerformed, !.hasError = failed,
                !.answer = IF failed THEN "false" ELSE "true"]

\* The analysis of the sources in the order found by resolveImports.
AnalyzeInOrder(s, sorted) ==
    LET asts == {p \in Range(sorted.order) : Ast(s, p)}
    IN  IF sorted.broken THEN Throw(s, "InternalCompilerError")
        ELSE Checked([s EXCEPT !.sourceOrder = sorted.order], asts,
                     {program.fault[p] : p \in asts} \ {"none"})

analyze(s) ==
    IF s.state # ParsingPerformed THEN Throw(s, "CompilerError")
    ELSE AnalyzeInOrder(s, toposort(s))

AnalyzeParsed(p) ==
    IF p.answer = "true" \/ (p.answer = "false" /\ p.recovery) THEN analyze(p) ELSE p

parseAndAnalyze(s) == AnalyzeParsed(parse(s))

-----------------------------------------------------------------------------
(* Code generation                                                         *)

\* SourceUnit::referencedSourceUnits, with the source itself.
referencedSources(s, path) ==
    LET below[skip \in SUBSET Names, p \in Names] ==
            LET add(t, q) == IF q \in t.skip THEN t
                             ELSE LET k == t.skip \cup {q} IN
                                  [skip |-> k, found |-> t.found \cup {q} \cup below[k, q]]
            IN  FoldLeft(add, [skip |-> skip, found |-> {}], s.links[p]).found
    IN  {path} \cup below[{}, path]

createMetadata(s, c) ==
    [version |-> s.version, remappings |-> s.remappings,
     language |-> IF s.importedSources THEN "AST" ELSE "source",
     sources |-> referencedSources(s, c[1])]

\* The metadata is made at the first call, whoever makes it.
metadata(s, c) ==
    IF s.contracts[c].metadata # {} THEN s
    ELSE [s EXCEPT !.contracts[c].metadata = {createMetadata(s, c)}]

contractDependencies(s, c) ==
    {CHOOSE d \in {<<q, n>> : q \in referencedSources(s, c[1])} :
        d \in DOMAIN s.contracts : n \in program.needs[c[2]]}

canBeDeployed(c) == c[2] \notin program.abstract

\* A contract after everything it depends on, as the recursion reaches them.
dependencyOrder(s, contract) ==
    LET below[c \in DOMAIN s.contracts] ==
            FlattenSeq([i \in 1..Cardinality(contractDependencies(s, c)) |->
                            below[SetToSeq(contractDependencies(s, c))[i]]]) \o <<c>>
    IN  below[contract]

\* The code of the dependencies is inside the code of the contract.
Object(s, c, kind, meta) ==
    [contract |-> c, kind |-> kind, version |-> s.version,
     embedded |-> UNION {{d} \cup UNION {o.embedded : o \in s.contracts[d][kind]} :
                            d \in contractDependencies(s, c)},
     linked |-> FALSE, metadata |-> meta]

\* Mutant: the error of a contract does not stop the compilation.
KeepGoing(s, c) ==
    LET m == metadata(s, c) IN
    IF s.answer # "true" \/ c \in s.compilers \/ ~ canBeDeployed(c) THEN s
    ELSE IF c[2] \in program.uncompilable
    THEN [m EXCEPT !.errors = @ \cup {"codegen"}]
    ELSE [m EXCEPT !.contracts[c].evm = {Object(m, c, "evm", m.contracts[c].metadata)},
                   !.compilers = @ \cup {c}]

\* Nothing is done after an exception.  "compilers" are the contracts that were
\* compiled by this call of compile.
compileContract(s, c) ==
    LET m == metadata(s, c) IN
    IF s.answer # "true" \/ c \in s.compilers \/ ~ canBeDeployed(c) THEN s
    ELSE IF c[2] \in program.uncompilable
    THEN [m EXCEPT !.answer = "false", !.errors = @ \cup {"codegen"}]
    ELSE [m EXCEPT !.contracts[c].evm = {Object(m, c, "evm", m.contracts[c].metadata)},
                   !.compilers = @ \cup {c}]

generateIR(s, c) ==
    IF s.answer # "true" \/ s.contracts[c].ir # {} \/ ~ canBeDeployed(c) THEN s
    ELSE [s EXCEPT !.contracts[c].ir = {Object(s, c, "ir", {})}]

\* The Ewasm code is made from the IR, the one of the dependencies with it.
generateEwasm(s, c) ==
    IF s.answer # "true" THEN s
    ELSE IF s.contracts[c].ir = {} THEN Throw(s, "InternalCompilerError")
    ELSE IF s.contracts[c].ewasm # {} THEN s
    ELSE [s EXCEPT !.contracts[c].ewasm =
                        {[o EXCEPT !.kind = "ewasm"] : o \in s.contracts[c].ir}]

generateEwasmIf(s, c) == IF "ewasm" \in s.kinds THEN generateEwasm(s, c) ELSE s

\* The outputs of a contract one after the other, its dependencies with it.
GenerateCode(s, c) ==
    LET order == dependencyOrder(s, c)
        evm == IF "evm" \in s.kinds THEN FoldLeft(compileContract, s, order) ELSE s
        ir == IF s.kinds \cap {"ir", "ewasm"} # {} THEN FoldLeft(generateIR, evm, order)
              ELSE evm
    IN  IF isRequestedContract(s, c) THEN generateEwasmIf(ir, c) ELSE s

\* The objects are linked whether they were compiled just now or before.
link(s) ==
    [s EXCEPT !.contracts = [c \in DOMAIN @ |->
        [@[c] EXCEPT !.evm = {[o EXCEPT !.linked = TRUE] : o \in @}]]]

\* What was generated, without the compilers, which compile forgets.
Generated(s) ==
    LET kept == [f \in DOMAIN FreshStack |-> s[f]]
    IN  IF s.answer # "true" THEN kept ELSE link([kept EXCEPT !.state = CompilationSuccessful])

CompileAnalysed(a) ==
    LET inSource(p) == [i \in DOMAIN program.contracts[p] |-> <<p, program.contracts[p][i]>>]
        all == FlattenSeq([i \in DOMAIN a.sourceOrder |-> inSource(a.sourceOrder[i])])
    IN  IF a.answer # "true" THEN a
        ELSE IF a.hasError THEN Throw(a, "CompilerError")
        ELSE Generated(FoldLeft(GenerateCode, a @@ [compilers |-> {}], all))

compile(s) ==
    CompileAnalysed(IF s.state < AnalysisPerformed THEN parseAndAnalyze(s)
                    ELSE Throw(s, "true"))

-----------------------------------------------------------------------------
(* Clients                                                                 *)

vars == <<program, stack>>

InitStack == program \in Programs /\ stack = FreshStack

Call(next) == stack' = next /\ UNCHANGED program

SetSources == (ReuseAfterImport \/ ~ stack.importedSources) /\ Call(setSources(stack, program.given))
ImportASTs == (ReuseAfterImport \/ ~ stack.importedSources) /\ Call(importASTs(stack, program.given))
SetVersion == \E v \in Versions : Call(setVersion(stack, v))
SetRemappings == \E r \in Remappings : Call(setRemappings(stack, r))
SetRecovery == \E b \in BOOLEAN : Call(setParserErrorRecovery(stack, b))
Late == LateRequests \/ stack.state < AnalysisPerformed
SetRequests == Late /\ \E r \in Requests : Call(setRequestedContractNames(stack, r))
EnableGeneration == Late /\ \E k \in Kinds : Call(enableGeneration(stack, k))
Reset == \E b \in BOOLEAN : Call(reset(stack, b))
Parse == Call(parse(stack))
Analyze == Call(analyze(stack))
ParseAndAnalyze == Call(parseAndAnalyze(stack))
Compile == Call(compile(stack))

\* Reading the metadata after the analysis makes it.
ReadMetadata ==
    /\ stack.state >= AnalysisPerformed /\ ~ stack.hasError
    /\ \E c \in DOMAIN stack.contracts : Call(metadata(stack, c))

NextCall ==
    \/ SetSources \/ ImportASTs \/ Reset
    \/ SetVersion \/ SetRemappings \/ SetRecovery \/ SetRequests \/ EnableGeneration
    \/ Parse \/ Analyze \/ ParseAndAnalyze \/ Compile \/ ReadMetadata

=============================================================================
