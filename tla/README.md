# A TLA+ development for SigSolid

SigSolid is the Solidity compiler with two additions: a Perl parser for the
keywords `signal` and `handler` (`signalhandler/parser/parse.pl`) and five opcodes
for a virtual machine that knows signals (`libevmasm/Instruction.{h,cpp}`).  This
directory holds TLA+ models of the parser, of the driver of the compiler, of its
control flow analysis, of the Yul optimiser and code generator, and of the bytecode
optimiser and assembler; the TLC configurations that check them; and TLAPS proofs
about the knowledge of the common subexpression eliminator, the peephole optimiser,
the driver of the optimisers, the assembler's estimate of sizes and its references, the
control flow analysis and the signals.  Paths below are relative to the root of the repository.

## 1. The system

    contract with signals --parse.pl--> Solidity
      --CompilerStack: parse, analyse (control flow among other things)--> AST
      --code generation--> Yul --OptimiserSuite, CodeTransform--> items
                      \--> Assembly (items) --Assembly::optimise--> items
      --Assembly::assemble, link--> bytecode --> machine with signal opcodes

| part | state | operations | what makes it correct | hard because |
|---|---|---|---|---|
| `signalhandler/parser/parse.pl` | `@signal_array`, `@handler_name_array`, `@handler_types_array`, output | one pass over the lines; snippets for `signal`, `handler`, `create_signal`, `delete_signal`, `emit`, `bind`, `detach`, the constructor | output compiles; keys used by the snippets agree; bindings are those of the source | the arrays are never reset between contracts; functions are called in any order |
| `CompilerStack`, `StandardCompiler` | `m_stackState`, sources, settings, contracts, errors | setters, `parse`, `analyze`, `compile`, `link`, accessors, `reset`; JSON input to output | only correct programs get code; imports are analysed first; outputs are the ones asked for and belong to one setting | calls in any order; errors of one stage govern later ones; things made on first use |
| `ControlFlowBuilder`, `ControlFlowAnalyzer` | graph of a function; sets per node and the nodes still to walk | one visit per kind of node; walk until nothing is new | errors and warnings are those of the executions | loops, jumps, modifiers; order given by addresses |
| `libyul` optimiser | AST, name dispenser, position in the sequence | 28 steps, sequences, stack compression, renaming | same behaviour, valid code, each step finds the form it needs | the user chooses the sequence; knowledge in loops; order of evaluation |
| `libyul` code generator | assembly, stack height, slots, reference counts, labels | one per kind of statement and expression | same behaviour; heights agree where paths meet | slots are reused; variables out of reach |
| `RuleList`, `ExpressionSimplifier` | | match, apply until none does | same value for all words; ends | ranges of operands; rules feed one another |
| `AssemblyItem`, `Instruction`, `SemanticInformation` | the instruction table | classification of items | the flags say what the machine does | every optimiser trusts the table |
| `PeepholeOptimiser` | position, output items | thirteen rules in order, repeated until no improvement | same behaviour, labels stay, loop ends | rules overlap and their results feed one another |
| `JumpdestRemover` | set of references | remove unreferenced labels | nothing referenced disappears | the parent assembly also references |
| `BlockDeduplicator` | `m_replacedTags` | merge equal blocks until a fixpoint | same behaviour | comparison runs through conditional jumps; blocks become equal late; replacements form chains |
| `Assembly::optimiseInternal` | items, tag replacements, tags referenced from outside | run all passes until nothing changes; apply the replacements in the parent | references resolve; assertions hold; loop ends | passes enable one another; the set of outside tags goes stale |
| `KnownState`, `ExpressionClasses` | `m_storageContent`, `m_memoryContent`, `m_knownKeccak256Hashes`, `m_sequenceNumber`, classes | `feedItem` per instruction | everything claimed is true of the machine | aliasing slots, partly overlapping words, wrap-around, calls |
| `CommonSubexpressionEliminator` | store operations, initial and target stack | `addDependencies`, `generateCode` | same final state and same loaded values | stores dropped, loads delayed |
| `Assembly::assemble`, `LinkerObject` | bytecode, positions, references, immutables | estimate, append items, subs and data, fill in, link | every reference is filled with what it is about | widths are fixed before positions are known; objects are put into one another |
| `ConstantOptimiser`, `GasMeter`, `PathGasMeter`, `ControlFlowGraph` | queues of paths, costs | walks over the code | bounds are upper bounds | joins of paths |
| `liblangutil` | scanner look-ahead, error counts | scanning, error reporting | errors limited, look-ahead consistent | |
| other parts of `libsolidity` | AST annotations, queues | resolution, checks, generation | language semantics | mostly data |

The parser meets the optimisers at the opcodes: its snippets contain
`createsignal(...)` and the others as inline assembly, which arrive in the items and
are treated by what `c_instructionInfo` says of them.  `CompilerStack` calls the
analysis and the code generators; `StandardCompiler` calls `CompilerStack`.  The
suite asks the code generator (`CompilabilityChecker`) which variables are out of
reach and compresses the stack accordingly.  The passes over items meet in
`optimiseInternal` (shared item list, shared set of tags).  Everything is sequential;
what is hard is the order of steps and calls and the number of combinations.
`PROJECT.json` lists the hazards by line.

## 2. Modules

| module | models | builds on |
|---|---|---|
| `SignalParser` | `parse.pl` | |
| `SignalContract` | the parsed contracts, deployed and called | `SignalParser` |
| `CompilerInterface` | what a user of `CompilerStack` is promised (abstract specification) | |
| `CompilerStack` | `CompilerStack.cpp`; implements `CompilerInterface` | `CompilerInterface` by INSTANCE |
| `StandardCompiler` | its users: a library client calling in any order, and `compileSolidity` | `CompilerStack` |
| `ControlFlowBuilder` | `ControlFlowBuilder.cpp` | |
| `ControlFlowAnalyzer` | `ControlFlowAnalyzer.cpp` | |
| `SolidityRuns` | the executions of a function (external), the reference for both | `ControlFlowBuilder` for the syntax |
| `EVMWords` | words and arithmetic (external) | |
| `RuleList`, `SimplifierRun` | `RuleList.h`, matching, the simplifier's loop | `EVMWords`, `YulSyntax` |
| `YulSyntax` | AST, traversal, the analyses steps share (side effects, loops, metrics, names) | |
| `YulMachine` | the interpreter of `test/tools/yulInterpreter` (reference) | `YulSyntax`, `EVMWords` |
| `YulStructure`, `YulVariables`, `YulPruning`, `YulDataFlow`, `YulFunctions` | the steps, by what they work on; the last has the table of all steps by letter | `YulSyntax`, `RuleList` |
| `YulAnalysis` | `AsmAnalysis`, `AsmScopeFiller`, the `Disambiguator` and naming | `YulSyntax` |
| `YulCodeTransform` | `EVMCodeTransform.cpp`, `CompilabilityChecker` | `YulSyntax` |
| `YulAssembly` | a stack machine for the generated code (external) | `YulCodeTransform`, `YulMachine` |
| `YulOptimiser` | `OptimiserSuite::run`, `StackCompressor::run`, optimise-then-assemble of `AssemblyStack` | `YulSyntax`, the rest as operator constants |
| `Instructions` | items and the table | |
| `Peephole` | `PeepholeOptimiser.cpp` | `Instructions` |
| `EVMachine` | a reference machine (external), to compare code by running it | `Instructions` |
| `PeepholeRun` | generation of items and the peephole loop | `Peephole` |
| `AssemblyOptimiser` | `optimiseInternal` with `JumpdestRemover`, `PeepholeOptimiser`, `BlockDeduplicator`, and the parent's update | `Peephole` |
| `KnownState` | `KnownState.cpp`, `ExpressionClasses.cpp`, next to the machine | |
| `CSECodeGenerator` | which stores and loads the generator keeps | `KnownState` |
| `Assembler` | `Assembly::assemble`, `LinkerObject` | |
| `MC...` | instances for TLC; `MCPeephole` and `MCAssemblyOptimiser` also compare code before and after by running it on `EVMachine` | |
| `Induction` | induction over the rounds of a loop, for the proofs | |
| `KnownStateProofs` | theorems about `KnownState` | `Induction` |
| `SignalContractProofs` | theorems about `SignalContract` | |
| `ControlFlowProofs` | theorems about `ControlFlowAnalyzer` | |
| `PeepholeProofs` | what a rule and a scan keep | `Peephole`, `Induction` |
| `PeepholeRunProofs` | theorem about `PeepholeRun` | `PeepholeProofs` |
| `AssemblyOptimiserProofs` | theorems about `AssemblyOptimiser` | `PeepholeProofs` |
| `AssemblerProofs` | theorems about `Assembler` | `Induction` |

`YulOptimiser` and `ControlFlowAnalyzer` take the steps, the code generator, the
graph and the reference semantics as operator CONSTANTS, which the `.cfg` binds to
the modules that define them: the order of steps is then a module that says nothing
about a single step, and the walk over a graph one that says nothing about its
construction.

### Correspondence

*Peephole.*  A rule is an operator on the items and a position: the empty set for
"does not apply", otherwise how many items it consumes and what it emits
(`OptimiserState` and `applySimple`).  `applyMethods` takes the first that matches,
in the order of the call in `optimise`; `OptimisedItems` is one scan, `Improves`
decides whether the result is kept.  The instruction table holds at least one
representative of every kind the rules tell apart; the AND and OR of constants in
the rules work on the binary digits (`Bits`).  Tag addresses are tag ids and
fit under `TagMask`, as addresses fit under `0xFFFFFFFF`.

*AssemblyOptimiser.*  `items`, `outside`, `replacedTags` and `tagReplacements` are
`m_items`, `_tagsReferencedFromOutside`, `m_replacedTags` and the local map.  Each
pass is an action; `deduplicate` is one iteration of the loop inside
`BlockDeduplicator::deduplicate`.  `entries` is the parent: the tags it pushes, and
what it pushes for them after `applyTagReplacement`.  `Resolve` is the inner
loop of `applyTagReplacement`, which follows a chain of replacements to its end; a
chain without an end would keep it going forever, so the actions that call it require
`ChainsEnd`, and `OptimiserTerminates` would fail if such a chain arose.  `runCSE` and
`runConstantOptimiser` are off.  The comparator of the `std::set` is modelled by the
content it compares.  `m_subs` nested deeper than one level repeat the same step
and are left out.

*KnownState.*  A class is a base expression and an offset, which is the normal form
the rules for ADD and SUB reach on addresses; other rules of `RuleList.h` are not
modelled, and differences are taken as simplified whenever the bases agree, which
is the strongest the rules can do.  The stack is the set of operands that were
computed, each with the class the eliminator gave it and the value the machine
has.  `storeInStorage`, `storeInMemory`, the loads and `applyKeccak256` follow the
code, including the early return, the two increments of the sequence number and the
limit of four words.  `FeedCALL` is the invalidation plus the start of a new
block: the driver makes a new eliminator per block, but `getOptimizedItems` feeds the
breaking item to the state that is used on, and `PathGasMeter` keeps the state across
calls.  `Initial` and `AfterCall` are the contents of storage and memory that the
code may find and that a call may leave.  The result of the call is not kept as an operand.  An access above the top
of the address space runs out of gas (`InMemory`).  The powers, words and hashes
(`Power`, `WordAt`, `Hash`) are recursive functions, about which the proofs can reason.

*CSECodeGenerator.*  `StoreGroups` is `m_storeOperations`, `Needed` the closure that
`addDependencies` builds, `NotAvailable` the exceptions after which the caller keeps
the original block, `KeptStores` the stores that are emitted in order.  The
placement on the stack is left out.

*Signals.*  A line of the file is a record, a prototype is a name with the lists
appended to it, and its hash is the prototype itself.  `Write` is the author,
`ParseLine` an iteration of the Perl loop; `Deploy`, `create_signal`,
`delete_signal`, `bind`, `detach` and `emit` execute the snippets.  `live` and
`subscribed` record what the source asks for.  Target lists, delays, ratios, roles
and methods are data the parser copies and are left out, as are lines
without signals.  `create_handler` and `delete_handler` of the repository's README
have no code in `parse.pl`.

*Compiler.*  `stack` is the object; a call is an operator from its state to the next
one, with what it returned or threw in `answer`.  Each setter has the check of
`m_stackState` the code has; `parse` loads missing sources and remaps imports;
`toposort` is `resolveImports`; `analyze` goes through its stages with its early
returns; `compileContract` compiles dependencies first and makes every product at
most once; metadata is made by whoever asks first.  A program says which sources
there are and what they import, and where parsing, each stage of the analysis and
code generation fail.  `CompilerInterface` has five stages (`open`, `fixed`,
`rejected`, `accepted`, `compiled`) and what can be read in them;
`ImplementsInterface` maps the stack to it.  `compileSolidity` is one action: it
makes a stack, takes it through the calls and returns the output.

*Control flow.*  A node of the AST is a kind with children and a location (a set of
positions).  `Visit(n)` is the sequence of what the visit of `n` does to the graph:
create nodes under a label, connect, make current, add an occurrence; `Step`
performs one.  Each construct lists its steps in the order of the code.
`for` and `if` of inline assembly do the same steps as those of Solidity.  The
analyser takes the lowest address of `nodesToTraverse` (`order` says how the nodes
lie in memory), walks the occurrences, hands the sets on to the exits and queues those
where something was new.  `SolidityRuns` executes the function with conditions that
go either way, to the fixpoint of its loops; modifiers are put around by `_`.

*Yul.*  A name is a word with the numbers the dispenser appended, so that new names
and their clashes are those of the code.  Every step is an operator from the AST
(and the dispenser) to the AST and follows its class: the same order of traversal,
the same sets, the same conditions.  Gas and size estimates that decide whether a
rewriting is worth while are kept where they are a matter of control
(`CodeSize`, `CodeCost`, thresholds of the inliner) on the model's words.
`DataFlowAnalyzer` is a state (values, references, storage, memory) that the
steps built on it read.  The code generator's state is described at the top of
`YulCodeTransform`; assertions of the code set `failed`.  The machine shows in
its log what memory a `log0`, `create` or `revert` is given, and a created contract
calls back, which is stronger than the interpreter of the tests.

*Assembler.*  `measure` is the estimate, `appendItem` one item of the loop,
`appendSub`, `fillTags`, `appendData` and `finish` the rest of `assemble`; `link`
patches the addresses that are known.  A tree of assemblies is assembled sub by sub;
`objects` are the results.  A failed assertion is a state of its own.

## 3. Runs

| run | property | what it shows |
|---|---|---|
| `peephole` | `BehaviourPreserved` | code that ends regularly ends in the same way, with the same stack and effects |
| | `LabelsKept` | labels stay, no reference appears |
| | `PeepholeTerminates` | the loop ends |
| `optimiser` | `TagsResolved` | every tag the code pushes has its label in the code |
| | `EntriesPreserved` | the tags the parent pushes have labels; code entered at the start or there behaves as before |
| | `ReplacementsNew` | the assertion "Replacement already known." fails only for a tag that is kept for the parent |
| | `OptimiserTerminates` | the loop over the passes ends |
| `eliminator_storage` | `ClassesSound`, `StorageKnowledgeSound` | equal class, equal value; claimed contents are there |
| | `GeneratedCodeEquivalent` | kept stores and loads do what the block did, for every target stack |
| | `SequenceNumbersSeparate` | a store shares its number with no load and no store |
| `eliminator_memory` | `ClassesSound`, `MemoryKnowledgeSound`, `GeneratedCodeEquivalent` | the same for overlapping words and hashes |
| `signal_contract` | `BindingsAsWritten` | bindings are what the source asks for, in any order of calls |
| | `DeclaredSignalsCreated` | the constructor creates the signals declared above it |
| | `EmitReachesSubscribers` | an emit reaches exactly the subscribers |
| `simplifier` | `MeaningPreserved` | every rule keeps the value, for all words, wherever it applies |
| | `SimplificationEnds` | no expression is rewritten more than a few times |
| `yul` | `BehaviourPreserved` | logs, storage and end of the program are the same after every step of every sequence |
| | `CodeValid` | the code passes the analysis after every step |
| | `Prerequisites` | a step finds unique names and the other forms its header requires |
| | `HeightsBalanced` | the generator's assertions about heights hold, also after a variable was out of reach |
| | `CodeDoesAsWritten` | code without stack errors does what the program does |
| `compiler` | `NoCodeWithErrors` | no code of a program with errors can be read |
| | `AnalysedInOrder` | imports come first, cycles aside |
| | `RequestsServed` | the output has what the selection asks for |
| | `ImplementsInterface` | refinement: the stack implements `CompilerInterface` |
| `assembler` | `SpaceSuffices` | references have the room they need, or the assertion fails where the estimate is known to be too small |
| | `ReferencesRight` | read back, tags, subs, data and sizes are where the code says they are |
| | `LinksRight` | linking writes the addresses into the pushes of the libraries, and only there |
| | `ImmutablesWritten` | assigning an immutable writes all places that read it |
| `control_flow` | `PathsWalked` | only queued nodes have something to hand on: what was walked is settled |
| | `AccessesReported` | what an execution that returns uses unassigned is an error |
| | `ReportsReal` | there is no other error |
| | `WarningsRight` | the code warned about is the code nothing reaches |
| | `AnalysisEnds` | the walk ends |

`optimiser`, `eliminator_storage` and `signal_contract` check `TypeOK` as
well.  The `compiler` run checks for deadlock: some call can always be made.
In the others the modelled program ends, and deadlock is not checked.

Bounds.

* `MaxItems = 4` covers every rule (the longest looks at four items) and pairs of
  rules of two items each.  `Alphabets` keeps stack items and jump items apart:
  together they would exceed the time available.  Words have 8 values, three entry
  `Stacks` of four elements make operands equal, zero and different.  `Fuel`
  bounds the reference machine: 10 for code of four items, 20 for programs;
  code that is still running then is not compared.
* Programs of the optimiser have four blocks that stop, revert, jump anywhere or
  branch and fall through, or five blocks, three of which push two tags and jump:
  there blocks become equal only after others were merged.  One more program has a
  block that is merged twice (`TwiceReplaced`).  The parent pushes no tag or any one
  (`MaxEntries = 1`).
* `MaxSteps` of the eliminator: four items for storage and three for memory, enough
  for a load, a store to an alias, and a second load.  `UnknownValues = {0, 1}` make
  the two unknown stack elements coincide with each other, with a literal, or with
  neither.  `WordSize = 2` is the smallest size where words can overlap partly; `Base`
  is 2 or 4.  `Lengths = {4}` hashes two words.  The initial contents
  differ from slot to slot; a call leaves everything as it is or clears what the run
  is about.
* `MaxLines = 7` with `MaxContracts = 2`: an emitter with signal, constructor and
  emit, and a receiver with handler and bind, in any order, or with detach in place
  of another line.
* `simplifier`: words of two bytes of two bits and addresses of three bits, so that
  shifts, bytes and masks reach and pass their limits.  Every pattern is
  instantiated with constants from `Literals` and with unknowns, which take all of
  `Samples`.  `MaxRounds = 3` rules in a row at one place.
* `yul`: 24 pieces and 9 probes, each a part of a program made for an interaction
  (loops with break and continue, nested functions, shadowing, overlapping memory
  words, writes through unknown slots, calls with calls as arguments).  Pairs of
  pieces go through the default sequence with stacks of depth 16, 4 and 3, which make
  the compressor and the errors of the generator act; probes through the default
  sequence and through any one step followed by the hoister; three pairs through any
  two steps.  Code generation alone is tried on all of them with depth 3, 5 and 16,
  with and without reuse of slots.  Words have two bytes of two bits.  `MaxSteps` and
  `MaxInstructions` bound runs of programs; a program still running then is not
  compared.  `MaxRounds = 12` and `MaxIterations = 16` are the code's own limits.
* `compiler`: nine programs: correct, cyclic, with a missing file that is not
  needed under a remapping, a recoverable and a fatal syntax error, a contract that
  cannot be compiled, and errors in three stages of the analysis.
  `LateRequests` and `ReuseAfterImport` are FALSE: both users in the repository
  request contracts before the analysis and use a stack once.
* `assembler`: bytes have four values, a word and the estimate of a size four bytes, an
  address two; sizes lie around one, two and three digits, where the widths change.
* `control_flow`: 24 statements, all pairs of them, all triples of seven, one
  modifier of five around each, two of four around seven.  Nodes lie in rising,
  falling or mixed order.  A modifier has at most one `_` on a path: with more, the graph has
  paths that enter by one and leave by another.

Fairness.  `PeepholeRun` assumes weak fairness of `optimise`, `AssemblyOptimiser` and
`ControlFlowAnalyzer` of their next-state relations: these are loops of one thread that
nothing interrupts.  The liveness properties then say that the loops end.  No other
module has fairness.

### Disagreements between the code and what the repository says of it

| run | property | what TLC shows |
|---|---|---|
| `peephole_signal` | `EffectsKept` | `CREATESIGNAL POP` becomes `POP`: the table says the signal opcodes have no side effects |
| `control_flow_late` | `EveryAccessReported` | nodes behind a branch are never walked if nothing is unassigned at the branch, so a pointer declared behind it escapes the analysis |

`AccessesReported` therefore has the premise `DeclarationsWalked`.  The other passing
runs leave the cases below out by their parameters (`Alphabets`, `Instrs`, `Lengths`,
`runJumpdestRemover`, `Tasks`, `Programs`) or by a stated premise (`DeclaredOnce`,
`DeclaredFirst`).

### Observations

TLC finds counterexamples to these, too, when the property is added to a
configuration with the values given:

* `SignalsKept` (`CSECodeGenerator`, `Instrs = {"CREATESIGNAL", "DELETESIGNAL"}`):
  the eliminator drops or merges `CREATESIGNAL`.  The Yul optimiser may do the same.
* `ReplacementsNew` (`AssemblyOptimiser`, `runJumpdestRemover = FALSE`): the assertion
  "Replacement already known." (`Assembly.cpp:454`) fails.  With all passes on it fails as
  well, in the state `exception` of the `optimiser` run: in `TwiceReplaced` with 5 pushed
  by the parent, the first round replaces 3 by 1 and then 5 by 3, in the order of the
  map, so the parent keeps 3, and the second round replaces 3 by 2.  `ReplacementsNew` says
  that nothing else makes it fail.
* `ClassesSound` (`KnownState`, `Lengths = {1, 2}`): hashes of one word with two
  lengths get one class (`KnownState.cpp:383`).
* `SignalsAsWritten` (`SignalContract`): `delete_signal` zeroes the key before it uses
  it (`parse.pl:80`).
* `OutputCompiles` with two contracts: the constructor of the second names
  signals of the first (`parse.pl:319`).
* `SameNamedHandlersBound` with two contracts: equally named handlers get their types
  appended twice (`parse.pl:169`).
* `CodeValid` with `Tasks <- HoisterTasks` (`MCYul`): `Suite.cpp:101` runs "fgo"
  although the comment above it wants the hoister, whose letter is h; renaming then
  shadows a variable.
* `RecoveryProgresses` with `Programs <- MissingImport` (`MCCompiler`): with error
  recovery, an import that is not found fails the assertion at `CompilerStack.cpp:1028`.

Met while reading the code for the models:

* `Assembly::assemble` estimates references to subs, data and the program size with
  the width of tags but writes them wider: with several of them, a large sub and code
  just under a limit, "Tag too large for reserved space." fails.  A sub pushed
  several times is appended each time and counted once; data references have no
  assertion, so an offset can be cut off.  `subTagSize` is a position used as a number
  of bytes.  A second assignment of an immutable stores nothing.
* `CompilerStack::reset` keeps `m_importedSources`, `m_parserErrorRecovery`,
  `m_requestedContractNames` and `m_generateEvmBytecode`, although its header says that
  all settings are reset.  Early returns of `analyze` do not set `m_hasError`.
  Compiling again with other requests can leave unlinked objects in
  `CompilationSuccessful`.  `generateEwasm` asserts IR for abstract contracts
  (`CompilerStack.cpp:1156`).  `ewasm.wasm` alone counts as a binary request but not as an
  Ewasm request.  With error recovery `ast()` may find no AST
  (`CompilerStack.cpp:851`).
* In the control flow graph, the left side of an assignment comes before its right side
  (`AST_accept.h:737`), so `s = f(s)` with an unassigned `s` is not reported; the location of
  a node may span a modifier and arguments far from it; `for (;;)` is taken to end.
  The model's functions avoid these.
* In `libyul`: the budget of `KnowledgeBase::simplify` is shared between calls, since its
  guard is a temporary; `DataFlowAnalyzer::clearValues` inserts into the set it iterates
  over; `StackCompressor`'s test for references to the variable never holds;
  `CallGraphGenerator` can miss functions on cycles.  These only lose
  optimisations.  `FullInliner` on calls whose arguments are calls changes the order
  of evaluation; its header asks for split expressions.

## 4. Proofs

Each theorem has the form `Spec => []P` for a property `P` of the runs (one states an
action property, one a property of its own), and holds for every value of the constants that
satisfies the named assumptions.  Each goes through an inductive invariant: `Init`
implies it, every step keeps it (one lemma per action), and it implies the property.

### Knowledge of the eliminator (`KnownStateProofs`)

`KnowledgeTypeCorrect` (`TypeOK`), `StorageKnowledgeCorrect`
(`StorageKnowledgeSound`), `MemoryKnowledgeCorrect` (`MemoryKnowledgeSound`) and
`ClassesCorrect` (`ClassesSound`) hold for blocks of all instructions, of any length,
over words of any number of bytes of any size, for any contents of storage and memory at the
start and after calls (`SizesAssumption`).  They have one premise, `LengthsDistinct`:
of the lengths that are hashed and not longer than four words, no two take the same
number of words.  Without it `ClassesSound` is false, see the observations.

None of the properties is inductive.  `KnowledgeInv` is `Knowledge` about the current
operands, maps and machine:

* `AllOperands`: operands are over words, and `Coherent`: values of classes over one
  base differ as their offsets do.  This is what makes `knownToBeDifferent` and
  `knownToBeDifferentBy32` right.  `ClassesSound` is the case of equal offsets.
* `Known`, for storage and for the words of memory: `SoundFor` is the property;
  `WitnessedBy` says that the classes a map mentions are classes of operands, for
  otherwise a new operand could get a class about which the map already claims
  something; `Fresh` says that a load with the current sequence number belongs to a slot
  that is still in the map, so that a load of an unknown slot gets a new class.  The
  two increments around a store and the one after a call keep it true.
* `InRange`: known words lie in memory, so that words that are far apart by
  `knownToBeDifferentBy32` share no byte (`FarApart`).
* `SignalsAlike`, `ConstsAlike`: classes whose base alone gives the value.
* `HashesKnown`: a hash in `m_knownKeccak256Hashes` is that of the values of the classes
  it is found by.  `HashesFresh`: a hash class with the current sequence number is that of
  memory as it is now.

The lemmas before are about memory: a word is the sum of its digits and below
`Modulus` (`WordAtTyped`), what was written is read (`WordAtWritten`), nothing else
changes (`WordAtElsewhere`), writing what is there changes no byte (`WrittenAgain`, which
justifies the early return of `storeInMemory`), and the hash of words is the hash of
their bytes (`HashOfWords`).  `applyKeccak256` is shown by induction over its loads
(`OneMoreLoaded`, `AllLoaded`) and then for the three ways to a class (`HashAdded`).

`SequenceNumbersCorrect` (`SequenceNumbersSeparate`) has no premise.  `NumbersInv`: the
current number is odd, classes of loads have odd numbers, also those that only maps
mention, stores have even ones below the current number, in rising order.

### Signals (`SignalContractProofs`)

`SignalTypeCorrect`, `SignalBindingsCorrect` (`BindingsAsWritten`), `SignalsCreatedCorrect`
(`DeclaredSignalsCreated`) and `SignalEmitCorrect` (the action property
`EmitReachesSubscribers`) hold for files with any number of lines, contracts, names and
types (`BoundsAssumption` only makes the bounds numbers).  `ContractInv` adds to the
properties `ParserInv` (the arrays of the parser hold what was declared so far, and every
snippet written is the one its line asks for), `Idle` (nothing is deployed before parsing
is done), `KeysSet` (a deployed contract has the keys its declarations set) and
`FromBindLines` (what is subscribed was bound by a line of the file).  The step that needs
all of them is `bind`: the prototype that the parser put together from an earlier line has
to be the key that another contract's constructor used.

### Control flow (`ControlFlowProofs`)

`FlowPathsWalked` (`PathsWalked`) and `FlowReportsLeast`: for every graph
(`FlowAssumption`: arcs lead to nodes) and every order of its nodes in memory, the
analysis is settled when its queue is empty, and what it reports are the accesses of the
least solution of the flow equations; the errors hence do not depend on addresses.
`FlowInv` adds `QueuedWalked` and `BelowSolutions` (the sets never exceed any solution).

### Peephole and driver (`PeepholeProofs`, `PeepholeRunProofs`, `AssemblyOptimiserProofs`)

`PeepholeLabelsKept` (`LabelsKept`), for code of any length over any alphabet of items
(`AlphabetsAssumption`: operations are in the table): each of the thirteen rules is sound
for labels and references (`LocalRulesSound`, `OpPopSound`, `UnreachableCodeSound`), hence
`applyMethods` is, hence, by induction over the position, a scan (`ScanSound`).
`PeepholeInv` adds that the items are those of the alphabets or operations.

`OptimiserTagsResolved` (`TagsResolved`), for any programs whose tags have labels
(`ProgramsAssumption`, `TagsAssumption`) and any number of rounds.  `OptimiserInv` says of
the current items what the property says, and, while `deduplicate` runs, that the
replacements lead to labels.  `RemoveJumpdestsSound` is by induction over the items,
`ResolveSound` follows a chain, `DuplicatesAreLabels` says that the first block with a
given content is a block.

`OptimiserTypeCorrect` (`TypeOK`) follows from the same invariant; `UpdateOutsideSound`
goes through the fold over the replacements in the order of their tags.
`OptimiserReplacementsNew` (`ReplacementsNew`) has the premise `runJumpdestRemover`, without
which it is false.  `FreshInv` says where a tag that was replaced can still be: it is not
pushed by the code any more, and after the next run of `JumpdestRemover` it labels nothing,
unless the parent keeps it; the other passes bring neither back, which for the peephole
rules is part of `SameLabels`.  If the parent pushes nothing, `outside` is empty and the
assertion holds.

### Assembler (`AssemblerProofs`)

`AssemblerSpaceSuffices` (`SpaceSuffices`): for any tree of assemblies with any items, data
and auxiliary data (`TreesAssumption`, see below),
any number of values of a byte and any sizes of words and addresses
(`BaseAssumption`, `BytesAssumption`), widths that are fixed from the estimate hold what is
written with them.  Positions of tags of subs fit without a premise, because the
estimate starts from the largest of them as the number of bytes of a tag.  The own tags fit
if references to data are as wide as those to tags, and no size exceeds the bytes the
estimate has for it; the size of the whole fits if, moreover, every sub is pushed once.
In the trees of the
`assembler` run (`Tight`), own tags do not always fit where references to data are
wider, and sizes do not where a sub is pushed several times.

`AssemblerInv` relates the code to the estimate while it grows: the code of the items so far
is no longer than their terms (`ItemsInv`), with the subs appended so far
(`SubsInv`) and the data (`DataInv`) no longer than these terms as well, and what is
done fits (`Fits`).  The estimate is a sum, so the lemmas are about sums
(`SumChanged`, `TermBelowSum`, `PartSound`), powers and numbers of digits
(`NumberBytesSound`); `TagSizeSound` shows that the search for a width in `bytesRequired`
ends (the code grows at most linearly with the width, powers faster);
`BytecodeSound` compares what each kind of item emits with what the estimate has for it;
`SubFound` follows a path of sub numbers.

`AssemblerReferencesRight` (`ReferencesRight`), for the same trees: bytecode that is no
longer than its widths can tell means what the items say.  The proof is that of
`AssemblerRight`, the invariant `RightInv`, in which `st` has the offsets at which the
items start:

* `Layout`: each item is in the code where the one before it ends, a gap where a reference
  is open; `Tagging`: tags have the positions of their items, every tag with a position has
  an item, and the error tag has the position of something that is no `JUMPDEST`.
* `References`: what is listed to be filled in are the references of the items, at the byte
  behind the push.
* `ItemsRight`, `SubsRight` and `DataRight` say which references are filled in by now;
  `Right` says it of the assemblies that are done.  `Points` needs the cells pointed to
  *behind* the items: this is why filling in one reference changes neither an item nor what
  another reference points to (`Refilled`, `Rewritten`, `PointsKept`).

Filling in is the same lemma for subs and data (`PointsWritten`), which are appended and
pointed to in one step, once for all references of that piece.  Then the code is read back:
`ReadBack` says that a number is read as it was written if it fits the bytes, `StartsAre`
that reading instruction by instruction finds the items at `st`, and `MeansRight` goes
through the kinds of items.  References to another assembly use that what is done does not
change (`SameObjects`).

`AssemblerImmutablesWritten` (`ImmutablesWritten`), for the same trees: whatever immutable a
sub reads is assigned by the assembly that uses the sub, and the only assignment of an
immutable stores it to every place the sub reads it from.  It rests on what `RightInv` says
besides: the places recorded for an immutable are behind the pushes that read it
(`Recorded`); no two subs read immutables (`OneReads`), so that the places of one sub are
not lost for those of another; what is read is either still to be assigned or an item
before `next` assigns it, so that the check in `endOfItems` leaves none out
(`AllAssigned`); and the code of an assignment has a store to each place (`StoresTo` in
`ItemAt`).  An item that is the only one to assign finds all places (`PlacesAwaited`);
one that comes second finds none, which is why the property speaks of the only one.

`AssemblerLinksRight` (`LinksRight`), for the same trees: in a program whose positions fit,
as those of the programs before it do, the link references are exactly the places
where a library address is pushed, in its own code and in that of the subs in it, at any
depth; linking writes addresses at those that are resolved, and nowhere else.  `Linking`,
part of `RightInv`, says that while the code grows: link references are the library
pushes so far and those of the subs appended so far, moved to where these are
(`Collected`, `Positioned`), and the addresses behind them do not overlap (`Spread`).
`LinksMoved` is `LinkerObject::append`; `PushesListed` is by induction over the
assemblies, as pushes are read through the subs; `AddressesFilled` is `link`.  The
property speaks of all programs up to this one because a sub whose own positions do not
fit cannot be read back, whatever the program around it does.

`TreesAssumption` says what the assembler relies on and does not check: subs, data and paths
that are referred to exist, and subs come before those that use them (`Assembly.h`:
`newSub`, `newData` and `encodeSubPath` make them first); tags are numbered from 1, 0 being
the error tag (`m_usedTags` starts at 1); and `JUMPDEST` comes from tags only (inline
assembly may not use it, `AsmAnalysis.cpp:620`, and `EVMDialect.cpp:127` has no function
for it).

### How recursion is dealt with

The provers cannot instantiate the library's induction theorems.  `Induction` states
instead that a set of numbers that contains 0 and with every number its successor
contains all (`NumbersUpTo`, by the least counterexample, `LeastNumber`), and that every
loop has a history (`Iteration`), from which the existence of a recursive function follows.

### Only model checked

* All liveness: the prover does not handle fairness.
* What compares code with executions: `BehaviourPreserved` of `PeepholeRun`,
  `EntriesPreserved`, `AccessesReported`, `ReportsReal`, `WarningsRight`,
  `GeneratedCodeEquivalent`.  The reference machines are RECURSIVE operators.
* The rules of the simplifier, `libyul` and its code generator, whose syntax trees need
  RECURSIVE operators.
* The compiler stack and its refinement: loading sources and sorting contracts are
  recursions over what they import and inherit from, with errors in between.

## 5. Not modelled, and the plan

The implementation has about 111,000 lines.  Most of them are not state and control:
type rules (`Types.cpp`, `TypeChecker.cpp`), the text of generated code
(`YulUtilFunctions.cpp`, `IRGeneratorForStatements.cpp`, `ExpressionCompiler.cpp`),
AST classes and the parser, SMT encodings, output formats, the command line.  A model
of them would repeat their tables.  The project maps about a tenth of the lines: the
parts where order, knowledge or interaction decide about correctness.

Next, in this order:

1. Proofs: that the compiler stack has no code of a program with errors
   (`NoCodeWithErrors`) and that its setters implement those of `CompilerInterface`,
   with the loops over sources and contracts as histories (`Induction`); that
   `outside` covers the parent's entries; that the suite
   keeps the behaviour if every step does (`YulOptimiser`, behind a variant of `YulSyntax`
   without RECURSIVE operators).
2. `PathGasMeter`: the queue of paths and what it drops; the bound it returns against
   a machine with gas.
3. The stack layout of `CSECodeGenerator` (`generateClassElement`), and
   `KnownState::reduceToCommonKnowledge`.
4. `SignalContract` against an abstract publish/subscribe specification by
   refinement.
5. C3 linearisation in `NameAndTypeResolver`, `OverrideChecker`, `ConstantOptimiser`,
   `liblangutil` (`ErrorReporter`, `ParserBase`, `SemVerHandler`), the function queue of
   `CompilerContext`.
