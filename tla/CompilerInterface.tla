-------------------------- MODULE CompilerInterface --------------------------
(***************************************************************************)
(* What a compiler stack promises to its users, independently of how it    *)
(* loads sources, orders them, recurses into dependencies and caches       *)
(* results: the task is fixed once parsing has begun, only a program       *)
(* without errors is accepted, and what is delivered for a contract is a   *)
(* function of the program and of the task.                                *)
(***************************************************************************)
EXTENDS Integers, Sequences, SequencesExt, FiniteSets

CONSTANTS
    Programs,       \* the programs that may be given
    Tasks           \* records of settings

VARIABLES
    program,        \* the program of this behaviour
    task,           \* the settings that count
    stage,          \* "open", "fixed", "rejected", "accepted" or "compiled"
    delivered       \* the products that can be read

interfaceVars == <<program, task, stage, delivered>>

-----------------------------------------------------------------------------
(* The meaning of a program                                                *)

\* Of the remappings that apply, the ones with the longest context count,
\* of these the ones with the longest prefix, and the last of them.
Remapped(remappings, path, context) ==
    LET applies(r) == IsPrefix(r.context, context) /\ IsPrefix(r.prefix, path)
        closer(i, j) ==
            LET a == remappings[i]  b == remappings[j] IN
                \/ Len(a.context) > Len(b.context)
                \/ /\ Len(a.context) = Len(b.context)
                   /\ \/ Len(a.prefix) > Len(b.prefix)
                      \/ Len(a.prefix) = Len(b.prefix) /\ i > j
        active == {i \in DOMAIN remappings : applies(remappings[i])}
    IN  IF active = {}
        THEN path
        ELSE LET best == remappings[CHOOSE i \in active :
                                        \A j \in active \ {i} : closer(i, j)]
             IN  best.target \o SubSeq(path, Len(best.prefix) + 1, Len(path))

\* The sources a source imports.  An imported AST names them as they are.
Imports(p, t, path) ==
    {IF t.language = "AST" THEN i ELSE Remapped(t.remappings, i, path) :
        i \in Range(p.imports[path])}

\* Everything that is reached from a set of sources.
Closure(p, t, from) ==
    LET grow[n \in Nat] ==
            IF n = 0 THEN from
            ELSE LET s == grow[n - 1] IN s \cup
                    UNION {Imports(p, t, q) : q \in s \cap Range(p.names)}
    IN  grow[Len(p.names)]

\* A source, or a contract, is asked for if nothing or everything is asked
\* for, or it is named.
Wanted(t, path, name) ==
    \/ t.requests = {}
    \/ \E r \in t.requests : r.file \in {<<"*">>, path} /\ r.name \in {"*", name}
WantedSource(t, path) ==
    t.requests = {} \/ \E r \in t.requests : r.file \in {<<"*">>, path}

\* The sources that are loaded, and the ones that are looked at.
Loaded(p, t) == IF t.language = "AST" THEN p.given ELSE Closure(p, t, p.given)
Analysed(p, t) == Closure(p, t, {q \in Loaded(p, t) : WantedSource(t, q)})

\* A program is correct if all sources exist and have no syntax errors, and
\* the ones that are looked at have no other errors.
Correct(p, t) ==
    /\ IF t.language = "AST"
       THEN Analysed(p, t) \subseteq p.given
       ELSE \A q \in Loaded(p, t) : q \in p.given \cup p.files /\ p.syntax[q] = "ok"
    /\ \A q \in Analysed(p, t) : p.fault[q] = "none"

\* The contract that a name means in a source.
Meant(p, t, path, name) ==
    CHOOSE c \in {<<q, name>> : q \in Closure(p, t, {path})} : name \in Range(p.contracts[c[1]])

Needed(p, t, c) == {Meant(p, t, c[1], n) : n \in p.needs[c[2]]}

\* The contracts whose code is inside the code of a contract.
Embedded(p, t, c) ==
    LET grow[n \in Nat] ==
            IF n = 0 THEN Needed(p, t, c)
            ELSE LET s == grow[n - 1] IN s \cup UNION {Needed(p, t, d) : d \in s}
    IN  grow[Cardinality(DOMAIN p.needs)]

Contracts(p, t) == UNION {{<<q, n>> : n \in Range(p.contracts[q])} : q \in Analysed(p, t)}

Deployable(p, t) == {c \in Contracts(p, t) : c[2] \notin p.abstract}

\* What is delivered for a contract, for each kind of output.  Bytecode is
\* linked, and carries the hash of the metadata.
Product(p, t, c, kind) ==
    [contract |-> c, kind |-> kind, version |-> t.version,
     embedded |-> Embedded(p, t, c),
     linked   |-> kind = "evm",
     metadata |-> IF kind # "evm" THEN {}
                  ELSE {[version |-> t.version, language |-> t.language,
                         remappings |-> t.remappings,
                         sources |-> Closure(p, t, {c[1]})]}]

Products(p, t) ==
    {Product(p, t, c, k) : c \in Deployable(p, t), k \in {"evm", "ir", "ewasm"}}

\* What must be there after a compilation.  Ewasm code is made from IR.
Requested(p, t) ==
    {d \in Products(p, t) :
        /\ d.kind \in t.kinds \/ (d.kind = "ir" /\ "ewasm" \in t.kinds)
        /\ Wanted(t, d.contract[1], d.contract[2])}

-----------------------------------------------------------------------------
rank == [open |-> 0, fixed |-> 1, rejected |-> 2, accepted |-> 2, compiled |-> 3]

Init ==
    /\ program \in Programs
    /\ task \in Tasks
    /\ stage = "open"
    /\ delivered = {}

\* Before parsing everything may be set, before analysis still what is
\* wanted.
Configure ==
    /\ stage \in {"open", "fixed"}
    /\ task' \in Tasks
    /\ stage = "fixed" =>
        \A f \in {"version", "language", "remappings"} : task'[f] = task[f]
    /\ UNCHANGED <<program, stage, delivered>>

\* One call may go through several stages.  A rejected program has an error in
\* some source, if not in one that is wanted now.  Settings may be given by the same
\* call as long as nothing has been parsed.
Advance ==
    /\ stage' \in DOMAIN rank /\ rank[stage'] > rank[stage]
    /\ task' \in Tasks /\ (stage # "open" => UNCHANGED task)
    /\ stage = "rejected" => stage' # "compiled"
    /\ stage' \in {"accepted", "compiled"} => Correct(program, task')
    /\ stage' = "rejected" => ~ Correct(program, [task' EXCEPT !.requests = {}])
    /\ IF stage' = "compiled"
       THEN /\ delivered' \subseteq Products(program, task')
            /\ Requested(program, task') \subseteq delivered'
       ELSE UNCHANGED delivered
    /\ UNCHANGED program

Restart ==
    /\ stage' = "open" /\ delivered' = {}
    /\ task' \in Tasks
    /\ UNCHANGED program

Next == Configure \/ Advance \/ Restart

Spec == Init /\ [][Next]_interfaceVars

=============================================================================
