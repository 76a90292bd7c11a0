------------------------------ MODULE MCCompiler ------------------------------
(* Programs, settings and selections for the compiler stack.               *)
EXTENDS StandardCompiler

a == <<"a">>
b == <<"b">>
lib == <<"l", "x">>
new == <<"m", "x">>

\* Source b creates contract A of source a, which creates the L of a library
\* that may be remapped; I is an interface.
Base ==
    [names |-> <<a, b, lib, new>>,
     given |-> {a, b}, files |-> {lib, new},
     imports |-> (a :> <<lib>> @@ b :> <<a>> @@ lib :> <<>> @@ new :> <<>>),
     contracts |-> (a :> <<"A">> @@ b :> <<"I", "B">> @@ lib :> <<"L">> @@ new :> <<"L">>),
     syntax |-> [p \in {a, b, lib, new} |-> "ok"],
     fault |-> [p \in {a, b, lib, new} |-> "none"],
     needs |-> [A |-> {"L"}, B |-> {"A"}, I |-> {}, L |-> {}],
     abstract |-> {"I"},
     uncompilable |-> {}]

Cyclic == [Base EXCEPT !.given = {a, b, lib}, !.imports[lib] = <<b, lib>>, !.imports[b] = <<lib, a>>]

MCPrograms ==
    {Base, Cyclic,
     [Base EXCEPT !.files = {new}],
     [Base EXCEPT !.given = {a, lib}, !.syntax[a] = "recoverable"],
     [Base EXCEPT !.syntax[b] = "fatal"],
     [Base EXCEPT !.uncompilable = {"A"}],
     [Base EXCEPT !.fault[b] = "undeclared"],
     [Base EXCEPT !.fault[b] = "signature"],
     [Base EXCEPT !.fault[lib] = "type"]}

MissingImport == {[Base EXCEPT !.files = {}]}

MCRemappings ==
    {<<>>,
     <<[context |-> a, prefix |-> <<"l">>, target |-> <<"m">>],
       [context |-> <<>>, prefix |-> lib, target |-> lib]>>}

MCRequests ==
    {{}, {[file |-> a, name |-> "*"]},
     {[file |-> b, name |-> "B"], [file |-> <<"*">>, name |-> "L"]}}

MCKinds == {{"evm"}, {"evm", "ewasm"}}

MCSelections ==
    LET one(f, n, x) == [file |-> f, name |-> n, artefact |-> x]
    IN  {{one(f, n, x), one(<<"*">>, m, y)} :
            f \in {a, lib}, n \in {"", "A", "*"}, m \in {"L", "*"},
            x \in {"abi", "*"},
            y \in {"abi", "evm.bytecode", "ir", "ewasm.wast"}}

=============================================================================
