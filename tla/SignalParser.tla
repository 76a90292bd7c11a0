---------------------------- MODULE SignalParser ----------------------------
(***************************************************************************)
(* signalhandler/parser/parse.pl: one pass over the lines of a Solidity    *)
(* file that replaces declarations and methods of signals and handlers by  *)
(* plain Solidity with inline assembly.                                    *)
(*                                                                         *)
(* A line is a record; lines without signals or handlers are left out, and *)
(* every method line stands for a public function with that one statement. *)
(* A prototype such as "Alert(bool)" is the pair of the name and the list  *)
(* of what is appended to it in parentheses, and its Keccak-256 hash is    *)
(* the prototype itself.                                                   *)
(***************************************************************************)
EXTENDS Naturals, Sequences, FiniteSets, SequencesExt

CONSTANTS
  Signals,     \* names of signals
  Handlers,    \* names of handlers
  Types,       \* lists of parameter types
  MaxLines,    \* bound on the length of the file
  MaxContracts \* bound on the number of contracts in it

ASSUME BoundsAssumption == MaxLines \in Nat /\ MaxContracts \in Nat

Contract      == [kind |-> "contract"]
Constructor   == [kind |-> "constructor"]
Signal(s, t)  == [kind |-> "signal", name |-> s, types |-> t]
Handler(h, t) == [kind |-> "handler", name |-> h, types |-> t]
Method(m, s)  == [kind |-> m, name |-> s]
(* h.bind(address of contract d, d.s, ...) and h.detach(...)               *)
Slot(m, h, d, s) == [kind |-> m, name |-> h, of |-> d, signal |-> s]

Lines ==
  {Contract, Constructor}
  \cup {Signal(s, t) : s \in Signals, t \in Types}
  \cup {Handler(h, t) : h \in Handlers, t \in Types}
  \cup {Method(m, s) : m \in {"create_signal", "delete_signal", "emit"}, s \in Signals}
  \cup {Slot(m, h, d, s) : m \in {"bind", "detach"}, h \in Handlers,
                           d \in 1 .. MaxContracts, s \in Signals}

VARIABLES
  source,        \* the input file
  position,      \* lines parsed so far
  signal_array,  \* @signal_array
  handler_array, \* @handler_name_array and @handler_types_array
  output,        \* the snippets written, one per line
  phase          \* "write", "parse" or "run"

parserVars == <<source, position, signal_array, handler_array, output, phase>>

(* The number of the contract line i belongs to, and of contracts in all.  *)
ContractOf(i) == Cardinality({j \in 1 .. i : source[j].kind = "contract"})
Contracts     == ContractOf(Len(source))

NoKey     == <<"0", <<>>>>
Undefined == <<"", <<>>>>

(* What is appended to a name for handler h: "(types)" once per entry of   *)
(* that name in the arrays, whichever contract the entry comes from.       *)
AppendedTypes(h) ==
  LET entries  == {e \in DOMAIN handler_array : handler_array[e][1] = h}
      Entry(k) == CHOOSE e \in entries : Cardinality({f \in entries : f <= e}) = k
  IN  [k \in 1 .. Cardinality(entries) |-> handler_array[Entry(k)][2]]

-----------------------------------------------------------------------------
(* The snippets: what the generated Solidity declares or does.             *)

Snippet(line) ==
  CASE line.kind = "signal" ->
         [declares |-> line.name, sets |-> <<line.name, <<line.types>>>>]
    [] line.kind = "handler" ->
         [declares |-> line.name, sets |-> <<line.name, <<line.types>>>>]
    [] line.kind = "constructor" -> [creates |-> signal_array]
    [] line.kind \in {"create_signal", "delete_signal", "emit"} -> [uses |-> line.name]
    [] line.kind \in {"bind", "detach"} ->
         [uses   |-> line.name,
          method |-> IF AppendedTypes(line.name) = <<>> THEN Undefined
                     ELSE <<line.name, <<Last(AppendedTypes(line.name))>>>>,
          signal |-> <<line.signal, AppendedTypes(line.name)>>]
    [] OTHER -> [text |-> line.kind]

ParserInit ==
  /\ source = <<>> /\ position = 0 /\ output = <<>>
  /\ signal_array = <<>> /\ handler_array = <<>>
  /\ phase = "write"

(* The author of the contract adds a line: a contract has one constructor, *)
(* and its signals and handlers have different names.                      *)
Write(line) ==
  /\ phase = "write"
  /\ Len(source) < MaxLines
  /\ source = <<>> => line.kind = "contract"
  /\ line.kind = "contract" => Contracts < MaxContracts
  /\ \A i \in DOMAIN source : ContractOf(i) = Contracts =>
       /\ line.kind = "constructor" => source[i].kind # "constructor"
       /\ {line.kind, source[i].kind} \subseteq {"signal", "handler"} =>
            source[i].name # line.name
  /\ source' = Append(source, line)
  /\ UNCHANGED <<position, signal_array, handler_array, output, phase>>

DeclaredIn(c, kind, name) ==
  \E i \in DOMAIN source : /\ ContractOf(i) = c
                           /\ source[i].kind = kind /\ source[i].name = name

TypesIn(c, kind, name) ==
  LET i == CHOOSE i \in DOMAIN source : /\ ContractOf(i) = c
                                        /\ source[i].kind = kind /\ source[i].name = name
  IN  source[i].types

(* Solidity's own requirements: used names exist in the contract, and a    *)
(* handler takes the parameters of the signal it is bound to.              *)
WellFormed ==
  \A i \in DOMAIN source :
    LET line == source[i]
    IN  /\ line.kind \in {"create_signal", "delete_signal", "emit"} =>
             DeclaredIn(ContractOf(i), "signal", line.name)
        /\ line.kind \in {"bind", "detach"} =>
             /\ DeclaredIn(ContractOf(i), "handler", line.name)
             /\ DeclaredIn(line.of, "signal", line.signal)
             /\ TypesIn(ContractOf(i), "handler", line.name)
                  = TypesIn(line.of, "signal", line.signal)

StartParse ==
  /\ phase = "write" /\ WellFormed
  /\ phase' = "parse"
  /\ UNCHANGED <<source, position, signal_array, handler_array, output>>

(* Mutant: a replaced line is also written as it was.                      *)
ParseLineTwice ==
  /\ phase = "parse" /\ position < Len(source)
  /\ output' = output \o <<Snippet(source[position + 1]), [text |-> source[position + 1].kind]>>
  /\ position' = position + 1
  /\ UNCHANGED <<source, phase, signal_array, handler_array>>

(* One iteration of the loop over the input lines.                         *)
ParseLine ==
  /\ phase = "parse" /\ position < Len(source)
  /\ LET line == source[position + 1]
     IN  /\ output' = Append(output, Snippet(line))
         /\ signal_array' = IF line.kind = "signal" THEN Append(signal_array, line.name)
                            ELSE signal_array
         /\ handler_array' = IF line.kind = "handler"
                             THEN Append(handler_array, <<line.name, line.types>>)
                             ELSE handler_array
  /\ position' = position + 1
  /\ UNCHANGED <<source, phase>>

(* Every variable and setter a snippet of the output uses is declared by   *)
(* the contract that contains the snippet, otherwise it does not compile.  *)
Compiles(c) ==
  \A i \in DOMAIN output : ContractOf(i) = c =>
    LET used == IF source[i].kind = "constructor" THEN ToSet(output[i].creates)
                ELSE IF "uses" \in DOMAIN output[i] THEN {output[i].uses} ELSE {}
    IN  \A name \in used : \E j \in DOMAIN output :
          ContractOf(j) = c /\ "declares" \in DOMAIN output[j] /\ output[j].declares = name
=============================================================================
