------------------------ MODULE SignalContractProofs ------------------------
(***************************************************************************)
(* What the contracts of a file do is what the file says, for files of any *)
(* length with any number of contracts and any names and types.            *)
(***************************************************************************)
EXTENDS SignalContract, FiniteSetTheorems, TLAPS

Names == Signals \cup Handlers

Declaration == {"signal", "handler"}

(* Names with appended types, as keys and prototypes are.                  *)
Prototypes == (Names \cup {"0", ""}) \X Seq(Types)

(* The output is a sequence of functions, one for each parsed line.        *)
Parsed ==
  /\ source \in Seq(Lines)
  /\ phase \in {"write", "parse", "run"}
  /\ position = Len(output) /\ position <= Len(source) /\ Len(source) <= MaxLines
  /\ \E S : output \in Seq(S)
  /\ signal_array \in Seq(Signals)
  /\ handler_array \in Seq(Handlers \X Types)
  /\ phase = "write" => position = 0
  /\ phase = "run" => position = Len(source)

(* Every line belongs to a contract.                                       *)
InContract ==
  /\ source # <<>> => source[1].kind = "contract"
  /\ Contracts <= MaxContracts

(* Signals and handlers of a contract have different names.                *)
NamesUnique ==
  \A i, j \in DOMAIN source :
    (/\ source[i].kind \in Declaration /\ source[j].kind \in Declaration
     /\ ContractOf(i) = ContractOf(j) /\ source[i].name = source[j].name) => i = j

(* Handlers named h are declared at most once above line k.                *)
OnceAbove(h, k) ==
  \A i, j \in 1 .. k - 1 :
    (/\ source[i].kind = "handler" /\ source[j].kind = "handler"
     /\ source[i].name = h /\ source[j].name = h) => i = j

(* The arrays hold the signals and handlers parsed so far.                 *)
SignalsKept ==
  \A i \in 1 .. position : source[i].kind = "signal" =>
    \E k \in DOMAIN signal_array : signal_array[k] = source[i].name

HandlersKept ==
  /\ \A e \in DOMAIN handler_array : \E i \in 1 .. position :
       /\ source[i].kind = "handler"
       /\ handler_array[e] = <<source[i].name, source[i].types>>
  /\ \A i \in 1 .. position : source[i].kind = "handler" =>
       \E e \in DOMAIN handler_array : handler_array[e] = <<source[i].name, source[i].types>>
  /\ \A e, f \in DOMAIN handler_array :
       handler_array[e][1] = handler_array[f][1] /\ OnceAbove(handler_array[e][1], position + 1)
         => e = f

(* What the snippets written so far declare, create and bind.              *)
DeclaresAsWritten(i) ==
  /\ source[i].kind \in Declaration =>
       output[i] = [declares |-> source[i].name,
                    sets     |-> <<source[i].name, <<source[i].types>>>>]
  /\ "declares" \in DOMAIN output[i] => source[i].kind \in Declaration

CreatesAsWritten(i) ==
  source[i].kind = "constructor" =>
    /\ output[i].creates \in Seq(Signals)
    /\ \A j \in 1 .. i - 1 : source[j].kind = "signal" =>
         \E k \in DOMAIN output[i].creates : output[i].creates[k] = source[j].name

BindsAsWritten(i) ==
  source[i].kind \in {"bind", "detach"} /\ OnceAbove(source[i].name, i) =>
    \A j \in 1 .. i - 1 :
      source[j].kind = "handler" /\ source[j].name = source[i].name
        => output[i].signal = <<source[i].signal, <<source[j].types>>>>

OutputAsWritten ==
  \A i \in DOMAIN output : DeclaresAsWritten(i) /\ CreatesAsWritten(i) /\ BindsAsWritten(i)

ParserInv ==
  /\ Parsed /\ InContract /\ NamesUnique
  /\ SignalsKept /\ HandlersKept /\ OutputAsWritten
  /\ phase # "write" => WellFormed

(* Nothing happens on the machine before the file is parsed.               *)
Idle ==
  phase # "run" =>
    /\ deployed = {} /\ bindings = {} /\ subscribed = {} /\ created = {} /\ live = {}
    /\ \A c \in 1 .. MaxContracts : \A n \in Names : keys[c][n] = NoKey

(* A key is unset or what its setter assigns, and it is set for whatever   *)
(* is subscribed or alive.                                                 *)
KeysSet ==
  /\ keys \in [1 .. MaxContracts -> [Names -> Prototypes]]
  /\ live \subseteq (1 .. MaxContracts) \X Names
  /\ phase = "run" =>
       \A i \in DOMAIN source : source[i].kind \in Declaration =>
         keys[ContractOf(i)][source[i].name]
           \in {NoKey, KeySetBy(ContractOf(i), source[i].name)}
  /\ \A s \in subscribed : keys[s[1]][s[2]] = KeySetBy(s[1], s[2])
  /\ \A l \in live : keys[l[1]][l[2]] = KeySetBy(l[1], l[2])

(* Subscriptions and bindings come from bind lines of deployed contracts.  *)
FromBindLines ==
  /\ \A s \in subscribed : \E i \in DOMAIN source :
       /\ source[i].kind = "bind"
       /\ s = <<ContractOf(i), source[i].name, source[i].of, source[i].signal>>
  /\ \A b \in bindings : \E i \in DOMAIN source :
       /\ source[i].kind = "bind" /\ ContractOf(i) \in deployed
       /\ b = <<ContractOf(i), KeySetBy(ContractOf(i), source[i].name),
                source[i].of, output[i].signal>>

ContractInv ==
  ParserInv /\ Idle /\ KeysSet /\ FromBindLines /\ BindingsAsWritten /\ DeclaredSignalsCreated
-----------------------------------------------------------------------------
(* What the fields of a line are, by its kind.                             *)
LEMMA LineFields ==
  ASSUME NEW line \in Lines
  PROVE  /\ line.kind = "signal" => line.name \in Signals /\ line.types \in Types
         /\ line.kind = "handler" => line.name \in Handlers /\ line.types \in Types
         /\ line.kind \in {"create_signal", "delete_signal", "emit"} => line.name \in Signals
         /\ line.kind \in {"bind", "detach"} =>
              line.name \in Handlers /\ line.of \in 1 .. MaxContracts /\ line.signal \in Signals
         /\ line.kind \in {"contract", "constructor", "create_signal", "delete_signal", "emit",
                           "bind", "detach"} \cup Declaration
  BY DEF Lines, Contract, Constructor, Signal, Handler, Method, Slot, Declaration

(* What the snippet for a line declares, creates and binds.                *)
LEMMA SnippetFields ==
  ASSUME NEW line \in Lines
  PROVE  /\ line.kind \in Declaration =>
              Snippet(line) = [declares |-> line.name, sets |-> <<line.name, <<line.types>>>>]
         /\ "declares" \in DOMAIN Snippet(line) => line.kind \in Declaration
         /\ line.kind = "constructor" => Snippet(line).creates = signal_array
         /\ line.kind \in {"bind", "detach"} =>
              Snippet(line).signal = <<line.signal, AppendedTypes(line.name)>>
<1>1. CASE line.kind \in Declaration
  BY <1>1 DEF Snippet, Declaration
<1>2. CASE line.kind = "constructor"
  BY <1>2 DEF Snippet, Declaration
<1>3. CASE line.kind \in {"create_signal", "delete_signal", "emit"}
  BY <1>3 DEF Snippet, Declaration
<1>4. CASE line.kind \in {"bind", "detach"}
  BY <1>4 DEF Snippet, Declaration
<1>5. CASE line.kind = "contract"
  BY <1>5 DEF Snippet, Declaration
<1> QED
  BY <1>1, <1>2, <1>3, <1>4, <1>5, LineFields

(* The number of contracts up to a line is a number, and grows with it.    *)
LEMMA ContractCount ==
  ASSUME NEW i \in Nat
  PROVE  /\ ContractOf(i) \in Nat
         /\ \A k \in 0 .. i : ContractOf(k) <= ContractOf(i)
         /\ i >= 1 /\ source[1].kind = "contract" => ContractOf(i) >= 1
<1> DEFINE Below(k) == {j \in 1 .. k : source[j].kind = "contract"}
<1>1. \A k \in 0 .. i : IsFiniteSet(Below(k)) /\ ContractOf(k) = Cardinality(Below(k))
  <2>1. \A k \in 0 .. i : IsFiniteSet(1 .. k)
    BY FS_Interval
  <2>2. \A k \in 0 .. i : Below(k) \subseteq 1 .. k
    OBVIOUS
  <2> QED
    BY <2>1, <2>2, FS_Subset DEF ContractOf
<1>2. \A k \in 0 .. i : Below(k) \subseteq Below(i)
  OBVIOUS
<1>3. \A k \in 0 .. i : Cardinality(Below(k)) \in Nat
  BY <1>1, FS_CardinalityType
<1>4. \A k \in 0 .. i : Cardinality(Below(k)) <= Cardinality(Below(i))
  BY <1>1, <1>2, FS_Subset
<1>5. i >= 1 /\ source[1].kind = "contract" => Below(i) # {}
  OBVIOUS
<1>6. Below(i) # {} => Cardinality(Below(i)) # 0
  BY <1>1, FS_EmptySet
<1> HIDE DEF Below
<1> QED
  BY <1>1, <1>3, <1>4, <1>5, <1>6

(* Contracts and declarations are the same as long as the source is.       *)
LEMMA SourceUnchanged ==
  ASSUME UNCHANGED source
  PROVE  /\ \A i : ContractOf(i)' = ContractOf(i)
         /\ Contracts' = Contracts
         /\ \A c, kind, name : DeclaredIn(c, kind, name)' <=> DeclaredIn(c, kind, name)
         /\ \A c, kind, name : TypesIn(c, kind, name)' = TypesIn(c, kind, name)
         /\ WellFormed' <=> WellFormed
<1>1. /\ \A i : ContractOf(i)' = ContractOf(i)
      /\ Contracts' = Contracts
  BY DEF ContractOf, Contracts
<1>2. \A c, kind, name : DeclaredIn(c, kind, name)' <=> DeclaredIn(c, kind, name)
  BY <1>1 DEF DeclaredIn
<1>3. \A c, kind, name : TypesIn(c, kind, name)' = TypesIn(c, kind, name)
  BY <1>1, Zenon DEF TypesIn
<1>4. WellFormed' <=> WellFormed
  BY <1>1, <1>2, <1>3 DEF WellFormed
<1> QED
  BY <1>1, <1>2, <1>3, <1>4

(* An appended line starts a contract or belongs to the last one.          *)
LEMMA ContractAppended ==
  ASSUME source \in Seq(Lines), NEW line \in Lines, source' = Append(source, line)
  PROVE  /\ \A i \in 0 .. Len(source) : ContractOf(i)' = ContractOf(i)
         /\ \A i : i = Len(source) + 1 => ContractOf(i)' = Contracts'
         /\ Contracts' = IF line.kind = "contract" THEN Contracts + 1 ELSE Contracts
<1> DEFINE n == Len(source)
           Old == {j \in 1 .. n : source[j].kind = "contract"}
           New == {j \in 1 .. n + 1 : source'[j].kind = "contract"}
<1>1. n \in Nat /\ Len(source') = n + 1 /\ source'[n + 1] = line
      /\ \A j \in 1 .. n : source'[j] = source[j]
  OBVIOUS
<1>2. \A i \in 0 .. n : {j \in 1 .. i : source'[j].kind = "contract"}
                         = {j \in 1 .. i : source[j].kind = "contract"}
  BY <1>1
<1>3. New = IF line.kind = "contract" THEN Old \cup {n + 1} ELSE Old
  BY <1>1
<1>4. IsFiniteSet(Old) /\ n + 1 \notin Old
  <2>1. IsFiniteSet(1 .. n)
    BY <1>1, FS_Interval
  <2>2. Old \subseteq 1 .. n /\ n + 1 \notin Old
    BY <1>1
  <2> QED
    BY <2>1, <2>2, FS_Subset
<1>5. Cardinality(Old \cup {n + 1}) = Cardinality(Old) + 1
  BY <1>4, FS_AddElement
<1>6. Contracts' = Cardinality(New) /\ Contracts = Cardinality(Old)
  BY <1>1 DEF Contracts, ContractOf
<1>7. \A i \in 0 .. n : ContractOf(i)' = ContractOf(i)
  BY <1>2 DEF ContractOf
<1>8. \A i : i = n + 1 => ContractOf(i)' = Contracts'
  BY <1>1 DEF Contracts, ContractOf
<1> QED
  BY <1>3, <1>5, <1>6, <1>7, <1>8

(* Every line belongs to one of the contracts.                             *)
LEMMA ContractRange ==
  ASSUME Parsed, InContract, NEW i \in DOMAIN source
  PROVE  ContractOf(i) \in 1 .. MaxContracts
<1>1. i \in Nat /\ i >= 1 /\ i \in 0 .. Len(source) /\ Len(source) \in Nat /\ source # <<>>
  BY DEF Parsed
<1>2. ContractOf(i) \in Nat /\ ContractOf(i) >= 1
  BY <1>1, ContractCount DEF InContract
<1>3. ContractOf(i) <= ContractOf(Len(source)) /\ ContractOf(Len(source)) \in Nat
  BY <1>1, ContractCount
<1> QED
  BY <1>2, <1>3, BoundsAssumption DEF InContract, Contracts

(* A handler declared once so far has its types appended once.             *)
LEMMA AppendedOnce ==
  ASSUME Parsed, HandlersKept, NEW h, OnceAbove(h, position + 1),
         NEW i \in 1 .. position, source[i].kind = "handler", source[i].name = h
  PROVE  AppendedTypes(h) = <<source[i].types>>
<1> DEFINE entries  == {e \in DOMAIN handler_array : handler_array[e][1] = h}
           Entry(k) == CHOOSE e \in entries : Cardinality({f \in entries : f <= e}) = k
<1>1. PICK e \in DOMAIN handler_array : handler_array[e] = <<h, source[i].types>>
  BY DEF HandlersKept
<1>2. \A f \in entries : f = e
  BY <1>1 DEF HandlersKept
<1>3. entries = {e}
  BY <1>1, <1>2
<1>4. e \in Nat
  BY DEF Parsed
<1>5. {f \in entries : f <= e} = {e}
  BY <1>3, <1>4
<1>6. Cardinality({e}) = 1
  BY FS_Singleton
<1>7. \A x \in entries : Cardinality({f \in entries : f <= x}) = 1 <=> x = e
  BY <1>3, <1>5, <1>6
<1>8. Entry(1) = e
  BY <1>3, <1>7
<1>9. AppendedTypes(h) = [k \in 1 .. Cardinality(entries) |-> handler_array[Entry(k)][2]]
  BY DEF AppendedTypes
<1>10. AppendedTypes(h) = [k \in 1 .. 1 |-> handler_array[Entry(k)][2]]
  BY <1>3, <1>6, <1>9
<1>11. \A k \in 1 .. 1 : handler_array[Entry(k)][2] = source[i].types
  <2>1. handler_array[e][2] = source[i].types
    BY <1>1
  <2>2. \A k \in 1 .. 1 : k = 1
    OBVIOUS
  <2> HIDE DEF Entry
  <2> QED
    BY <1>8, <2>1, <2>2
<1> HIDE DEF Entry, entries
<1>12. AppendedTypes(h) = [k \in 1 .. 1 |-> source[i].types]
  BY <1>10, <1>11
<1> QED
  BY <1>12

(* The invariant of the parser holds of the empty file,                    *)
LEMMA ParserInvInit ==
  ASSUME Init
  PROVE  ParserInv
<1>1. Parsed
  <2>1. output \in Seq({})
    BY DEF Init, ParserInit
  <2> QED
    BY <2>1, BoundsAssumption DEF Parsed, Init, ParserInit
<1>2. Contracts = 0
  <2>1. {j \in 1 .. 0 : source[j].kind = "contract"} = {}
    OBVIOUS
  <2>2. Len(source) = 0
    BY DEF Init, ParserInit
  <2> QED
    BY <2>1, <2>2, FS_EmptySet DEF Contracts, ContractOf
<1> QED
  BY <1>1, <1>2, BoundsAssumption
  DEF Init, ParserInit, ParserInv, InContract, NamesUnique, SignalsKept, HandlersKept,
      OutputAsWritten

(* is kept by the lines the author adds,                                   *)
LEMMA ParserInvWrite ==
  ASSUME ParserInv, NEW line \in Lines, Write(line)
  PROVE  ParserInv'
<1> DEFINE n == Len(source)
<1>1. /\ source \in Seq(Lines) /\ n \in Nat /\ position = 0 /\ phase = "write"
      /\ DOMAIN source = 1 .. n
      /\ DOMAIN output = {} /\ DOMAIN handler_array = {}
  BY DEF ParserInv, Parsed, Write, HandlersKept
<1>2. /\ source' = Append(source, line) /\ source' \in Seq(Lines) /\ Len(source') = n + 1
      /\ DOMAIN source' = 1 .. n + 1
      /\ source'[n + 1] = line /\ \A i \in 1 .. n : source'[i] = source[i]
      /\ UNCHANGED <<position, signal_array, handler_array, output, phase>>
  BY <1>1 DEF Write
<1>3. Parsed'
  BY <1>1, <1>2, BoundsAssumption DEF ParserInv, Parsed, Write
<1>4. /\ \A i \in 1 .. n : ContractOf(i)' = ContractOf(i)
      /\ \A i : i = n + 1 => ContractOf(i)' = Contracts'
      /\ Contracts' = IF line.kind = "contract" THEN Contracts + 1 ELSE Contracts
  BY <1>1, <1>2, ContractAppended
<1>5. InContract'
  <2>1. Contracts \in Nat
    BY <1>1, ContractCount DEF Contracts
  <2>2. source'[1].kind = "contract"
    BY <1>1, <1>2 DEF ParserInv, InContract, Write
  <2>3. Contracts' <= MaxContracts
    BY <1>4, <2>1, BoundsAssumption DEF ParserInv, InContract, Write
  <2> QED
    BY <2>2, <2>3 DEF InContract
<1>6. NamesUnique'
  <2> SUFFICES ASSUME NEW i \in DOMAIN source', NEW j \in DOMAIN source',
                      source'[i].kind \in Declaration, source'[j].kind \in Declaration,
                      ContractOf(i)' = ContractOf(j)', source'[i].name = source'[j].name
               PROVE  i = j
    BY DEF NamesUnique
  <2>1. CASE i \in 1 .. n /\ j \in 1 .. n
    BY <1>1, <1>2, <1>4, <2>1 DEF ParserInv, NamesUnique
  <2>2. ASSUME NEW k \in 1 .. n, line.kind \in Declaration, source[k].kind \in Declaration,
               ContractOf(k) = Contracts
        PROVE  source[k].name # line.name
    BY <1>1, <2>2 DEF Write, Declaration
  <2>3. line.kind \in Declaration => Contracts' = Contracts
    BY <1>4 DEF Declaration
  <2>4. CASE i \in 1 .. n /\ j = n + 1
    BY <1>2, <1>4, <2>2, <2>3, <2>4
  <2>5. CASE i = n + 1 /\ j \in 1 .. n
    BY <1>2, <1>4, <2>2, <2>3, <2>5
  <2> QED
    BY <1>1, <1>2, <2>1, <2>4, <2>5
<1>7. SignalsKept' /\ HandlersKept' /\ OutputAsWritten'
  BY <1>1, <1>2 DEF SignalsKept, HandlersKept, OutputAsWritten
<1> QED
  BY <1>1, <1>2, <1>3, <1>5, <1>6, <1>7 DEF ParserInv

(* by whatever changes the phase only, in the right order,                 *)
LEMMA ParserInvPhase ==
  ASSUME ParserInv, UNCHANGED <<source, position, signal_array, handler_array, output>>,
         phase' \in {"write", "parse", "run"},
         phase' = "write" => phase = "write",
         phase' = "run" => position = Len(source),
         phase' # "write" => WellFormed
  PROVE  ParserInv'
<1>1. Parsed'
  BY DEF ParserInv, Parsed
<1>2. InContract' /\ NamesUnique' /\ (phase' # "write" => WellFormed')
  BY SourceUnchanged DEF ParserInv, InContract, NamesUnique
<1>3. SignalsKept'
  BY DEF ParserInv, SignalsKept
<1>4. HandlersKept'
  BY DEF ParserInv, HandlersKept, OnceAbove
<1>5. OutputAsWritten'
  BY DEF ParserInv, OutputAsWritten, OnceAbove, DeclaresAsWritten, CreatesAsWritten,
         BindsAsWritten
<1> QED
  BY <1>1, <1>2, <1>3, <1>4, <1>5 DEF ParserInv

(* and by every line that is parsed.                                       *)
LEMMA ParserInvParseLine ==
  ASSUME ParserInv, ParseLine
  PROVE  ParserInv'
<1> DEFINE p    == position + 1
           line == source[p]
<1>1. /\ position \in Nat /\ p \in 1 .. Len(source) /\ position = Len(output)
      /\ source \in Seq(Lines) /\ line \in Lines /\ Len(source) \in Nat
      /\ signal_array \in Seq(Signals) /\ handler_array \in Seq(Handlers \X Types)
      /\ phase = "parse"
  BY DEF ParserInv, Parsed, ParseLine
<1>2. /\ UNCHANGED <<source, phase>> /\ position' = p
      /\ output' = Append(output, Snippet(line))
  BY DEF ParseLine
<1>3. /\ signal_array' = IF line.kind = "signal" THEN Append(signal_array, line.name)
                         ELSE signal_array
      /\ handler_array' = IF line.kind = "handler"
                          THEN Append(handler_array, <<line.name, line.types>>)
                          ELSE handler_array
  BY DEF ParseLine
<1>4. PICK S : output \in Seq(S)
  BY DEF ParserInv, Parsed
<1>5. /\ output' \in Seq(S \cup {Snippet(line)}) /\ Len(output') = p
      /\ DOMAIN output' = 1 .. p /\ DOMAIN output = 1 .. position
      /\ output'[p] = Snippet(line) /\ \A i \in 1 .. position : output'[i] = output[i]
  <2>1. output \in Seq(S \cup {Snippet(line)})
    BY <1>4
  <2> QED
    BY <1>1, <1>2, <2>1
<1>6. /\ signal_array' \in Seq(Signals)
      /\ \A k \in DOMAIN signal_array :
           k \in DOMAIN signal_array' /\ signal_array'[k] = signal_array[k]
      /\ line.kind = "signal" => \E k \in DOMAIN signal_array' : signal_array'[k] = line.name
  <2>1. line.kind = "signal" => line.name \in Signals
    BY <1>1, LineFields
  <2>2. CASE line.kind = "signal"
    BY <1>1, <1>3, <2>1, <2>2
  <2>3. CASE line.kind # "signal"
    BY <1>1, <1>3, <2>3
  <2> QED
    BY <2>2, <2>3
<1>7. Parsed'
  <2>1. handler_array' \in Seq(Handlers \X Types)
    BY <1>1, <1>3, LineFields
  <2> QED
    BY <1>1, <1>2, <1>5, <1>6, <2>1 DEF ParserInv, Parsed
<1>8. InContract' /\ NamesUnique' /\ (phase' # "write" => WellFormed')
  BY <1>2, SourceUnchanged DEF ParserInv, InContract, NamesUnique
<1>9. SignalsKept'
  <2>1. ASSUME NEW i \in 1 .. p, source[i].kind = "signal"
        PROVE  \E k \in DOMAIN signal_array' : signal_array'[k] = source[i].name
    <3>1. CASE i \in 1 .. position
      <4>1. PICK k \in DOMAIN signal_array : signal_array[k] = source[i].name
        BY <2>1, <3>1 DEF ParserInv, SignalsKept
      <4> QED
        BY <1>6, <4>1
    <3>2. CASE i = p
      BY <1>6, <2>1, <3>2
    <3> QED
      BY <1>1, <3>1, <3>2
  <2> QED
    BY <1>2, <2>1 DEF SignalsKept
<1>10. HandlersKept'
  <2>0. \A h : OnceAbove(h, position + 1)' <=> OnceAbove(h, p + 1)
    BY <1>1, <1>2 DEF OnceAbove
  <2>1. \A h : OnceAbove(h, p + 1) => OnceAbove(h, p)
    BY <1>1 DEF OnceAbove
  <2>2. /\ \A e \in DOMAIN handler_array : \E i \in 1 .. position :
             /\ source[i].kind = "handler"
             /\ handler_array[e] = <<source[i].name, source[i].types>>
        /\ \A i \in 1 .. position : source[i].kind = "handler" =>
             \E e \in DOMAIN handler_array :
               handler_array[e] = <<source[i].name, source[i].types>>
        /\ \A e, f \in DOMAIN handler_array :
             handler_array[e][1] = handler_array[f][1] /\ OnceAbove(handler_array[e][1], p)
               => e = f
    BY DEF ParserInv, HandlersKept
  <2>3. 1 .. p = (1 .. position) \cup {p}
    BY <1>1
  <2>4. CASE line.kind # "handler"
    <3>1. handler_array' = handler_array
      BY <1>3, <2>4
    <3> QED
      BY <1>2, <2>0, <2>1, <2>2, <2>3, <2>4, <3>1 DEF HandlersKept
  <2>5. CASE line.kind = "handler"
    <3> DEFINE m == Len(handler_array)
    <3>1. /\ m \in Nat /\ DOMAIN handler_array = 1 .. m
          /\ DOMAIN handler_array' = (1 .. m) \cup {m + 1}
          /\ handler_array'[m + 1] = <<line.name, line.types>>
          /\ \A e \in 1 .. m : handler_array'[e] = handler_array[e]
      BY <1>1, <1>3, <2>5, LineFields
    <3>2. \A e \in DOMAIN handler_array' : \E i \in 1 .. p :
            /\ source[i].kind = "handler"
            /\ handler_array'[e] = <<source[i].name, source[i].types>>
      <4>1. ASSUME NEW e \in 1 .. m
            PROVE  \E i \in 1 .. p : /\ source[i].kind = "handler"
                                     /\ handler_array'[e] = <<source[i].name, source[i].types>>
        BY <2>2, <2>3, <3>1
      <4>2. /\ p \in 1 .. p /\ source[p].kind = "handler"
            /\ handler_array'[m + 1] = <<source[p].name, source[p].types>>
        BY <1>1, <2>5, <3>1
      <4> QED
        BY <3>1, <4>1, <4>2
    <3>3. \A i \in 1 .. p : source[i].kind = "handler" =>
            \E e \in DOMAIN handler_array' :
              handler_array'[e] = <<source[i].name, source[i].types>>
      BY <2>2, <2>3, <3>1
    <3>4. ASSUME NEW e \in 1 .. m, handler_array[e][1] = line.name,
                 OnceAbove(line.name, p + 1)
          PROVE  FALSE
      <4>1. PICK i \in 1 .. position : source[i].kind = "handler" /\ source[i].name = line.name
        BY <2>2, <3>1, <3>4
      <4>2. i \in 1 .. (p + 1) - 1 /\ p \in 1 .. (p + 1) - 1 /\ i # p
        BY <1>1
      <4> HIDE DEF p
      <4> QED
        BY <2>5, <3>4, <4>1, <4>2 DEF OnceAbove
    <3>5. ASSUME NEW e \in DOMAIN handler_array', NEW f \in DOMAIN handler_array',
                 handler_array'[e][1] = handler_array'[f][1],
                 OnceAbove(handler_array'[e][1], p + 1)
          PROVE  e = f
      <4>1. CASE e \in 1 .. m /\ f \in 1 .. m
        BY <2>1, <2>2, <3>1, <3>5, <4>1
      <4>2. CASE e = m + 1 /\ f \in 1 .. m
        BY <3>1, <3>4, <3>5, <4>2
      <4>3. CASE e \in 1 .. m /\ f = m + 1
        BY <3>1, <3>4, <3>5, <4>3
      <4> QED
        BY <3>1, <4>1, <4>2, <4>3
    <3> QED
      BY <1>2, <2>0, <3>2, <3>3, <3>5 DEF HandlersKept
  <2> QED
    BY <2>4, <2>5
<1>11. OutputAsWritten'
  <2>1. \A h, k : OnceAbove(h, k)' <=> OnceAbove(h, k)
    BY <1>2 DEF OnceAbove
  <2>2. ASSUME NEW i \in 1 .. position
        PROVE  (DeclaresAsWritten(i) /\ CreatesAsWritten(i) /\ BindsAsWritten(i))'
    <3>1. DeclaresAsWritten(i) /\ CreatesAsWritten(i) /\ BindsAsWritten(i)
      BY <1>5 DEF ParserInv, OutputAsWritten
    <3>2. output'[i] = output[i] /\ source' = source
      BY <1>2, <1>5
    <3>3. DeclaresAsWritten(i)'
      BY <3>1, <3>2 DEF DeclaresAsWritten
    <3>4. CreatesAsWritten(i)'
      BY <3>1, <3>2 DEF CreatesAsWritten
    <3>5. BindsAsWritten(i)'
      BY <2>1, <3>1, <3>2 DEF BindsAsWritten
    <3> QED
      BY <3>3, <3>4, <3>5
  <2>3. ASSUME NEW i, i = p
        PROVE  (DeclaresAsWritten(i) /\ CreatesAsWritten(i) /\ BindsAsWritten(i))'
    <3>1. output'[i] = Snippet(line) /\ source'[i] = line /\ source' = source
      BY <1>2, <1>5, <2>3
    <3>2. DeclaresAsWritten(i)'
      BY <1>1, <3>1, SnippetFields DEF DeclaresAsWritten
    <3>3. CreatesAsWritten(i)'
      <4>1. line.kind = "constructor" => output'[i].creates = signal_array
        BY <1>1, <3>1, SnippetFields
      <4>2. \A j \in 1 .. i - 1 : source[j].kind = "signal" =>
              \E k \in DOMAIN signal_array : signal_array[k] = source[j].name
        BY <1>1, <2>3 DEF ParserInv, SignalsKept
      <4> QED
        BY <1>1, <3>1, <4>1, <4>2 DEF CreatesAsWritten
    <3>4. BindsAsWritten(i)'
      <4> SUFFICES ASSUME line.kind \in {"bind", "detach"}, OnceAbove(line.name, i),
                          NEW j \in 1 .. i - 1,
                          source[j].kind = "handler", source[j].name = line.name
                   PROVE  output'[i].signal = <<line.signal, <<source[j].types>>>>
        BY <2>1, <3>1 DEF BindsAsWritten
      <4>1. j \in 1 .. position
        BY <1>1, <2>3
      <4>2. AppendedTypes(line.name) = <<source[j].types>>
        BY <2>3, <4>1, AppendedOnce DEF ParserInv
      <4> QED
        BY <1>1, <3>1, <4>2, SnippetFields
    <3> QED
      BY <3>2, <3>3, <3>4
  <2>4. \A i \in DOMAIN output' : i \in 1 .. position \/ i = p
    BY <1>1, <1>5
  <2> QED
    BY <2>2, <2>3, <2>4 DEF OutputAsWritten
<1> QED
  BY <1>7, <1>8, <1>9, <1>10, <1>11 DEF ParserInv

-----------------------------------------------------------------------------
(* The key of a declared name is its prototype, and its types are found.   *)
LEMMA KeyOfDeclaration ==
  ASSUME ParserInv, phase = "run", NEW i \in DOMAIN source, source[i].kind \in Declaration
  PROVE  /\ KeySetBy(ContractOf(i), source[i].name) = <<source[i].name, <<source[i].types>>>>
         /\ TypesIn(ContractOf(i), source[i].kind, source[i].name) = source[i].types
         /\ KeySetBy(ContractOf(i), source[i].name) \in Prototypes
         /\ ContractOf(i) \in 1 .. MaxContracts
         /\ source[i].name \in Names
<1> DEFINE c == ContractOf(i)
           name == source[i].name
<1>1. DOMAIN output = DOMAIN source
  BY DEF ParserInv, Parsed
<1>2. /\ \A j \in DOMAIN source : DeclaresAsWritten(j)
      /\ output[i] = [declares |-> name, sets |-> <<name, <<source[i].types>>>>]
  BY <1>1 DEF ParserInv, OutputAsWritten, DeclaresAsWritten
<1>3. ASSUME NEW j \in DOMAIN output, ContractOf(j) = c,
             "declares" \in DOMAIN output[j], output[j].declares = name
      PROVE  j = i
  <2>1. source[j].kind \in Declaration /\ source[j].name = name
    BY <1>1, <1>2, <1>3 DEF DeclaresAsWritten
  <2> QED
    BY <1>1, <1>3, <2>1 DEF ParserInv, NamesUnique
<1>4. "declares" \in DOMAIN output[i] /\ output[i].declares = name
      /\ output[i].sets = <<name, <<source[i].types>>>>
  BY <1>2
<1>5. (CHOOSE j \in DOMAIN output : /\ ContractOf(j) = c
                                   /\ "declares" \in DOMAIN output[j]
                                   /\ output[j].declares = name) = i
  BY <1>1, <1>3, <1>4
<1>6. KeySetBy(c, name) = output[i].sets
  BY <1>5 DEF KeySetBy
<1>7. ASSUME NEW j \in DOMAIN source, ContractOf(j) = c,
             source[j].kind = source[i].kind, source[j].name = name
      PROVE  j = i
  BY <1>7 DEF ParserInv, NamesUnique
<1>8. (CHOOSE j \in DOMAIN source : /\ ContractOf(j) = c
                                   /\ source[j].kind = source[i].kind
                                   /\ source[j].name = name) = i
  BY <1>7
<1>9. TypesIn(c, source[i].kind, name) = source[i].types
  BY <1>8 DEF TypesIn
<1>10. name \in Names /\ source[i].types \in Types
  BY LineFields DEF ParserInv, Parsed, Names, Declaration
<1>11. <<name, <<source[i].types>>>> \in Prototypes
  <2>1. <<source[i].types>> \in Seq(Types)
    BY <1>10
  <2>2. name \in Names \cup {"0", ""}
    BY <1>10
  <2> HIDE DEF name
  <2> QED
    BY <2>1, <2>2 DEF Prototypes
<1> QED
  BY <1>4, <1>6, <1>9, <1>10, <1>11, ContractRange DEF ParserInv

(* Setters assign the same as long as the file and the output are the same.*)
LEMMA KeysUnchanged ==
  ASSUME UNCHANGED <<source, output>>
  PROVE  \A c, name : KeySetBy(c, name)' = KeySetBy(c, name)
<1>1. \A i : ContractOf(i)' = ContractOf(i)
  BY SourceUnchanged
<1>2. output' = output
  OBVIOUS
<1> QED
  BY <1>1, <1>2, Zenon DEF KeySetBy

(* A used name is declared in the contract that uses it.                   *)
LEMMA UsedSignal ==
  ASSUME ParserInv, phase = "run", NEW i \in DOMAIN source,
         source[i].kind \in {"create_signal", "delete_signal", "emit"}
  PROVE  \E j \in DOMAIN source :
           /\ source[j].kind = "signal" /\ source[j].name = source[i].name
           /\ ContractOf(j) = ContractOf(i)
BY DEF ParserInv, WellFormed, DeclaredIn

(* The handler and the signal of a bind or detach are declared, with the   *)
(* same types, and the prototype put together is the signal's key.         *)
LEMMA UsedHandler ==
  ASSUME ParserInv, phase = "run", NEW i \in DOMAIN source,
         source[i].kind \in {"bind", "detach"}
  PROVE  /\ \E j \in DOMAIN source :
              /\ source[j].kind = "handler" /\ source[j].name = source[i].name
              /\ ContractOf(j) = ContractOf(i)
         /\ \E j \in DOMAIN source :
              /\ source[j].kind = "signal" /\ source[j].name = source[i].signal
              /\ ContractOf(j) = source[i].of
         /\ DeclaredFirst(source[i].name) /\ DeclaredOnce(source[i].name) =>
              output[i].signal = KeySetBy(source[i].of, source[i].signal)
<1>1. /\ DeclaredIn(ContractOf(i), "handler", source[i].name)
      /\ DeclaredIn(source[i].of, "signal", source[i].signal)
      /\ TypesIn(ContractOf(i), "handler", source[i].name)
           = TypesIn(source[i].of, "signal", source[i].signal)
  BY DEF ParserInv, WellFormed
<1>2. PICK h \in DOMAIN source : /\ ContractOf(h) = ContractOf(i)
                                /\ source[h].kind = "handler" /\ source[h].name = source[i].name
  BY <1>1 DEF DeclaredIn
<1>3. PICK s \in DOMAIN source : /\ ContractOf(s) = source[i].of
                                /\ source[s].kind = "signal" /\ source[s].name = source[i].signal
  BY <1>1 DEF DeclaredIn
<1>4. source[h].types = source[s].types
  BY <1>1, <1>2, <1>3, KeyOfDeclaration DEF Declaration
<1>5. KeySetBy(source[i].of, source[i].signal) = <<source[i].signal, <<source[h].types>>>>
  BY <1>3, <1>4, KeyOfDeclaration DEF Declaration
<1>6. ASSUME DeclaredFirst(source[i].name), DeclaredOnce(source[i].name)
      PROVE  output[i].signal = <<source[i].signal, <<source[h].types>>>>
  <2>1. DOMAIN output = DOMAIN source /\ DOMAIN source = 1 .. Len(source) /\ Len(source) \in Nat
    BY DEF ParserInv, Parsed
  <2>2. h < i
    BY <1>2, <1>6 DEF DeclaredFirst
  <2>3. OnceAbove(source[i].name, i)
    BY <1>6, <2>1 DEF DeclaredOnce, OnceAbove
  <2>4. BindsAsWritten(i)
    BY <2>1 DEF ParserInv, OutputAsWritten
  <2>5. h \in 1 .. i - 1
    BY <2>1, <2>2
  <2> QED
    BY <1>2, <2>3, <2>4, <2>5 DEF BindsAsWritten
<1> QED
  BY <1>2, <1>3, <1>5, <1>6

(* What the source says does not change while its contracts run.           *)
LEMMA WordingUnchanged ==
  ASSUME UNCHANGED source
  PROVE  \A h : (DeclaredFirst(h)' <=> DeclaredFirst(h)) /\ (DeclaredOnce(h)' <=> DeclaredOnce(h))
BY DEF DeclaredFirst, DeclaredOnce

(* Keys stay right when a key is set by its setter.                        *)
LEMMA KeysSetStep ==
  ASSUME ParserInv, KeysSet, phase = "run", UNCHANGED parserVars,
         NEW d \in DOMAIN source, source[d].kind \in Declaration,
         NEW c, NEW n, c = ContractOf(d), n = source[d].name,
         keys' = [keys EXCEPT ![c][n] = KeySetBy(c, n)],
         \A s \in subscribed : s[1] \in 1 .. MaxContracts /\ s[2] \in Names,
         \A s \in subscribed' : s \in subscribed \/ (s[1] = c /\ s[2] = n),
         \A l \in live' : l \in live \/ l = <<c, n>>
  PROVE  KeysSet'
<1>1. c \in 1 .. MaxContracts /\ n \in Names /\ KeySetBy(c, n) \in Prototypes
  BY KeyOfDeclaration
<1>2. /\ keys \in [1 .. MaxContracts -> [Names -> Prototypes]]
      /\ live \subseteq (1 .. MaxContracts) \X Names
  BY DEF KeysSet
<1>3. keys' \in [1 .. MaxContracts -> [Names -> Prototypes]]
  BY <1>1, <1>2
<1>4. \A e \in 1 .. MaxContracts : \A m \in Names :
        keys'[e][m] = IF e = c /\ m = n THEN KeySetBy(c, n) ELSE keys[e][m]
  BY <1>1, <1>2
<1>5. /\ source' = source /\ phase' = phase
      /\ \A i : ContractOf(i)' = ContractOf(i)
      /\ \A e, m : KeySetBy(e, m)' = KeySetBy(e, m)
  BY SourceUnchanged, KeysUnchanged DEF parserVars
<1>6. live' \subseteq (1 .. MaxContracts) \X Names
  BY <1>1, <1>2
<1>7. ASSUME NEW i \in DOMAIN source, source[i].kind \in Declaration
      PROVE  keys'[ContractOf(i)][source[i].name]
               \in {NoKey, KeySetBy(ContractOf(i), source[i].name)}
  <2>1. ContractOf(i) \in 1 .. MaxContracts /\ source[i].name \in Names
    BY <1>7, KeyOfDeclaration
  <2>2. keys[ContractOf(i)][source[i].name]
          \in {NoKey, KeySetBy(ContractOf(i), source[i].name)}
    BY <1>7 DEF KeysSet
  <2> QED
    BY <1>4, <2>1, <2>2
<1>8. ASSUME NEW s \in subscribed'
      PROVE  keys'[s[1]][s[2]] = KeySetBy(s[1], s[2])
  <2>1. CASE s \in subscribed
    BY <1>4, <2>1 DEF KeysSet
  <2>2. CASE s[1] = c /\ s[2] = n
    BY <1>1, <1>4, <2>2
  <2> QED
    BY <2>1, <2>2
<1>9. ASSUME NEW l \in live'
      PROVE  keys'[l[1]][l[2]] = KeySetBy(l[1], l[2])
  <2>1. CASE l \in live
    BY <1>2, <1>4, <2>1 DEF KeysSet
  <2>2. CASE l = <<c, n>>
    BY <1>1, <1>4, <2>2
  <2> QED
    BY <2>1, <2>2
<1> QED
  BY <1>3, <1>5, <1>6, <1>7, <1>8, <1>9 DEF KeysSet, NoKey

(* Subscriptions and bindings stay bound to bind lines.                    *)
LEMMA FromBindLinesStep ==
  ASSUME FromBindLines, UNCHANGED parserVars, deployed \subseteq deployed',
         subscribed' \subseteq subscribed, bindings' \subseteq bindings
  PROVE  FromBindLines'
<1>1. /\ source' = source /\ output' = output
      /\ \A i : ContractOf(i)' = ContractOf(i)
      /\ \A e, m : KeySetBy(e, m)' = KeySetBy(e, m)
  BY SourceUnchanged, KeysUnchanged DEF parserVars
<1>2. ASSUME NEW s \in subscribed'
      PROVE  \E i \in DOMAIN source :
               /\ source[i].kind = "bind"
               /\ s = <<ContractOf(i), source[i].name, source[i].of, source[i].signal>>
  BY DEF FromBindLines
<1>3. ASSUME NEW b \in bindings'
      PROVE  \E i \in DOMAIN source :
               /\ source[i].kind = "bind" /\ ContractOf(i) \in deployed'
               /\ b = <<ContractOf(i), KeySetBy(ContractOf(i), source[i].name),
                        source[i].of, output[i].signal>>
  BY DEF FromBindLines
<1> QED
  BY <1>1, <1>2, <1>3 DEF FromBindLines

(* The bindings of a handler are what they were when nothing changes them. *)
LEMMA BindingsUnchanged ==
  ASSUME BindingsAsWritten, UNCHANGED parserVars,
         bindings' = bindings, subscribed' = subscribed
  PROVE  BindingsAsWritten'
<1>1. UNCHANGED <<source, output>> /\ UNCHANGED source
  BY DEF parserVars
<1>2. \A e, m : KeySetBy(e, m)' = KeySetBy(e, m)
  BY <1>1, KeysUnchanged
<1>3. \A h : (DeclaredFirst(h)' <=> DeclaredFirst(h)) /\ (DeclaredOnce(h)' <=> DeclaredOnce(h))
  BY <1>1, WordingUnchanged
<1>4. \A h : BoundAsWritten(h)' <=> BoundAsWritten(h)
  BY <1>2, Zenon DEF BoundAsWritten
<1> QED
  BY <1>3, <1>4 DEF BindingsAsWritten

(* Signals stay created when none is removed and none deployed.            *)
LEMMA SignalsStayCreated ==
  ASSUME DeclaredSignalsCreated, UNCHANGED <<parserVars, deployed>>,
         \A x \in created : x[2] # NoKey => x \in created',
         ParserInv, phase = "run"
  PROVE  DeclaredSignalsCreated'
<1>1. /\ source' = source /\ deployed' = deployed
      /\ \A i : ContractOf(i)' = ContractOf(i)
      /\ \A e, m : KeySetBy(e, m)' = KeySetBy(e, m)
      /\ \A c, kind, name : DeclaredIn(c, kind, name)' <=> DeclaredIn(c, kind, name)
  BY SourceUnchanged, KeysUnchanged DEF parserVars
<1>2. ASSUME NEW c, NEW i \in DOMAIN source, source[i].kind = "signal", ContractOf(i) = c,
             <<c, KeySetBy(c, source[i].name)>> \in created
      PROVE  <<c, KeySetBy(c, source[i].name)>> \in created'
  <2>1. KeySetBy(c, source[i].name) = <<source[i].name, <<source[i].types>>>>
    BY <1>2, KeyOfDeclaration DEF Declaration
  <2>2. KeySetBy(c, source[i].name) # NoKey
    BY <2>1 DEF NoKey
  <2> QED
    BY <1>2, <2>2
<1> QED
  BY <1>1, <1>2 DEF DeclaredSignalsCreated

-----------------------------------------------------------------------------
(* The invariant holds before anything is written.                         *)
LEMMA ContractInvInit ==
  ASSUME Init
  PROVE  ContractInv
<1>1. ParserInv
  BY ParserInvInit
<1>2. NoKey \in Prototypes
  <2>1. <<>> \in Seq(Types)
    OBVIOUS
  <2> QED
    BY <2>1 DEF NoKey, Prototypes
<1>3. keys \in [1 .. MaxContracts -> [Names -> Prototypes]]
  BY <1>2 DEF Init, Names
<1>4. KeysSet
  BY <1>3 DEF Init, ParserInit, KeysSet
<1>5. Idle /\ FromBindLines /\ DeclaredSignalsCreated
  BY DEF Init, Idle, FromBindLines, DeclaredSignalsCreated, Names
<1>6. BindingsAsWritten
  BY DEF Init, BindingsAsWritten, BoundAsWritten
<1> QED
  BY <1>1, <1>4, <1>5, <1>6 DEF ContractInv

(* Steps of the author and of the parser keep it: no contract runs yet.    *)
LEMMA ContractInvParser ==
  ASSUME ContractInv, ParserInv', UNCHANGED machineVars, phase # "run",
         phase' = "run" => UNCHANGED source
  PROVE  ContractInv'
<1>1. /\ deployed' = {} /\ bindings' = {} /\ subscribed' = {} /\ created' = {} /\ live' = {}
      /\ keys' = keys
      /\ \A c \in 1 .. MaxContracts : \A n \in Names : keys[c][n] = NoKey
  BY DEF ContractInv, Idle, machineVars
<1>2. Idle' /\ FromBindLines' /\ DeclaredSignalsCreated'
  BY <1>1 DEF Idle, FromBindLines, DeclaredSignalsCreated
<1>3. BindingsAsWritten'
  BY <1>1 DEF BindingsAsWritten, BoundAsWritten
<1>4. KeysSet'
  <2>1. ASSUME phase' = "run", NEW i \in DOMAIN source', source'[i].kind \in Declaration
        PROVE  keys'[ContractOf(i)'][source'[i].name] = NoKey
    <3>1. source' = source /\ ContractOf(i)' = ContractOf(i)
      BY <2>1, SourceUnchanged
    <3>2. ContractOf(i) \in 1 .. MaxContracts
      BY <3>1, ContractRange DEF ContractInv, ParserInv
    <3>3. source[i].name \in Names
      BY <2>1, <3>1, LineFields DEF ContractInv, ParserInv, Parsed, Declaration, Names
    <3> QED
      BY <1>1, <3>1, <3>2, <3>3
  <2>2. keys' \in [1 .. MaxContracts -> [Names -> Prototypes]]
    BY <1>1 DEF ContractInv, KeysSet
  <2> QED
    BY <1>1, <2>1, <2>2 DEF KeysSet, NoKey
<1> QED
  BY <1>2, <1>3, <1>4 DEF ContractInv

(* What the functions of the contracts leave as it is.                     *)
LEMMA ContractInvCalled ==
  ASSUME ContractInv, phase = "run", UNCHANGED parserVars
  PROVE  /\ ParserInv' /\ Idle'
         /\ \A s \in subscribed : s[1] \in 1 .. MaxContracts /\ s[2] \in Names
<1>1. ParserInv'
  BY ParserInvPhase DEF ContractInv, ParserInv, Parsed, parserVars
<1>2. Idle'
  BY DEF Idle, parserVars
<1>3. ASSUME NEW s \in subscribed
      PROVE  s[1] \in 1 .. MaxContracts /\ s[2] \in Names
  <2>1. PICK i \in DOMAIN source :
          /\ source[i].kind = "bind"
          /\ s = <<ContractOf(i), source[i].name, source[i].of, source[i].signal>>
    BY DEF ContractInv, FromBindLines
  <2>2. ContractOf(i) \in 1 .. MaxContracts
    BY ContractRange DEF ContractInv, ParserInv
  <2>3. source[i].name \in Names
    BY <2>1, LineFields DEF ContractInv, ParserInv, Parsed, Names
  <2> QED
    BY <2>1, <2>2, <2>3
<1> QED
  BY <1>1, <1>2, <1>3

(* Functions of the contracts that create signals keep it,                 *)
LEMMA ContractInvCreate ==
  ASSUME ContractInv, NEW i \in DOMAIN source, create_signal(i)
  PROVE  ContractInv'
<1> DEFINE c == ContractOf(i)
           n == source[i].name
<1>1. /\ phase = "run" /\ source[i].kind = "create_signal"
      /\ UNCHANGED parserVars /\ deployed' = deployed
      /\ keys' = [keys EXCEPT ![c][n] = KeySetBy(c, n)]
      /\ created \subseteq created' /\ live' = live \cup {<<c, n>>}
      /\ bindings' = bindings /\ subscribed' = subscribed
  BY DEF create_signal, Called
<1>2. PICK d \in DOMAIN source : /\ source[d].kind = "signal" /\ source[d].name = n
                                /\ ContractOf(d) = c
  BY <1>1, UsedSignal DEF ContractInv
<1>3. /\ ParserInv' /\ Idle'
      /\ \A s \in subscribed : s[1] \in 1 .. MaxContracts /\ s[2] \in Names
  BY <1>1, ContractInvCalled
<1>4. KeysSet'
  BY <1>1, <1>2, <1>3, KeysSetStep DEF ContractInv, Declaration
<1>5. FromBindLines'
  BY <1>1, FromBindLinesStep DEF ContractInv
<1>6. BindingsAsWritten'
  BY <1>1, BindingsUnchanged DEF ContractInv
<1>7. DeclaredSignalsCreated'
  BY <1>1, SignalsStayCreated DEF ContractInv
<1> QED
  BY <1>3, <1>4, <1>5, <1>6, <1>7 DEF ContractInv

(* those that delete them, which remove the null key,                      *)
LEMMA ContractInvDelete ==
  ASSUME ContractInv, NEW i \in DOMAIN source, delete_signal(i)
  PROVE  ContractInv'
<1> DEFINE c == ContractOf(i)
           n == source[i].name
<1>1. /\ phase = "run" /\ source[i].kind = "delete_signal"
      /\ UNCHANGED parserVars /\ deployed' = deployed
      /\ keys' = [keys EXCEPT ![c][n] = NoKey]
      /\ created' = created \ {<<c, keys'[c][n]>>} /\ live' = live \ {<<c, n>>}
      /\ bindings' = bindings /\ subscribed' = subscribed
  BY DEF delete_signal, Called
<1>2. PICK d \in DOMAIN source : /\ source[d].kind = "signal" /\ source[d].name = n
                                /\ ContractOf(d) = c
  BY <1>1, UsedSignal DEF ContractInv
<1>3. /\ ParserInv' /\ Idle'
      /\ \A s \in subscribed : s[1] \in 1 .. MaxContracts /\ s[2] \in Names
  BY <1>1, ContractInvCalled
<1>4. /\ c \in 1 .. MaxContracts /\ n \in Names
      /\ keys \in [1 .. MaxContracts -> [Names -> Prototypes]]
  BY <1>1, <1>2, KeyOfDeclaration DEF ContractInv, KeysSet, Declaration
<1>5. \A e \in 1 .. MaxContracts : \A m \in Names :
        keys'[e][m] = IF e = c /\ m = n THEN NoKey ELSE keys[e][m]
  BY <1>1, <1>4
<1>6. KeysSet'
  <2>1. /\ source' = source /\ phase' = phase
        /\ \A k : ContractOf(k)' = ContractOf(k)
        /\ \A e, m : KeySetBy(e, m)' = KeySetBy(e, m)
    BY <1>1, SourceUnchanged, KeysUnchanged DEF parserVars
  <2>2. /\ keys' \in [1 .. MaxContracts -> [Names -> Prototypes]]
        /\ live \subseteq (1 .. MaxContracts) \X Names
    <3>1. NoKey \in Prototypes
      <4>1. <<>> \in Seq(Types)
        OBVIOUS
      <4> QED
        BY <4>1 DEF NoKey, Prototypes
    <3> QED
      BY <1>1, <1>4, <3>1 DEF ContractInv, KeysSet
  <2>3. ASSUME NEW j \in DOMAIN source, source[j].kind \in Declaration
        PROVE  keys'[ContractOf(j)][source[j].name]
                 \in {NoKey, KeySetBy(ContractOf(j), source[j].name)}
    <3>1. ContractOf(j) \in 1 .. MaxContracts /\ source[j].name \in Names
      BY <1>1, <2>3, KeyOfDeclaration DEF ContractInv
    <3>2. keys[ContractOf(j)][source[j].name]
            \in {NoKey, KeySetBy(ContractOf(j), source[j].name)}
      BY <1>1, <2>3 DEF ContractInv, KeysSet
    <3> QED
      BY <1>5, <3>1, <3>2
  <2>4. ASSUME NEW s \in subscribed
        PROVE  keys'[s[1]][s[2]] = KeySetBy(s[1], s[2])
    <3>1. PICK j \in DOMAIN source :
            /\ source[j].kind = "bind"
            /\ s = <<ContractOf(j), source[j].name, source[j].of, source[j].signal>>
      BY DEF ContractInv, FromBindLines
    <3>2. PICK h \in DOMAIN source :
            /\ source[h].kind = "handler" /\ source[h].name = s[2] /\ ContractOf(h) = s[1]
      BY <1>1, <3>1, UsedHandler DEF ContractInv
    <3>3. ~(s[1] = c /\ s[2] = n)
      BY <1>2, <3>2 DEF ContractInv, ParserInv, NamesUnique, Declaration
    <3>4. keys[s[1]][s[2]] = KeySetBy(s[1], s[2])
      BY DEF ContractInv, KeysSet
    <3> QED
      BY <1>3, <1>5, <3>3, <3>4
  <2>5. ASSUME NEW l \in live'
        PROVE  keys'[l[1]][l[2]] = KeySetBy(l[1], l[2])
    <3>1. l \in live /\ l # <<c, n>>
      BY <1>1
    <3>2. l \in (1 .. MaxContracts) \X Names
      BY <2>2, <3>1
    <3>3. ~(l[1] = c /\ l[2] = n)
      BY <3>1, <3>2
    <3>4. keys[l[1]][l[2]] = KeySetBy(l[1], l[2])
      BY <3>1 DEF ContractInv, KeysSet
    <3> QED
      BY <1>5, <3>2, <3>3, <3>4
  <2> QED
    BY <1>1, <2>1, <2>2, <2>3, <2>4, <2>5 DEF KeysSet, NoKey
<1>7. FromBindLines'
  BY <1>1, FromBindLinesStep DEF ContractInv
<1>8. BindingsAsWritten'
  BY <1>1, BindingsUnchanged DEF ContractInv
<1>9. DeclaredSignalsCreated'
  BY <1>1, <1>4, <1>5, SignalsStayCreated DEF ContractInv
<1> QED
  BY <1>3, <1>6, <1>7, <1>8, <1>9 DEF ContractInv

(* the emitting ones, which change nothing of it,                          *)
LEMMA ContractInvEmit ==
  ASSUME ContractInv, phase = "run", UNCHANGED parserVars, deployed' = deployed,
         UNCHANGED <<keys, created, bindings, live, subscribed>>
  PROVE  ContractInv'
<1>1. /\ phase = "run" /\ UNCHANGED parserVars /\ deployed' = deployed
      /\ UNCHANGED <<keys, created, bindings, live, subscribed>>
  OBVIOUS
<1>2. ParserInv' /\ Idle'
  BY <1>1, ContractInvCalled
<1>3. KeysSet'
  <2>1. /\ source' = source /\ phase' = phase
        /\ \A k : ContractOf(k)' = ContractOf(k)
        /\ \A e, m : KeySetBy(e, m)' = KeySetBy(e, m)
    BY <1>1, SourceUnchanged, KeysUnchanged DEF parserVars
  <2> QED
    BY <1>1, <2>1 DEF ContractInv, KeysSet, NoKey
<1>4. FromBindLines'
  BY <1>1, FromBindLinesStep DEF ContractInv
<1>5. BindingsAsWritten'
  BY <1>1, BindingsUnchanged DEF ContractInv
<1>6. DeclaredSignalsCreated'
  BY <1>1, SignalsStayCreated DEF ContractInv
<1> QED
  BY <1>2, <1>3, <1>4, <1>5, <1>6 DEF ContractInv

(* A subscription and the binding that implements it.                      *)
Bound(s) == <<s[1], KeySetBy(s[1], s[2]), s[3], KeySetBy(s[3], s[4])>>

(* A subscription is known from the names in its binding.                  *)
LEMMA SubscriptionKeys ==
  ASSUME ParserInv, phase = "run", NEW i \in DOMAIN source,
         source[i].kind \in {"bind", "detach"},
         NEW s, s = <<ContractOf(i), source[i].name, source[i].of, source[i].signal>>
  PROVE  /\ Bound(s)[1] = s[1] /\ Bound(s)[2][1] = s[2]
         /\ Bound(s)[3] = s[3] /\ Bound(s)[4][1] = s[4]
         /\ Bound(s)[2] # NoKey
<1>1. PICK h \in DOMAIN source : /\ source[h].kind = "handler" /\ source[h].name = s[2]
                                /\ ContractOf(h) = s[1]
  BY UsedHandler
<1>2. PICK d \in DOMAIN source : /\ source[d].kind = "signal" /\ source[d].name = s[4]
                                /\ ContractOf(d) = s[3]
  BY UsedHandler
<1>3. KeySetBy(s[1], s[2]) = <<s[2], <<source[h].types>>>>
  BY <1>1, KeyOfDeclaration DEF Declaration
<1>4. KeySetBy(s[3], s[4]) = <<s[4], <<source[d].types>>>>
  BY <1>2, KeyOfDeclaration DEF Declaration
<1>5. Bound(s) = <<s[1], <<s[2], <<source[h].types>>>>, s[3], <<s[4], <<source[d].types>>>>>>
  BY <1>3, <1>4 DEF Bound
<1>6. <<s[2], <<source[h].types>>>> # NoKey
  BY DEF NoKey
<1> QED
  BY <1>5, <1>6

(* binding ones, whose prototype is the key of the signal,                 *)
LEMMA ContractInvBind ==
  ASSUME ContractInv, NEW i \in DOMAIN source, bind(i)
  PROVE  ContractInv'
<1> DEFINE c   == ContractOf(i)
           n   == source[i].name
           sub == <<c, n, source[i].of, source[i].signal>>
           new == <<c, KeySetBy(c, n), source[i].of, output[i].signal>>
<1>1. /\ phase = "run" /\ source[i].kind = "bind" /\ c \in deployed
      /\ UNCHANGED parserVars /\ deployed' = deployed
      /\ keys' = [keys EXCEPT ![c][n] = KeySetBy(c, n)]
      /\ bindings' = bindings \cup {<<c, keys'[c][n], source[i].of, output[i].signal>>}
      /\ subscribed' = subscribed \cup {sub}
      /\ created' = created /\ live' = live
  BY DEF bind, Called
<1>2. PICK d \in DOMAIN source : /\ source[d].kind = "handler" /\ source[d].name = n
                                /\ ContractOf(d) = c
  BY <1>1, UsedHandler DEF ContractInv
<1>3. /\ ParserInv' /\ Idle'
      /\ \A s \in subscribed : s[1] \in 1 .. MaxContracts /\ s[2] \in Names
  BY <1>1, ContractInvCalled
<1>4. KeysSet'
  <2>1. \A s \in subscribed' : s \in subscribed \/ (s[1] = c /\ s[2] = n)
    BY <1>1
  <2>2. \A l \in live' : l \in live \/ l = <<c, n>>
    BY <1>1
  <2>3. source[d].kind \in Declaration /\ KeysSet /\ ParserInv
    BY <1>2 DEF ContractInv, Declaration
  <2>4. /\ phase = "run" /\ UNCHANGED parserVars
        /\ keys' = [keys EXCEPT ![c][n] = KeySetBy(c, n)]
        /\ c = ContractOf(d) /\ n = source[d].name
    BY <1>1, <1>2
  <2> HIDE DEF c, n
  <2> QED
    BY <1>3, <2>1, <2>2, <2>3, <2>4, KeysSetStep
<1>5. bindings' = bindings \cup {new}
  <2>1. /\ c \in 1 .. MaxContracts /\ n \in Names
        /\ keys \in [1 .. MaxContracts -> [Names -> Prototypes]]
    BY <1>1, <1>2, KeyOfDeclaration DEF ContractInv, KeysSet, Declaration
  <2>2. keys'[c][n] = KeySetBy(c, n)
    BY <1>1, <2>1
  <2> QED
    BY <1>1, <2>2
<1>6. /\ source' = source /\ output' = output
      /\ \A k : ContractOf(k)' = ContractOf(k)
      /\ \A e, m : KeySetBy(e, m)' = KeySetBy(e, m)
  BY <1>1, SourceUnchanged, KeysUnchanged DEF parserVars
<1>7. FromBindLines'
  <2>1. \A s \in subscribed' : \E j \in DOMAIN source :
          /\ source[j].kind = "bind"
          /\ s = <<ContractOf(j), source[j].name, source[j].of, source[j].signal>>
    BY <1>1 DEF ContractInv, FromBindLines
  <2>2. \A b \in bindings' : \E j \in DOMAIN source :
          /\ source[j].kind = "bind" /\ ContractOf(j) \in deployed
          /\ b = <<ContractOf(j), KeySetBy(ContractOf(j), source[j].name),
                   source[j].of, output[j].signal>>
    BY <1>1, <1>5 DEF ContractInv, FromBindLines
  <2> QED
    BY <1>1, <1>6, <2>1, <2>2 DEF FromBindLines
<1>8. BindingsAsWritten'
  <2> SUFFICES ASSUME NEW h \in Handlers, DeclaredFirst(h), DeclaredOnce(h)
               PROVE  BoundAsWritten(h)'
    <3>1. UNCHANGED source
      BY <1>6
    <3>2. \A x : (DeclaredFirst(x)' <=> DeclaredFirst(x)) /\ (DeclaredOnce(x)' <=> DeclaredOnce(x))
      BY <3>1, WordingUnchanged
    <3> QED
      BY <3>2 DEF BindingsAsWritten
  <2>1. {b \in bindings : b[2][1] = h} = {Bound(s) : s \in {s \in subscribed : s[2] = h}}
    BY DEF ContractInv, BindingsAsWritten, BoundAsWritten, Bound
  <2>2. new[2][1] = n /\ sub[2] = n
    <3>1. Bound(sub)[2][1] = sub[2]
      BY <1>1, SubscriptionKeys DEF ContractInv
    <3>2. Bound(sub)[2] = KeySetBy(c, n)
      BY DEF Bound
    <3> QED
      BY <3>1, <3>2
  <2>3. n = h => new = Bound(sub)
    BY <1>1, UsedHandler DEF ContractInv, Bound
  <2>4. {b \in bindings' : b[2][1] = h} = {Bound(s) : s \in {s \in subscribed' : s[2] = h}}
    <3> HIDE DEF new, sub
    <3>1. CASE n = h
      <4>1. {b \in bindings' : b[2][1] = h} = {b \in bindings : b[2][1] = h} \cup {new}
        BY <1>5, <2>2, <3>1
      <4>2. {s \in subscribed' : s[2] = h} = {s \in subscribed : s[2] = h} \cup {sub}
        BY <1>1, <2>2, <3>1
      <4> QED
        BY <2>1, <2>3, <3>1, <4>1, <4>2
    <3>2. CASE n # h
      <4>1. {b \in bindings' : b[2][1] = h} = {b \in bindings : b[2][1] = h}
        BY <1>5, <2>2, <3>2
      <4>2. {s \in subscribed' : s[2] = h} = {s \in subscribed : s[2] = h}
        BY <1>1, <2>2, <3>2
      <4> QED
        BY <2>1, <4>1, <4>2
    <3> QED
      BY <3>1, <3>2
  <2>5. \A s : Bound(s) = <<s[1], KeySetBy(s[1], s[2])', s[3], KeySetBy(s[3], s[4])'>>
    BY <1>6 DEF Bound
  <2> QED
    BY <2>4, <2>5, Zenon DEF BoundAsWritten
<1>9. DeclaredSignalsCreated'
  BY <1>1, SignalsStayCreated DEF ContractInv
<1> QED
  BY <1>3, <1>4, <1>7, <1>8, <1>9 DEF ContractInv

(* detaching ones, which remove the binding of the subscription if there   *)
(* is one and nothing otherwise,                                           *)
LEMMA ContractInvDetach ==
  ASSUME ContractInv, NEW i \in DOMAIN source, detach(i)
  PROVE  ContractInv'
<1> DEFINE c   == ContractOf(i)
           n   == source[i].name
           sub == <<c, n, source[i].of, source[i].signal>>
           old == <<c, keys[c][n], source[i].of, output[i].signal>>
<1>1. /\ phase = "run" /\ source[i].kind = "detach"
      /\ UNCHANGED parserVars /\ deployed' = deployed
      /\ keys' = keys /\ created' = created /\ live' = live
      /\ bindings' = bindings \ {old} /\ subscribed' = subscribed \ {sub}
  BY DEF detach, Called
<1>2. PICK d \in DOMAIN source : /\ source[d].kind = "handler" /\ source[d].name = n
                                /\ ContractOf(d) = c
  BY <1>1, UsedHandler DEF ContractInv
<1>3. ParserInv' /\ Idle'
  BY <1>1, ContractInvCalled
<1>4. /\ source' = source /\ output' = output /\ phase' = phase
      /\ \A k : ContractOf(k)' = ContractOf(k)
      /\ \A e, m : KeySetBy(e, m)' = KeySetBy(e, m)
  BY <1>1, SourceUnchanged, KeysUnchanged DEF parserVars
<1>5. KeysSet'
  BY <1>1, <1>4 DEF ContractInv, KeysSet, NoKey
<1>6. FromBindLines'
  BY <1>1, FromBindLinesStep DEF ContractInv
<1>7. keys[c][n] \in {NoKey, KeySetBy(c, n)}
  BY <1>1, <1>2 DEF ContractInv, KeysSet, Declaration
<1>8. ASSUME NEW s \in subscribed \cup {sub}
      PROVE  /\ Bound(s)[1] = s[1] /\ Bound(s)[2][1] = s[2]
             /\ Bound(s)[3] = s[3] /\ Bound(s)[4][1] = s[4]
             /\ s = <<s[1], s[2], s[3], s[4]>>
             /\ Bound(s)[2] # NoKey
  <2>1. CASE s \in subscribed
    <3>1. PICK j \in DOMAIN source :
            /\ source[j].kind = "bind"
            /\ s = <<ContractOf(j), source[j].name, source[j].of, source[j].signal>>
      BY <2>1 DEF ContractInv, FromBindLines
    <3> QED
      BY <1>1, <3>1, SubscriptionKeys DEF ContractInv
  <2>2. CASE s = sub
    BY <1>1, <2>2, SubscriptionKeys DEF ContractInv
  <2> QED
    BY <2>1, <2>2
<1>9. \A b \in bindings : b[2] # NoKey
  <2> SUFFICES ASSUME NEW b \in bindings
               PROVE  b[2] # NoKey
    OBVIOUS
  <2>1. PICK j \in DOMAIN source :
          /\ source[j].kind = "bind"
          /\ b = <<ContractOf(j), KeySetBy(ContractOf(j), source[j].name),
                   source[j].of, output[j].signal>>
    BY DEF ContractInv, FromBindLines
  <2>2. PICK h \in DOMAIN source : /\ source[h].kind = "handler"
                                  /\ source[h].name = source[j].name
                                  /\ ContractOf(h) = ContractOf(j)
    BY <1>1, <2>1, UsedHandler DEF ContractInv
  <2>3. b[2] = <<source[h].name, <<source[h].types>>>>
    BY <1>1, <2>1, <2>2, KeyOfDeclaration DEF ContractInv, Declaration
  <2> QED
    BY <2>3 DEF NoKey
<1>10. BindingsAsWritten'
  <2> SUFFICES ASSUME NEW h \in Handlers, DeclaredFirst(h), DeclaredOnce(h)
               PROVE  BoundAsWritten(h)'
    <3>1. UNCHANGED source
      BY <1>4
    <3>2. \A x : (DeclaredFirst(x)' <=> DeclaredFirst(x)) /\ (DeclaredOnce(x)' <=> DeclaredOnce(x))
      BY <3>1, WordingUnchanged
    <3> QED
      BY <3>2 DEF BindingsAsWritten
  <2>1. {b \in bindings : b[2][1] = h} = {Bound(s) : s \in {s \in subscribed : s[2] = h}}
    BY DEF ContractInv, BindingsAsWritten, BoundAsWritten, Bound
  <2>2. n = h => output[i].signal = KeySetBy(source[i].of, source[i].signal)
    BY <1>1, UsedHandler DEF ContractInv
  <2>3. {b \in bindings' : b[2][1] = h} = {Bound(s) : s \in {s \in subscribed' : s[2] = h}}
    <3>1. CASE keys[c][n] = NoKey
      <4>1. bindings' = bindings
        BY <1>1, <1>9, <3>1
      <4>2. sub \notin subscribed
        <5>1. Bound(sub)[2] = KeySetBy(c, n)
          BY DEF Bound
        <5>2. Bound(sub)[2] # NoKey
          BY <1>8
        <5>3. sub \in subscribed => keys[c][n] = KeySetBy(c, n)
          BY DEF ContractInv, KeysSet
        <5> QED
          BY <3>1, <5>1, <5>2, <5>3
      <4>3. subscribed' = subscribed
        BY <1>1, <4>2
      <4> QED
        BY <2>1, <4>1, <4>3
    <3>2. CASE keys[c][n] = KeySetBy(c, n) /\ n # h
      <4>1. old[2][1] = n
        <5>1. Bound(sub)[2] = KeySetBy(c, n) /\ Bound(sub)[2][1] = n
          BY <1>8 DEF Bound
        <5> QED
          BY <3>2, <5>1
      <4>2. {b \in bindings' : b[2][1] = h} = {b \in bindings : b[2][1] = h}
        BY <1>1, <3>2, <4>1
      <4>3. {s \in subscribed' : s[2] = h} = {s \in subscribed : s[2] = h}
        BY <1>1, <3>2
      <4> QED
        BY <2>1, <4>2, <4>3
    <3>3. CASE keys[c][n] = KeySetBy(c, n) /\ n = h
      <4>1. old = Bound(sub)
        BY <2>2, <3>3 DEF Bound
      <4>2. \A s \in subscribed : Bound(s) = Bound(sub) => s = sub
        BY <1>8
      <4> HIDE DEF old, sub
      <4>3. {b \in bindings' : b[2][1] = h} = {b \in bindings : b[2][1] = h} \ {old}
        BY <1>1
      <4>4. {s \in subscribed' : s[2] = h} = {s \in subscribed : s[2] = h} \ {sub}
        BY <1>1
      <4> QED
        BY <2>1, <4>1, <4>2, <4>3, <4>4
    <3> QED
      BY <1>7, <3>1, <3>2, <3>3
  <2>4. \A s : Bound(s) = <<s[1], KeySetBy(s[1], s[2])', s[3], KeySetBy(s[3], s[4])'>>
    BY <1>4 DEF Bound
  <2> QED
    BY <2>3, <2>4, Zenon DEF BoundAsWritten
<1>11. DeclaredSignalsCreated'
  BY <1>1, SignalsStayCreated DEF ContractInv
<1> QED
  BY <1>3, <1>5, <1>6, <1>10, <1>11 DEF ContractInv

(* and constructors, which create the signals declared above them.         *)
LEMMA ContractInvDeploy ==
  ASSUME ContractInv, NEW c \in 1 .. MaxContracts, Deploy(c)
  PROVE  ContractInv'
<1> DEFINE inits == {i \in DOMAIN output : ContractOf(i) = c /\ source[i].kind = "constructor"}
           made  == UNION {ToSet(output[i].creates) : i \in inits}
<1>1. /\ phase = "run" /\ Compiles(c)
      /\ UNCHANGED parserVars /\ deployed' = deployed \cup {c}
      /\ keys' = [keys EXCEPT ![c] = [n \in DOMAIN @ |->
                    IF n \in made THEN KeySetBy(c, n) ELSE @[n]]]
      /\ created' = created \cup {<<c, KeySetBy(c, n)>> : n \in made}
      /\ live' = live \cup {<<c, n>> : n \in made}
      /\ bindings' = bindings /\ subscribed' = subscribed
  BY DEF Deploy
<1>2. /\ ParserInv' /\ Idle'
      /\ \A s \in subscribed : s[1] \in 1 .. MaxContracts /\ s[2] \in Names
  BY <1>1, ContractInvCalled
<1>3. /\ source' = source /\ phase' = phase
      /\ \A k : ContractOf(k)' = ContractOf(k)
      /\ \A e, m : KeySetBy(e, m)' = KeySetBy(e, m)
      /\ \A e, kind, name : DeclaredIn(e, kind, name)' <=> DeclaredIn(e, kind, name)
  BY <1>1, SourceUnchanged, KeysUnchanged DEF parserVars
<1>4. DOMAIN output = DOMAIN source /\ DOMAIN source = 1 .. Len(source) /\ Len(source) \in Nat
  BY <1>1 DEF ContractInv, ParserInv, Parsed
<1>5. ASSUME NEW n \in made
      PROVE  n \in Names /\ KeySetBy(c, n) \in Prototypes
  <2>1. PICK i \in inits : n \in ToSet(output[i].creates)
    OBVIOUS
  <2>2. PICK j \in DOMAIN output : /\ ContractOf(j) = c /\ "declares" \in DOMAIN output[j]
                                  /\ output[j].declares = n
    BY <1>1, <2>1 DEF Compiles
  <2>3. j \in DOMAIN source /\ source[j].kind \in Declaration /\ source[j].name = n
    BY <1>4, <2>2 DEF ContractInv, ParserInv, OutputAsWritten, DeclaresAsWritten
  <2> QED
    BY <1>1, <2>2, <2>3, KeyOfDeclaration DEF ContractInv
<1> HIDE DEF made
<1>6. keys \in [1 .. MaxContracts -> [Names -> Prototypes]]
      /\ live \subseteq (1 .. MaxContracts) \X Names
  BY DEF ContractInv, KeysSet
<1>7. /\ keys' \in [1 .. MaxContracts -> [Names -> Prototypes]]
      /\ \A e \in 1 .. MaxContracts : \A m \in Names :
           keys'[e][m] = IF e = c /\ m \in made THEN KeySetBy(c, m) ELSE keys[e][m]
  BY <1>1, <1>5, <1>6
<1>8. KeysSet'
  <2>1. live' \subseteq (1 .. MaxContracts) \X Names
    BY <1>1, <1>5, <1>6
  <2>2. ASSUME NEW j \in DOMAIN source, source[j].kind \in Declaration
        PROVE  keys'[ContractOf(j)][source[j].name]
                 \in {NoKey, KeySetBy(ContractOf(j), source[j].name)}
    <3>1. ContractOf(j) \in 1 .. MaxContracts /\ source[j].name \in Names
      BY <1>1, <2>2, KeyOfDeclaration DEF ContractInv
    <3>2. keys[ContractOf(j)][source[j].name]
            \in {NoKey, KeySetBy(ContractOf(j), source[j].name)}
      BY <1>1, <2>2 DEF ContractInv, KeysSet
    <3> QED
      BY <1>7, <3>1, <3>2
  <2>3. ASSUME NEW s \in subscribed
        PROVE  keys'[s[1]][s[2]] = KeySetBy(s[1], s[2])
    <3>1. keys[s[1]][s[2]] = KeySetBy(s[1], s[2])
      BY DEF ContractInv, KeysSet
    <3> QED
      BY <1>2, <1>7, <3>1
  <2>4. ASSUME NEW l \in live'
        PROVE  keys'[l[1]][l[2]] = KeySetBy(l[1], l[2])
    <3>1. CASE l \in live
      <4>1. keys[l[1]][l[2]] = KeySetBy(l[1], l[2])
        BY <3>1 DEF ContractInv, KeysSet
      <4> QED
        BY <1>6, <1>7, <3>1, <4>1
    <3>2. ASSUME NEW n \in made, l = <<c, n>>
          PROVE  keys'[l[1]][l[2]] = KeySetBy(l[1], l[2])
      BY <1>5, <1>7, <3>2
    <3> QED
      BY <1>1, <3>1, <3>2
  <2> QED
    BY <1>1, <1>3, <1>7, <2>1, <2>2, <2>3, <2>4 DEF KeysSet, NoKey
<1>9. FromBindLines'
  BY <1>1, FromBindLinesStep DEF ContractInv
<1>10. BindingsAsWritten'
  BY <1>1, BindingsUnchanged DEF ContractInv
<1>11. ASSUME NEW i \in DOMAIN source, ContractOf(i) = c, source[i].kind = "signal",
              NEW j \in DOMAIN source, ContractOf(j) = c, source[j].kind = "constructor", i < j
       PROVE  source[i].name \in made
  <2>1. i \in 1 .. j - 1 /\ j \in inits
    BY <1>4, <1>11
  <2>2. CreatesAsWritten(j)
    BY <1>4 DEF ContractInv, ParserInv, OutputAsWritten
  <2>3. source[i].name \in ToSet(output[j].creates)
    BY <1>11, <2>1, <2>2 DEF CreatesAsWritten, ToSet
  <2> QED
    BY <2>1, <2>3 DEF made
<1>12. DeclaredSignalsCreated'
  BY <1>1, <1>3, <1>11 DEF ContractInv, DeclaredSignalsCreated
<1> QED
  BY <1>2, <1>8, <1>9, <1>10, <1>12 DEF ContractInv

-----------------------------------------------------------------------------
(* Every step of the author, the parser and the machine keeps it.          *)
LEMMA ContractInvNext ==
  ASSUME ContractInv, [Next]_vars
  PROVE  ContractInv'
<1>1. CASE UNCHANGED vars
  <2>1. UNCHANGED parserVars /\ UNCHANGED machineVars
    BY <1>1 DEF vars
  <2>2. CASE phase = "run"
    BY <2>1, <2>2, ContractInvEmit DEF machineVars
  <2>3. CASE phase # "run"
    <3>1. ParserInv'
      BY <2>1, <2>3, ParserInvPhase DEF ContractInv, ParserInv, Parsed, parserVars
    <3> QED
      BY <2>1, <2>3, <3>1, ContractInvParser DEF parserVars
  <2> QED
    BY <2>2, <2>3
<1>2. ASSUME NEW line \in Lines, Write(line), UNCHANGED machineVars
      PROVE  ContractInv'
  BY <1>2, ParserInvWrite, ContractInvParser DEF ContractInv, Write
<1>3. CASE StartParse /\ UNCHANGED machineVars
  <2>1. ParserInv'
    BY <1>3, ParserInvPhase DEF ContractInv, StartParse
  <2> QED
    BY <1>3, <2>1, ContractInvParser DEF StartParse
<1>4. CASE ParseLine /\ UNCHANGED machineVars
  BY <1>4, ParserInvParseLine, ContractInvParser DEF ContractInv, ParseLine
<1>5. CASE StartRun
  <2>1. /\ phase = "parse" /\ position = Len(source) /\ phase' = "run"
        /\ UNCHANGED <<source, position, signal_array, handler_array, output>>
        /\ UNCHANGED machineVars
    BY <1>5 DEF StartRun
  <2>2. ParserInv'
    BY <2>1, ParserInvPhase DEF ContractInv, ParserInv
  <2> QED
    BY <2>1, <2>2, ContractInvParser
<1>6. ASSUME NEW c \in 1 .. MaxContracts, Deploy(c)
      PROVE  ContractInv'
  BY <1>6, ContractInvDeploy
<1>7. ASSUME NEW i \in DOMAIN source,
             create_signal(i) \/ delete_signal(i) \/ bind(i) \/ detach(i) \/ emit(i)
      PROVE  ContractInv'
  <2>1. CASE emit(i)
    BY <2>1, ContractInvEmit DEF emit, Called
  <2> QED
    BY <1>7, <2>1, ContractInvCreate, ContractInvDelete, ContractInvBind, ContractInvDetach
<1> QED
  BY <1>1, <1>2, <1>3, <1>4, <1>5, <1>6, <1>7 DEF Next

(* The invariant holds in every reachable state.                           *)
LEMMA ContractInvHolds == Spec => []ContractInv
<1>1. Init => ContractInv
  BY ContractInvInit
<1>2. ContractInv /\ [Next]_vars => ContractInv'
  BY ContractInvNext
<1> QED
  BY <1>1, <1>2, PTL DEF Spec

(* One snippet is written for each line, and bindings are made by deployed *)
(* contracts only.                                                         *)
THEOREM SignalTypeCorrect == Spec => []TypeOK
<1>1. ContractInv => TypeOK
  BY DEF ContractInv, ParserInv, Parsed, FromBindLines, TypeOK
<1> QED
  BY <1>1, ContractInvHolds, PTL

(* SIGBIND and SIGDETACH maintain the subscriptions the source asks for,   *)
(* in whatever order the functions of the contracts are called.            *)
THEOREM SignalBindingsCorrect == Spec => []BindingsAsWritten
<1>1. ContractInv => BindingsAsWritten
  BY DEF ContractInv
<1> QED
  BY <1>1, ContractInvHolds, PTL

(* The constructor snippet creates all signals declared above it.          *)
THEOREM SignalsCreatedCorrect == Spec => []DeclaredSignalsCreated
<1>1. ContractInv => DeclaredSignalsCreated
  BY DEF ContractInv
<1> QED
  BY <1>1, ContractInvHolds, PTL

(* SIGEMIT with the stored key reaches the handlers that are subscribed to *)
(* the signal by the wording of the source, and no others.                 *)
THEOREM SignalEmitCorrect == Spec => EmitReachesSubscribers
<1> DEFINE Reaches(i) ==
             source[i].kind = "emit" /\ emit(i) /\ <<ContractOf(i), source[i].name>> \in live =>
               \A h \in Handlers : DeclaredFirst(h) /\ DeclaredOnce(h) =>
                 {b \in reached' : b[2] = h}
                   = {<<s[1], s[2]>> : s \in {s \in subscribed :
                        <<s[2], s[3], s[4]>> = <<h, ContractOf(i), source[i].name>>}}
<1>1. ASSUME ContractInv, NEW i \in DOMAIN source
      PROVE  Reaches(i)
  <2> DEFINE c == ContractOf(i)
             n == source[i].name
             key == KeySetBy(c, n)
  <2> SUFFICES ASSUME source[i].kind = "emit", emit(i), <<c, n>> \in live,
                      NEW h \in Handlers, DeclaredFirst(h), DeclaredOnce(h)
               PROVE  {b \in reached' : b[2] = h}
                        = {<<s[1], s[2]>> : s \in {s \in subscribed :
                             <<s[2], s[3], s[4]>> = <<h, c, n>>}}
    OBVIOUS
  <2>1. phase = "run"
    BY DEF emit, Called
  <2>2. keys[c][n] = key
    BY <1>1 DEF ContractInv, KeysSet
  <2>3. reached' = {<<b[1], b[2][1]>> : b \in {b \in bindings : b[3] = c /\ b[4] = key}}
    BY <2>2 DEF emit
  <2>4. {b \in bindings : b[2][1] = h} = {Bound(s) : s \in {s \in subscribed : s[2] = h}}
    BY <1>1 DEF ContractInv, BindingsAsWritten, BoundAsWritten, Bound
  <2>5. ASSUME NEW s \in subscribed
        PROVE  /\ Bound(s)[1] = s[1] /\ Bound(s)[2][1] = s[2]
               /\ Bound(s)[3] = s[3] /\ Bound(s)[4][1] = s[4]
    <3>1. PICK j \in DOMAIN source :
            /\ source[j].kind = "bind"
            /\ s = <<ContractOf(j), source[j].name, source[j].of, source[j].signal>>
      BY <1>1 DEF ContractInv, FromBindLines
    <3> QED
      BY <1>1, <2>1, <3>1, SubscriptionKeys DEF ContractInv
  <2>6. key[1] = n
    <3>1. PICK d \in DOMAIN source : /\ source[d].kind = "signal" /\ source[d].name = n
                                    /\ ContractOf(d) = c
      BY <1>1, <2>1, UsedSignal DEF ContractInv
    <3> QED
      BY <1>1, <2>1, <3>1, KeyOfDeclaration DEF ContractInv, Declaration
  <2>7. \A s \in subscribed : s[3] = c =>
          (Bound(s)[4] = key <=> s[4] = n)
    BY <2>5, <2>6 DEF Bound
  <2> HIDE DEF c, n, key
  <2>8. ASSUME NEW s \in subscribed, s[2] = h, s[3] = c, s[4] = n
        PROVE  <<s[1], s[2]>> \in reached'
    <3>1. Bound(s) \in bindings
      BY <2>4, <2>8
    <3>2. Bound(s)[3] = c /\ Bound(s)[4] = key
      BY <2>5, <2>7, <2>8
    <3>3. <<Bound(s)[1], Bound(s)[2][1]>> \in reached'
      BY <2>3, <3>1, <3>2
    <3> QED
      BY <2>5, <3>3
  <2>9. ASSUME NEW r \in reached', r[2] = h
        PROVE  \E s \in subscribed : s[2] = h /\ s[3] = c /\ s[4] = n /\ r = <<s[1], s[2]>>
    <3>1. PICK b \in bindings : b[3] = c /\ b[4] = key /\ r = <<b[1], b[2][1]>>
      BY <2>3
    <3>2. b[2][1] = h
      BY <2>9, <3>1
    <3>3. PICK s \in subscribed : s[2] = h /\ b = Bound(s)
      BY <2>4, <3>2
    <3>4. s[3] = c /\ s[4] = n
      BY <2>5, <2>7, <3>1, <3>3
    <3> QED
      BY <2>5, <3>1, <3>3, <3>4
  <2> QED
    BY <2>8, <2>9
<1>2. ContractInv => \A i \in DOMAIN source : Reaches(i)
  BY <1>1
<1>3. ContractInv /\ [Next]_vars => [\A i \in DOMAIN source : Reaches(i)]_vars
  BY <1>2
<1> QED
  BY <1>3, ContractInvHolds, PTL DEF EmitReachesSubscribers, Spec
=============================================================================
