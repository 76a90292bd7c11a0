--------------------------- MODULE SignalContract ---------------------------
(***************************************************************************)
(* The contracts that parse.pl produces, deployed on a virtual machine     *)
(* with the signal opcodes.  The machine is external: CREATESIGNAL,        *)
(* DELETESIGNAL, SIGBIND, SIGDETACH and SIGEMIT are modelled by what       *)
(* Instruction.h says of them.                                             *)
(***************************************************************************)
EXTENDS SignalParser

VARIABLES
  keys,        \* storage: the <name>_key variable of every contract
  created,     \* signals that exist, as <<contract, key>>
  bindings,    \* <<handler contract, handler key, signal contract, signal key>>
  deployed,    \* contracts whose constructor has run
  reached,     \* handlers the last emit reached, as <<contract, name>>
  live,        \* signals that exist by the wording of the source
  subscribed   \* subscriptions by the wording of the source

machineVars == <<keys, created, bindings, deployed, reached, live, subscribed>>
vars == <<parserVars, machineVars>>

Init ==
  /\ ParserInit
  /\ keys = [c \in 1 .. MaxContracts |-> [n \in Signals \cup Handlers |-> NoKey]]
  /\ created = {} /\ bindings = {} /\ deployed = {} /\ reached = {}
  /\ live = {} /\ subscribed = {}

StartRun ==
  /\ phase = "parse" /\ position = Len(source)
  /\ phase' = "run"
  /\ UNCHANGED <<source, position, signal_array, handler_array, output, machineVars>>

(* What set_<name>_key() assigns in contract c.                            *)
KeySetBy(c, name) ==
  LET i == CHOOSE i \in DOMAIN output :
             /\ ContractOf(i) = c
             /\ "declares" \in DOMAIN output[i] /\ output[i].declares = name
  IN  output[i].sets

(* Mutant: the constructor sets the keys but does not create the signals.  *)
DeployKeysOnly(c) ==
  /\ phase = "run" /\ c \in 1 .. Contracts \ deployed
  /\ Compiles(c)
  /\ deployed' = deployed \cup {c}
  /\ UNCHANGED <<keys, created, live, bindings, subscribed, reached, parserVars>>

(* The constructor: the auto created signals, in the parser's order.       *)
Deploy(c) ==
  /\ phase = "run" /\ c \in 1 .. Contracts \ deployed
  /\ Compiles(c)
  /\ LET made == UNION {ToSet(output[i].creates) :
                          i \in {i \in DOMAIN output : ContractOf(i) = c
                                                    /\ source[i].kind = "constructor"}}
     IN  /\ keys' = [keys EXCEPT ![c] = [n \in DOMAIN @ |->
                       IF n \in made THEN KeySetBy(c, n) ELSE @[n]]]
         /\ created' = created \cup {<<c, KeySetBy(c, n)>> : n \in made}
         /\ live' = live \cup {<<c, n>> : n \in made}
  /\ deployed' = deployed \cup {c}
  /\ UNCHANGED <<bindings, subscribed, reached, parserVars>>

(* Function number i of the file is called.                                *)
Called(i, kind) ==
  /\ phase = "run" /\ source[i].kind = kind /\ ContractOf(i) \in deployed
  /\ UNCHANGED <<parserVars, deployed>>

create_signal(i) ==
  LET c == ContractOf(i)
      n == source[i].name
  IN  /\ Called(i, "create_signal")
      /\ keys' = [keys EXCEPT ![c][n] = KeySetBy(c, n)]
      /\ created' = created \cup {<<c, keys'[c][n]>>}
      /\ live' = live \cup {<<c, n>>}
      /\ UNCHANGED <<bindings, subscribed, reached>>

delete_signal(i) ==
  LET c == ContractOf(i)
      n == source[i].name
  IN  /\ Called(i, "delete_signal")
      /\ keys' = [keys EXCEPT ![c][n] = NoKey]
      /\ created' = created \ {<<c, keys'[c][n]>>}
      /\ live' = live \ {<<c, n>>}
      /\ UNCHANGED <<bindings, subscribed, reached>>

(* Mutant: the handler's key is not set before it is used.                 *)
bindUnset(i) ==
  LET c == ContractOf(i)
      h == source[i].name
  IN  /\ Called(i, "bind")
      /\ bindings' = bindings \cup {<<c, keys[c][h], source[i].of, output[i].signal>>}
      /\ subscribed' = subscribed \cup {<<c, h, source[i].of, source[i].signal>>}
      /\ UNCHANGED <<keys, created, live, reached>>

(* SIGBIND with the handler's key, set just before, and the hash of the    *)
(* signal's prototype.                                                     *)
bind(i) ==
  LET c == ContractOf(i)
      h == source[i].name
  IN  /\ Called(i, "bind")
      /\ keys' = [keys EXCEPT ![c][h] = KeySetBy(c, h)]
      /\ bindings' = bindings \cup {<<c, keys'[c][h], source[i].of, output[i].signal>>}
      /\ subscribed' = subscribed \cup {<<c, h, source[i].of, source[i].signal>>}
      /\ UNCHANGED <<created, live, reached>>

(* Mutant: the prototype to detach from lacks the parameter types.         *)
detachByName(i) ==
  LET c == ContractOf(i)
      h == source[i].name
  IN  /\ Called(i, "detach")
      /\ bindings' = bindings \ {<<c, keys[c][h], source[i].of, <<source[i].signal, <<>>>>>>}
      /\ subscribed' = subscribed \ {<<c, h, source[i].of, source[i].signal>>}
      /\ UNCHANGED <<keys, created, live, reached>>

detach(i) ==
  LET c == ContractOf(i)
      h == source[i].name
  IN  /\ Called(i, "detach")
      /\ bindings' = bindings \ {<<c, keys[c][h], source[i].of, output[i].signal>>}
      /\ subscribed' = subscribed \ {<<c, h, source[i].of, source[i].signal>>}
      /\ UNCHANGED <<keys, created, live, reached>>

(* SIGEMIT with the stored key reaches every handler bound to that key.    *)
emit(i) ==
  LET c == ContractOf(i)
  IN  /\ Called(i, "emit")
      /\ reached' = {<<b[1], b[2][1]>> : b \in {b \in bindings :
                       b[3] = c /\ b[4] = keys[c][source[i].name]}}
      /\ UNCHANGED <<keys, created, bindings, live, subscribed>>

Next ==
  \/ (\E line \in Lines : Write(line)) /\ UNCHANGED machineVars
  \/ StartParse /\ UNCHANGED machineVars
  \/ ParseLine /\ UNCHANGED machineVars
  \/ StartRun
  \/ \E c \in 1 .. MaxContracts : Deploy(c)
  \/ \E i \in DOMAIN source :
       create_signal(i) \/ delete_signal(i) \/ bind(i) \/ detach(i) \/ emit(i)

Spec == Init /\ [][Next]_vars

-----------------------------------------------------------------------------
TypeOK ==
  /\ phase \in {"write", "parse", "run"}
  /\ position = Len(output) /\ position <= Len(source) /\ Len(source) <= MaxLines
  /\ \A b \in bindings : b[1] \in deployed

(* The handlers whose declaration precedes, in the file, all lines that    *)
(* bind or detach a handler of that name.                                  *)
DeclaredFirst(h) ==
  \A i, j \in DOMAIN source :
    (/\ source[i].kind = "handler" /\ source[j].kind \in {"bind", "detach"}
     /\ source[i].name = h /\ source[j].name = h) => i < j

DeclaredOnce(h) ==
  \A i, j \in DOMAIN source :
    (/\ source[i].kind = "handler" /\ source[j].kind = "handler"
     /\ source[i].name = h /\ source[j].name = h) => i = j

(* The bindings of handlers named h are the ones the source asks for.      *)
BoundAsWritten(h) ==
  {b \in bindings : b[2][1] = h}
    = {<<s[1], KeySetBy(s[1], s[2]), s[3], KeySetBy(s[3], s[4])>> :
         s \in {s \in subscribed : s[2] = h}}

(* SIGBIND and SIGDETACH, called in any order, maintain exactly the        *)
(* subscriptions the source asks for: the prototype put together from the  *)
(* handler's types is the key under which the signal was declared.         *)
BindingsAsWritten ==
  \A h \in Handlers : DeclaredFirst(h) /\ DeclaredOnce(h) => BoundAsWritten(h)

(* The same when several contracts of the file have a handler of the same  *)
(* name, as the two receivers of the price feed example.                   *)
SameNamedHandlersBound ==
  \A h \in Handlers : DeclaredFirst(h) => BoundAsWritten(h)

(* An emit reaches the handlers that subscribed to the signal and have not *)
(* detached since, and no others, as long as the signal exists.            *)
EmitReachesSubscribers ==
  [][\A i \in DOMAIN source :
       LET c == ContractOf(i)
           n == source[i].name
       IN  source[i].kind = "emit" /\ emit(i) /\ <<c, n>> \in live =>
             \A h \in Handlers : DeclaredFirst(h) /\ DeclaredOnce(h) =>
               {b \in reached' : b[2] = h}
                 = {<<s[1], s[2]>> : s \in {s \in subscribed : <<s[2], s[3], s[4]>> = <<h, c, n>>}}
    ]_vars

(* "Auto create signal": once a contract is deployed, all signals declared *)
(* above its constructor exist, unless the contract has a function that    *)
(* deletes them.                                                           *)
DeclaredSignalsCreated ==
  \A c \in deployed : \A i, j \in DOMAIN source :
    (/\ ContractOf(i) = c /\ source[i].kind = "signal"
     /\ ContractOf(j) = c /\ source[j].kind = "constructor"
     /\ i < j /\ ~DeclaredIn(c, "delete_signal", source[i].name))
       => <<c, KeySetBy(c, source[i].name)>> \in created

(* delete_signal deletes: a signal exists on the machine exactly as long   *)
(* as it does by the wording of the source.                                *)
SignalsAsWritten ==
  created = {<<s[1], KeySetBy(s[1], s[2])>> : s \in live}

(* The parser's output compiles whenever its input is well formed.         *)
OutputCompiles ==
  phase = "run" => \A c \in 1 .. Contracts : Compiles(c)
=============================================================================
