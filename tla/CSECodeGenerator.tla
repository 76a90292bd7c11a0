-------------------------- MODULE CSECodeGenerator --------------------------
(***************************************************************************)
(* The code generator of libevmasm's common subexpression eliminator.      *)
(*                                                                         *)
(* At the end of a block it keeps the last store to every slot, the        *)
(* expressions still wanted on the stack, and whatever these depend on,    *)
(* and emits the kept loads and stores in the order of their sequence      *)
(* numbers.  Everything else disappears.  The stack layout (DUP, SWAP and  *)
(* POP) is left out: an initial stack element stays available.             *)
(***************************************************************************)
EXTENDS KnownState, SequencesExt

RECURSIVE Needed(_, _)

(* Mutant: a hash is taken to read from storage.                           *)
TargetOfHash(op) == IF op = "MLOAD" THEN "Memory" ELSE "Storage"

Target(op) == IF op = "SLOAD" THEN "Storage" ELSE "Memory"

(* Subtraction read as a two's complement number (u2s).                    *)
Signed(n) == IF 2 * n < Modulus THEN n ELSE n - Modulus

(* m_storeOperations: the stores of the block grouped by target and slot.  *)
StoreGroups ==
  { SelectSeq(storeOperations, LAMBDA p : p.target = o.target /\ p.slot = o.slot) :
      o \in Range(storeOperations) }

(* The KECCAK256 case of addDependencies: a store that ends before the     *)
(* hashed bytes or starts behind them does not matter.                     *)
OutsideHashed(slot, args) ==
  \/ args[2] = Const(0)
  \/ /\ slot.base = args[1].base
     /\ LET o == Difference(slot, args[1])
        IN  Signed(o) <= -WordSize \/ (IsConst(args[2]) /\ Signed(o) >= 0 /\ o >= args[2].off)

knownToBeIndependent(slot, expr) ==
  CASE expr.op = "SLOAD" -> knownToBeDifferent(slot, expr.args[1])
    [] expr.op = "MLOAD" -> knownToBeDifferentBy32(slot, expr.args[1])
    [] expr.op = "KECCAK256" -> OutsideHashed(slot, expr.args)

(* The store of a group a load depends on: the last one before the load.   *)
latestStore(group, seq) ==
  LET before == SelectSeq(group, LAMBDA o : o.seq < seq)
  IN  IF before = <<>> THEN Head(group).expression ELSE Last(before).expression

(* Mutant: only stores to the very slot that is loaded matter.             *)
StoresToSlot(expr) ==
  { latestStore(g, expr.seq) :
      g \in { g \in StoreGroups : g[1].seq <= expr.seq /\ g[1].slot = expr.args[1] } }

StoresLoadedBy(expr) ==
  { latestStore(g, expr.seq) :
      g \in { g \in StoreGroups : /\ g[1].target = Target(expr.op)
                                  /\ g[1].seq <= expr.seq
                                  /\ ~knownToBeIndependent(g[1].slot, expr) } }

(* What addDependencies requires for one class that is not on the stack.   *)
Dependencies(c) ==
  IF c.off # 0 \/ IsConst(c)
  THEN IF IsConst(c) THEN {} ELSE {[c EXCEPT !.off = 0]}
  ELSE Range(c.base.args) \cup IF c.base.op \in Loads THEN StoresLoadedBy(c.base) ELSE {}

(* addDependencies, started from all classes of S; stops at the classes on *)
(* the initial stack.                                                      *)
Needed(S, stack) ==
  LET more == S \cup UNION {Dependencies(c) : c \in S \ stack}
  IN  IF more = S THEN S ELSE Needed(more, stack)

(* The classes that generateCode needs when the block is to leave those in *)
(* target on the stack it found the classes in stack on.                   *)
NeededFor(target, stack) ==
  Needed(target \cup {Last(g).expression : g \in StoreGroups}, stack) \ stack

(* The exceptions that make the caller keep the original code.             *)
NotAvailable(needed) ==
  \E c \in needed : /\ c.off = 0
                    /\ \/ c.base.op \in {"Undefined1", "Undefined2"}
                       \/ c.base.seq # 0 /\ c.base.seq < start.seq

-----------------------------------------------------------------------------
(* Execution of the generated code: the kept stores in order.  Arguments   *)
(* have the value they had in the original run, since all loads before     *)
(* are required to yield that value.                                       *)

ValueOf(c) == (CHOOSE o \in operands : o.class = c).value

KeptStores(needed, seq) ==
  SelectSeq(storeOperations, LAMBDA o : o.expression \in needed /\ o.seq < seq)

ExecStore(o, m) ==
  LET slot  == ValueOf(o.expression.base.args[1])
      value == ValueOf(o.expression.base.args[2])
  IN  IF o.target = "Storage" THEN [m EXCEPT !.storage[slot] = value]
      ELSE [m EXCEPT !.memory = WriteWord(@, slot, value)]

(* The machine just before the generated code reaches sequence number seq. *)
MachineAt(needed, seq) == FoldLeft(LAMBDA m, o : ExecStore(o, m), start.machine, KeptStores(needed, seq))

LoadedValue(expr, m) ==
  LET slot == ValueOf(expr.args[1])
  IN  CASE expr.op = "SLOAD" -> m.storage[slot]
        [] expr.op = "MLOAD" -> WordAt(m.memory, slot)
        [] expr.op = "KECCAK256" -> Hash(BytesAt(m.memory, slot, ValueOf(expr.args[2])))

-----------------------------------------------------------------------------
(* The stacks a block may start from and leave: initially the unknown      *)
(* elements, possibly with all that was computed before the block; in the  *)
(* end nothing, everything, or one result of the block.                    *)
InitialStacks ==
  { {Unknown(1), Unknown(2)}, {o.class : o \in start.operands} }

TargetStacks ==
  {{}} \cup {{o.class : o \in operands}} \cup {{o.class} : o \in operands \ start.operands}

(* Whatever the block is to leave on the stack: every load the generated   *)
(* code still performs yields the value it had in the original order, and  *)
(* storage and memory are the same in the end, although stores have been   *)
(* dropped and loads delayed.                                              *)
GeneratedCodeEquivalent ==
  \A stack \in InitialStacks, target \in TargetStacks :
    LET needed == NeededFor(target, stack)
    IN  \/ NotAvailable(needed)
        \/ /\ \A c \in needed : c.off = 0 /\ c.base.op \in Loads =>
                LoadedValue(c.base, MachineAt(needed, c.base.seq)) = ValueOf(c)
           /\ LET m == MachineAt(needed, sequenceNumber + 1)
              IN  m.storage = machine.storage /\ m.memory = machine.memory

(* A signal instruction is an effect of the block like any other: the      *)
(* generated code performs it as often as the original code.               *)
SignalsKept ==
  \A stack \in InitialStacks, target \in TargetStacks :
    LET signal(c) == c.base.op \in {"CREATESIGNAL", "DELETESIGNAL"}
    IN  Cardinality({c \in NeededFor(target, stack) : signal(c)}) = Len(machine.signals)
=============================================================================
