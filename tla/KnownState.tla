----------------------------- MODULE KnownState -----------------------------
(***************************************************************************)
(* What the common subexpression eliminator knows while it walks through a *)
(* block of EVM code (libevmasm's KnownState and ExpressionClasses), next  *)
(* to the machine that really executes the block.                          *)
(*                                                                         *)
(* An equivalence class is a base expression plus a constant offset: this  *)
(* is the normal form to which the rules for ADD and SUB of RuleList.h     *)
(* bring an address.  The stack is abstracted to the operands that are on  *)
(* it: DUP and SWAP can bring any of them to the top.  Words have          *)
(* Base^WordSize values; "32" in the code is WordSize.                     *)
(***************************************************************************)
EXTENDS Integers, Sequences, FiniteSets

CONSTANTS
  WordSize,        \* bytes of a word (32)
  Base,            \* values of a byte (256)
  Literals,        \* constants the code pushes
  Lengths,         \* constants it hashes that many bytes with
  UnknownValues,   \* values the two unknown stack elements may have
  Initial,         \* storage and memory the code may find
  AfterCall,       \* storage and memory a call may leave, besides those it found
  Instrs,          \* instructions the block may contain
  MaxSteps         \* bound on the number of executed items

Power[k \in 0 .. WordSize] == IF k = 0 THEN 1 ELSE Base * Power[k - 1]

Modulus == Power[WordSize]
Word    == 0 .. Modulus - 1

(* Everything that storage and memory may contain.                         *)
Contents == [storage : [Word -> Word], memory : [Word -> 0 .. Base - 1]]

ASSUME SizesAssumption ==
  /\ WordSize \in Nat \ {0} /\ Base \in Nat /\ Base > 1 /\ MaxSteps \in Nat
  /\ Literals \subseteq Word /\ Lengths \subseteq Word /\ UnknownValues \subseteq Word
  /\ \A m \in Initial \cup AfterCall : m \in Contents

VARIABLES
  storageContent,  \* m_storageContent: slot class -> class of the value
  memoryContent,   \* m_memoryContent
  hashes,          \* m_knownKeccak256Hashes: argument classes -> class
  sequenceNumber,  \* m_sequenceNumber
  storeOperations, \* the StoreOperations returned since the block began
  operands,        \* class and value of everything computed so far
  machine,         \* storage and memory of the machine
  start,           \* machine, operands and sequence number at the block start
  steps            \* items fed so far

known == <<storageContent, memoryContent, hashes, sequenceNumber, storeOperations>>
vars  == <<known, operands, machine, start, steps>>

-----------------------------------------------------------------------------
(* ExpressionClasses *)

Expr(op, args, seq) == [op |-> op, args |-> args, seq |-> seq]
find(op, args, seq) == [base |-> Expr(op, args, seq), off |-> 0]

(* A value the block computed, with the class the eliminator put it in.    *)
Operand(c, v) == [class |-> c, value |-> v]

(* No knowledge: the empty map.                                            *)
Nothing == [c \in {} |-> c]

(* Mutant: addition does not wrap around.                                  *)
PlusUnbounded(a, b) == a + b

(* Wrapping addition and subtraction of words.                             *)
Plus(a, b)  == IF a + b < Modulus THEN a + b ELSE a + b - Modulus
Minus(a, b) == IF a >= b THEN a - b ELSE a - b + Modulus

Const(n)   == [base |-> Expr("Push", <<>>, 0), off |-> n]
Unknown(i) == find(<<"Undefined1", "Undefined2">>[i], <<>>, 0)

(* Mutant: (X+A)+B becomes X+B.                                            *)
OffsetLast(c, n) == [base |-> c.base, off |-> n]

IsConst(c)       == c.base.op = "Push"
Offset(c, n)     == [base |-> c.base, off |-> Plus(c.off, n)]
Difference(a, b) == Minus(a.off, b.off)

(* Mutant: off by one at the edge of the forbidden interval.               *)
knownToBeDifferentBy31(a, b) ==
  a.base = b.base /\ Plus(Difference(a, b), WordSize - 1) >= 2 * (WordSize - 1)

(* Whether the difference of two classes simplifies to a constant, and to  *)
(* one that separates the addresses.                                       *)
knownToBeDifferent(a, b) == a.base = b.base /\ Difference(a, b) # 0

knownToBeDifferentBy32(a, b) ==
  a.base = b.base /\ Plus(Difference(a, b), WordSize - 1) > 2 * (WordSize - 1)

-----------------------------------------------------------------------------
(* The machine *)

BytesAt(mem, a, n) == [i \in 1 .. n |-> mem[a + i - 1]]

Digits(v) == [i \in 1 .. WordSize |-> (v \div Power[WordSize - i]) % Base]

WordAt(mem, a) ==
  LET sum[i \in 0 .. WordSize] == IF i = 0 THEN 0 ELSE Base * sum[i - 1] + mem[a + i - 1]
  IN  sum[WordSize]

WriteWord(mem, a, v) ==
  [x \in DOMAIN mem |-> IF x \in a .. a + WordSize - 1 THEN Digits(v)[x - a + 1] ELSE mem[x]]

(* A stand-in for Keccak-256: depends on every byte and on their number.   *)
Hash(bytes) ==
  LET h[i \in 0 .. Len(bytes)] ==
        IF i = 0 THEN 1 ELSE (3 * h[i - 1] + 2 * bytes[i] + i) % Modulus
  IN  h[Len(bytes)]

(* An access beyond the top of the address space runs out of gas.          *)
InMemory(a, n) == a + n <= Modulus

-----------------------------------------------------------------------------
(* KnownState: the store operations *)

(* Mutants: the sequence number is increased only once; knowledge about    *)
(* all other slots is kept, whether they may be equal or not.              *)
StoredInStorage(kept, slot, value, increase) ==
  /\ storageContent' = [s \in kept \cup {slot} |-> IF s = slot THEN value ELSE storageContent[s]]
  /\ storeOperations' = Append(storeOperations,
       [target |-> "Storage", slot |-> slot, seq |-> sequenceNumber + 1,
        expression |-> find("SSTORE", <<slot, value>>, sequenceNumber + 1)])
  /\ sequenceNumber' = sequenceNumber + increase
  /\ UNCHANGED <<memoryContent, hashes>>

NotKnownEqual(slot, value) ==
  {s \in DOMAIN storageContent : knownToBeDifferent(s, slot) \/ storageContent[s] = value}

storeInStorageNextNumber(slot, value) == StoredInStorage(NotKnownEqual(slot, value), slot, value, 1)
storeInStorageKeepAll(slot, value)    == StoredInStorage(DOMAIN storageContent, slot, value, 2)

storeInStorage(slot, value) ==
  IF slot \in DOMAIN storageContent /\ storageContent[slot] = value
  THEN UNCHANGED known
  ELSE LET kept == {s \in DOMAIN storageContent :
                      knownToBeDifferent(s, slot) \/ storageContent[s] = value}
       IN  /\ storageContent' = [s \in kept \cup {slot} |->
                                   IF s = slot THEN value ELSE storageContent[s]]
           /\ storeOperations' = Append(storeOperations,
                [target |-> "Storage", slot |-> slot, seq |-> sequenceNumber + 1,
                 expression |-> find("SSTORE", <<slot, value>>, sequenceNumber + 1)])
           /\ sequenceNumber' = sequenceNumber + 2
           /\ UNCHANGED <<memoryContent, hashes>>

storeInMemory(slot, value) ==
  IF slot \in DOMAIN memoryContent /\ memoryContent[slot] = value
  THEN UNCHANGED known
  ELSE LET kept == {s \in DOMAIN memoryContent : knownToBeDifferentBy32(s, slot)}
       IN  /\ memoryContent' = [s \in kept \cup {slot} |->
                                  IF s = slot THEN value ELSE memoryContent[s]]
           /\ storeOperations' = Append(storeOperations,
                [target |-> "Memory", slot |-> slot, seq |-> sequenceNumber + 1,
                 expression |-> find("MSTORE", <<slot, value>>, sequenceNumber + 1)])
           /\ sequenceNumber' = sequenceNumber + 2
           /\ UNCHANGED <<storageContent, hashes>>

(* loadFromStorage and loadFromMemory: the class of the loaded value.      *)
Loaded(content, op, slot) ==
  IF slot \in DOMAIN content THEN content[slot] ELSE find(op, <<slot>>, sequenceNumber)

With(content, slot, class) ==
  [s \in DOMAIN content \cup {slot} |-> IF s = slot THEN class ELSE content[s]]

(* applyKeccak256: the classes of the words that are hashed, the memory    *)
(* content after loading them, and the class of the hash.                  *)
HashSlots(begin, n) ==
  [i \in 1 .. (n + WordSize - 1) \div WordSize |-> Offset(begin, (i - 1) * WordSize)]

HashArguments(begin, n) ==
  [i \in DOMAIN HashSlots(begin, n) |->
     Loaded(memoryContent, "MLOAD", HashSlots(begin, n)[i])]

(* Mutant: a known hash is found by its first word.                        *)
HashClassByFirstWord(begin, n) ==
  LET same == {k \in DOMAIN hashes : Head(k) = Head(HashArguments(begin, n))}
  IN  IF same # {} THEN hashes[CHOOSE k \in same : TRUE]
      ELSE find("KECCAK256", <<begin, Const(n)>>, sequenceNumber)

HashClass(begin, n) ==
  LET arguments == HashArguments(begin, n)
  IN  IF n > 4 * WordSize THEN find("KECCAK256", <<begin, Const(n)>>, sequenceNumber)
      ELSE IF arguments \in DOMAIN hashes THEN hashes[arguments]
      ELSE IF \A i \in DOMAIN arguments : IsConst(arguments[i])
      THEN Const(Hash([k \in 1 .. n |->
                   Digits(arguments[((k - 1) \div WordSize) + 1].off)[((k - 1) % WordSize) + 1]]))
      ELSE find("KECCAK256", <<begin, Const(n)>>, sequenceNumber)

-----------------------------------------------------------------------------
(* KnownState::feedItem, one action per kind of item *)

Init ==
  /\ storageContent = Nothing /\ memoryContent = Nothing /\ hashes = Nothing
  /\ sequenceNumber = 1
  /\ storeOperations = <<>>
  /\ \E v \in [1 .. 2 -> UnknownValues] :
       operands = {Operand(Unknown(i), v[i]) : i \in 1 .. 2} \cup {Operand(Const(n), n) : n \in Literals}
  /\ \E m \in Initial : machine = [storage |-> m.storage, memory |-> m.memory, signals |-> <<>>]
  /\ start = [machine |-> machine, operands |-> operands, seq |-> 1]
  /\ steps = 0

(* Fed(I): instruction I may be fed and is counted.                        *)
Fed(instr) ==
  /\ instr \in Instrs
  /\ steps < MaxSteps
  /\ steps' = steps + 1

FeedSSTORE(s, v) ==
  /\ Fed("SSTORE")
  /\ storeInStorage(s.class, v.class)
  /\ machine' = [machine EXCEPT !.storage[s.value] = v.value]
  /\ UNCHANGED <<operands, start>>

FeedMSTORE(s, v) ==
  /\ Fed("MSTORE")
  /\ InMemory(s.value, WordSize)
  /\ storeInMemory(s.class, v.class)
  /\ machine' = [machine EXCEPT !.memory = WriteWord(@, s.value, v.value)]
  /\ UNCHANGED <<operands, start>>

FeedSLOAD(s) ==
  /\ Fed("SLOAD")
  /\ LET class == Loaded(storageContent, "SLOAD", s.class)
     IN  /\ storageContent' = With(storageContent, s.class, class)
         /\ operands' = operands \cup {Operand(class, machine.storage[s.value])}
  /\ UNCHANGED <<memoryContent, hashes, sequenceNumber, storeOperations, machine, start>>

FeedMLOAD(s) ==
  /\ Fed("MLOAD")
  /\ InMemory(s.value, WordSize)
  /\ LET class == Loaded(memoryContent, "MLOAD", s.class)
     IN  /\ memoryContent' = With(memoryContent, s.class, class)
         /\ operands' = operands \cup {Operand(class, WordAt(machine.memory, s.value))}
  /\ UNCHANGED <<storageContent, hashes, sequenceNumber, storeOperations, machine, start>>

(* KECCAK256 of a constant number n of bytes.                              *)
FeedKECCAK256(s, n) ==
  /\ Fed("KECCAK256")
  /\ LET slots     == HashSlots(s.class, n)
         arguments == HashArguments(s.class, n)
         class     == HashClass(s.class, n)
         short     == n <= 4 * WordSize
     IN  /\ InMemory(s.value, Len(slots) * WordSize)
         /\ memoryContent' =
              IF short
              THEN [c \in DOMAIN memoryContent \cup {slots[i] : i \in DOMAIN slots} |->
                      Loaded(memoryContent, "MLOAD", c)]
              ELSE memoryContent
         /\ hashes' = IF short THEN With(hashes, arguments, class) ELSE hashes
         /\ operands' = operands
              \cup {Operand(class, Hash(BytesAt(machine.memory, s.value, n)))}
              \cup {Operand(Const(n), n)}
              \cup IF short
                   THEN UNION {{Operand(slots[i], s.value + (i - 1) * WordSize),
                                Operand(arguments[i],
                                        WordAt(machine.memory, s.value + (i - 1) * WordSize))} :
                                 i \in DOMAIN slots}
                   ELSE {}
  /\ UNCHANGED <<storageContent, sequenceNumber, storeOperations, machine, start>>

(* ADD of a constant, as in the address arithmetic of structs and arrays.  *)
FeedADD(s, n) ==
  /\ Fed("ADD")
  /\ operands' = operands \cup {Operand(Offset(s.class, n), Plus(s.value, n))}
  /\ UNCHANGED <<known, machine, start>>

(* CREATESIGNAL and DELETESIGNAL take one argument and are declared free   *)
(* of side effects, hence neither end the block nor get a sequence number. *)
FeedSignal(instr, s) ==
  /\ Fed(instr)
  /\ machine' = [machine EXCEPT !.signals = Append(@, <<instr, s.value>>)]
  /\ operands' = operands \cup {Operand(find(instr, <<s.class>>, 0), Plus(0, 1))}
  /\ UNCHANGED <<known, start>>

(* CALL invalidates storage and memory and ends the block: the eliminator  *)
(* starts the next block from what is still known (getOptimizedItems).     *)
FeedCALL ==
  /\ Fed("CALL")
  /\ storageContent' = Nothing /\ memoryContent' = Nothing
  /\ sequenceNumber' = sequenceNumber + 2
  /\ storeOperations' = <<>>
  /\ \/ UNCHANGED machine
     \/ \E m \in AfterCall : machine' = [machine EXCEPT !.storage = m.storage, !.memory = m.memory]
  /\ start' = [machine |-> machine', operands |-> operands, seq |-> sequenceNumber']
  /\ UNCHANGED <<hashes, operands>>

Next ==
  \/ \E s, v \in operands : FeedSSTORE(s, v) \/ FeedMSTORE(s, v)
  \/ \E s \in operands : FeedSLOAD(s) \/ FeedMLOAD(s)
  \/ \E s \in operands, n \in Lengths : FeedKECCAK256(s, n)
  \/ \E s \in operands, n \in Literals : FeedADD(s, n)
  \/ \E s \in operands, instr \in {"CREATESIGNAL", "DELETESIGNAL"} : FeedSignal(instr, s)
  \/ FeedCALL

Spec == Init /\ [][Next]_vars

-----------------------------------------------------------------------------
TypeOK ==
  /\ \A o \in operands : o.value \in Word /\ o.class.off \in Word
  /\ machine.storage \in [Word -> Word]
  /\ machine.memory \in [Word -> 0 .. Base - 1]
  /\ sequenceNumber \in Nat /\ steps \in 0 .. MaxSteps

(* Two values that the eliminator puts into the same equivalence class are *)
(* equal when the block is executed: otherwise one of them is replaced by  *)
(* a copy of the other (ExpressionClasses::find, applyKeccak256).          *)
ClassesSound == \A o, p \in operands : o.class = p.class => o.value = p.value

(* Whatever m_storageContent says is in a slot is there, also when stores  *)
(* to slots of unknown identity happened since it was recorded.            *)
StorageKnowledgeSound ==
  \A s, v \in operands :
    s.class \in DOMAIN storageContent /\ storageContent[s.class] = v.class
      => machine.storage[s.value] = v.value

(* The same for m_memoryContent, where stores may also overlap partly.     *)
MemoryKnowledgeSound ==
  \A s, v \in operands :
    s.class \in DOMAIN memoryContent /\ memoryContent[s.class] = v.class
      => InMemory(s.value, WordSize) /\ WordAt(machine.memory, s.value) = v.value

(* Expressions whose value depends on what was stored before them.         *)
Loads == {"SLOAD", "MLOAD", "KECCAK256"}

(* The generator's own assumption, "note that store and load never have    *)
(* the same sequence number": otherwise the order in which to emit them    *)
(* would be lost (CSECodeGenerator::addDependencies).                      *)
SequenceNumbersSeparate ==
  \A i, j \in DOMAIN storeOperations :
    /\ storeOperations[i].seq = storeOperations[j].seq => i = j
    /\ \A o \in operands : o.class.base.op \in Loads => o.class.base.seq # storeOperations[i].seq
=============================================================================
