----------------------------- MODULE MCPeephole -----------------------------
(* The peephole loop on all short programs over small alphabets, with the  *)
(* code before and after compared by executing both.                       *)
EXTENDS PeepholeRun, EVMachine

CONSTANT Stacks  \* stacks, top first, the code may be entered with

Ops(S) == {Operation(o) : o \in S}

(* Arithmetic and stack shuffling.                                         *)
StackAlphabet ==
  {Push(0), Push(3)} \cup
  Ops({"ADD", "SUB", "AND", "NOT", "GT", "ADDMOD", "CALLER", "POP",
       "DUP1", "DUP2", "SWAP1", "SWAP2", "SSTORE"})

(* Jumps, labels, effects and dead code.                                   *)
JumpAlphabet ==
  {Tag(1), Tag(2), PushTag(0, 1), PushTag(0, 2), Push(3)} \cup
  Ops({"ISZERO", "AND", "POP", "JUMP", "JUMPI", "STOP", "CREATE"})

(* The operations the signal/handler extension adds.                       *)
SignalAlphabet ==
  {Push(1), Operation("POP"), Operation("DUP1"), Operation("SSTORE"),
   Operation("CREATESIGNAL"), Operation("DELETESIGNAL")}

MainAlphabets   == {StackAlphabet, JumpAlphabet}
SignalAlphabets == {SignalAlphabet}

EntryStacks == {<<0, 1, 2, 1>>, <<2, 1, 3, 0>>, <<1, 0, 0, 2>>}
-----------------------------------------------------------------------------
(* No rewrite changes what the code does: on every entry stack on which    *)
(* the generated code ends regularly, the optimised items end in the same  *)
(* way, with the same stack and the same effects on the environment.       *)
BehaviourPreserved ==
  \A s \in Stacks :
    LET before == Outcome(source, 1, s)
    IN  before.status \in {"running", "invalid"} \/ Outcome(items, 1, s) = before

(* Every effect on the environment stays: an instruction may only be       *)
(* dropped with its result if nothing but the stack depends on it.         *)
EffectsKept ==
  \A s \in Stacks :
    LET before == Outcome(source, 1, s)
    IN  before.status \in {"running", "invalid"} \/ Outcome(items, 1, s).log = before.log
=============================================================================
