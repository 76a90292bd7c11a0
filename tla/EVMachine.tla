----------------------------- MODULE EVMachine -----------------------------
(***************************************************************************)
(* A reference machine for assembly items, used to compare code before and *)
(* after optimisation: a stack (top first), jumps to tags and a log of the *)
(* effects on the environment.  Gas is not modelled.                       *)
(***************************************************************************)
EXTENDS Instructions, Integers, Bitwise

CONSTANTS
  Modulus,     \* number of machine words (2^256 in the EVM)
  Fuel         \* bound on the number of executed items

Machine(pc, stack) == [pc |-> pc, stack |-> stack, log |-> <<>>, status |-> "running"]

Bool(b) == IF b THEN 1 ELSE 0

Result(o, a, log) ==
  CASE o = "ADD"    -> (a[1] + a[2]) % Modulus
    [] o = "SUB"    -> (a[1] - a[2]) % Modulus
    [] o = "AND"    -> a[1] & a[2]
    [] o = "NOT"    -> Modulus - 1 - a[1]
    [] o = "LT"     -> Bool(a[1] < a[2])
    [] o = "GT"     -> Bool(a[1] > a[2])
    [] o = "ISZERO" -> Bool(a[1] = 0)
    [] o = "ADDMOD" -> IF a[3] = 0 THEN 0 ELSE (a[1] + a[2]) % a[3]
    [] o = "CALLER" -> 1
    [] OTHER        -> Len(log) % Modulus

Drop(stack, n) == SubSeq(stack, n + 1, Len(stack))

(* Operations whose execution is visible outside the stack.                *)
Effects == {"SSTORE", "CREATE", "CREATESIGNAL", "DELETESIGNAL"}

JumpTarget(code, t) ==
  LET targets == {i \in DOMAIN code : code[i] = Tag(t)}
  IN  IF targets = {} THEN Len(code) + 2 ELSE CHOOSE i \in targets : TRUE

ExecOperation(code, m, o) ==
  LET info == instructionInfo[o]
      a    == m.stack
      rest == Drop(m.stack, info.args)
      log  == IF o \in Effects THEN Append(m.log, <<o, SubSeq(a, 1, info.args)>>) ELSE m.log
      next == [m EXCEPT !.pc = @ + 1, !.log = log]
      goto(t) == IF JumpTarget(code, t) > Len(code) THEN [m EXCEPT !.status = "invalid"]
                 ELSE [m EXCEPT !.pc = JumpTarget(code, t), !.stack = rest]
  IN  CASE Len(a) < info.args -> [m EXCEPT !.status = "invalid"]
        [] o \in {"STOP", "REVERT"} -> [m EXCEPT !.status = o, !.stack = <<>>]
        [] o = "JUMP" -> goto(a[1])
        [] o = "JUMPI" -> IF a[2] = 0 THEN [next EXCEPT !.stack = rest] ELSE goto(a[1])
        [] o \in DOMAIN DupNumber -> [next EXCEPT !.stack = <<a[DupNumber[o]]>> \o a]
        [] o \in DOMAIN SwapNumber ->
             LET n == SwapNumber[o] + 1
             IN  [next EXCEPT !.stack = [a EXCEPT ![1] = a[n], ![n] = a[1]]]
        [] OTHER -> [next EXCEPT !.stack = IF info.ret = 0 THEN rest
                                           ELSE <<Result(o, a, log)>> \o rest]

Exec(code, m) ==
  CASE m.status # "running"  -> m
    [] m.pc > Len(code)      -> [m EXCEPT !.status = "end", !.pc = 0]
    [] code[m.pc].type = "Operation" -> ExecOperation(code, m, code[m.pc].op)
    [] code[m.pc].type = "Tag" -> [m EXCEPT !.pc = @ + 1]
    [] OTHER -> [m EXCEPT !.pc = @ + 1, !.stack = <<code[m.pc].data>> \o @]

(* What can be observed of a run: how it ended, the stack it left if it    *)
(* fell off the end, and its effects in order.                             *)
Outcome(code, pc, stack) ==
  LET run[f \in 0 .. Fuel] == IF f = 0 THEN Machine(pc, stack) ELSE Exec(code, run[f - 1])
      m == run[Fuel]
  IN  [status |-> m.status, stack |-> m.stack, log |-> m.log]
=============================================================================
