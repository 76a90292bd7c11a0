----------------------------- MODULE YulAssembly -----------------------------
(***************************************************************************)
(* What the code of YulCodeTransform does: a stack machine with the        *)
(* instructions of YulMachine.  The values on the stack are words, and the *)
(* addresses of labels, which no instruction but a jump may use.           *)
(***************************************************************************)
EXTENDS YulCodeTransform, YulMachine

CONSTANT MaxInstructions   \* executed instructions after which a run is given up: a power of two

(* The address of a label, apart from all words.                           *)
LabelWord(l) == - l

Boot(env) ==
  [state |-> Start(env.calldata, env.storage), stack |-> <<>>, pc |-> 1]
Halt(m, why) == [m EXCEPT !.state.flow = why]
Ended(m, code) == m.state.flow # "default" \/ m.pc > Len(code)

Advance(m, stack) == [m EXCEPT !.stack = stack, !.pc = @ + 1]
Top(m, n)   == SubSeq(m.stack, 1, n)
Rest(m, n) == SubSeq(m.stack, n + 1, Len(m.stack))

(* A jump to what is no label, and a label used as a number, end the run.  *)
JumpTo(m, code, target, stack) ==
  IF target \in Word THEN Halt(m, "invalid")
  ELSE [m EXCEPT !.stack = stack, !.pc = SelectInSeq(code, LAMBDA x : x = Label(- target))]

Instruction(m, o) ==
  LET n == Builtins[o].args
      r == Execute(o, Top(m, n), m.state)
  IN  IF \E x \in Range(Top(m, n)) : x \notin Word THEN Halt(m, "invalid")
      ELSE [Advance(m, r.vals \o Rest(m, n)) EXCEPT !.state = r.m]

(* What an item takes from the stack, at least.                            *)
Needs(item) ==
  CASE item.i = "op"   -> Builtins[item.o].args
    [] item.i = "dup"  -> item.n
    [] item.i = "swap" -> item.n + 1
    [] item.i = "jump" -> 1
    [] item.i = "jumpif" -> 2
    [] OTHER -> 0

Perform(m, code, item) ==
  CASE item.i = "push"      -> Advance(m, <<item.v>> \o m.stack)
    [] item.i = "reference" -> Advance(m, <<LabelWord(item.l)>> \o m.stack)
    [] item.i = "label"     -> Advance(m, m.stack)
    [] item.i = "dup"       -> Advance(m, <<m.stack[item.n]>> \o m.stack)
    [] item.i = "swap"      -> Advance(m, [m.stack EXCEPT ![1] = m.stack[item.n + 1], ![item.n + 1] = m.stack[1]])
    [] item.i = "op"        -> Instruction(m, item.o)
    [] item.i = "jump"      -> JumpTo(m, code, m.stack[1], Rest(m, 1))
    [] item.i = "jumpif"    -> IF m.stack[2] = 0 THEN Advance(m, Rest(m, 2))
                               ELSE JumpTo(m, code, m.stack[1], Rest(m, 2))
    [] item.i = "invalid"   -> Halt(m, "invalid")

StepOnce(m, code) ==
  IF Needs(code[m.pc]) > Len(m.stack) THEN Halt(m, "invalid") ELSE Perform(m, code, code[m.pc])

(* k steps, in halves.                                                     *)
RECURSIVE RunFor(_, _, _)
RunFor(m, code, k) ==
  CASE Ended(m, code) -> m
    [] k = 1 -> StepOnce(m, code)
    [] OTHER -> LET half == RunFor(m, code, k \div 2) IN RunFor(half, code, k - k \div 2)

(* What the outside world can see of a run: as Outcome says it.            *)
AssemblyOutcome(code, env) ==
  LET m == RunFor(Boot(env), code, MaxInstructions)
      s == m.state
  IN  IF ~ Ended(m, code) THEN [end |-> "limit"]
      ELSE [end |-> IF s.flow = "default" THEN "stop" ELSE s.flow, log |-> s.log, storage |-> s.storage]
=============================================================================
