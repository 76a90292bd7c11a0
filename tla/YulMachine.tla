----------------------------- MODULE YulMachine -----------------------------
(***************************************************************************)
(* What a Yul program does: the interpreter of test/tools/yulInterpreter   *)
(* with the words of EVMWords.  It is the reference every optimiser step   *)
(* is compared with.                                                       *)
(***************************************************************************)
EXTENDS YulSyntax, EVMWords

CONSTANT MaxSteps      \* maxSteps: executed statements after which a run is given up

Address == 0 .. Modulus + WordSize - 1

(* InterpreterState: calldata and storage are given, memory is zero.       *)
Start(calldata, storage) ==
  [vars |-> [n \in {} |-> 0], calldata |-> calldata, storage |-> storage,
   memory |-> [a \in Address |-> 0], msize |-> 0, log |-> <<>>, flow |-> "default", steps |-> 0]

Bytes(m, a, n) == [i \in 1 .. n |-> m.memory[(a + i - 1) % (Modulus + WordSize)]]
Digit(v, i)    == (v \div Base ^ (WordSize - 1 - i)) % Base
ReadWord(m, a) == FoldLeft(LAMBDA x, y : Base * x + y, 0, Bytes(m, a, WordSize))
WriteWord(m, a, v) ==
  [m EXCEPT !.memory = [x \in Address |-> IF x \in a .. a + WordSize - 1 THEN Digit(v, x - a)
                                          ELSE @[x]]]

(* accessMemory: memory grows in whole words.                              *)
Access(m, a, n) ==
  LET size == IF n = 0 THEN 0 ELSE ((a + n + WordSize - 1) \div WordSize) * WordSize
  IN  [m EXCEPT !.msize = IF size > @ THEN size ELSE @]

Returns(m, v) == [m |-> m, vals |-> <<v>>]
Silent(m)     == [m |-> m, vals |-> <<>>]

(* EVMInstructionInterpreter::eval.  Logs, reverts and creates show the    *)
(* memory they are given.  A contract that is created gets a new address;  *)
(* it may call back: it finds the storage as it is and changes slot 0.     *)
Execute(o, a, m) ==
  CASE o \in Arithmetic -> Returns(m, Compute(o, a))
    [] o = "calldataload" -> Returns(m, m.calldata[a[1]])
    [] o = "pop"    -> Silent(m)
    [] o = "sload"  -> Returns(m, m.storage[a[1]])
    [] o = "sstore" -> Silent([m EXCEPT !.storage[a[1]] = a[2]])
    [] o = "mload"  -> Returns(Access(m, a[1], WordSize), ReadWord(m, a[1]))
    [] o = "mstore" -> Silent(Access(WriteWord(m, a[1], a[2]), a[1], WordSize))
    [] o = "msize"  -> Returns(m, m.msize % Modulus)
    [] o = "log0"   -> Silent([Access(m, a[1], a[2]) EXCEPT
                                 !.log = Append(@, <<o, Bytes(m, a[1], a[2])>>)])
    [] o = "create" -> Returns([Access(m, a[2], a[3]) EXCEPT
                                 !.log = Append(@, <<o, <<a[1]>> \o Bytes(m, a[2], a[3]), m.storage>>),
                                 !.storage[0] = (@ + 1) % Modulus],
                               (Len(m.log) + 1) % 2 ^ AddressBits)
    [] o = "stop"   -> Silent([m EXCEPT !.flow = "stop"])
    [] o = "revert" -> Silent([Access(m, a[1], a[2]) EXCEPT
                                 !.log = Append(@, <<o, Bytes(m, a[1], a[2])>>), !.flow = "revert"])

Stopped(m) == m.flow \in {"stop", "revert", "limit"}

Assign(m, vars, vals) ==
  [m EXCEPT !.vars = [n \in DOMAIN @ \cup Names(vars) |->
     IF n \in Names(vars) THEN vals[SelectInSeq(vars, LAMBDA x : x = n)] ELSE @[n]]]

Restricted(m, names) == [m EXCEPT !.vars = [n \in DOMAIN @ \cap names |-> @[n]]]

RECURSIVE Evaluate(_, _, _), Run(_, _, _), RunAll(_, _, _), Loop(_, _, _)

(* A block: the variables its statements declare end with it.              *)
RunBlock(b, funs, m) == Restricted(RunAll(b, funs, m), DOMAIN m.vars)

(* ExpressionEvaluator: arguments from right to left.                      *)
Evaluate(e, funs, m) ==
  CASE e.k = "lit" -> Returns(m, e.v)
    [] e.k = "id"  -> Returns(m, m.vars[e.n])
    [] e.k = "call" ->
       LET n == Len(e.args)
           arg[i \in 0 .. n] ==
             IF i = 0 THEN Silent(m)
             ELSE LET p == arg[i - 1]
                      r == Evaluate(e.args[n + 1 - i], funs, p.m)
                  IN  IF Stopped(p.m) THEN p ELSE [m |-> r.m, vals |-> r.vals \o p.vals]
           given == arg[n]
           fun   == funs[e.f]
           inner == RunBlock(fun.body, funs, [given.m EXCEPT !.vars =
                      [v \in Names(fun.params \o fun.rets) |->
                         IF v \in Names(fun.params)
                         THEN given.vals[SelectInSeq(fun.params, LAMBDA x : x = v)] ELSE 0]])
           back  == [inner EXCEPT !.vars = m.vars,
                                  !.flow = IF Stopped(inner) THEN @ ELSE "default"]
       IN  CASE Stopped(given.m) -> given
             [] IsBuiltin(e.f)   -> Execute(e.f[1], given.vals, given.m)
             [] OTHER -> [m |-> back, vals |-> IF Stopped(inner) THEN <<>>
                            ELSE [i \in DOMAIN fun.rets |-> inner.vars[fun.rets[i]]]]

(* Interpreter: one statement.                                             *)
Run(s, funs, m) ==
  CASE s.k \in {"break", "continue", "leave"} -> [m EXCEPT !.flow = s.k]
    [] s.k = "fun"   -> m
    [] s.k = "block" -> RunBlock(s.body, funs, m)
    [] s.k = "let" /\ s.val = <<>> -> Assign(m, s.vars, [i \in DOMAIN s.vars |-> 0])
    [] s.k = "for" ->
       LET pre  == RunAll(s.pre, funs, m)
           end  == IF pre.flow # "default" THEN pre ELSE Loop(s, funs, pre)
       IN  Restricted([end EXCEPT !.flow = IF @ \in {"break", "continue"} THEN "default" ELSE @],
                      DOMAIN m.vars)
    [] OTHER ->
       LET r == Evaluate(Expressions(s)[1], funs, m)
       IN  CASE Stopped(r.m) -> r.m
             [] s.k \in {"let", "set"} -> Assign(r.m, s.vars, r.vals)
             [] s.k = "do" -> r.m
             [] s.k = "if" -> IF r.vals[1] # 0 THEN RunBlock(s.body, funs, r.m) ELSE r.m
             [] s.k = "switch" ->
                  LET i == SelectInSeq(s.cases, LAMBDA c : c.v = <<>> \/ c.v = <<r.vals[1]>>)
                  IN  IF i = 0 THEN r.m ELSE RunBlock(s.cases[i].body, funs, r.m)

(* The statements of a block, which see its functions.                     *)
RunAll(b, funs, m) ==
  LET here == {i \in DOMAIN b : b[i].k = "fun"}
      fs == [n \in DOMAIN funs \cup {b[i].n : i \in here} |->
               IF \E i \in here : b[i].n = n THEN b[CHOOSE i \in here : b[i].n = n] ELSE funs[n]]
      run[i \in 0 .. Len(b)] ==
        IF i = 0 THEN m
        ELSE LET p == run[i - 1]
             IN  CASE p.flow # "default" -> p
                   [] p.steps >= MaxSteps -> [p EXCEPT !.flow = "limit"]
                   [] OTHER -> Run(b[i], fs, [p EXCEPT !.steps = @ + 1])
  IN  run[Len(b)]

Loop(s, funs, m) ==
  LET c    == Evaluate(s.e, funs, [m EXCEPT !.steps = @ + 1])
      body == RunBlock(s.body, funs, c.m)
      post == RunBlock(s.post, funs, [body EXCEPT !.flow = "default"])
  IN  CASE m.steps >= MaxSteps -> [m EXCEPT !.flow = "limit"]
        [] Stopped(c.m) -> c.m
        [] c.vals[1] = 0 -> c.m
        [] body.flow \in {"break", "leave", "stop", "revert", "limit"} -> body
        [] post.flow # "default" -> post
        [] OTHER -> Loop(s, funs, post)

(* What the outside world can see of a run.                                *)
Outcome(b, env) ==
  LET m == RunBlock(b, [n \in {} |-> 0], Start(env.calldata, env.storage))
  IN  IF m.flow = "limit" THEN [end |-> "limit"]
      ELSE [end |-> IF m.flow = "default" THEN "stop" ELSE m.flow, log |-> m.log, storage |-> m.storage]
=============================================================================
