-------------------------- MODULE YulCodeTransform --------------------------
(***************************************************************************)
(* CodeTransform: EVM code for a Yul block (EVMCodeTransform.cpp), with    *)
(* the stack height the assembly keeps beside the code.                    *)
(*                                                                         *)
(* The state c of the translation holds the code and its stack height, for *)
(* every variable in scope its slot "at" and the references that are left, *)
(* the variables to delete ("gone"), the slots they leave unused, the      *)
(* functions in scope, where break, continue and leave go to, the variables*)
(* out of reach ("errors") and whether an assertion failed.  "reach" is how*)
(* deep DUP can look (16), "opt" is m_allowStackOpt.                       *)
(***************************************************************************)
EXTENDS YulSyntax

Push(v)      == [i |-> "push", v |-> v]
Ins(o)       == [i |-> "op", o |-> o]
Dup(n)       == [i |-> "dup", n |-> n]
Swap(n)      == [i |-> "swap", n |-> n]
Label(l)     == [i |-> "label", l |-> l]
Reference(l) == [i |-> "reference", l |-> l]
Jump         == [i |-> "jump"]
JumpIf       == [i |-> "jumpif"]
Invalid      == [i |-> "invalid"]

Nowhere == [n \in {} |-> 0]
NewContext(reach, opt) ==
  [code |-> <<>>, height |-> 0, at |-> Nowhere, refs |-> Nowhere, gone |-> {}, unused |-> {},
   funs |-> Nowhere, labels |-> 0, loops |-> <<>>, exits |-> <<>>, errors |-> {}, within |-> Main,
   failed |-> FALSE, reach |-> reach, opt |-> opt]

-----------------------------------------------------------------------------
(* The assembly: items with their effect on the stack height.              *)

Emit(c, item, diff) == [c EXCEPT !.code = Append(@, item), !.height = @ + diff]
Pop(c)              == Emit(c, Ins("pop"), -1)
appendConstant(c, v) == Emit(c, Push(v), 1)
appendLabel(c, l)   == Emit(c, Label(l), 0)
appendJumpTo(c, l, diff) == Emit(Emit(c, Reference(l), 1), Jump, diff - 1)
appendJumpToIf(c, l)     == Emit(Emit(c, Reference(l), 1), JumpIf, -2)
setStackHeight(c, h) == [c EXCEPT !.height = h]
LabelsTo(c, n)      == [c EXCEPT !.labels = @ + n]
Ensure(c, fine)     == [c EXCEPT !.failed = @ \/ ~ fine]

Repeat(F(_), c, n) == FoldLeft(LAMBDA d, i : F(d), c, [i \in 1 .. n |-> i])
appendPopUntil(c, target) == Repeat(Pop, c, IF c.height > target THEN c.height - target ELSE 0)

StackError(c, depth) == [c EXCEPT !.errors = @ \cup {[fun |-> c.within, depth |-> depth]}]

-----------------------------------------------------------------------------
(* Variables                                                               *)

Forgetting(f, S) == [n \in DOMAIN f \ S |-> f[n]]

unreferenced(c, n) == n \notin DOMAIN c.refs \/ c.refs[n] = 0

decreaseReference(c, n) ==
  IF ~ c.opt THEN c
  ELSE IF unreferenced(c, n) THEN Ensure(c, FALSE)
  ELSE [c EXCEPT !.refs[n] = @ - 1, !.gone = IF c.refs[n] = 1 THEN @ \cup {n} ELSE @]

(* Mutant: a variable goes away in whatever block it is used last.         *)
FreeAnywhere(c, scope) ==
  LET dead == c.gone \cap DOMAIN c.at
  IN  [Ensure(c, dead \subseteq DOMAIN c.at) EXCEPT
         !.unused = @ \cup {c.at[n] : n \in dead}, !.at = Forgetting(@, dead),
         !.refs = Forgetting(@, dead), !.gone = @ \ dead]

(* deleteVariable, for the variables of the scope that are to be deleted.  *)
deleteVariables(c, scope) ==
  LET dead == c.gone \cap scope
  IN  [Ensure(c, dead \subseteq DOMAIN c.at) EXCEPT
         !.unused = @ \cup {c.at[n] : n \in dead}, !.at = Forgetting(@, dead),
         !.refs = Forgetting(@, dead), !.gone = @ \ dead]

RECURSIVE PopUnused(_)
PopUnused(c) ==
  IF c.height - 1 \in c.unused THEN PopUnused(Pop([c EXCEPT !.unused = @ \ {c.height - 1}])) ELSE c

freeUnusedVariables(c, scope) == IF c.opt THEN PopUnused(deleteVariables(c, scope)) ELSE c

(* variableHeightDiff: how far the slot of a variable is below the top.    *)
(* Out of reach, something is done that keeps the height right.            *)
variableHeightDiff(c, n, forSwap) ==
  LET extra == IF forSwap THEN 1 ELSE 0
      diff  == IF n \in DOMAIN c.at THEN c.height - c.at[n] ELSE 0
  IN  IF diff > c.reach + extra
      THEN [x |-> 1 + extra, c |-> StackError(c, diff - c.reach - extra)]
      ELSE [x |-> diff, c |-> Ensure(c, diff > extra)]

(* The top of the stack goes to the slot of a variable.                    *)
Store(c, n) ==
  LET d == variableHeightDiff(c, n, TRUE) IN Pop(Emit(d.c, Swap(d.x - 1), 0))

generateAssignment(n, c) == decreaseReference(Store(c, n), n)

-----------------------------------------------------------------------------
(* Expressions                                                             *)

RECURSIVE Expression(_, _)
visitExpression(e, c) ==
  LET d == Expression(e, c) IN Ensure(d, d.height = c.height + 1)

Expression(e, c) ==
  CASE e.k = "lit" -> appendConstant(c, e.v)
    [] e.k = "id"  -> LET d == variableHeightDiff(c, e.n, FALSE)
                      IN  decreaseReference(Emit(d.c, Dup(d.x), 1), e.n)
    [] e.k = "call" /\ IsBuiltin(e.f) ->
         LET b == Builtins[e.f[1]]
         IN  Emit(FoldRight(visitExpression, e.args, c), Ins(e.f[1]), b.rets - b.args)
    [] OTHER ->
         LET f    == c.funs[e.f]
             back == c.labels + 1
             args == FoldRight(visitExpression, e.args, Emit(LabelsTo(c, 1), Reference(back), 1))
         IN  appendLabel(appendJumpTo(args, f.entry, f.rets - Len(e.args) - 1), back)

-----------------------------------------------------------------------------
(* Statements                                                              *)

(* The variable at place i of a declaration, whose value is in the slot    *)
(* "home", gets a slot that is unused, or stays if there is none.  "top":  *)
(* everything above its value is gone.                                     *)
DeclareVariable(n, home, t) ==
  LET c == [t.c EXCEPT !.at = [m \in DOMAIN @ \cup {n} |-> IF m = n THEN home ELSE @[m]]]
      slot == CHOOSE s \in c.unused : \A r \in c.unused : s <= r
  IN  CASE ~ c.opt -> [t EXCEPT !.c = c]
        [] c.opt /\ unreferenced(c, n) ->
             [t EXCEPT !.c = IF t.top THEN Pop([c EXCEPT !.at = Forgetting(@, {n})])
                             ELSE [c EXCEPT !.gone = @ \cup {n}]]
        [] c.opt /\ ~ unreferenced(c, n) /\ c.unused = {} -> [c |-> c, top |-> FALSE]
        [] OTHER -> [t EXCEPT !.c = Store([c EXCEPT !.unused = @ \ {slot}, !.at[n] = slot], n)]

VariableDeclaration(s, c, scope) ==
  LET n == Len(s.vars)
      value == Expression(s.val[1], c)
      deposited == Ensure(value, value.height = c.height + n)
      ready == IF s.val = <<>> THEN Repeat(LAMBDA d : appendConstant(d, 0), c, n)
               ELSE IF c.opt THEN deleteVariables(deposited, scope) ELSE deposited
  IN  FoldRight(LAMBDA i, t : DeclareVariable(s.vars[i], c.height + i - 1, t), [i \in 1 .. n |-> i],
                [c |-> ready, top |-> TRUE]).c

Assignment(s, c) ==
  LET value == Expression(s.val[1], c)
  IN  FoldRight(generateAssignment, s.vars, Ensure(value, value.height = c.height + Len(s.vars)))

(* Mutant: a jump out of a block leaves its values on the stack.           *)
JumpAsIs(c, jump) == appendJumpTo(c, jump.label, 0)

(* break, continue, leave: to the height the label expects.                *)
GoTo(c, jump) ==
  LET d == appendPopUntil(c, jump.height) IN appendJumpTo(d, jump.label, c.height - jump.height)

RECURSIVE TransformBlock(_, _), TransformStatement(_, _, _)

If_(s, c) ==
  LET end  == c.labels + 1
      cond == Emit(visitExpression(s.e, LabelsTo(c, 1)), Ins("iszero"), 0)
  IN  appendLabel(TransformBlock(s.body, appendJumpToIf(cond, end)), end)

(* The tests in order, with the default case behind them; then the bodies. *)
Switch_(s, c) ==
  LET n     == Len(s.cases)
      label(i) == c.labels + i
      end   == c.labels + n + 1
      value == visitExpression(s.e, LabelsTo(c, n + 1))
      test(d, i) ==
        IF s.cases[i].v = <<>> THEN TransformBlock(s.cases[i].body, d)
        ELSE appendJumpToIf(Emit(Emit(appendConstant(Ensure(d, d.height = value.height), s.cases[i].v[1]),
                                      Dup(2), 1), Ins("eq"), -1), label(i))
      tested == appendJumpTo(FoldLeftDomain(test, value, s.cases), end, 0)
      named == SelectSeq([i \in 1 .. n |-> i], LAMBDA i : s.cases[i].v # <<>>)
      body(d, i) ==
        LET b == TransformBlock(s.cases[i].body, appendLabel(d, label(i)))
        IN  IF i = Last(named) THEN b ELSE appendJumpTo(b, end, 0)
  IN  Pop(appendLabel(FoldLeft(body, tested, named), end))

(* The variables of a scope with the number of their references in it.     *)
VariablesOf(b) == UNION {Names(s.vars) : s \in Kind(b, "let")}
Enter(c, scope, refs(_)) ==
  [c EXCEPT !.refs = [n \in DOMAIN @ \cup scope |-> IF n \in scope THEN refs(n) ELSE @[n]]]

finalizeBlock(c, scope, start) ==
  LET d == freeUnusedVariables(c, scope)
      e == IF c.opt THEN Ensure(d, scope \cap DOMAIN d.at = {})
           ELSE Repeat(Pop, d, Cardinality(scope))
  IN  Ensure(e, e.height = start)

(* Functions are jumped over, several in a row at once.  Nothing comes     *)
(* after an assertion that failed.                                         *)
visitStatements(b, c, scope) ==
  LET step(t, s) ==
        LET d == freeUnusedVariables(t.c, scope)
            l == d.labels + 1
            moved == CASE s.k = "fun" /\ t.over = 0 -> appendJumpTo(LabelsTo(d, 1), l, 0)
                       [] s.k # "fun" /\ t.over # 0 -> appendLabel(d, t.over)
                       [] OTHER -> d
        IN  IF t.c.failed THEN t
            ELSE [c |-> TransformStatement(s, moved, scope),
                  over |-> IF s.k # "fun" THEN 0 ELSE IF t.over = 0 THEN l ELSE t.over]
      end == FoldLeft(step, [c |-> c, over |-> 0], b)
  IN  freeUnusedVariables(IF end.over = 0 THEN end.c ELSE appendLabel(end.c, end.over), scope)

TransformBlock(b, c) ==
  LET scope == VariablesOf(b)
      funs  == SelectSeq(b, LAMBDA s : s.k = "fun")
      entries == [n \in {funs[i].n : i \in DOMAIN funs} |->
                    LET i == SelectInSeq(funs, LAMBDA f : f.n = n)
                    IN  [entry |-> c.labels + i, rets |-> Len(funs[i].rets)]]
      inner == [Enter(LabelsTo(c, Len(funs)), scope, LAMBDA n : References(b, n)) EXCEPT
                  !.funs = [n \in DOMAIN @ \cup DOMAIN entries |->
                              IF n \in DOMAIN entries THEN entries[n] ELSE @[n]]]
  IN  finalizeBlock(visitStatements(b, inner, scope), scope, c.height)

ForLoop(s, c) ==
  LET scope == VariablesOf(s.pre)
      refs(n) == References(<<s>>, n)
      start == c.labels + 1
      post  == c.labels + 2
      end   == c.labels + 3
      pre   == visitStatements(s.pre, Enter(LabelsTo(c, 3), scope, refs), scope)
      cond  == appendJumpToIf(Emit(visitExpression(s.e, appendLabel(pre, start)), Ins("iszero"), 0), end)
      here(l) == [label |-> l, height |-> cond.height]
      body  == TransformBlock(s.body, [cond EXCEPT !.loops = Append(@, [post |-> here(post), done |-> here(end)])])
      again == appendJumpTo(TransformBlock(s.post, appendLabel(body, post)), start, 0)
      done  == finalizeBlock(appendLabel(again, end), scope, c.height)
  IN  [done EXCEPT !.loops = c.loops]

(* The stack below a return: the target of every slot, -1 for what goes.   *)
RECURSIVE Reshuffle(_, _)
Reshuffle(c, layout) ==
  LET n == Len(layout)
      back == layout[n]
  IN  IF back = n - 1 THEN Ensure(c, \A i \in 1 .. n : layout[i] = i - 1)
      ELSE IF back < 0 THEN Reshuffle(Pop(c), Front(layout))
      ELSE Reshuffle(Emit(c, Swap(n - back - 1), 0),
                     [layout EXCEPT ![n] = layout[back + 1], ![back + 1] = back])

FunctionDefinition(s, c) ==
  LET p == Len(s.params)
      r == Len(s.rets)
      place(n) == IF n \in Names(s.params)
                  THEN 1 + p - SelectInSeq(s.params, LAMBDA x : x = n)
                  ELSE p + SelectInSeq(s.rets, LAMBDA x : x = n)
      own   == Names(s.params \o s.rets)
      refs(n) == References(s.body, n) + IF n \in Names(s.rets) THEN 1 ELSE 0
      begun == Repeat(LAMBDA d : appendConstant(d, 0),
                      setStackHeight(appendLabel(LabelsTo(c, 1), c.funs[s.n].entry), p + 1), r)
      body  == TransformBlock(s.body,
                 [Enter(begun, own, refs) EXCEPT
                    !.at = [n \in DOMAIN @ \cup own |-> IF n \in own THEN place(n) ELSE @[n]],
                    !.exits = Append(@, [label |-> c.labels + 1, height |-> p + r + 1]),
                    !.gone = {}, !.unused = {}, !.within = s.n])
      exit  == appendLabel(body, c.labels + 1)
      surplus == p + r - c.reach
      moved == IF surplus > 0
               THEN appendPopUntil(StackError(Emit(exit, Invalid, 0), surplus), exit.height - p)
               ELSE Reshuffle(exit, <<r>> \o [i \in 1 .. p |-> -1] \o [i \in 1 .. r |-> i - 1])
  IN  [setStackHeight(Emit(moved, Jump, 0), c.height) EXCEPT
         !.exits = c.exits, !.gone = c.gone, !.unused = c.unused, !.within = c.within]

TransformStatement(s, c, scope) ==
  CASE s.k = "let" -> VariableDeclaration(s, c, scope)
    [] s.k = "set" -> Assignment(s, c)
    [] s.k = "do"  -> Expression(s.e, c)
    [] s.k = "if"  -> If_(s, c)
    [] s.k = "switch" -> Switch_(s, c)
    [] s.k = "for" -> ForLoop(s, c)
    [] s.k = "block" -> TransformBlock(s.body, c)
    [] s.k = "fun" -> FunctionDefinition(s, c)
    [] s.k = "break" -> GoTo(c, Last(c.loops).done)
    [] s.k = "continue" -> GoTo(c, Last(c.loops).post)
    [] s.k = "leave" -> GoTo(c, Last(c.exits))

(* EVMObjectCompiler::run for one object.                                  *)
CompileObject(b, reach, opt) ==
  LET end == TransformBlock(b, NewContext(reach, opt))
  IN  [code |-> end.code, errors |-> end.errors, failed |-> end.failed]

(* CompilabilityChecker: the surplus of every function that has one.  Its  *)
(* assembly has no code, but the same heights.                             *)
StackSurplus(b, reach, opt) ==
  LET errors == CompileObject(b, reach, opt).errors
      deepest(f) == CHOOSE e \in errors : e.fun = f /\ \A d \in errors : d.fun = f => d.depth <= e.depth
  IN  [f \in {e.fun : e \in errors} |-> deepest(f).depth]
=============================================================================
