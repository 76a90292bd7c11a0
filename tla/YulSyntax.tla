----------------------------- MODULE YulSyntax -----------------------------
(***************************************************************************)
(* Yul syntax trees (libyul/AsmData.h), their traversal, and the questions *)
(* the optimiser steps ask about them: which names, side effects, loops    *)
(* and control flow a piece of code contains, and how large it is.         *)
(*                                                                         *)
(* A name is the word somebody wrote followed by the numbers the dispenser *)
(* appended to it: <<"a", 1, 2>> is a_1_2.  A block is a sequence of       *)
(* statements.  An optional expression or literal is a sequence of at most *)
(* one element.                                                            *)
(***************************************************************************)
EXTENDS Integers, Sequences, FiniteSets, SequencesExt

CONSTANT Builtins      \* the dialect: name -> [args, rets, fx, tier]

Lit(v)        == [k |-> "lit", v |-> v]
Id(n)         == [k |-> "id", n |-> n]
Call(f, args) == [k |-> "call", f |-> f, args |-> args]

Let(vars, val)  == [k |-> "let", vars |-> vars, val |-> val]
Set(vars, e)    == [k |-> "set", vars |-> vars, val |-> <<e>>]
Do(e)           == [k |-> "do", e |-> e]
If(c, body)     == [k |-> "if", e |-> c, body |-> body]
Case(v, body)   == [v |-> v, body |-> body]
Switch(e, cs)   == [k |-> "switch", e |-> e, cases |-> cs]
For(pre, c, post, body) == [k |-> "for", pre |-> pre, e |-> c, post |-> post, body |-> body]
Block(b)        == [k |-> "block", body |-> b]
Fun(n, ps, rs, body) == [k |-> "fun", n |-> n, params |-> ps, rets |-> rs, body |-> body]
Break           == [k |-> "break"]
Continue        == [k |-> "continue"]
Leave           == [k |-> "leave"]

IsBuiltin(f) == Len(f) = 1 /\ f[1] \in DOMAIN Builtins
Op(o, args)  == Call(<<o>>, args)
IsOp(e, o)   == e.k = "call" /\ e.f = <<o>>

Each(F(_), s) == <<>> \o [i \in DOMAIN s |-> F(s[i])]

(* The parts of a statement, in the order ASTWalker visits them.           *)
Expressions(s) ==
  CASE s.k \in {"let", "set"} -> s.val
    [] s.k \in {"do", "if", "switch", "for"} -> <<s.e>>
    [] OTHER -> <<>>

Blocks(s) ==
  CASE s.k \in {"if", "block", "fun"} -> <<s.body>>
    [] s.k = "switch" -> Each(LAMBDA c : c.body, s.cases)
    [] s.k = "for" -> <<s.pre, s.body, s.post>>
    [] OTHER -> <<>>

(* ASTModifier: the same statement with other blocks and expressions.      *)
Modify(s, B(_), E(_)) ==
  CASE s.k \in {"let", "set"} -> [s EXCEPT !.val = Each(E, @)]
    [] s.k = "do" -> [s EXCEPT !.e = E(@)]
    [] s.k = "if" -> [s EXCEPT !.e = E(@), !.body = B(@)]
    [] s.k = "switch" ->
         [s EXCEPT !.e = E(@), !.cases = Each(LAMBDA c : Case(c.v, B(c.body)), @)]
    [] s.k = "for" -> [s EXCEPT !.pre = B(@), !.e = E(@), !.post = B(@), !.body = B(@)]
    [] s.k \in {"block", "fun"} -> [s EXCEPT !.body = B(@)]
    [] OTHER -> s

Same(x) == x
Below(b, F(_)) == Each(LAMBDA s : Modify(s, F, Same), b)

(* iterateReplacing: every statement makes way for a sequence of them.     *)
Replacing(b, F(_)) == FlattenSeq(Each(F, b))

(* iterateReplacingWindow<2>: F gives what replaces two neighbours, or     *)
(* <<>> if they stay.                                                      *)
RECURSIVE FromPair(_, _, _)
FromPair(b, r, i) ==
  CASE i > Len(r)   -> SubSeq(b, i, Len(b))
    [] r[i] = <<>>  -> <<b[i]>> \o FromPair(b, r, i + 1)
    [] OTHER        -> r[i] \o FromPair(b, r, i + 2)
ReplacingPairs(b, F(_, _)) == FromPair(b, [i \in 1 .. Len(b) - 1 |-> F(b[i], b[i + 1])], 1)

(* The same with state: F takes an element and the state so far to its     *)
(* replacement x and the state c after it.                                 *)
Thread(F(_, _), b, c) ==
  LET run[i \in 0 .. Len(b)] ==
        IF i = 0 THEN [x |-> <<>>, c |-> c]
        ELSE LET p == run[i - 1]
                 r == F(b[i], p.c)
             IN  [x |-> p.x \o r.x, c |-> r.c]
  IN  run[Len(b)]

One(r) == [r EXCEPT !.x = <<@>>]

(* ASTModifier with state.                                                 *)
Visit(s, c, B(_, _), E(_, _)) ==
  CASE s.k \in {"let", "set"} ->
         LET v == Thread(LAMBDA e, d : One(E(e, d)), s.val, c)
         IN  [x |-> [s EXCEPT !.val = v.x], c |-> v.c]
    [] s.k = "do" -> LET e == E(s.e, c) IN [x |-> Do(e.x), c |-> e.c]
    [] s.k = "if" ->
         LET e == E(s.e, c)
             b == B(s.body, e.c)
         IN  [x |-> If(e.x, b.x), c |-> b.c]
    [] s.k = "switch" ->
         LET e  == E(s.e, c)
             cs == Thread(LAMBDA a, d : LET b == B(a.body, d)
                                        IN  [x |-> <<Case(a.v, b.x)>>, c |-> b.c], s.cases, e.c)
         IN  [x |-> Switch(e.x, cs.x), c |-> cs.c]
    [] s.k = "for" ->
         LET pre  == B(s.pre, c)
             e    == E(s.e, pre.c)
             post == B(s.post, e.c)
             body == B(s.body, post.c)
         IN  [x |-> For(pre.x, e.x, post.x, body.x), c |-> body.c]
    [] s.k \in {"block", "fun"} ->
         LET b == B(s.body, c) IN [x |-> [s EXCEPT !.body = b.x], c |-> b.c]
    [] OTHER -> [x |-> s, c |-> c]

Keep(x, c) == [x |-> x, c |-> c]

(* Every statement below a block, with its loop depth, as ASTWalker finds  *)
(* them; every expression below an expression.                             *)
RECURSIVE Walk(_, _)
Walk(b, depth) ==
  Replacing(b, LAMBDA s :
    <<[s |-> s, depth |-> depth]>> \o
    Replacing(Blocks(s), LAMBDA x : Walk(x, IF s.k = "for" THEN depth + 1 ELSE depth)))

RECURSIVE Within(_)
Within(e) ==
  <<e>> \o (IF e.k = "call" THEN Replacing(e.args, LAMBDA a : Within(a)) ELSE <<>>)

Statements(b)    == Each(LAMBDA w : w.s, Walk(b, 0))
ExpressionsIn(b) ==
  Replacing(Statements(b), LAMBDA s : Replacing(Expressions(s), Within))

Names(vs) == {vs[i] : i \in DOMAIN vs}
Kind(ss, k) == {s \in Range(ss) : s.k = k}

-----------------------------------------------------------------------------
(* NameCollector and Metrics *)

(* Assignments and AssignmentsSinceContinue.                               *)
Assigned(b) == UNION {Names(s.vars) : s \in Kind(Statements(b), "set")}

AssignedSinceContinue(b) ==
  LET w == Walk(b, 0)
  IN  UNION {Names(w[i].s.vars) : i \in {i \in DOMAIN w :
        /\ w[i].s.k = "set"
        /\ \E j \in 1 .. i - 1 : w[j].s.k = "continue" /\ w[j].depth = 0}}

(* NameCollector *)
Declared(b) ==
  LET ss == Statements(b)
  IN  UNION {Names(s.vars) : s \in Kind(ss, "let")} \cup
      UNION {{s.n} \cup Names(s.params) \cup Names(s.rets) : s \in Kind(ss, "fun")}

Functions(b) == Kind(Statements(b), "fun")
FunctionNamed(b, n) == CHOOSE f \in Functions(b) : f.n = n

(* ReferencesCounter: uses of a variable (assignments to it count) or      *)
(* calls of a function, in the given expressions and statements.           *)
Count(es, n) ==
  Cardinality({i \in DOMAIN es : es[i] = Id(n) \/ (es[i].k = "call" /\ es[i].f = n)})
References(b, n) ==
  LET ss == Statements(b)
  IN  Count(ExpressionsIn(b), n) +
      Cardinality({i \in DOMAIN ss : ss[i].k = "set" /\ n \in Names(ss[i].vars)})

AssignmentCount(b, n) ==
  LET ss == Statements(b)
  IN  Cardinality({i \in DOMAIN ss : ss[i].k = "set" /\ n \in Names(ss[i].vars)})

Variables(e) == {x.n : x \in Kind(Within(e), "id")}
Callees(es)  == {x.f : x \in Kind(es, "call")}

Total(S(_), s) == FoldSeq(LAMBDA x, n : S(x) + n, 0, s)

(* CodeSize; functions below the block count only if asked to.             *)
StatementWeight(s) ==
  CASE s.k = "fun" -> 1
    [] s.k \in {"if", "break", "continue", "leave"} -> 2
    [] s.k = "switch" -> 1 + 2 * Len(s.cases)
    [] s.k = "for" -> 3
    [] OTHER -> 0
ExpressionWeight(e) == IF e.k = "id" THEN 0 ELSE 1

RECURSIVE StripFunctions(_)
StripFunctions(b) ==
  Below(SelectSeq(b, LAMBDA s : s.k # "fun"), LAMBDA x : StripFunctions(x))

CodeSizeIncludingFunctions(b) ==
  Total(StatementWeight, Statements(b)) + Total(ExpressionWeight, ExpressionsIn(b))
CodeSize(b) == CodeSizeIncludingFunctions(StripFunctions(b))

(* CodeCost; every literal of the model fits into one byte.                *)
CostOf(e) ==
  IF e.k # "call" THEN 1
  ELSE IF ~ IsBuiltin(e.f) THEN 50
  ELSE CASE Builtins[e.f[1]].tier = "base" -> 0
         [] Builtins[e.f[1]].tier = "low"  -> 2
         [] OTHER -> 50
CodeCost(e) == Total(CostOf, Within(e))

-----------------------------------------------------------------------------
(* Semantics *)

NoEffects == [movable |-> TRUE, free |-> TRUE, freeIfNoMSize |-> TRUE,
              storage |-> FALSE, memory |-> FALSE]
Worst     == [movable |-> FALSE, free |-> FALSE, freeIfNoMSize |-> FALSE,
              storage |-> TRUE, memory |-> TRUE]
Plus(a, b) == [movable |-> a.movable /\ b.movable, free |-> a.free /\ b.free,
               freeIfNoMSize |-> a.freeIfNoMSize /\ b.freeIfNoMSize,
               storage |-> a.storage \/ b.storage, memory |-> a.memory \/ b.memory]

(* SideEffectsCollector: fx gives the effects of the functions that were   *)
(* analysed; a step that did not analyse them passes NoFunctions.          *)
NoFunctions == [f \in {} |-> NoEffects]
EffectsOfCall(f, fx) ==
  IF IsBuiltin(f) THEN Builtins[f[1]].fx ELSE IF f \in DOMAIN fx THEN fx[f] ELSE Worst
Effects(es, fx) ==
  FoldSet(LAMBDA f, e : Plus(EffectsOfCall(f, fx), e), NoEffects, Callees(es))
ExpressionEffects(e, fx) == Effects(Within(e), fx)
BlockEffects(b, fx)      == Effects(ExpressionsIn(b), fx)
Movable(e)               == ExpressionEffects(e, NoFunctions).movable

ContainsMSize(b) == <<"msize">> \in Callees(ExpressionsIn(b))
ContainsLeave(f) == Kind(Statements(f.body), "leave") # {}

(* CallGraphGenerator: who calls whom.  Main is the code outside of any    *)
(* function.                                                               *)
Main == <<"">>
CallGraph(b) ==
  [n \in {f.n : f \in Functions(b)} \cup {Main} |->
     Callees(ExpressionsIn(StripFunctions(IF n = Main THEN b ELSE FunctionNamed(b, n).body)))]

RECURSIVE Reach(_, _, _)
Reach(graph, todo, seen) ==
  LET new == UNION {IF f \in DOMAIN graph THEN graph[f] ELSE {} : f \in todo} \ seen
  IN  IF new = {} THEN seen ELSE Reach(graph, new, seen \cup new)
CalledFrom(graph, f) == Reach(graph, {f}, {})

(* CallGraphCycleFinder: a depth first search from every function, which   *)
(* turns back at functions that were searched before.                      *)
RECURSIVE CycleVisit(_, _, _)
CycleVisit(graph, f, c) ==
  IF f \in c.visited THEN c
  ELSE IF \E i \in DOMAIN c.path : c.path[i] = f
  THEN LET at == SelectInSeq(c.path, LAMBDA x : x = f)
       IN  [c EXCEPT !.inCycle = @ \cup {c.path[i] : i \in at .. Len(c.path)}]
  ELSE LET children == IF f \in DOMAIN graph THEN graph[f] ELSE {}
           below == FoldSet(LAMBDA g, d : CycleVisit(graph, g, d),
                            [c EXCEPT !.path = Append(@, f)], children)
       IN  [below EXCEPT !.path = c.path, !.visited = @ \cup {f}]
RecursiveFunctions(graph) ==
  FoldSet(LAMBDA f, c : CycleVisit(graph, f, c),
          [inCycle |-> {}, visited |-> {}, path |-> <<>>], DOMAIN graph).inCycle

(* SideEffectsPropagator: loops and recursion may not end, so code that    *)
(* has them can neither move nor go away.                                  *)
FunctionEffects(b) ==
  LET graph == CallGraph(b)
      loops(n) == LET body == IF n = Main THEN b ELSE FunctionNamed(b, n).body
                  IN  Kind(Statements(StripFunctions(body)), "for") # {}
      cycles == RecursiveFunctions(graph)
      stays(n) == n \in cycles \/ loops(n)
      direct(n) == IF stays(n) THEN [NoEffects EXCEPT !.movable = FALSE, !.free = FALSE,
                                                      !.freeIfNoMSize = FALSE]
                   ELSE NoEffects
  IN  [n \in DOMAIN graph |->
         FoldSet(LAMBDA f, e : Plus(IF IsBuiltin(f) THEN Builtins[f[1]].fx ELSE direct(f), e),
                 direct(n), CalledFrom(graph, n))]

(* TerminationFinder *)
ControlFlowKind(s) ==
  CASE s.k \in {"break", "continue", "leave"} -> s.k
    [] s.k = "do" /\ s.e.k = "call" /\ s.e.f \in {<<"stop">>, <<"revert">>} -> "terminate"
    [] OTHER -> "flow out"

IsEmptyBlock(s) == s.k = "block" /\ s.body = <<>>
RemoveEmptyBlocks(b) == SelectSeq(b, LAMBDA s : ~ IsEmptyBlock(s))
=============================================================================
