---------------------------- MODULE YulFunctions ----------------------------
(***************************************************************************)
(* The optimiser steps that deal with whole functions and loops: finding   *)
(* functions that are the same, inlining them, moving what does not change *)
(* out of a loop, and repeating expressions where the stack is too deep;   *)
(* and the table of all steps.                                             *)
(***************************************************************************)
EXTENDS YulDataFlow, YulStructure, YulAnalysis

Tiny  == 1       \* functions up to this size are always inlined
Big   == 45      \* nothing is inlined into functions above this size
Small == 6       \* functions below this size are inlined,
SmallIfConstant == 12      \* and with a constant argument those below this one

-----------------------------------------------------------------------------
(* SyntacticallyEqual.  c numbers the declarations of both sides; equal    *)
(* code gives the numbering after it, other code nothing.                  *)

Number(f, n)  == IF n \in DOMAIN f THEN <<f[n]>> ELSE <<>>
SameName(m, n, c) ==
  Number(c.left, m) = Number(c.right, n) /\ (Number(c.left, m) = <<>> => m = n)

RECURSIVE SameExpression(_, _, _)
SameExpression(e, f, c) ==
  /\ e.k = f.k
  /\ CASE e.k = "lit" -> e.v = f.v
       [] e.k = "id"  -> SameName(e.n, f.n, c)
       [] e.k = "call" -> /\ SameName(e.f, f.f, c)
                          /\ Len(e.args) = Len(f.args)
                          /\ \A i \in DOMAIN e.args : SameExpression(e.args[i], f.args[i], c)

(* visitDeclaration, for a list of names.                                  *)
Declare(ms, ns, c) ==
  LET ids(vs) == [n \in Names(vs) |-> c.next + SelectInSeq(vs, LAMBDA x : x = n)]
  IN  IF Len(ms) # Len(ns) THEN <<>>
      ELSE <<[left |-> ids(ms) @@ c.left, right |-> ids(ns) @@ c.right, next |-> c.next + Len(ms)]>>

(* The cases of a switch are compared in the order of their values.        *)
Ordered(s) ==
  IF s.k # "switch" THEN s
  ELSE [s EXCEPT !.cases = SortSeq(@, LAMBDA a, b : b.v # <<>> /\ (a.v = <<>> \/ a.v[1] < b.v[1]))]

RECURSIVE SameBlock(_, _, _), SameStatement(_, _, _)
SameStatement(s0, t0, c) ==
  LET s  == Ordered(s0)
      t  == Ordered(t0)
      es == Expressions(s)
      fs == Expressions(t)
      bs == Blocks(s)
      ds == Blocks(t)
      alike == /\ s.k = t.k
               /\ Len(es) = Len(fs) /\ Len(bs) = Len(ds)
               /\ \A i \in DOMAIN es : SameExpression(es[i], fs[i], c)
               /\ s.k = "set" => /\ Len(s.vars) = Len(t.vars)
                                 /\ \A i \in DOMAIN s.vars : SameName(s.vars[i], t.vars[i], c)
               /\ s.k = "switch" => \A i \in DOMAIN s.cases : s.cases[i].v = t.cases[i].v
      declared == CASE s.k = "let" -> Declare(s.vars, t.vars, c)
                    [] s.k = "fun" -> IF Len(s.params) # Len(t.params) THEN <<>>
                                      ELSE Declare(s.params \o s.rets, t.params \o t.rets, c)
                    [] OTHER -> <<c>>
      below[i \in 0 .. Len(bs)] ==
        IF i = 0 THEN declared
        ELSE LET p == below[i - 1] IN IF p = <<>> THEN <<>> ELSE SameBlock(bs[i], ds[i], p[1])
  IN  IF alike THEN below[Len(bs)] ELSE <<>>

SameBlock(b, d, c) ==
  LET same[i \in 0 .. Len(b)] ==
        IF i = 0 THEN <<c>>
        ELSE LET p == same[i - 1] IN IF p = <<>> THEN <<>> ELSE SameStatement(b[i], d[i], p[1])
  IN  IF Len(b) = Len(d) THEN same[Len(b)] ELSE <<>>

SyntacticallyEqual(f, g) ==
  SameStatement(f, g, [left |-> Nothing, right |-> Nothing, next |-> 0]) # <<>>

-----------------------------------------------------------------------------
(* EquivalentFunctionDetector and EquivalentFunctionCombiner.  The hash of *)
(* the body only narrows the search.                                       *)

RECURSIVE OuterFunctions(_)
OuterFunctions(b) ==
  Replacing(b, LAMBDA s : IF s.k = "fun" THEN <<s>>
                          ELSE Replacing(Blocks(s), LAMBDA x : OuterFunctions(x)))

(* Mutant: functions with equal bodies are the same.                       *)
SameBody(b) ==
  LET fs == OuterFunctions(b)
  IN  [n \in {fs[i].n : i \in DOMAIN fs} |->
         LET me == fs[SelectInSeq(fs, LAMBDA f : f.n = n)]
         IN  fs[SelectInSeq(fs, LAMBDA f : CodeSize(f.body) = CodeSize(me.body))].n]

(* Every function outside of functions, with the first one equal to it.    *)
Duplicates(b) ==
  LET fs == OuterFunctions(b)
  IN  [n \in {fs[i].n : i \in DOMAIN fs} |->
         LET me == fs[SelectInSeq(fs, LAMBDA f : f.n = n)]
         IN  fs[SelectInSeq(fs, LAMBDA f : SyntacticallyEqual(me, f))].n]

RECURSIVE Redirect(_, _), MapExpressions(_, _)
Redirect(e, to) ==
  IF e.k # "call" THEN e
  ELSE Call(IF e.f \in DOMAIN to THEN to[e.f] ELSE e.f, Each(LAMBDA a : Redirect(a, to), e.args))
MapExpressions(b, to) ==
  Each(LAMBDA s : Modify(s, LAMBDA x : MapExpressions(x, to), LAMBDA e : Redirect(e, to)), b)
EquivalentFunctionCombiner(b) == MapExpressions(b, Duplicates(b))

-----------------------------------------------------------------------------
(* ExpressionInliner *)

(* InlinableExpressionFunctionFinder.                                      *)
InlinableExpressionFunctions(b) ==
  {f \in Functions(b) :
     /\ Len(f.rets) = 1 /\ Len(f.body) = 1
     /\ f.body[1].k = "set" /\ f.body[1].vars = f.rets
     /\ f.rets[1] \notin Variables(f.body[1].val[1])
     /\ f.n \notin Callees(Within(f.body[1].val[1]))}

RECURSIVE Substitute(_, _)
Substitute(e, to) ==
  CASE e.k = "id" /\ e.n \in DOMAIN to -> to[e.n]
    [] e.k = "call" -> [e EXCEPT !.args = Each(LAMBDA a : Substitute(a, to), @)]
    [] OTHER -> e

Substitutable(f, args) ==
  \A i \in DOMAIN args : /\ Movable(args[i])
                         /\ References(f.body, f.params[i]) <= 1 \/ CodeCost(args[i]) <= 1

RECURSIVE InlineExpression(_, _)
InlineExpression(e, funs) ==
  IF e.k # "call" THEN e
  ELSE LET args == Each(LAMBDA a : InlineExpression(a, funs), e.args)
           hit  == {f \in funs : f.n = e.f}
           f    == CHOOSE f \in hit : TRUE
       IN  IF hit = {} \/ ~ Substitutable(f, args) THEN Call(e.f, args)
           ELSE Substitute(f.body[1].val[1],
                  [n \in Names(f.params) |-> args[SelectInSeq(f.params, LAMBDA x : x = n)]])

(* The functions are looked up as they are when they are inlined; one that *)
(* came earlier in the code has been visited itself.                       *)
RECURSIVE InlineIn(_, _)
InlineIn(b, funs) ==
  LET Updated(fs, s) == {IF f.n = s.n THEN s ELSE f : f \in fs}
      Inner(x, fs) == InlineIn(x, fs)
      Step(s, fs) == LET r == Visit(s, fs, Inner, LAMBDA e, gs : Keep(InlineExpression(e, gs), gs))
                     IN  IF s.k = "fun" THEN [r EXCEPT !.c = Updated(@, r.x)] ELSE r
  IN  Thread(LAMBDA s, fs : One(Step(s, fs)), b, funs)
ExpressionInliner(b) == InlineIn(b, InlinableExpressionFunctions(b)).x

-----------------------------------------------------------------------------
(* SSAValueTracker: variables that are declared with one value and never   *)
(* assigned.                                                               *)
SSAValues(b) ==
  LET ss == Statements(b)
      lets == {s \in Kind(ss, "let") : Len(s.vars) = 1 \/ s.val = <<>>}
      all == UNION {Names(s.vars) : s \in lets} \cup UNION {Names(f.rets) : f \in Kind(ss, "fun")}
  IN  [n \in all \ Assigned(b) |->
         LET s == {x \in lets : n \in Names(x.vars)}
         IN  IF \E x \in s : x.val # <<>> THEN (CHOOSE x \in s : TRUE).val[1] ELSE Lit(0)]

(* LoopInvariantCodeMotion.                                                *)

CanBePromoted(s, here, ssa, fx) ==
  /\ Names(s.vars) \subseteq ssa
  /\ s.val # <<>> => /\ Variables(s.val[1]) \subseteq ssa \ here
                     /\ ExpressionEffects(s.val[1], fx).movable

(* What leaves a block of a loop, and what stays.                          *)
Promote(b, ssa, fx) ==
  Thread(LAMBDA s, c : CASE s.k # "let" -> [x |-> <<s>>, c |-> c]
                         [] s.k = "let" /\ CanBePromoted(s, c.here, ssa, fx) ->
                              [x |-> <<>>, c |-> [c EXCEPT !.out = Append(@, s)]]
                         [] OTHER -> [x |-> <<s>>, c |-> [c EXCEPT !.here = @ \cup Names(s.vars)]],
         b, [here |-> {}, out |-> <<>>])

RECURSIVE MoveInvariants(_, _, _)
MoveInvariants(b, ssa, fx) ==
  LET Rewrite(s) ==
        LET post == Promote(s.post, ssa, fx)
            body == Promote(s.body, ssa, fx)
        IN  IF s.k # "for" THEN <<s>>
            ELSE post.c.out \o body.c.out \o <<[s EXCEPT !.post = post.x, !.body = body.x]>>
  IN  Replacing(Below(b, LAMBDA x : MoveInvariants(x, ssa, fx)), Rewrite)
LoopInvariantCodeMotion(b) == MoveInvariants(b, DOMAIN SSAValues(b), FunctionEffects(b))

-----------------------------------------------------------------------------
(* FullInliner.  c holds the dispenser, the functions as they are now,     *)
(* their sizes, those called once, and the variables that hold constants.  *)

ShallInline(call, site, c) ==
  LET f == c.funs[call.f]
      size == c.sizes[call.f]
      constant == \E a \in Range(call.args) : a.k = "lit" \/ (a.k = "id" /\ a.n \in c.constants)
  IN  /\ call.k = "call" /\ call.f # site /\ call.f \in DOMAIN c.funs
      /\ call.f \notin c.noInline
      /\ References(f.body, call.f) = 0
      /\ \/ size <= Tiny
         \/ /\ c.sizes[site] <= Big
            /\ call.f \in c.singleUse \/ size < Small \/ (constant /\ size < SmallIfConstant)

(* BodyCopier: a copy of a block whose variables have new names.           *)
RECURSIVE CopyBlock(_, _)
CopyBlock(b, c0) ==
  LET E(e, c) == Keep(Rename(e, c.to), c)
      Copy(s, c) ==
        CASE s.k = "let" ->
               LET ns == NewNames(c.d, s.vars)
                   to == [n \in Names(s.vars) |-> ns.x[SelectInSeq(s.vars, LAMBDA x : x = n)]] @@ c.to
               IN  [x |-> Let(ns.x, Each(LAMBDA e : Rename(e, to), s.val)), c |-> [d |-> ns.c, to |-> to]]
          [] s.k = "set" -> Keep(Set(Translated(s.vars, c.to), Rename(s.val[1], c.to)), c)
          [] OTHER -> Visit(s, c, CopyBlock, E)
  IN  Thread(LAMBDA s, c : One(Copy(s, c)), b, c0)

PerformInline(s, call, site, c) ==
  LET f  == c.funs[call.f]
      ns == NewNames(c.d, f.params \o f.rets)
      n(i) == ns.x[i]
      to == [v \in Names(f.params \o f.rets) |->
               n(SelectInSeq(f.params \o f.rets, LAMBDA x : x = v))]
      body == CopyBlock(f.body, [d |-> ns.c, to |-> to])
      ret(i) == Id(to[f.rets[i]])
  IN  [x |-> [i \in DOMAIN f.params |-> Let(<<n(i)>>, <<call.args[i]>>)]
             \o [i \in DOMAIN f.rets |-> Let(<<to[f.rets[i]]>>, <<Lit(0)>>)]
             \o body.x
             \o IF s.k = "do" THEN <<>>
                ELSE [i \in DOMAIN s.vars |-> [s EXCEPT !.vars = <<@[i]>>, !.val = <<ret(i)>>]],
       c |-> [c EXCEPT !.d = body.c.d, !.sizes[site] = @ + c.sizes[call.f]]]

(* InlineModifier.                                                         *)
RECURSIVE HandleBlock(_, _, _)
HandleBlock(b, site, c0) ==
  LET Inner(x, c) == HandleBlock(x, site, c)
      Step(s, c) ==
        LET r == Visit(s, c, Inner, Keep)
            e == Expressions(r.x)
        IN  IF s.k \in {"do", "set", "let"} /\ e # <<>> /\ e[1].k = "call" /\ ShallInline(e[1], site, r.c)
            THEN PerformInline(r.x, e[1], site, r.c) ELSE One(r)
  IN  Thread(Step, b, c0)

(* The code outside of functions first, then every function.               *)
FullInliner(b, d) ==
  LET top   == Kind(b, "fun")
      ssa   == SSAValues(b)
      funs  == [n \in {f.n : f \in top} |-> CHOOSE f \in top : f.n = n]
      start == [d |-> d, funs |-> funs,
                sizes |-> Put([n \in DOMAIN funs |-> CodeSize(funs[n].body)], Main, CodeSize(b)),
                noInline |-> {f.n : f \in {g \in top : ContainsLeave(g)}},
                singleUse |-> {f.n : f \in {g \in top : References(b, g.n) = 1}},
                constants |-> {n \in DOMAIN ssa : ssa[n].k = "lit"}]
      main  == Thread(LAMBDA s, c : IF s.k # "block" THEN [x |-> <<s>>, c |-> c]
                                    ELSE LET r == HandleBlock(s.body, Main, c)
                                         IN  [x |-> <<Block(r.x)>>, c |-> r.c], b, start)
      functions ==
        Thread(LAMBDA s, c :
                 IF s.k # "fun" THEN [x |-> <<s>>, c |-> c]
                 ELSE LET r == HandleBlock(s.body, s.n, c)
                          f == [s EXCEPT !.body = r.x]
                      IN  [x |-> <<f>>, c |-> [r.c EXCEPT !.funs[s.n] = f, !.sizes[s.n] = CodeSize(r.x)]],
               main.x, main.c)
  IN  [x |-> functions.x, c |-> functions.c.d]

-----------------------------------------------------------------------------
(* StackCompressor *)

(* eliminateVariables: the cheapest n candidates.  (Candidates that        *)
(* mention one already chosen were meant to end the selection; the code    *)
(* asks when their references are forgotten.)                              *)
EliminateVariables(s, n, noMSize) ==
  LET c == Analyze(s, Context("select", NoFunctions)).c
      price(x) == c.cost[x] * At(c.uses, x)
      order == SortSeq(Listed(DOMAIN c.cost), LAMBDA x, y : price(x) < price(y))
      chosen == {order[i] : i \in 1 .. IF n < Len(order) THEN n ELSE Len(order)}
      repeated == Analyze(s, Materialising(s.body, chosen)).x
  IN  [s EXCEPT !.body = PruneUntilStabilised(repeated.body, NoFunctions, noMSize)]

(* One round, for the surplus of stack slots of the functions that have one. *)
CompressStack(b, surplus) ==
  LET noMSize == ~ ContainsMSize(b)
      in(s) == IF s.k = "fun" THEN s.n ELSE Main
  IN  Each(LAMBDA s : IF in(s) \in DOMAIN surplus
                      THEN EliminateVariables(s, surplus[in(s)], noMSize) ELSE s, b)

-----------------------------------------------------------------------------
(* allSteps with stepNameToAbbreviationMap: what a step makes of the code b *)
(* and of the name dispenser d.                                            *)
AllSteps(o, b, d) ==
  LET only(x) == Keep(x, d) IN
  CASE o = "f" -> only(BlockFlattener(b))
    [] o = "l" -> only(CircularReferencesPruner(b))
    [] o = "c" -> only(CommonSubexpressionEliminator(b))
    [] o = "C" -> only(ConditionalSimplifier(b))
    [] o = "U" -> only(ConditionalUnsimplifier(b))
    [] o = "n" -> only(ControlFlowSimplifier(b))
    [] o = "D" -> only(DeadCodeEliminator(b))
    [] o = "v" -> only(EquivalentFunctionCombiner(b))
    [] o = "e" -> only(ExpressionInliner(b))
    [] o = "j" -> only(ExpressionJoiner(b))
    [] o = "s" -> only(ExpressionSimplifier(b))
    [] o = "x" -> ExpressionSplitter(b, d)
    [] o = "I" -> only(ForLoopConditionIntoBody(b))
    [] o = "O" -> only(ForLoopConditionOutOfBody(b))
    [] o = "o" -> only(ForLoopInitRewriter(b))
    [] o = "i" -> FullInliner(b, d)
    [] o = "g" -> only(FunctionGrouper(b))
    [] o = "h" -> only(FunctionHoister(b))
    [] o = "T" -> only(LiteralRematerialiser(b))
    [] o = "L" -> only(LoadResolver(b))
    [] o = "M" -> only(LoopInvariantCodeMotion(b))
    [] o = "r" -> only(RedundantAssignEliminator(b))
    [] o = "m" -> only(Rematerialiser(b))
    [] o = "V" -> only(SSAReverser(b))
    [] o = "a" -> SSATransform(b, d)
    [] o = "t" -> only(StructuralSimplifier(b))
    [] o = "u" -> only(UnusedPruner(b))
    [] o = "d" -> only(VarDeclInitializer(b))
=============================================================================
