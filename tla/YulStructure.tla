---------------------------- MODULE YulStructure ----------------------------
(***************************************************************************)
(* The optimiser steps that only rearrange blocks, branches, loops and     *)
(* function definitions.  Each maps a block to a block.                    *)
(***************************************************************************)
EXTENDS YulSyntax

Discard(e) == Do(Op("pop", <<e>>))

RECURSIVE BlockFlattener(_)
BlockFlattener(b) ==
  Replacing(Below(b, LAMBDA x : BlockFlattener(x)),
            LAMBDA s : IF s.k = "block" THEN s.body ELSE <<s>>)

(* What is left of a block that ends at its i-th statement.                *)
DropUnreachable(b, i) ==
  SubSeq(b, 1, i) \o SelectSeq(SubSeq(b, i + 1, Len(b)), LAMBDA s : s.k = "fun")

RECURSIVE DeadCodeEliminator(_)
DeadCodeEliminator(b) ==
  LET end  == SelectInSeq(b, LAMBDA s : ControlFlowKind(s) # "flow out")
      kept == IF end = 0 THEN b ELSE DropUnreachable(b, end)
  IN  Below(kept, LAMBDA x : DeadCodeEliminator(x))

-----------------------------------------------------------------------------
(* ControlFlowSimplifier *)

(* removeEmptyDefaultFromSwitch and removeEmptyCasesFromSwitch.            *)
KeptCases(cs) ==
  LET c == SelectSeq(cs, LAMBDA x : x.v # <<>> \/ x.body # <<>>)
  IN  IF \E i \in DOMAIN c : c[i].v = <<>> THEN c
      ELSE SelectSeq(c, LAMBDA x : x.body # <<>>)

(* Whether the body of a loop runs at most once: it ends the loop, and no  *)
(* other break or continue belongs to the loop.                            *)
RunsOnce(body) ==
  LET w == Walk(body, 0)
      jumps(k) == Cardinality({i \in DOMAIN w : w[i].s.k = k /\ w[i].depth = 0})
      last == IF body = <<>> THEN "flow out" ELSE ControlFlowKind(Last(body))
  IN  /\ last \in {"break", "terminate", "leave"}
      /\ jumps("continue") = 0
      /\ jumps("break") = IF last = "break" THEN 1 ELSE 0

RECURSIVE ControlFlowSimplifier(_)
ControlFlowSimplifier(b) ==
  LET Visited(s) ==
        LET t == Modify(s, LAMBDA x : ControlFlowSimplifier(x), Same)
        IN  CASE t.k = "for" /\ RunsOnce(t.body) ->
                   If(t.e, IF Last(t.body).k = "break" THEN Front(t.body) ELSE t.body)
              [] t.k = "fun" /\ t.body # <<>> /\ Last(t.body).k = "leave" ->
                   [t EXCEPT !.body = Front(@)]
              [] OTHER -> t
      Simplify(s) ==
        LET cs == KeptCases(s.cases)
        IN  CASE s.k = "if" /\ s.body = <<>> -> <<Discard(s.e)>>
              [] s.k = "switch" /\ cs = <<>> -> <<Discard(s.e)>>
              [] s.k = "switch" /\ Len(cs) = 1 ->
                   ControlFlowSimplifier(
                     IF cs[1].v = <<>> THEN <<Discard(s.e), Block(cs[1].body)>>
                     ELSE <<If(Op("eq", <<Lit(cs[1].v[1]), s.e>>), cs[1].body)>>)
              [] s.k = "switch" -> <<Visited([s EXCEPT !.cases = cs])>>
              [] OTHER -> <<Visited(s)>>
  IN  Replacing(b, Simplify)

-----------------------------------------------------------------------------
(* ConditionalSimplifier and ConditionalUnsimplifier *)

(* An if on a variable that does not come back.                            *)
TerminatingBranch(s) ==
  s.k = "if" /\ s.e.k = "id" /\ s.body # <<>> /\ ControlFlowKind(Last(s.body)) # "flow out"

Constant(n, v) == Set(<<n>>, Lit(v))

RECURSIVE ConditionalSimplifier(_)
ConditionalSimplifier(b) ==
  LET Visited(s) ==
        IF s.k = "switch" /\ s.e.k = "id"
        THEN [s EXCEPT !.cases = Each(LAMBDA c : Case(c.v, ConditionalSimplifier(
                 IF c.v = <<>> THEN c.body ELSE <<Constant(s.e.n, c.v[1])>> \o c.body)), @)]
        ELSE Modify(s, LAMBDA x : ConditionalSimplifier(x), Same)
  IN  Replacing(b, LAMBDA s : IF TerminatingBranch(Visited(s))
                              THEN <<Visited(s), Constant(s.e.n, 0)>> ELSE <<Visited(s)>>)

RECURSIVE ConditionalUnsimplifier(_)
ConditionalUnsimplifier(b) ==
  LET Visited(s) ==
        IF s.k = "switch" /\ s.e.k = "id"
        THEN [s EXCEPT !.cases = Each(LAMBDA c : Case(c.v, ConditionalUnsimplifier(
                 IF c.v # <<>> /\ c.body # <<>> /\ c.body[1] = Constant(s.e.n, c.v[1])
                 THEN Tail(c.body) ELSE c.body)), @)]
        ELSE Modify(s, LAMBDA x : ConditionalUnsimplifier(x), Same)
  IN  ReplacingPairs(Each(Visited, b),
            LAMBDA s, t : IF TerminatingBranch(s) /\ t = Constant(s.e.n, 0) THEN <<s>> ELSE <<>>)

-----------------------------------------------------------------------------
(* StructuralSimplifier *)

RECURSIVE StructuralSimplifier(_)
StructuralSimplifier(b) ==
  LET Taken(cs, v) ==
        LET hit == SelectInSeq(cs, LAMBDA c : c.v = <<v>>)
            default == SelectInSeq(cs, LAMBDA c : c.v = <<>>)
        IN  CASE hit # 0 -> <<Block(cs[hit].body)>>
              [] default # 0 -> <<Block(cs[default].body)>>
              [] OTHER -> <<>>
      Simplify(s) ==
        CASE s.k = "if" /\ s.e.k = "lit" ->
               StructuralSimplifier(IF s.e.v # 0 THEN s.body ELSE <<>>)
          [] s.k = "switch" /\ s.e.k = "lit" -> StructuralSimplifier(Taken(s.cases, s.e.v))
          [] s.k = "for" /\ s.e = Lit(0) -> StructuralSimplifier(s.pre)
          [] OTHER -> <<Modify(s, LAMBDA x : StructuralSimplifier(x), Same)>>
  IN  Replacing(b, Simplify)

-----------------------------------------------------------------------------
(* Loops *)

RECURSIVE ForLoopConditionIntoBody(_)
ForLoopConditionIntoBody(b) ==
  LET Into(s) ==
        IF s.k = "for" /\ s.e.k = "call"
        THEN [s EXCEPT !.e = Lit(1),
                       !.body = <<If(Op("iszero", <<s.e>>), <<Break>>)>> \o @]
        ELSE s
  IN  Below(Each(Into, b), LAMBDA x : ForLoopConditionIntoBody(x))

(* A loop without a condition that starts with a movable one for leaving.  *)
ConditionInBody(s) ==
  /\ s.k = "for" /\ s.e.k = "lit" /\ s.e.v # 0 /\ s.body # <<>> /\ s.body[1].k = "if"
  /\ s.body[1].body # <<>> /\ s.body[1].body[1] = Break
  /\ Movable(s.body[1].e)

RECURSIVE ForLoopConditionOutOfBody(_)
ForLoopConditionOutOfBody(b) ==
  LET Negate(e) == IF IsOp(e, "iszero") THEN e.args[1] ELSE Op("iszero", <<e>>)
      Out(s) == IF ConditionInBody(s)
                THEN [s EXCEPT !.e = Negate(s.body[1].e), !.body = Tail(@)] ELSE s
  IN  Each(Out, Below(b, LAMBDA x : ForLoopConditionOutOfBody(x)))

RECURSIVE ForLoopInitRewriter(_)
ForLoopInitRewriter(b) ==
  Replacing(Below(b, LAMBDA x : ForLoopInitRewriter(x)),
            LAMBDA s : IF s.k = "for" THEN s.pre \o <<[s EXCEPT !.pre = <<>>]>> ELSE <<s>>)

RECURSIVE VarDeclInitializer(_)
VarDeclInitializer(b) ==
  Replacing(Below(b, LAMBDA x : VarDeclInitializer(x)),
            LAMBDA s : IF s.k = "let" /\ s.val = <<>>
                       THEN Each(LAMBDA n : Let(<<n>>, <<Lit(0)>>), s.vars)
                       ELSE <<s>>)

-----------------------------------------------------------------------------
(* FunctionHoister and FunctionGrouper *)

RECURSIVE WithoutFunctions(_)
WithoutFunctions(b) ==
  RemoveEmptyBlocks(Replacing(b, LAMBDA s :
    IF s.k = "fun" THEN <<>> ELSE <<Modify(s, LAMBDA x : WithoutFunctions(x), Same)>>))

RECURSIVE HoistedFunctions(_)
HoistedFunctions(b) ==
  Replacing(b, LAMBDA s :
    Replacing(Blocks(s), LAMBDA x : HoistedFunctions(x)) \o
    IF s.k = "fun" THEN <<[s EXCEPT !.body = WithoutFunctions(@)]>> ELSE <<>>)

FunctionHoister(b) == WithoutFunctions(b) \o HoistedFunctions(b)

AlreadyGrouped(b) ==
  b # <<>> /\ b[1].k = "block" /\ \A i \in 2 .. Len(b) : b[i].k = "fun"

FunctionGrouper(b) ==
  IF AlreadyGrouped(b) THEN b
  ELSE <<Block(SelectSeq(b, LAMBDA s : s.k # "fun"))>> \o SelectSeq(b, LAMBDA s : s.k = "fun")
=============================================================================
