---------------------------- MODULE YulVariables ----------------------------
(***************************************************************************)
(* The optimiser steps that introduce, rename and remove variables.  A     *)
(* step that needs fresh names threads the name dispenser through the      *)
(* block and returns it beside the new block.                              *)
(***************************************************************************)
EXTENDS YulSyntax

CONSTANT NestingLimit      \* loops nested as deep as this are analysed once (6)

(* The elements of a set in some order.                                    *)
Listed(S) == FoldSet(LAMBDA x, s : Append(s, x), <<>>, S)

Put(f, k, v)      == (k :> v) @@ f
Without(f, names) == Restrict(f, DOMAIN f \ names)

RECURSIVE Rename(_, _)
Rename(e, to) ==
  CASE e.k = "id" /\ e.n \in DOMAIN to -> Id(to[e.n])
    [] e.k = "call" -> [e EXCEPT !.args = Each(LAMBDA a : Rename(a, to), @)]
    [] OTHER -> e

Translated(vars, to) == Each(LAMBDA n : IF n \in DOMAIN to THEN to[n] ELSE n, vars)

(* NameDispenser: the hint itself if it is free, else the hint with the    *)
(* next number that makes it free.                                         *)
NewName(d, hint) ==
  LET illegal(n) == n = Main \/ n \in d.used \/ IsBuiltin(n)
      next == CHOOSE i \in d.counter + 1 .. d.counter + Cardinality(d.used) + 1 :
                /\ ~ illegal(Append(hint, i))
                /\ \A j \in d.counter + 1 .. i - 1 : illegal(Append(hint, j))
      name == IF illegal(hint) THEN Append(hint, next) ELSE hint
  IN  [x |-> name, c |-> [used    |-> d.used \cup {name},
                          counter |-> IF illegal(hint) THEN next ELSE d.counter]]
NewNames(d, hints) == Thread(LAMBDA n, e : One(NewName(e, n)), hints, d)
Dispenser(b) == [used |-> Declared(b), counter |-> 0]

-----------------------------------------------------------------------------
(* ExpressionSplitter *)

RECURSIVE SplitCall(_, _), ExpressionSplitter(_, _)

(* outlineExpression; c holds the dispenser and the statements to prefix.  *)
Outline(e, c) ==
  LET v == SplitCall(e, c)
      n == NewName(v.c.d, Main)
  IN  IF e.k = "id" THEN Keep(e, c)
      ELSE [x |-> Id(n.x), c |-> [d |-> n.c, pre |-> Append(v.c.pre, Let(<<n.x>>, <<v.x>>))]]

(* The arguments of a call, from right to left.                            *)
SplitArguments(args, c) ==
  LET r == Thread(LAMBDA a, d : One(Outline(a, d)), Reverse(args), c)
  IN  [r EXCEPT !.x = Reverse(@)]

SplitCall(e, c) ==
  IF e.k # "call" THEN Keep(e, c)
  ELSE LET r == SplitArguments(e.args, c) IN [r EXCEPT !.x = Call(e.f, @)]

ExpressionSplitter(b, d) ==
  LET Inner(x, c) == LET r == ExpressionSplitter(x, c.d) IN [x |-> r.x, c |-> [c EXCEPT !.d = r.c]]
      Split(s, dd) ==
        LET E(e, c) == CASE s.k \in {"if", "switch"} -> Outline(e, c)
                         [] s.k = "for" -> Keep(e, c)
                         [] OTHER -> SplitCall(e, c)
            r == Visit(s, [d |-> dd, pre |-> <<>>], Inner, E)
        IN  [x |-> Append(r.c.pre, r.x), c |-> r.c.d]
  IN  Thread(Split, b, d)

-----------------------------------------------------------------------------
(* ExpressionJoiner *)

(* isLatestStatementVarDeclJoinable.                                       *)
Joinable(c, n, refs) ==
  /\ c.latest # 0
  /\ LET s == c.done[c.latest] IN s.k = "let" /\ s.vars = <<n>> /\ s.val # <<>>
  /\ refs[n] = 1

(* c holds the statements of the block so far and which of them is the     *)
(* latest one (0: none); a statement that was joined is an empty block.    *)
RECURSIVE JoinExpression(_, _, _)
JoinExpression(e, c, refs) ==
  CASE e.k = "id" /\ Joinable(c, e.n, refs) ->
         [x |-> c.done[c.latest].val[1],
          c |-> [done |-> [c.done EXCEPT ![c.latest] = Block(<<>>)], latest |-> c.latest - 1]]
    [] e.k = "call" /\ e.args # <<>> ->
         LET hard  == SelectLastInSeq(e.args, LAMBDA a : a.k = "call")
             first == IF hard = 0 THEN 1 ELSE hard
             r == Thread(LAMBDA a, d : One(JoinExpression(a, d, refs)),
                         SubSeq(e.args, first, Len(e.args)), c)
         IN  [r EXCEPT !.x = Call(e.f, SubSeq(e.args, 1, first - 1) \o @)]
    [] OTHER -> Keep(e, c)

RECURSIVE JoinBlock(_, _)
JoinBlock(b, refs) ==
  LET Inner(x, c) == [x |-> JoinBlock(x, refs), c |-> [c EXCEPT !.latest = 0]]
      E(e, c)     == JoinExpression(e, c, refs)
      join[i \in 0 .. Len(b)] ==
        IF i = 0 THEN [done |-> <<>>, latest |-> 0]
        ELSE LET p == join[i - 1]
                 r == Visit(b[i], p, Inner, E)
             IN  [done |-> Append(r.c.done, r.x), latest |-> i]
  IN  RemoveEmptyBlocks(join[Len(b)].done)

ReferenceCounts(b) ==
  LET es == ExpressionsIn(b)
  IN  [n \in Assigned(b) \cup {e.n : e \in Kind(es, "id")} \cup Callees(es) |-> References(b, n)]
ExpressionJoiner(b) == JoinBlock(b, ReferenceCounts(b))

-----------------------------------------------------------------------------
(* SSATransform *)

(* Every value that is assigned gets a variable of its own.                *)
RECURSIVE IntroduceSSA(_, _, _)
IntroduceSSA(b, V, d) ==
  LET Inner(x, e) == IntroduceSSA(x, V, e)
      Copies(s, e) ==
        LET ns == NewNames(e, s.vars)
            copy(i) == [s EXCEPT !.vars = <<@[i]>>, !.val = <<Id(ns.x[i])>>]
        IN  [x |-> <<Let(ns.x, s.val)>> \o [i \in DOMAIN s.vars |-> copy(i)], c |-> ns.c]
  IN  Thread(LAMBDA s, e : IF s.k = "set" \/ (s.k = "let" /\ Names(s.vars) \cap V # {})
                           THEN Copies(s, e) ELSE One(Visit(s, e, Inner, Keep)), b, d)

(* ... and so does every value at the start of a function and behind a     *)
(* join of the control flow.                                               *)
RECURSIVE IntroduceControlFlowSSA(_, _, _)
IntroduceControlFlowSSA(b, V, c0) ==
  LET Inner(x, c) == IntroduceControlFlowSSA(x, V, c)
      Statement(s, c) ==
        CASE s.k = "let" ->
               Keep(s, [c EXCEPT !.declared = @ \cup (Names(s.vars) \cap V),
                                 !.scope = @ \cup (Names(s.vars) \cap V)])
          [] s.k = "set" -> Keep(s, [c EXCEPT !.assigned = @ \cup (Names(s.vars) \cap V)])
          [] s.k = "for" ->
               LET changed == (Assigned(s.body) \cup Assigned(s.post)) \cap c.scope
                   body == Inner(s.body, [c EXCEPT !.reassign = @ \cup changed])
                   post == Inner(s.post, body.c)
               IN  [x |-> [s EXCEPT !.body = body.x, !.post = post.x], c |-> post.c]
          [] s.k = "fun" ->
               LET ps == Names(s.params) \cap V
                   r  == Inner(s.body, [c EXCEPT !.scope = ps, !.reassign = ps])
               IN  [x |-> [s EXCEPT !.body = r.x],
                    c |-> [r.c EXCEPT !.scope = c.scope, !.reassign = c.reassign]]
          [] OTHER -> Visit(s, c, Inner, Keep)
      Step(s, c) ==
        LET olds == Listed(c.reassign)
            ns   == NewNames(c.d, olds)
            r    == Statement(s, [c EXCEPT !.d = ns.c, !.reassign = {},
                                           !.assigned = @ \cup c.reassign])
        IN  [r EXCEPT !.x = Append([i \in DOMAIN olds |-> Let(<<ns.x[i]>>, <<Id(olds[i])>>)], @)]
      end == Thread(Step, b, [c0 EXCEPT !.declared = {}, !.assigned = {}])
  IN  [x |-> end.x,
       c |-> [c0 EXCEPT !.d = end.c.d, !.scope = end.c.scope \ end.c.declared,
                        !.reassign = (end.c.reassign \cup end.c.assigned) \ end.c.declared]]

(* What is known of the current values where a loop may change the names.  *)
ForgetInLoop(cur, names) == Without(cur, names)

(* Uses of the variables in V become uses of their current values.         *)
RECURSIVE PropagateValues(_, _, _)
PropagateValues(b, V, c0) ==
  LET Inner(x, c) == PropagateValues(x, V, c)
      E(e, c) == Keep(Rename(e, c.cur), c)
      Know(c, n, v) == [cur |-> Put(c.cur, n, v), clear |-> c.clear \cup {n}]
      Step(s, c) ==
        LET r == Visit(s, c, Inner, E).x
            value == IF r.k \in {"let", "set"} /\ r.val # <<>> THEN r.val[1] ELSE Lit(0)
        IN  CASE s.k \in {"let", "set"} ->
                   Keep(r, CASE Len(s.vars) = 1 /\ value.k = "id" /\ s.vars[1] \in V ->
                                  Know(c, s.vars[1], value.n)
                             [] /\ Len(s.vars) = 1 /\ value.k = "id" /\ s.vars[1] \notin V
                                /\ s.k = "let" /\ value.n \in V -> Know(c, value.n, s.vars[1])
                             [] OTHER -> c)
              [] s.k = "for" ->
                   LET c1 == [c EXCEPT !.cur = ForgetInLoop(@, Assigned(s.body) \cup Assigned(s.post))]
                       body == Inner(s.body, c1)
                       post == Inner(s.post, body.c)
                   IN  Keep(For(s.pre, Rename(s.e, c1.cur), post.x, body.x), post.c)
              [] OTHER -> Visit(s, c, Inner, E)
      end == Thread(LAMBDA s, c : One(Step(s, c)), b, [c0 EXCEPT !.clear = {}])
  IN  [x |-> end.x, c |-> [cur |-> Without(end.c.cur, end.c.clear), clear |-> c0.clear]]

SSATransform(b, d) ==
  LET V    == Assigned(b)
      ssa  == IntroduceSSA(b, V, d)
      flow == IntroduceControlFlowSSA(ssa.x, V, [d |-> ssa.c, scope |-> {}, reassign |-> {},
                                                 assigned |-> {}, declared |-> {}])
  IN  [x |-> PropagateValues(flow.x, V, [cur |-> [n \in {} |-> Main], clear |-> {}]).x, c |-> flow.c.d]

RECURSIVE ReverseIn(_, _)
ReverseIn(b, count) ==
  LET Swap(s, t) ==
        IF ~ /\ s.k = "let" /\ Len(s.vars) = 1 /\ s.val # <<>>
             /\ t.k \in {"let", "set"} /\ Len(t.vars) = 1 /\ t.val = <<Id(s.vars[1])>>
        THEN <<>>
        ELSE CASE t.k = "set" /\ t.vars = s.vars -> <<s>>
               [] t.k = "set" \/ count[t.vars[1]] > count[s.vars[1]] ->
                    <<[t EXCEPT !.val = s.val], Let(s.vars, <<Id(t.vars[1])>>)>>
               [] OTHER -> <<>>
  IN  ReplacingPairs(Below(b, LAMBDA x : ReverseIn(x, count)), Swap)
SSAReverser(b) ==
  ReverseIn(b, [n \in Declared(b) |-> AssignmentCount(b, n)])
=============================================================================
