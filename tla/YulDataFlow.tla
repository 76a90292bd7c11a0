---------------------------- MODULE YulDataFlow ----------------------------
(***************************************************************************)
(* The data flow analyser of the Yul optimiser and the steps built on it.  *)
(* The analyser walks the code once and keeps, for the place it is at, the *)
(* values of variables and what memory and storage hold; a step is how it  *)
(* rewrites the expressions it meets, which c.pass selects.                *)
(*                                                                         *)
(* value maps a variable to the expression it holds and the loop depth it  *)
(* was assigned at, refs to the variables that expression mentions;        *)
(* storage and memory map a variable, the key, to one that holds what is   *)
(* there.                                                                  *)
(***************************************************************************)
EXTENDS RuleList, YulPruning

Nothing == [n \in {} |-> Main]

Context(pass, fx) ==
  [pass |-> pass, fx |-> fx, value |-> Nothing, refs |-> Nothing, depth |-> 0,
   storage |-> Nothing, memory |-> Nothing,
   mload |-> FALSE, counts |-> Nothing, always |-> {}, cost |-> Nothing, uses |-> Nothing]

Values(c) == [n \in DOMAIN c.value |-> c.value[n].e]
At(f, n)  == IF n \in DOMAIN f THEN f[n] ELSE 0
AddTo(f, n, i) == Put(f, n, At(f, n) + i)

-----------------------------------------------------------------------------
(* KnowledgeBase *)

KnownToBeDifferent(c, a, b) ==
  LET simple(o) == KnowledgeSimplify(Op(o, <<Id(a), Id(b)>>), Values(c))
      sub == simple("sub")
      eq  == simple("eq")
  IN  IF sub.k = "lit" THEN sub.v # 0 ELSE eq.k = "lit" /\ eq.v = 0

(* knownToBeDifferentByAtLeast32: the words at the two places are apart.   *)
KnownToBeApart(c, a, b) ==
  LET sub == KnowledgeSimplify(Op("sub", <<Id(a), Id(b)>>), Values(c))
  IN  sub.k = "lit" /\ sub.v >= WordSize /\ sub.v <= Modulus - WordSize

-----------------------------------------------------------------------------
(* What is forgotten *)

Erase(f, names) == Restrict(f, {k \in DOMAIN f : k \notin names /\ f[k] \notin names})

(* clearValues: the variables, and those whose values mention them.  (The  *)
(* code may go on to what mentions those, depending on the order of names; *)
(* here as little as possible is forgotten.)                               *)
ClearValues(c, names) ==
  LET all == names \cup {n \in DOMAIN c.refs : c.refs[n] \cap names # {}}
  IN  [c EXCEPT !.storage = Erase(@, names), !.memory = Erase(@, names),
                !.value = Without(@, all), !.refs = Without(@, all)]

(* clearKnowledgeIfInvalidated, given the effects of the code.             *)
ClearKnowledge(c, fx) ==
  [c EXCEPT !.storage = IF fx.storage THEN Nothing ELSE @,
            !.memory  = IF fx.memory THEN Nothing ELSE @]
ClearFor(c, e)      == ClearKnowledge(c, ExpressionEffects(e, c.fx))
ClearForBlock(c, b) == ClearKnowledge(c, BlockEffects(b, c.fx))

(* joinKnowledge.                                                          *)
Join(new, old) == Restrict(new, {k \in DOMAIN new : k \in DOMAIN old /\ old[k] = new[k]})
JoinKnowledge(c, old) ==
  [c EXCEPT !.storage = Join(@, old.storage), !.memory = Join(@, old.memory)]

-----------------------------------------------------------------------------
(* What is learnt *)

Loads(e, o)  == IsOp(e, o) /\ e.args[1].k = "id"
Stores(s, o) == s.k = "do" /\ IsOp(s.e, o) /\ s.e.args[1].k = "id" /\ s.e.args[2].k = "id"

HandleAssignment(vars, val, c0) ==
  LET names  == Names(vars)
      c      == ClearValues(c0, names)
      single == val # <<>> /\ Len(vars) = 1
      e      == val[1]
      n      == vars[1]
      mentioned == IF val = <<>> THEN {} ELSE Variables(e)
      known(v)  == [e |-> v, depth |-> c.depth]
      valued == CASE val = <<>> -> [m \in names |-> known(Lit(0))] @@ c.value
                  [] single /\ ExpressionEffects(e, c.fx).movable /\ n \notin mentioned ->
                       Put(c.value, n, known(e))
                  [] OTHER -> c.value
      learn(f, o) == IF single /\ n \notin mentioned /\ Loads(e, o) THEN Put(f, e.args[1].n, n) ELSE f
  IN  [c EXCEPT !.value = valued, !.refs = [m \in names |-> mentioned] @@ @,
                !.memory = learn(@, "mload"), !.storage = learn(@, "sload")]

StoreStorage(c, key, val) ==
  LET kept == {k \in DOMAIN c.storage : c.storage[k] = val \/ KnownToBeDifferent(c, key, k)}
  IN  [c EXCEPT !.storage = Put(Restrict(@, kept), key, val)]

StoreMemory(c, key, val) ==
  LET kept == {k \in DOMAIN c.memory : KnownToBeApart(c, key, k)}
  IN  [c EXCEPT !.memory = Put(Restrict(@, kept), key, val)]

-----------------------------------------------------------------------------
(* The steps: what becomes of an expression *)

RECURSIVE Eliminate(_, _), ResolveLoads(_, _), Literals(_, _), Rematerialise(_, _), SelectIn(_, _)

(* CommonSubexpressionEliminator::visit.                                   *)
Eliminate(e, c) ==
  LET x   == IF e.k = "call" THEN [e EXCEPT !.args = Each(LAMBDA a : Eliminate(a, c), @)] ELSE e
      has == {n \in DOMAIN c.value : c.value[n].e = x}
  IN  CASE x.k = "id" -> IF x.n \in DOMAIN c.value /\ c.value[x.n].e.k = "id" THEN c.value[x.n].e ELSE x
        [] has # {} -> Id(CHOOSE n \in has : TRUE)
        [] OTHER -> x

(* LoadResolver::visit.                                                    *)
ResolveLoads(e, c) ==
  LET x   == IF e.k = "call" THEN [e EXCEPT !.args = Each(LAMBDA a : ResolveLoads(a, c), @)] ELSE e
      key == x.args[1].n
  IN  CASE Loads(x, "sload") /\ key \in DOMAIN c.storage -> Id(c.storage[key])
        [] Loads(x, "mload") /\ c.mload /\ key \in DOMAIN c.memory -> Id(c.memory[key])
        [] OTHER -> x

(* LiteralRematerialiser::visit.                                           *)
Literals(e, c) ==
  CASE e.k = "id" /\ e.n \in DOMAIN c.value /\ c.value[e.n].e.k = "lit" -> c.value[e.n].e
    [] e.k = "call" -> [e EXCEPT !.args = Each(LAMBDA a : Literals(a, c), @)]
    [] OTHER -> e

(* Arguments with state, from right to left.                               *)
Backwards(F(_, _), e, c) ==
  IF e.k # "call" THEN Keep(e, c)
  ELSE LET r == Thread(LAMBDA a, d : One(F(a, d)), Reverse(e.args), c)
       IN  [r EXCEPT !.x = Call(e.f, Reverse(@))]

(* Rematerialiser::visit.                                                  *)
WorthRepeating(n, c) ==
  LET refs == At(c.counts, n)
      cost == CodeCost(c.value[n].e)
  IN  \/ refs <= 1 /\ c.value[n].depth = c.depth
      \/ cost = 0
      \/ refs <= 5 /\ cost <= 1 /\ c.depth = 0
      \/ n \in c.always

Rematerialise(e, c) ==
  IF e.k = "id" /\ e.n \in DOMAIN c.value /\ WorthRepeating(e.n, c)
  THEN LET v == c.value[e.n].e
           counted == FoldSeq(LAMBDA x, f : IF x.k = "id" THEN AddTo(f, x.n, 1) ELSE f,
                              AddTo(c.counts, e.n, -1), Within(v))
       IN  Backwards(Rematerialise, v, [c EXCEPT !.counts = counted])
  ELSE Backwards(Rematerialise, e, c)

(* RematCandidateSelector::visit: a candidate whose value is not known     *)
(* where it is used is none.                                               *)
SelectIn(e, c) ==
  IF e.k = "id" /\ e.n \in DOMAIN c.cost
  THEN Keep(e, IF e.n \in DOMAIN c.value THEN [c EXCEPT !.uses = AddTo(@, e.n, 1)]
               ELSE [c EXCEPT !.uses = Without(@, {e.n}), !.cost = Without(@, {e.n})])
  ELSE Backwards(SelectIn, e, c)

VisitExpression(e, c) ==
  CASE c.pass = "cse"      -> Keep(Eliminate(e, c), c)
    [] c.pass = "load"     -> Keep(ResolveLoads(e, c), c)
    [] c.pass = "literal"  -> Keep(Literals(e, c), c)
    [] c.pass = "simplify" -> Keep(SimplifyExpression(e, Values(c)), c)
    [] c.pass = "remat"    -> Rematerialise(e, c)
    [] c.pass = "select"   -> SelectIn(e, c)

-----------------------------------------------------------------------------
(* DataFlowAnalyzer *)

RECURSIVE Analyze(_, _), AnalyzeBlock(_, _)

(* RematCandidateSelector: declared with a value, never assigned.          *)
Candidate(s, c) ==
  IF c.pass = "select" /\ Len(s.vars) = 1 /\ s.vars[1] \in DOMAIN c.value
  THEN [c EXCEPT !.cost = Put(@, s.vars[1], CodeCost(c.value[s.vars[1]].e))] ELSE c
NoCandidates(s, c) ==
  [c EXCEPT !.cost = Without(@, Names(s.vars)), !.uses = Without(@, Names(s.vars))]

AnalyzeStore(s, c) ==
  LET r   == VisitExpression(s.e, c)
      key == s.e.args[1].n
      val == s.e.args[2].n
  IN  [x |-> Do(r.x), c |-> IF IsOp(s.e, "sstore") THEN StoreStorage(r.c, key, val)
                            ELSE StoreMemory(r.c, key, val)]

AnalyzeValue(s, c) ==
  LET r == IF s.val = <<>> THEN Keep(s, c)
           ELSE LET e == VisitExpression(s.val[1], ClearFor(c, s.val[1]))
                IN  [x |-> [s EXCEPT !.val = <<e.x>>], c |-> e.c]
  IN  [r EXCEPT !.c = HandleAssignment(s.vars, r.x.val, @)]

AnalyzeSwitch(s, c) ==
  LET e  == VisitExpression(s.e, ClearFor(c, s.e))
      cs == Thread(LAMBDA a, d :
                     LET b == AnalyzeBlock(a.body, d)
                     IN  [x |-> <<Case(a.v, b.x)>>,
                          c |-> ClearForBlock(ClearValues(JoinKnowledge(b.c, d), Assigned(b.x)), b.x)],
                   s.cases, e.c)
      t  == Switch(e.x, cs.x)
      cleared == FoldLeft(LAMBDA d, a : ClearForBlock(d, a.body), cs.c, t.cases)
  IN  [x |-> t, c |-> ClearValues(cleared, Assigned(<<t>>))]

(* Mutant: what the body assigns after a continue is believed.             *)
BelieveBody(c, s) == c

(* Before the post block, which a continue reaches as well.                *)
ForgetSinceContinue(c, s) == ClearValues(c, AssignedSinceContinue(s.body))

AnalyzeLoop(s, c0) ==
  LET assigned == Assigned(s.body) \cup Assigned(s.post)
      forget(c, t) == ClearForBlock(ClearForBlock(ClearFor(ClearValues(c, assigned), t.e), t.post), t.body)
      e    == VisitExpression(s.e, forget([c0 EXCEPT !.depth = @ + 1], s))
      body == AnalyzeBlock(s.body, e.c)
      post == AnalyzeBlock(s.post, ClearForBlock(ForgetSinceContinue(body.c, s), body.x))
      t    == For(s.pre, e.x, post.x, body.x)
  IN  [x |-> t, c |-> [forget(post.c, t) EXCEPT !.depth = c0.depth]]

AnalyzeFunction(s, c) ==
  LET empty == [c EXCEPT !.value = Nothing, !.refs = Nothing, !.depth = 0,
                         !.storage = Nothing, !.memory = Nothing]
      r == AnalyzeBlock(s.body, FoldLeft(LAMBDA d, n : HandleAssignment(<<n>>, <<>>, d), empty, s.rets))
  IN  [x |-> [s EXCEPT !.body = r.x],
       c |-> [r.c EXCEPT !.value = c.value, !.refs = c.refs, !.depth = c.depth,
                         !.storage = c.storage, !.memory = c.memory]]

Analyze(s, c) ==
  CASE Stores(s, "sstore") \/ Stores(s, "mstore") -> AnalyzeStore(s, c)
    [] s.k = "do" /\ ~ (Stores(s, "sstore") \/ Stores(s, "mstore")) ->
         LET r == VisitExpression(s.e, ClearFor(c, s.e)) IN [r EXCEPT !.x = Do(@)]
    [] s.k = "set" -> AnalyzeValue(s, NoCandidates(s, c))
    [] s.k = "let" -> LET r == AnalyzeValue(s, c) IN [r EXCEPT !.c = Candidate(s, @)]
    [] s.k = "if" ->
         LET c1 == ClearFor(c, s.e)
             e  == VisitExpression(s.e, c1)
             b  == AnalyzeBlock(s.body, e.c)
         IN  [x |-> If(e.x, b.x), c |-> ClearValues(JoinKnowledge(b.c, c1), Assigned(b.x))]
    [] s.k = "switch" -> AnalyzeSwitch(s, c)
    [] s.k = "for"    -> AnalyzeLoop(s, c)
    [] s.k = "fun"    -> AnalyzeFunction(s, c)
    [] s.k = "block"  -> LET b == AnalyzeBlock(s.body, c) IN [b EXCEPT !.x = Block(@)]
    [] OTHER -> Keep(s, c)

AnalyzeBlock(b, c) ==
  LET r == Thread(LAMBDA s, d : One(Analyze(s, d)), b, c)
  IN  [r EXCEPT !.c = ClearValues(@, UNION {Names(s.vars) : s \in Kind(b, "let")})]

-----------------------------------------------------------------------------
CommonSubexpressionEliminator(b) == AnalyzeBlock(b, Context("cse", FunctionEffects(b))).x
LoadResolver(b) ==
  AnalyzeBlock(b, [Context("load", FunctionEffects(b)) EXCEPT !.mload = ~ ContainsMSize(b)]).x
LiteralRematerialiser(b) == AnalyzeBlock(b, Context("literal", NoFunctions)).x
ExpressionSimplifier(b)  == AnalyzeBlock(b, Context("simplify", NoFunctions)).x
Materialising(b, always) ==
  [Context("remat", NoFunctions) EXCEPT !.counts = ReferenceCounts(b), !.always = always]
Rematerialiser(b) == AnalyzeBlock(b, Materialising(b, {})).x
=============================================================================
