---------------------------- MODULE YulAnalysis ----------------------------
(***************************************************************************)
(* Names and scopes of Yul code: the analysis every program must pass      *)
(* before it is optimised and compiled (AsmAnalysis, AsmScopeFiller,       *)
(* AsmScope), and the Disambiguator, which makes names unique.             *)
(*                                                                         *)
(* A scope is the variables that can be used, the functions that can be    *)
(* called with the numbers of their arguments and values, and all names    *)
(* that are taken.                                                         *)
(***************************************************************************)
EXTENDS YulVariables

GlobalScope == [active |-> {}, funs |-> [n \in {} |-> Main], taken |-> {}]

Distinct(vs) == Cardinality(Names(vs)) = Len(vs)

(* registerVariable and registerFunction: the names are new.               *)
CanRegister(vs, sc) == Distinct(vs) /\ Names(vs) \cap sc.taken = {}
Register(vs, sc) == [sc EXCEPT !.active = @ \cup Names(vs), !.taken = @ \cup Names(vs)]
RegisterFunctions(fs, sc) ==
  [sc EXCEPT !.taken = @ \cup {f.n : f \in Range(fs)},
             !.funs = FoldLeft(LAMBDA g, f : Put(g, f.n, [args |-> Len(f.params), rets |-> Len(f.rets)]), @, fs)]

(* The number of values of an expression, or -1 if it is not valid.        *)
RECURSIVE ValuesOf(_, _)
ValuesOf(e, sc) ==
  CASE e.k = "lit" -> 1
    [] e.k = "id"  -> IF e.n \in sc.active THEN 1 ELSE -1
    [] e.k = "call" ->
       LET found == IsBuiltin(e.f) \/ e.f \in DOMAIN sc.funs
           f == IF IsBuiltin(e.f) THEN Builtins[e.f[1]] ELSE sc.funs[e.f]
       IN  IF found /\ Len(e.args) = f.args /\ \A i \in DOMAIN e.args : ValuesOf(e.args[i], sc) = 1
           THEN f.rets ELSE -1

RECURSIVE AnalyzesTo(_, _)

(* A statement in a scope: whether it is valid, and the scope behind it.   *)
Valid(ok, sc) == [ok |-> ok, sc |-> sc]
CheckStatement(s, sc) ==
  LET inner(b, c) == AnalyzesTo(b, c).ok
      value(e)    == ValuesOf(e, sc) = 1
  IN  CASE s.k = "do"  -> Valid(ValuesOf(s.e, sc) = 0, sc)
        [] s.k = "set" -> Valid(/\ Distinct(s.vars) /\ Names(s.vars) \subseteq sc.active
                                /\ ValuesOf(s.val[1], sc) = Len(s.vars), sc)
        [] s.k = "let" -> Valid(/\ CanRegister(s.vars, sc)
                                /\ s.val # <<>> => ValuesOf(s.val[1], sc) = Len(s.vars),
                                Register(s.vars, sc))
        [] s.k = "fun" -> LET own == [sc EXCEPT !.active = {}]
                              all == s.params \o s.rets
                          IN  Valid(CanRegister(all, own) /\ inner(s.body, Register(all, own)), sc)
        [] s.k = "if"  -> Valid(value(s.e) /\ inner(s.body, sc), sc)
        [] s.k = "switch" ->
             Valid(/\ value(s.e)
                   /\ \A i, j \in DOMAIN s.cases : i # j => s.cases[i].v # s.cases[j].v
                   /\ \A i \in DOMAIN s.cases : inner(s.cases[i].body, sc), sc)
        [] s.k = "for" -> LET pre == AnalyzesTo(s.pre, sc)
                          IN  Valid(/\ pre.ok /\ ValuesOf(s.e, pre.sc) = 1
                                    /\ inner(s.body, pre.sc) /\ inner(s.post, pre.sc), sc)
        [] s.k = "block" -> Valid(inner(s.body, sc), sc)
        [] OTHER -> Valid(TRUE, sc)

(* A block: its functions are known from its start, its variables from     *)
(* where they are declared.                                                *)
AnalyzesTo(b, sc) ==
  LET fs == SelectSeq(b, LAMBDA s : s.k = "fun")
      check[i \in 0 .. Len(b)] ==
        IF i = 0 THEN Valid(CanRegister(Each(LAMBDA f : f.n, fs), sc), RegisterFunctions(fs, sc))
        ELSE LET p == check[i - 1]
             IN  IF p.ok THEN CheckStatement(b[i], p.sc) ELSE p
  IN  check[Len(b)]

AnalyzeStrict(b) == LET end == AnalyzesTo(b, GlobalScope) IN end.ok

-----------------------------------------------------------------------------
(* Disambiguator: every declaration gets a name of its own.  c holds the   *)
(* dispenser and the translation of the names in scope.                    *)

RECURSIVE TranslateAll(_, _), DisambiguateBlock(_, _)
TranslateAll(e, to) ==
  CASE e.k = "id" -> Id(to[e.n])
    [] e.k = "call" -> Call(IF IsBuiltin(e.f) THEN e.f ELSE to[e.f],
                            Each(LAMBDA a : TranslateAll(a, to), e.args))
    [] OTHER -> e

(* Mutant: names that were given out are not remembered.                   *)
ForgetfulNames(vs, c) == Keep(vs, [c EXCEPT !.to = [n \in Names(vs) |-> n] @@ @])

DeclareNew(vs, c) ==
  LET ns == NewNames(c.d, vs)
  IN  [x |-> ns.x, c |-> [d |-> ns.c, to |-> [n \in Names(vs) |->
                            ns.x[SelectInSeq(vs, LAMBDA x : x = n)]] @@ c.to]]

DisambiguateStatement(s, c) ==
  LET Inner(b, d) == LET r == DisambiguateBlock(b, d) IN [r EXCEPT !.c.to = d.to]
      E(e, d) == Keep(TranslateAll(e, d.to), d)
  IN  CASE s.k = "let" ->
             LET ns == DeclareNew(s.vars, c)
             IN  [x |-> Let(ns.x, Each(LAMBDA e : TranslateAll(e, c.to), s.val)), c |-> ns.c]
        [] s.k = "set" -> Visit([s EXCEPT !.vars = Translated(@, c.to)], c, Inner, E)
        [] s.k = "fun" ->
             LET ps == DeclareNew(s.params, c)
                 rs == DeclareNew(s.rets, ps.c)
                 b  == Inner(s.body, rs.c)
             IN  [x |-> Fun(c.to[s.n], ps.x, rs.x, b.x), c |-> [b.c EXCEPT !.to = c.to]]
        [] s.k = "for" ->
             LET pre  == DisambiguateBlock(s.pre, c)
                 body == Inner(s.body, pre.c)
                 post == Inner(s.post, body.c)
             IN  [x |-> For(pre.x, TranslateAll(s.e, pre.c.to), post.x, body.x),
                  c |-> [post.c EXCEPT !.to = c.to]]
        [] OTHER -> Visit(s, c, Inner, E)

DisambiguateBlock(b, c) ==
  LET fs == Each(LAMBDA f : f.n, SelectSeq(b, LAMBDA s : s.k = "fun"))
  IN  Thread(LAMBDA s, d : One(DisambiguateStatement(s, d)), b, DeclareNew(fs, c).c)

Disambiguator(b) ==
  DisambiguateBlock(b, [d |-> [used |-> {}, counter |-> 0], to |-> [n \in {} |-> Main]]).x

(* The code the suite starts with, and its NameDispenser.                  *)
Disambiguated(b) ==
  LET code == Disambiguator(b) IN Keep(code, Dispenser(code))
=============================================================================
