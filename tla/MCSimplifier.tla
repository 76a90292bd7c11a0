----------------------------- MODULE MCSimplifier -----------------------------
(* Every pattern of the rule list with every choice of constants, and with *)
(* variables, calls and a constant for the rest.                           *)
EXTENDS SimplifierRun

CONSTANT Literals      \* the constants tried in the patterns

Pure     == [args |-> 0, rets |-> 1, fx |-> NoEffects, tier |-> "low"]
Creating == [args |-> 3, rets |-> 1, fx |-> Worst, tier |-> "high"]
MCBuiltins ==
  [o \in Arithmetic \cup {"address", "caller", "origin", "coinbase", "balance", "selfbalance"} |-> Pure]
  @@ [o \in {"create", "create2"} |-> Creating]

Leaves(g) ==
  CASE g.k = "const" -> {Lit(v) : v \in Literals}
    [] g.g = "X" -> {Id(<<"x">>), Call(<<"f">>, <<>>)}
    [] OTHER -> {Id(<<"x">>), Id(<<"y">>), Call(<<"f">>, <<>>), Call(<<"g">>, <<>>)}

RECURSIVE Groups(_)
Groups(p) ==
  CASE p.k \in {"const", "any"} -> {p}
    [] p.k = "call" -> UNION {Groups(p.args[i]) : i \in DOMAIN p.args}
    [] OTHER -> {}

RECURSIVE Fill(_, _)
Fill(p, m) ==
  CASE p.k \in {"const", "any"} -> m[p]
    [] p.k = "call" -> [p EXCEPT !.args = Each(LAMBDA x : Fill(x, m), @)]
    [] OTHER -> p

Instances(p) ==
  {Fill(p, m) : m \in {f \in [Groups(p) -> UNION {Leaves(g) : g \in Groups(p)}] :
                         \A g \in DOMAIN f : f[g] \in Leaves(g)}}

MCGiven == UNION {Instances(Patterns[i].p) : i \in DOMAIN Patterns}
===============================================================================
