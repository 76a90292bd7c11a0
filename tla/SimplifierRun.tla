---------------------------- MODULE SimplifierRun ----------------------------
(***************************************************************************)
(* A run of the ExpressionSimplifier on one expression: the arguments      *)
(* first, then one rule after the other until none applies.                *)
(***************************************************************************)
EXTENDS RuleList

CONSTANTS
  Given,        \* the expressions to start from
  Samples,      \* values the variables and calls are tried with
  MaxRounds     \* rules that may apply one after the other at one place

VARIABLES
  original,     \* the expression as it was
  expr,         \* the expression as it is now
  pc,           \* "arguments", "loop" or "done"
  rounds        \* rules applied so far
vars == <<original, expr, pc, rounds>>

NothingKnown == [n \in {} |-> Lit(0)]

-----------------------------------------------------------------------------
Init == /\ original \in Given
        /\ expr = original
        /\ pc = "arguments"
        /\ rounds = 0

VisitArguments ==
  /\ pc = "arguments"
  /\ expr' = [expr EXCEPT !.args = Each(LAMBDA x : SimplifyExpression(x, NothingKnown), @)]
  /\ pc' = "loop"
  /\ UNCHANGED <<original, rounds>>

ApplyRule ==
  /\ pc = "loop"
  /\ LET found == FindFirstMatch(expr, NothingKnown)
     IN  IF Applicable(expr, found)
         THEN /\ expr' = found[1].e
              /\ rounds' = rounds + 1
              /\ UNCHANGED pc
         ELSE /\ pc' = "done"
              /\ UNCHANGED <<expr, rounds>>
  /\ UNCHANGED original

Next == VisitArguments \/ ApplyRule
Spec == Init /\ [][Next]_vars

-----------------------------------------------------------------------------
(* The value of an expression, and the calls that were made for it, in     *)
(* order.  Every call of a function or a create gives another value.       *)
RECURSIVE ValueOf(_, _, _)
ValueOf(e, env, log) ==
  LET n == Len(e.args)
      arg[i \in 0 .. n] ==
        IF i = 0 THEN [v |-> <<>>, log |-> log]
        ELSE LET p == arg[i - 1]
                 r == ValueOf(e.args[n + 1 - i], env, p.log)
             IN  [v |-> <<r.v>> \o p.v, log |-> r.log]
      o    == e.f[1]
      done == Append(arg[n].log, <<o, arg[n].v>>)
  IN  CASE e.k = "lit" -> [v |-> e.v, log |-> log]
        [] e.k = "id"  -> [v |-> env[e.n[1]], log |-> log]
        [] e.k = "call" /\ ~ IsBuiltin(e.f) -> [v |-> (env[o] + Len(log)) % Modulus, log |-> done]
        [] e.k = "call" /\ o \in Arithmetic -> [v |-> Compute(o, arg[n].v), log |-> arg[n].log]
        [] e.k = "call" /\ o \in {"create", "create2"} ->
             [v |-> (env["x"] + Len(log)) % 2 ^ AddressBits, log |-> done]
        [] e.k = "call" /\ o \in {"balance", "selfbalance"} -> [v |-> env["y"], log |-> arg[n].log]
        [] OTHER -> [v |-> 2 ^ AddressBits - 1, log |-> log]

Environments == {[x |-> x, y |-> y, f |-> x, g |-> y] : x, y \in Samples}

(* Simplification changes neither the value of an expression nor the calls *)
(* it makes, whatever the variables hold: every rule of the list, applied  *)
(* to constants at the edges of the word, and every sequence of rules      *)
(* (ExpressionSimplifier::visit, RuleList.h).                              *)
MeaningPreserved ==
  \A env \in Environments : ValueOf(expr, env, <<>>) = ValueOf(original, env, <<>>)

(* No rules undo what others did: the loop over the rules, which has no    *)
(* limit, ends after a few rounds (the while of ExpressionSimplifier).     *)
SimplificationEnds == rounds <= MaxRounds
==============================================================================
