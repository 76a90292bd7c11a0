------------------------------ MODULE RuleList ------------------------------
(***************************************************************************)
(* The simplification rules both optimisers share (libevmasm/RuleList.h),  *)
(* and how the Yul optimiser matches and applies them.                     *)
(*                                                                         *)
(* A rule is a pattern, what replaces it, whether the replacement drops    *)
(* something that is not a constant, and whether it is feasible for the    *)
(* constants that matched.  The list is a function of those constants, a,  *)
(* b and c; the patterns do not depend on them.                            *)
(***************************************************************************)
EXTENDS YulSyntax, EVMWords

CONSTANT Rules(_, _, _, _)    \* the list in use: SimplificationRuleList

Con(g) == [k |-> "const", g |-> g]      \* a constant
Wild(g) == [k |-> "any", g |-> g]        \* anything
LOCAL A == Con("A")
LOCAL B == Con("B")
LOCAL C == Con("C")
LOCAL W == Wild("W")
LOCAL X == Wild("X")
LOCAL Y == Wild("Y")
LOCAL Z == Wild("Z")

Rule(p, r, removes)        == [p |-> p, r |-> r, removes |-> removes, feasible |-> TRUE]
RuleIf(p, r, removes, yes) == [p |-> p, r |-> r, removes |-> removes, feasible |-> yes]
Bin(o, p, q) == Op(o, <<p, q>>)
Un(o, p)     == Op(o, <<p>>)

ShiftLeft(v, n)  == IF n >= Bits THEN 0 ELSE (v * 2 ^ n) % Modulus    \* shlWorkaround
ShiftRight(v, n) == IF n >= Bits THEN 0 ELSE v \div 2 ^ n

(* Arithmetic on constants.                                                *)
Part1(a, b, c) ==
  LET fold(o) == Rule(Bin(o, A, B), Lit(Compute(o, <<a, b>>)), FALSE)
      byte == IF a >= WordSize THEN 0
              ELSE And(ShiftRight(b, ByteBits * (WordSize - 1 - a)), Base - 1)
      test == a * ByteBits + ByteBits - 1
      mask == 2 ^ test - 1
      extended == IF a >= WordSize - 1 THEN b
                  ELSE IF Bit(b, test) = 1 THEN Or(b, Not(mask)) ELSE And(b, mask)
  IN  <<fold("add"), fold("mul"), fold("sub"), fold("div"), fold("sdiv"), fold("mod"), fold("smod"),
        fold("exp"), Rule(Un("not", A), Lit(Not(a)), FALSE), fold("lt"), fold("gt"), fold("slt"),
        fold("sgt"), fold("eq"), Rule(Un("iszero", A), Lit(Bool(a = 0)), FALSE), fold("and"),
        fold("or"), fold("xor"), Rule(Bin("byte", A, B), Lit(byte), FALSE),
        Rule(Op("addmod", <<A, B, C>>), Lit(IF c = 0 THEN 0 ELSE (a + b) % c), FALSE),
        Rule(Op("mulmod", <<A, B, C>>), Lit(IF c = 0 THEN 0 ELSE (a * b) % c), FALSE),
        Rule(Bin("signextend", A, B), Lit(extended), FALSE),
        Rule(Bin("shl", A, B), Lit(ShiftLeft(b, a)), FALSE),
        Rule(Bin("shr", A, B), Lit(ShiftRight(b, a)), FALSE)>>

(* Known constants.                                                        *)
Part2 ==
  LET same(o, p, q) == Rule(Bin(o, p, q), X, FALSE)
      gone(o, p, q, v) == Rule(Bin(o, p, q), Lit(v), TRUE)
      to(o, p, q, r) == Rule(Bin(o, p, q), r, FALSE)
      nonzero == Un("iszero", Un("iszero", X))
      minus == Bin("sub", Lit(0), X)
  IN  <<same("add", X, Lit(0)), same("add", Lit(0), X), same("sub", X, Lit(0)),
        to("sub", Lit(Ones), X, Un("not", X)),
        gone("mul", X, Lit(0), 0), gone("mul", Lit(0), X, 0), same("mul", X, Lit(1)),
        same("mul", Lit(1), X), to("mul", X, Lit(Ones), minus), to("mul", Lit(Ones), X, minus),
        gone("div", X, Lit(0), 0), gone("div", Lit(0), X, 0), same("div", X, Lit(1)),
        gone("sdiv", X, Lit(0), 0), gone("sdiv", Lit(0), X, 0), same("sdiv", X, Lit(1)),
        same("and", X, Lit(Ones)), same("and", Lit(Ones), X),
        gone("and", X, Lit(0), 0), gone("and", Lit(0), X, 0),
        same("or", X, Lit(0)), same("or", Lit(0), X),
        gone("or", X, Lit(Ones), Ones), gone("or", Lit(Ones), X, Ones),
        same("xor", X, Lit(0)), same("xor", Lit(0), X),
        gone("mod", X, Lit(0), 0), gone("mod", Lit(0), X, 0),
        to("eq", X, Lit(0), Un("iszero", X)), to("eq", Lit(0), X, Un("iszero", X)),
        same("shl", Lit(0), X), same("shr", Lit(0), X),
        gone("shl", X, Lit(0), 0), gone("shr", X, Lit(0), 0),
        to("gt", X, Lit(0), nonzero), to("lt", Lit(0), X, nonzero),
        gone("gt", X, Lit(Ones), 0), gone("lt", Lit(Ones), X, 0),
        gone("gt", Lit(0), X, 0), gone("lt", X, Lit(0), 0),
        Rule(Bin("and", Bin("byte", X, Y), Lit(Base - 1)), Bin("byte", X, Y), FALSE),
        to("byte", Lit(WordSize - 1), X, Bin("and", X, Lit(Base - 1)))>>

(* Mutant: the remainder of an expression by itself gives that remainder.  *)
Part3Cycle == <<Rule(Bin("mod", X, X), Bin("mod", X, X), TRUE)>>

(* An expression and itself.                                               *)
Part3 ==
  LET self(o, r) == Rule(Bin(o, X, X), r, TRUE)
  IN  <<self("and", X), self("or", X), self("xor", Lit(0)), self("sub", Lit(0)), self("eq", Lit(1)),
        self("lt", Lit(0)), self("slt", Lit(0)), self("gt", Lit(0)), self("sgt", Lit(0)),
        self("mod", Lit(0))>>

(* Combinations of logical instructions.                                   *)
Part4 ==
  LET absorbs(o, i) == <<Rule(Bin(o, X, Bin(i, X, Y)), X, TRUE), Rule(Bin(o, X, Bin(i, Y, X)), X, TRUE),
                         Rule(Bin(o, Bin(i, X, Y), X), X, TRUE), Rule(Bin(o, Bin(i, Y, X), X), X, TRUE)>>
      negated(o, v) == <<Rule(Bin(o, X, Un("not", X)), Lit(v), TRUE),
                         Rule(Bin(o, Un("not", X), X), Lit(v), TRUE)>>
  IN  <<Rule(Un("not", Un("not", X)), X, FALSE),
        Rule(Bin("xor", X, Bin("xor", X, Y)), Y, TRUE), Rule(Bin("xor", X, Bin("xor", Y, X)), Y, TRUE),
        Rule(Bin("xor", Bin("xor", X, Y), X), Y, TRUE), Rule(Bin("xor", Bin("xor", Y, X), X), Y, TRUE)>>
      \o absorbs("or", "and") \o absorbs("and", "or") \o negated("and", 0) \o negated("or", Ones)

(* Idempotent operations.                                                  *)
Part4_5 ==
  LET twice(o) == <<Rule(Bin(o, Bin(o, X, Y), Y), Bin(o, X, Y), TRUE),
                    Rule(Bin(o, Y, Bin(o, X, Y)), Bin(o, X, Y), TRUE),
                    Rule(Bin(o, Bin(o, Y, X), Y), Bin(o, Y, X), TRUE),
                    Rule(Bin(o, Y, Bin(o, Y, X)), Bin(o, Y, X), TRUE)>>
  IN  twice("and") \o twice("or")

AddressMask == 2 ^ AddressBits - 1

(* Powers of two, shifts out of the word and masks of addresses.           *)
Part5(a) ==
  LET masked(o) == <<Rule(Bin("and", Op(o, <<>>), Lit(AddressMask)), Op(o, <<>>), FALSE),
                     Rule(Bin("and", Lit(AddressMask), Op(o, <<>>)), Op(o, <<>>), FALSE)>>
      out(o, n) == RuleIf(Bin(o, A, X), Lit(0), TRUE, a >= n)
  IN  [i \in 1 .. Bits |-> Rule(Bin("mod", X, Lit(2 ^ (i - 1))), Bin("and", X, Lit(2 ^ (i - 1) - 1)), FALSE)]
      \o <<out("shl", Bits), out("shr", Bits), out("byte", WordSize)>>
      \o masked("address") \o masked("caller") \o masked("origin") \o masked("coinbase")

(* Double negation.                                                        *)
Part6 ==
  LET twice(o) == Rule(Un("iszero", Un("iszero", Bin(o, X, Y))), Bin(o, X, Y), FALSE)
  IN  <<twice("eq"), twice("lt"), twice("slt"), twice("gt"), twice("sgt"),
        Rule(Un("iszero", Un("iszero", Un("iszero", X))), Un("iszero", X), FALSE),
        Rule(Un("iszero", Bin("xor", X, Y)), Bin("eq", X, Y), FALSE)>>

(* Associative operations: constants move to the outside.                  *)
Part7Associative(a, b) ==
  LET with(o, xa) ==
        <<Rule(Bin(o, xa, B), Bin(o, X, Lit(Compute(o, <<a, b>>))), FALSE),
          Rule(Bin(o, xa, Y), Bin(o, Bin(o, X, Y), Lit(a)), FALSE),
          Rule(Bin(o, B, xa), Bin(o, X, Lit(Compute(o, <<a, b>>))), FALSE),
          Rule(Bin(o, Y, xa), Bin(o, Bin(o, Y, X), Lit(a)), FALSE)>>
      of(o) == with(o, Bin(o, X, A)) \o with(o, Bin(o, A, X))
  IN  of("add") \o of("mul") \o of("and") \o of("or") \o of("xor")

(* Shifts by constants, and what they are combined with.                   *)
Part7Shifts(a, b) ==
  LET within == a < Bits /\ b < Bits
      add(o) == Rule(Bin(o, B, Bin(o, A, X)),
                     IF a + b >= Bits THEN Bin("and", X, Lit(0)) ELSE Bin(o, Lit(a + b), X), FALSE)
      cross(outer, inner, mask) ==
        RuleIf(Bin(outer, B, Bin(inner, A, X)),
               Bin("and", CASE a > b -> Bin(inner, Lit(a - b), X)
                            [] b > a -> Bin(outer, Lit(b - a), X)
                            [] OTHER -> X, Lit(mask)), FALSE, within)
      across(o, mask) ==
        LET r == Bin("and", Bin(o, Lit(b), X), Lit(mask))
        IN  <<RuleIf(Bin(o, B, Bin("and", X, A)), r, FALSE, b < Bits),
              RuleIf(Bin(o, B, Bin("and", A, X)), r, FALSE, b < Bits)>>
      kept == b <= Bits /\ And(a, ShiftRight(Ones, b)) = ShiftRight(Ones, b)
  IN  <<add("shl"), add("shr"),
        cross("shr", "shl", ShiftRight(ShiftLeft(Ones, a), b)),
        cross("shl", "shr", ShiftLeft(ShiftRight(Ones, a), b))>>
      \o across("shl", ShiftLeft(a, b)) \o across("shr", ShiftRight(a, b))
      \o <<Rule(Bin("mul", X, Bin("shl", Y, Lit(1))), Bin("shl", Y, X), TRUE),
           Rule(Bin("mul", Bin("shl", X, Lit(1)), Y), Bin("shl", X, Y), FALSE),
           Rule(Bin("div", X, Bin("shl", Y, Lit(1))), Bin("shr", Y, X), TRUE),
           RuleIf(Bin("and", A, Bin("shr", B, X)), Bin("shr", Lit(b), X), FALSE, kept),
           RuleIf(Bin("and", Bin("shr", B, X), A), Bin("shr", Lit(b), X), FALSE, kept),
           RuleIf(Bin("byte", A, Bin("shl", B, X)), Bin("byte", Lit((a + b \div ByteBits) % Modulus), X),
                  FALSE, b % ByteBits = 0 /\ a <= WordSize /\ b <= Bits),
           RuleIf(Bin("byte", A, Bin("shr", B, X)), Lit(0), TRUE, a < b \div ByteBits),
           RuleIf(Bin("byte", A, Bin("shr", B, X)), Bin("byte", Lit((a - b \div ByteBits) % Modulus), X), FALSE,
                  b % ByteBits = 0 /\ a < WordSize /\ b <= Bits /\ a >= b \div ByteBits)>>

(* Constants move across subtractions.                                     *)
Part8(a) ==
  LET minus == Lit((0 - a) % Modulus)
      moved(p, v) == Rule(p, Bin("add", Bin("sub", X, Y), v), FALSE)
  IN  <<Rule(Bin("sub", X, A), Bin("add", X, minus), FALSE),
        moved(Bin("sub", Bin("add", X, A), Y), Lit(a)), moved(Bin("sub", Bin("add", A, X), Y), Lit(a)),
        moved(Bin("sub", X, Bin("add", Y, A)), minus), moved(Bin("sub", X, Bin("add", A, Y)), minus)>>

(* The address of a new contract needs no mask.                            *)
Part9 ==
  LET masked(p) == <<Rule(Bin("and", p, Lit(AddressMask)), p, FALSE),
                     Rule(Bin("and", Lit(AddressMask), p), p, FALSE)>>
  IN  masked(Op("create", <<W, X, Y>>)) \o masked(Op("create2", <<W, X, Y, Z>>))

EvmRuleList == <<Rule(Un("balance", Op("address", <<>>)), Op("selfbalance", <<>>), FALSE)>>

(* simplificationRuleList: the parts in their order.                       *)
SimplificationRuleList(part, a, b, c) ==
  LET list == [n \in 1 .. 12 |->
        CASE n = 1 -> Part1(a, b, c)
          [] n = 2 -> Part2
          [] n = 3 -> Part3
          [] n = 4 -> Part4
          [] n = 5 -> Part4_5
          [] n = 6 -> Part5(a)
          [] n = 7 -> Part6
          [] n = 8 -> Part7Associative(a, b)
          [] n = 9 -> Part7Shifts(a, b)
          [] n = 10 -> Part8(a)
          [] n = 11 -> Part9
          [] n = 12 -> EvmRuleList]
  IN  list[part]

(* The patterns, with the place of their rules, for every instruction.     *)
Patterns ==
  FlattenSeq([n \in 1 .. 12 |->
    LET rules == Rules(n, 0, 0, 0)
    IN  [i \in DOMAIN rules |-> [p |-> rules[i].p, part |-> n, i |-> i]]])
RulesFor ==
  [f \in {Patterns[i].p.f : i \in DOMAIN Patterns} |-> SelectSeq(Patterns, LAMBDA q : q.p.f = f)]

-----------------------------------------------------------------------------
(* Pattern::matches.  What matched so far maps groups to expressions; a    *)
(* match is a sequence of one of those, a mismatch is empty.  values has   *)
(* what is known of variables.                                             *)

Resolve(e, values) == IF e.k = "id" /\ e.n \in DOMAIN values THEN values[e.n] ELSE e

Bind(m, g, e) == (g :> e) @@ m

RECURSIVE Match(_, _, _, _)
Match(p, e, values, m) ==
  LET x == Resolve(e, values)
      arg[i \in 0 .. Len(x.args)] ==
        IF i = 0 THEN <<m>>
        ELSE LET before == arg[i - 1]
             IN  IF before = <<>> THEN <<>> ELSE Match(p.args[i], x.args[i], values, before[1])
  IN  CASE p.k = "any"   -> IF p.g \notin DOMAIN m THEN <<Bind(m, p.g, e)>>
                            ELSE IF m[p.g] = e /\ Movable(e) THEN <<m>> ELSE <<>>
        [] p.k = "const" -> IF x.k = "lit" THEN <<Bind(m, p.g, x)>> ELSE <<>>
        [] p.k = "lit"   -> IF x = p THEN <<m>> ELSE <<>>
        [] p.k = "call"  -> IF x.k = "call" /\ x.f = p.f THEN arg[Len(x.args)] ELSE <<>>

(* Pattern::toExpression.                                                  *)
RECURSIVE ToExpression(_, _)
ToExpression(r, m) ==
  CASE r.k = "any"  -> m[r.g]
    [] r.k = "call" -> [r EXCEPT !.args = Each(LAMBDA x : ToExpression(x, m), @)]
    [] OTHER -> r

(* findFirstMatch: the first feasible rule that matches, applied, or an    *)
(* empty sequence.                                                         *)
RECURSIVE FirstOf(_, _, _)
FirstOf(patterns, e, values) ==
  IF patterns = <<>> THEN <<>>
  ELSE LET q == Head(patterns)
           m == Match(q.p, e, values, [g \in {} |-> e])
           value(g) == IF g \in DOMAIN m[1] THEN m[1][g].v ELSE 0
           rule == Rules(q.part, value("A"), value("B"), value("C"))[q.i]
       IN  IF m # <<>> /\ rule.feasible
           THEN <<[e |-> ToExpression(rule.r, m[1]), removes |-> rule.removes]>>
           ELSE FirstOf(Tail(patterns), e, values)

FindFirstMatch(e, values) ==
  IF e.k = "call" /\ e.f \in DOMAIN RulesFor THEN FirstOf(RulesFor[e.f], e, values) ELSE <<>>

(* Mutant: a rule applies whatever it drops.                               *)
AlwaysApplicable(e, found) == found # <<>>

(* ExpressionSimplifier: a rule that drops something needs an expression   *)
(* that can be dropped.                                                    *)
Applicable(e, found) == found # <<>> /\ (found[1].removes => Movable(e))

RECURSIVE ApplyRules(_, _)
ApplyRules(e, values) ==
  LET found == FindFirstMatch(e, values)
  IN  IF Applicable(e, found) THEN ApplyRules(found[1].e, values) ELSE e

RECURSIVE SimplifyExpression(_, _)
SimplifyExpression(e, values) ==
  ApplyRules(IF e.k # "call" THEN e
             ELSE [e EXCEPT !.args = Each(LAMBDA x : SimplifyExpression(x, values), @)], values)

(* KnowledgeBase::simplify: arguments of what a rule returns are looked at *)
(* again.  Its limit of 100 calls is above what the programs need.         *)
RECURSIVE KnowledgeSimplify(_, _)
KnowledgeSimplify(e, values) ==
  LET inner == IF e.k # "call" THEN e
               ELSE [e EXCEPT !.args = Each(LAMBDA x : KnowledgeSimplify(x, values), @)]
      found == FindFirstMatch(inner, values)
  IN  IF found = <<>> THEN inner ELSE KnowledgeSimplify(found[1].e, values)
=============================================================================
