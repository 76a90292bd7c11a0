---------------------------- MODULE SolidityRuns ----------------------------
(***************************************************************************)
(* What the executions of a Solidity function do, as far as the control    *)
(* flow analysis is about it: the reference ControlFlowAnalyzer is checked *)
(* against.  Conditions, calls and switches go either way.                 *)
(*                                                                         *)
(* An execution is at a statement ("go") or on its way out of it ("break", *)
(* "continue", "return", "revert", "stop"); it knows the variables without *)
(* a value and at most one use of such a variable, any one of them.  A     *)
(* group r holds the executions that got to the same place, and the        *)
(* positions they started.                                                 *)
(***************************************************************************)
EXTENDS ControlFlowBuilder

CONSTANT Pointers   \* the variables of storage or calldata pointer type

Live(r)    == {e \in r.s : e.flow = "go"}
Left(r)    == r.s \ Live(r)
Both(r, q) == [s |-> r.s \cup q.s, did |-> r.did \cup q.did]
Only(r, S) == [r EXCEPT !.s = S]

(* The executions that are still here do something.                        *)
Assigned(r, vs)   == Only(r, Left(r) \cup {[e EXCEPT !.un = @ \ vs] : e \in Live(r)})
Declared(r, v)    == Only(r, Left(r) \cup {[e EXCEPT !.un = @ \cup {v}] : e \in Live(r)})
Gone(r, flow)     == Only(r, Left(r) \cup {[e EXCEPT !.flow = flow] : e \in Live(r)})
Back(r, flows)    == Only(r, {IF e.flow \in flows THEN [e EXCEPT !.flow = "go"] ELSE e : e \in r.s})
Used(r, o) == Only(r, r.s \cup {[e EXCEPT !.bad = {o}] : e \in {e \in Live(r) : o.v \in Pointers \cap e.un}})

Access(n) == [kind |-> "Access", v |-> n.v, at |-> Min(n.loc)]

-----------------------------------------------------------------------------
(* k.layers: what "_" stands for, the next modifier or the function's body *)
RECURSIVE Run(_, _, _), Rounds(_, _, _, _, _)

RunAll(ns, r, k) == FoldLeft(LAMBDA q, n : Run(n, q, k), r, ns)
AnyOf(ns, r, k)  == FoldLeft(Both, Only(r, Left(r)), [i \in DOMAIN ns |-> Run(ns[i], r, k)])

(* From all executions at a loop's condition on, until no round adds one.  *)
Rounds(cond, post, body, r, k) ==
  LET asked == RunAll(cond, r, k)
      again == RunAll(post, Back(Run(body, asked, k), {"continue"}), k)
      all   == Both(r, again)
  IN  IF Live(all) = Live(r) THEN Both(asked, Only(again, Left(again)))
      ELSE Rounds(cond, post, body, all, k)

Looped(cond, post, body, r, k) ==
  Both(Only(r, Left(r)), Back(Rounds(cond, post, body, Only(r, Live(r)), k), {"break"}))

Layer(r, k) ==
  LET m == Head(k.layers)
  IN  Back(Run(m.body, RunAll(m.args.sub, r, k), [k EXCEPT !.layers = Tail(@)]), {"return"})

Started(n, r) == [r EXCEPT !.did = @ \cup {Min(n.loc)}]

Run(n, r, k) ==
  IF Live(r) = {} THEN r
  ELSE LET a == Started(n, r)
           b == Run(n.sub[1], a, k)
           c == RunAll(n.sub, a, k)
       IN  CASE n.kind = "short"   -> Both(b, Run(n.sub[2], b, k))
             [] n.kind \in {"conditional", "try"} -> AnyOf(Tail(n.sub), b, k)
             [] n.kind = "if"      ->
                  IF Len(n.sub) = 2 THEN Both(b, Run(n.sub[2], b, k)) ELSE AnyOf(Tail(n.sub), b, k)
             [] n.kind = "switch"  ->
                  Both(AnyOf(Tail(n.sub), b, k), IF n.v = "default" THEN Only(b, Left(b)) ELSE b)
             [] n.kind = "for"     -> Looped(<<n.sub[2]>>, <<n.sub[3]>>, n.sub[4], b, k)
             [] n.kind = "while"   -> Looped(<<n.sub[1]>>, <<>>, n.sub[2], a, k)
             [] n.kind = "dowhile" ->   \* once, and then any number of rounds
                  LET once == Run(n.sub[2], Back(Run(n.sub[1], Only(a, Live(a)), k), {"continue"}), k)
                  IN  Both(Only(a, Left(a)), Back(Rounds(<<>>, <<n.sub[2]>>, n.sub[1], once, k), {"break"}))
             [] n.kind \in {"break", "continue"} -> Gone(a, n.kind)
             [] n.kind = "throw"   -> Gone(a, "revert")
             [] n.kind = "revert"  -> Gone(c, "revert")
             [] n.kind = "require" -> Both(c, Gone(c, "revert"))
             [] n.kind = "terminate" -> Gone(c, IF n.v = "revert" THEN "revert" ELSE "stop")
             [] n.kind = "return"  ->
                  Gone(IF n.sub = <<>> THEN c ELSE Assigned(c, ToSet(k.rets)), "return")
             [] n.kind = "declare" ->
                  IF n.sub = <<>> THEN Declared(a, n.v) ELSE Assigned(Declared(c, n.v), {n.v})
             [] n.kind = "assign"  -> Run(n.sub[1], Run(n.sub[2], a, k), k)
             [] n.kind = "yulassign" -> Assigned(c, {n.v})
             [] n.kind = "id"      -> Used(a, Access(n))
             [] n.kind = "write"   -> Assigned(a, {n.v})
             [] n.kind = "placeholder" -> Layer(a, k)
             [] OTHER              -> c

RECURSIVE Descendants(_)
Descendants(n) == {n} \cup UNION {Descendants(n.sub[i]) : i \in DOMAIN n.sub}

(* The statements and expressions the source shows at a position of their  *)
(* own; "_", try and assembly are known by what is inside.                 *)
Positions(n) == {Min(m.loc) : m \in {m \in Descendants(n) : m.kind \notin {"placeholder", "try", "assembly"}}}

(* Uses of unassigned variables in executions that return, and the code    *)
(* that some execution gets to.                                            *)
RunsOf(f) ==
  LET whole == [args |-> Node("arguments", "", <<>>), body |-> f.body]
      k == [layers |-> Append(f.modifiers, whole), rets |-> f.rets]
      start == [s |-> {[un |-> ToSet(f.rets), bad |-> {}, flow |-> "go"]}, did |-> {}]
      end == FoldLeft(LAMBDA r, v : Used(r, [kind |-> "Return", v |-> v, at |-> 0]), Layer(start, k), f.rets)
      code == {f.body} \cup UNION {{f.modifiers[i].body} \cup ToSet(f.modifiers[i].args.sub) : i \in DOMAIN f.modifiers}
  IN  [used |-> UNION {e.bad : e \in Live(end)}, executed |-> end.did, positions |-> UNION {Positions(n) : n \in code}]
=============================================================================
