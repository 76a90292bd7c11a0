------------------------- MODULE ControlFlowBuilder -------------------------
(***************************************************************************)
(* The control flow graph of a Solidity function (ControlFlowBuilder.cpp). *)
(*                                                                         *)
(* A node of the AST has a kind, a variable if it is about one, children   *)
(* in the order of the source, and its location: the positions from its    *)
(* own to that of its last descendant.  A function has parameters, return  *)
(* parameters, modifiers with their arguments and definitions, and a body. *)
(*                                                                         *)
(* Visit(n) is what the visit of a node does to the graph, as the sequence *)
(* of its steps: nodes are created under a label, connected, made current, *)
(* and given occurrences of variables.                                     *)
(***************************************************************************)
EXTENDS Naturals, SequencesExt, FiniteSetsExt

Node(kind, v, sub) == [kind |-> kind, v |-> v, sub |-> sub, loc |-> {}]

(* The AST with its locations, from a position on.                         *)
RECURSIVE Located(_, _)
Located(n, start) ==
  LET place(t, s) == LET x == Located(s, t.at) IN [sub |-> Append(t.sub, x), at |-> Max(x.loc) + 1]
      t == FoldLeft(place, [sub |-> <<>>, at |-> start + 1], n.sub)
  IN  [n EXCEPT !.sub = t.sub, !.loc = start .. t.at - 1]

-----------------------------------------------------------------------------
(* The steps.  The state b of the builder: the nodes of the graph, the     *)
(* current one, the nodes labels stand for, for the loops around the       *)
(* current position where break and continue go to, and the return         *)
(* parameters.                                                             *)

EmptyNode == [exits |-> {}, occurrences |-> <<>>, loc |-> {}]

The(name)   == <<name>>
L(n, name)  == <<Min(n.loc), name>>
B(n, i)     == <<Min(n.loc), "branch", i>>

NewLabel(l)        == [do |-> "new", l |-> l]
Name(l)            == [do |-> "name", l |-> l]           \* l is the current node
Alias(l, m)        == [do |-> "alias", l |-> l, m |-> m]
At(l)              == [do |-> "at", l |-> l]
connect(l, m)      == [do |-> "connect", l |-> l, m |-> m]
To(l)              == [do |-> "to", l |-> l]             \* from the current node
Jump(which)        == [do |-> "jump", which |-> which]   \* to the break or continue of the loop
Scope(break, continue) == [do |-> "scope", targets |-> [break |-> break, continue |-> continue]]
EndScope           == [do |-> "end"]
visitNode(n)       == [do |-> "visit", loc |-> n.loc]
Occurs(kind, v, at) == [do |-> "occurs", occurrence |-> [kind |-> kind, v |-> v, at |-> at]]

AssignReturned(at) == [do |-> "assign", at |-> at]

smallestCovering(l, m) == IF l \cup m = {} THEN {} ELSE Min(l \cup m) .. Max(l \cup m)

Labelled(b, l, n) == [x \in DOMAIN b.labels \cup {l} |-> IF x = l THEN n ELSE b.labels[x]]

Step(b, i) ==
  CASE i.do = "new"     -> [b EXCEPT !.nodes = Append(@, EmptyNode), !.labels = Labelled(b, i.l, Len(b.nodes) + 1)]
    [] i.do = "name"    -> [b EXCEPT !.labels = Labelled(b, i.l, b.current)]
    [] i.do = "alias"   -> [b EXCEPT !.labels = Labelled(b, i.l, b.labels[i.m])]
    [] i.do = "at"      -> [b EXCEPT !.current = b.labels[i.l]]
    [] i.do = "connect" -> [b EXCEPT !.nodes[b.labels[i.l]].exits = @ \cup {b.labels[i.m]}]
    [] i.do = "to"      -> [b EXCEPT !.nodes[b.current].exits = @ \cup {b.labels[i.l]}]
    [] i.do = "jump"    -> [b EXCEPT !.nodes[b.current].exits = @ \cup {b.labels[Last(b.loops)[i.which]]}]
    [] i.do = "scope"   -> [b EXCEPT !.loops = Append(@, i.targets)]
    [] i.do = "end"     -> [b EXCEPT !.loops = Front(@)]
    [] i.do = "visit"   -> [b EXCEPT !.nodes[b.current].loc = smallestCovering(@, i.loc)]
    [] i.do = "occurs"  -> [b EXCEPT !.nodes[b.current].occurrences = Append(@, i.occurrence)]
    [] i.do = "assign"  -> [b EXCEPT !.nodes[b.current].occurrences =
                              @ \o [j \in DOMAIN b.rets |-> [kind |-> "Assignment", v |-> b.rets[j], at |-> i.at]]]

-----------------------------------------------------------------------------
(* The current flow goes on in a new node.                                 *)
createLabelHere(l) == <<NewLabel(l), To(l), At(l)>>

(* Mutant: a label is placed, but the flow before it does not get there.   *)
PlaceLabelOnly(l) == <<At(l)>>

placeAndConnectLabel(l) == <<To(l), At(l)>>

(* The flow is elsewhere; what comes next is behind a new label.           *)
Elsewhere == <<NewLabel(The("next")), At(The("next"))>>

splitFlow(ls) == FlattenSeq([i \in DOMAIN ls |-> <<NewLabel(ls[i]), To(ls[i])>>])

mergeFlow(ls, end) == Append([i \in DOMAIN ls |-> connect(ls[i], end)], At(end))


RECURSIVE Visit(_)

VisitAll(ns) == FlattenSeq([i \in DOMAIN ns |-> Visit(ns[i])])

(* Where the flow of a node ends that starts at a label: the same label    *)
(* from now on.                                                            *)
createFlow(l, n) == <<At(l)>> \o Visit(n) \o <<Name(l)>>

(* The flows of several nodes beside one another.                          *)
Branches(n, ns) ==
  LET ls == [i \in DOMAIN ns |-> B(n, i)]
  IN  splitFlow(ls) \o FlattenSeq([i \in DOMAIN ns |-> createFlow(ls[i], ns[i])])
      \o <<NewLabel(B(n, 0))>> \o mergeFlow(ls, B(n, 0))

(* One of two ways does something, the other one nothing.                  *)
Optional(n, x) ==
  splitFlow(<<B(n, 1), B(n, 2)>>) \o createFlow(B(n, 1), x) \o mergeFlow(<<B(n, 1)>>, B(n, 2))

BinaryOperation(n) == <<visitNode(n)>> \o Visit(n.sub[1]) \o Optional(n, n.sub[2])

Conditional(n) == <<visitNode(n)>> \o Visit(n.sub[1]) \o Branches(n, Tail(n.sub))

TryStatement(n) == Visit(n.sub[1]) \o Branches(n, Tail(n.sub))

IfStatement(n) ==
  <<visitNode(n)>> \o Visit(n.sub[1])
  \o (IF Len(n.sub) = 2 THEN Optional(n, n.sub[2]) ELSE Branches(n, Tail(n.sub)))

ForStatement(n) ==
  <<visitNode(n)>> \o Visit(n.sub[1])
  \o createLabelHere(L(n, "condition")) \o Visit(n.sub[2])
  \o <<NewLabel(L(n, "post"))>> \o splitFlow(<<L(n, "body"), L(n, "after")>>)
  \o <<At(L(n, "body")), Scope(L(n, "after"), L(n, "post"))>> \o Visit(n.sub[4]) \o <<EndScope>>
  \o placeAndConnectLabel(L(n, "post")) \o Visit(n.sub[3])
  \o <<To(L(n, "condition")), At(L(n, "after"))>>

DoWhileStatement(n) ==
  <<visitNode(n), NewLabel(L(n, "after"))>> \o createLabelHere(L(n, "body"))
  \o <<NewLabel(L(n, "condition")), Scope(L(n, "after"), L(n, "condition"))>> \o Visit(n.sub[1]) \o <<EndScope>>
  \o placeAndConnectLabel(L(n, "condition")) \o Visit(n.sub[2])
  \o <<To(L(n, "body"))>> \o placeAndConnectLabel(L(n, "after"))

WhileStatement(n) ==
  <<visitNode(n)>> \o createLabelHere(L(n, "condition")) \o Visit(n.sub[1])
  \o splitFlow(<<L(n, "body"), L(n, "after")>>)
  \o <<At(L(n, "body")), Scope(L(n, "after"), L(n, "condition"))>> \o Visit(n.sub[2]) \o <<EndScope>>
  \o <<To(L(n, "condition")), At(L(n, "after"))>>

BreakOrContinue(n) == <<visitNode(n), Jump(n.kind)>> \o Elsewhere

Throw(n) == <<visitNode(n), To(The("revert"))>> \o Elsewhere

PlaceholderStatement == <<To(The("placeholderEntry"))>> \o Elsewhere \o <<connect(The("placeholderExit"), The("next"))>>

Revert(n)  == <<visitNode(n)>> \o VisitAll(n.sub) \o <<To(The("revert"))>> \o Elsewhere
Require(n) == <<visitNode(n)>> \o VisitAll(n.sub) \o <<To(The("revert"))>> \o createLabelHere(The("next"))

(* Returning something assigns all return parameters.                      *)
Return(n) ==
  <<visitNode(n)>> \o VisitAll(n.sub)
  \o (IF n.sub = <<>> THEN <<>> ELSE <<AssignReturned(Min(n.loc))>>)
  \o <<To(The("return"))>> \o Elsewhere

VariableDeclarationStatement(n) ==
  <<visitNode(n), Occurs("Declaration", n.v, 0)>> \o VisitAll(n.sub)
  \o (IF n.sub = <<>> THEN <<>> ELSE <<Occurs("Assignment", n.v, Min(Last(n.sub).loc))>>)

Identifier(n) == <<visitNode(n), Occurs(IF n.kind = "write" THEN "Assignment" ELSE "Access", n.v, Min(n.loc))>>

(* Inline assembly: its if, for, break and continue are as above.          *)
YulAssignment(n) == <<visitNode(n)>> \o VisitAll(n.sub) \o <<Occurs("Assignment", n.v, Min(n.loc))>>

YulSwitch(n) ==
  <<visitNode(n)>> \o Visit(n.sub[1]) \o <<Name(L(n, "before"))>> \o Branches(n, Tail(n.sub))
  \o (IF n.v = "default" THEN <<>> ELSE <<connect(L(n, "before"), B(n, 0))>>)

YulTerminatingCall(n) ==
  <<visitNode(n)>> \o VisitAll(n.sub) \o <<To(The(IF n.v = "revert" THEN "revert" ELSE "transactionReturn"))>> \o Elsewhere

(* Everything else is visited child by child: for an assignment, what is   *)
(* written before what it is given.                                        *)
Visit(n) ==
  CASE n.kind = "short"       -> BinaryOperation(n)
    [] n.kind = "conditional" -> Conditional(n)
    [] n.kind = "try"         -> TryStatement(n)
    [] n.kind = "if"          -> IfStatement(n)
    [] n.kind = "for"         -> ForStatement(n)
    [] n.kind = "while"       -> WhileStatement(n)
    [] n.kind = "dowhile"     -> DoWhileStatement(n)
    [] n.kind \in {"break", "continue"} -> BreakOrContinue(n)
    [] n.kind = "throw"       -> Throw(n)
    [] n.kind = "placeholder" -> PlaceholderStatement
    [] n.kind = "revert"      -> Revert(n)
    [] n.kind = "require"     -> Require(n)
    [] n.kind = "return"      -> Return(n)
    [] n.kind = "declare"     -> VariableDeclarationStatement(n)
    [] n.kind \in {"id", "write"} -> Identifier(n)
    [] n.kind = "assembly"    -> VisitAll(n.sub)
    [] n.kind = "yulassign"   -> YulAssignment(n)
    [] n.kind = "switch"      -> YulSwitch(n)
    [] n.kind = "terminate"   -> YulTerminatingCall(n)
    [] OTHER                  -> <<visitNode(n)>> \o VisitAll(n.sub)

-----------------------------------------------------------------------------
(* The definition of a modifier is put around what follows.                *)
ModifierInvocation(m) ==
  VisitAll(m.args.sub) \o <<NewLabel(The("placeholderEntry")), NewLabel(The("placeholderExit"))>> \o Visit(m.body)
  \o <<To(The("return")), At(The("placeholderEntry")), Alias(The("return"), The("placeholderExit"))>>

(* Parameters are assigned from outside, return parameters are used by the *)
(* exit.                                                                   *)
DeclareParameter(v) == <<Occurs("Declaration", v, 0), Occurs("Assignment", v, 0)>>
DeclareReturned(v)  == <<Occurs("Declaration", v, 0), At(The("return")), Occurs("Return", v, 0), At(The("entry"))>>

FunctionDefinition(f) ==
  FlattenSeq([i \in DOMAIN f.params |-> DeclareParameter(f.params[i])])
  \o FlattenSeq([i \in DOMAIN f.rets |-> DeclareReturned(f.rets[i])])
  \o FlattenSeq([i \in DOMAIN f.modifiers |-> ModifierInvocation(f.modifiers[i])])
  \o Visit(f.body) \o <<To(The("return"))>>

(* The steps one after the other.                                          *)
RECURSIVE Perform(_, _)
Perform(b, steps) ==
  LET half == Len(steps) \div 2
      c == Perform(b, SubSeq(steps, 1, half))
  IN  CASE steps = <<>>   -> b
        [] Len(steps) = 1 -> Step(b, steps[1])
        [] OTHER          -> IF c.current \in DOMAIN c.nodes THEN Perform(c, SubSeq(steps, half + 1, Len(steps))) ELSE c

createFunctionFlow(f) ==
  LET b == [nodes |-> <<EmptyNode, EmptyNode, EmptyNode, EmptyNode>>, current |-> 1, loops |-> <<>>, rets |-> f.rets,
            labels |-> The("entry") :> 1 @@ The("return") :> 2 @@ The("revert") :> 3 @@ The("transactionReturn") :> 4]
  IN  [nodes |-> Perform(b, FunctionDefinition(f)).nodes,
       entry |-> 1, exit |-> 2, revert |-> 3, transactionReturn |-> 4]
=============================================================================
