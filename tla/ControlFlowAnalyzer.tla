------------------------- MODULE ControlFlowAnalyzer -------------------------
(***************************************************************************)
(* ControlFlowAnalyzer.cpp: on the control flow graph of a function, which *)
(* storage or calldata pointers may be used before they are assigned, and  *)
(* which code is never reached.  Nodes are taken from a set of pointers,   *)
(* in the order of their addresses, which is not under control.            *)
(***************************************************************************)
EXTENDS Naturals, Sequences, FiniteSets

CONSTANTS
  Functions,     \* the functions to be analysed
  FlowOf(_),     \* the ControlFlowBuilder
  Orders,        \* how the nodes may lie in memory
  Address(_, _), \* where a node is in such an order
  Runs(_),       \* what executions do: used (accesses without assignment), executed (positions)
  Pointers       \* the variables of storage or calldata pointer type

(* Arcs lead to nodes of the graph.                                        *)
ASSUME FlowAssumption ==
  \A f \in Functions :
    LET g == FlowOf(f)
    IN  /\ g.entry \in DOMAIN g.nodes /\ g.exit \in DOMAIN g.nodes
        /\ \A n \in DOMAIN g.nodes : g.nodes[n].exits \subseteq DOMAIN g.nodes

VARIABLES
  function,         \* the function
  flow,             \* m_cfg.functionFlow
  order,
  nodeInfos,        \* for every node: unassigned at its entry and exit, accesses
  nodesToTraverse,
  reported,         \* the errors: accesses that need not be assigned
  warned,           \* the locations of unreachable code
  pc
vars == <<function, flow, order, nodeInfos, nodesToTraverse, reported, warned, pc>>

Nodes == DOMAIN flow.nodes
NoInfo == [atEntry |-> {}, atExit |-> {}, accesses |-> {}]

Init ==
  /\ function \in Functions
  /\ flow = FlowOf(function)
  /\ order \in Orders
  /\ nodeInfos = [n \in DOMAIN flow.nodes |-> NoInfo]
  /\ nodesToTraverse = {flow.entry}
  /\ reported = {} /\ warned = {}
  /\ pc = "traverse"

-----------------------------------------------------------------------------
(* The variables that are unassigned behind the first i occurrences of a   *)
(* node: declared, or unassigned at its entry, and not assigned since.     *)
Unassigned(occurrences, atEntry, i) ==
  {v \in atEntry \cup {occurrences[j].v : j \in 1 .. i} :
     LET about == {j \in 1 .. i : occurrences[j].v = v /\ occurrences[j].kind \in {"Declaration", "Assignment"}}
     IN  IF about = {} THEN v \in atEntry
         ELSE occurrences[CHOOSE j \in about : \A k \in about : k <= j].kind = "Declaration"}

Uses(occurrences, atEntry) ==
  {occurrences[i] : i \in {i \in DOMAIN occurrences :
     /\ occurrences[i].kind \in {"Access", "Return"}
     /\ occurrences[i].v \in Pointers \cap Unassigned(occurrences, atEntry, i)}}

Visited(n) ==
  LET o == flow.nodes[n].occurrences
      i == nodeInfos[n]
  IN  [i EXCEPT !.atExit = Unassigned(o, i.atEntry, Len(o)), !.accesses = @ \cup Uses(o, i.atEntry)]

(* Mutant: everything counts as a change.                                  *)
PropagateAlways(info, from) == TRUE

(* Mutant: new accesses do not count as a change.                          *)
PropagateUnassigned(info, from) == ~ (from.atExit \subseteq info.atEntry)

(* Something new arrives at a node.                                        *)
propagateFrom(info, from) == ~ (from.atExit \subseteq info.atEntry /\ from.accesses \subseteq info.accesses)

Propagated(info, from) ==
  [info EXCEPT !.atEntry = @ \cup from.atExit, !.accesses = @ \cup from.accesses]

(* checkUninitializedAccess: one node and its exits.                       *)
traverse ==
  /\ pc = "traverse"
  /\ \E n \in nodesToTraverse :
       /\ \A m \in nodesToTraverse : Address(order, n) <= Address(order, m)
       /\ LET info  == Visited(n)
              infos == [nodeInfos EXCEPT ![n] = info]
              exits == flow.nodes[n].exits
          IN  /\ nodeInfos' = [m \in Nodes |-> IF m \in exits THEN Propagated(infos[m], info) ELSE infos[m]]
              /\ nodesToTraverse' = (nodesToTraverse \ {n}) \cup {m \in exits : propagateFrom(infos[m], info)}
  /\ UNCHANGED <<function, flow, order, reported, warned, pc>>

(* Mutant: an access on a path that always reverts is an error as well.    *)
AccessesAnywhere(f) == UNION {nodeInfos[n].accesses : n \in Nodes}

(* The accesses some path brings to the exit.                              *)
AccessesAtExit(f) == nodeInfos[f.exit].accesses

reportAccesses ==
  /\ pc = "traverse" /\ nodesToTraverse = {}
  /\ reported' = AccessesAtExit(flow)
  /\ pc' = "unreachable"
  /\ UNCHANGED <<function, flow, order, nodeInfos, nodesToTraverse, warned>>

(* Breadth first search: what is reached along the arcs a step gives.      *)
Closure(from, Step(_)) ==
  LET grow[i \in 0 .. Cardinality(Nodes)] ==
        IF i = 0 THEN from ELSE UNION {{n} \cup Step(n) : n \in grow[i - 1]}
  IN  grow[Cardinality(Nodes)]

Exits(n)   == flow.nodes[n].exits
Entries(n) == {m \in Nodes : n \in flow.nodes[m].exits}

(* Mutant: what only leads to a revert is not looked at.                   *)
EndsNormally(f) == {f.exit, f.transactionReturn}

(* Where the flow of a function may end.                                   *)
Ends(f) == {f.exit, f.revert, f.transactionReturn}

checkUnreachable ==
  /\ pc = "unreachable"
  /\ LET reachable == Closure({flow.entry}, Exits)
         ending == Closure(Ends(flow), Entries)
     IN  warned' = UNION {flow.nodes[n].loc : n \in ending \ reachable}
  /\ pc' = "done"
  /\ UNCHANGED <<function, flow, order, nodeInfos, nodesToTraverse, reported>>

Next == traverse \/ reportAccesses \/ checkUnreachable
Spec == Init /\ [][Next]_vars /\ WF_vars(Next)

-----------------------------------------------------------------------------
(* Nodes that have been walked, or wait for it: the entry, and where       *)
(* something was unassigned, or accessed without assignment, on a way.     *)
Walked(n) ==
  n = flow.entry \/ nodeInfos[n].atEntry # {} \/ nodeInfos[n].accesses # {}

(* What a node says follows from its entry, and its exits have all of it.  *)
Settled(n) ==
  LET o == flow.nodes[n].occurrences
      i == nodeInfos[n]
  IN  /\ i.atExit = Unassigned(o, i.atEntry, Len(o))
      /\ Uses(o, i.atEntry) \subseteq i.accesses
      /\ \A m \in flow.nodes[n].exits : /\ i.atExit \subseteq nodeInfos[m].atEntry
                                        /\ i.accesses \subseteq nodeInfos[m].accesses

(* A node has to be walked again only if it is in nodesToTraverse: all     *)
(* paths "have been walked with maximal sets of unassigned variables and   *)
(* accesses" (checkUninitializedAccess) when nothing is left there.        *)
PathsWalked == \A n \in Nodes \ nodesToTraverse : Walked(n) => Settled(n)

DeclarationsWalked ==
  \A n \in Nodes :
    \/ Walked(n)
    \/ n \notin Closure({flow.entry}, Exits)
    \/ \A i \in DOMAIN flow.nodes[n].occurrences : flow.nodes[n].occurrences[i].kind # "Declaration"

(* Every use of a pointer without assignment, on some execution that       *)
(* returns, is an error: whatever the order of the nodes, through loops,   *)
(* short circuits, modifiers and jumps (checkUninitializedAccess).         *)
AccessesReported ==
  pc = "done" /\ DeclarationsWalked => Runs(function).used \subseteq reported

(* Every error is about an execution that is possible and returns.         *)
ReportsReal == pc = "done" => reported \subseteq Runs(function).used

(* Exactly the code that no execution reaches is warned about              *)
(* (checkUnreachable).                                                     *)
WarningsRight ==
  pc = "done" =>
    LET runs == Runs(function) IN warned \cap runs.positions = runs.positions \ runs.executed

(* All nodes are walked a bounded number of times, although loops lead     *)
(* back to them.                                                           *)
AnalysisEnds == <>(pc = "done")

(* "Detect every access to uninitialized storage pointers."                *)
EveryAccessReported == pc = "done" => Runs(function).used \subseteq reported
=============================================================================
