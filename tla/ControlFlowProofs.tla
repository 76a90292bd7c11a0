-------------------------- MODULE ControlFlowProofs --------------------------
(***************************************************************************)
(* checkUninitializedAccess computes the least solution of the flow        *)
(* equations, for every control flow graph and every order of its nodes in *)
(* memory.                                                                 *)
(***************************************************************************)
EXTENDS ControlFlowAnalyzer, TLAPS

IsInfo(i) == DOMAIN i = {"atEntry", "atExit", "accesses"}

(* The graph is one, every node has its info, and what is reported are the *)
(* accesses that arrived at the exit.                                      *)
FlowTyped ==
  /\ flow.entry \in Nodes /\ flow.exit \in Nodes
  /\ \A n \in Nodes : flow.nodes[n].exits \subseteq Nodes
  /\ DOMAIN nodeInfos = Nodes /\ \A n \in Nodes : IsInfo(nodeInfos[n])
  /\ nodesToTraverse \subseteq Nodes
  /\ pc # "traverse" => nodesToTraverse = {} /\ reported = nodeInfos[flow.exit].accesses

(* Only nodes at which something arrived, and the entry, are walked.       *)
QueuedWalked == \A n \in nodesToTraverse : Walked(n)

(* E and A solve the flow equations: what is unassigned at the entry of a  *)
(* node and what was accessed up to its exit, along the arcs from the      *)
(* entry of the function and from the nodes at which something arrives.    *)
Solution(E, A) ==
  \A n \in Nodes : n = flow.entry \/ E[n] # {} \/ A[n] # {} =>
    LET o == flow.nodes[n].occurrences
    IN  /\ Uses(o, E[n]) \subseteq A[n]
        /\ \A m \in flow.nodes[n].exits : /\ Unassigned(o, E[n], Len(o)) \subseteq E[m]
                                          /\ A[n] \subseteq A[m]

(* The analysis never knows more than any solution says.                   *)
BelowSolutions ==
  \A E, A : Solution(E, A) =>
    \A n \in Nodes : nodeInfos[n].atEntry \subseteq E[n] /\ nodeInfos[n].accesses \subseteq A[n]

FlowInv == FlowTyped /\ QueuedWalked /\ PathsWalked /\ BelowSolutions

(* The errors are what every solution of the flow equations has at the     *)
(* exit, and some solution has nothing else there: the errors do not       *)
(* depend on the order in which the nodes were taken.                      *)
ReportsLeast ==
  pc # "traverse" =>
    /\ \A E, A : Solution(E, A) => reported \subseteq A[flow.exit]
    /\ \E E, A : Solution(E, A) /\ reported = A[flow.exit]

-----------------------------------------------------------------------------
(* With more variables unassigned at the entry, more are at the exit.      *)
LEMMA UnassignedMonotone ==
  ASSUME NEW o, NEW S, NEW T, S \subseteq T, NEW i
  PROVE  Unassigned(o, S, i) \subseteq Unassigned(o, T, i)
BY DEF Unassigned

(* With more variables unassigned at the entry, more accesses are without  *)
(* assignment.                                                             *)
LEMMA UsesMonotone ==
  ASSUME NEW o, NEW S, NEW T, S \subseteq T
  PROVE  Uses(o, S) \subseteq Uses(o, T)
<1>1. \A i : Unassigned(o, S, i) \subseteq Unassigned(o, T, i)
  BY UnassignedMonotone
<1> QED
  BY <1>1 DEF Uses

(* Walking a node changes its exit and its accesses.                       *)
LEMMA VisitedFields ==
  ASSUME NEW n, IsInfo(nodeInfos[n])
  PROVE  LET o == flow.nodes[n].occurrences
             i == nodeInfos[n]
         IN  /\ IsInfo(Visited(n))
             /\ Visited(n).atEntry = i.atEntry
             /\ Visited(n).atExit = Unassigned(o, i.atEntry, Len(o))
             /\ Visited(n).accesses = i.accesses \cup Uses(o, i.atEntry)
BY DEF Visited, IsInfo

(* Node n is the one the loop takes.                                       *)
Taken(n) ==
  LET info  == Visited(n)
      infos == [nodeInfos EXCEPT ![n] = info]
      exits == flow.nodes[n].exits
  IN  /\ nodeInfos' = [m \in Nodes |->
                         IF m \in exits THEN Propagated(infos[m], info) ELSE infos[m]]
      /\ nodesToTraverse'
           = (nodesToTraverse \ {n}) \cup {m \in exits : propagateFrom(infos[m], info)}

(* What a step of the loop does to the infos, and which nodes it queues.   *)
LEMMA TraverseFields ==
  ASSUME FlowTyped, NEW n \in nodesToTraverse, Taken(n),
         NEW info, info = Visited(n), NEW exits, exits = flow.nodes[n].exits
  PROVE  /\ DOMAIN nodeInfos' = Nodes
         /\ nodesToTraverse' \subseteq Nodes
         /\ \A m \in Nodes :
              /\ IsInfo(nodeInfos'[m])
              /\ nodeInfos'[m].atEntry
                   = nodeInfos[m].atEntry \cup (IF m \in exits THEN info.atExit ELSE {})
              /\ nodeInfos'[m].atExit = IF m = n THEN info.atExit ELSE nodeInfos[m].atExit
              /\ nodeInfos'[m].accesses
                   = (IF m = n THEN info.accesses ELSE nodeInfos[m].accesses)
                       \cup (IF m \in exits THEN info.accesses ELSE {})
         /\ \A m \in Nodes \ nodesToTraverse' :
              /\ m = n \/ m \notin nodesToTraverse
              /\ nodeInfos'[m].atEntry = nodeInfos[m].atEntry
              /\ nodeInfos'[m].accesses
                   = IF m = n THEN info.accesses ELSE nodeInfos[m].accesses
         /\ \A m \in nodesToTraverse' :
              \/ m \in nodesToTraverse
              \/ nodeInfos'[m].atEntry # {} \/ nodeInfos'[m].accesses # {}
<1> DEFINE infos == [nodeInfos EXCEPT ![n] = info]
<1>0. /\ nodeInfos' = [m \in Nodes |->
                         IF m \in exits THEN Propagated(infos[m], info) ELSE infos[m]]
      /\ nodesToTraverse'
           = (nodesToTraverse \ {n}) \cup {m \in exits : propagateFrom(infos[m], info)}
  BY DEF Taken
<1>1. /\ n \in Nodes /\ exits \subseteq Nodes /\ DOMAIN nodeInfos = Nodes
      /\ IsInfo(info) /\ info.atEntry = nodeInfos[n].atEntry
  BY VisitedFields DEF FlowTyped
<1>2. \A m \in Nodes : infos[m] = IF m = n THEN info ELSE nodeInfos[m]
  BY <1>1
<1> HIDE DEF infos
<1>3. \A m \in Nodes : IsInfo(infos[m]) /\ infos[m].atEntry = nodeInfos[m].atEntry
  BY <1>1, <1>2 DEF FlowTyped
<1>4. \A m \in Nodes :
        /\ IsInfo(Propagated(infos[m], info))
        /\ Propagated(infos[m], info).atEntry = infos[m].atEntry \cup info.atExit
        /\ Propagated(infos[m], info).atExit = infos[m].atExit
        /\ Propagated(infos[m], info).accesses = infos[m].accesses \cup info.accesses
  BY <1>3 DEF Propagated, IsInfo
<1>5. DOMAIN nodeInfos' = Nodes /\ nodesToTraverse' \subseteq Nodes
  BY <1>0, <1>1 DEF FlowTyped
<1>6. \A m \in Nodes :
        nodeInfos'[m] = IF m \in exits THEN Propagated(infos[m], info) ELSE infos[m]
  BY <1>0
<1>7. \A m \in Nodes :
        /\ IsInfo(nodeInfos'[m])
        /\ nodeInfos'[m].atEntry
             = nodeInfos[m].atEntry \cup (IF m \in exits THEN info.atExit ELSE {})
        /\ nodeInfos'[m].atExit = IF m = n THEN info.atExit ELSE nodeInfos[m].atExit
        /\ nodeInfos'[m].accesses
             = (IF m = n THEN info.accesses ELSE nodeInfos[m].accesses)
                 \cup (IF m \in exits THEN info.accesses ELSE {})
  BY <1>2, <1>3, <1>4, <1>6
<1>8. ASSUME NEW m \in Nodes \ nodesToTraverse'
      PROVE  /\ m = n \/ m \notin nodesToTraverse
             /\ nodeInfos'[m].atEntry = nodeInfos[m].atEntry
             /\ nodeInfos'[m].accesses
                  = IF m = n THEN info.accesses ELSE nodeInfos[m].accesses
  <2>1. m \in exits => info.atExit \subseteq infos[m].atEntry /\ info.accesses \subseteq infos[m].accesses
    BY <1>0 DEF propagateFrom
  <2>2. infos[m].atEntry = nodeInfos[m].atEntry
        /\ infos[m].accesses = IF m = n THEN info.accesses ELSE nodeInfos[m].accesses
    BY <1>2, <1>3
  <2>3. m = n \/ m \notin nodesToTraverse
    BY <1>0
  <2>4. nodeInfos'[m].atEntry = nodeInfos[m].atEntry
    <3>1. nodeInfos'[m].atEntry
            = nodeInfos[m].atEntry \cup (IF m \in exits THEN info.atExit ELSE {})
      BY <1>7
    <3> QED
      BY <2>1, <2>2, <3>1
  <2>5. nodeInfos'[m].accesses = IF m = n THEN info.accesses ELSE nodeInfos[m].accesses
    <3>1. nodeInfos'[m].accesses
            = infos[m].accesses \cup (IF m \in exits THEN info.accesses ELSE {})
      BY <1>7, <2>2
    <3>2. nodeInfos'[m].accesses = infos[m].accesses
      BY <2>1, <3>1
    <3> QED
      BY <2>2, <3>2
  <2> QED
    BY <2>3, <2>4, <2>5
<1>9. ASSUME NEW m \in nodesToTraverse', m \notin nodesToTraverse
      PROVE  nodeInfos'[m].atEntry # {} \/ nodeInfos'[m].accesses # {}
  <2>1. m \in exits /\ (info.atExit # {} \/ info.accesses # {})
    BY <1>0, <1>9 DEF propagateFrom
  <2> QED
    BY <1>1, <1>7, <2>1
<1> QED
  BY <1>5, <1>7, <1>8, <1>9

-----------------------------------------------------------------------------
(* The invariant holds before the first node is walked.                    *)
LEMMA FlowInvInit ==
  ASSUME Init
  PROVE  FlowInv
<1>1. /\ flow.entry \in Nodes /\ flow.exit \in Nodes
      /\ \A n \in Nodes : flow.nodes[n].exits \subseteq Nodes
  BY FlowAssumption DEF Init, Nodes
<1>2. DOMAIN nodeInfos = Nodes /\ nodesToTraverse = {flow.entry} /\ pc = "traverse"
  BY DEF Init, Nodes
<1>3. \A n \in Nodes : /\ nodeInfos[n] = NoInfo /\ IsInfo(nodeInfos[n])
                       /\ nodeInfos[n].atEntry = {} /\ nodeInfos[n].accesses = {}
  BY DEF Init, Nodes, NoInfo, IsInfo
<1>4. FlowTyped
  BY <1>1, <1>2, <1>3 DEF FlowTyped
<1>5. QueuedWalked /\ PathsWalked
  BY <1>2, <1>3 DEF QueuedWalked, PathsWalked, Walked
<1>6. BelowSolutions
  BY <1>3 DEF BelowSolutions
<1> QED
  BY <1>4, <1>5, <1>6 DEF FlowInv

(* The graph does not change.                                              *)
LEMMA GraphUnchanged ==
  ASSUME UNCHANGED flow
  PROVE  /\ Nodes' = Nodes
         /\ \A E, A : Solution(E, A)' <=> Solution(E, A)
BY DEF Nodes, Solution

(* Walking a node keeps the invariant.                                     *)
LEMMA FlowInvTraverse ==
  ASSUME FlowInv, traverse
  PROVE  FlowInv'
<1>1. PICK n \in nodesToTraverse : Taken(n)
  BY DEF traverse, Taken
<1> DEFINE info  == Visited(n)
           exits == flow.nodes[n].exits
           o     == flow.nodes[n].occurrences
           In(m)  == nodeInfos[m].atEntry
           Acc(m) == nodeInfos[m].accesses
<1>2. /\ UNCHANGED flow /\ pc = "traverse" /\ pc' = pc
      /\ Nodes' = Nodes /\ \A E, A : Solution(E, A)' <=> Solution(E, A)
  BY GraphUnchanged DEF traverse
<1>3. /\ n \in Nodes /\ exits \subseteq Nodes
      /\ info.atExit = Unassigned(o, In(n), Len(o))
      /\ info.accesses = Acc(n) \cup Uses(o, In(n))
  BY VisitedFields DEF FlowInv, FlowTyped
<1>4. /\ DOMAIN nodeInfos' = Nodes
      /\ nodesToTraverse' \subseteq Nodes
      /\ \A m \in Nodes :
           /\ IsInfo(nodeInfos'[m])
           /\ nodeInfos'[m].atEntry = In(m) \cup (IF m \in exits THEN info.atExit ELSE {})
           /\ nodeInfos'[m].atExit = IF m = n THEN info.atExit ELSE nodeInfos[m].atExit
           /\ nodeInfos'[m].accesses
                = (IF m = n THEN info.accesses ELSE Acc(m))
                    \cup (IF m \in exits THEN info.accesses ELSE {})
      /\ \A m \in Nodes \ nodesToTraverse' :
           /\ m = n \/ m \notin nodesToTraverse
           /\ nodeInfos'[m].atEntry = In(m)
           /\ nodeInfos'[m].accesses = IF m = n THEN info.accesses ELSE Acc(m)
      /\ \A m \in nodesToTraverse' :
           \/ m \in nodesToTraverse
           \/ nodeInfos'[m].atEntry # {} \/ nodeInfos'[m].accesses # {}
  <2>1. FlowTyped /\ info = Visited(n) /\ exits = flow.nodes[n].exits
    BY DEF FlowInv
  <2> HIDE DEF info, exits
  <2> QED
    BY <1>1, <2>1, TraverseFields
<1> HIDE DEF info
<1>5. FlowTyped'
  BY <1>2, <1>4 DEF FlowInv, FlowTyped
<1>6. \A m \in Nodes : In(m) \subseteq nodeInfos'[m].atEntry /\ Acc(m) \subseteq nodeInfos'[m].accesses
  BY <1>3, <1>4
<1>7. QueuedWalked'
  <2>1. ASSUME NEW m \in nodesToTraverse'
        PROVE  m = flow.entry \/ nodeInfos'[m].atEntry # {} \/ nodeInfos'[m].accesses # {}
    <3>1. CASE m \in nodesToTraverse
      <4>1. m = flow.entry \/ In(m) # {} \/ Acc(m) # {}
        BY <3>1 DEF FlowInv, QueuedWalked, Walked
      <4> QED
        BY <1>4, <1>6, <4>1
    <3> QED
      BY <1>4, <3>1
  <2> QED
    BY <1>2, <2>1 DEF QueuedWalked, Walked
<1>8. PathsWalked'
  <2> SUFFICES ASSUME NEW k \in Nodes \ nodesToTraverse',
                      k = flow.entry \/ nodeInfos'[k].atEntry # {} \/ nodeInfos'[k].accesses # {}
               PROVE  Settled(k)'
    BY <1>2 DEF PathsWalked, Walked
  <2>1. CASE k = n
    <3>1. nodeInfos'[k].atExit = info.atExit /\ nodeInfos'[k].accesses = info.accesses
          /\ nodeInfos'[k].atEntry = In(n)
      BY <1>4, <2>1
    <3>2. \A m \in exits : /\ info.atExit \subseteq nodeInfos'[m].atEntry
                           /\ info.accesses \subseteq nodeInfos'[m].accesses
      BY <1>3, <1>4
    <3> QED
      BY <1>2, <1>3, <2>1, <3>1, <3>2 DEF Settled
  <2>2. CASE k # n
    <3>1. /\ k \notin nodesToTraverse
          /\ nodeInfos'[k].atEntry = In(k) /\ nodeInfos'[k].accesses = Acc(k)
          /\ nodeInfos'[k].atExit = nodeInfos[k].atExit
      BY <1>4, <2>2
    <3>2. Settled(k)
      BY <3>1 DEF FlowInv, PathsWalked, Walked
    <3>3. flow.nodes[k].exits \subseteq Nodes
      BY DEF FlowInv, FlowTyped
    <3> QED
      BY <1>2, <1>6, <3>1, <3>2, <3>3 DEF Settled
  <2> QED
    BY <2>1, <2>2
<1>9. BelowSolutions'
  <2> SUFFICES ASSUME NEW E, NEW A, Solution(E, A), NEW m \in Nodes
               PROVE  nodeInfos'[m].atEntry \subseteq E[m] /\ nodeInfos'[m].accesses \subseteq A[m]
    BY <1>2 DEF BelowSolutions
  <2>1. \A x \in Nodes : In(x) \subseteq E[x] /\ Acc(x) \subseteq A[x]
    BY DEF FlowInv, BelowSolutions
  <2>2. n = flow.entry \/ E[n] # {} \/ A[n] # {}
    BY <1>3, <2>1 DEF FlowInv, QueuedWalked, Walked
  <2>3. /\ Uses(o, E[n]) \subseteq A[n]
        /\ m \in exits => Unassigned(o, E[n], Len(o)) \subseteq E[m] /\ A[n] \subseteq A[m]
    BY <1>3, <2>2 DEF Solution
  <2>4. info.accesses \subseteq A[n]
    BY <1>3, <2>1, <2>3, UsesMonotone
  <2>5. info.atExit \subseteq Unassigned(o, E[n], Len(o))
    BY <1>3, <2>1, UnassignedMonotone
  <2> QED
    BY <1>4, <2>1, <2>3, <2>4, <2>5
<1> QED
  BY <1>5, <1>7, <1>8, <1>9 DEF FlowInv

(* The other steps leave the infos as they are.                            *)
LEMMA FlowInvNext ==
  ASSUME FlowInv, [Next]_vars
  PROVE  FlowInv'
<1>1. CASE traverse
  BY <1>1, FlowInvTraverse
<1>2. ASSUME UNCHANGED <<flow, nodeInfos, nodesToTraverse>>,
             pc' # "traverse" => nodesToTraverse = {} /\ reported' = nodeInfos[flow.exit].accesses
      PROVE  FlowInv'
  <2>1. UNCHANGED flow /\ UNCHANGED nodeInfos /\ UNCHANGED nodesToTraverse
    BY <1>2
  <2>2. Nodes' = Nodes /\ \A E, A : Solution(E, A)' <=> Solution(E, A)
    BY <2>1, GraphUnchanged
  <2>3. FlowTyped'
    BY <1>2, <2>1, <2>2 DEF FlowInv, FlowTyped
  <2>4. QueuedWalked' /\ PathsWalked'
    BY <2>1, <2>2 DEF FlowInv, QueuedWalked, PathsWalked, Walked, Settled
  <2>5. BelowSolutions'
    BY <2>1, <2>2 DEF FlowInv, BelowSolutions
  <2> QED
    BY <2>3, <2>4, <2>5 DEF FlowInv
<1>3. CASE reportAccesses
  BY <1>2, <1>3 DEF reportAccesses, AccessesAtExit
<1>4. CASE checkUnreachable
  BY <1>2, <1>4 DEF checkUnreachable, FlowInv, FlowTyped
<1>5. CASE UNCHANGED vars
  BY <1>2, <1>5 DEF vars, FlowInv, FlowTyped
<1> QED
  BY <1>1, <1>3, <1>4, <1>5 DEF Next

(* The invariant holds in every reachable state.                           *)
LEMMA FlowInvHolds == Spec => []FlowInv
<1>1. Init => FlowInv
  BY FlowInvInit
<1>2. FlowInv /\ [Next]_vars => FlowInv'
  BY FlowInvNext
<1> QED
  BY <1>1, <1>2, PTL DEF Spec

(* Whatever is not queued has been passed on to all exits, for every graph *)
(* and every order of the nodes.                                           *)
THEOREM FlowPathsWalked == Spec => []PathsWalked
<1>1. FlowInv => PathsWalked
  BY DEF FlowInv
<1> QED
  BY <1>1, FlowInvHolds, PTL

(* The errors of checkUninitializedAccess are the accesses the least       *)
(* solution of the flow equations has at the exit of the function.         *)
THEOREM FlowReportsLeast == Spec => []ReportsLeast
<1>1. FlowInv => ReportsLeast
  <2> SUFFICES ASSUME FlowInv, pc # "traverse"
               PROVE  /\ \A E, A : Solution(E, A) => reported \subseteq A[flow.exit]
                      /\ \E E, A : Solution(E, A) /\ reported = A[flow.exit]
    BY DEF ReportsLeast
  <2>1. /\ nodesToTraverse = {} /\ reported = nodeInfos[flow.exit].accesses
        /\ flow.exit \in Nodes /\ \A n \in Nodes : flow.nodes[n].exits \subseteq Nodes
    BY DEF FlowInv, FlowTyped
  <2>2. \A E, A : Solution(E, A) => reported \subseteq A[flow.exit]
    BY <2>1 DEF FlowInv, BelowSolutions
  <2> DEFINE E == [n \in Nodes |-> nodeInfos[n].atEntry]
             A == [n \in Nodes |-> nodeInfos[n].accesses]
  <2>3. Solution(E, A)
    <3> SUFFICES ASSUME NEW n \in Nodes, n = flow.entry \/ E[n] # {} \/ A[n] # {}
                 PROVE  LET o == flow.nodes[n].occurrences
                        IN  /\ Uses(o, E[n]) \subseteq A[n]
                            /\ \A m \in flow.nodes[n].exits :
                                 /\ Unassigned(o, E[n], Len(o)) \subseteq E[m]
                                 /\ A[n] \subseteq A[m]
      BY DEF Solution
    <3>1. Settled(n)
      BY <2>1 DEF FlowInv, PathsWalked, Walked
    <3> QED
      BY <2>1, <3>1 DEF Settled
  <2>4. reported = A[flow.exit]
    BY <2>1
  <2> QED
    BY <2>2, <2>3, <2>4
<1> QED
  BY <1>1, FlowInvHolds, PTL
=============================================================================
