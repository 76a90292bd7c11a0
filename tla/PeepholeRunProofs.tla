-------------------------- MODULE PeepholeRunProofs --------------------------
(***************************************************************************)
(* The peephole loop keeps the labels of programs of any length over any   *)
(* alphabet of items.                                                      *)
(***************************************************************************)
EXTENDS PeepholeRun, PeepholeProofs

Items == (UNION Alphabets) \cup {Operation(o) : o \in DOMAIN instructionInfo}

PeepholeInv ==
  /\ source \in Seq(Items) /\ items \in Seq(Items)
  /\ phase = "append" => items = source
  /\ LabelsKept

(* Every item of the alphabets that is an operation is in the table.       *)
LEMMA ItemsAreItems == ItemSet(Items)
<1>1. ASSUME NEW x \in Items, x.type = "Operation"
      PROVE  x.op \in DOMAIN instructionInfo
  <2>1. CASE x \in UNION Alphabets
    BY <1>1, <2>1, AlphabetsAssumption
  <2>2. CASE x \in {Operation(o) : o \in DOMAIN instructionInfo}
    <3>1. PICK o \in DOMAIN instructionInfo : x = Operation(o)
      BY <2>2
    <3>2. Operation(o).op = o
      BY DEF Operation
    <3> QED  BY <3>1, <3>2
  <2> QED  BY <2>1, <2>2 DEF Items
<1>2. \A o \in DOMAIN instructionInfo : Operation(o) \in Items
  BY DEF Items
<1> QED  BY <1>1, <1>2 DEF ItemSet

(* The optimiser starts with the code as it was generated.                 *)
LEMMA InitPeepholeInv == Init => PeepholeInv
  BY DEF Init, PeepholeInv, LabelsKept

(* Neither the author nor a call of optimise loses a label.                *)
LEMMA PeepholeStep == PeepholeInv /\ [Next]_vars => PeepholeInv'
<1> SUFFICES ASSUME PeepholeInv, [Next]_vars PROVE PeepholeInv'
  OBVIOUS
<1> USE DEF PeepholeInv
<1>1. ASSUME NEW item \in UNION Alphabets, append(item)
      PROVE  PeepholeInv'
  <2>1. source' \in Seq(Items) /\ items' = source'
    BY <1>1 DEF append, Items
  <2> QED  BY <2>1 DEF LabelsKept
<1>2. CASE startOptimise
  BY <1>2 DEF startOptimise, LabelsKept
<1>3. CASE optimise
  <2>1. CASE items' = OptimisedItems(items)
    <3> DEFINE new == OptimisedItems(items)
    <3>1. new \in Seq(Items) /\ SameLabels(new, items, 1, Len(items) + 1)
      BY ItemsAreItems, ScanSound
    <3> HIDE DEF new
    <3>2. items' = new /\ source' = source /\ phase' # "append"
      BY <1>3, <2>1 DEF optimise, new
    <3>3. DOMAIN items = 1 .. (Len(items) + 1) - 1
      OBVIOUS
    <3>4. LabelsKept'
      BY <3>1, <3>2, <3>3 DEF SameLabels, LabelsKept
    <3> QED  BY <3>1, <3>2, <3>4
  <2>2. CASE items' = items
    BY <1>3, <2>2 DEF optimise, LabelsKept
  <2> QED  BY <1>3, <2>1, <2>2 DEF optimise
<1>4. CASE UNCHANGED vars
  BY <1>4 DEF vars, LabelsKept
<1> QED  BY <1>1, <1>2, <1>3, <1>4 DEF Next

(* However often PeepholeOptimiser::optimise is called, on code of any     *)
(* length, every label of the generated code stays and every reference is  *)
(* one of the generated code.                                              *)
THEOREM PeepholeLabelsKept == Spec => []LabelsKept
<1>1. PeepholeInv => LabelsKept
  BY DEF PeepholeInv
<1> QED
  BY <1>1, InitPeepholeInv, PeepholeStep, PTL DEF Spec
=============================================================================
