----------------------------- MODULE PeepholeRun -----------------------------
(***************************************************************************)
(* The peephole loop of Assembly::optimiseInternal run on every small      *)
(* assembly: code generation appends items one by one, then optimise() is  *)
(* called until it reports no improvement.                                 *)
(***************************************************************************)
EXTENDS Peephole

CONSTANTS
  Alphabets,   \* sets of items; all items of a source belong to one of them
  MaxItems     \* bound on the length of the generated code

(* An operation is one of the table.                                       *)
ASSUME AlphabetsAssumption ==
  /\ MaxItems \in Nat
  /\ \A item \in UNION Alphabets :
       item.type = "Operation" => item.op \in DOMAIN instructionInfo

VARIABLES
  source,      \* the items as code generation appended them
  items,       \* m_items: the items in their current, optimised form
  phase        \* "append", "peephole" or "done"

vars == <<source, items, phase>>

-----------------------------------------------------------------------------
Init ==
  /\ source = <<>>
  /\ items = <<>>
  /\ phase = "append"

(* Bounds the sources: they do not mix items of different alphabets.       *)
InOneAlphabet(code) == \E A \in Alphabets : \A i \in DOMAIN code : code[i] \in A

append(item) ==
  /\ phase = "append"
  /\ Len(source) < MaxItems
  /\ InOneAlphabet(Append(source, item))
  /\ item.type = "Tag" => \A i \in DOMAIN source : source[i] # item
  /\ source' = Append(source, item)
  /\ items' = source'
  /\ UNCHANGED phase

startOptimise ==
  /\ phase = "append"
  /\ phase' = "peephole"
  /\ UNCHANGED <<source, items>>

(* One call of PeepholeOptimiser::optimise in the driver's while loop.     *)
optimise ==
  /\ phase = "peephole"
  /\ \E new \in {OptimisedItems(items)} :
       IF Improves(new, items)
       THEN items' = new /\ UNCHANGED phase
       ELSE phase' = "done" /\ UNCHANGED items
  /\ UNCHANGED source

Next == (\E item \in UNION Alphabets : append(item)) \/ startOptimise \/ optimise

Spec == Init /\ [][Next]_vars /\ WF_vars(optimise)

-----------------------------------------------------------------------------
(* The rules keep every label and invent no reference: JumpdestRemover     *)
(* alone decides which tags disappear, and assemble() relies on every      *)
(* PushTag naming a tag of the original code.                              *)
LabelsKept ==
  /\ \A i \in DOMAIN source : source[i].type = "Tag" => \E j \in DOMAIN items : items[j] = source[i]
  /\ \A j \in DOMAIN items : items[j].type = "PushTag" => \E i \in DOMAIN source : source[i] = items[j]

(* The driver's loop ends: the assertion "Peephole optimizer seems to be   *)
(* stuck" is never reached.                                                *)
PeepholeTerminates == phase = "peephole" ~> phase = "done"
=============================================================================
