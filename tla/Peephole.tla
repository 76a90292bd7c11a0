------------------------------ MODULE Peephole ------------------------------
(***************************************************************************)
(* libevmasm's PeepholeOptimiser.                                          *)
(*                                                                         *)
(* A rule looks at the items from position i on and yields the empty set   *)
(* (no match) or one rewrite: how many items it consumes and what it       *)
(* emits instead.  One call of optimise() scans the items once from left   *)
(* to right, applying at each position the first rule that matches, and    *)
(* keeps the result only if it is an improvement.                          *)
(***************************************************************************)
EXTENDS Instructions, Integers, FiniteSets

CONSTANT
  TagMask      \* the constant 0xFFFFFFFF: every tag address fits under it

Rewrite(size, out) == {[size |-> size, out |-> out]}
NoRewrite == {}

Fits(items, i, size) == i + size - 1 <= Len(items)

PushPop(items, i) ==
  IF /\ Fits(items, i, 2)
     /\ IsDup(items[i]) \/ items[i].type \in {"Push", "PushTag"}
     /\ IsOp(items[i + 1], {"POP"})
  THEN Rewrite(2, <<>>) ELSE NoRewrite

OpPop(items, i) ==
  IF /\ Fits(items, i, 2)
     /\ items[i].type = "Operation"
     /\ IsOp(items[i + 1], {"POP"})
     /\ instructionInfo[items[i].op].ret = 1
     /\ ~instructionInfo[items[i].op].sideEffects
  THEN Rewrite(2, [j \in 1 .. instructionInfo[items[i].op].args |-> Operation("POP")])
  ELSE NoRewrite

DoublePush(items, i) ==
  IF /\ Fits(items, i, 2)
     /\ items[i].type = "Push"
     /\ items[i + 1] = items[i]
  THEN Rewrite(2, <<items[i], Operation("DUP1")>>) ELSE NoRewrite

DoubleSwap(items, i) ==
  IF Fits(items, i, 2) /\ IsSwap(items[i]) /\ items[i + 1] = items[i]
  THEN Rewrite(2, <<>>) ELSE NoRewrite

CommutativeSwap(items, i) ==
  IF Fits(items, i, 2) /\ IsOp(items[i], {"SWAP1"}) /\ isCommutativeOperation(items[i + 1])
  THEN Rewrite(2, <<items[i + 1]>>) ELSE NoRewrite

swappableOps == [LT |-> "GT", GT |-> "LT"]

SwapComparison(items, i) ==
  IF /\ Fits(items, i, 2)
     /\ IsOp(items[i], {"SWAP1"})
     /\ IsOp(items[i + 1], DOMAIN swappableOps)
  THEN Rewrite(2, <<Operation(swappableOps[items[i + 1].op])>>) ELSE NoRewrite

DupSwap(items, i) ==
  IF /\ Fits(items, i, 2)
     /\ IsDup(items[i]) /\ IsSwap(items[i + 1])
     /\ DupNumber[items[i].op] = SwapNumber[items[i + 1].op]
  THEN Rewrite(2, <<items[i]>>) ELSE NoRewrite

IsZeroIsZeroJumpI(items, i) ==
  IF /\ Fits(items, i, 4)
     /\ IsOp(items[i], {"ISZERO"}) /\ IsOp(items[i + 1], {"ISZERO"})
     /\ items[i + 2].type = "PushTag" /\ IsOp(items[i + 3], {"JUMPI"})
  THEN Rewrite(4, <<items[i + 2], items[i + 3]>>) ELSE NoRewrite

(* Mutant: the condition of a JUMPI stays on the stack.                    *)
JumpToNextNoPop(items, i) ==
  IF /\ Fits(items, i, 3)
     /\ items[i].type = "PushTag" /\ IsOp(items[i + 1], {"JUMP", "JUMPI"})
     /\ items[i + 2] = Tag(items[i].data)
  THEN Rewrite(3, <<items[i + 2]>>) ELSE NoRewrite

JumpToNext(items, i) ==
  IF /\ Fits(items, i, 3)
     /\ items[i].type = "PushTag" /\ IsOp(items[i + 1], {"JUMP", "JUMPI"})
     /\ items[i + 2].type = "Tag"
     /\ <<items[i].sub, items[i].data>> = <<items[i + 2].sub, items[i + 2].data>>
  THEN Rewrite(3, IF items[i + 1].op = "JUMPI"
                  THEN <<Operation("POP"), items[i + 2]>> ELSE <<items[i + 2]>>)
  ELSE NoRewrite

(* Mutant: everything behind the item is removed, labels included.         *)
UnreachableToEnd(items, i) ==
  IF IsOp(items[i], {"JUMP", "STOP", "REVERT"}) /\ i < Len(items)
  THEN Rewrite(Len(items) - i + 1, <<items[i]>>) ELSE NoRewrite

(* Removes everything after an item that ends control flow up to the next  *)
(* tag.                                                                    *)
UnreachableCode(items, i) ==
  LET next == CHOOSE j \in i + 1 .. Len(items) + 1 :
                /\ j = Len(items) + 1 \/ items[j].type = "Tag"
                /\ \A k \in i + 1 .. j - 1 : items[k].type # "Tag"
  IN  IF IsOp(items[i], {"JUMP", "STOP", "REVERT"}) /\ next > i + 1
      THEN Rewrite(next - i, <<items[i]>>) ELSE NoRewrite

(* (data & 0xFFFFFFFF) = 0xFFFFFFFF.                                       *)
Bits(n) == {k \in 0 .. n : (n \div 2 ^ k) % 2 = 1}

CoversTags(item) == item.type = "Push" /\ Bits(TagMask) \subseteq Bits(item.data)

TagConjunctions(items, i) ==
  IF ~(Fits(items, i, 3) /\ IsOp(items[i + 2], {"AND"})) THEN NoRewrite
  ELSE IF items[i].type = "PushTag" /\ CoversTags(items[i + 1]) THEN Rewrite(3, <<items[i]>>)
  ELSE IF items[i + 1].type = "PushTag" /\ CoversTags(items[i]) THEN Rewrite(3, <<items[i + 1]>>)
  ELSE NoRewrite

TruthyAnd(items, i) ==
  IF /\ Fits(items, i, 3)
     /\ items[i] = Push(0) /\ IsOp(items[i + 1], {"NOT"}) /\ IsOp(items[i + 2], {"AND"})
  THEN Rewrite(3, <<>>) ELSE NoRewrite

Identity(items, i) == Rewrite(1, <<items[i]>>)

(* applyMethods: the first matching rule in the order of the call.         *)
a ?? b == IF a # NoRewrite THEN a ELSE b

applyMethods(items, i) ==
  CHOOSE r \in
    PushPop(items, i) ?? (OpPop(items, i) ?? (DoublePush(items, i) ??
    (DoubleSwap(items, i) ?? (CommutativeSwap(items, i) ?? (SwapComparison(items, i) ??
    (DupSwap(items, i) ?? (IsZeroIsZeroJumpI(items, i) ?? (JumpToNext(items, i) ??
    (UnreachableCode(items, i) ?? (TagConjunctions(items, i) ??
    (TruthyAnd(items, i) ?? Identity(items, i)))))))))))) : TRUE

(* The scan of PeepholeOptimiser::optimise: m_optimisedItems.              *)
OptimisedItems(items) ==
  LET scan[i \in 1 .. Len(items) + 1] ==
        IF i > Len(items) THEN <<>>
        ELSE LET r == applyMethods(items, i) IN r.out \o scan[i + r.size]
  IN  scan[1]

numberOfPops(items) == Cardinality({i \in DOMAIN items : IsOp(items[i], {"POP"})})

BytesOf(items) ==
  LET sum[i \in 0 .. Len(items)] ==
        IF i = 0 THEN 0 ELSE sum[i - 1] + BytesRequired(items[i], 3)
  IN  sum[Len(items)]

(* Mutant: code of the same size counts as an improvement.                 *)
ImprovesOrEqual(new, old) == Len(new) <= Len(old)

(* Whether optimise() replaces the items and reports a change.             *)
Improves(new, old) ==
  \/ Len(new) < Len(old)
  \/ /\ Len(new) = Len(old)
     /\ BytesOf(new) < BytesOf(old) \/ numberOfPops(new) > numberOfPops(old)
=============================================================================
