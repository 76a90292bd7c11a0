--------------------------- MODULE PeepholeProofs ---------------------------
(***************************************************************************)
(* The rules of the peephole optimiser keep the labels of every code and   *)
(* invent no references, and so does a scan over it.                       *)
(***************************************************************************)
EXTENDS Peephole, Induction, SequenceTheorems

(* Sets of items that contain the operations of the table and no others.   *)
ItemSet(S) ==
  /\ \A x \in S : x.type = "Operation" => x.op \in DOMAIN instructionInfo
  /\ \A o \in DOMAIN instructionInfo : Operation(o) \in S

(* The items of "new" have the labels of the items i to j - 1 of "old",    *)
(* and no labels and no references but theirs.                             *)
SameLabels(new, old, i, j) ==
  /\ \A k \in i .. j - 1 : old[k].type = "Tag" => \E n \in DOMAIN new : new[n] = old[k]
  /\ \A n \in DOMAIN new :
       new[n].type \in {"PushTag", "Tag"} => \E k \in i .. j - 1 : new[n] = old[k]

(* What a rule may do at position i of code over the items S.              *)
RewriteSound(S, items, i, r) ==
  /\ r.size \in Nat \ {0} /\ i + r.size <= Len(items) + 1
  /\ r.out \in Seq(S)
  /\ SameLabels(r.out, items, i, i + r.size)

RuleSound(S, items, i, rewrites) == \A r \in rewrites : RewriteSound(S, items, i, r)

-----------------------------------------------------------------------------
(* Every instruction takes a number of arguments.                          *)
LEMMA ArgumentsAreNumbers ==
  \A o \in DOMAIN instructionInfo : instructionInfo[o].args \in Nat
  BY DEF instructionInfo, Info

(* A rule that matches is as sound as its rewrite.                         *)
LEMMA SoundIfMatched ==
  ASSUME NEW S, NEW items, NEW i, NEW size, NEW out,
         RewriteSound(S, items, i, [size |-> size, out |-> out])
  PROVE  RuleSound(S, items, i, Rewrite(size, out))
  BY DEF RuleSound, Rewrite

(* A rule that does not match rewrites nothing.                            *)
LEMMA SoundIfNotMatched ==
  ASSUME NEW S, NEW items, NEW i
  PROVE  RuleSound(S, items, i, NoRewrite)
  BY DEF RuleSound, NoRewrite

(* One rule after the other: the items it consumes are no labels, unless   *)
(* it emits them, and it emits no reference that it did not consume.       *)
LEMMA LocalRulesSound ==
  ASSUME NEW S, ItemSet(S), NEW items \in Seq(S), NEW i \in 1 .. Len(items)
  PROVE  /\ RuleSound(S, items, i, PushPop(items, i))
         /\ RuleSound(S, items, i, DoublePush(items, i))
         /\ RuleSound(S, items, i, DoubleSwap(items, i))
         /\ RuleSound(S, items, i, CommutativeSwap(items, i))
         /\ RuleSound(S, items, i, DupSwap(items, i))
         /\ RuleSound(S, items, i, IsZeroIsZeroJumpI(items, i))
         /\ RuleSound(S, items, i, TruthyAnd(items, i))
         /\ RuleSound(S, items, i, SwapComparison(items, i))
         /\ RuleSound(S, items, i, JumpToNext(items, i))
         /\ RuleSound(S, items, i, TagConjunctions(items, i))
         /\ RuleSound(S, items, i, Identity(items, i))
<1>0. Operation("POP") \in S /\ Operation("DUP1") \in S /\ Operation("LT") \in S /\ Operation("GT") \in S
  BY DEF ItemSet, instructionInfo
<1>1. RuleSound(S, items, i, PushPop(items, i))
  <2>1. CASE /\ Fits(items, i, 2)
             /\ IsDup(items[i]) \/ items[i].type \in {"Push", "PushTag"}
             /\ IsOp(items[i + 1], {"POP"})
    <3>1. RewriteSound(S, items, i, [size |-> 2, out |-> <<>>])
      BY <2>1 DEF RewriteSound, SameLabels, IsOp, Fits, IsDup
    <3> QED  BY <2>1, <3>1, SoundIfMatched DEF PushPop
  <2> QED  BY <2>1, SoundIfNotMatched DEF PushPop
<1>2. RuleSound(S, items, i, DoublePush(items, i))
  <2>1. CASE /\ Fits(items, i, 2)
             /\ items[i].type = "Push"
             /\ items[i + 1] = items[i]
    <3>1. RewriteSound(S, items, i, [size |-> 2, out |-> <<items[i], Operation("DUP1")>>])
      BY <1>0, <2>1 DEF RewriteSound, SameLabels, IsOp, Fits, Operation
    <3> QED  BY <2>1, <3>1, SoundIfMatched DEF DoublePush
  <2> QED  BY <2>1, SoundIfNotMatched DEF DoublePush
<1>3. RuleSound(S, items, i, DoubleSwap(items, i))
  <2>1. CASE Fits(items, i, 2) /\ IsSwap(items[i]) /\ items[i + 1] = items[i]
    <3>1. RewriteSound(S, items, i, [size |-> 2, out |-> <<>>])
      BY <2>1 DEF RewriteSound, SameLabels, IsOp, Fits, IsSwap
    <3> QED  BY <2>1, <3>1, SoundIfMatched DEF DoubleSwap
  <2> QED  BY <2>1, SoundIfNotMatched DEF DoubleSwap
<1>4. RuleSound(S, items, i, CommutativeSwap(items, i))
  <2>1. CASE /\ Fits(items, i, 2) /\ IsOp(items[i], {"SWAP1"})
             /\ isCommutativeOperation(items[i + 1])
    <3>1. RewriteSound(S, items, i, [size |-> 2, out |-> <<items[i + 1]>>])
      BY <2>1 DEF RewriteSound, SameLabels, IsOp, Fits, isCommutativeOperation
    <3> QED  BY <2>1, <3>1, SoundIfMatched DEF CommutativeSwap
  <2> QED  BY <2>1, SoundIfNotMatched DEF CommutativeSwap
<1>5. RuleSound(S, items, i, DupSwap(items, i))
  <2>1. CASE /\ Fits(items, i, 2)
             /\ IsDup(items[i]) /\ IsSwap(items[i + 1])
             /\ DupNumber[items[i].op] = SwapNumber[items[i + 1].op]
    <3>1. RewriteSound(S, items, i, [size |-> 2, out |-> <<items[i]>>])
      BY <2>1 DEF RewriteSound, SameLabels, IsOp, Fits, IsDup, IsSwap
    <3> QED  BY <2>1, <3>1, SoundIfMatched DEF DupSwap
  <2> QED  BY <2>1, SoundIfNotMatched DEF DupSwap
<1>6. RuleSound(S, items, i, IsZeroIsZeroJumpI(items, i))
  <2>1. CASE /\ Fits(items, i, 4)
             /\ IsOp(items[i], {"ISZERO"}) /\ IsOp(items[i + 1], {"ISZERO"})
             /\ items[i + 2].type = "PushTag" /\ IsOp(items[i + 3], {"JUMPI"})
    <3>1. RewriteSound(S, items, i, [size |-> 4, out |-> <<items[i + 2], items[i + 3]>>])
      BY <2>1 DEF RewriteSound, SameLabels, IsOp, Fits
    <3> QED  BY <2>1, <3>1, SoundIfMatched DEF IsZeroIsZeroJumpI
  <2> QED  BY <2>1, SoundIfNotMatched DEF IsZeroIsZeroJumpI
<1>7. RuleSound(S, items, i, TruthyAnd(items, i))
  <2>1. CASE /\ Fits(items, i, 3)
             /\ items[i] = Push(0) /\ IsOp(items[i + 1], {"NOT"}) /\ IsOp(items[i + 2], {"AND"})
    <3>1. RewriteSound(S, items, i, [size |-> 3, out |-> <<>>])
      BY <2>1 DEF RewriteSound, SameLabels, IsOp, Fits, Push
    <3> QED  BY <2>1, <3>1, SoundIfMatched DEF TruthyAnd
  <2> QED  BY <2>1, SoundIfNotMatched DEF TruthyAnd
<1>8. RuleSound(S, items, i, SwapComparison(items, i))
  <2>1. CASE /\ Fits(items, i, 2) /\ IsOp(items[i], {"SWAP1"})
             /\ IsOp(items[i + 1], DOMAIN swappableOps)
    <3>1. swappableOps[items[i + 1].op] \in {"LT", "GT"}
      BY <2>1 DEF IsOp, swappableOps
    <3>2. RewriteSound(S, items, i, [size |-> 2, out |-> <<Operation(swappableOps[items[i + 1].op])>>])
      BY <1>0, <2>1, <3>1 DEF RewriteSound, SameLabels, IsOp, Fits, Operation
    <3> QED  BY <2>1, <3>2, SoundIfMatched DEF SwapComparison
  <2> QED  BY <2>1, SoundIfNotMatched DEF SwapComparison
<1>9. RuleSound(S, items, i, JumpToNext(items, i))
  <2>1. CASE /\ Fits(items, i, 3)
             /\ items[i].type = "PushTag" /\ IsOp(items[i + 1], {"JUMP", "JUMPI"})
             /\ items[i + 2].type = "Tag"
             /\ <<items[i].sub, items[i].data>> = <<items[i + 2].sub, items[i + 2].data>>
    <3>1. RewriteSound(S, items, i, [size |-> 3, out |-> <<items[i + 2]>>])
      BY <2>1 DEF RewriteSound, SameLabels, IsOp, Fits
    <3>2. RewriteSound(S, items, i, [size |-> 3, out |-> <<Operation("POP"), items[i + 2]>>])
      BY <1>0, <2>1 DEF RewriteSound, SameLabels, IsOp, Fits, Operation
    <3> QED  BY <2>1, <3>1, <3>2, SoundIfMatched DEF JumpToNext
  <2> QED  BY <2>1, SoundIfNotMatched DEF JumpToNext
<1>10. RuleSound(S, items, i, TagConjunctions(items, i))
  <2>1. CASE /\ Fits(items, i, 3) /\ IsOp(items[i + 2], {"AND"})
             /\ items[i].type = "PushTag" /\ CoversTags(items[i + 1])
    <3>1. RewriteSound(S, items, i, [size |-> 3, out |-> <<items[i]>>])
      BY <2>1 DEF RewriteSound, SameLabels, IsOp, Fits, CoversTags
    <3> QED  BY <2>1, <3>1, SoundIfMatched DEF TagConjunctions
  <2>2. CASE /\ Fits(items, i, 3) /\ IsOp(items[i + 2], {"AND"})
             /\ items[i + 1].type = "PushTag" /\ CoversTags(items[i])
    <3>1. RewriteSound(S, items, i, [size |-> 3, out |-> <<items[i + 1]>>])
      BY <2>2 DEF RewriteSound, SameLabels, IsOp, Fits, CoversTags
    <3>2. items[i].type # "PushTag"
      BY <2>2 DEF CoversTags
    <3> QED  BY <2>2, <3>1, <3>2, SoundIfMatched DEF TagConjunctions
  <2> QED  BY <2>1, <2>2, SoundIfNotMatched DEF TagConjunctions
<1>11. RuleSound(S, items, i, Identity(items, i))
  <2>1. RewriteSound(S, items, i, [size |-> 1, out |-> <<items[i]>>])
    BY DEF RewriteSound, SameLabels
  <2> QED  BY <2>1, SoundIfMatched DEF Identity
<1> QED
  BY <1>1, <1>2, <1>3, <1>4, <1>5, <1>6, <1>7, <1>8, <1>9, <1>10, <1>11

(* An operation whose result is dropped becomes POPs of its arguments.     *)
LEMMA OpPopSound ==
  ASSUME NEW S, ItemSet(S), NEW items \in Seq(S), NEW i \in 1 .. Len(items)
  PROVE  RuleSound(S, items, i, OpPop(items, i))
<1> DEFINE args == instructionInfo[items[i].op].args
           out == [j \in 1 .. args |-> Operation("POP")]
<1>1. CASE /\ Fits(items, i, 2) /\ items[i].type = "Operation" /\ IsOp(items[i + 1], {"POP"})
  <2>1. args \in Nat
    BY <1>1, ArgumentsAreNumbers DEF ItemSet
  <2>2. Operation("POP") \in S
    BY DEF ItemSet, instructionInfo
  <2>3. out \in Seq(S) /\ DOMAIN out = 1 .. args
    BY <2>1, <2>2
  <2>4. \A j \in DOMAIN out : out[j].type \notin {"PushTag", "Tag"}
    BY DEF Operation
  <2> HIDE DEF out
  <2>5. RewriteSound(S, items, i, [size |-> 2, out |-> out])
    BY <1>1, <2>3, <2>4 DEF RewriteSound, SameLabels, IsOp, Fits
  <2> USE DEF out
  <2> QED  BY <2>5, SoundIfMatched, SoundIfNotMatched DEF OpPop
<1> QED
  BY <1>1, SoundIfNotMatched DEF OpPop

(* What follows an item that ends control flow is dropped up to the next   *)
(* label.                                                                  *)
LEMMA UnreachableCodeSound ==
  ASSUME NEW S, ItemSet(S), NEW items \in Seq(S), NEW i \in 1 .. Len(items)
  PROVE  RuleSound(S, items, i, UnreachableCode(items, i))
<1> DEFINE Stops(j) == /\ j = Len(items) + 1 \/ items[j].type = "Tag"
                       /\ \A k \in i + 1 .. j - 1 : items[k].type # "Tag"
           next == CHOOSE j \in i + 1 .. Len(items) + 1 : Stops(j)
           Ends == {j \in i + 1 .. Len(items) + 1 : j = Len(items) + 1 \/ items[j].type = "Tag"}
<1>1. \E j \in i + 1 .. Len(items) + 1 : Stops(j)
  <2>1. Ends \subseteq Nat /\ Len(items) + 1 \in Ends
    OBVIOUS
  <2> HIDE DEF Ends
  <2>2. PICK j \in Ends : \A k \in Ends : j <= k
    BY <2>1, LeastNumber
  <2> USE DEF Ends
  <2>3. \A k \in i + 1 .. j - 1 : items[k].type # "Tag"
    BY <2>2
  <2> QED  BY <2>2, <2>3
<1>2. next \in i + 1 .. Len(items) + 1 /\ Stops(next)
  BY <1>1
<1>3. CASE IsOp(items[i], {"JUMP", "STOP", "REVERT"}) /\ next > i + 1
  <2> HIDE DEF next
  <2>1. RewriteSound(S, items, i, [size |-> next - i, out |-> <<items[i]>>])
    BY <1>2, <1>3 DEF RewriteSound, SameLabels, IsOp
  <2> QED  BY <1>3, <2>1, SoundIfMatched DEF UnreachableCode, next
<1> QED
  BY <1>3, SoundIfNotMatched DEF UnreachableCode

(* The rule that applies at a position is sound.                           *)
LEMMA ApplyMethodsSound ==
  ASSUME NEW S, ItemSet(S), NEW items \in Seq(S), NEW i \in 1 .. Len(items)
  PROVE  RewriteSound(S, items, i, applyMethods(items, i))
<1>1. \A a, b : RuleSound(S, items, i, a) /\ RuleSound(S, items, i, b)
                 => RuleSound(S, items, i, a ?? b)
  BY DEF ??
<1>2. \A a, b : b # NoRewrite => (a ?? b) # NoRewrite
  BY DEF ??
<1>3. Identity(items, i) # NoRewrite
  BY DEF Identity, Rewrite, NoRewrite
<1> QED
  BY <1>1, <1>2, <1>3, LocalRulesSound, OpPopSound, UnreachableCodeSound
  DEF applyMethods, RuleSound, NoRewrite

-----------------------------------------------------------------------------
(* What the scan has emitted from position i on, given what it emits       *)
(* behind the items that the rule consumes.                                *)
ScanAt(items, f, i) ==
  IF i > Len(items) THEN <<>>
  ELSE applyMethods(items, i).out \o f[i + applyMethods(items, i).size]

IsScan(items, f) == f = [i \in 1 .. Len(items) + 1 |-> ScanAt(items, f, i)]

(* The loop of optimise() ends: every rule consumes an item.               *)
LEMMA ScanExists ==
  ASSUME NEW S, ItemSet(S), NEW items \in Seq(S)
  PROVE  \E f : IsScan(items, f)
<1> DEFINE L == Len(items)
           D == 1 .. L + 1
           Partial(n) == \E f : /\ DOMAIN f = D
                                /\ \A i \in L + 1 - n .. L + 1 : f[i] = ScanAt(items, f, i)
           T == {n \in 0 .. L : Partial(n)}
<1>0. L \in Nat
  OBVIOUS
<1>1. \A i \in 1 .. L : /\ applyMethods(items, i).size \in Nat \ {0}
                        /\ i + applyMethods(items, i).size <= L + 1
  BY ApplyMethodsSound DEF RewriteSound
<1> HIDE DEF L
<1>2. 0 \in T
  <2> DEFINE f == [i \in D |-> <<>>]
  <2>1. DOMAIN f = D /\ \A i \in L + 1 - 0 .. L + 1 : f[i] = ScanAt(items, f, i)
    BY <1>0 DEF ScanAt, L
  <2> HIDE DEF f
  <2>2. Partial(0)
    BY <2>1
  <2> QED  BY <1>0, <2>2
<1>3. ASSUME NEW n \in 0 .. L - 1, n \in T
      PROVE  n + 1 \in T
  <2>1. PICK f : /\ DOMAIN f = D
                 /\ \A i \in L + 1 - n .. L + 1 : f[i] = ScanAt(items, f, i)
    BY <1>3
  <2> DEFINE g == [i \in D |-> IF i = L - n THEN ScanAt(items, f, i) ELSE f[i]]
  <2>2. L - n \in 1 .. L /\ L + 1 - (n + 1) = L - n
    BY <1>0
  <2>3. \A i \in L - n .. L : i + applyMethods(items, i).size \in L + 1 - n .. L + 1
    BY <1>0, <1>1
  <2>4. \A i \in L + 1 - n .. L + 1 : g[i] = f[i]
    BY <1>0, <2>2
  <2>5. \A i \in L - n .. L + 1 : ScanAt(items, g, i) = ScanAt(items, f, i)
    BY <1>0, <2>3, <2>4 DEF ScanAt, L
  <2>6. \A i \in L - n .. L + 1 : g[i] = ScanAt(items, g, i)
    BY <1>0, <2>1, <2>2, <2>4, <2>5
  <2>7. DOMAIN g = D
    OBVIOUS
  <2> HIDE DEF g
  <2>8. Partial(n + 1)
    BY <2>2, <2>6, <2>7
  <2> QED  BY <1>0, <2>8
<1>4. L \in T
  <2>1. \A n \in 0 .. L - 1 : n \in T => n + 1 \in T
    BY <1>3
  <2> HIDE DEF T
  <2>2. 0 .. L \subseteq T
    BY <1>0, <1>2, <2>1, NumbersUpTo
  <2> QED  BY <1>0, <2>2
<1>5. PICK f : /\ DOMAIN f = D
               /\ \A i \in L + 1 - L .. L + 1 : f[i] = ScanAt(items, f, i)
  BY <1>4
<1> DEFINE g == [i \in D |-> f[i]]
<1>6. \A i \in D : ScanAt(items, g, i) = ScanAt(items, f, i)
  BY <1>0, <1>1 DEF ScanAt, L
<1>7. g = [i \in D |-> ScanAt(items, g, i)]
  BY <1>0, <1>5, <1>6
<1> HIDE DEF g
<1> QED
  BY <1>7 DEF IsScan, L

(* OptimisedItems is the start of a scan.                                  *)
LEMMA OptimisedIsScan ==
  ASSUME NEW S, ItemSet(S), NEW items \in Seq(S)
  PROVE  \E f : IsScan(items, f) /\ OptimisedItems(items) = f[1]
<1> DEFINE scan == CHOOSE f : IsScan(items, f)
<1>1. IsScan(items, scan)
  BY ScanExists
<1>2. OptimisedItems(items) = scan[1]
  BY DEF OptimisedItems, IsScan, ScanAt
<1> QED  BY <1>1, <1>2

(* A scan keeps the labels and the set of items.                           *)
LEMMA ScanSound ==
  ASSUME NEW S, ItemSet(S), NEW items \in Seq(S)
  PROVE  /\ OptimisedItems(items) \in Seq(S)
         /\ SameLabels(OptimisedItems(items), items, 1, Len(items) + 1)
<1> DEFINE L == Len(items)
<1>0. L \in Nat
  OBVIOUS
<1>1. PICK f : IsScan(items, f) /\ OptimisedItems(items) = f[1]
  BY OptimisedIsScan
<1> DEFINE Sound(i) == f[i] \in Seq(S) /\ SameLabels(f[i], items, i, L + 1)
           T == {n \in 0 .. L : \A i \in L + 1 - n .. L + 1 : Sound(i)}
<1>2. \A i \in 1 .. L + 1 : f[i] = ScanAt(items, f, i)
  BY <1>1 DEF IsScan
<1>3. 0 \in T
  <2>1. f[L + 1] = <<>>
    BY <1>0, <1>2 DEF ScanAt
  <2>2. Sound(L + 1)
    BY <1>0, <2>1 DEF SameLabels
  <2> HIDE DEF Sound
  <2> QED  BY <1>0, <2>2
<1>4. ASSUME NEW n \in 0 .. L - 1, n \in T
      PROVE  n + 1 \in T
  <2> DEFINE i == L - n
             r == applyMethods(items, i)
  <2>1. i \in 1 .. L
    BY <1>0
  <2> HIDE DEF i
  <2>2. RewriteSound(S, items, i, r)
    BY <2>1, ApplyMethodsSound
  <2> HIDE DEF r
  <2>3. /\ r.size \in Nat \ {0} /\ i + r.size <= L + 1
        /\ r.out \in Seq(S) /\ SameLabels(r.out, items, i, i + r.size)
    BY <2>2 DEF RewriteSound
  <2> DEFINE rest == f[i + r.size]
             out == r.out
             next == i + r.size
  <2>4. next \in L + 1 - n .. L + 1 /\ next \in i + 1 .. L + 1
    BY <1>0, <2>1, <2>3 DEF i
  <2>5. rest \in Seq(S) /\ SameLabels(rest, items, next, L + 1)
    BY <1>4, <2>4
  <2>6. f[i] = out \o rest
    <3>1. f[i] = ScanAt(items, f, i)
      BY <1>0, <1>2, <2>1
    <3>2. ~ (i > Len(items))
      BY <1>0, <2>1
    <3> QED  BY <3>1, <3>2 DEF ScanAt, r
  <2>7. out \in Seq(S) /\ SameLabels(out, items, i, next)
    BY <2>3
  <2> HIDE DEF rest, out, next
  <2>8. f[i] \in Seq(S)
    BY <2>5, <2>6, <2>7
  <2>9. /\ DOMAIN (out \o rest) = 1 .. Len(out) + Len(rest)
        /\ DOMAIN out = 1 .. Len(out) /\ DOMAIN rest = 1 .. Len(rest)
        /\ \A k \in DOMAIN out : (out \o rest)[k] = out[k] /\ k \in DOMAIN (out \o rest)
        /\ \A k \in DOMAIN rest : /\ (out \o rest)[Len(out) + k] = rest[k]
                                   /\ Len(out) + k \in DOMAIN (out \o rest)
        /\ \A k \in DOMAIN (out \o rest) :
             k \in DOMAIN out \/ (k - Len(out) \in DOMAIN rest /\ (out \o rest)[k] = rest[k - Len(out)])
    BY <2>5, <2>7
  <2>10. SameLabels(out \o rest, items, i, L + 1)
    <3>1. ASSUME NEW k \in i .. (L + 1) - 1, items[k].type = "Tag"
          PROVE  \E m \in DOMAIN (out \o rest) : (out \o rest)[m] = items[k]
      <4>1. CASE k \in i .. next - 1
        <5>1. PICK m \in DOMAIN out : out[m] = items[k]
          BY <2>7, <3>1, <4>1 DEF SameLabels
        <5> QED  BY <2>9, <5>1
      <4>2. CASE k \in next .. (L + 1) - 1
        <5>1. PICK m \in DOMAIN rest : rest[m] = items[k]
          BY <2>5, <3>1, <4>2 DEF SameLabels
        <5>2. /\ (out \o rest)[Len(out) + m] = items[k]
              /\ Len(out) + m \in DOMAIN (out \o rest)
          BY <2>9, <5>1
        <5> QED  BY <5>2
      <4> QED  BY <4>1, <4>2, <1>0, <2>1, <2>4
    <3>2. ASSUME NEW m \in DOMAIN (out \o rest), (out \o rest)[m].type \in {"PushTag", "Tag"}
          PROVE  \E k \in i .. (L + 1) - 1 : (out \o rest)[m] = items[k]
      <4>1. CASE m \in DOMAIN out
        <5>1. PICK k \in i .. next - 1 : out[m] = items[k]
          BY <2>7, <2>9, <3>2, <4>1 DEF SameLabels
        <5>2. k \in i .. (L + 1) - 1
          BY <1>0, <2>1, <2>4
        <5> QED  BY <2>9, <4>1, <5>1, <5>2
      <4>2. CASE m - Len(out) \in DOMAIN rest /\ (out \o rest)[m] = rest[m - Len(out)]
        <5>1. PICK k \in next .. (L + 1) - 1 : rest[m - Len(out)] = items[k]
          BY <2>5, <3>2, <4>2 DEF SameLabels
        <5>2. k \in i .. (L + 1) - 1
          BY <1>0, <2>1, <2>4
        <5> QED  BY <4>2, <5>1, <5>2
      <4> QED  BY <2>9, <4>1, <4>2
    <3> QED  BY <3>1, <3>2 DEF SameLabels
  <2>11. Sound(i)
    BY <2>6, <2>8, <2>10
  <2> HIDE DEF Sound
  <2>12. \A k \in L + 1 - (n + 1) .. L + 1 : k = i \/ k \in L + 1 - n .. L + 1
    BY <1>0 DEF i
  <2> QED  BY <1>0, <1>4, <2>11, <2>12
<1>5. L \in T
  <2>1. \A n \in 0 .. L - 1 : n \in T => n + 1 \in T
    BY <1>4
  <2> HIDE DEF T, L
  <2>2. 0 .. L \subseteq T
    BY <1>0, <1>3, <2>1, NumbersUpTo
  <2> QED  BY <1>0, <2>2
<1> QED
  BY <1>0, <1>1, <1>5
=============================================================================
