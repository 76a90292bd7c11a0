----------------------------- MODULE Induction -----------------------------
(***************************************************************************)
(* Induction over numbers for the proofs about loops and scans.            *)
(***************************************************************************)
EXTENDS Integers, FiniteSets, FiniteSetTheorems, WellFoundedInduction, TLAPS

(* A nonempty set of natural numbers has a least element.                  *)
LEMMA LeastNumber ==
  ASSUME NEW T, T \subseteq Nat, T # {}
  PROVE  \E n \in T : \A m \in T : n <= m
<1>1. PICK n \in T : \A m \in T : ~ (<<m, n>> \in OpToRel(<, Nat))
  BY NatLessThanWellFounded, WFMin
<1>2. \A m \in T : ~ (m < n)
  BY <1>1 DEF OpToRel
<1> QED
  BY <1>2

(* Induction for a set of numbers.                                         *)
LEMMA NumbersUpTo ==
  ASSUME NEW T, NEW L \in Nat, 0 \in T, \A n \in 0 .. L - 1 : n \in T => n + 1 \in T
  PROVE  0 .. L \subseteq T
<1> DEFINE Out == {n \in 0 .. L : n \notin T}
<1> SUFFICES ASSUME Out # {} PROVE FALSE
  OBVIOUS
<1>0. Out \subseteq Nat
  OBVIOUS
<1> HIDE DEF Out
<1>1. PICK n \in Out : \A m \in Out : n <= m
  BY <1>0, LeastNumber
<1> USE DEF Out
<1>2. n # 0 /\ n - 1 \in 0 .. L - 1 /\ n - 1 \notin Out
  BY <1>1
<1>3. n - 1 \in T
  BY <1>2
<1> QED
  BY <1>1, <1>2, <1>3

(* A nonempty finite set of numbers has a greatest element.                *)
LEMMA GreatestNumber ==
  ASSUME NEW S, IsFiniteSet(S), S \subseteq Nat, S # {}
  PROVE  \E n \in S : \A m \in S : n >= m
<1> DEFINE L == Cardinality(S)
           HasGreatest(R) == R = {} \/ \E n \in R : \A m \in R : n >= m
           T == {n \in 0 .. L : \A R \in SUBSET S : Cardinality(R) = n => HasGreatest(R)}
<1>1. \A R \in SUBSET S : IsFiniteSet(R) /\ Cardinality(R) \in Nat /\ (Cardinality(R) = 0 => R = {})
  BY FS_Subset, FS_CardinalityType, FS_EmptySet
<1>2. L \in Nat
  BY <1>1
<1>3. 0 \in T
  BY <1>1, <1>2
<1>4. ASSUME NEW n \in 0 .. L - 1, n \in T
      PROVE  n + 1 \in T
  <2>1. SUFFICES ASSUME NEW R \in SUBSET S, Cardinality(R) = n + 1
                 PROVE  HasGreatest(R)
    BY <1>2
  <2>2. CASE R = {}
    BY <2>2
  <2>3. ASSUME NEW x \in R
        PROVE  HasGreatest(R)
    <3> DEFINE rest == R \ {x}
    <3>1. Cardinality(rest) = n /\ rest \in SUBSET S
      BY <1>1, <2>1, FS_RemoveElement
    <3>2. HasGreatest(rest)
      BY <1>4, <3>1
    <3>3. CASE rest = {}
      <4>1. \A m \in R : x >= m
        BY <3>3
      <4> QED  BY <4>1
    <3>4. ASSUME NEW y \in rest, \A m \in rest : y >= m
          PROVE  HasGreatest(R)
      <4>1. x \in Nat /\ y \in Nat /\ R = rest \cup {x} /\ y \in R
        OBVIOUS
      <4> HIDE DEF rest
      <4>2. CASE x >= y
        <5>1. \A m \in R : x >= m
          BY <3>1, <3>4, <4>1, <4>2
        <5> QED  BY <5>1
      <4>3. CASE y >= x
        <5>1. \A m \in R : y >= m
          BY <3>4, <4>1, <4>3
        <5> QED  BY <4>1, <5>1
      <4> QED  BY <4>1, <4>2, <4>3
    <3> QED  BY <3>2, <3>3, <3>4
  <2> QED  BY <2>2, <2>3
<1>5. L \in T
  <2>1. \A n \in 0 .. L - 1 : n \in T => n + 1 \in T
    BY <1>4
  <2> HIDE DEF T
  <2>2. 0 .. L \subseteq T
    BY <1>2, <1>3, <2>1, NumbersUpTo
  <2> QED  BY <1>2, <2>2
<1> QED  BY <1>5

(* A loop of L rounds that starts with "start" and turns v into step[i][v] *)
(* in round i has a history.                                               *)
IsHistory(f, V, L, start, step) ==
  /\ f \in [0 .. L -> V]
  /\ \A i \in 0 .. L : f[i] = IF i = 0 THEN start ELSE step[i][f[i - 1]]

(* Every loop has a history, round by round.                               *)
LEMMA Iteration ==
  ASSUME NEW V, NEW L \in Nat, NEW start \in V, NEW step \in [1 .. L -> [V -> V]]
  PROVE  \E f : IsHistory(f, V, L, start, step)
<1> DEFINE D == 0 .. L
           At(f, i) == IF i = 0 THEN start ELSE step[i][f[i - 1]]
           Partial(n) == \E f \in [D -> V] : \A i \in 0 .. n : f[i] = At(f, i)
           T == {n \in D : Partial(n)}
<1>1. 0 \in T
  <2> DEFINE f == [i \in D |-> start]
  <2>1. f \in [D -> V] /\ \A i \in 0 .. 0 : f[i] = At(f, i)
    OBVIOUS
  <2> HIDE DEF f
  <2> QED  BY <2>1
<1>2. ASSUME NEW n \in 0 .. L - 1, n \in T
      PROVE  n + 1 \in T
  <2>1. PICK f \in [D -> V] : \A i \in 0 .. n : f[i] = At(f, i)
    BY <1>2
  <2> DEFINE g == [i \in D |-> IF i = n + 1 THEN step[n + 1][f[n]] ELSE f[i]]
  <2>2. step[n + 1][f[n]] \in V
    BY <2>1
  <2>3. g \in [D -> V]
    BY <2>2
  <2>4. \A i \in 0 .. n + 1 : g[i] = At(g, i)
    BY <2>1
  <2> HIDE DEF g
  <2> QED  BY <2>3, <2>4
<1>3. L \in T
  <2>1. \A n \in 0 .. L - 1 : n \in T => n + 1 \in T
    BY <1>2
  <2> HIDE DEF T
  <2>2. 0 .. L \subseteq T
    BY <1>1, <2>1, NumbersUpTo
  <2> QED  BY <2>2
<1> QED  BY <1>3 DEF IsHistory
=============================================================================
