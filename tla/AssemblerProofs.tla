--------------------------- MODULE AssemblerProofs ---------------------------
(***************************************************************************)
(* The assembler's estimate of sizes is enough: whatever is assembled, the *)
(* widths that are fixed before any position is known hold every position. *)
(* And its references are right: read back, bytecode means what the items  *)
(* say, with every reference filled in with the position it stands for.    *)
(* Immutables are written wherever they are read, and link references are  *)
(* where the addresses of libraries are missing.                           *)
(***************************************************************************)
EXTENDS Assembler, Induction

(* Induction over all numbers.                                             *)
LEMMA AllNumbers ==
  ASSUME NEW T, 0 \in T, \A n \in Nat : n \in T => n + 1 \in T
  PROVE  Nat \subseteq T
<1>1. ASSUME NEW L \in Nat
      PROVE  L \in T
  <2>1. \A n \in 0 .. L - 1 : n \in T => n + 1 \in T
    OBVIOUS
  <2>2. 0 .. L \subseteq T
    BY <2>1, NumbersUpTo
  <2> QED  BY <2>2
<1> QED  BY <1>1

-----------------------------------------------------------------------------
(* Numbers as bytes                                                        *)

PowerAt(f, k) == IF k = 0 THEN 1 ELSE Base * f[k - 1]

(* The powers of the base up to the n-th.                                  *)
TimesBase(n) == [i \in 1 .. n |-> [v \in Nat |-> Base * v]]
PowersUpTo(n) == CHOOSE f : IsHistory(f, Nat, n, 1, TimesBase(n))

(* They are numbers, each got from the one before.                         *)
LEMMA PowersUpToSound ==
  ASSUME NEW n \in Nat
  PROVE  /\ PowersUpTo(n) \in [0 .. n -> Nat]
         /\ \A k \in 0 .. n : PowersUpTo(n)[k] = PowerAt(PowersUpTo(n), k)
<1> USE BaseAssumption
<1> DEFINE f == PowersUpTo(n)
<1>1. TimesBase(n) \in [1 .. n -> [Nat -> Nat]]
  BY DEF TimesBase
<1>2. IsHistory(f, Nat, n, 1, TimesBase(n))
  BY <1>1, Iteration DEF PowersUpTo
<1> HIDE DEF f
<1>3. f \in [0 .. n -> Nat]
  BY <1>2 DEF IsHistory
<1>4. ASSUME NEW k \in 0 .. n
      PROVE  f[k] = PowerAt(f, k)
  <2>1. CASE k = 0
    BY <1>2, <2>1 DEF IsHistory, PowerAt
  <2>2. CASE k # 0
    <3>1. k \in 1 .. n /\ f[k - 1] \in Nat /\ f[k] = TimesBase(n)[k][f[k - 1]]
      BY <1>2, <1>3, <2>2 DEF IsHistory
    <3> QED  BY <2>2, <3>1 DEF TimesBase, PowerAt
  <2> QED  BY <2>1, <2>2
<1> QED  BY <1>3, <1>4 DEF f

(* The powers of the base: each is the base times the one before, and more *)
(* than its exponent.                                                      *)
LEMMA PowerIsFunction == Power = [k \in Nat |-> PowerAt(Power, k)]
<1> DEFINE P == [k \in Nat |-> PowersUpTo(k)[k]]
<1>1. ASSUME NEW k \in Nat \ {0}
      PROVE  PowersUpTo(k)[k - 1] = PowersUpTo(k - 1)[k - 1]
  <2> DEFINE f == PowersUpTo(k)
             g == PowersUpTo(k - 1)
             T == {j \in 0 .. k - 1 : f[j] = g[j]}
  <2>1. /\ \A j \in 0 .. k : f[j] = PowerAt(f, j)
        /\ \A j \in 0 .. k - 1 : g[j] = PowerAt(g, j)
    <3>1. k \in Nat /\ k - 1 \in Nat
      OBVIOUS
    <3> QED  BY <3>1, PowersUpToSound
  <2> HIDE DEF f, g
  <2>2. 0 \in T
    BY <2>1 DEF PowerAt
  <2>3. ASSUME NEW j \in 0 .. (k - 1) - 1, j \in T
        PROVE  j + 1 \in T
    <3>1. j + 1 \in 0 .. k /\ j + 1 \in 0 .. k - 1 /\ j + 1 # 0 /\ (j + 1) - 1 = j
      OBVIOUS
    <3>2. f[j + 1] = Base * f[j] /\ g[j + 1] = Base * g[j]
      BY <2>1, <3>1 DEF PowerAt
    <3> QED  BY <2>3, <3>1, <3>2
  <2>4. k - 1 \in T
    <3>1. \A j \in 0 .. (k - 1) - 1 : j \in T => j + 1 \in T
      BY <2>3
    <3> HIDE DEF T
    <3>2. 0 .. k - 1 \subseteq T
      BY <2>2, <3>1, NumbersUpTo
    <3> QED  BY <3>2
  <2> QED  BY <2>4 DEF f, g
<1>2. ASSUME NEW k \in Nat
      PROVE  P[k] = PowerAt(P, k)
  <2>1. PowersUpTo(k)[k] = PowerAt(PowersUpTo(k), k)
    BY PowersUpToSound
  <2>2. CASE k = 0
    BY <2>1, <2>2 DEF PowerAt
  <2>3. CASE k # 0
    BY <1>1, <2>1, <2>3 DEF PowerAt
  <2> QED  BY <2>2, <2>3
<1>3. P = [k \in Nat |-> PowerAt(P, k)]
  BY <1>2
<1> HIDE DEF P
<1>4. Power = CHOOSE f : f = [k \in Nat |-> PowerAt(f, k)]
  BY DEF Power, PowerAt
<1> QED  BY <1>3, <1>4

(* The next power is the base times this one.                              *)
LEMMA PowerSteps ==
  Power[0] = 1 /\ \A k \in Nat : Power[k + 1] = Base * Power[k]
<1>1. \A k \in Nat : Power[k] = PowerAt(Power, k)
  BY PowerIsFunction
<1>2. Power[0] = 1
  BY <1>1 DEF PowerAt
<1>3. ASSUME NEW k \in Nat
      PROVE  Power[k + 1] = Base * Power[k]
  <2>1. k + 1 \in Nat /\ k + 1 # 0 /\ (k + 1) - 1 = k
    OBVIOUS
  <2> QED  BY <1>1, <2>1 DEF PowerAt
<1> QED  BY <1>2, <1>3

(* The base is at least two.                                               *)
LEMMA Doubled ==
  ASSUME NEW x \in Nat
  PROVE  Base * x \in Nat /\ Base * x >= 2 * x
BY BaseAssumption

(* A power of the base is more than its exponent.                          *)
LEMMA PowerBound ==
  \A k \in Nat : Power[k] \in Nat /\ Power[k] > k
<1> DEFINE T == {k \in Nat : Power[k] \in Nat /\ Power[k] > k}
<1>1. 0 \in T
  BY PowerSteps
<1>2. ASSUME NEW k \in Nat, k \in T
      PROVE  k + 1 \in T
  <2>1. Power[k + 1] = Base * Power[k]
    BY PowerSteps
  <2>2. Power[k + 1] \in Nat /\ Power[k + 1] >= 2 * Power[k]
    BY <1>2, <2>1, Doubled
  <2> QED  BY <1>2, <2>2
<1>3. Nat \subseteq T
  <2>1. \A k \in Nat : k \in T => k + 1 \in T
    BY <1>2
  <2> HIDE DEF T
  <2> QED  BY <1>1, <2>1, AllNumbers
<1> QED  BY <1>3

(* Powers grow with the exponent.                                          *)
LEMMA PowerMonotone ==
  ASSUME NEW j \in Nat, NEW k \in Nat, j <= k
  PROVE  Power[j] <= Power[k]
<1> DEFINE T == {d \in Nat : Power[j] <= Power[j + d]}
<1>1. 0 \in T
  BY PowerBound
<1>2. ASSUME NEW d \in Nat, d \in T
      PROVE  d + 1 \in T
  <2>1. j + d \in Nat /\ j + (d + 1) = (j + d) + 1 /\ (j + d) + 1 \in Nat
    OBVIOUS
  <2>2. Power[(j + d) + 1] = Base * Power[j + d]
    BY <2>1, PowerSteps
  <2>3. Power[(j + d) + 1] >= 2 * Power[j + d]
    BY <2>1, <2>2, PowerBound, Doubled
  <2>4. Power[j] \in Nat /\ Power[j + d] \in Nat /\ Power[(j + d) + 1] \in Nat
    BY <2>1, PowerBound
  <2>5. Power[j] <= Power[(j + d) + 1]
    BY <1>2, <2>3, <2>4
  <2> QED  BY <2>1, <2>5
<1>3. Nat \subseteq T
  <2>1. \A d \in Nat : d \in T => d + 1 \in T
    BY <1>2
  <2> HIDE DEF T
  <2> QED  BY <1>1, <2>1, AllNumbers
<1>4. k - j \in T /\ j + (k - j) = k
  BY <1>3
<1> QED  BY <1>4

(* The bytes of a number hold it, and fewer do not.                        *)
LEMMA NumberBytesSound ==
  ASSUME NEW v \in Nat
  PROVE  /\ NumberBytes(v) \in Nat
         /\ v < Power[NumberBytes(v)]
         /\ \A n \in Nat : v < Power[n] => NumberBytes(v) <= n
<1> DEFINE T == {k \in 0 .. v : v < Power[k]}
           Fits(k) == v < Power[k] /\ \A j \in 0 .. k - 1 : v >= Power[j]
<1>1. v \in T /\ T \subseteq Nat
  BY PowerBound
<1>2. PICK k \in T : \A j \in T : k <= j
  <2> HIDE DEF T
  <2> QED  BY <1>1, LeastNumber
<1>3. k \in 0 .. v /\ Fits(k)
  <2>1. ASSUME NEW j \in 0 .. k - 1
        PROVE  v >= Power[j]
    <3>1. j \in 0 .. v /\ j \notin T
      BY <1>2
    <3>2. Power[j] \in Nat
      BY PowerBound
    <3> QED  BY <3>1, <3>2
  <2> QED  BY <1>2, <2>1
<1>4. NumberBytes(v) \in 0 .. v /\ Fits(NumberBytes(v))
  <2>1. NumberBytes(v) = CHOOSE n \in 0 .. v : Fits(n)
    BY DEF NumberBytes
  <2> HIDE DEF Fits
  <2> QED  BY <1>3, <2>1
<1>5. ASSUME NEW n \in Nat, v < Power[n]
      PROVE  NumberBytes(v) <= n
  <2>1. SUFFICES ASSUME n < NumberBytes(v) PROVE FALSE
    BY <1>4
  <2>2. n \in 0 .. NumberBytes(v) - 1
    BY <1>4, <2>1
  <2>3. v >= Power[n] /\ Power[n] \in Nat
    BY <1>4, <2>2, PowerBound
  <2> QED  BY <1>5, <2>3
<1> QED  BY <1>4, <1>5

(* A larger number takes no fewer bytes.                                   *)
LEMMA NumberBytesMonotone ==
  ASSUME NEW u \in Nat, NEW v \in Nat, u <= v
  PROVE  NumberBytes(u) <= NumberBytes(v)
<1>1. NumberBytes(v) \in Nat /\ v < Power[NumberBytes(v)]
  BY NumberBytesSound
<1>2. u < Power[NumberBytes(v)]
  BY <1>1, PowerBound
<1> QED  BY <1>1, <1>2, NumberBytesSound

-----------------------------------------------------------------------------
(* Sums                                                                    *)

SumAt(s, f, i) == IF i = 0 THEN 0 ELSE f[i - 1] + s[i]

IsSum(s, f) ==
  /\ f \in [0 .. Len(s) -> Nat]
  /\ f[0] = 0 /\ \A i \in 0 .. Len(s) - 1 : f[i + 1] = f[i] + s[i + 1]
  /\ SumOf(s) = f[Len(s)]

(* Every sequence of numbers has its partial sums.                         *)
LEMMA SumExists ==
  ASSUME NEW s \in Seq(Nat)
  PROVE  \E f : IsSum(s, f)
<1> DEFINE L == Len(s)
           step == [i \in 1 .. L |-> [v \in Nat |-> v + s[i]]]
           f == CHOOSE g : g = [i \in 0 .. L |-> SumAt(s, g, i)]
<1>1. L \in Nat /\ step \in [1 .. L -> [Nat -> Nat]] /\ 0 \in Nat
  OBVIOUS
<1>2. SumOf(s) = f[L]
  BY DEF SumOf, SumAt
<1>3. \A i \in 1 .. L : \A v \in Nat : step[i][v] = v + s[i]
  OBVIOUS
<1>4. PICK g : IsHistory(g, Nat, L, 0, step)
  <2> HIDE DEF step, L
  <2> QED  BY <1>1, Iteration
<1> HIDE DEF step
<1>5. g \in [0 .. L -> Nat] /\ \A i \in 0 .. L : g[i] = IF i = 0 THEN 0 ELSE step[i][g[i - 1]]
  BY <1>4 DEF IsHistory
<1>6. ASSUME NEW i \in 0 .. L
      PROVE  g[i] = SumAt(s, g, i)
  <2>1. CASE i = 0
    BY <1>5, <2>1 DEF SumAt
  <2>2. CASE i # 0
    <3>1. i \in 1 .. L /\ g[i - 1] \in Nat /\ g[i] = step[i][g[i - 1]]
      BY <1>1, <1>5, <2>2, SMTT(30)
    <3> QED  BY <1>3, <2>2, <3>1 DEF SumAt
  <2> QED  BY <2>1, <2>2
<1>7. f = [i \in 0 .. L |-> SumAt(s, f, i)]
  <2>1. g = [i \in 0 .. L |-> SumAt(s, g, i)]
    BY <1>5, <1>6
  <2> QED  BY <2>1
<1> HIDE DEF f, L
<1>8. \A i \in 0 .. L : f[i] = SumAt(s, f, i)
  BY <1>7
<1>9. f[0] = 0
  BY <1>1, <1>8 DEF SumAt
<1>10. ASSUME NEW i \in 0 .. L - 1
       PROVE  f[i + 1] = f[i] + s[i + 1]
  <2>1. i + 1 \in 0 .. L /\ i + 1 # 0 /\ (i + 1) - 1 = i
    BY <1>1
  <2> QED  BY <1>8, <2>1 DEF SumAt
<1> DEFINE T == {i \in 0 .. L : f[i] \in Nat}
<1>11. 0 .. L \subseteq T
  <2>1. 0 \in T
    BY <1>1, <1>9
  <2>2. ASSUME NEW i \in 0 .. L - 1, i \in T
        PROVE  i + 1 \in T
    <3>1. i + 1 \in 1 .. L /\ s[i + 1] \in Nat
      BY <1>1 DEF L
    <3> QED  BY <1>10, <2>2, <3>1
  <2>3. \A i \in 0 .. L - 1 : i \in T => i + 1 \in T
    BY <2>2
  <2> HIDE DEF T
  <2> QED  BY <1>1, <2>1, <2>3, NumbersUpTo
<1>12. f \in [0 .. L -> Nat]
  BY <1>7, <1>11
<1> QED  BY <1>2, <1>9, <1>10, <1>12 DEF IsSum, L

(* A sum of numbers is a number.                                           *)
LEMMA SumIsNumber ==
  ASSUME NEW s \in Seq(Nat)
  PROVE  SumOf(s) \in Nat
<1>1. PICK f : IsSum(s, f)
  BY SumExists
<1> QED  BY <1>1 DEF IsSum

(* Distribution, for the provers.                                          *)
LEMMA Distributed ==
  ASSUME NEW c \in Nat, NEW x \in Nat, NEW y \in Nat
  PROVE  c * (x + y) = c * x + c * y /\ c * x \in Nat /\ c * y \in Nat
OBVIOUS

(* Sums are compared term by term.                                         *)
LEMMA SumBelow ==
  ASSUME NEW s \in Seq(Nat), NEW r \in Seq(Nat), Len(s) = Len(r), NEW c \in Nat,
         \A i \in 1 .. Len(s) : s[i] <= c * r[i]
  PROVE  SumOf(s) <= c * SumOf(r)
<1> DEFINE L == Len(s)
<1>1. PICK f : IsSum(s, f)
  BY SumExists
<1>2. PICK g : IsSum(r, g)
  BY SumExists
<1>0. L \in Nat /\ \A i \in 1 .. L : s[i] \in Nat /\ r[i] \in Nat /\ s[i] <= c * r[i]
  OBVIOUS
<1>9. f \in [0 .. L -> Nat] /\ g \in [0 .. L -> Nat]
  BY <1>1, <1>2 DEF IsSum
<1> HIDE DEF L
<1> DEFINE T == {i \in 0 .. L : f[i] <= c * g[i]}
<1>3. 0 \in T
  BY <1>0, <1>1, <1>2 DEF IsSum
<1>4. ASSUME NEW i \in 0 .. L - 1, i \in T
      PROVE  i + 1 \in T
  <2>1. i + 1 \in 1 .. L /\ i \in 0 .. L /\ i + 1 \in 0 .. L
    BY <1>0
  <2>2. f[i + 1] = f[i] + s[i + 1] /\ g[i + 1] = g[i] + r[i + 1]
    BY <1>1, <1>2 DEF IsSum, L
  <2>3. f[i] \in Nat /\ g[i] \in Nat /\ s[i + 1] \in Nat /\ r[i + 1] \in Nat /\ s[i + 1] <= c * r[i + 1]
    BY <1>0, <1>9, <2>1
  <2>4. c * (g[i] + r[i + 1]) = c * g[i] + c * r[i + 1] /\ c * g[i] \in Nat /\ c * r[i + 1] \in Nat
    BY <2>3, Distributed
  <2>5. c * g[i + 1] = c * g[i] + c * r[i + 1]
    BY <2>2, <2>4
  <2>6. f[i] <= c * g[i]
    BY <1>4
  <2>7. f[i + 1] <= c * g[i + 1]
    <3>1. \A p, q, u, v \in Nat : u <= p /\ v <= q => u + v <= p + q
      OBVIOUS
    <3>2. s[i + 1] <= c * r[i + 1]
      BY <2>3
    <3>3. f[i] + s[i + 1] <= c * g[i] + c * r[i + 1]
      BY <2>3, <2>4, <2>6, <3>1, <3>2
    <3> QED  BY <2>2, <2>5, <3>3
  <2> QED  BY <2>1, <2>7
<1>5. L \in T
  <2>1. \A i \in 0 .. L - 1 : i \in T => i + 1 \in T
    BY <1>4
  <2> HIDE DEF T
  <2>2. 0 .. L \subseteq T
    BY <1>0, <1>3, <2>1, NumbersUpTo
  <2> QED  BY <1>0, <2>2
<1> QED  BY <1>1, <1>2, <1>5 DEF IsSum, L

(* Sums compare as their terms do.                                         *)
LEMMA SumAtMost ==
  ASSUME NEW s \in Seq(Nat), NEW r \in Seq(Nat), Len(s) = Len(r),
         \A i \in 1 .. Len(s) : s[i] <= r[i]
  PROVE  SumOf(s) <= SumOf(r)
<1>1. \A i \in 1 .. Len(s) : s[i] <= 1 * r[i]
  OBVIOUS
<1>2. SumOf(s) <= 1 * SumOf(r)
  BY <1>1, SumBelow
<1> QED  BY <1>2, SumIsNumber

(* A term that grows lets the sum grow by as much.                         *)
LEMMA SumChanged ==
  ASSUME NEW s \in Seq(Nat), NEW r \in Seq(Nat), Len(s) = Len(r),
         NEW j \in 1 .. Len(s), NEW d \in Nat, s[j] = r[j] + d,
         \A i \in 1 .. Len(s) : i # j => s[i] = r[i]
  PROVE  SumOf(s) = SumOf(r) + d
<1> DEFINE L == Len(s)
<1>1. PICK f : IsSum(s, f)
  BY SumExists
<1>2. PICK g : IsSum(r, g)
  BY SumExists
<1>0. /\ L \in Nat /\ j \in Nat /\ 1 <= j /\ j <= L
      /\ \A i \in 1 .. L : s[i] \in Nat /\ r[i] \in Nat /\ s[i] = IF i = j THEN r[i] + d ELSE r[i]
  BY SMTT(30)
<1>9. f \in [0 .. L -> Nat] /\ g \in [0 .. L -> Nat]
  BY <1>1, <1>2 DEF IsSum
<1> HIDE DEF L
<1> DEFINE T == {i \in 0 .. L : f[i] = IF j <= i THEN g[i] + d ELSE g[i]}
<1>3. 0 \in T
  BY <1>0, <1>1, <1>2 DEF IsSum
<1>4. ASSUME NEW i \in 0 .. L - 1, i \in T
      PROVE  i + 1 \in T
  <2>1. i + 1 \in 1 .. L /\ i \in 0 .. L /\ i + 1 \in 0 .. L
    BY <1>0
  <2>2. f[i + 1] = f[i] + s[i + 1] /\ g[i + 1] = g[i] + r[i + 1]
    BY <1>1, <1>2 DEF IsSum, L
  <2>3. f[i] \in Nat /\ g[i] \in Nat /\ s[i + 1] \in Nat /\ r[i + 1] \in Nat
    BY <1>0, <1>9, <2>1
  <2>4. s[i + 1] = IF i + 1 = j THEN r[i + 1] + d ELSE r[i + 1]
    BY <1>0, <2>1
  <2>5. f[i] = IF j <= i THEN g[i] + d ELSE g[i]
    BY <1>4
  <2>6. f[i + 1] = IF j <= i + 1 THEN g[i + 1] + d ELSE g[i + 1]
    <3>1. CASE j <= i
      <4>1. s[i + 1] = r[i + 1] /\ f[i] = g[i] + d /\ j <= i + 1
        BY <1>0, <2>4, <2>5, <3>1
      <4>2. \A u, v \in Nat : (u + d) + v = (u + v) + d
        OBVIOUS
      <4>3. f[i + 1] = (g[i] + r[i + 1]) + d
        BY <2>2, <2>3, <4>1, <4>2, ZenonT(30)
      <4> QED  BY <2>2, <4>1, <4>3
    <3>2. CASE j = i + 1
      BY <1>0, <2>2, <2>3, <2>4, <2>5, <3>2
    <3>3. CASE j > i + 1
      BY <1>0, <2>2, <2>3, <2>4, <2>5, <3>3
    <3> QED  BY <1>0, <3>1, <3>2, <3>3
  <2> QED  BY <2>1, <2>6
<1>5. L \in T
  <2>1. \A i \in 0 .. L - 1 : i \in T => i + 1 \in T
    BY <1>4
  <2> HIDE DEF T
  <2>2. 0 .. L \subseteq T
    BY <1>0, <1>3, <2>1, NumbersUpTo
  <2> QED  BY <1>0, <2>2
<1> QED  BY <1>0, <1>1, <1>2, <1>5 DEF IsSum, L

(* A term is no more than the sum.                                         *)
LEMMA TermBelowSum ==
  ASSUME NEW s \in Seq(Nat), NEW j \in 1 .. Len(s)
  PROVE  s[j] <= SumOf(s)
<1> DEFINE r == [s EXCEPT ![j] = 0]
<1>1. /\ r \in Seq(Nat) /\ Len(r) = Len(s) /\ s[j] \in Nat /\ s[j] = r[j] + s[j]
      /\ \A i \in 1 .. Len(s) : i # j => s[i] = r[i]
  OBVIOUS
<1> HIDE DEF r
<1>2. SumOf(s) = SumOf(r) + s[j]
  BY <1>1, SumChanged
<1> QED  BY <1>1, <1>2, SumIsNumber

-----------------------------------------------------------------------------
(* Bytecode                                                                *)

IsSeq(c) == \E S : c \in Seq(S)

(* A sequence is the function of its terms.                                *)
LEMMA SeqIsFunction ==
  ASSUME NEW c, IsSeq(c)
  PROVE  Len(c) \in Nat /\ DOMAIN c = 1 .. Len(c) /\ c = [i \in 1 .. Len(c) |-> c[i]]
BY DEF IsSeq

(* The terms of a sequence over a set are in it.                           *)
LEMMA Terms ==
  ASSUME NEW S, NEW s \in Seq(S)
  PROVE  Len(s) \in Nat /\ DOMAIN s = 1 .. Len(s) /\ \A i \in 1 .. Len(s) : s[i] \in S
  OBVIOUS

(* A function on the first numbers is a sequence.                          *)
LEMMA FunctionIsSeq ==
  ASSUME NEW n \in Nat, NEW c, c = [i \in 1 .. n |-> c[i]]
  PROVE  IsSeq(c) /\ Len(c) = n
<1> DEFINE S == {c[i] : i \in 1 .. n}
<1>1. \A i \in 1 .. n : c[i] \in S
  OBVIOUS
<1> HIDE DEF S
<1>2. [i \in 1 .. n |-> c[i]] \in [1 .. n -> S]
  BY <1>1
<1>3. c \in [1 .. n -> S]
  BY <1>2
<1> QED  BY <1>3 DEF IsSeq

(* Lengths add up.                                                         *)
LEMMA Joined ==
  ASSUME NEW c, IsSeq(c), NEW e, IsSeq(e)
  PROVE  IsSeq(c \o e) /\ Len(c \o e) = Len(c) + Len(e)
<1>1. PICK S : c \in Seq(S)
  BY DEF IsSeq
<1>2. PICK T : e \in Seq(T)
  BY DEF IsSeq
<1>3. c \in Seq(S \cup T) /\ e \in Seq(S \cup T)
  BY <1>1, <1>2
<1>4. c \o e \in Seq(S \cup T) /\ Len(c \o e) = Len(c) + Len(e)
  BY <1>3
<1> QED  BY <1>4 DEF IsSeq

(* Code of one cell.                                                       *)
LEMMA SingleIsSeq == \A x : IsSeq(<<x>>) /\ Len(<<x>>) = 1
<1>1. \A x : <<x>> \in Seq({x}) /\ Len(<<x>>) = 1
  OBVIOUS
<1> QED  BY <1>1 DEF IsSeq

(* Code of no cell.                                                        *)
LEMMA EmptyIsSeq == IsSeq(<<>>) /\ Len(<<>>) = 0
<1>1. <<>> \in Seq({}) /\ Len(<<>>) = 0
  OBVIOUS
<1> QED  BY <1>1 DEF IsSeq

(* Filling something in changes no length.                                 *)
LEMMA PatchedIsSeq ==
  ASSUME NEW c, IsSeq(c), NEW bytes
  PROVE  IsSeq(Patched(c, bytes)) /\ Len(Patched(c, bytes)) = Len(c)
<1>1. Len(c) \in Nat /\ DOMAIN c = 1 .. Len(c)
  BY SeqIsFunction
<1> DEFINE new == Patched(c, bytes)
<1>2. new = [i \in DOMAIN c |-> new[i]]
  BY DEF Patched
<1> HIDE DEF new
<1>3. IsSeq(new) /\ Len(new) = Len(c)
  BY <1>1, <1>2, FunctionIsSeq
<1> QED  BY <1>3 DEF new

(* toBigEndian gives as many bytes as asked for.                           *)
LEMMA BigEndianIsSeq ==
  ASSUME NEW v, NEW n \in Nat
  PROVE  IsSeq(BigEndian(v, n)) /\ Len(BigEndian(v, n)) = n
<1> DEFINE c == BigEndian(v, n)
<1>1. c = [i \in 1 .. n |-> c[i]]
  BY DEF BigEndian
<1> HIDE DEF c
<1>2. IsSeq(c) /\ Len(c) = n
  BY <1>1, FunctionIsSeq
<1> QED  BY <1>2 DEF c

(* The length of a push that is filled in later.                           *)
LEMMA PlaceholderLength ==
  ASSUME NEW n \in Nat
  PROVE  IsSeq(Placeholder(n)) /\ Len(Placeholder(n)) = 1 + n
<1>1. Zeros(n) = [i \in 1 .. n |-> Zeros(n)[i]]
  BY DEF Zeros
<1>2. IsSeq(Zeros(n)) /\ Len(Zeros(n)) = n
  BY <1>1, FunctionIsSeq
<1> QED  BY <1>2, SingleIsSeq, Joined DEF Placeholder

(* The length of a push of a number.                                       *)
LEMMA NumberLength ==
  ASSUME NEW v \in Nat
  PROVE  IsSeq(Number(v)) /\ Len(Number(v)) = 1 + AtLeastOne(NumberBytes(v))
<1>1. AtLeastOne(NumberBytes(v)) \in Nat
  BY NumberBytesSound DEF AtLeastOne
<1> QED  BY <1>1, BigEndianIsSeq, SingleIsSeq, Joined DEF Number

(* The length of a store of an immutable.                                  *)
LEMMA StoreLength ==
  ASSUME NEW v \in Nat
  PROVE  IsSeq(StoreAt(v)) /\ Len(StoreAt(v)) = 3 + NumberBytes(v)
<1> DEFINE n == NumberBytes(v)
           first == <<Op("DUP1"), Push(n)>>
           last == <<Op("MSTORE")>>
<1>1. n \in Nat
  BY NumberBytesSound
<1>2. first \in Seq({Op("DUP1"), Push(n)}) /\ Len(first) = 2
  OBVIOUS
<1>3. IsSeq(first) /\ Len(first) = 2
  BY <1>2 DEF IsSeq
<1>4. IsSeq(BigEndian(v, n)) /\ Len(BigEndian(v, n)) = n
  BY <1>1, BigEndianIsSeq
<1>5. StoreAt(v) = (first \o BigEndian(v, n)) \o last
  BY DEF StoreAt
<1> HIDE DEF n, first
<1>6. IsSeq(first \o BigEndian(v, n)) /\ Len(first \o BigEndian(v, n)) = 2 + n
  BY <1>3, <1>4, Joined
<1>7. IsSeq(last) /\ Len(last) = 1
  BY SingleIsSeq
<1> HIDE DEF last
<1>8. IsSeq(StoreAt(v)) /\ Len(StoreAt(v)) = (2 + n) + 1
  BY <1>5, <1>6, <1>7, Joined
<1> QED  BY <1>1, <1>8 DEF n

(* The stores of an immutable, place by place.                             *)
StoresAt(places, f, k) == IF k = 0 THEN <<>> ELSE f[k - 1] \o StoreAt(places[k])

(* The stores to a list of places are well defined.                        *)
LEMMA StoresExist ==
  ASSUME NEW places \in Seq(Nat)
  PROVE  \E f : f = [k \in 0 .. Len(places) |-> StoresAt(places, f, k)]
<1> DEFINE L == Len(places)
           S == UNION {{StoreAt(places[k])[i] : i \in DOMAIN StoreAt(places[k])} : k \in 1 .. L}
           V == Seq(S)
           step == [k \in 1 .. L |-> [c \in V |-> c \o StoreAt(places[k])]]
<1>1. L \in Nat /\ <<>> \in V
  OBVIOUS
<1>2. ASSUME NEW k \in 1 .. L
      PROVE  StoreAt(places[k]) \in V
  <2>1. IsSeq(StoreAt(places[k]))
    <3>1. places[k] \in Nat
      OBVIOUS
    <3> QED  BY <3>1, StoreLength
  <2> DEFINE c == StoreAt(places[k])
  <2>2. Len(c) \in Nat /\ DOMAIN c = 1 .. Len(c) /\ c = [i \in 1 .. Len(c) |-> c[i]]
    BY <2>1, SeqIsFunction
  <2>3. \A i \in DOMAIN c : c[i] \in S
    OBVIOUS
  <2> HIDE DEF c, S
  <2>4. c \in [1 .. Len(c) -> S]
    BY <2>2, <2>3
  <2>5. c \in Seq(S)
    BY <2>2, <2>4
  <2> QED  BY <2>5 DEF c
<1> HIDE DEF S
<1>3. \A k \in 1 .. L : \A c \in V : c \o StoreAt(places[k]) \in V
  BY <1>2
<1> HIDE DEF V
<1>4. /\ step \in [1 .. L -> [V -> V]]
      /\ \A k \in 1 .. L : \A c \in V : step[k][c] = c \o StoreAt(places[k])
  BY <1>3
<1> HIDE DEF L, step
<1>5. PICK f : IsHistory(f, V, L, <<>>, step)
  BY <1>1, <1>4, Iteration
<1>6. f \in [0 .. L -> V] /\ \A k \in 0 .. L : f[k] = IF k = 0 THEN <<>> ELSE step[k][f[k - 1]]
  BY <1>5 DEF IsHistory
<1>7. ASSUME NEW k \in 0 .. L
      PROVE  f[k] = StoresAt(places, f, k)
  <2>1. CASE k = 0
    BY <1>6, <2>1 DEF StoresAt
  <2>2. CASE k # 0
    <3>1. k \in 1 .. L /\ f[k - 1] \in V
      BY <1>1, <1>6, <2>2
    <3>2. f[k] = step[k][f[k - 1]]
      BY <1>6, <2>2
    <3> QED  BY <1>4, <2>2, <3>1, <3>2 DEF StoresAt
  <2> QED  BY <2>1, <2>2
<1>8. f = [k \in 0 .. L |-> StoresAt(places, f, k)]
  BY <1>6, <1>7
<1> QED  BY <1>8 DEF L

(* Storing an immutable takes no more than the estimate for its places.    *)
LEMMA AssignedLength ==
  ASSUME NEW places \in Seq(Nat)
  PROVE  /\ IsSeq(Assigned(places))
         /\ (\A k \in 1 .. Len(places) : places[k] < Power[WordBytes])
              => Len(Assigned(places)) <= 1 + (3 + WordBytes) * Len(places)
<1> DEFINE L == Len(places)
           f == CHOOSE g : g = [k \in 0 .. L |-> StoresAt(places, g, k)]
           w == 3 + WordBytes
           Small == \A k \in 1 .. L : places[k] < Power[WordBytes]
           Sound(k) == IsSeq(f[k]) /\ (Small => Len(f[k]) <= w * k)
           T == {k \in 0 .. L : Sound(k)}
<1>0. L \in Nat /\ w \in Nat /\ \A k \in 1 .. L : places[k] \in Nat
  BY BytesAssumption
<1>1. f = [k \in 0 .. L |-> StoresAt(places, f, k)]
  BY StoresExist
<1>2. Assigned(places) = f[L] \o <<Op("POP")>>
  BY DEF Assigned, StoresAt
<1> HIDE DEF f
<1>3. \A k \in 0 .. L : f[k] = StoresAt(places, f, k)
  BY <1>1
<1>4. 0 \in T
  <2>1. 0 \in 0 .. L
    BY <1>0
  <2>2. StoresAt(places, f, 0) = <<>>
    BY DEF StoresAt
  <2>3. f[0] = <<>>
    BY <1>3, <2>1, <2>2
  <2> QED  BY <1>0, <2>1, <2>3, EmptyIsSeq
<1>5. ASSUME NEW k \in 0 .. L - 1, k \in T
      PROVE  k + 1 \in T
  <2>1. k + 1 \in 0 .. L /\ k + 1 \in 1 .. L /\ k + 1 # 0 /\ (k + 1) - 1 = k
    BY <1>0
  <2>2. f[k + 1] = f[k] \o StoreAt(places[k + 1])
    BY <1>3, <2>1 DEF StoresAt
  <2>3. IsSeq(f[k]) /\ IsSeq(StoreAt(places[k + 1])) /\ Len(StoreAt(places[k + 1])) = 3 + NumberBytes(places[k + 1])
    BY <1>0, <1>5, <2>1, StoreLength
  <2>4. IsSeq(f[k + 1]) /\ Len(f[k + 1]) = Len(f[k]) + (3 + NumberBytes(places[k + 1]))
    BY <2>2, <2>3, Joined
  <2>5. ASSUME Small
        PROVE  Len(f[k + 1]) <= w * (k + 1)
    <3>1. NumberBytes(places[k + 1]) \in Nat /\ NumberBytes(places[k + 1]) <= WordBytes
      BY <1>0, <2>1, <2>5, BytesAssumption, NumberBytesSound
    <3>2. w * (k + 1) = w * k + w /\ w * k \in Nat
      <4>1. k \in Nat /\ w \in Nat
        BY <1>0
      <4> HIDE DEF w
      <4>2. w * (k + 1) = w * k + w * 1 /\ w * k \in Nat
        BY <4>1, Distributed
      <4>3. w * 1 = w
        BY <4>1
      <4> QED  BY <4>2, <4>3
    <3>3. Len(f[k]) <= w * k /\ Len(f[k]) \in Nat
      BY <1>5, <2>5, SeqIsFunction
    <3> DEFINE b == w * k
    <3> HIDE DEF b
    <3>4. Len(f[k + 1]) <= b + w
      BY <2>4, <3>1, <3>2, <3>3, BytesAssumption, SMTT(30) DEF b
    <3> QED  BY <3>2, <3>4 DEF b
  <2> QED  BY <2>1, <2>4, <2>5
<1>6. L \in T
  <2>1. \A k \in 0 .. L - 1 : k \in T => k + 1 \in T
    BY <1>5
  <2> HIDE DEF T
  <2>2. 0 .. L \subseteq T
    BY <1>0, <1>4, <2>1, NumbersUpTo
  <2> QED  BY <1>0, <2>2
<1>7. Sound(L)
  BY <1>6
<1>8. IsSeq(Assigned(places)) /\ Len(Assigned(places)) = Len(f[L]) + 1
  BY <1>2, <1>7, SingleIsSeq, Joined
<1>9. Small => Len(Assigned(places)) <= 1 + w * L
  <2>1. w * L \in Nat /\ Len(f[L]) \in Nat
    BY <1>0, <1>7, SeqIsFunction
  <2> QED  BY <1>7, <1>8, <2>1
<1> QED  BY <1>8, <1>9

-----------------------------------------------------------------------------
(* The estimate of the size of the code                                    *)

IsItem(item) ==
  /\ item.type \in ItemTypes
  /\ item.type = "Push" => item.data \in Nat

IsFound(found) == \A i \in DOMAIN found : found[i] \in Seq(Nat)

(* An item has a size; by k wider references it grows to at most 1 + k     *)
(* times that size.                                                        *)
LEMMA ItemBytesSound ==
  ASSUME NEW item, IsItem(item), NEW t \in Nat, NEW k \in Nat, NEW found, IsFound(found)
  PROVE  /\ ItemBytes(item, t, found) \in Nat \ {0}
         /\ ItemBytes(item, t + k, found) <= (1 + k) * ItemBytes(item, t, found)
<1> USE BytesAssumption DEF ItemTypes
<1>1. \A b \in Nat : b <= (1 + k) * b
  <2>1. ASSUME NEW b \in Nat PROVE b <= (1 + k) * b
    <3>1. b * (1 + k) = b * 1 + b * k /\ b * k \in Nat
      BY Distributed
    <3>2. (1 + k) * b = b * (1 + k)
      OBVIOUS
    <3> DEFINE c == b * k
    <3> HIDE DEF c
    <3>3. b * (1 + k) = b + c /\ c \in Nat
      BY <3>1 DEF c
    <3> QED  BY <3>2, <3>3
  <2> QED  BY <2>1
<1>2. CASE item.type \in {"PushTag", "PushData", "PushSub"}
  <2>1. ItemBytes(item, t, found) = 1 + t /\ ItemBytes(item, t + k, found) = 1 + (t + k)
    BY <1>2 DEF ItemBytes
  <2>2. (1 + k) * (1 + t) = (1 + k) * 1 + (1 + k) * t /\ (1 + k) * t >= t
    BY <1>1, Distributed
  <2> DEFINE c == (1 + k) * t
  <2> HIDE DEF c
  <2>3. (1 + k) * (1 + t) = 1 + k + c /\ c >= t /\ c \in Nat
    BY <2>2, Distributed DEF c
  <2> QED  BY <2>1, <2>3
<1>3. CASE item.type \notin {"PushTag", "PushData", "PushSub"}
  <2>1. ItemBytes(item, t + k, found) = ItemBytes(item, t, found)
    BY <1>3 DEF ItemBytes, IsItem
  <2>2. ItemBytes(item, t, found) \in Nat \ {0}
    <3>1. CASE item.type \in {"Operation", "Tag"}
      BY <3>1, SMTT(30) DEF ItemBytes
    <3>2. CASE item.type \in {"PushString", "PushImmutable"}
      BY <3>2 DEF ItemBytes
    <3>3. CASE item.type = "Push"
      <4>1. item.data \in Nat
        BY <3>3 DEF IsItem
      <4>2. AtLeastOne(NumberBytes(item.data)) \in Nat
        BY <4>1, NumberBytesSound DEF AtLeastOne
      <4> QED  BY <3>3, <4>2 DEF ItemBytes
    <3>4. CASE item.type \in {"PushSubSize", "PushProgramSize"}
      BY <3>4 DEF ItemBytes
    <3>5. CASE item.type \in {"PushLibraryAddress", "PushDeployTimeAddress"}
      BY <3>5 DEF ItemBytes
    <3>6. CASE item.type = "AssignImmutable"
      <4>1. Occurrences(found, item.name) \in Seq(Nat)
        BY DEF Occurrences, IsFound
      <4>2. Len(Occurrences(found, item.name)) \in Nat
        BY <4>1
      <4>3. (3 + WordBytes) * Len(Occurrences(found, item.name)) \in Nat
        BY <4>2
      <4> QED  BY <3>6, <4>3 DEF ItemBytes
    <3> QED  BY <1>3, <3>1, <3>2, <3>3, <3>4, <3>5, <3>6 DEF IsItem
  <2> QED  BY <1>1, <2>1, <2>2
<1> QED  BY <1>2, <1>3

ItemSizes(a, t, found) == [i \in DOMAIN a.items |-> ItemBytes(a.items[i], t, found)]

HasItems(a) ==
  /\ IsSeq(a.items) /\ \A i \in DOMAIN a.items : IsItem(a.items[i])
  /\ a.data \in Seq(Nat)

(* The terms of the estimate are numbers, one for each item.               *)
LEMMA ItemSizesTyped ==
  ASSUME NEW a, HasItems(a), NEW t \in Nat, NEW found, IsFound(found)
  PROVE  /\ ItemSizes(a, t, found) \in Seq(Nat)
         /\ Len(ItemSizes(a, t, found)) = Len(a.items)
         /\ \A i \in 1 .. Len(a.items) : ItemSizes(a, t, found)[i] = ItemBytes(a.items[i], t, found)
<1>1. Len(a.items) \in Nat /\ DOMAIN a.items = 1 .. Len(a.items)
  BY SeqIsFunction DEF HasItems
<1>2. \A i \in 1 .. Len(a.items) : ItemBytes(a.items[i], t, found) \in Nat
  <2>1. 0 \in Nat
    OBVIOUS
  <2> QED  BY <1>1, <2>1, ItemBytesSound DEF HasItems
<1>3. ItemSizes(a, t, found) \in [1 .. Len(a.items) -> Nat]
  BY <1>1, <1>2 DEF ItemSizes
<1> QED  BY <1>1, <1>3 DEF ItemSizes

(* The estimate is a sum, and grows at most linearly with the width of tags. *)
LEMMA CodeBytesSound ==
  ASSUME NEW a, HasItems(a), NEW t \in Nat, NEW k \in Nat, NEW found, IsFound(found)
  PROVE  /\ CodeBytes(a, t, found) = 1 + SumOf(a.data) + SumOf(ItemSizes(a, t, found))
         /\ SumOf(a.data) \in Nat /\ SumOf(ItemSizes(a, t, found)) \in Nat
         /\ CodeBytes(a, t + k, found) <= (1 + k) * CodeBytes(a, t, found)
<1> DEFINE s == ItemSizes(a, t + k, found)
           r == ItemSizes(a, t, found)
           c == 1 + k
<1>0. c \in Nat /\ t + k \in Nat
  OBVIOUS
<1>1. CodeBytes(a, t, found) = 1 + SumOf(a.data) + SumOf(r) /\ CodeBytes(a, t + k, found) = 1 + SumOf(a.data) + SumOf(s)
  BY DEF CodeBytes, ItemSizes
<1>2. r \in Seq(Nat) /\ s \in Seq(Nat) /\ Len(s) = Len(r) /\ Len(r) = Len(a.items)
  BY <1>0, ItemSizesTyped
<1>3. \A i \in 1 .. Len(s) : s[i] <= c * r[i]
  <2>1. \A i \in 1 .. Len(a.items) : IsItem(a.items[i])
    BY SeqIsFunction DEF HasItems
  <2>2. \A i \in 1 .. Len(a.items) :
          s[i] = ItemBytes(a.items[i], t + k, found) /\ r[i] = ItemBytes(a.items[i], t, found)
    BY <1>0, ItemSizesTyped
  <2> HIDE DEF s, r
  <2>3. ASSUME NEW i \in 1 .. Len(a.items)
        PROVE  s[i] <= c * r[i]
    <3>1. ItemBytes(a.items[i], t + k, found) <= (1 + k) * ItemBytes(a.items[i], t, found)
      BY <2>1, ItemBytesSound
    <3> QED  BY <2>2, <3>1
  <2> QED  BY <1>2, <2>3
<1>4. SumOf(a.data) \in Nat /\ SumOf(r) \in Nat /\ SumOf(s) \in Nat
  BY <1>2, SumIsNumber DEF HasItems
<1> HIDE DEF s, r
<1>5. SumOf(s) <= c * SumOf(r)
  <2> HIDE DEF c
  <2> QED  BY <1>0, <1>2, <1>3, SumBelow
<1>6. 1 + SumOf(a.data) + SumOf(s) <= c * (1 + SumOf(a.data) + SumOf(r))
  <2> DEFINE d == 1 + SumOf(a.data)
             e == SumOf(r)
  <2>1. d \in Nat /\ e \in Nat
    BY <1>4
  <2> HIDE DEF d, e
  <2>2. c * (d + e) = c * d + c * e /\ c * d \in Nat /\ c * e \in Nat
    BY <1>0, <2>1, Distributed
  <2>3. c * d = d + k * d /\ k * d \in Nat
    <3>1. d * (1 + k) = d * 1 + d * k /\ d * k \in Nat
      BY <2>1, Distributed
    <3>2. c * d = d * (1 + k) /\ d * 1 = d /\ d * k = k * d
      BY <2>1
    <3> QED  BY <3>1, <3>2
  <2>4. \A p, q, u, v \in Nat : p <= q => d + p <= (d + u) + q
    BY <2>1
  <2>5. d + SumOf(s) <= (d + k * d) + c * e
    BY <1>4, <1>5, <2>2, <2>3, <2>4 DEF e
  <2>6. d + SumOf(s) <= c * (d + e)
    BY <2>2, <2>3, <2>5
  <2> QED  BY <2>6 DEF d, e
<1> QED  BY <1>1, <1>4, <1>6 DEF r

(* A power is more than the square of its exponent, almost.                *)
LEMMA PowerQuadratic == \A x \in Nat : (1 + x) * x < Power[x + 1]
<1> DEFINE T == {x \in Nat : (1 + x) * x < Power[x + 1]}
<1>0. \A k \in Nat : /\ Power[k] \in Nat /\ Power[k + 1] \in Nat /\ Power[k] > k
                      /\ Power[k + 1] >= 2 * Power[k]
  <2>1. ASSUME NEW k \in Nat
        PROVE  /\ Power[k] \in Nat /\ Power[k + 1] \in Nat /\ Power[k] > k
               /\ Power[k + 1] >= 2 * Power[k]
    <3>1. k + 1 \in Nat
      OBVIOUS
    <3> QED  BY <3>1, PowerBound, PowerSteps, Doubled
  <2> QED  BY <2>1
<1>1. 0 \in T
  <2>1. Power[0 + 1] > 0
    BY PowerBound
  <2> QED  BY <2>1
<1>2. 1 \in T
  <2>1. Power[1 + 1] > 2
    BY PowerBound
  <2> QED  BY <2>1
<1>3. 2 \in T
  <2>1. Power[1] >= 2 * Power[0] /\ Power[2] >= 2 * Power[1] /\ Power[3] >= 2 * Power[2]
    <3>1. Power[0 + 1] >= 2 * Power[0] /\ Power[1 + 1] >= 2 * Power[1] /\ Power[2 + 1] >= 2 * Power[2]
      BY <1>0
    <3> QED  BY <3>1
  <2>2. Power[0] = 1 /\ Power[1] \in Nat /\ Power[2] \in Nat /\ Power[3] \in Nat
    BY <1>0, PowerSteps
  <2>3. Power[2 + 1] >= 8
    BY <2>1, <2>2
  <2>4. (1 + 2) * 2 = 6 /\ Power[2 + 1] \in Nat
    BY <2>2
  <2>5. (1 + 2) * 2 < Power[2 + 1]
    BY <2>3, <2>4
  <2> QED  BY <2>5
<1>4. ASSUME NEW x \in Nat, x \in T
      PROVE  x + 1 \in T
  <2>1. CASE x = 0
    BY <1>2, <2>1
  <2>2. CASE x = 1
    BY <1>3, <2>2
  <2>3. CASE x >= 2
    <3> DEFINE y == x * x
    <3>1. y \in Nat /\ y >= 2 * x
      BY <2>3
    <3>2. (1 + x) * x = x + y /\ (1 + (x + 1)) * (x + 1) = y + 3 * x + 2
      OBVIOUS
    <3>3. x + y < Power[x + 1]
      BY <1>4, <3>2
    <3>4. x + 1 \in Nat /\ Power[x + 1] \in Nat /\ Power[(x + 1) + 1] \in Nat /\ Power[(x + 1) + 1] >= 2 * Power[x + 1]
      <4>1. x + 1 \in Nat
        OBVIOUS
      <4> QED  BY <1>0, <4>1
    <3> HIDE DEF y
    <3>5. y + 3 * x + 2 < Power[(x + 1) + 1]
      BY <2>3, <3>1, <3>3, <3>4
    <3> QED  BY <3>2, <3>4, <3>5
  <2> QED  BY <2>1, <2>2, <2>3
<1>5. Nat \subseteq T
  <2>1. \A x \in Nat : x \in T => x + 1 \in T
    BY <1>4
  <2> HIDE DEF T
  <2> QED  BY <1>1, <2>1, AllNumbers
<1> QED  BY <1>5

(* Assembly::bytesRequired ends: there is a size of tags with which all    *)
(* positions can be written.                                               *)
LEMMA TagSizeSound ==
  ASSUME NEW a, HasItems(a), NEW s \in Nat \ {0}, NEW found, IsFound(found)
  PROVE  /\ TagSize(a, s, found) \in Nat /\ TagSize(a, s, found) >= s
         /\ Suffices(a, TagSize(a, s, found), found)
<1> DEFINE x == CodeBytes(a, s, found)
           T == {t \in s .. s + x : Suffices(a, t, found)}
           First(t) == Suffices(a, t, found) /\ \A u \in s .. t - 1 : ~ Suffices(a, u, found)
<1>1. x \in Nat
  <2>1. s \in Nat /\ 0 \in Nat
    OBVIOUS
  <2>2. /\ x = 1 + SumOf(a.data) + SumOf(ItemSizes(a, s, found))
        /\ SumOf(a.data) \in Nat /\ SumOf(ItemSizes(a, s, found)) \in Nat
    BY <2>1, CodeBytesSound
  <2> HIDE DEF x
  <2> QED  BY <2>2
<1>2. TagSize(a, s, found) = CHOOSE t \in s .. s + x : First(t)
  BY DEF TagSize
<1> HIDE DEF x
<1>3. Suffices(a, s + x, found)
  <2>1. CodeBytes(a, s + x, found) <= (1 + x) * x /\ CodeBytes(a, s + x, found) \in Nat
    <3>1. s + x \in Nat /\ 0 \in Nat
      BY <1>1
    <3>2. CodeBytes(a, s + x, found) \in Nat
      BY <3>1, CodeBytesSound
    <3> QED  BY <1>1, <3>2, CodeBytesSound DEF x
  <2>2. (1 + x) * x < Power[x + 1] /\ (1 + x) * x \in Nat
    BY <1>1, PowerQuadratic
  <2>3. Power[x + 1] <= Power[s + x]
    <3>1. x + 1 \in Nat /\ s + x \in Nat /\ x + 1 <= s + x
      BY <1>1
    <3> QED  BY <3>1, PowerMonotone
  <2>4. Power[x + 1] \in Nat /\ Power[s + x] \in Nat /\ s + x \in Nat
    <3>1. x + 1 \in Nat /\ s + x \in Nat
      BY <1>1
    <3> QED  BY <3>1, PowerBound
  <2> DEFINE y == (1 + x) * x
             z == CodeBytes(a, s + x, found)
  <2> HIDE DEF y, z
  <2>5. z < Power[s + x]
    <3>1. z <= y /\ y < Power[x + 1] /\ z \in Nat /\ y \in Nat
      BY <2>1, <2>2 DEF y, z
    <3> QED  BY <2>3, <2>4, <3>1
  <2>6. NumberBytes(z) <= s + x
    BY <2>1, <2>4, <2>5, NumberBytesSound DEF z
  <2> QED  BY <2>6 DEF z, Suffices
<1>4. T \subseteq Nat /\ s + x \in T
  BY <1>1, <1>3
<1>5. PICK t \in T : \A u \in T : t <= u
  <2> HIDE DEF T
  <2> QED  BY <1>4, LeastNumber
<1>6. t \in s .. s + x /\ First(t)
  BY <1>1, <1>5
<1>7. TagSize(a, s, found) \in s .. s + x /\ First(TagSize(a, s, found))
  <2> HIDE DEF First
  <2> QED  BY <1>2, <1>6
<1> QED  BY <1>1, <1>7

(* The terms of a sum with numbers in R.                                   *)
Masked(s, R) == [i \in DOMAIN s |-> IF i \in R THEN s[i] ELSE 0]
Part(s, R) == SumOf(Masked(s, R))

(* A part of a sum is no more than all of it, and grows by a new term.     *)
LEMMA PartSound ==
  ASSUME NEW s \in Seq(Nat), NEW R
  PROVE  /\ Part(s, R) \in Nat /\ Part(s, R) <= SumOf(s)
         /\ \A j \in 1 .. Len(s) : j \notin R => Part(s, R \cup {j}) = Part(s, R) + s[j]
<1>0. Len(s) \in Nat /\ DOMAIN s = 1 .. Len(s) /\ \A i \in 1 .. Len(s) : s[i] \in Nat
  OBVIOUS
<1>1. ASSUME NEW Q
      PROVE  Masked(s, Q) \in Seq(Nat) /\ Len(Masked(s, Q)) = Len(s)
  <2>1. Masked(s, Q) \in [1 .. Len(s) -> Nat]
    BY <1>0 DEF Masked
  <2> QED  BY <1>0, <2>1
<1>2. Part(s, R) \in Nat
  BY <1>1, SumIsNumber DEF Part
<1>3. Part(s, R) <= SumOf(s)
  <2>1. \A i \in 1 .. Len(s) : Masked(s, R)[i] <= s[i]
    BY <1>0 DEF Masked
  <2> QED  BY <1>1, <2>1, SumAtMost DEF Part
<1>4. ASSUME NEW j \in 1 .. Len(s), j \notin R
      PROVE  Part(s, R \cup {j}) = Part(s, R) + s[j]
  <2> DEFINE f == Masked(s, R \cup {j})
             g == Masked(s, R)
  <2>1. f \in Seq(Nat) /\ g \in Seq(Nat) /\ Len(f) = Len(g) /\ Len(f) = Len(s)
    BY <1>1
  <2>2. f[j] = g[j] + s[j] /\ \A i \in 1 .. Len(f) : i # j => f[i] = g[i]
    BY <1>0, <1>4, <2>1 DEF Masked
  <2> HIDE DEF f, g
  <2>3. j \in 1 .. Len(f) /\ s[j] \in Nat
    BY <1>0, <1>4, <2>1
  <2>4. SumOf(f) = SumOf(g) + s[j]
    BY <2>1, <2>2, <2>3, SumChanged
  <2> QED  BY <2>4 DEF f, g, Part
<1> QED  BY <1>2, <1>3, <1>4

-----------------------------------------------------------------------------
(* Objects of subs                                                         *)

Offsets(o) ==
  \A i \in DOMAIN o.immutables :
    o.immutables[i] \in Seq(Nat) /\ \A k \in DOMAIN o.immutables[i] : o.immutables[i][k] < Len(o.code)

(* What is known of the object of an assembly.                             *)
IsObject(o) ==
  /\ IsSeq(o.code)
  /\ \A t \in DOMAIN o.tagPos : o.tagPos[t] \in 0 .. Len(o.code)
  /\ Offsets(o)

AreObjects(subs) == IsSeq(subs) /\ \A i \in DOMAIN subs : IsObject(subs[i])

Lengths(subs) == [i \in DOMAIN subs |-> Len(subs[i].code)]

(* The lengths of the subs are numbers, one for each sub.                  *)
LEMMA LengthsTyped ==
  ASSUME NEW subs, AreObjects(subs)
  PROVE  /\ Len(subs) \in Nat /\ DOMAIN subs = 1 .. Len(subs)
         /\ Lengths(subs) \in Seq(Nat) /\ Len(Lengths(subs)) = Len(subs)
         /\ \A i \in 1 .. Len(subs) : Lengths(subs)[i] = Len(subs[i].code)
<1>1. Len(subs) \in Nat /\ DOMAIN subs = 1 .. Len(subs)
  BY SeqIsFunction DEF AreObjects
<1>2. \A i \in 1 .. Len(subs) : Len(subs[i].code) \in Nat
  BY <1>1, SeqIsFunction DEF AreObjects, IsObject
<1>3. Lengths(subs) \in [1 .. Len(subs) -> Nat]
  BY <1>1, <1>2 DEF Lengths
<1> QED  BY <1>1, <1>3 DEF Lengths

(* The number of bytes taken from the positions of tags in subs is a       *)
(* number, and none of these positions is more than that.                  *)
LEMMA SubTagSizeSound ==
  ASSUME NEW subs, AreObjects(subs)
  PROVE  /\ SubTagSize(subs) \in Nat \ {0}
         /\ \A i \in DOMAIN subs : \A t \in DOMAIN subs[i].tagPos :
              subs[i].tagPos[t] \in Nat /\ subs[i].tagPos[t] <= SubTagSize(subs)
<1> DEFINE S == {1} \cup UNION {Range(subs[i].tagPos) : i \in DOMAIN subs}
           B == 1 + SumOf(Lengths(subs))
<1>1. B \in Nat /\ 1 <= B
  BY LengthsTyped, SumIsNumber
<1>2. ASSUME NEW i \in DOMAIN subs, NEW t \in DOMAIN subs[i].tagPos
      PROVE  subs[i].tagPos[t] \in 0 .. B
  <2>1. subs[i].tagPos[t] \in 0 .. Len(subs[i].code) /\ Len(subs[i].code) \in Nat
    BY SeqIsFunction DEF AreObjects, IsObject
  <2>2. Len(subs[i].code) <= SumOf(Lengths(subs)) /\ SumOf(Lengths(subs)) \in Nat
    BY LengthsTyped, TermBelowSum, SumIsNumber
  <2> QED  BY <2>1, <2>2
<1> HIDE DEF B
<1>3. S \subseteq 0 .. B
  BY <1>1, <1>2 DEF Range
<1>4. IsFiniteSet(S) /\ S \subseteq Nat /\ S # {}
  <2>1. IsFiniteSet(0 .. B)
    BY <1>1, FS_Interval
  <2> QED  BY <1>1, <1>3, <2>1, FS_Subset
<1>5. 1 \in S /\ \A i \in DOMAIN subs : \A t \in DOMAIN subs[i].tagPos : subs[i].tagPos[t] \in S
  BY DEF Range
<1>6. SubTagSize(subs) = Max(S)
  BY DEF SubTagSize
<1> HIDE DEF S
<1>7. \E n \in S : \A m \in S : n >= m
  BY <1>4, GreatestNumber
<1>8. Max(S) \in S /\ \A m \in S : Max(S) >= m
  BY <1>7 DEF Max
<1>9. Max(S) \in Nat \ {0}
  <2>1. Max(S) \in Nat
    BY <1>4, <1>8
  <2>2. Max(S) >= 1
    BY <1>5, <1>8
  <2> QED  BY <2>1, <2>2
<1>10. ASSUME NEW i \in DOMAIN subs, NEW t \in DOMAIN subs[i].tagPos
       PROVE  subs[i].tagPos[t] \in Nat /\ subs[i].tagPos[t] <= Max(S)
  <2>1. subs[i].tagPos[t] \in S
    BY <1>5
  <2>2. subs[i].tagPos[t] \in Nat /\ Max(S) >= subs[i].tagPos[t]
    BY <1>4, <1>8, <2>1
  <2> QED  BY <1>9, <2>2
<1> QED  BY <1>6, <1>9, <1>10

(* The immutables to be assigned are read at places inside a sub.          *)
LEMMA ImmutablesSound ==
  ASSUME NEW subs, AreObjects(subs)
  PROVE  /\ IsFound(ImmutablesOf(subs))
         /\ \A x \in DOMAIN ImmutablesOf(subs) : \A k \in DOMAIN ImmutablesOf(subs)[x] :
              \E i \in DOMAIN subs : ImmutablesOf(subs)[x][k] < Len(subs[i].code)
<1> DEFINE s == CHOOSE i \in WithImmutables(subs) : TRUE
<1>1. CASE WithImmutables(subs) = {}
  <2>1. DOMAIN ImmutablesOf(subs) = {}
    BY <1>1 DEF ImmutablesOf, Nothing
  <2> QED  BY <2>1 DEF IsFound
<1>2. CASE WithImmutables(subs) # {}
  <2>1. s \in DOMAIN subs
    <3>1. s \in WithImmutables(subs)
      BY <1>2
    <3> HIDE DEF s
    <3> QED  BY <3>1 DEF WithImmutables
  <2>2. ImmutablesOf(subs) = subs[s].immutables
    BY <1>2 DEF ImmutablesOf
  <2> HIDE DEF s
  <2>3. Offsets(subs[s])
    BY <2>1 DEF AreObjects, IsObject
  <2> QED  BY <2>1, <2>2, <2>3 DEF Offsets, IsFound
<1> QED  BY <1>1, <1>2

-----------------------------------------------------------------------------
(* The estimate and its parts                                              *)

BytesOfTags(a, subs) == TagSize(a, SubTagSize(subs), ImmutablesOf(subs))
Sizes(a, subs) == ItemSizes(a, BytesOfTags(a, subs), ImmutablesOf(subs))

(* What the estimate consists of, at the width of tags the search ends with. *)
LEMMA EstimateSound ==
  ASSUME NEW a, HasItems(a), a.aux \in Nat, NEW subs, AreObjects(subs)
  PROVE  /\ BytesOfTags(a, subs) \in Nat /\ SubTagSize(subs) <= BytesOfTags(a, subs)
         /\ NumberBytes(bytesRequired(a, subs)) <= BytesOfTags(a, subs)
         /\ Sizes(a, subs) \in Seq(Nat) /\ Len(Sizes(a, subs)) = Len(a.items)
         /\ \A k \in 1 .. Len(a.items) :
              Sizes(a, subs)[k] = ItemBytes(a.items[k], BytesOfTags(a, subs), ImmutablesOf(subs))
         /\ SumOf(a.data) \in Nat /\ SumOf(Sizes(a, subs)) \in Nat /\ SumOf(Lengths(subs)) \in Nat
         /\ bytesRequired(a, subs) = 1 + SumOf(a.data) + SumOf(Sizes(a, subs))
         /\ EstimateWithSubs(a, subs) = bytesRequired(a, subs) + 1 + a.aux + SumOf(Lengths(subs))
<1> DEFINE t == BytesOfTags(a, subs)
           found == ImmutablesOf(subs)
<1>1. IsFound(found)
  BY ImmutablesSound
<1>2. SubTagSize(subs) \in Nat \ {0}
  BY SubTagSizeSound
<1> HIDE DEF found
<1>3. t \in Nat /\ t >= SubTagSize(subs) /\ Suffices(a, t, found)
  BY <1>1, <1>2, TagSizeSound DEF BytesOfTags, found
<1>4. bytesRequired(a, subs) = CodeBytes(a, t, found)
  BY DEF bytesRequired, BytesOfTags, found
<1>5. Sizes(a, subs) = ItemSizes(a, t, found)
  BY DEF Sizes, found
<1> HIDE DEF t
<1>6. NumberBytes(bytesRequired(a, subs)) <= t
  BY <1>3, <1>4 DEF Suffices
<1>7. /\ CodeBytes(a, t, found) = 1 + SumOf(a.data) + SumOf(ItemSizes(a, t, found))
      /\ SumOf(a.data) \in Nat /\ SumOf(ItemSizes(a, t, found)) \in Nat
  <2>1. 0 \in Nat
    OBVIOUS
  <2> QED  BY <1>1, <1>3, <2>1, CodeBytesSound
<1>8. /\ ItemSizes(a, t, found) \in Seq(Nat) /\ Len(ItemSizes(a, t, found)) = Len(a.items)
      /\ \A k \in 1 .. Len(a.items) : ItemSizes(a, t, found)[k] = ItemBytes(a.items[k], t, found)
  BY <1>1, <1>3, ItemSizesTyped
<1>9. SumOf(Lengths(subs)) \in Nat
  BY LengthsTyped, SumIsNumber
<1>10. EstimateWithSubs(a, subs) = bytesRequired(a, subs) + 1 + a.aux + SumOf(Lengths(subs))
  BY DEF EstimateWithSubs, Lengths
<1>11. SubTagSize(subs) <= t
  BY <1>2, <1>3
<1> QED  BY <1>3, <1>4, <1>5, <1>6, <1>7, <1>8, <1>9, <1>10, <1>11 DEF t, found

-----------------------------------------------------------------------------
(* The invariant.  Objects that are done fit their widths; what has been   *)
(* appended to the one in progress is no more than the parts of the        *)
(* estimate that account for it.                                           *)

Subs == SubObjects(current, objects)
Own  == Sizes(current, Subs)

Narrow == dataWidth = width /\ dataWidth <= SizeBytes /\ SizesCounted(here)

Fits(n) ==
  /\ CountedSubs(n) /\ SizesCounted(n)
  /\ objects[n].dataWidth = objects[n].width /\ objects[n].dataWidth <= SizeBytes
  => Len(objects[n].code) < Power[objects[n].dataWidth]

ObjectsInv ==
  /\ tree \in Trees
  /\ IsSeq(objects) /\ Len(objects) <= Len(tree)
  /\ \A n \in 1 .. Len(objects) : IsObject(objects[n]) /\ Fits(n)

(* The part of an object that there is so far.                             *)
SoFar == [code |-> code, tagPos |-> tagPos, immutables |-> immutables]

MeasureInv ==
  /\ here \in DOMAIN tree
  /\ next = 1 /\ code = <<>> /\ tagPos = Nothing /\ refs = NoRefs /\ links = Nothing /\ immutables = Nothing

WidthsInv ==
  /\ width = NumberBytes(bytesRequired(current, Subs))
  /\ dataWidth = NumberBytes(EstimateWithSubs(current, Subs))

RefersTo(r, k) == current.items[k].type = "PushSub" /\ current.items[k].data = r.id

WorkInv ==
  /\ here \in DOMAIN tree
  /\ WidthsInv
  /\ IsObject(SoFar)
  /\ refs = [tag |-> refs.tag, sub |-> refs.sub, data |-> refs.data, size |-> refs.size]
  /\ Narrow => \A t \in DOMAIN tagPos : tagPos[t] <= SumOf(Own)
  /\ \A r \in refs.tag : \E k \in DOMAIN current.items :
       current.items[k].type = "PushTag" /\ current.items[k].sub = r.sub
  /\ \A r \in refs.sub : \E k \in DOMAIN current.items : RefersTo(r, k)
  /\ CountedSubs(here) => \A r, q \in refs.sub : r.id = q.id => r = q

ItemsInv ==
  /\ next \in 1 .. Len(current.items) + 1
  /\ Narrow => Len(code) <= Part(Own, 1 .. next - 1)
  /\ \A r \in refs.sub : \E k \in 1 .. next - 1 : RefersTo(r, k)
  /\ \A i \in DOMAIN unassigned : i \in DOMAIN ImmutablesOf(Subs) /\ unassigned[i] = ImmutablesOf(Subs)[i]

Appended == {id \in DOMAIN Subs : \A r \in refs.sub : r.id # id}

SubsInv ==
  Narrow /\ CountedSubs(here) => Len(code) <= SumOf(Own) + 1 + Part(Lengths(Subs), Appended)

DataInv ==
  /\ next \in 1 .. Len(current.data) + 1
  /\ Narrow /\ CountedSubs(here)
       => Len(code) <= SumOf(Own) + 1 + SumOf(Lengths(Subs)) + Part(current.data, 1 .. next - 1)

TooLargeInv ==
  /\ dataWidth > width \/ dataWidth > SizeBytes \/ ~ SizesCounted(here)
  /\ \A r \in refs.tag : r.sub # 0 => NumberBytes(TagPositions(r.sub)[r.tag]) <= width

AssemblerInv ==
  /\ ObjectsInv
  /\ pc = "measure" => MeasureInv
  /\ pc \in {"items", "subs", "data"} => WorkInv
  /\ pc = "items" => ItemsInv
  /\ pc = "subs" => SubsInv
  /\ pc = "data" => DataInv
  /\ pc = "tag too large" => TooLargeInv

-----------------------------------------------------------------------------
(* The assembly that is being assembled                                    *)

(* What is done is the first part of the tree.                             *)
LEMMA TreeSound ==
  ASSUME ObjectsInv
  PROVE  /\ Len(tree) \in Nat \ {0} /\ DOMAIN tree = 1 .. Len(tree)
         /\ Len(objects) \in 0 .. Len(tree) /\ DOMAIN objects = 1 .. Len(objects)
         /\ \A n \in DOMAIN tree : IsAssembly(tree, n)
<1>1. tree \in Seq({tree[n] : n \in DOMAIN tree}) \ {<<>>} /\ \A n \in DOMAIN tree : IsAssembly(tree, n)
  BY TreesAssumption DEF ObjectsInv
<1>2. Len(tree) \in Nat \ {0} /\ DOMAIN tree = 1 .. Len(tree)
  <2> DEFINE S == {tree[n] : n \in DOMAIN tree}
  <2>1. tree \in Seq(S) /\ tree # <<>>
    BY <1>1
  <2> HIDE DEF S
  <2> QED  BY <2>1
<1>3. Len(objects) \in Nat /\ DOMAIN objects = 1 .. Len(objects)
  BY SeqIsFunction DEF ObjectsInv
<1> QED  BY <1>1, <1>2, <1>3 DEF ObjectsInv

(* What is known of the assembly that is being assembled.                  *)
LEMMA CurrentSound ==
  ASSUME ObjectsInv, here \in DOMAIN tree
  PROVE  /\ here \in Nat /\ here - 1 = Len(objects) /\ IsAssembly(tree, here)
         /\ HasItems(current) /\ current.aux \in Nat /\ current.data \in Seq(Nat)
         /\ Len(current.items) \in Nat /\ DOMAIN current.items = 1 .. Len(current.items)
         /\ current.subs \in Seq(1 .. here - 1)
         /\ AreObjects(Subs) /\ Len(Subs) = Len(current.subs)
         /\ \A i \in 1 .. Len(current.subs) : Subs[i] = objects[current.subs[i]]
<1>1. IsAssembly(tree, here) /\ Len(objects) \in Nat
  BY TreeSound
<1>2. here \in Nat /\ here - 1 = Len(objects)
  BY <1>1 DEF here
<1>3. current.subs \in Seq(1 .. here - 1) /\ current.data \in Seq(Nat) /\ current.aux \in Nat
  BY <1>1 DEF IsAssembly, current
<1>4. HasItems(current)
  <2>1. IsSeq(current.items)
    BY <1>1 DEF IsAssembly, current, IsSeq
  <2>2. \A k \in DOMAIN current.items : IsItem(current.items[k])
    BY <1>1 DEF IsAssembly, current, IsItem
  <2> QED  BY <1>3, <2>1, <2>2 DEF HasItems
<1>5. Len(current.items) \in Nat /\ DOMAIN current.items = 1 .. Len(current.items)
  BY <1>4, SeqIsFunction DEF HasItems
<1> HIDE DEF here, current
<1>6. Len(current.subs) \in Nat /\ DOMAIN current.subs = 1 .. Len(current.subs)
      /\ \A i \in 1 .. Len(current.subs) : current.subs[i] \in 1 .. here - 1
  <2> DEFINE S == 1 .. here - 1
  <2>1. current.subs \in Seq(S)
    BY <1>3
  <2> HIDE DEF S
  <2>2. Len(current.subs) \in Nat /\ DOMAIN current.subs = 1 .. Len(current.subs)
        /\ \A i \in 1 .. Len(current.subs) : current.subs[i] \in S
    BY <2>1, Terms
  <2> QED  BY <2>2 DEF S
<1>7. Subs = [i \in 1 .. Len(current.subs) |-> objects[current.subs[i]]]
  BY <1>6 DEF Subs, SubObjects
<1>8. \A i \in 1 .. Len(current.subs) : Subs[i] = objects[current.subs[i]]
  BY <1>7
<1>9. IsSeq(Subs) /\ Len(Subs) = Len(current.subs)
  <2>1. Subs = [i \in 1 .. Len(current.subs) |-> Subs[i]]
    BY <1>7
  <2> HIDE DEF Subs
  <2> QED  BY <1>6, <2>1, FunctionIsSeq
<1>10. AreObjects(Subs)
  <2>1. DOMAIN Subs = 1 .. Len(current.subs)
    BY <1>7
  <2>2. \A n \in 1 .. Len(objects) : IsObject(objects[n])
    BY DEF ObjectsInv
  <2>3. \A i \in DOMAIN Subs : IsObject(Subs[i])
    BY <1>2, <1>6, <1>8, <2>1, <2>2
  <2> QED  BY <1>9, <2>3 DEF AreObjects
<1> QED  BY <1>1, <1>2, <1>3, <1>4, <1>5, <1>8, <1>9, <1>10

(* A path that leads somewhere leads there when it is followed.            *)
StepOf(t, n, path, at, k) == IF k = 0 THEN n ELSE t[at[k - 1]].subs[path[k]]

(* Following a path leads where it leads, to an assembly before this one.  *)
LEMMA Followed ==
  ASSUME NEW t, NEW n \in Nat, NEW path, Len(path) \in Nat \ {0}, DOMAIN path = 1 .. Len(path),
         \A m \in 1 .. n : t[m].subs \in Seq(1 .. m - 1),
         NEW w \in [0 .. Len(path) -> 1 .. n], Leads(t, n, path, w)
  PROVE  LET at == CHOOSE f : f = [k \in 0 .. Len(path) |-> StepOf(t, n, path, f, k)]
         IN  at[Len(path)] = w[Len(path)] /\ w[Len(path)] \in 1 .. n - 1
<1> DEFINE L == Len(path)
           at == CHOOSE f : f = [k \in 0 .. L |-> StepOf(t, n, path, f, k)]
           T == {k \in 0 .. L : at[k] = w[k]}
<1>0. L \in Nat \ {0} /\ DOMAIN path = 1 .. L
  OBVIOUS
<1>1. ASSUME NEW k \in 0 .. L
      PROVE  w[k] = StepOf(t, n, path, w, k)
  <2>1. CASE k = 0
    BY <2>1 DEF Leads, StepOf
  <2>2. CASE k # 0
    <3>1. k \in DOMAIN path
      BY <1>0, <2>2
    <3> QED  BY <2>2, <3>1 DEF Leads, StepOf
  <2> QED  BY <2>1, <2>2
<1>2. w = [k \in 0 .. L |-> StepOf(t, n, path, w, k)]
  BY <1>1
<1>3. at = [k \in 0 .. L |-> StepOf(t, n, path, at, k)]
  BY <1>2
<1> HIDE DEF at, L
<1>4. \A k \in 0 .. L : at[k] = StepOf(t, n, path, at, k)
  BY <1>3
<1>5. 0 \in T
  <2>1. 0 \in 0 .. L
    BY <1>0
  <2>2. at[0] = n /\ w[0] = n
    BY <1>1, <1>4, <2>1 DEF StepOf
  <2> QED  BY <2>1, <2>2
<1>6. ASSUME NEW k \in 0 .. L - 1, k \in T
      PROVE  k + 1 \in T
  <2>1. k + 1 \in 0 .. L /\ k + 1 # 0 /\ (k + 1) - 1 = k
    BY <1>0
  <2>2. at[k + 1] = t[at[k]].subs[path[k + 1]] /\ w[k + 1] = t[w[k]].subs[path[k + 1]]
    BY <1>1, <1>4, <2>1 DEF StepOf
  <2> QED  BY <1>6, <2>1, <2>2
<1>7. L \in T
  <2>1. \A k \in 0 .. L - 1 : k \in T => k + 1 \in T
    BY <1>6
  <2> HIDE DEF T
  <2>2. 0 .. L \subseteq T
    BY <1>0, <1>5, <2>1, NumbersUpTo
  <2> QED  BY <1>0, <2>2
<1>8. w[L] \in 1 .. n - 1
  <2> DEFINE m == w[L - 1]
  <2>1. m \in 1 .. n /\ L \in DOMAIN path
    <3>1. L - 1 \in 0 .. L /\ L \in 1 .. L
      BY <1>0
    <3> QED  BY <1>0, <3>1 DEF L
  <2>2. path[L] \in DOMAIN t[m].subs /\ w[L] = t[m].subs[path[L]]
    BY <2>1 DEF Leads
  <2>3. t[m].subs \in Seq(1 .. m - 1)
    BY <2>1
  <2> HIDE DEF m
  <2>4. t[m].subs[path[L]] \in 1 .. m - 1
    <3> DEFINE S == 1 .. m - 1
    <3>1. t[m].subs \in Seq(S)
      BY <2>3
    <3> HIDE DEF S
    <3>2. t[m].subs[path[L]] \in S
      BY <2>2, <3>1, Terms
    <3> QED  BY <3>2 DEF S
  <2> QED  BY <2>1, <2>2, <2>4
<1> QED  BY <1>7, <1>8 DEF at, L

(* subAssemblyById, in the assemblies t.                                   *)
SubOf(t, n, id) ==
  LET path == decodeSubPath(t[n], id)
  IN  (CHOOSE f : f = [k \in 0 .. Len(path) |-> StepOf(t, n, path, f, k)])[Len(path)]

(* The same operator, for the tree of this behaviour.                      *)
LEMMA SubOfTree == \A n, id : subAssemblyById(n, id) = SubOf(tree, n, id)
BY DEF subAssemblyById, SubOf, StepOf

(* The number of a sub stands for an assembly that comes before.           *)
LEMMA SubFoundIn ==
  ASSUME NEW t \in Trees, NEW n \in DOMAIN t, NEW id \in 1 .. Len(t[n].subs) + Len(t[n].paths)
  PROVE  /\ n \in Nat /\ SubOf(t, n, id) \in 1 .. n - 1
         /\ id <= Len(t[n].subs) => SubOf(t, n, id) = t[n].subs[id]
<1> DEFINE path == decodeSubPath(t[n], id)
           subs == t[n].subs
           paths == t[n].paths
<1>0. t \in Seq({t[m] : m \in DOMAIN t}) /\ \A m \in DOMAIN t : IsAssembly(t, m)
  BY TreesAssumption
<1>1. n \in Nat /\ n >= 1 /\ 1 .. n \subseteq DOMAIN t
  BY <1>0
<1>2. \A m \in 1 .. n : t[m].subs \in Seq(1 .. m - 1)
  BY <1>0, <1>1 DEF IsAssembly
<1>3. Len(subs) \in Nat /\ DOMAIN subs = 1 .. Len(subs)
  <2> DEFINE S == 1 .. n - 1
  <2>1. subs \in Seq(S)
    BY <1>1, <1>2
  <2> HIDE DEF S, subs
  <2> QED  BY <2>1, Terms
<1>4. paths \in Seq(Seq(Nat) \ {<<>>})
  BY <1>0 DEF IsAssembly
<1>5. SubOf(t, n, id) = (CHOOSE f : f = [k \in 0 .. Len(path) |-> StepOf(t, n, path, f, k)])[Len(path)]
  BY DEF SubOf
<1>6. CASE id <= Len(subs)
  <2> DEFINE s == subs[id]
             w == [k \in 0 .. 1 |-> IF k = 0 THEN n ELSE s]
  <2>1. path = <<id>>
    BY <1>6 DEF decodeSubPath
  <2>2. s \in 1 .. n - 1 /\ id \in DOMAIN subs
    <3> DEFINE S == 1 .. n - 1
    <3>1. id \in 1 .. Len(subs)
      BY <1>3, <1>6
    <3>2. subs \in Seq(S)
      BY <1>1, <1>2
    <3> HIDE DEF subs, S
    <3>3. subs[id] \in S
      BY <3>1, <3>2, Terms
    <3> QED  BY <1>3, <3>1, <3>3 DEF S
  <2> HIDE DEF s, path
  <2>3. Len(path) = 1 /\ DOMAIN path = 1 .. 1 /\ path[1] = id
    BY <2>1
  <2>4. w \in [0 .. Len(path) -> 1 .. n]
    BY <1>1, <2>2, <2>3
  <2>5. w[0] = n /\ w[1] = s
    OBVIOUS
  <2> HIDE DEF w
  <2>6. Leads(t, n, path, w)
    <3>1. \A k \in DOMAIN path : k = 1 /\ k - 1 = 0
      BY <2>3
    <3> QED  BY <2>2, <2>3, <2>5, <3>1 DEF Leads, s
  <2>7. SubOf(t, n, id) = w[Len(path)]
    <3>1. Len(path) \in Nat \ {0} /\ DOMAIN path = 1 .. Len(path)
      BY <2>3
    <3> QED  BY <1>1, <1>2, <1>5, <2>4, <2>6, <3>1, Followed, ZenonT(30)
  <2> QED  BY <1>1, <2>2, <2>3, <2>5, <2>7 DEF s
<1>7. CASE ~ (id <= Len(subs))
  <2> DEFINE i == id - Len(subs)
  <2>1. path = paths[i]
    BY <1>7 DEF decodeSubPath
  <2>2. i \in DOMAIN paths
    <3> DEFINE S == Seq(Nat) \ {<<>>}
    <3>1. paths \in Seq(S)
      BY <1>4
    <3> HIDE DEF S
    <3>2. Len(paths) \in Nat /\ DOMAIN paths = 1 .. Len(paths)
      BY <3>1, Terms
    <3>3. \A l, m \in Nat : \A j \in 1 .. l + m : ~ (j <= l) => j - l \in 1 .. m
      OBVIOUS
    <3> QED  BY <1>3, <1>7, <3>2, <3>3
  <2>3. path \in Seq(Nat) /\ path # <<>>
    BY <1>4, <2>1, <2>2
  <2>4. \E at \in [0 .. Len(path) -> 1 .. n] : Leads(t, n, path, at)
    BY <1>0, <2>1, <2>2 DEF IsAssembly
  <2> HIDE DEF path, i
  <2>5. Len(path) \in Nat \ {0} /\ DOMAIN path = 1 .. Len(path)
    BY <2>3
  <2>6. PICK w \in [0 .. Len(path) -> 1 .. n] : Leads(t, n, path, w)
    BY <2>4
  <2>7. SubOf(t, n, id) = w[Len(path)] /\ w[Len(path)] \in 1 .. n - 1
    BY <1>1, <1>2, <1>5, <2>5, <2>6, Followed
  <2> QED  BY <1>1, <1>7, <2>7
<1> QED  BY <1>6, <1>7

(* The number of a sub stands for an assembly that is done.                *)
LEMMA SubFound ==
  ASSUME ObjectsInv, here \in DOMAIN tree, NEW id \in 1 .. Len(current.subs) + Len(current.paths)
  PROVE  /\ subAssemblyById(here, id) \in 1 .. Len(objects)
         /\ id <= Len(current.subs) => subAssemblyById(here, id) = current.subs[id]
<1>1. here - 1 = Len(objects) /\ tree[here] = current /\ tree \in Trees
  BY CurrentSound DEF current, ObjectsInv
<1> QED  BY <1>1, SubFoundIn, SubOfTree

(* What the estimate says about the widths in use.                         *)
LEMMA Estimated ==
  ASSUME ObjectsInv, here \in DOMAIN tree, WidthsInv
  PROVE  /\ width \in Nat /\ dataWidth \in Nat /\ width <= dataWidth
         /\ BytesOfTags(current, Subs) \in Nat /\ width <= BytesOfTags(current, Subs)
         /\ SubTagSize(Subs) <= BytesOfTags(current, Subs)
         /\ Own \in Seq(Nat) /\ Len(Own) = Len(current.items)
         /\ \A k \in 1 .. Len(current.items) :
              Own[k] = ItemBytes(current.items[k], BytesOfTags(current, Subs), ImmutablesOf(Subs))
         /\ SumOf(Own) \in Nat /\ SumOf(current.data) \in Nat /\ SumOf(Lengths(Subs)) \in Nat
         /\ \A v \in Nat : v <= SumOf(Own) => NumberBytes(v) <= width
         /\ SumOf(Own) + 1 + SumOf(Lengths(Subs)) + SumOf(current.data) + current.aux < Power[dataWidth]
<1> DEFINE b == bytesRequired(current, Subs)
           e == EstimateWithSubs(current, Subs)
           o == SumOf(Own)
           d == SumOf(current.data)
           l == SumOf(Lengths(Subs))
           t == BytesOfTags(current, Subs)
<1>1. HasItems(current) /\ current.aux \in Nat /\ AreObjects(Subs)
  BY CurrentSound
<1>2. /\ t \in Nat /\ SubTagSize(Subs) <= t /\ NumberBytes(b) <= t
      /\ o \in Nat /\ d \in Nat /\ l \in Nat /\ b = 1 + d + o /\ e = b + 1 + current.aux + l
  BY <1>1, EstimateSound DEF Own
<1>3. /\ Own \in Seq(Nat) /\ Len(Own) = Len(current.items)
      /\ \A k \in 1 .. Len(current.items) : Own[k] = ItemBytes(current.items[k], t, ImmutablesOf(Subs))
  BY <1>1, EstimateSound DEF Own
<1>4. width = NumberBytes(b) /\ dataWidth = NumberBytes(e)
  BY DEF WidthsInv
<1> HIDE DEF b, e, o, d, l, t
<1>5. b \in Nat /\ e \in Nat /\ b <= e
  BY <1>1, <1>2
<1>6. width \in Nat /\ dataWidth \in Nat /\ width <= dataWidth
  BY <1>4, <1>5, NumberBytesSound, NumberBytesMonotone
<1>7. ASSUME NEW v \in Nat, v <= o
      PROVE  NumberBytes(v) <= width
  <2>1. v <= b
    BY <1>2, <1>5, <1>7
  <2> QED  BY <1>4, <1>5, <2>1, NumberBytesMonotone
<1>8. o + 1 + l + d + current.aux < Power[dataWidth]
  <2>1. e < Power[dataWidth] /\ Power[dataWidth] \in Nat
    BY <1>4, <1>5, <1>6, NumberBytesSound, PowerBound
  <2> QED  BY <1>1, <1>2, <1>5, <2>1
<1> QED  BY <1>2, <1>3, <1>4, <1>6, <1>7, <1>8 DEF o, d, l, t

(* An item takes no more bytes than the estimate has for it.               *)
LEMMA BytecodeSound ==
  ASSUME ObjectsInv, here \in DOMAIN tree, WidthsInv, NEW k \in DOMAIN current.items,
         \A i \in DOMAIN unassigned : i \in DOMAIN ImmutablesOf(Subs) /\ unassigned[i] = ImmutablesOf(Subs)[i]
  PROVE  LET item == current.items[k]
         IN  /\ IsSeq(Bytecode(item))
             /\ Narrow => Len(Bytecode(item)) <= Own[k]
             /\ item.type = "PushImmutable" => Len(Bytecode(item)) = 1 + WordBytes
<1> DEFINE item == current.items[k]
           t == BytesOfTags(current, Subs)
           found == ImmutablesOf(Subs)
           Sound(m) == IsSeq(Bytecode(item)) /\ Len(Bytecode(item)) = m
<1>1. Own[k] = ItemBytes(item, t, found)
  BY CurrentSound, Estimated
<1>2. width \in Nat /\ dataWidth \in Nat /\ t \in Nat /\ width <= t
  BY Estimated
<1>3. /\ item.type \in ItemTypes
      /\ item.type = "Push" => item.data \in Nat
      /\ item.type = "PushSubSize" => item.data \in 1 .. Len(current.subs) + Len(current.paths)
  BY CurrentSound DEF IsAssembly, current
<1>4. IsFound(found)
  BY CurrentSound, ImmutablesSound
<1>5. WordBytes \in Nat /\ WordBytes >= 1 /\ AddressBytes \in Nat /\ SizeBytes \in Nat /\ SizeBytes >= 1
  BY BytesAssumption
<1>6. ASSUME NEW n \in 1 .. Len(objects)
      PROVE  /\ Len(objects[n].code) \in Nat
             /\ Narrow => NumberBytes(Len(objects[n].code)) <= SizeBytes
                          /\ Len(objects[n].code) < Power[SizeBytes]
  <2>1. Len(objects[n].code) \in Nat
    BY SeqIsFunction DEF ObjectsInv, IsObject
  <2>2. n \in 1 .. here - 1
    BY CurrentSound
  <2>3. Narrow => Len(objects[n].code) < Power[SizeBytes]
    BY <2>2 DEF Narrow, SizesCounted
  <2> QED  BY <1>5, <2>1, <2>3, NumberBytesSound
<1> HIDE DEF item, t, found
<1>7. CASE item.type = "Operation"
  <2>1. Bytecode(item) = <<Op(item.name)>>
    BY <1>7 DEF Bytecode
  <2>2. Sound(1)
    BY <2>1, SingleIsSeq
  <2> QED  BY <1>1, <1>7, <2>2 DEF ItemBytes, item
<1>8. CASE item.type = "Tag"
  <2>1. Bytecode(item) = <<Op("JUMPDEST")>>
    BY <1>8 DEF Bytecode
  <2>2. Sound(1)
    BY <2>1, SingleIsSeq
  <2> QED  BY <1>1, <1>8, <2>2 DEF ItemBytes, item
<1>9. CASE item.type = "Push"
  <2>1. Bytecode(item) = Number(item.data)
    BY <1>9 DEF Bytecode
  <2>2. Sound(1 + AtLeastOne(NumberBytes(item.data))) /\ NumberBytes(item.data) \in Nat
    BY <1>3, <1>9, <2>1, NumberLength, NumberBytesSound
  <2> QED  BY <1>1, <1>9, <2>2 DEF ItemBytes, AtLeastOne, item
<1>10. CASE item.type = "PushSubSize"
  <2> DEFINE v == Len(SubObject(item.data).code)
  <2>1. subAssemblyById(here, item.data) \in 1 .. Len(objects)
    BY <1>3, <1>10, SubFound
  <2>2. v \in Nat /\ (Narrow => NumberBytes(v) <= SizeBytes)
    BY <1>6, <2>1 DEF SubObject
  <2>3. Bytecode(item) = Number(v)
    BY <1>10 DEF Bytecode
  <2> HIDE DEF v
  <2>4. Sound(1 + AtLeastOne(NumberBytes(v))) /\ NumberBytes(v) \in Nat
    BY <2>2, <2>3, NumberLength, NumberBytesSound
  <2>5. Own[k] = 1 + SizeBytes
    BY <1>1, <1>10 DEF ItemBytes
  <2> QED  BY <1>5, <1>10, <2>2, <2>4, <2>5 DEF AtLeastOne, item
<1>11. CASE item.type = "PushTag"
  <2>1. Bytecode(item) = Placeholder(width)
    BY <1>11 DEF Bytecode
  <2>2. Sound(1 + width)
    BY <1>2, <2>1, PlaceholderLength
  <2>3. Own[k] = 1 + t
    BY <1>1, <1>11 DEF ItemBytes
  <2> QED  BY <1>2, <1>11, <2>2, <2>3 DEF item
<1>12. CASE item.type \in {"PushData", "PushSub"}
  <2>1. Bytecode(item) = Placeholder(dataWidth)
    BY <1>12 DEF Bytecode
  <2>2. Sound(1 + dataWidth)
    BY <1>2, <2>1, PlaceholderLength
  <2>3. Own[k] = 1 + t
    BY <1>1, <1>12 DEF ItemBytes
  <2> QED  BY <1>2, <1>12, <2>2, <2>3 DEF item, Narrow
<1>13. CASE item.type = "PushProgramSize"
  <2>1. Bytecode(item) = Placeholder(dataWidth)
    BY <1>13 DEF Bytecode
  <2>2. Sound(1 + dataWidth)
    BY <1>2, <2>1, PlaceholderLength
  <2>3. Own[k] = 1 + SizeBytes
    BY <1>1, <1>13 DEF ItemBytes
  <2> QED  BY <1>2, <1>5, <1>13, <2>2, <2>3 DEF item, Narrow
<1>14. CASE item.type = "PushString"
  <2> DEFINE text == [i \in 1 .. WordBytes |-> <<"string", item.name, i>>]
  <2>1. Bytecode(item) = <<Push(WordBytes)>> \o text
    BY <1>14 DEF Bytecode
  <2>2. IsSeq(text) /\ Len(text) = WordBytes
    <3>1. text = [i \in 1 .. WordBytes |-> text[i]]
      OBVIOUS
    <3> HIDE DEF text
    <3> QED  BY <1>5, <3>1, FunctionIsSeq
  <2> HIDE DEF text
  <2>3. Sound(1 + WordBytes)
    BY <2>1, <2>2, SingleIsSeq, Joined
  <2> QED  BY <1>1, <1>5, <1>14, <2>3 DEF ItemBytes, item
<1>15. CASE item.type = "PushImmutable"
  <2>1. Bytecode(item) = Placeholder(WordBytes)
    BY <1>15 DEF Bytecode
  <2>2. Sound(1 + WordBytes)
    BY <1>5, <2>1, PlaceholderLength
  <2> QED  BY <1>1, <1>5, <1>15, <2>2 DEF ItemBytes, item
<1>16. CASE item.type \in {"PushLibraryAddress", "PushDeployTimeAddress"}
  <2>1. Bytecode(item) = Placeholder(AddressBytes)
    BY <1>16 DEF Bytecode
  <2>2. Sound(1 + AddressBytes)
    BY <1>5, <2>1, PlaceholderLength
  <2> QED  BY <1>1, <1>5, <1>16, <2>2 DEF ItemBytes, item
<1>17. CASE item.type = "AssignImmutable"
  <2> DEFINE places == Occurrences(unassigned, item.name)
             all == Occurrences(found, item.name)
  <2>1. Bytecode(item) = Assigned(places) /\ Own[k] = 1 + (3 + WordBytes) * Len(all)
    BY <1>1, <1>17 DEF Bytecode, ItemBytes
  <2>2. CASE item.name \notin DOMAIN unassigned
    <3>1. places = <<>>
      BY <2>2 DEF Occurrences
    <3>2. places \in Seq(Nat) /\ Len(places) = 0
      BY <3>1
    <3>3. all \in Seq(Nat)
      BY <1>4 DEF IsFound, Occurrences
    <3> HIDE DEF places, all
    <3>4. IsSeq(Assigned(places)) /\ Len(Assigned(places)) <= 1 + (3 + WordBytes) * 0
      <4>1. \A i \in 1 .. Len(places) : places[i] < Power[WordBytes]
        BY <3>2
      <4>2. IsSeq(Assigned(places)) /\ Len(Assigned(places)) <= 1 + (3 + WordBytes) * Len(places)
        BY <3>2, <4>1, AssignedLength
      <4> QED  BY <3>2, <4>2
    <3>5. Len(all) \in Nat /\ 3 + WordBytes \in Nat
      BY <1>5, <3>3
    <3>6. (3 + WordBytes) * Len(all) \in Nat /\ (3 + WordBytes) * 0 = 0
      BY <3>5, Distributed
    <3>7. Len(Assigned(places)) \in Nat
      BY <3>4, SeqIsFunction
    <3>8. Len(Assigned(places)) <= 1
      BY <3>4, <3>6
    <3> DEFINE x == (3 + WordBytes) * Len(all)
    <3>9. x \in Nat /\ Own[k] = 1 + x
      BY <2>1, <3>6
    <3> HIDE DEF x
    <3>10. Len(Assigned(places)) <= Own[k]
      BY <3>7, <3>8, <3>9
    <3> QED  BY <1>17, <2>1, <3>4, <3>10 DEF item
  <2>3. CASE item.name \in DOMAIN unassigned
    <3>1. places = all /\ places = found[item.name] /\ item.name \in DOMAIN found
      BY <2>3 DEF Occurrences, found
    <3>2. places \in Seq(Nat)
      BY <1>4, <3>1 DEF IsFound
    <3>3. ASSUME Narrow, NEW i \in 1 .. Len(places)
          PROVE  places[i] < Power[WordBytes]
      <4>1. i \in DOMAIN found[item.name] /\ places[i] = found[item.name][i] /\ places[i] \in Nat
        BY <3>1, <3>2, Terms
      <4>2. PICK j \in DOMAIN Subs : found[item.name][i] < Len(Subs[j].code)
        BY <3>1, <4>1, CurrentSound, ImmutablesSound DEF found
      <4>3. j \in 1 .. Len(current.subs) /\ Subs[j] = objects[current.subs[j]]
        BY CurrentSound, LengthsTyped, ZenonT(30)
      <4>4. current.subs[j] \in 1 .. Len(objects)
        <5> DEFINE S == 1 .. Len(objects)
        <5>1. current.subs \in Seq(S)
          BY CurrentSound
        <5> HIDE DEF S
        <5>2. current.subs[j] \in S
          BY <4>3, <5>1, Terms
        <5> QED  BY <5>2 DEF S
      <4>5. Len(Subs[j].code) \in Nat /\ Len(Subs[j].code) < Power[SizeBytes]
        BY <1>6, <3>3, <4>3, <4>4
      <4>6. Power[SizeBytes] <= Power[WordBytes] /\ Power[SizeBytes] \in Nat /\ Power[WordBytes] \in Nat
        BY BytesAssumption, PowerMonotone, PowerBound
      <4> QED  BY <4>1, <4>2, <4>5, <4>6
    <3> HIDE DEF places, all
    <3>4. IsSeq(Assigned(places))
      BY <3>2, AssignedLength
    <3>5. Narrow => Len(Assigned(places)) <= 1 + (3 + WordBytes) * Len(places)
      BY <3>2, <3>3, AssignedLength
    <3> QED  BY <1>17, <2>1, <3>1, <3>4, <3>5 DEF item
  <2> QED  BY <2>2, <2>3
<1> QED
  BY <1>3, <1>7, <1>8, <1>9, <1>10, <1>11, <1>12, <1>13, <1>14, <1>15, <1>16, <1>17 DEF ItemTypes

-----------------------------------------------------------------------------
(* Every step keeps the invariant.                                         *)

(* Before an object is done, the assembly and what is known of it stay.    *)
LEMMA Frame ==
  ASSUME UNCHANGED <<tree, objects>>
  PROVE  /\ here' = here /\ current' = current /\ Subs' = Subs /\ Own' = Own
         /\ (here \in DOMAIN tree)' <=> here \in DOMAIN tree
         /\ CountedSubs(here)' <=> CountedSubs(here)
         /\ SizesCounted(here)' <=> SizesCounted(here)
         /\ ObjectsInv => ObjectsInv'
         /\ UNCHANGED <<width, dataWidth>> => /\ Narrow' <=> Narrow
                                              /\ WidthsInv' <=> WidthsInv
<1>1. here' = here
  BY DEF here
<1>2. current' = current
  BY <1>1 DEF current
<1>3. Subs' = Subs
  BY <1>2 DEF Subs
<1>4. Own' = Own
  BY <1>2, <1>3 DEF Own
<1>5. CountedSubs(here)' <=> CountedSubs(here)
  BY <1>1 DEF CountedSubs
<1>6. SizesCounted(here)' <=> SizesCounted(here)
  BY <1>1 DEF SizesCounted
<1>7. ObjectsInv => ObjectsInv'
  BY DEF ObjectsInv, Fits, CountedSubs, SizesCounted
<1>8. UNCHANGED <<width, dataWidth>> => (Narrow' <=> Narrow)
  BY <1>6 DEF Narrow
<1>9. UNCHANGED <<width, dataWidth>> => (WidthsInv' <=> WidthsInv)
  BY <1>2, <1>3 DEF WidthsInv
<1>10. (here \in DOMAIN tree)' <=> here \in DOMAIN tree
  BY <1>1
<1> QED  BY <1>1, <1>2, <1>3, <1>4, <1>5, <1>6, <1>7, <1>8, <1>9, <1>10

(* States in which nothing is in progress.                                 *)
LEMMA Stopped ==
  ASSUME ObjectsInv', pc' \notin {"measure", "items", "subs", "data", "tag too large"}
  PROVE  AssemblerInv'
BY DEF AssemblerInv

(* Fixing the widths.                                                      *)
LEMMA MeasureKept ==
  ASSUME AssemblerInv, measure
  PROVE  AssemblerInv'
<1>1. ObjectsInv /\ MeasureInv
  BY DEF AssemblerInv, measure
<1> DEFINE Failed == \/ Fail("immutables of several subs")
                     \/ Fail("pushes and assigns")
           Measured == /\ width' = NumberBytes(bytesRequired(current, Subs))
                       /\ dataWidth' = NumberBytes(EstimateWithSubs(current, Subs))
                       /\ unassigned' = ImmutablesOf(Subs)
                       /\ pc' = "items"
                       /\ UNCHANGED <<tree, objects, next, code, tagPos, refs, links, immutables, linked>>
<1>2. Failed \/ Measured
  BY DEF measure, Subs
<1>3. CASE Failed
  <2>1. ObjectsInv'
    BY <1>1, <1>3, Frame DEF Fail
  <2>2. pc' \in {"immutables of several subs", "pushes and assigns"}
    BY <1>3 DEF Fail
  <2> QED  BY <2>1, <2>2, Stopped
<1>4. CASE Measured
  <2>1. /\ ObjectsInv' /\ here' = here /\ current' = current /\ Subs' = Subs /\ Own' = Own
        /\ here \in DOMAIN tree /\ (here \in DOMAIN tree)'
    BY <1>1, <1>4, Frame DEF MeasureInv
  <2>2. WidthsInv'
    BY <1>4, <2>1 DEF WidthsInv
  <2>3. code' = <<>> /\ tagPos' = Nothing /\ immutables' = Nothing /\ refs' = NoRefs /\ next' = 1
    BY <1>1, <1>4 DEF MeasureInv
  <2>4. IsSeq(code') /\ Len(code') = 0
    BY <2>3, EmptyIsSeq
  <2>5. DOMAIN tagPos' = {} /\ DOMAIN immutables' = {}
    BY <2>3 DEF Nothing
  <2>6. IsObject(SoFar)'
    BY <2>4, <2>5 DEF IsObject, Offsets, SoFar
  <2>7. WorkInv'
    BY <2>1, <2>2, <2>3, <2>5, <2>6 DEF WorkInv, NoRefs
  <2>8. ItemsInv'
    <3>1. Len(current.items) \in Nat
      BY <1>1, <2>1, CurrentSound
    <3>2. Own \in Seq(Nat)
      <4>1. HasItems(current) /\ current.aux \in Nat /\ AreObjects(Subs)
        BY <1>1, <2>1, CurrentSound
      <4> QED  BY <4>1, EstimateSound DEF Own
    <3>3. Part(Own, 1 .. 1 - 1) \in Nat
      BY <3>2, PartSound
    <3>4. unassigned' = ImmutablesOf(Subs)
      BY <1>4
    <3> QED  BY <2>1, <2>3, <2>4, <3>1, <3>3, <3>4 DEF ItemsInv, NoRefs
  <2> QED  BY <1>4, <2>1, <2>7, <2>8 DEF AssemblerInv
<1> QED  BY <1>2, <1>3, <1>4

(* What an item adds fits the part of the estimate that is for it.         *)
LEMMA AppendItemKept ==
  ASSUME AssemblerInv, appendItem
  PROVE  AssemblerInv'
<1> DEFINE item == current.items[next]
           Failed == Fail("duplicate tag position")
           Added == /\ code' = code \o Bytecode(item)
                    /\ refs' = RefsWith(item)
                    /\ tagPos' = TagPosWith(item)
                    /\ immutables' =
                         IF item.type = "PushImmutable"
                         THEN With(immutables, item.name, Append(Occurrences(immutables, item.name), Len(code) + 1))
                         ELSE immutables
                    /\ unassigned' = IF item.type = "AssignImmutable" THEN Without(unassigned, item.name)
                                     ELSE unassigned
                    /\ next' = next + 1
                    /\ UNCHANGED <<tree, objects, width, dataWidth, pc>>
<1>1. ObjectsInv /\ WorkInv /\ ItemsInv /\ pc = "items" /\ next <= Len(current.items)
  BY DEF AssemblerInv, appendItem
<1>2. Failed \/ Added
  BY DEF appendItem
<1>3. CASE Failed
  <2>1. ObjectsInv'
    BY <1>1, <1>3, Frame DEF Fail
  <2>2. pc' = "duplicate tag position"
    BY <1>3 DEF Fail
  <2> QED  BY <2>1, <2>2, Stopped
<1>4. CASE Added
  <2>1. /\ ObjectsInv' /\ here' = here /\ current' = current /\ Subs' = Subs /\ Own' = Own
        /\ here \in DOMAIN tree /\ (here \in DOMAIN tree)'
        /\ WidthsInv /\ WidthsInv' /\ (Narrow' <=> Narrow) /\ (CountedSubs(here)' <=> CountedSubs(here))
    BY <1>1, <1>4, Frame DEF WorkInv
  <2>2. /\ next \in 1 .. Len(current.items) /\ Len(current.items) \in Nat
        /\ DOMAIN current.items = 1 .. Len(current.items)
    BY <1>1, <2>1, CurrentSound DEF ItemsInv
  <2>3. /\ IsSeq(Bytecode(item)) /\ (Narrow => Len(Bytecode(item)) <= Own[next])
        /\ item.type = "PushImmutable" => Len(Bytecode(item)) = 1 + WordBytes
    BY <1>1, <2>1, <2>2, BytecodeSound DEF ItemsInv
  <2>4. /\ IsSeq(code) /\ \A t \in DOMAIN tagPos : tagPos[t] \in 0 .. Len(code)
        /\ \A i \in DOMAIN immutables : /\ immutables[i] \in Seq(Nat)
                                        /\ \A k \in DOMAIN immutables[i] : immutables[i][k] < Len(code)
    BY <1>1 DEF WorkInv, IsObject, Offsets, SoFar
  <2>5. IsSeq(code') /\ Len(code') = Len(code) + Len(Bytecode(item))
    BY <1>4, <2>3, <2>4, Joined
  <2>6. Len(code) \in Nat /\ Len(Bytecode(item)) \in Nat
    BY <2>3, <2>4, SeqIsFunction
  <2>7. /\ Own \in Seq(Nat) /\ Len(Own) = Len(current.items) /\ SumOf(Own) \in Nat
    BY <1>1, <2>1, Estimated
  <2>8. Narrow => Len(code) <= Part(Own, 1 .. next - 1)
    BY <1>1 DEF ItemsInv
  <2>9. Part(Own, 1 .. next - 1) \in Nat /\ Part(Own, 1 .. next - 1) <= SumOf(Own)
    BY <2>7, PartSound
  <2>10. Narrow => Len(code') <= Part(Own, 1 .. next' - 1)
    <3>1. next \notin 1 .. next - 1 /\ (1 .. next - 1) \cup {next} = 1 .. next' - 1
      BY <1>4, <2>2
    <3>2. Part(Own, 1 .. next' - 1) = Part(Own, 1 .. next - 1) + Own[next] /\ Own[next] \in Nat
      BY <2>2, <2>7, <3>1, PartSound, Terms
    <3> QED  BY <2>3, <2>5, <2>6, <2>8, <2>9, <3>2
  <2>11. \A t \in DOMAIN tagPos' : tagPos'[t] = Len(code) \/ (t \in DOMAIN tagPos /\ tagPos'[t] = tagPos[t])
    <3>1. tagPos' = tagPos \/ \E x : tagPos' = With(tagPos, x, Len(code))
      BY <1>4 DEF TagPosWith
    <3> QED  BY <3>1 DEF With
  <2>12. \A t \in DOMAIN tagPos' : tagPos'[t] \in 0 .. Len(code') /\ (Narrow => tagPos'[t] <= SumOf(Own))
    <3>1. Narrow => \A t \in DOMAIN tagPos : tagPos[t] <= SumOf(Own)
      BY <1>1 DEF WorkInv
    <3>2. Narrow => Len(code) <= SumOf(Own)
      BY <2>6, <2>7, <2>8, <2>9
    <3> QED  BY <2>4, <2>5, <2>6, <2>7, <2>11, <3>1, <3>2
  <2>13. ASSUME NEW i \in DOMAIN immutables'
         PROVE  immutables'[i] \in Seq(Nat) /\ \A k \in DOMAIN immutables'[i] : immutables'[i][k] < Len(code')
    <3>1. CASE i \in DOMAIN immutables /\ immutables'[i] = immutables[i]
      <4> DEFINE places == immutables[i]
      <4>1. places \in Seq(Nat) /\ \A k \in DOMAIN places : places[k] < Len(code)
        BY <2>4, <3>1
      <4>2. \A k \in DOMAIN places : places[k] \in Nat
        BY <4>1, Terms
      <4> HIDE DEF places
      <4>3. \A k \in DOMAIN places : places[k] < Len(code')
        BY <2>5, <2>6, <4>1, <4>2
      <4> QED  BY <3>1, <4>1, <4>3 DEF places
    <3>2. CASE ~ (i \in DOMAIN immutables /\ immutables'[i] = immutables[i])
      <4> DEFINE places == Occurrences(immutables, item.name)
                 at == Len(code) + 1
      <4>1. item.type = "PushImmutable" /\ immutables'[i] = Append(places, at)
        BY <1>4, <3>2 DEF With
      <4>2. places \in Seq(Nat) /\ \A k \in DOMAIN places : places[k] < Len(code)
        BY <2>4 DEF Occurrences
      <4>3. at \in Nat /\ at < Len(code')
        BY <2>3, <2>5, <2>6, <4>1, BytesAssumption
      <4>4. \A k \in DOMAIN places : places[k] \in Nat
        BY <4>2, Terms
      <4> HIDE DEF places, at
      <4>5. \A k \in DOMAIN places : places[k] < Len(code')
        BY <2>5, <2>6, <4>2, <4>4
      <4>6. Append(places, at) \in Seq(Nat) /\ \A k \in DOMAIN Append(places, at) : Append(places, at)[k] < Len(code')
        <5>1. /\ Append(places, at) \in Seq(Nat) /\ Len(places) \in Nat /\ DOMAIN places = 1 .. Len(places)
              /\ DOMAIN Append(places, at) = 1 .. Len(places) + 1
              /\ \A k \in 1 .. Len(places) + 1 :
                   Append(places, at)[k] = IF k = Len(places) + 1 THEN at ELSE places[k]
          BY <4>2, <4>3
        <5> QED  BY <4>3, <4>5, <5>1
      <4> QED  BY <4>1, <4>6
    <3> QED  BY <3>1, <3>2
  <2>14. IsObject(SoFar)'
    BY <2>5, <2>12, <2>13 DEF IsObject, Offsets, SoFar
  <2>15. refs = [tag |-> refs.tag, sub |-> refs.sub, data |-> refs.data, size |-> refs.size]
    BY <1>1 DEF WorkInv
  <2>16. /\ refs' = [tag |-> refs'.tag, sub |-> refs'.sub, data |-> refs'.data, size |-> refs'.size]
         /\ \A r \in refs'.tag : r \in refs.tag \/ (item.type = "PushTag" /\ r.sub = item.sub)
         /\ \A r \in refs'.sub : r \in refs.sub \/ RefersTo(r, next)
         /\ \A r, q \in refs'.sub : RefersTo(r, next) /\ RefersTo(q, next) => r = q \/ r \in refs.sub \/ q \in refs.sub
    <3> DEFINE at == Len(code) + 1
               ofTag == [at |-> at, sub |-> item.sub, tag |-> item.data]
               ofSub == [at |-> at, id |-> item.data]
    <3>1. refs' = RefsAt(item, at)
      BY <1>4 DEF RefsWith
    <3>2. CASE item.type = "PushTag"
      <4>1. refs' = [tag |-> refs.tag \cup {ofTag}, sub |-> refs.sub, data |-> refs.data, size |-> refs.size]
        BY <2>15, <3>1, <3>2 DEF RefsAt
      <4>2. ofTag.sub = item.sub
        OBVIOUS
      <4> HIDE DEF ofTag
      <4> QED  BY <3>2, <4>1, <4>2
    <3>3. CASE item.type = "PushSub"
      <4>1. refs' = [tag |-> refs.tag, sub |-> refs.sub \cup {ofSub}, data |-> refs.data, size |-> refs.size]
        BY <2>15, <3>1, <3>3 DEF RefsAt
      <4>2. ofSub.id = item.data
        OBVIOUS
      <4> HIDE DEF ofSub
      <4> QED  BY <3>3, <4>1, <4>2 DEF RefersTo
    <3>4. CASE item.type \notin {"PushTag", "PushSub"}
      <4>1. refs'.tag = refs.tag /\ refs'.sub = refs.sub
            /\ refs' = [tag |-> refs'.tag, sub |-> refs'.sub, data |-> refs'.data, size |-> refs'.size]
        BY <2>15, <3>1, <3>4 DEF RefsAt
      <4> QED  BY <4>1
    <3> QED  BY <3>2, <3>3, <3>4
  <2>17. \A r \in refs'.tag : \E k \in DOMAIN current.items :
           current.items[k].type = "PushTag" /\ current.items[k].sub = r.sub
    BY <1>1, <2>2, <2>16 DEF WorkInv
  <2>18. \A r \in refs.sub : \E k \in 1 .. next - 1 : RefersTo(r, k)
    BY <1>1 DEF ItemsInv
  <2>19. \A r \in refs'.sub : \E k \in 1 .. next : RefersTo(r, k)
    BY <2>2, <2>16, <2>18
  <2>20. ASSUME CountedSubs(here), NEW r \in refs'.sub, NEW q \in refs'.sub, r.id = q.id
         PROVE  r = q
    <3>1. ASSUME NEW x \in refs.sub
          PROVE  ~ (item.type = "PushSub" /\ item.data = x.id)
      <4>1. PICK k \in 1 .. next - 1 : current.items[k].type = "PushSub" /\ current.items[k].data = x.id
        BY <2>18, <3>1 DEF RefersTo
      <4>2. k \in DOMAIN current.items /\ k # next /\ next \in DOMAIN current.items
        BY <2>2, <4>1
      <4> QED  BY <2>20, <4>1, <4>2 DEF CountedSubs, current
    <3>2. CASE r \in refs.sub /\ q \in refs.sub
      BY <1>1, <2>20, <3>2 DEF WorkInv
    <3>3. CASE r \notin refs.sub
      <4>1. item.type = "PushSub" /\ item.data = r.id
        BY <2>16, <3>3 DEF RefersTo
      <4>2. q \notin refs.sub
        BY <2>20, <3>1, <4>1
      <4> QED  BY <2>16, <3>3, <4>2
    <3>4. CASE q \notin refs.sub
      <4>1. item.type = "PushSub" /\ item.data = q.id
        BY <2>16, <3>4 DEF RefersTo
      <4>2. r \notin refs.sub
        BY <2>20, <3>1, <4>1
      <4> QED  BY <2>16, <3>4, <4>2
    <3> QED  BY <3>2, <3>3, <3>4
  <2>21. WorkInv'
    <3>1. \A r \in refs'.sub : \E k \in DOMAIN current.items : RefersTo(r, k)
      BY <2>2, <2>19
    <3>2. \A r, k : RefersTo(r, k)' <=> RefersTo(r, k)
      BY <2>1 DEF RefersTo
    <3> QED  BY <2>1, <2>12, <2>14, <2>16, <2>17, <2>20, <3>1, <3>2 DEF WorkInv
  <2>22. ItemsInv'
    <3>1. next' \in 1 .. Len(current.items) + 1 /\ next' - 1 = next
      BY <1>4, <2>2
    <3>2. \A i \in DOMAIN unassigned' : i \in DOMAIN ImmutablesOf(Subs) /\ unassigned'[i] = ImmutablesOf(Subs)[i]
      BY <1>1, <1>4 DEF ItemsInv, Without
    <3>3. \A r, k : RefersTo(r, k)' <=> RefersTo(r, k)
      BY <2>1 DEF RefersTo
    <3> QED  BY <2>1, <2>10, <2>19, <3>1, <3>2, <3>3 DEF ItemsInv
  <2> QED  BY <1>1, <1>4, <2>1, <2>21, <2>22 DEF AssemblerInv
<1> QED  BY <1>2, <1>3, <1>4

(* Code that grows otherwise leaves the rest as it was.                    *)
LEMMA WorkKept ==
  ASSUME ObjectsInv, WorkInv, UNCHANGED <<tree, objects, tagPos, immutables, width, dataWidth>>,
         IsSeq(code'), Len(code) <= Len(code'),
         refs' = [tag |-> refs.tag, sub |-> refs'.sub, data |-> refs.data, size |-> refs.size],
         refs'.sub \subseteq refs.sub
  PROVE  ObjectsInv' /\ WorkInv'
<1>1. /\ ObjectsInv' /\ current' = current /\ Own' = Own
      /\ here \in DOMAIN tree /\ (here \in DOMAIN tree)'
      /\ WidthsInv' /\ (Narrow' <=> Narrow) /\ (CountedSubs(here)' <=> CountedSubs(here))
  BY Frame DEF WorkInv
<1>2. /\ IsSeq(code) /\ \A t \in DOMAIN tagPos : tagPos[t] \in 0 .. Len(code)
      /\ \A i \in DOMAIN immutables : /\ immutables[i] \in Seq(Nat)
                                      /\ \A k \in DOMAIN immutables[i] : immutables[i][k] < Len(code)
  BY DEF WorkInv, IsObject, Offsets, SoFar
<1>3. Len(code) \in Nat /\ Len(code') \in Nat
  BY <1>2, SeqIsFunction
<1>4. \A t \in DOMAIN tagPos : tagPos[t] \in 0 .. Len(code')
  BY <1>2, <1>3
<1>5. ASSUME NEW i \in DOMAIN immutables, NEW k \in DOMAIN immutables[i]
      PROVE  immutables[i][k] < Len(code')
  <2>1. immutables[i][k] \in Nat /\ immutables[i][k] < Len(code)
    BY <1>2, Terms
  <2> QED  BY <1>3, <2>1
<1>6. IsObject(SoFar)'
  BY <1>2, <1>4, <1>5 DEF IsObject, Offsets, SoFar
<1>7. /\ Narrow => \A t \in DOMAIN tagPos : tagPos[t] <= SumOf(Own)
      /\ \A r \in refs.tag : \E k \in DOMAIN current.items :
           current.items[k].type = "PushTag" /\ current.items[k].sub = r.sub
      /\ \A r \in refs.sub : \E k \in DOMAIN current.items : RefersTo(r, k)
      /\ CountedSubs(here) => \A r, q \in refs.sub : r.id = q.id => r = q
  BY DEF WorkInv
<1>8. \A r, k : RefersTo(r, k)' <=> RefersTo(r, k)
  BY <1>1 DEF RefersTo
<1>9. refs' = [tag |-> refs'.tag, sub |-> refs'.sub, data |-> refs'.data, size |-> refs'.size] /\ refs'.tag = refs.tag
  OBVIOUS
<1> QED  BY <1>1, <1>6, <1>7, <1>8, <1>9 DEF WorkInv

(* The end of the items.                                                   *)
LEMMA EndOfItemsKept ==
  ASSUME AssemblerInv, endOfItems
  PROVE  AssemblerInv'
<1> DEFINE Ended == /\ code' = (IF HasMore THEN Append(code, Op("INVALID")) ELSE code)
                    /\ pc' = "subs"
                    /\ UNCHANGED <<tree, objects, tagPos, refs, immutables, width, dataWidth>>
<1>1. ObjectsInv /\ WorkInv /\ ItemsInv /\ next > Len(current.items)
  BY DEF AssemblerInv, endOfItems
<1>2. Fail("immutables never assigned") \/ Ended
  BY DEF endOfItems
<1>3. CASE Fail("immutables never assigned")
  <2>1. ObjectsInv' /\ pc' = "immutables never assigned"
    BY <1>1, <1>3, Frame DEF Fail
  <2> QED  BY <2>1, Stopped
<1>4. CASE Ended
  <2>1. IsSeq(code) /\ Len(code) \in Nat
    BY <1>1, SeqIsFunction DEF WorkInv, IsObject, SoFar
  <2>2. IsSeq(code') /\ Len(code) <= Len(code') /\ Len(code') <= Len(code) + 1
    <3>1. CASE code' = code
      BY <2>1, <3>1
    <3>2. CASE code' = Append(code, Op("INVALID"))
      <4>1. code' = code \o <<Op("INVALID")>>
        BY <2>1, <3>2 DEF IsSeq
      <4>2. IsSeq(code') /\ Len(code') = Len(code) + 1
        BY <2>1, <4>1, SingleIsSeq, Joined
      <4> QED  BY <2>1, <4>2
    <3> QED  BY <1>4, <3>1, <3>2
  <2>3. refs' = [tag |-> refs.tag, sub |-> refs'.sub, data |-> refs.data, size |-> refs.size] /\ refs' = refs
    BY <1>1, <1>4 DEF WorkInv
  <2>4. ObjectsInv' /\ WorkInv'
    BY <1>1, <1>4, <2>2, <2>3, WorkKept
  <2>5. /\ Subs' = Subs /\ Own' = Own /\ (Narrow' <=> Narrow) /\ (CountedSubs(here)' <=> CountedSubs(here))
        /\ here \in DOMAIN tree /\ WidthsInv
    BY <1>1, <1>4, Frame DEF WorkInv
  <2>6. Own \in Seq(Nat) /\ SumOf(Own) \in Nat
    BY <1>1, <2>5, Estimated
  <2>7. Part(Own, 1 .. next - 1) \in Nat /\ Part(Own, 1 .. next - 1) <= SumOf(Own)
    BY <2>6, PartSound
  <2>8. \A R : Part(Lengths(Subs), R) \in Nat
    <3>1. Lengths(Subs) \in Seq(Nat)
      BY <1>1, <2>5, CurrentSound, LengthsTyped
    <3> QED  BY <3>1, PartSound
  <2>9. Narrow => Len(code) <= Part(Own, 1 .. next - 1)
    BY <1>1 DEF ItemsInv
  <2>10. Len(code') \in Nat
    BY <2>2, SeqIsFunction
  <2>11. Narrow => Len(code') <= SumOf(Own) + 1 + Part(Lengths(Subs), Appended')
    <3> DEFINE l == Part(Lengths(Subs), Appended')
    <3>1. l \in Nat
      BY <2>8
    <3> HIDE DEF l
    <3>2. Narrow => Len(code') <= SumOf(Own) + 1 + l
      BY <2>1, <2>2, <2>6, <2>7, <2>9, <2>10, <3>1
    <3> QED  BY <3>2 DEF l
  <2>12. SubsInv'
    BY <2>5, <2>11 DEF SubsInv
  <2> QED  BY <1>4, <2>4, <2>12 DEF AssemblerInv
<1> QED  BY <1>2, <1>3, <1>4

(* Every sub is appended once, if it is referred to once.                  *)
LEMMA AppendSubKept ==
  ASSUME AssemblerInv, appendSub
  PROVE  AssemblerInv'
<1>1. ObjectsInv /\ WorkInv /\ SubsInv /\ pc = "subs"
  BY DEF AssemblerInv, appendSub
<1>2. PICK r \in refs.sub :
        /\ code' = Patched(code, [at \in {r.at} |-> BigEndian(Len(code), dataWidth)]) \o SubObject(r.id).code
        /\ refs' = [refs EXCEPT !.sub = @ \ {r}]
  BY DEF appendSub
<1>3. UNCHANGED <<tree, objects, tagPos, immutables, width, dataWidth, pc>>
  BY DEF appendSub
<1>4. /\ here \in DOMAIN tree /\ WidthsInv
      /\ Subs' = Subs /\ Own' = Own /\ (Narrow' <=> Narrow) /\ (CountedSubs(here)' <=> CountedSubs(here))
  BY <1>1, <1>3, Frame DEF WorkInv
<1>5. r.id \in 1 .. Len(current.subs) + Len(current.paths)
  <2>1. PICK k \in DOMAIN current.items : current.items[k].type = "PushSub" /\ current.items[k].data = r.id
    BY <1>1 DEF WorkInv, RefersTo
  <2> QED  BY <1>1, <1>4, <2>1, CurrentSound DEF IsAssembly, current
<1>6. /\ subAssemblyById(here, r.id) \in 1 .. Len(objects)
      /\ r.id <= Len(current.subs) => subAssemblyById(here, r.id) = current.subs[r.id]
  BY <1>1, <1>4, <1>5, SubFound
<1> DEFINE added == SubObject(r.id).code
           filled == Patched(code, [at \in {r.at} |-> BigEndian(Len(code), dataWidth)])
<1>7. IsSeq(added)
  BY <1>1, <1>6 DEF ObjectsInv, IsObject, SubObject
<1>8. IsSeq(code)
  BY <1>1 DEF WorkInv, IsObject, SoFar
<1>9. IsSeq(filled) /\ Len(filled) = Len(code)
  BY <1>8, PatchedIsSeq
<1>10. code' = filled \o added
  BY <1>2
<1> HIDE DEF filled, added
<1>11. IsSeq(code') /\ Len(code') = Len(code) + Len(added) /\ Len(code) \in Nat /\ Len(added) \in Nat
  BY <1>7, <1>8, <1>9, <1>10, Joined, SeqIsFunction
<1>12. refs' = [tag |-> refs.tag, sub |-> refs.sub \ {r}, data |-> refs.data, size |-> refs.size]
  BY <1>1, <1>2 DEF WorkInv
<1>13. ObjectsInv' /\ WorkInv'
  <2>1. refs'.sub = refs.sub \ {r}
    BY <1>12
  <2>2. Len(code) <= Len(code')
    BY <1>11
  <2> QED  BY <1>1, <1>3, <1>11, <1>12, <2>1, <2>2, WorkKept
<1>14. ASSUME Narrow, CountedSubs(here)
       PROVE  Len(code') <= SumOf(Own) + 1 + Part(Lengths(Subs), Appended')
  <2>1. current.paths = <<>>
    BY <1>14 DEF CountedSubs, current
  <2>2. /\ Len(current.subs) \in Nat /\ Len(Subs) = Len(current.subs) /\ AreObjects(Subs)
        /\ \A i \in 1 .. Len(current.subs) : Subs[i] = objects[current.subs[i]]
    BY <1>1, <1>4, CurrentSound, LengthsTyped
  <2>3. r.id \in 1 .. Len(current.subs)
    <3>1. Len(current.paths) = 0
      BY <2>1
    <3> QED  BY <1>5, <2>2, <3>1
  <2>4. /\ Lengths(Subs) \in Seq(Nat) /\ Len(Lengths(Subs)) = Len(Subs) /\ DOMAIN Subs = 1 .. Len(Subs)
        /\ Lengths(Subs)[r.id] = Len(Subs[r.id].code)
    BY <2>2, <2>3, LengthsTyped
  <2>5. added = Subs[r.id].code
    BY <1>6, <2>2, <2>3 DEF added, SubObject
  <2>6. r.id \notin Appended
    BY DEF Appended
  <2>7. Appended' = Appended \cup {r.id}
    <3>1. refs'.sub = refs.sub \ {r}
      BY <1>12
    <3>2. \A q \in refs.sub : q.id = r.id => q = r
      BY <1>1, <1>14 DEF WorkInv
    <3>3. r.id \in DOMAIN Subs
      BY <2>2, <2>3, <2>4
    <3> QED  BY <1>4, <3>1, <3>2, <3>3 DEF Appended
  <2>8. /\ Part(Lengths(Subs), Appended \cup {r.id}) = Part(Lengths(Subs), Appended) + Lengths(Subs)[r.id]
        /\ Part(Lengths(Subs), Appended) \in Nat
    <3>1. r.id \in 1 .. Len(Lengths(Subs))
      BY <2>2, <2>3, <2>4
    <3> QED  BY <2>4, <2>6, <3>1, PartSound
  <2>9. Len(code) <= SumOf(Own) + 1 + Part(Lengths(Subs), Appended)
    BY <1>1, <1>14 DEF SubsInv
  <2>10. SumOf(Own) \in Nat
    BY <1>1, <1>4, Estimated
  <2> DEFINE l == Part(Lengths(Subs), Appended)
             m == Part(Lengths(Subs), Appended')
  <2>11. l \in Nat /\ m = l + Len(added)
    BY <2>4, <2>5, <2>7, <2>8
  <2>12. Len(code) <= SumOf(Own) + 1 + l
    BY <2>9
  <2> HIDE DEF l, m
  <2>13. Len(code') <= SumOf(Own) + 1 + m
    BY <1>11, <2>10, <2>11, <2>12
  <2> QED  BY <2>13 DEF m
<1>15. SubsInv'
  BY <1>4, <1>14 DEF SubsInv
<1> QED  BY <1>1, <1>3, <1>13, <1>15 DEF AssemblerInv

(* Positions of tags fit: those of subs because the estimate already has   *)
(* their number of bytes, the own ones because no item was larger than     *)
(* estimated.                                                              *)
LEMMA PositionsFit ==
  ASSUME ObjectsInv, WorkInv, NEW r \in refs.tag, r.tag \in DOMAIN TagPositions(r.sub)
  PROVE  /\ NumberBytes(TagPositions(r.sub)[r.tag]) \in Nat
         /\ r.sub # 0 \/ Narrow => NumberBytes(TagPositions(r.sub)[r.tag]) <= width
<1> DEFINE v == TagPositions(r.sub)[r.tag]
           t == BytesOfTags(current, Subs)
<1>1. here \in DOMAIN tree /\ WidthsInv
  BY DEF WorkInv
<1>2. SumOf(Own) \in Nat /\ \A u \in Nat : u <= SumOf(Own) => NumberBytes(u) <= width
  BY <1>1, Estimated
<1>3. CASE r.sub = 0
  <2>1. v = tagPos[r.tag] /\ r.tag \in DOMAIN tagPos
    BY <1>3 DEF TagPositions
  <2>2. tagPos[r.tag] \in 0 .. Len(code) /\ Len(code) \in Nat
    BY <2>1, SeqIsFunction DEF WorkInv, IsObject, SoFar
  <2>3. Narrow => tagPos[r.tag] <= SumOf(Own)
    BY <2>1 DEF WorkInv
  <2> HIDE DEF v
  <2>4. v \in Nat /\ (Narrow => v <= SumOf(Own))
    BY <2>1, <2>2, <2>3
  <2>5. NumberBytes(v) \in Nat /\ (Narrow => NumberBytes(v) <= width)
    BY <1>2, <2>4, NumberBytesSound
  <2> QED  BY <1>3, <2>5 DEF v
<1>4. CASE r.sub # 0
  <2>1. PICK k \in DOMAIN current.items : current.items[k].type = "PushTag" /\ current.items[k].sub = r.sub
    BY DEF WorkInv
  <2>2. /\ Len(current.subs) \in Nat /\ AreObjects(Subs) /\ Len(Subs) = Len(current.subs)
        /\ \A i \in 1 .. Len(current.subs) : Subs[i] = objects[current.subs[i]]
        /\ DOMAIN current.items = 1 .. Len(current.items)
    BY <1>1, CurrentSound, LengthsTyped
  <2>3. r.sub \in 1 .. Len(current.subs)
    <3>1. r.sub \in 0 .. Len(current.subs)
      BY <1>1, <2>1, CurrentSound DEF IsAssembly, current
    <3> QED  BY <1>4, <2>2, <3>1
  <2>4. r.sub \in DOMAIN Subs
    BY <2>2, <2>3, LengthsTyped
  <2>5. v = Subs[r.sub].tagPos[r.tag] /\ r.tag \in DOMAIN Subs[r.sub].tagPos
    BY <1>4, <2>2, <2>3 DEF TagPositions
  <2>6. v \in Nat /\ v <= SubTagSize(Subs) /\ SubTagSize(Subs) \in Nat
    BY <2>2, <2>4, <2>5, SubTagSizeSound
  <2>7. SubTagSize(Subs) <= t /\ t \in Nat
    BY <1>1, Estimated
  <2>8. Own \in Seq(Nat) /\ k \in 1 .. Len(Own) /\ Own[k] = 1 + t
    <3>1. Own[k] = ItemBytes(current.items[k], t, ImmutablesOf(Subs)) /\ Own \in Seq(Nat) /\ k \in 1 .. Len(Own)
      BY <1>1, <2>2, Estimated
    <3> QED  BY <2>1, <3>1 DEF ItemBytes
  <2>9. Own[k] <= SumOf(Own)
    BY <2>8, TermBelowSum
  <2> HIDE DEF v, t
  <2>10. v <= SumOf(Own)
    BY <1>2, <2>6, <2>7, <2>8, <2>9
  <2> QED  BY <1>2, <2>6, <2>10, NumberBytesSound DEF v
<1> QED  BY <1>3, <1>4

(* Filling in the tags.                                                    *)
LEMMA FillTagsKept ==
  ASSUME AssemblerInv, fillTags
  PROVE  AssemblerInv'
<1> DEFINE position(r) == TagPositions(r.sub)[r.tag]
           referrer(at) == CHOOSE r \in refs.tag : r.at = at
           AllPlaced == \A r \in refs.tag : r.tag \in DOMAIN TagPositions(r.sub)
           Filled == /\ code' = Patched(code, [at \in {r.at : r \in refs.tag} |->
                                                 BigEndian(position(referrer(at)), width)])
                     /\ next' = 1 /\ pc' = "data"
                     /\ UNCHANGED <<tree, objects, tagPos, refs, immutables, width, dataWidth>>
<1>1. ObjectsInv /\ WorkInv /\ SubsInv /\ refs.sub = {} /\ here \in DOMAIN tree /\ WidthsInv
  BY DEF AssemblerInv, WorkInv, fillTags
<1>2. \/ Fail("tag without position")
      \/ AllPlaced /\ (\E r \in refs.tag : NumberBytes(position(r)) > width) /\ Fail("tag too large")
      \/ Filled
  BY DEF fillTags
<1>3. CASE Fail("tag without position")
  <2>1. ObjectsInv' /\ pc' = "tag without position"
    BY <1>1, <1>3, Frame DEF Fail
  <2> QED  BY <2>1, Stopped
<1>4. CASE AllPlaced /\ (\E r \in refs.tag : NumberBytes(position(r)) > width) /\ Fail("tag too large")
  <2>1. UNCHANGED <<tree, objects, tagPos, refs, width, dataWidth>> /\ pc' = "tag too large"
    BY <1>4 DEF Fail
  <2>2. ObjectsInv' /\ current' = current /\ (SizesCounted(here)' <=> SizesCounted(here))
    BY <1>1, <2>1, Frame
  <2>3. width \in Nat /\ dataWidth \in Nat /\ width <= dataWidth /\ SizeBytes \in Nat
    BY <1>1, Estimated, BytesAssumption
  <2>4. ASSUME Narrow
        PROVE  FALSE
    <3>1. PICK r \in refs.tag : NumberBytes(position(r)) > width
      BY <1>4
    <3>2. r.tag \in DOMAIN TagPositions(r.sub)
      BY <1>4
    <3>3. NumberBytes(position(r)) \in Nat /\ NumberBytes(position(r)) <= width
      BY <1>1, <2>4, <3>2, PositionsFit
    <3> HIDE DEF position
    <3> QED  BY <2>3, <3>1, <3>3
  <2>5. dataWidth > width \/ dataWidth > SizeBytes \/ ~ SizesCounted(here)
    BY <2>3, <2>4 DEF Narrow
  <2>6. \A r \in refs.tag : r.sub # 0 => NumberBytes(TagPositions(r.sub)[r.tag]) <= width
    BY <1>1, <1>4, PositionsFit
  <2>7. \A sub : TagPositions(sub)' = TagPositions(sub)
    BY <2>1, <2>2 DEF TagPositions
  <2>8. TooLargeInv'
    BY <2>1, <2>2, <2>5, <2>6, <2>7 DEF TooLargeInv
  <2> QED  BY <2>1, <2>2, <2>8 DEF AssemblerInv
<1>5. CASE Filled
  <2>1. IsSeq(code) /\ Len(code) \in Nat
    BY <1>1, SeqIsFunction DEF WorkInv, IsObject, SoFar
  <2>2. IsSeq(code') /\ Len(code') = Len(code)
    BY <1>5, <2>1, PatchedIsSeq
  <2>3. refs' = [tag |-> refs.tag, sub |-> refs'.sub, data |-> refs.data, size |-> refs.size] /\ refs' = refs
    BY <1>1, <1>5 DEF WorkInv
  <2>4. ObjectsInv' /\ WorkInv'
    BY <1>1, <1>5, <2>1, <2>2, <2>3, WorkKept
  <2>5. /\ current' = current /\ Subs' = Subs /\ Own' = Own
        /\ (Narrow' <=> Narrow) /\ (CountedSubs(here)' <=> CountedSubs(here))
    BY <1>5, Frame
  <2>6. /\ SumOf(Own) \in Nat /\ SumOf(Lengths(Subs)) \in Nat
    BY <1>1, Estimated
  <2>7. Part(Lengths(Subs), Appended) \in Nat /\ Part(Lengths(Subs), Appended) <= SumOf(Lengths(Subs))
    <3>1. Lengths(Subs) \in Seq(Nat)
      BY <1>1, CurrentSound, LengthsTyped
    <3> QED  BY <3>1, PartSound
  <2>8. Part(current.data, 1 .. 1 - 1) \in Nat /\ Len(current.data) \in Nat
    BY <1>1, CurrentSound, PartSound
  <2>9. Narrow /\ CountedSubs(here) => Len(code) <= SumOf(Own) + 1 + Part(Lengths(Subs), Appended)
    BY <1>1 DEF SubsInv
  <2>10. Narrow /\ CountedSubs(here)
          => Len(code') <= SumOf(Own) + 1 + SumOf(Lengths(Subs)) + Part(current.data, 1 .. 1 - 1)
    BY <2>1, <2>2, <2>6, <2>7, <2>8, <2>9
  <2>11. DataInv'
    <3>1. next' = 1 /\ next' \in 1 .. Len(current.data) + 1
      BY <1>5, <2>8
    <3> QED  BY <2>5, <2>10, <3>1 DEF DataInv
  <2> QED  BY <1>5, <2>4, <2>11 DEF AssemblerInv
<1> QED  BY <1>2, <1>3, <1>4, <1>5

(* Appending data.                                                         *)
LEMMA AppendDataKept ==
  ASSUME AssemblerInv, appendData
  PROVE  AssemblerInv'
<1> DEFINE to == {r.at : r \in {r \in refs.data : r.id = next}}
           data == DataOf(here, next)
           filled == Patched(code, [at \in to |-> BigEndian(Len(code), dataWidth)])
<1>1. /\ ObjectsInv /\ WorkInv /\ DataInv /\ pc = "data" /\ next <= Len(current.data)
      /\ here \in DOMAIN tree /\ WidthsInv
  BY DEF AssemblerInv, WorkInv, appendData
<1>2. /\ code' = (IF to = {} THEN code ELSE filled \o data)
      /\ next' = next + 1
      /\ UNCHANGED <<tree, objects, tagPos, refs, immutables, width, dataWidth, pc>>
  BY DEF appendData
<1>3. current.data \in Seq(Nat)
  BY <1>1, CurrentSound
<1>4. next \in 1 .. Len(current.data) /\ Len(current.data) \in Nat /\ current.data[next] \in Nat
  <2>1. next \in 1 .. Len(current.data) /\ Len(current.data) \in Nat
    BY <1>1, <1>3 DEF DataInv
  <2> QED  BY <1>3, <2>1, Terms
<1>5. IsSeq(data) /\ Len(data) = current.data[next]
  <2>1. data = [i \in 1 .. current.data[next] |-> data[i]]
    BY DEF DataOf, current
  <2> HIDE DEF data
  <2> QED  BY <1>4, <2>1, FunctionIsSeq
<1>6. IsSeq(code) /\ Len(code) \in Nat
  BY <1>1, SeqIsFunction DEF WorkInv, IsObject, SoFar
<1>7. IsSeq(filled) /\ Len(filled) = Len(code)
  BY <1>6, PatchedIsSeq
<1> HIDE DEF to, data, filled
<1>8. IsSeq(code') /\ Len(code) <= Len(code') /\ Len(code') <= Len(code) + current.data[next] /\ Len(code') \in Nat
  <2>1. CASE to = {}
    BY <1>2, <1>4, <1>6, <2>1
  <2>2. CASE to # {}
    <3>1. IsSeq(code') /\ Len(code') = Len(code) + current.data[next]
      BY <1>2, <1>5, <1>7, <2>2, Joined
    <3> QED  BY <1>4, <1>6, <3>1
  <2> QED  BY <2>1, <2>2
<1>9. ObjectsInv' /\ WorkInv'
  <2>1. refs' = [tag |-> refs.tag, sub |-> refs'.sub, data |-> refs.data, size |-> refs.size] /\ refs' = refs
    BY <1>1, <1>2 DEF WorkInv
  <2> QED  BY <1>1, <1>2, <1>8, <2>1, WorkKept
<1>10. /\ current' = current /\ Subs' = Subs /\ Own' = Own
       /\ (Narrow' <=> Narrow) /\ (CountedSubs(here)' <=> CountedSubs(here))
  BY <1>2, Frame
<1> DEFINE before == SumOf(Own) + 1 + SumOf(Lengths(Subs))
           part == Part(current.data, 1 .. next - 1)
           more == Part(current.data, 1 .. next' - 1)
<1>11. before \in Nat
  BY <1>1, Estimated
<1>12. part \in Nat /\ more = part + current.data[next]
  <2>1. next \notin 1 .. next - 1 /\ (1 .. next - 1) \cup {next} = 1 .. next' - 1
    BY <1>2, <1>4
  <2> QED  BY <1>3, <1>4, <2>1, PartSound
<1>13. Narrow /\ CountedSubs(here) => Len(code) <= before + part
  BY <1>1 DEF DataInv
<1> HIDE DEF before, part, more
<1>14. Narrow /\ CountedSubs(here) => Len(code') <= before + more
  BY <1>4, <1>6, <1>8, <1>11, <1>12, <1>13, SMTT(30)
<1>15. DataInv'
  <2>1. next' \in 1 .. Len(current.data) + 1
    BY <1>2, <1>4
  <2> QED  BY <1>10, <1>14, <2>1 DEF DataInv, before, more
<1> QED  BY <1>1, <1>2, <1>9, <1>15 DEF AssemblerInv

(* An object that is done fits its width, as the estimate says.            *)
LEMMA FinishKept ==
  ASSUME AssemblerInv, finish
  PROVE  AssemblerInv'
<1> DEFINE all == code \o Auxiliary
           bytecode == Patched(all, [at \in refs.size |-> BigEndian(Len(all), dataWidth)])
           o == [code |-> bytecode, tagPos |-> tagPos, links |-> links, immutables |-> immutables,
                 width |-> width, dataWidth |-> dataWidth]
<1>1. /\ ObjectsInv /\ WorkInv /\ DataInv /\ next > Len(current.data)
      /\ here \in DOMAIN tree /\ WidthsInv
  BY DEF AssemblerInv, WorkInv, finish
<1>2. /\ objects' = Append(objects, o)
      /\ next' = 1 /\ code' = <<>> /\ tagPos' = Nothing /\ refs' = NoRefs /\ links' = Nothing /\ immutables' = Nothing
      /\ pc' = (IF here = Len(tree) THEN "link" ELSE "measure")
      /\ tree' = tree
  BY DEF finish
<1>3. /\ IsSeq(code) /\ \A t \in DOMAIN tagPos : tagPos[t] \in 0 .. Len(code)
      /\ \A i \in DOMAIN immutables : /\ immutables[i] \in Seq(Nat)
                                      /\ \A k \in DOMAIN immutables[i] : immutables[i][k] < Len(code)
  BY <1>1 DEF WorkInv, IsObject, Offsets, SoFar
<1>4. current.aux \in Nat /\ current.data \in Seq(Nat)
  BY <1>1, CurrentSound
<1>5. IsSeq(bytecode) /\ Len(bytecode) = Len(code) + current.aux
  <2>1. IsSeq(Auxiliary) /\ Len(Auxiliary) = current.aux
    <3>1. Auxiliary = [i \in 1 .. current.aux |-> Auxiliary[i]]
      BY DEF Auxiliary
    <3> QED  BY <1>4, <3>1, FunctionIsSeq
  <2>2. IsSeq(all) /\ Len(all) = Len(code) + current.aux
    BY <1>3, <2>1, Joined
  <2> HIDE DEF all
  <2> QED  BY <2>2, PatchedIsSeq
<1> HIDE DEF bytecode
<1>6. Len(code) \in Nat /\ Len(bytecode) \in Nat /\ Len(code) <= Len(bytecode)
  <2>1. Len(code) \in Nat
    BY <1>3, SeqIsFunction
  <2> QED  BY <1>4, <1>5, <2>1
<1>7. IsObject(o)
  <2>1. \A t \in DOMAIN tagPos : tagPos[t] \in 0 .. Len(bytecode)
    BY <1>3, <1>6
  <2>2. ASSUME NEW i \in DOMAIN immutables, NEW k \in DOMAIN immutables[i]
        PROVE  immutables[i][k] < Len(bytecode)
    <3>1. immutables[i][k] \in Nat /\ immutables[i][k] < Len(code)
      BY <1>3, Terms
    <3> QED  BY <1>6, <3>1
  <2> QED  BY <1>3, <1>5, <2>1, <2>2 DEF IsObject, Offsets
<1>8. Narrow /\ CountedSubs(here) => Len(bytecode) < Power[dataWidth]
  <2> DEFINE a == SumOf(Own)
             l == SumOf(Lengths(Subs))
             d == SumOf(current.data)
             part == Part(current.data, 1 .. next - 1)
  <2>1. a \in Nat /\ l \in Nat /\ d \in Nat /\ dataWidth \in Nat /\ a + 1 + l + d + current.aux < Power[dataWidth]
    BY <1>1, Estimated
  <2>2. Power[dataWidth] \in Nat
    BY <2>1, PowerBound
  <2>3. part \in Nat /\ part <= d
    BY <1>4, PartSound
  <2>4. Narrow /\ CountedSubs(here) => Len(code) <= a + 1 + l + part
    BY <1>1 DEF DataInv
  <2> HIDE DEF a, l, d, part
  <2> QED  BY <1>4, <1>5, <1>6, <2>1, <2>2, <2>3, <2>4
<1>9. /\ Len(tree) \in Nat /\ DOMAIN tree = 1 .. Len(tree) /\ Len(objects) \in Nat
      /\ here = Len(objects) + 1 /\ here \in 1 .. Len(tree)
  BY <1>1, TreeSound DEF here
<1> HIDE DEF o
<1>10. /\ IsSeq(objects') /\ Len(objects') = here
       /\ objects'[here] = o /\ \A n \in 1 .. Len(objects) : objects'[n] = objects[n]
  <2>1. IsSeq(objects)
    BY <1>1 DEF ObjectsInv
  <2>2. objects' = objects \o <<o>>
    BY <1>2, <2>1 DEF IsSeq
  <2>3. IsSeq(objects') /\ Len(objects') = here
    BY <1>9, <2>1, <2>2, SingleIsSeq, Joined
  <2>4. objects'[here] = o /\ \A n \in 1 .. Len(objects) : objects'[n] = objects[n]
    <3>1. PICK S : objects \in Seq(S)
      BY <2>1 DEF IsSeq
    <3>2. objects \in Seq(S \cup {o})
      <4> DEFINE R == S \cup {o}
      <4>1. S \subseteq R
        OBVIOUS
      <4> HIDE DEF R
      <4>2. objects \in Seq(R)
        BY <3>1, <4>1
      <4> QED  BY <4>2 DEF R
    <3>3. \A n \in 1 .. Len(objects) + 1 :
            Append(objects, o)[n] = IF n = Len(objects) + 1 THEN o ELSE objects[n]
      BY <3>2
    <3>4. objects' = Append(objects, o)
      BY <1>2
    <3>5. here \in 1 .. Len(objects) + 1 /\ \A n \in 1 .. Len(objects) : n \in 1 .. Len(objects) + 1 /\ n # here
      BY <1>9
    <3>6. objects'[here] = o
      BY <1>9, <3>3, <3>4, <3>5
    <3>7. ASSUME NEW n \in 1 .. Len(objects)
          PROVE  objects'[n] = objects[n]
      BY <1>9, <3>3, <3>4, <3>5, <3>7
    <3> QED  BY <3>6, <3>7
  <2> QED  BY <2>3, <2>4
<1>11. ASSUME NEW n \in 1 .. here
       PROVE  IsObject(objects'[n]) /\ Fits(n)'
  <2>1. SizesCounted(n)' <=> SizesCounted(n)
    <3>1. \A m \in 1 .. n - 1 : objects'[m] = objects[m]
      BY <1>9, <1>10, <1>11
    <3> QED  BY <3>1 DEF SizesCounted
  <2>2. CountedSubs(n)' <=> CountedSubs(n)
    BY <1>2 DEF CountedSubs
  <2>3. CASE n # here
    <3>1. n \in 1 .. Len(objects) /\ objects'[n] = objects[n]
      BY <1>9, <1>10, <1>11, <2>3
    <3>2. IsObject(objects[n]) /\ Fits(n)
      BY <1>1, <3>1 DEF ObjectsInv
    <3> QED  BY <2>1, <2>2, <3>1, <3>2 DEF Fits
  <2>4. CASE n = here
    <3>1. objects'[n] = o
      BY <1>10, <2>4
    <3>2. o.code = bytecode /\ o.width = width /\ o.dataWidth = dataWidth
      BY DEF o
    <3>3. Fits(n)'
      BY <1>8, <2>1, <2>2, <2>4, <3>1, <3>2 DEF Fits, Narrow
    <3> QED  BY <1>7, <3>1, <3>3
  <2> QED  BY <2>3, <2>4
<1>12. ObjectsInv'
  <2>1. tree' \in Trees /\ Len(objects') <= Len(tree')
    <3>1. tree \in Trees /\ here <= Len(tree)
      BY <1>1, <1>9 DEF ObjectsInv
    <3> QED  BY <1>2, <1>10, <3>1
  <2> QED  BY <1>10, <1>11, <2>1 DEF ObjectsInv
<1>13. CASE here = Len(tree)
  <2>1. pc' = "link"
    BY <1>2, <1>13
  <2> QED  BY <1>12, <2>1, Stopped
<1>14. CASE here # Len(tree)
  <2>1. pc' = "measure"
    BY <1>2, <1>14
  <2>2. here' = here + 1 /\ here + 1 \in DOMAIN tree
    <3>1. here' = Len(objects') + 1
      BY DEF here
    <3> HIDE DEF here
    <3>2. here \in Nat /\ here + 1 \in 1 .. Len(tree)
      <4>1. \A l \in Nat : \A n \in 1 .. l : n # l => n \in Nat /\ n + 1 \in 1 .. l
        OBVIOUS
      <4> QED  BY <1>9, <1>14, <4>1
    <3> QED  BY <1>9, <1>10, <3>1, <3>2
  <2>3. MeasureInv'
    BY <1>2, <2>2 DEF MeasureInv
  <2> QED  BY <1>12, <2>1, <2>3 DEF AssemblerInv
<1> QED  BY <1>13, <1>14

(* The invariant holds in every state.                                     *)
THEOREM AssemblerAlways == Spec => []AssemblerInv
<1>1. Init => AssemblerInv
  <2> SUFFICES ASSUME Init PROVE AssemblerInv
    OBVIOUS
  <2>1. tree \in Trees /\ objects = <<>> /\ pc = "measure"
    BY DEF Init
  <2>2. IsSeq(objects) /\ Len(objects) = 0
    BY <2>1, EmptyIsSeq
  <2>3. tree \in Seq({tree[n] : n \in DOMAIN tree}) \ {<<>>}
    BY <2>1, TreesAssumption
  <2>4. Len(tree) \in Nat \ {0} /\ DOMAIN tree = 1 .. Len(tree)
    <3> DEFINE S == {tree[n] : n \in DOMAIN tree}
    <3>1. tree \in Seq(S) /\ tree # <<>>
      BY <2>3
    <3> HIDE DEF S
    <3> QED  BY <3>1
  <2>5. ObjectsInv
    BY <2>1, <2>2, <2>4 DEF ObjectsInv
  <2>6. here \in DOMAIN tree
    BY <2>2, <2>4 DEF here
  <2>7. MeasureInv
    BY <2>6 DEF Init, MeasureInv
  <2> QED  BY <2>1, <2>5, <2>7 DEF AssemblerInv
<1>2. AssemblerInv /\ [Next]_vars => AssemblerInv'
  <2> SUFFICES ASSUME AssemblerInv, [Next]_vars PROVE AssemblerInv'
    OBVIOUS
  <2>1. CASE link
    <3>1. UNCHANGED <<tree, objects>> /\ pc' = "done"
      BY <2>1 DEF link
    <3>2. ObjectsInv'
      BY <3>1, Frame DEF AssemblerInv
    <3> QED  BY <3>1, <3>2, Stopped
  <2>2. CASE UNCHANGED vars
    <3>1. /\ UNCHANGED <<tree, objects, next, code, tagPos, refs, links, immutables, unassigned, width, dataWidth, pc>>
      BY <2>2 DEF vars
    <3>2. /\ here' = here /\ current' = current /\ Subs' = Subs /\ Own' = Own
          /\ (CountedSubs(here)' <=> CountedSubs(here)) /\ (SizesCounted(here)' <=> SizesCounted(here))
          /\ (ObjectsInv => ObjectsInv') /\ (Narrow' <=> Narrow) /\ (WidthsInv' <=> WidthsInv)
      BY <3>1, Frame
    <3>3. MeasureInv => MeasureInv'
      BY <3>1, <3>2 DEF MeasureInv
    <3>4. \A r, k : RefersTo(r, k)' <=> RefersTo(r, k)
      BY <3>2 DEF RefersTo
    <3>5. WorkInv => WorkInv'
      BY <3>1, <3>2, <3>4 DEF WorkInv, SoFar
    <3>6. ItemsInv => ItemsInv'
      BY <3>1, <3>2, <3>4 DEF ItemsInv
    <3>7. SubsInv => SubsInv'
      BY <3>1, <3>2 DEF SubsInv, Appended
    <3>8. DataInv => DataInv'
      BY <3>1, <3>2 DEF DataInv
    <3>9. TooLargeInv => TooLargeInv'
      BY <3>1, <3>2 DEF TooLargeInv, TagPositions
    <3> QED  BY <3>1, <3>2, <3>3, <3>5, <3>6, <3>7, <3>8, <3>9 DEF AssemblerInv
  <2> QED
    BY <2>1, <2>2, MeasureKept, AppendItemKept, EndOfItemsKept, AppendSubKept, FillTagsKept,
       AppendDataKept, FinishKept DEF Next
<1> QED  BY <1>1, <1>2, PTL DEF Spec

(* Assembly::assemble asserts that the positions of all tags fit the width *)
(* that was fixed before (Assembly.cpp, "Tag too large for reserved        *)
(* space."): tags of subs always do, own ones and the size of the program  *)
(* do as long as every sub is appended once, references to data are as     *)
(* wide as those to tags and no program is larger than the estimate thinks. *)
THEOREM AssemblerSpaceSuffices == Spec => []SpaceSuffices
<1>1. AssemblerInv => SpaceSuffices
  <2> SUFFICES ASSUME AssemblerInv PROVE SpaceSuffices
    OBVIOUS
  <2>1. pc = "tag too large" => TooLargeInv
    BY DEF AssemblerInv
  <2>2. ObjectsInv
    BY DEF AssemblerInv
  <2>3. \A n \in DOMAIN objects : Fits(n)
    BY <2>2, TreeSound DEF ObjectsInv
  <2> QED  BY <2>1, <2>3 DEF SpaceSuffices, TooLargeInv, Fits
<1> QED  BY <1>1, AssemblerAlways, PTL

-----------------------------------------------------------------------------
(* Numbers, read back                                                      *)

(* Products grow with a factor.                                            *)
LEMMA MultiplesGrow ==
  ASSUME NEW d \in Nat, NEW a \in Nat, NEW b \in Nat, a <= b
  PROVE  d * a <= d * b
<1>1. d * b = d * (a + (b - a)) /\ b - a \in Nat
  OBVIOUS
<1>2. d * (a + (b - a)) = d * a + d * (b - a) /\ d * (b - a) \in Nat /\ d * a \in Nat
  BY <1>1, Distributed
<1> QED  BY <1>1, <1>2

(* What division by a number leaves is less than it.                       *)
LEMMA Quotient ==
  ASSUME NEW v \in Nat, NEW d \in Nat \ {0}
  PROVE  /\ v \div d \in Nat /\ d * (v \div d) \in Nat
         /\ d * (v \div d) <= v /\ v < d * (v \div d) + d
OBVIOUS

(* Division by a power of the base, digit by digit.                        *)
LEMMA QuotientUnique ==
  ASSUME NEW v \in Nat, NEW d \in Nat \ {0}, NEW q \in Nat, d * q <= v, v < d * q + d
  PROVE  v \div d = q
<1> DEFINE p == v \div d
<1>1. p \in Nat /\ d * p \in Nat /\ d * p <= v /\ v < d * p + d /\ d * q \in Nat
  BY Quotient
<1> HIDE DEF p
<1>2. ASSUME NEW a \in Nat, NEW b \in Nat, a < b
      PROVE  d * a + d <= d * b
  <2>1. d * (a + 1) = d * a + d * 1 /\ d * 1 = d
    BY Distributed
  <2>2. d * (a + 1) <= d * b
    BY <1>2, MultiplesGrow
  <2> QED  BY <2>1, <2>2
<1>3. ~ (p < q)
  <2> SUFFICES ASSUME p < q PROVE FALSE
    OBVIOUS
  <2>1. d * p + d <= d * q
    BY <1>1, <1>2
  <2> QED  BY <1>1, <2>1
<1>4. ~ (q < p)
  <2> SUFFICES ASSUME q < p PROVE FALSE
    OBVIOUS
  <2>1. d * q + d <= d * p
    BY <1>1, <1>2
  <2> QED  BY <1>1, <2>1
<1> QED  BY <1>1, <1>3, <1>4 DEF p

(* A number without its last digits, and the next one of them.             *)
LEMMA DigitSplit ==
  ASSUME NEW v \in Nat, NEW p \in Nat \ {0}
  PROVE  v \div p = Base * (v \div (Base * p)) + ((v \div p) % Base)
<1> DEFINE q == v \div p
           r == q \div Base
           bp == Base * p
<1>1. Base \in Nat /\ Base > 1
  BY BaseAssumption
<1>2. q \in Nat /\ p * q \in Nat /\ p * q <= v /\ v < p * q + p
  BY Quotient
<1>3. r \in Nat /\ Base * r \in Nat /\ Base * r <= q /\ q + 1 <= Base * r + Base /\ q = Base * r + (q % Base)
  <2> HIDE DEF q
  <2>1. r \in Nat /\ Base * r \in Nat /\ Base * r <= q /\ q < Base * r + Base
    BY <1>1, <1>2, Quotient
  <2>2. q = Base * r + (q % Base)
    <3>1. \A b \in Nat \ {0} : \A x \in Nat : x = b * (x \div b) + (x % b)
      OBVIOUS
    <3> QED  BY <1>1, <1>2, <3>1
  <2> QED  BY <1>1, <1>2, <2>1, <2>2
<1>4. bp \in Nat \ {0}
  BY <1>1
<1>5. v \div bp = r
  <2> DEFINE br == Base * r
  <2>0. br \in Nat /\ br <= q /\ q + 1 <= br + Base
    BY <1>3
  <2>1. bp * r = p * br
    BY <1>1, <1>3
  <2>2. p * (br + Base) = p * br + bp
    BY <1>1, <1>3
  <2>3. p * (q + 1) = p * q + p
    BY <1>2
  <2> HIDE DEF q, r, bp, br
  <2>4. p * br <= p * q
    BY <1>2, <2>0, MultiplesGrow
  <2>5. p * (q + 1) <= p * (br + Base)
    <3>1. q + 1 \in Nat /\ br + Base \in Nat
      BY <1>1, <1>2, <2>0
    <3> QED  BY <2>0, <3>1, MultiplesGrow
  <2>6. p * br \in Nat
    BY <2>0
  <2>7. bp * r <= v /\ v < bp * r + bp
    BY <1>2, <1>4, <2>1, <2>2, <2>3, <2>4, <2>5, <2>6
  <2> QED  BY <1>3, <1>4, <2>7, QuotientUnique
<1> QED  BY <1>3, <1>5 DEF q, r, bp


(* What is read back from the bytes of a number.                           *)
ValueAt(c, at, f, k) == IF k = 0 THEN 0 ELSE Base * f[k - 1] + c[at + 1 + k][2]

Bytes(c, at, n, v) == \A i \in 1 .. n : c[at + 1 + i] = BigEndian(v, n)[i]

(* Reading a number back gives what was written, if it fits.               *)
LEMMA ReadBack ==
  ASSUME NEW c, NEW at, NEW n \in Nat, NEW v \in Nat, v < Power[n],
         c[at + 1] = Push(n), Bytes(c, at, n, v)
  PROVE  Pushed(c, at) = v
<1> DEFINE w == [k \in 0 .. n |-> v \div Power[n - k]]
           value == CHOOSE f : f = [k \in 0 .. n |-> ValueAt(c, at, f, k)]
           T == {k \in 0 .. n : value[k] = w[k]}
<1>1. c[at + 1][2] = n
  BY DEF Push
<1>2. Pushed(c, at) = value[n]
  BY <1>1 DEF Pushed, ValueAt
<1>3. \A k \in Nat : Power[k] \in Nat \ {0}
  BY PowerBound
<1>4. w[0] = 0
  <2>1. v \div Power[n] = 0
    <3>1. Power[n] * 0 = 0
      BY <1>3
    <3> QED  BY <1>3, <3>1, QuotientUnique
  <2> QED  BY <2>1
<1>5. ASSUME NEW k \in 1 .. n
      PROVE  w[k] = Base * w[k - 1] + c[at + 1 + k][2]
  <2> DEFINE p == Power[n - k]
  <2>1. n - k \in Nat /\ n - (k - 1) = (n - k) + 1 /\ k - 1 \in 0 .. n /\ k \in 0 .. n
    OBVIOUS
  <2>2. Power[n - (k - 1)] = Base * p /\ p \in Nat \ {0}
    BY <1>3, <2>1, PowerSteps
  <2>3. c[at + 1 + k] = Byte((v \div p) % Base)
    BY DEF Bytes, BigEndian
  <2>4. c[at + 1 + k][2] = (v \div p) % Base
    BY <2>3 DEF Byte
  <2>5. w[k] = v \div p /\ w[k - 1] = v \div (Base * p)
    BY <2>1, <2>2
  <2>6. v \div p = Base * (v \div (Base * p)) + ((v \div p) % Base)
    BY <2>2, DigitSplit
  <2> HIDE DEF p, w
  <2> QED  BY <2>4, <2>5, <2>6
<1>6. w = [k \in 0 .. n |-> ValueAt(c, at, w, k)]
  <2>1. \A k \in 0 .. n : w[k] = ValueAt(c, at, w, k)
    <3> HIDE DEF w
    <3>1. \A k \in 0 .. n : k = 0 \/ k \in 1 .. n
      OBVIOUS
    <3> QED  BY <1>4, <1>5, <3>1 DEF ValueAt
  <2> QED  BY <2>1
<1>7. value = [k \in 0 .. n |-> ValueAt(c, at, value, k)]
  <2> HIDE DEF w
  <2> QED  BY <1>6
<1> HIDE DEF value
<1>8. \A k \in 0 .. n : value[k] = ValueAt(c, at, value, k)
  BY <1>7
<1>9. w[n] = v
  <2>1. Power[0] = 1 /\ v \div 1 = v /\ n - n = 0 /\ n \in 0 .. n
    BY PowerSteps
  <2> QED  BY <2>1
<1> HIDE DEF w
<1>10. 0 \in T
  BY <1>4, <1>8 DEF ValueAt
<1>11. ASSUME NEW k \in 0 .. n - 1, k \in T
       PROVE  k + 1 \in T
  <2>1. k + 1 \in 1 .. n /\ k + 1 \in 0 .. n /\ k + 1 # 0 /\ (k + 1) - 1 = k
    OBVIOUS
  <2>2. w[k + 1] = Base * w[k] + c[at + 1 + (k + 1)][2]
    BY <1>5, <2>1
  <2>3. value[k + 1] = Base * value[k] + c[at + 1 + (k + 1)][2]
    BY <1>8, <2>1 DEF ValueAt
  <2> QED  BY <1>11, <2>1, <2>2, <2>3
<1>12. 0 .. n \subseteq T
  <2>1. \A k \in 0 .. n - 1 : k \in T => k + 1 \in T
    BY <1>11
  <2> HIDE DEF T
  <2> QED  BY <1>10, <2>1, NumbersUpTo
<1> QED  BY <1>2, <1>9, <1>12

-----------------------------------------------------------------------------
(* The cells of an assignment, read back                                   *)

(* Cells of two codes, one behind the other.                               *)
LEMMA JoinedCells ==
  ASSUME NEW c, IsSeq(c), NEW e, IsSeq(e)
  PROVE  /\ \A i \in 1 .. Len(c) : (c \o e)[i] = c[i]
         /\ \A i \in 1 .. Len(e) : (c \o e)[Len(c) + i] = e[i]
<1>1. PICK S : c \in Seq(S)
  BY DEF IsSeq
<1>2. PICK T : e \in Seq(T)
  BY DEF IsSeq
<1>3. c \in Seq(S \cup T) /\ e \in Seq(S \cup T)
  BY <1>1, <1>2
<1> QED  BY <1>3

(* Only the last instruction of an assignment of an immutable is a POP,    *)
(* and none is a JUMPDEST.                                                 *)
Marks == {Op("POP"), Op("JUMPDEST")}
NoPop(c) == \A i \in 1 .. Len(c) : c[i] \notin Marks

(* Code without POP joined to code without POP has none.                   *)
LEMMA NoPopJoined ==
  ASSUME NEW c, IsSeq(c), NoPop(c), NEW e, IsSeq(e), NoPop(e)
  PROVE  IsSeq(c \o e) /\ NoPop(c \o e)
<1>1. Len(c) \in Nat /\ Len(e) \in Nat
  BY SeqIsFunction
<1>2. IsSeq(c \o e) /\ Len(c \o e) = Len(c) + Len(e)
  BY Joined
<1>3. ASSUME NEW i \in 1 .. Len(c) + Len(e)
      PROVE  (c \o e)[i] \notin Marks
  <2>1. CASE i <= Len(c)
    <3>1. i \in 1 .. Len(c)
      BY <1>1, <2>1
    <3> QED  BY <3>1, JoinedCells DEF NoPop
  <2>2. CASE ~ (i <= Len(c))
    <3>1. i - Len(c) \in 1 .. Len(e) /\ i = Len(c) + (i - Len(c))
      BY <1>1, <2>2
    <3> HIDE <1>3
    <3>2. (c \o e)[Len(c) + (i - Len(c))] = e[i - Len(c)]
      BY <3>1, JoinedCells
    <3> QED  BY <3>1, <3>2 DEF NoPop
  <2> QED  BY <2>1, <2>2
<1> QED  BY <1>2, <1>3 DEF NoPop

(* A store of an immutable has no POP in it.                               *)
LEMMA StoreNoPop ==
  ASSUME NEW v \in Nat
  PROVE  IsSeq(StoreAt(v)) /\ NoPop(StoreAt(v))
<1> DEFINE n == NumberBytes(v)
           first == <<Op("DUP1"), Push(n)>>
           last == <<Op("MSTORE")>>
<1>1. n \in Nat
  BY NumberBytesSound
<1>2. IsSeq(first) /\ NoPop(first)
  <2>1. first \in Seq({Op("DUP1"), Push(n)}) /\ Len(first) = 2
    OBVIOUS
  <2>2. first[1] = Op("DUP1") /\ first[2] = Push(n)
    OBVIOUS
  <2>3. Op("DUP1") \notin Marks /\ Push(n) \notin Marks
    BY DEF Op, Push, Marks
  <2> HIDE DEF first
  <2>4. \A i \in 1 .. 2 : i = 1 \/ i = 2
    OBVIOUS
  <2> QED  BY <2>1, <2>2, <2>3, <2>4 DEF IsSeq, NoPop
<1>3. IsSeq(BigEndian(v, n)) /\ NoPop(BigEndian(v, n))
  <2>1. IsSeq(BigEndian(v, n)) /\ Len(BigEndian(v, n)) = n
    BY <1>1, BigEndianIsSeq
  <2>2. \A x : Byte(x) \notin Marks
    BY DEF Byte, Op, Marks
  <2>3. \A i \in 1 .. n : BigEndian(v, n)[i] \notin Marks
    BY <2>2 DEF BigEndian
  <2> QED  BY <2>1, <2>3 DEF NoPop
<1>4. IsSeq(last) /\ NoPop(last)
  <2>1. IsSeq(last) /\ Len(last) = 1
    BY SingleIsSeq
  <2>2. last[1] = Op("MSTORE") /\ Op("MSTORE") \notin Marks
    BY DEF Op, Marks
  <2> QED  BY <2>1, <2>2 DEF NoPop
<1>5. StoreAt(v) = (first \o BigEndian(v, n)) \o last
  BY DEF StoreAt
<1> HIDE DEF n, first, last
<1>6. IsSeq(first \o BigEndian(v, n)) /\ NoPop(first \o BigEndian(v, n))
  BY <1>2, <1>3, NoPopJoined
<1> QED  BY <1>4, <1>5, <1>6, NoPopJoined

(* Two codes agree behind some offset, up to another.                      *)
Same(c, e, from, to) == \A i \in from + 1 .. to : e[i] = c[i]

(* Some cells between two offsets store to x.                              *)
StoresTo(c, at, end, x) ==
  \E p \in at .. end - 1 : /\ p + 2 + NumberBytes(x) <= end
                           /\ c[p + 1] = Op("DUP1") /\ c[p + 2] = Push(NumberBytes(x))
                           /\ Bytes(c, p + 1, NumberBytes(x), x)

(* A store is there in code with the same cells.                           *)
LEMMA StoresSame ==
  ASSUME NEW c, NEW e, NEW at \in Nat, NEW end \in Nat, NEW x \in Nat,
         Same(c, e, at, end), StoresTo(c, at, end, x)
  PROVE  StoresTo(e, at, end, x)
<1> DEFINE n == NumberBytes(x)
<1>1. n \in Nat
  BY NumberBytesSound
<1>2. PICK p \in at .. end - 1 : /\ p + 2 + n <= end
                                /\ c[p + 1] = Op("DUP1") /\ c[p + 2] = Push(n)
                                /\ Bytes(c, p + 1, n, x)
  BY DEF StoresTo
<1> HIDE DEF n
<1>3. /\ p + 1 \in at + 1 .. end /\ p + 2 \in at + 1 .. end
      /\ \A i \in 1 .. n : (p + 1) + 1 + i \in at + 1 .. end
  BY <1>1, <1>2
<1>4. Bytes(e, p + 1, n, x)
  BY <1>2, <1>3 DEF Bytes, Same
<1>5. e[p + 1] = Op("DUP1") /\ e[p + 2] = Push(n)
  BY <1>2, <1>3 DEF Same
<1> QED  BY <1>2, <1>4, <1>5 DEF StoresTo, n

(* A store is there in a larger part of the code.                          *)
LEMMA StoresWithin ==
  ASSUME NEW c, NEW at \in Nat, NEW end \in Nat, NEW x \in Nat, StoresTo(c, at, end, x),
         NEW from \in Nat, NEW to \in Nat, from <= at, end <= to
  PROVE  StoresTo(c, from, to, x)
<1> DEFINE n == NumberBytes(x)
<1>1. n \in Nat
  BY NumberBytesSound
<1>2. PICK p \in at .. end - 1 : /\ p + 2 + n <= end
                                /\ c[p + 1] = Op("DUP1") /\ c[p + 2] = Push(n)
                                /\ Bytes(c, p + 1, n, x)
  BY DEF StoresTo
<1> HIDE DEF n
<1>3. p \in from .. to - 1 /\ p + 2 + n <= to
  BY <1>1, <1>2
<1> QED  BY <1>2, <1>3 DEF StoresTo, n

(* A store is there behind other code.                                     *)
LEMMA StoresShifted ==
  ASSUME NEW c, IsSeq(c), NEW b, IsSeq(b), NEW x \in Nat, StoresTo(b, 0, Len(b), x)
  PROVE  StoresTo(c \o b, Len(c), Len(c) + Len(b), x)
<1> DEFINE n == NumberBytes(x)
           e == c \o b
<1>1. n \in Nat /\ Len(c) \in Nat /\ Len(b) \in Nat
  BY NumberBytesSound, SeqIsFunction
<1>2. PICK p \in 0 .. Len(b) - 1 : /\ p + 2 + n <= Len(b)
                                  /\ b[p + 1] = Op("DUP1") /\ b[p + 2] = Push(n)
                                  /\ Bytes(b, p + 1, n, x)
  BY DEF StoresTo
<1>3. \A i \in 1 .. Len(b) : e[Len(c) + i] = b[i]
  BY JoinedCells
<1> HIDE DEF n, e
<1> DEFINE q == Len(c) + p
<1>4. q \in Len(c) .. Len(c) + Len(b) - 1 /\ q + 2 + n <= Len(c) + Len(b)
  BY <1>1, <1>2
<1>5. e[q + 1] = Op("DUP1") /\ e[q + 2] = Push(n)
  <2>1. /\ q + 1 = Len(c) + (p + 1) /\ p + 1 \in 1 .. Len(b)
        /\ q + 2 = Len(c) + (p + 2) /\ p + 2 \in 1 .. Len(b)
    BY <1>1, <1>2
  <2> QED  BY <1>2, <1>3, <2>1
<1>6. Bytes(e, q + 1, n, x)
  <2>1. ASSUME NEW i \in 1 .. n
        PROVE  e[(q + 1) + 1 + i] = BigEndian(x, n)[i]
    <3>1. (q + 1) + 1 + i = Len(c) + ((p + 1) + 1 + i) /\ (p + 1) + 1 + i \in 1 .. Len(b)
      BY <1>1, <1>2
    <3>2. b[(p + 1) + 1 + i] = BigEndian(x, n)[i]
      BY <1>2 DEF Bytes
    <3> QED  BY <1>3, <3>1, <3>2
  <2> QED  BY <2>1 DEF Bytes
<1> HIDE DEF q
<1> DEFINE from == Len(c)
           to == Len(c) + Len(b)
<1>7. q \in from .. to - 1 /\ q + 2 + n <= to
  BY <1>4
<1> HIDE DEF from, to
<1>8. StoresTo(e, from, to, x)
  BY <1>5, <1>6, <1>7 DEF StoresTo, n
<1> QED  BY <1>8 DEF e, from, to

(* What is emitted for a place stores to it.                               *)
LEMMA StoreStores ==
  ASSUME NEW x \in Nat
  PROVE  StoresTo(StoreAt(x), 0, Len(StoreAt(x)), x)
<1> DEFINE n == NumberBytes(x)
           first == <<Op("DUP1"), Push(n)>>
           both == first \o BigEndian(x, n)
           last == <<Op("MSTORE")>>
           c == StoreAt(x)
<1>1. n \in Nat /\ Len(c) = 3 + n
  BY NumberBytesSound, StoreLength
<1>2. IsSeq(first) /\ Len(first) = 2 /\ first[1] = Op("DUP1") /\ first[2] = Push(n)
  <2>1. first \in Seq({Op("DUP1"), Push(n)})
    OBVIOUS
  <2> QED  BY <2>1 DEF IsSeq
<1>3. IsSeq(BigEndian(x, n)) /\ Len(BigEndian(x, n)) = n
  BY <1>1, BigEndianIsSeq
<1>4. IsSeq(last)
  BY SingleIsSeq
<1>5. c = both \o last
  BY DEF StoreAt
<1> HIDE DEF n, first, last, c
<1>6. IsSeq(both) /\ Len(both) = 2 + n
  BY <1>2, <1>3, Joined
<1>7. /\ \A i \in 1 .. 2 : both[i] = first[i]
      /\ \A i \in 1 .. n : both[2 + i] = BigEndian(x, n)[i]
  <2> DEFINE b == BigEndian(x, n)
  <2>1. IsSeq(b) /\ Len(b) = n
    BY <1>3
  <2> HIDE DEF b
  <2>2. IsSeq(first)
    BY <1>2
  <2>3. \A i \in 1 .. Len(first) : (first \o b)[i] = first[i]
    BY <2>1, <2>2, JoinedCells
  <2>4. \A i \in 1 .. Len(b) : (first \o b)[Len(first) + i] = b[i]
    BY <2>1, <2>2, JoinedCells
  <2> QED  BY <1>2, <2>1, <2>3, <2>4 DEF b
<1> HIDE DEF both
<1>8. \A i \in 1 .. 2 + n : c[i] = both[i]
  BY <1>4, <1>5, <1>6, JoinedCells
<1>9. 1 \in 1 .. 2 /\ 2 \in 1 .. 2 /\ 1 \in 1 .. 2 + n /\ 2 \in 1 .. 2 + n /\ \A i \in 1 .. n : 2 + i \in 1 .. 2 + n
  BY <1>1
<1>10. c[1] = Op("DUP1") /\ c[2] = Push(n) /\ \A i \in 1 .. n : c[2 + i] = BigEndian(x, n)[i]
  BY <1>2, <1>7, <1>8, <1>9
<1>11. Bytes(c, 0 + 1, n, x)
  <2>1. \A i \in 1 .. n : (0 + 1) + 1 + i = 2 + i
    OBVIOUS
  <2> QED  BY <1>10, <2>1 DEF Bytes
<1>12. c[0 + 1] = Op("DUP1") /\ c[0 + 2] = Push(n)
  BY <1>10
<1>13. 0 \in 0 .. Len(c) - 1 /\ 0 + 2 + n <= Len(c)
  BY <1>1
<1> QED  BY <1>11, <1>12, <1>13 DEF StoresTo, n, c

(* What assigns an immutable stores to each of the places and ends with its *)
(* only POP.                                                               *)
LEMMA AssignedEnds ==
  ASSUME NEW places \in Seq(Nat)
  PROVE  LET c == Assigned(places)
         IN  /\ IsSeq(c) /\ Len(c) >= 1 /\ c[Len(c)] = Op("POP")
             /\ \A i \in 1 .. Len(c) - 1 : c[i] \notin Marks
             /\ \A j \in 1 .. Len(places) : StoresTo(c, 0, Len(c), places[j])
<1> DEFINE L == Len(places)
           f == CHOOSE g : g = [k \in 0 .. L |-> StoresAt(places, g, k)]
           T == {k \in 0 .. L : /\ IsSeq(f[k]) /\ NoPop(f[k])
                                /\ \A j \in 1 .. k : StoresTo(f[k], 0, Len(f[k]), places[j])}
           stores == f[L]
           last == <<Op("POP")>>
<1>0. L \in Nat /\ \A k \in 1 .. L : places[k] \in Nat
  OBVIOUS
<1>1. f = [k \in 0 .. L |-> StoresAt(places, f, k)]
  BY StoresExist
<1>2. Assigned(places) = stores \o last
  BY DEF Assigned, StoresAt
<1> HIDE DEF f
<1>3. \A k \in 0 .. L : f[k] = StoresAt(places, f, k)
  BY <1>1
<1>4. 0 \in T
  <2>1. 0 \in 0 .. L
    BY <1>0
  <2>2. f[0] = <<>>
    BY <1>3, <2>1 DEF StoresAt
  <2> QED  BY <2>1, <2>2, EmptyIsSeq DEF NoPop
<1>5. ASSUME NEW k \in 0 .. L - 1, k \in T
      PROVE  k + 1 \in T
  <2>1. k + 1 \in 0 .. L /\ k + 1 \in 1 .. L /\ k + 1 # 0 /\ (k + 1) - 1 = k
    BY <1>0
  <2>2. f[k + 1] = f[k] \o StoreAt(places[k + 1])
    BY <1>3, <2>1 DEF StoresAt
  <2>3. IsSeq(StoreAt(places[k + 1])) /\ NoPop(StoreAt(places[k + 1]))
    BY <1>0, <2>1, StoreNoPop
  <2> DEFINE c == f[k]
             b == StoreAt(places[k + 1])
  <2>4. IsSeq(c) /\ NoPop(c) /\ \A j \in 1 .. k : StoresTo(c, 0, Len(c), places[j])
    BY <1>5
  <2>5. StoresTo(b, 0, Len(b), places[k + 1]) /\ places[k + 1] \in Nat
    BY <1>0, <2>1, StoreStores
  <2>6. IsSeq(b) /\ NoPop(b) /\ f[k + 1] = c \o b
    BY <2>2, <2>3
  <2> HIDE DEF b, c
  <2>7. Len(c) \in Nat /\ Len(b) \in Nat /\ IsSeq(c \o b) /\ Len(c \o b) = Len(c) + Len(b)
    BY <2>4, <2>6, Joined, SeqIsFunction
  <2>8. StoresTo(c \o b, 0, Len(c \o b), places[k + 1])
    <3>1. StoresTo(c \o b, Len(c), Len(c) + Len(b), places[k + 1])
      BY <2>4, <2>5, <2>6, StoresShifted
    <3> DEFINE e == c \o b
               m == Len(c) + Len(b)
    <3>2. StoresTo(e, Len(c), m, places[k + 1]) /\ m \in Nat /\ Len(e) = m
      BY <2>7, <3>1
    <3> HIDE DEF e, m
    <3> QED  BY <2>5, <2>7, <3>2, StoresWithin DEF e
  <2>9. ASSUME NEW j \in 1 .. k
        PROVE  StoresTo(c \o b, 0, Len(c \o b), places[j])
    <3> DEFINE e == c \o b
    <3>1. Same(c, e, 0, Len(c))
      BY <2>4, <2>6, JoinedCells DEF Same
    <3>2. j \in 1 .. L /\ places[j] \in Nat
      BY <1>0
    <3>3. Len(e) \in Nat /\ Len(c) <= Len(e)
      BY <2>7
    <3> HIDE DEF e
    <3>4. StoresTo(e, 0, Len(c), places[j])
      BY <2>4, <2>7, <3>1, <3>2, StoresSame
    <3> QED  BY <2>7, <3>2, <3>3, <3>4, StoresWithin DEF e
  <2>10. IsSeq(f[k + 1]) /\ NoPop(f[k + 1])
    BY <2>4, <2>6, NoPopJoined
  <2>11. \A j \in 1 .. k + 1 : j = k + 1 \/ j \in 1 .. k
    OBVIOUS
  <2>12. \A j \in 1 .. k + 1 : StoresTo(f[k + 1], 0, Len(f[k + 1]), places[j])
    BY <2>6, <2>8, <2>9, <2>11
  <2> QED  BY <2>1, <2>10, <2>12
<1>6. L \in T
  <2>1. \A k \in 0 .. L - 1 : k \in T => k + 1 \in T
    BY <1>5
  <2> HIDE DEF T
  <2>2. 0 .. L \subseteq T
    BY <1>0, <1>4, <2>1, NumbersUpTo
  <2> QED  BY <1>0, <2>2
<1>7. /\ IsSeq(stores) /\ NoPop(stores) /\ Len(stores) \in Nat
      /\ \A j \in 1 .. L : StoresTo(stores, 0, Len(stores), places[j])
  BY <1>6, SeqIsFunction
<1>8. IsSeq(last) /\ Len(last) = 1 /\ last[1] = Op("POP")
  BY SingleIsSeq
<1> HIDE DEF stores, last
<1>9. IsSeq(stores \o last) /\ Len(stores \o last) = Len(stores) + 1
  BY <1>7, <1>8, Joined
<1>10. (stores \o last)[Len(stores) + 1] = Op("POP")
  <2>1. 1 \in 1 .. Len(last)
    BY <1>8
  <2>2. ASSUME NEW i \in 1 .. Len(last)
        PROVE  (stores \o last)[Len(stores) + i] = last[i]
    <3>1. IsSeq(stores) /\ IsSeq(last)
      BY <1>7, <1>8
    <3> QED  BY <3>1, JoinedCells
  <2> QED  BY <1>8, <2>1, <2>2
<1>11. \A i \in 1 .. Len(stores) : (stores \o last)[i] \notin Marks
  BY <1>7, <1>8, JoinedCells DEF NoPop
<1>12. ASSUME NEW j \in 1 .. L
       PROVE  StoresTo(stores \o last, 0, Len(stores \o last), places[j])
  <2> DEFINE e == stores \o last
  <2>1. Same(stores, e, 0, Len(stores))
    BY <1>7, <1>8, JoinedCells DEF Same
  <2>2. Len(e) \in Nat /\ Len(stores) <= Len(e) /\ places[j] \in Nat
    BY <1>0, <1>7, <1>9
  <2> HIDE DEF e
  <2>3. StoresTo(e, 0, Len(stores), places[j])
    BY <1>7, <2>1, <2>2, StoresSame
  <2> QED  BY <1>7, <2>2, <2>3, StoresWithin DEF e
<1> QED  BY <1>2, <1>7, <1>9, <1>10, <1>11, <1>12

-----------------------------------------------------------------------------
(* Where an item is, in the code of an assembly with the widths w and dw,  *)
(* and that it holds v, if that is known when it is appended: a number, or *)
(* the places to which an immutable is stored.                             *)
Gap(c, at, end, n) == end = at + 1 + n /\ c[at + 1] = Push(n)

NumberAt(c, at, end, v) == \E n \in Nat : v < Power[n] /\ Gap(c, at, end, n) /\ Bytes(c, at, n, v)

ItemAt(item, c, at, end, w, dw, v) ==
  /\ at < end
  /\ item.type = "Operation" => end = at + 1 /\ c[end] = Op(item.name)
  /\ item.type = "Tag" => end = at + 1 /\ c[end] = Op("JUMPDEST")
  /\ item.type \in {"Push", "PushSubSize"} => NumberAt(c, at, end, v)
  /\ item.type = "PushTag" => Gap(c, at, end, w)
  /\ item.type \in {"PushData", "PushSub", "PushProgramSize"} => Gap(c, at, end, dw)
  /\ item.type \in {"PushString", "PushImmutable"} => Gap(c, at, end, WordBytes)
  /\ item.type \in {"PushLibraryAddress", "PushDeployTimeAddress"} => Gap(c, at, end, AddressBytes)
  /\ item.type = "AssignImmutable" => /\ c[end] = Op("POP") /\ \A f \in at + 1 .. end - 1 : c[f] \notin Marks
                                      /\ \A x \in v : x \in Nat /\ StoresTo(c, at, end, x)

(* References to be filled in.                                             *)
Open(item) == item.type \in {"PushTag", "PushData", "PushSub", "PushProgramSize"}

(* Other code with the same cells holds the item as well.                  *)
LEMMA ItemAtSame ==
  ASSUME NEW item, NEW c, NEW e, NEW at \in Nat, NEW end \in Nat, NEW w, NEW dw, NEW v,
         ItemAt(item, c, at, end, w, dw, v), Same(c, e, at, end)
  PROVE  ItemAt(item, e, at, end, w, dw, v)
<1>1. at < end /\ e[at + 1] = c[at + 1] /\ e[end] = c[end]
  BY DEF ItemAt, Same
<1>2. \A n : Gap(c, at, end, n) => Gap(e, at, end, n)
  BY <1>1 DEF Gap
<1>3. NumberAt(c, at, end, v) => NumberAt(e, at, end, v)
  <2> SUFFICES ASSUME NEW n \in Nat, v < Power[n], Gap(c, at, end, n), Bytes(c, at, n, v)
               PROVE  NumberAt(e, at, end, v)
    BY DEF NumberAt
  <2>1. \A i \in 1 .. n : at + 1 + i \in at + 1 .. end
    BY DEF Gap
  <2>2. Bytes(e, at, n, v)
    BY <2>1 DEF Bytes, Same
  <2> QED  BY <1>2, <2>2 DEF NumberAt
<1>4. \A f \in at + 1 .. end - 1 : e[f] = c[f]
  BY DEF Same
<1>5. \A x \in Nat : StoresTo(c, at, end, x) => StoresTo(e, at, end, x)
  BY StoresSame
<1> QED  BY <1>1, <1>2, <1>3, <1>4, <1>5 DEF ItemAt

(* An item whose reference is filled in stays one.                         *)
LEMMA ItemAtFilled ==
  ASSUME NEW item, Open(item), NEW c, NEW e, NEW at, NEW end, NEW w, NEW dw, NEW v,
         ItemAt(item, c, at, end, w, dw, v), e[at + 1] = c[at + 1]
  PROVE  ItemAt(item, e, at, end, w, dw, v)
BY DEF ItemAt, Open, Gap

(* Reading an item back ends where it ends.                                *)
LEMMA EndFound ==
  ASSUME NEW item, item.type \in ItemTypes, NEW c, Len(c) \in Nat, NEW at \in Nat, NEW end \in Nat, end <= Len(c),
         NEW w, NEW dw, NEW v, ItemAt(item, c, at, end, w, dw, v)
  PROVE  EndOf(item, c, at) = end
<1>1. CASE item.type = "AssignImmutable"
  <2> DEFINE Ends(e) == c[e] = Op("POP") /\ \A f \in at + 1 .. e - 1 : c[f] # Op("POP")
  <2>1. end \in at + 1 .. Len(c) /\ Ends(end)
    BY <1>1 DEF ItemAt, Marks
  <2>2. \A e \in at + 1 .. Len(c) : Ends(e) => e = end
    <3>1. \A e \in at + 1 .. Len(c) : e < end => e \in at + 1 .. end - 1
      OBVIOUS
    <3>2. \A e \in at + 1 .. Len(c) : end < e => end \in at + 1 .. e - 1
      BY <2>1
    <3>3. \A e \in at + 1 .. Len(c) : e = end \/ e < end \/ end < e
      OBVIOUS
    <3> QED  BY <2>1, <3>1, <3>2, <3>3
  <2>3. EndOf(item, c, at) = CHOOSE e \in at + 1 .. Len(c) : Ends(e)
    BY <1>1 DEF EndOf, PopFrom
  <2> HIDE DEF Ends
  <2> QED  BY <2>1, <2>2, <2>3
<1>2. CASE item.type \in {"Operation", "Tag"}
  <2>1. end = at + 1 /\ c[at + 1][1] = "op"
    BY <1>2 DEF ItemAt, Op
  <2> QED  BY <1>2, <2>1 DEF EndOf
<1>3. CASE item.type \notin {"AssignImmutable", "Operation", "Tag"}
  <2>1. \E n : Gap(c, at, end, n)
    BY <1>3 DEF ItemAt, ItemTypes, NumberAt
  <2>2. PICK n : Gap(c, at, end, n)
    BY <2>1
  <2>3. c[at + 1][1] = "push" /\ c[at + 1][2] = n /\ end = at + 1 + n
    BY <2>2 DEF Gap, Push
  <2> QED  BY <1>3, <2>3 DEF EndOf
<1> QED  BY <1>1, <1>2, <1>3

(* Some bytes of a reference point to cells behind the items.              *)
PointedAt(c, at, n, cells, low) ==
  \E v \in Nat : /\ low <= v /\ v + Len(cells) <= Len(c)
                 /\ Bytes(c, at, n, v)
                 /\ \A i \in 1 .. Len(cells) : c[v + i] = cells[i]

(* Bytes are there in code with the same cells.                            *)
LEMMA BytesSame ==
  ASSUME NEW c, NEW e, NEW at \in Nat, NEW n \in Nat, NEW v, Bytes(c, at, n, v), Same(c, e, at, at + 1 + n)
  PROVE  Bytes(e, at, n, v)
<1>1. \A i \in 1 .. n : at + 1 + i \in at + 1 .. at + 1 + n
  OBVIOUS
<1> QED  BY <1>1 DEF Bytes, Same

(* Cells that do not change are pointed to as before.                      *)
LEMMA PointedAtSame ==
  ASSUME NEW c, NEW e, Len(c) \in Nat, Len(e) \in Nat, Len(c) <= Len(e), NEW at \in Nat, NEW n \in Nat,
         NEW cells, Len(cells) \in Nat, NEW low \in Nat, PointedAt(c, at, n, cells, low),
         Same(c, e, at, at + 1 + n), Same(c, e, low, Len(c))
  PROVE  PointedAt(e, at, n, cells, low)
<1>1. PICK v \in Nat : /\ low <= v /\ v + Len(cells) <= Len(c)
                       /\ Bytes(c, at, n, v)
                       /\ \A i \in 1 .. Len(cells) : c[v + i] = cells[i]
  BY DEF PointedAt
<1>2. Bytes(e, at, n, v)
  BY <1>1, BytesSame
<1>3. \A i \in 1 .. Len(cells) : e[v + i] = c[v + i]
  <2>1. \A i \in 1 .. Len(cells) : v + i \in low + 1 .. Len(c)
    BY <1>1
  <2> QED  BY <2>1 DEF Same
<1>4. v + Len(cells) <= Len(e)
  BY <1>1
<1> QED  BY <1>1, <1>2, <1>3, <1>4 DEF PointedAt

(* Where items start: one behind the other.                                *)
Starting(st, count, c) ==
  /\ count \in Nat \ {0} /\ st \in [1 .. count -> Nat]
  /\ st[1] = 0 /\ st[count] <= Len(c)
  /\ \A k \in 1 .. count - 1 : st[k] < st[k + 1]

(* Later items start later.                                                *)
LEMMA StartsGrow ==
  ASSUME NEW st, NEW count, NEW c, Starting(st, count, c)
  PROVE  \A i, j \in 1 .. count : i <= j => st[i] <= st[j]
<1> DEFINE T == {d \in 0 .. count - 1 : \A i \in 1 .. count : i + d <= count => st[i] <= st[i + d]}
<1>1. count \in Nat \ {0} /\ \A k \in 1 .. count : st[k] \in Nat
  BY DEF Starting
<1>2. 0 \in T
  BY <1>1
<1>3. ASSUME NEW d \in 0 .. (count - 1) - 1, d \in T
      PROVE  d + 1 \in T
  <2>1. ASSUME NEW i \in 1 .. count, i + (d + 1) <= count
        PROVE  st[i] <= st[i + (d + 1)]
    <3>1. i + d \in 1 .. count - 1 /\ i + d \in 1 .. count /\ i + (d + 1) \in 1 .. count /\ i + (d + 1) = (i + d) + 1
      BY <1>1, <2>1
    <3>2. st[i] <= st[i + d]
      BY <1>3, <3>1
    <3>3. st[i + d] < st[i + (d + 1)]
      BY <3>1 DEF Starting
    <3> QED  BY <1>1, <3>1, <3>2, <3>3
  <2> QED  BY <1>1, <2>1
<1>4. 0 .. count - 1 \subseteq T
  <2>1. \A d \in 0 .. (count - 1) - 1 : d \in T => d + 1 \in T
    BY <1>3
  <2> HIDE DEF T
  <2> QED  BY <1>1, <1>2, <2>1, NumbersUpTo
<1>5. ASSUME NEW i \in 1 .. count, NEW j \in 1 .. count, i <= j
      PROVE  st[i] <= st[j]
  <2>1. j - i \in 0 .. count - 1 /\ i + (j - i) = j
    BY <1>1, <1>5
  <2>2. j - i \in T
    BY <1>4, <2>1
  <2> QED  BY <1>1, <2>1, <2>2
<1> QED  BY <1>5

(* The bytes of the references of the items K.                             *)
Filling(items, st, count, K, bytes) ==
  /\ K \subseteq 1 .. count - 1
  /\ DOMAIN bytes = {st[k] + 1 : k \in K}
  /\ \A k \in K : DOMAIN bytes[st[k] + 1] = 1 .. (st[k + 1] - st[k]) - 1
  /\ \A k \in K : Open(items[k])
  /\ \A at \in DOMAIN bytes : \A i \in DOMAIN bytes[at] : bytes[at][i] # Op("JUMPDEST")

(* Filling in references changes what is behind their pushes, and nothing  *)
(* else.                                                                   *)
LEMMA Refilled ==
  ASSUME NEW c, IsSeq(c), NEW st, NEW count, Starting(st, count, c),
         NEW items, NEW K, NEW bytes, Filling(items, st, count, K, bytes), NEW e, e = Patched(c, bytes)
  PROVE  /\ Same(c, e, st[count], Len(c))
         /\ \A k \in 1 .. count - 1 : e[st[k] + 1] = c[st[k] + 1]
         /\ \A k \in (1 .. count - 1) \ K : Same(c, e, st[k], st[k + 1])
         /\ \A k \in K : \A i \in 1 .. (st[k + 1] - st[k]) - 1 : e[st[k] + 1 + i] = bytes[st[k] + 1][i]
<1> DEFINE L == Len(c)
           Covers(at, i) == i - at \in DOMAIN bytes[at]
<1>0. /\ K \subseteq 1 .. count - 1
      /\ DOMAIN bytes = {st[k] + 1 : k \in K}
      /\ \A k \in K : DOMAIN bytes[st[k] + 1] = 1 .. (st[k + 1] - st[k]) - 1
  BY DEF Filling
<1> USE <1>0
<1>1. L \in Nat /\ DOMAIN c = 1 .. L
  BY SeqIsFunction
<1>2. count \in Nat \ {0} /\ st[count] <= L /\ \A k \in 1 .. count : st[k] \in Nat
  BY DEF Starting
<1>3. \A i, j \in 1 .. count : i <= j => st[i] <= st[j]
  BY StartsGrow
<1>4. \A i \in 1 .. L : (~ \E at \in DOMAIN bytes : Covers(at, i)) => e[i] = c[i]
  BY <1>1 DEF Patched
<1>5. \A i \in 1 .. L : \A at \in DOMAIN bytes :
        Covers(at, i) /\ (\A b \in DOMAIN bytes : Covers(b, i) => b = at) => e[i] = bytes[at][i - at]
  BY <1>1 DEF Patched
<1>6. \A k \in K : \A i \in Nat : Covers(st[k] + 1, i) <=> i \in st[k] + 2 .. st[k + 1]
  <2> SUFFICES ASSUME NEW k \in K, NEW i \in Nat
               PROVE  Covers(st[k] + 1, i) <=> i \in st[k] + 2 .. st[k + 1]
    OBVIOUS
  <2>1. DOMAIN bytes[st[k] + 1] = 1 .. (st[k + 1] - st[k]) - 1
    OBVIOUS
  <2>2. k \in 1 .. count /\ k + 1 \in 1 .. count
    BY <1>2
  <2>3. st[k] \in Nat /\ st[k + 1] \in Nat
    BY <1>2, <2>2
  <2>4. \A a, b, x \in Nat : x - (a + 1) \in 1 .. (b - a) - 1 <=> x \in a + 2 .. b
    OBVIOUS
  <2>5. i - (st[k] + 1) \in 1 .. (st[k + 1] - st[k]) - 1 <=> i \in st[k] + 2 .. st[k + 1]
    BY <2>3, <2>4, Zenon
  <2> QED  BY <2>1, <2>5, Zenon
<1> HIDE DEF L, Covers
<1>7. \A k \in 1 .. count - 1 : /\ st[k] \in Nat /\ st[k + 1] \in Nat /\ st[k] < st[k + 1] /\ st[k + 1] <= st[count]
                                /\ \A j \in 1 .. count - 1 : j < k => st[j + 1] <= st[k]
  <2> SUFFICES ASSUME NEW k \in 1 .. count - 1
               PROVE  /\ st[k] \in Nat /\ st[k + 1] \in Nat /\ st[k] < st[k + 1] /\ st[k + 1] <= st[count]
                      /\ \A j \in 1 .. count - 1 : j < k => st[j + 1] <= st[k]
    OBVIOUS
  <2>1. k \in 1 .. count /\ k + 1 \in 1 .. count /\ k + 1 <= count /\ count \in 1 .. count
    BY <1>2
  <2>2. \A j \in 1 .. count - 1 : j < k => j + 1 \in 1 .. count /\ j + 1 <= k
    BY <1>2
  <2>3. st[k] < st[k + 1]
    BY DEF Starting
  <2> QED  BY <1>2, <1>3, <2>1, <2>2, <2>3
<1>8. \A at \in DOMAIN bytes : \E k \in K : at = st[k] + 1
  OBVIOUS
(* A reference covers no cell of another item, nor one behind the items.   *)
<1>9. ASSUME NEW j \in 1 .. count - 1, NEW i \in st[j] + 1 .. st[j + 1], NEW at \in DOMAIN bytes, Covers(at, i)
      PROVE  j \in K /\ at = st[j] + 1 /\ i # st[j] + 1
  <2>1. PICK k \in K : at = st[k] + 1
    BY <1>8
  <2>2. i \in Nat
    BY <1>7
  <2>3. i \in st[k] + 2 .. st[k + 1]
    BY <1>6, <1>9, <2>1, <2>2
  <2>4. k \in 1 .. count - 1
    OBVIOUS
  <2>5. ~ (j < k)
    <3>1. j < k => st[j + 1] <= st[k]
      BY <1>7, <2>4
    <3>2. st[k] \in Nat /\ st[j + 1] \in Nat /\ i >= st[k] + 2 /\ i <= st[j + 1]
      BY <1>7, <2>3, <2>4
    <3> QED  BY <3>1, <3>2
  <2>6. ~ (k < j)
    <3>1. k < j => st[k + 1] <= st[j]
      BY <1>7, <2>4
    <3>2. st[k + 1] \in Nat /\ st[j] \in Nat /\ i >= st[j] + 1 /\ i <= st[k + 1]
      BY <1>7, <2>3, <2>4
    <3> QED  BY <3>1, <3>2
  <2>7. j = k
    BY <2>4, <2>5, <2>6
  <2> QED  BY <1>7, <2>1, <2>3, <2>7
<1>10. \A k \in 1 .. count - 1 : e[st[k] + 1] = c[st[k] + 1]
  <2> SUFFICES ASSUME NEW k \in 1 .. count - 1
               PROVE  e[st[k] + 1] = c[st[k] + 1]
    OBVIOUS
  <2>1. st[k] + 1 \in 1 .. L /\ st[k] + 1 \in st[k] + 1 .. st[k + 1]
    BY <1>1, <1>2, <1>7, SMTT(30)
  <2> QED  BY <1>4, <1>9, <2>1
<1>11. \A k \in (1 .. count - 1) \ K : Same(c, e, st[k], st[k + 1])
  <2> SUFFICES ASSUME NEW k \in (1 .. count - 1) \ K, NEW i \in st[k] + 1 .. st[k + 1]
               PROVE  e[i] = c[i]
    BY DEF Same
  <2>1. i \in 1 .. L
    BY <1>1, <1>2, <1>7
  <2> QED  BY <1>4, <1>9, <2>1
<1>12. \A k \in K : \A i \in 1 .. (st[k + 1] - st[k]) - 1 : e[st[k] + 1 + i] = bytes[st[k] + 1][i]
  <2> SUFFICES ASSUME NEW k \in K, NEW i \in 1 .. (st[k + 1] - st[k]) - 1
               PROVE  e[st[k] + 1 + i] = bytes[st[k] + 1][i]
    OBVIOUS
  <2> DEFINE at == st[k] + 1
             x == at + i
  <2>1. k \in 1 .. count - 1 /\ st[k] \in Nat /\ st[k + 1] \in Nat /\ st[k + 1] <= st[count] /\ st[count] \in Nat
    BY <1>2, <1>7
  <2>2. x \in 1 .. L /\ x \in st[k] + 1 .. st[k + 1] /\ x \in Nat /\ x \in st[k] + 2 .. st[k + 1] /\ x - at = i
    <3> DEFINE a == st[k]
               b == st[k + 1]
    <3>1. a \in Nat /\ b \in Nat /\ b <= L /\ i \in 1 .. (b - a) - 1
      BY <1>1, <1>2, <2>1
    <3> HIDE DEF a, b
    <3>2. a + 1 + i \in a + 2 .. b /\ a + 1 + i \in a + 1 .. b /\ a + 1 + i \in 1 .. L /\ a + 1 + i \in Nat
      BY <1>1, <3>1
    <3>3. (a + 1 + i) - (a + 1) = i
      BY <3>1
    <3> QED  BY <3>2, <3>3 DEF a, b
  <2>3. Covers(at, x) /\ at \in DOMAIN bytes
    BY <1>6, <2>2
  <2>4. \A b \in DOMAIN bytes : Covers(b, x) => b = at
    BY <1>9, <2>1, <2>2
  <2> HIDE DEF at, x
  <2>5. e[x] = bytes[at][x - at]
    BY <1>5, <2>2, <2>3, <2>4
  <2> QED  BY <2>2, <2>5 DEF at, x
<1>13. Same(c, e, st[count], L)
  <2> SUFFICES ASSUME NEW i \in st[count] + 1 .. L
               PROVE  e[i] = c[i]
    BY DEF Same
  <2>0. st[count] \in Nat
    BY <1>2
  <2>1. i \in 1 .. L /\ i \in Nat /\ i > st[count]
    BY <1>1, <2>0
  <2>2. ASSUME NEW at \in DOMAIN bytes, Covers(at, i)
        PROVE  FALSE
    <3>1. PICK k \in K : at = st[k] + 1
      BY <1>8
    <3>2. i \in st[k] + 2 .. st[k + 1] /\ k \in 1 .. count - 1
      BY <1>6, <2>1, <2>2, <3>1
    <3> QED  BY <1>7, <2>0, <2>1, <3>2
  <2> QED  BY <1>4, <2>1, <2>2
<1> QED  BY <1>10, <1>11, <1>12, <1>13 DEF L

(* Who assigns an immutable, and the places to which the only one to do so *)
(* has to write it.                                                        *)
Assigners(items, name) == {k \in DOMAIN items : items[k].type = "AssignImmutable" /\ items[k].name = name}

Read(t, n, objs) == ImmutablesOf(SubObjects(t[n], objs))

PlacesOf(t, n, objs, name) ==
  IF Cardinality(Assigners(t[n].items, name)) = 1 THEN Range(Occurrences(Read(t, n, objs), name)) ELSE {}

(* What an item holds from the beginning.                                  *)
Held(t, n, objs, item) ==
  IF item.type = "Push" THEN item.data
  ELSE IF item.type = "PushSubSize" THEN Len(objs[SubOf(t, n, item.data)].code)
  ELSE IF item.type = "AssignImmutable" THEN PlacesOf(t, n, objs, item.name) ELSE 0

(* The items of assembly n before number "count" are in the code c, each   *)
(* where the one before it ends.                                           *)
Layout(t, n, objs, c, w, dw, count, st) ==
  /\ Starting(st, count, c)
  /\ \A k \in 1 .. count - 1 :
       ItemAt(t[n].items[k], c, st[k], st[k + 1], w, dw, Held(t, n, objs, t[n].items[k]))

(* A tag has the position of its item, and the error tag that of another   *)
(* item.                                                                   *)
Tagging(items, c, tags, count, st) ==
  /\ \A k \in 1 .. count - 1 :
       items[k].type = "Tag" => items[k].data \in DOMAIN tags /\ tags[items[k].data] = st[k]
  /\ \A x \in DOMAIN tags \ {0} : \E k \in 1 .. count - 1 : items[k] = Item("Tag", x)
  /\ 0 \in DOMAIN tags => tags[0] \in Nat /\ tags[0] < Len(c) /\ c[tags[0] + 1] # Op("JUMPDEST")

(* More code behind the items leaves them where they are.                  *)
LEMMA LayoutExtended ==
  ASSUME NEW t, NEW n, NEW objs, NEW c, NEW e, Len(c) \in Nat, Len(e) \in Nat, Len(c) <= Len(e), Same(c, e, 0, Len(c)),
         NEW w, NEW dw, NEW count, NEW st, Layout(t, n, objs, c, w, dw, count, st)
  PROVE  /\ Layout(t, n, objs, e, w, dw, count, st)
         /\ \A from \in Nat : Same(c, e, from, Len(c))
         /\ \A k \in 1 .. count - 1 : Same(c, e, st[k], st[k + 1])
<1>1. Starting(st, count, c) /\ count \in Nat \ {0} /\ st[count] <= Len(c) /\ \A k \in 1 .. count : st[k] \in Nat
  BY DEF Layout, Starting
<1>2. \A k \in 1 .. count - 1 : st[k] \in Nat /\ st[k + 1] \in Nat /\ st[k + 1] <= Len(c)
  <2>1. \A k \in 1 .. count - 1 : k \in 1 .. count /\ k + 1 \in 1 .. count /\ k + 1 <= count /\ count \in 1 .. count
    BY <1>1
  <2>2. \A i, j \in 1 .. count : i <= j => st[i] <= st[j]
    BY <1>1, StartsGrow
  <2>3. \A k \in 1 .. count - 1 : st[k + 1] <= st[count]
    BY <2>1, <2>2
  <2> QED  BY <1>1, <2>1, <2>3
<1>3. \A from \in Nat : Same(c, e, from, Len(c))
  BY DEF Same
<1>4. \A k \in 1 .. count - 1 : Same(c, e, st[k], st[k + 1])
  BY <1>2 DEF Same
<1>5. ASSUME NEW k \in 1 .. count - 1
      PROVE  ItemAt(t[n].items[k], e, st[k], st[k + 1], w, dw, Held(t, n, objs, t[n].items[k]))
  <2>1. ItemAt(t[n].items[k], c, st[k], st[k + 1], w, dw, Held(t, n, objs, t[n].items[k]))
    BY DEF Layout
  <2> QED  BY <1>2, <1>4, <2>1, ItemAtSame
<1>6. Starting(st, count, e)
  BY <1>1 DEF Starting
<1> QED  BY <1>3, <1>4, <1>5, <1>6 DEF Layout

(* So does filling in references.                                          *)
LEMMA LayoutRefilled ==
  ASSUME NEW t, NEW n, NEW objs, NEW c, IsSeq(c), NEW w, NEW dw, NEW count, NEW st,
         Layout(t, n, objs, c, w, dw, count, st),
         NEW K, NEW bytes, Filling(t[n].items, st, count, K, bytes),
         NEW e, e = Patched(c, bytes)
  PROVE  Layout(t, n, objs, e, w, dw, count, st)
<1>1. Starting(st, count, c) /\ count \in Nat \ {0} /\ \A k \in 1 .. count : st[k] \in Nat
  BY DEF Layout, Starting
<1>2. /\ \A k \in 1 .. count - 1 : e[st[k] + 1] = c[st[k] + 1]
      /\ \A k \in (1 .. count - 1) \ K : Same(c, e, st[k], st[k + 1])
  BY <1>1, Refilled, SMTT(30)
<1>3. IsSeq(e) /\ Len(e) = Len(c)
  BY PatchedIsSeq
<1>4. ASSUME NEW k \in 1 .. count - 1
      PROVE  ItemAt(t[n].items[k], e, st[k], st[k + 1], w, dw, Held(t, n, objs, t[n].items[k]))
  <2>1. ItemAt(t[n].items[k], c, st[k], st[k + 1], w, dw, Held(t, n, objs, t[n].items[k]))
    BY DEF Layout
  <2>2. CASE k \in K
    BY <1>2, <2>1, <2>2, ItemAtFilled DEF Filling
  <2>3. CASE k \notin K
    <3>1. st[k] \in Nat /\ st[k + 1] \in Nat
      BY <1>1
    <3> QED  BY <1>2, <2>1, <2>3, <3>1, ItemAtSame
  <2> QED  BY <2>2, <2>3
<1>5. Starting(st, count, e)
  BY <1>1, <1>3 DEF Starting
<1> QED  BY <1>4, <1>5 DEF Layout

(* One item more.                                                          *)
LEMMA LayoutNext ==
  ASSUME NEW t, NEW n, NEW objs, NEW c, NEW e, Len(c) \in Nat, Len(e) \in Nat, Same(c, e, 0, Len(c)),
         NEW w, NEW dw, NEW count, NEW st, Layout(t, n, objs, c, w, dw, count, st), st[count] = Len(c),
         ItemAt(t[n].items[count], e, Len(c), Len(e), w, dw, Held(t, n, objs, t[n].items[count])),
         NEW new, new = [k \in 1 .. count + 1 |-> IF k = count + 1 THEN Len(e) ELSE st[k]]
  PROVE  Layout(t, n, objs, e, w, dw, count + 1, new)
<1>1. count \in Nat \ {0} /\ st \in [1 .. count -> Nat] /\ Len(c) < Len(e)
  BY DEF Layout, Starting, ItemAt
<1>2. Layout(t, n, objs, e, w, dw, count, st)
  BY <1>1, LayoutExtended
<1>3. /\ new \in [1 .. count + 1 -> Nat] /\ new[count + 1] = Len(e)
      /\ \A k \in 1 .. count : new[k] = st[k]
  BY <1>1
<1>4. \A k \in 1 .. (count + 1) - 1 : k = count \/ k \in 1 .. count - 1
  BY <1>1
<1>5. \A k \in 1 .. count - 1 : k \in 1 .. count /\ k + 1 \in 1 .. count
  BY <1>1
<1>6. 1 \in 1 .. count /\ count \in 1 .. count /\ count + 1 \in Nat \ {0}
  BY <1>1
<1>7. Starting(new, count + 1, e)
  <2>1. \A k \in 1 .. (count + 1) - 1 : new[k] < new[k + 1]
    <3>1. \A k \in 1 .. count - 1 : st[k] < st[k + 1]
      BY <1>2 DEF Layout, Starting
    <3>2. new[count] < new[count + 1]
      BY <1>1, <1>3, <1>6
    <3> QED  BY <1>3, <1>4, <1>5, <3>1, <3>2
  <2>2. new[1] = 0
    BY <1>2, <1>3, <1>6 DEF Layout, Starting
  <2>3. new[count + 1] <= Len(e)
    BY <1>3
  <2> HIDE <1>1, <1>2
  <2> QED  BY <1>3, <1>6, <2>1, <2>2, <2>3, Zenon DEF Starting
<1>8. ASSUME NEW k \in 1 .. (count + 1) - 1
      PROVE  ItemAt(t[n].items[k], e, new[k], new[k + 1], w, dw, Held(t, n, objs, t[n].items[k]))
  <2>1. CASE k = count
    BY <1>3, <1>6, <2>1
  <2>2. CASE k \in 1 .. count - 1
    <3>1. ItemAt(t[n].items[k], e, st[k], st[k + 1], w, dw, Held(t, n, objs, t[n].items[k]))
      BY <1>2, <2>2 DEF Layout
    <3> QED  BY <1>3, <1>5, <2>2, <3>1
  <2> QED  BY <1>4, <2>1, <2>2
<1> QED  BY <1>7, <1>8 DEF Layout

(* Filling in numbers makes no JUMPDEST.                                   *)
LEMMA TaggingKept ==
  ASSUME NEW items, NEW c, NEW e, Len(c) \in Nat, Len(e) \in Nat, Len(c) <= Len(e), NEW tags, NEW count, NEW st,
         Tagging(items, c, tags, count, st), \A i \in 1 .. Len(c) : c[i] # Op("JUMPDEST") => e[i] # Op("JUMPDEST")
  PROVE  Tagging(items, e, tags, count, st)
<1>1. 0 \in DOMAIN tags => tags[0] \in Nat /\ tags[0] < Len(e) /\ e[tags[0] + 1] # Op("JUMPDEST")
  <2> SUFFICES ASSUME 0 \in DOMAIN tags PROVE tags[0] \in Nat /\ tags[0] < Len(e) /\ e[tags[0] + 1] # Op("JUMPDEST")
    OBVIOUS
  <2>1. tags[0] \in Nat /\ tags[0] < Len(c) /\ c[tags[0] + 1] # Op("JUMPDEST")
    BY DEF Tagging
  <2>2. tags[0] + 1 \in 1 .. Len(c)
    BY <2>1
  <2> QED  BY <2>1, <2>2
<1> QED  BY <1>1 DEF Tagging

(* Cells that are none stay no JUMPDEST.                                   *)
LEMMA RefilledNoJumpdest ==
  ASSUME NEW c, IsSeq(c), NEW bytes,
         \A at \in DOMAIN bytes : \A i \in DOMAIN bytes[at] : bytes[at][i] # Op("JUMPDEST")
  PROVE  \A i \in 1 .. Len(c) : c[i] # Op("JUMPDEST") => Patched(c, bytes)[i] # Op("JUMPDEST")
<1>1. DOMAIN c = 1 .. Len(c)
  BY SeqIsFunction
<1> SUFFICES ASSUME NEW i \in 1 .. Len(c), c[i] # Op("JUMPDEST")
             PROVE  Patched(c, bytes)[i] # Op("JUMPDEST")
  OBVIOUS
<1> DEFINE Covers(at) == i - at \in DOMAIN bytes[at]
           at == CHOOSE at \in DOMAIN bytes : Covers(at)
<1>2. Patched(c, bytes)[i] = IF \E b \in DOMAIN bytes : Covers(b) THEN bytes[at][i - at] ELSE c[i]
  BY <1>1 DEF Patched
<1>3. (\E b \in DOMAIN bytes : Covers(b)) => at \in DOMAIN bytes /\ Covers(at)
  BY Zenon
<1> QED  BY <1>2, <1>3

(* Bytes of a number are no JUMPDEST.                                      *)
LEMMA BigEndianNoJumpdest == \A v, n : \A i \in DOMAIN BigEndian(v, n) : BigEndian(v, n)[i] # Op("JUMPDEST")
BY DEF BigEndian, Byte, Op

(* An item that is somewhere is there behind other code, too.              *)
LEMMA Shifted ==
  ASSUME NEW item, NEW c, IsSeq(c), NEW b, IsSeq(b), NEW w \in Nat, NEW dw \in Nat, NEW v,
         ItemAt(item, b, 0, Len(b), w, dw, v), NEW e, e = c \o b
  PROVE  ItemAt(item, e, Len(c), Len(e), w, dw, v)
<1>1. Len(c) \in Nat /\ Len(b) \in Nat /\ Len(e) = Len(c) + Len(b)
  BY SeqIsFunction, Joined
<1>2. \A i \in 1 .. Len(b) : e[Len(c) + i] = b[i]
  BY JoinedCells
<1>3. Len(b) >= 1
  BY <1>1 DEF ItemAt
<1>4. e[Len(c) + 1] = b[1] /\ e[Len(e)] = b[Len(b)]
  BY <1>1, <1>2, <1>3
<1>5. \A n \in Nat : Gap(b, 0, Len(b), n) => Gap(e, Len(c), Len(e), n)
  <2> SUFFICES ASSUME NEW n \in Nat, Gap(b, 0, Len(b), n)
               PROVE  Gap(e, Len(c), Len(e), n)
    OBVIOUS
  <2>1. Len(b) = 0 + 1 + n /\ b[0 + 1] = Push(n)
    BY DEF Gap
  <2>2. b[1] = Push(n)
    BY <2>1
  <2> QED  BY <1>1, <1>4, <2>1, <2>2 DEF Gap
<1>6. NumberAt(b, 0, Len(b), v) => NumberAt(e, Len(c), Len(e), v)
  <2> SUFFICES ASSUME NEW n \in Nat, v < Power[n], Gap(b, 0, Len(b), n), Bytes(b, 0, n, v)
               PROVE  NumberAt(e, Len(c), Len(e), v)
    BY DEF NumberAt
  <2>1. Len(b) = 1 + n
    BY DEF Gap
  <2>2. ASSUME NEW i \in 1 .. n
        PROVE  e[Len(c) + 1 + i] = BigEndian(v, n)[i]
    <3>1. 1 + i \in 1 .. Len(b) /\ Len(c) + 1 + i = Len(c) + (1 + i) /\ 0 + 1 + i = 1 + i
      BY <1>1, <2>1
    <3>2. b[0 + 1 + i] = BigEndian(v, n)[i]
      BY DEF Bytes
    <3> QED  BY <1>2, <3>1, <3>2
  <2> QED  BY <1>5, <2>2 DEF NumberAt, Bytes
<1>7. ASSUME item.type = "AssignImmutable"
      PROVE  e[Len(e)] = Op("POP") /\ \A f \in Len(c) + 1 .. Len(e) - 1 : e[f] \notin Marks
  <2>1. b[Len(b)] = Op("POP") /\ \A f \in 0 + 1 .. Len(b) - 1 : b[f] \notin Marks
    BY <1>7 DEF ItemAt
  <2>2. ASSUME NEW f \in Len(c) + 1 .. Len(e) - 1
        PROVE  e[f] \notin Marks
    <3>1. f - Len(c) \in 1 .. Len(b) /\ f - Len(c) \in 0 + 1 .. Len(b) - 1 /\ Len(c) + (f - Len(c)) = f
      BY <1>1
    <3> QED  BY <1>2, <2>1, <3>1
  <2> QED  BY <1>4, <2>1, <2>2
<1>12. ASSUME item.type = "AssignImmutable"
       PROVE  \A x \in v : x \in Nat /\ StoresTo(e, Len(c), Len(e), x)
  <2>1. \A x \in v : x \in Nat /\ StoresTo(b, 0, Len(b), x)
    BY <1>12 DEF ItemAt
  <2> QED  BY <1>1, <2>1, StoresShifted
<1>8. ASSUME Len(b) = 0 + 1
      PROVE  Len(e) = Len(c) + 1
  BY <1>1, <1>8
<1>9. /\ item.type = "Operation" => Len(b) = 0 + 1 /\ b[Len(b)] = Op(item.name)
      /\ item.type = "Tag" => Len(b) = 0 + 1 /\ b[Len(b)] = Op("JUMPDEST")
  BY DEF ItemAt
<1>10. Len(c) < Len(e)
  BY <1>1, <1>3
<1>11. /\ item.type = "Operation" => Len(e) = Len(c) + 1 /\ e[Len(e)] = Op(item.name)
       /\ item.type = "Tag" => Len(e) = Len(c) + 1 /\ e[Len(e)] = Op("JUMPDEST")
  BY <1>4, <1>8, <1>9, Zenon
<1> QED  BY <1>5, <1>6, <1>7, <1>10, <1>11, <1>12, BytesAssumption DEF ItemAt

(* The parts of what an item appends: a gap, a number, a placeholder.      *)
LEMMA GapCells ==
  ASSUME NEW n \in Nat, NEW bytes, IsSeq(bytes), Len(bytes) = n
  PROVE  LET b == <<Push(n)>> \o bytes
         IN  /\ IsSeq(b) /\ Len(b) = 1 + n /\ Gap(b, 0, Len(b), n)
             /\ \A i \in 1 .. n : b[1 + i] = bytes[i]
<1> DEFINE first == <<Push(n)>>
           b == first \o bytes
<1>1. IsSeq(first) /\ Len(first) = 1 /\ first[1] = Push(n)
  BY SingleIsSeq
<1> HIDE DEF first
<1>2. IsSeq(b) /\ Len(b) = 1 + n
  BY <1>1, Joined
<1>3. /\ \A i \in 1 .. Len(first) : (first \o bytes)[i] = first[i]
      /\ \A i \in 1 .. Len(bytes) : (first \o bytes)[Len(first) + i] = bytes[i]
  <2>1. IsSeq(first) /\ IsSeq(bytes)
    BY <1>1
  <2> QED  BY <2>1, JoinedCells
<1>4. b = first \o bytes
  OBVIOUS
<1> HIDE DEF b
<1>5. 1 \in 1 .. Len(first)
  BY <1>1
<1>6. b[1] = Push(n)
  BY <1>1, <1>3, <1>4, <1>5
<1>7. \A i \in 1 .. n : b[1 + i] = bytes[i]
  BY <1>1, <1>3, <1>4
<1>8. Gap(b, 0, Len(b), n)
  <2>1. Len(b) = 0 + 1 + n /\ 0 + 1 = 1
    BY <1>2
  <2> QED  BY <1>6, <2>1 DEF Gap
<1> QED  BY <1>2, <1>7, <1>8 DEF b, first

(* A push of a number, read as one.                                        *)
LEMMA NumberCells ==
  ASSUME NEW v \in Nat
  PROVE  NumberAt(Number(v), 0, Len(Number(v)), v) /\ Len(Number(v)) >= 1
<1> DEFINE m == NumberBytes(v)
           n == AtLeastOne(m)
           b == Number(v)
<1>1. m \in Nat /\ v < Power[m]
  BY NumberBytesSound
<1> HIDE DEF m
<1>2. n \in Nat /\ m <= n
  BY <1>1 DEF AtLeastOne
<1>3. b = <<Push(n)>> \o BigEndian(v, n)
  BY DEF Number, m
<1> HIDE DEF n, b
<1>4. v < Power[n]
  <2>1. Power[m] <= Power[n] /\ Power[m] \in Nat /\ Power[n] \in Nat
    BY <1>1, <1>2, PowerMonotone, PowerBound
  <2> QED  BY <1>1, <2>1
<1>5. IsSeq(BigEndian(v, n)) /\ Len(BigEndian(v, n)) = n
  BY <1>2, BigEndianIsSeq
<1>6. /\ Len(b) = 1 + n /\ Gap(b, 0, Len(b), n)
      /\ \A i \in 1 .. n : b[1 + i] = BigEndian(v, n)[i]
  BY <1>2, <1>3, <1>5, GapCells
<1>7. Bytes(b, 0, n, v)
  BY <1>6 DEF Bytes
<1> QED  BY <1>2, <1>4, <1>6, <1>7 DEF NumberAt, b

(* A push that is filled in later, read as one.                            *)
LEMMA PlaceholderCells ==
  ASSUME NEW n \in Nat
  PROVE  Gap(Placeholder(n), 0, Len(Placeholder(n)), n) /\ Len(Placeholder(n)) >= 1
<1> DEFINE zeros == Zeros(n)
<1>1. IsSeq(zeros) /\ Len(zeros) = n
  <2>1. zeros = [i \in 1 .. n |-> zeros[i]]
    BY DEF Zeros
  <2> HIDE DEF zeros
  <2> QED  BY <2>1, FunctionIsSeq
<1>2. Placeholder(n) = <<Push(n)>> \o zeros
  BY DEF Placeholder
<1> HIDE DEF zeros
<1> QED  BY <1>1, <1>2, GapCells

(* What an item appends is the item.                                       *)
LEMMA BytecodeAt ==
  ASSUME ObjectsInv, here \in DOMAIN tree, WidthsInv, NEW item \in Range(current.items),
         \A i \in DOMAIN unassigned : i \in DOMAIN ImmutablesOf(Subs) /\ unassigned[i] = ImmutablesOf(Subs)[i],
         item.type = "AssignImmutable"
           => PlacesOf(tree, here, objects, item.name) \subseteq Range(Occurrences(unassigned, item.name))
  PROVE  /\ IsSeq(Bytecode(item))
         /\ ItemAt(item, Bytecode(item), 0, Len(Bytecode(item)), width, dataWidth, Held(tree, here, objects, item))
<1> DEFINE b == Bytecode(item)
           v == Held(tree, here, objects, item)
           At == ItemAt(item, b, 0, Len(b), width, dataWidth, v)
<1>1. width \in Nat /\ dataWidth \in Nat
  BY Estimated
<1>2. /\ item.type \in ItemTypes
      /\ item.type = "Push" => item.data \in Nat
      /\ item.type = "PushSubSize" => item.data \in 1 .. Len(current.subs) + Len(current.paths)
  BY CurrentSound DEF IsAssembly, current, Range
<1>3. WordBytes \in Nat /\ AddressBytes \in Nat
  BY BytesAssumption
<1>4. IsSeq(b)
  BY BytecodeSound DEF Range
<1>5. Len(b) \in Nat
  BY <1>4, SeqIsFunction
<1>6. ASSUME item.type = "Operation" PROVE At
  <2>1. b = <<Op(item.name)>>
    BY <1>6 DEF Bytecode
  <2>2. Len(b) = 1 /\ b[1] = Op(item.name)
    BY <2>1
  <2> QED  BY <1>4, <1>6, <2>2 DEF ItemAt
<1>7. ASSUME item.type = "Tag" PROVE At
  <2>1. b = <<Op("JUMPDEST")>>
    BY <1>7 DEF Bytecode
  <2>2. Len(b) = 1 /\ b[1] = Op("JUMPDEST")
    BY <2>1
  <2> QED  BY <1>4, <1>7, <2>2 DEF ItemAt
<1>8. ASSUME item.type = "Push" PROVE At
  <2>1. b = Number(item.data) /\ v = item.data
    BY <1>8 DEF Bytecode, Held
  <2>2. NumberAt(b, 0, Len(b), v) /\ Len(b) >= 1
    BY <1>2, <1>8, <2>1, NumberCells
  <2> HIDE DEF b, v
  <2> QED  BY <1>4, <1>5, <1>8, <2>2 DEF ItemAt
<1>9. ASSUME item.type = "PushSubSize" PROVE At
  <2>1. v = Len(SubObject(item.data).code) /\ b = Number(v)
    BY <1>9, SubOfTree DEF Bytecode, Held, SubObject
  <2>2. v \in Nat
    <3>1. subAssemblyById(here, item.data) \in 1 .. Len(objects)
      BY <1>2, <1>9, SubFound
    <3> HIDE DEF v
    <3> QED  BY <2>1, <3>1, SeqIsFunction DEF SubObject, ObjectsInv, IsObject
  <2>3. NumberAt(b, 0, Len(b), v) /\ Len(b) >= 1
    BY <2>1, <2>2, NumberCells
  <2> HIDE DEF b, v
  <2> QED  BY <1>4, <1>5, <1>9, <2>3 DEF ItemAt
<1>10. ASSUME item.type = "PushTag" PROVE At
  <2>1. b = Placeholder(width)
    BY <1>10 DEF Bytecode
  <2>2. Gap(b, 0, Len(b), width) /\ Len(b) >= 1
    BY <1>1, <2>1, PlaceholderCells
  <2> HIDE DEF b, v
  <2> QED  BY <1>4, <1>5, <1>10, <2>2 DEF ItemAt
<1>11. ASSUME item.type \in {"PushData", "PushSub", "PushProgramSize"} PROVE At
  <2>1. b = Placeholder(dataWidth)
    BY <1>11 DEF Bytecode
  <2>2. Gap(b, 0, Len(b), dataWidth) /\ Len(b) >= 1
    BY <1>1, <2>1, PlaceholderCells
  <2> HIDE DEF b, v
  <2> QED  BY <1>4, <1>5, <1>11, <2>2 DEF ItemAt
<1>12. ASSUME item.type = "PushString" PROVE At
  <2> DEFINE text == [i \in 1 .. WordBytes |-> <<"string", item.name, i>>]
  <2>1. b = <<Push(WordBytes)>> \o text
    BY <1>12 DEF Bytecode
  <2>2. IsSeq(text) /\ Len(text) = WordBytes
    <3>1. text = [i \in 1 .. WordBytes |-> text[i]]
      OBVIOUS
    <3> HIDE DEF text
    <3> QED  BY <1>3, <3>1, FunctionIsSeq
  <2> HIDE DEF text, b, v
  <2>3. Gap(b, 0, Len(b), WordBytes) /\ Len(b) = 1 + WordBytes
    BY <1>3, <2>1, <2>2, GapCells
  <2> QED  BY <1>3, <1>4, <1>12, <2>3 DEF ItemAt
<1>13. ASSUME item.type = "PushImmutable" PROVE At
  <2>1. b = Placeholder(WordBytes)
    BY <1>13 DEF Bytecode
  <2>2. Gap(b, 0, Len(b), WordBytes) /\ Len(b) >= 1
    BY <1>3, <2>1, PlaceholderCells
  <2> HIDE DEF b, v
  <2> QED  BY <1>4, <1>5, <1>13, <2>2 DEF ItemAt
<1>14. ASSUME item.type \in {"PushLibraryAddress", "PushDeployTimeAddress"} PROVE At
  <2>1. b = Placeholder(AddressBytes)
    BY <1>14 DEF Bytecode
  <2>2. Gap(b, 0, Len(b), AddressBytes) /\ Len(b) >= 1
    BY <1>3, <2>1, PlaceholderCells
  <2> HIDE DEF b, v
  <2> QED  BY <1>4, <1>5, <1>14, <2>2 DEF ItemAt
<1>15. ASSUME item.type = "AssignImmutable" PROVE At
  <2> DEFINE places == Occurrences(unassigned, item.name)
  <2>1. b = Assigned(places)
    BY <1>15 DEF Bytecode
  <2>2. places \in Seq(Nat)
    BY CurrentSound, ImmutablesSound DEF Occurrences, IsFound
  <2>3. v \subseteq Range(places)
    BY <1>15 DEF Held
  <2> HIDE DEF places, b, v
  <2>4. /\ Len(b) >= 1 /\ b[Len(b)] = Op("POP") /\ \A i \in 1 .. Len(b) - 1 : b[i] \notin Marks
        /\ \A j \in 1 .. Len(places) : StoresTo(b, 0, Len(b), places[j])
    BY <2>1, <2>2, AssignedEnds
  <2>5. \A x \in v : x \in Nat /\ StoresTo(b, 0, Len(b), x)
    <3>1. DOMAIN places = 1 .. Len(places) /\ \A j \in 1 .. Len(places) : places[j] \in Nat
      BY <2>2, Terms
    <3> QED  BY <2>3, <2>4, <3>1 DEF Range
  <2> QED  BY <1>4, <1>5, <1>15, <2>4, <2>5 DEF ItemAt
<1> QED  BY <1>2, <1>4, <1>6, <1>7, <1>8, <1>9, <1>10, <1>11, <1>12, <1>13, <1>14, <1>15 DEF ItemTypes

-----------------------------------------------------------------------------
(* References and what they hold when they are filled in                   *)

Of(items, count, type) == {k \in 1 .. count - 1 : items[k].type = type}

TagsOf(t, n, objs, tags, sub) == IF sub = 0 THEN tags ELSE objs[t[n].subs[sub]].tagPos

Piece(t, n, d) == [i \in 1 .. t[n].data[d] |-> <<"data", n, d, i>>]

Target(t, n, objs, item) ==
  IF item.type = "PushData" THEN Piece(t, n, item.data) ELSE objs[SubOf(t, n, item.data)].code

TagHeld(c, at, w, tags, x) ==
  x \in DOMAIN tags /\ tags[x] \in Nat /\ tags[x] < Power[w] /\ Bytes(c, at, w, tags[x])

(* Of item k: the position of its tag, of the cells it stands for (behind  *)
(* the items) and of the end of the program are filled in.                 *)
Tagged(t, n, objs, c, tags, w, st, k) ==
  TagHeld(c, st[k], w, TagsOf(t, n, objs, tags, t[n].items[k].sub), t[n].items[k].data)
Points(t, n, objs, c, dw, count, st, k) ==
  PointedAt(c, st[k], dw, Target(t, n, objs, t[n].items[k]), st[count])
Sized(c, dw, st, k) == Bytes(c, st[k], dw, Len(c))

TagRef(item, at) == [at |-> at + 1, sub |-> item.sub, tag |-> item.data]
IdRef(item, at)  == [at |-> at + 1, id |-> item.data]

SubRefs(items, count, st) == {IdRef(items[k], st[k]) : k \in Of(items, count, "PushSub")}

(* The references to be filled in are those of the items.                  *)
References(items, count, st, r) ==
  /\ r.tag = {TagRef(items[k], st[k]) : k \in Of(items, count, "PushTag")}
  /\ r.data = {IdRef(items[k], st[k]) : k \in Of(items, count, "PushData")}
  /\ r.size = {st[k] + 1 : k \in Of(items, count, "PushProgramSize")}
  /\ r.sub \subseteq SubRefs(items, count, st)

(* The places of immutables are behind the pushes that read them.          *)
Recorded(items, count, st, imm) ==
  \A k \in Of(items, count, "PushImmutable") :
    items[k].name \in DOMAIN imm /\ st[k] + 1 \in Range(imm[items[k].name])

(* No two subs read immutables, and those one of them reads are assigned.  *)
OneReads(t, n, objs) ==
  LET reading == WithImmutables(SubObjects(t[n], objs))
  IN  \A i, j \in reading : i = j

AllAssigned(t, n, objs) == \A x \in DOMAIN Read(t, n, objs) : Assigners(t[n].items, x) # {}

(* Cells that do not change when the references of the items K are filled  *)
(* in.                                                                     *)
Kept(st, count, K, c, e) ==
  /\ Len(c) \in Nat /\ Len(e) \in Nat /\ Len(c) <= Len(e)
  /\ Same(c, e, st[count], Len(c))
  /\ \A k \in (1 .. count - 1) \ K : Same(c, e, st[k], st[k + 1])

(* e is c, in which the items are, with more code behind.                  *)
IsExtended(t, n, objs, c, tags, w, dw, count, st, more, e) ==
  /\ Layout(t, n, objs, e, w, dw, count, st) /\ Tagging(t[n].items, e, tags, count, st)
  /\ Kept(st, count, {}, c, e)
  /\ IsSeq(e) /\ Len(e) = Len(c) + Len(more)
  /\ \A i \in 1 .. Len(c) : e[i] = c[i]
  /\ \A i \in 1 .. Len(more) : e[Len(c) + i] = more[i]

(* e is c with bytes filled in.                                            *)
IsRewritten(t, n, objs, c, tags, w, dw, count, st, K, bytes, e) ==
  /\ Layout(t, n, objs, e, w, dw, count, st) /\ Tagging(t[n].items, e, tags, count, st)
  /\ Kept(st, count, K, c, e)
  /\ IsSeq(e) /\ Len(e) = Len(c)
  /\ \A k \in K : \A i \in 1 .. (st[k + 1] - st[k]) - 1 : e[st[k] + 1 + i] = bytes[st[k] + 1][i]

(* What more code behind the items keeps.                                  *)
LEMMA Extended ==
  ASSUME NEW t, NEW n, NEW objs, NEW c, IsSeq(c), NEW tags, NEW w, NEW dw, NEW count, NEW st,
         Layout(t, n, objs, c, w, dw, count, st), Tagging(t[n].items, c, tags, count, st),
         NEW more, IsSeq(more)
  PROVE  IsExtended(t, n, objs, c, tags, w, dw, count, st, more, c \o more)
<1> DEFINE e == c \o more
<1>1. /\ IsSeq(e) /\ Len(e) = Len(c) + Len(more)
      /\ \A i \in 1 .. Len(c) : e[i] = c[i]
      /\ \A i \in 1 .. Len(more) : e[Len(c) + i] = more[i]
  BY Joined, JoinedCells
<1> HIDE DEF e
<1>2. Len(c) \in Nat /\ Len(more) \in Nat /\ Len(e) \in Nat /\ Len(c) <= Len(e)
  BY <1>1, SeqIsFunction
<1>3. Same(c, e, 0, Len(c))
  BY <1>1 DEF Same
<1>4. /\ Layout(t, n, objs, e, w, dw, count, st)
      /\ \A from \in Nat : Same(c, e, from, Len(c))
      /\ \A k \in 1 .. count - 1 : Same(c, e, st[k], st[k + 1])
  BY <1>2, <1>3, LayoutExtended
<1>5. Tagging(t[n].items, e, tags, count, st)
  BY <1>1, <1>2, TaggingKept
<1>6. st[count] \in Nat
  BY DEF Layout, Starting
<1> QED  BY <1>1, <1>2, <1>4, <1>5, <1>6 DEF Kept, IsExtended, e

(* What filling in references keeps.                                       *)
LEMMA Rewritten ==
  ASSUME NEW t, NEW n, NEW objs, NEW c, IsSeq(c), NEW tags, NEW w, NEW dw, NEW count, NEW st,
         Layout(t, n, objs, c, w, dw, count, st), Tagging(t[n].items, c, tags, count, st),
         NEW K, NEW bytes, Filling(t[n].items, st, count, K, bytes)
  PROVE  IsRewritten(t, n, objs, c, tags, w, dw, count, st, K, bytes, Patched(c, bytes))
<1> DEFINE e == Patched(c, bytes)
<1>1. IsSeq(e) /\ Len(e) = Len(c) /\ Len(c) \in Nat
  BY PatchedIsSeq, SeqIsFunction
<1>2. \A i \in 1 .. Len(c) : c[i] # Op("JUMPDEST") => e[i] # Op("JUMPDEST")
  BY RefilledNoJumpdest DEF Filling
<1>3. Starting(st, count, c)
  BY DEF Layout
<1>4. /\ Same(c, e, st[count], Len(c))
      /\ \A k \in (1 .. count - 1) \ K : Same(c, e, st[k], st[k + 1])
      /\ \A k \in K : \A i \in 1 .. (st[k + 1] - st[k]) - 1 : e[st[k] + 1 + i] = bytes[st[k] + 1][i]
  BY <1>3, Refilled
<1>5. Layout(t, n, objs, e, w, dw, count, st)
  BY LayoutRefilled
<1> HIDE DEF e
<1>6. Tagging(t[n].items, e, tags, count, st)
  <2>1. Len(e) \in Nat /\ Len(c) <= Len(e)
    BY <1>1
  <2> QED  BY <1>1, <1>2, <2>1, TaggingKept
<1> QED  BY <1>1, <1>4, <1>5, <1>6 DEF Kept, IsRewritten, e

(* Both: filled in, with more code behind.                                 *)
LEMMA KeptTwice ==
  ASSUME NEW st, NEW count, NEW K, NEW c, NEW p, NEW e, Kept(st, count, K, c, p), Kept(st, count, {}, p, e),
         st[count] \in Nat
  PROVE  Kept(st, count, K, c, e)
<1>1. Len(c) \in Nat /\ Len(p) \in Nat /\ Len(e) \in Nat /\ Len(c) <= Len(p) /\ Len(p) <= Len(e)
  BY DEF Kept
<1>2. Same(c, e, st[count], Len(c))
  <2>1. \A i \in st[count] + 1 .. Len(c) : i \in st[count] + 1 .. Len(p)
    BY <1>1
  <2> QED  BY <2>1 DEF Kept, Same
<1>3. \A j \in (1 .. count - 1) \ K : Same(c, e, st[j], st[j + 1])
  BY DEF Kept, Same
<1> QED  BY <1>1, <1>2, <1>3 DEF Kept

(* What is filled in stays where nothing else is.                          *)
LEMMA TaggedKept ==
  ASSUME NEW t, NEW n, NEW objs, NEW c, NEW e, NEW tags, NEW w \in Nat, NEW dw \in Nat, NEW count, NEW st,
         Layout(t, n, objs, c, w, dw, count, st), NEW K, Kept(st, count, K, c, e),
         NEW k \in Of(t[n].items, count, "PushTag"), k \notin K, Tagged(t, n, objs, c, tags, w, st, k)
  PROVE  Tagged(t, n, objs, e, tags, w, st, k)
<1>1. k \in 1 .. count - 1 /\ t[n].items[k].type = "PushTag"
  BY DEF Of
<1>2. Same(c, e, st[k], st[k + 1])
  BY <1>1 DEF Kept
<1>3. st[k] \in Nat /\ st[k + 1] = st[k] + 1 + w
  <2>1. Gap(c, st[k], st[k + 1], w)
    BY <1>1 DEF Layout, ItemAt
  <2>2. k \in 1 .. count /\ Starting(st, count, c)
    BY <1>1 DEF Layout, Starting
  <2> QED  BY <2>1, <2>2 DEF Gap, Starting
<1>4. Same(c, e, st[k], st[k] + 1 + w)
  BY <1>2, <1>3
<1>5. \A v : Bytes(c, st[k], w, v) => Bytes(e, st[k], w, v)
  BY <1>3, <1>4, BytesSame
<1> QED  BY <1>5 DEF Tagged, TagHeld

(* A reference keeps pointing to its cells when its own bytes are kept.    *)
LEMMA PointsKept ==
  ASSUME NEW t, NEW n, NEW objs, NEW c, NEW e, NEW w \in Nat, NEW dw \in Nat, NEW count, NEW st,
         Layout(t, n, objs, c, w, dw, count, st), NEW K, Kept(st, count, K, c, e),
         NEW k \in 1 .. count - 1, k \notin K, t[n].items[k].type \in {"PushData", "PushSub"},
         IsSeq(Target(t, n, objs, t[n].items[k])), Points(t, n, objs, c, dw, count, st, k)
  PROVE  Points(t, n, objs, e, dw, count, st, k)
<1> DEFINE cells == Target(t, n, objs, t[n].items[k])
<1>1. Len(cells) \in Nat
  BY SeqIsFunction
<1>2. Same(c, e, st[k], st[k + 1]) /\ Same(c, e, st[count], Len(c))
  BY DEF Kept
<1>3. st[k] \in Nat /\ st[k + 1] = st[k] + 1 + dw /\ st[count] \in Nat
  <2>1. Gap(c, st[k], st[k + 1], dw)
    BY DEF Layout, ItemAt
  <2>2. st[k] \in Nat /\ st[count] \in Nat
    BY DEF Layout, Starting
  <2> QED  BY <2>1, <2>2 DEF Gap
<1>4. Same(c, e, st[k], st[k] + 1 + dw)
  BY <1>2, <1>3
<1>5. PointedAt(c, st[k], dw, cells, st[count])
  BY DEF Points
<1> HIDE DEF cells
<1>6. Len(c) \in Nat /\ Len(e) \in Nat /\ Len(c) <= Len(e)
  BY DEF Kept
<1>7. PointedAt(e, st[k], dw, cells, st[count])
  BY <1>1, <1>2, <1>3, <1>4, <1>5, <1>6, PointedAtSame
<1> QED  BY <1>7 DEF Points, cells

-----------------------------------------------------------------------------
(* Link references                                                         *)

(* Link references as pairs of an offset and a library, and those of the   *)
(* items of an assembly.                                                   *)
Listed(lk) == {<<at, lk[at]>> : at \in DOMAIN lk}

LibraryRefs(items, count, st) == {<<st[k] + 1, items[k].name>> : k \in Of(items, count, "PushLibraryAddress")}

SubLinks(t, n, objs, item) == Listed(objs[SubOf(t, n, item.data)].links)

Moved(pairs, by) == {<<by + p[1], p[2]>> : p \in pairs}

(* There is room for an address behind each of them.                       *)
Spread(lk, len) ==
  \A at \in DOMAIN lk :
    /\ at \in Nat /\ at + AddressBytes <= len
    /\ \A other \in DOMAIN lk : at < other => at + AddressBytes <= other

(* They are those of the items and of the subs that the items K appended,  *)
(* at pos.                                                                 *)
Positioned(c, dw, st, K, pos) == \A k \in K : pos[k] \in 0 .. Len(c) /\ Bytes(c, st[k], dw, pos[k])

Collected(t, n, objs, count, st, lk, K, pos) ==
  Listed(lk) = LibraryRefs(t[n].items, count, st)
                 \cup UNION {Moved(SubLinks(t, n, objs, t[n].items[k]), pos[k]) : k \in K}

Linking(t, n, objs, c, dw, count, st, lk, K) ==
  /\ Spread(lk, Len(c))
  /\ \E pos : Positioned(c, dw, st, K, pos) /\ Collected(t, n, objs, count, st, lk, K, pos)

(* Link references stay when nothing they depend on changes.               *)
LEMMA LinkingKept ==
  ASSUME NEW t, NEW n, NEW objs, NEW c, NEW e, NEW w \in Nat, NEW dw \in Nat, NEW count, NEW st,
         Layout(t, n, objs, c, w, dw, count, st), NEW L, Kept(st, count, L, c, e),
         NEW K, K \subseteq Of(t[n].items, count, "PushSub"), \A k \in K : k \notin L,
         NEW lk, Linking(t, n, objs, c, dw, count, st, lk, K)
  PROVE  Linking(t, n, objs, e, dw, count, st, lk, K)
<1>1. Len(c) \in Nat /\ Len(e) \in Nat /\ Len(c) <= Len(e)
  BY DEF Kept
<1>2. Spread(lk, Len(e))
  <2>1. \A at \in Nat : at + AddressBytes <= Len(c) => at + AddressBytes <= Len(e)
    BY <1>1, BytesAssumption
  <2> QED  BY <2>1 DEF Linking, Spread
<1>3. PICK pos : Positioned(c, dw, st, K, pos) /\ Collected(t, n, objs, count, st, lk, K, pos)
  BY DEF Linking
<1>4. ASSUME NEW k \in K
      PROVE  pos[k] \in 0 .. Len(e) /\ Bytes(e, st[k], dw, pos[k])
  <2>1. k \in 1 .. count - 1 /\ t[n].items[k].type = "PushSub"
    BY DEF Of
  <2>2. Same(c, e, st[k], st[k + 1])
    BY <1>4, <2>1 DEF Kept
  <2>3. st[k] \in Nat /\ st[k + 1] = st[k] + 1 + dw
    <3>1. Gap(c, st[k], st[k + 1], dw)
      BY <2>1 DEF Layout, ItemAt
    <3>2. k \in 1 .. count /\ Starting(st, count, c)
      BY <2>1 DEF Layout, Starting
    <3> QED  BY <3>1, <3>2 DEF Gap, Starting
  <2>4. pos[k] \in 0 .. Len(c) /\ Bytes(c, st[k], dw, pos[k])
    BY <1>3 DEF Positioned
  <2>5. Same(c, e, st[k], st[k] + 1 + dw)
    BY <2>2, <2>3
  <2> QED  BY <1>1, <2>3, <2>4, <2>5, BytesSame
<1>5. Positioned(e, dw, st, K, pos)
  BY <1>4 DEF Positioned
<1> QED  BY <1>2, <1>3, <1>5 DEF Linking

(* Where the link references of a sub go that is appended.                 *)
MovedLinks(lk, more, by) ==
  [at \in DOMAIN lk \cup {by + l : l \in DOMAIN more} |-> IF at \in DOMAIN lk THEN lk[at] ELSE more[at - by]]

(* Link references of code that is appended (LinkerObject::append).        *)
LEMMA LinksMoved ==
  ASSUME NEW lk, NEW more, NEW by \in Nat, NEW len \in Nat, Spread(lk, by), Spread(more, len),
         NEW end, end = by + len
  PROVE  /\ Spread(MovedLinks(lk, more, by), end)
         /\ Listed(MovedLinks(lk, more, by)) = Listed(lk) \cup Moved(Listed(more), by)
<1> DEFINE both == MovedLinks(lk, more, by)
           A == DOMAIN lk
           B == {by + l : l \in DOMAIN more}
<1>1. AddressBytes \in Nat \ {0}
  BY BytesAssumption
<1>2. \A x \in A : x \in Nat /\ x + AddressBytes <= by
  BY DEF Spread
<1>3. \A l \in DOMAIN more : l \in Nat /\ l + AddressBytes <= len
  BY DEF Spread
<1>4. \A x \in B : x \in Nat /\ by <= x /\ x + AddressBytes <= end
  BY <1>1, <1>3
<1>5. \A x \in A : \A y \in B : x + AddressBytes <= y /\ ~ (y < x) /\ x # y
  BY <1>1, <1>2, <1>4
<1>6. DOMAIN both = A \cup B /\ \A x \in A : both[x] = lk[x]
  BY DEF MovedLinks
<1>7. \A l \in DOMAIN more : by + l \in B /\ both[by + l] = more[l]
  <2> SUFFICES ASSUME NEW l \in DOMAIN more PROVE by + l \in B /\ both[by + l] = more[l]
    OBVIOUS
  <2>1. by + l \in B /\ by + l \notin A
    BY <1>5
  <2>2. both[by + l] = more[(by + l) - by]
    BY <2>1 DEF MovedLinks
  <2>3. (by + l) - by = l
    BY <1>3
  <2> QED  BY <2>1, <2>2, <2>3
<1>8. Spread(both, end)
  <2> SUFFICES ASSUME NEW x \in DOMAIN both
               PROVE  /\ x \in Nat /\ x + AddressBytes <= end
                      /\ \A y \in DOMAIN both : x < y => x + AddressBytes <= y
    BY DEF Spread
  <2>1. CASE x \in A
    <3>1. \A y \in A : x < y => x + AddressBytes <= y
      BY <2>1 DEF Spread
    <3>2. x \in Nat /\ x + AddressBytes <= end
      BY <1>1, <1>2, <2>1
    <3> HIDE DEF both, A, B
    <3> QED  BY <1>5, <1>6, <2>1, <3>1, <3>2
  <2>2. CASE x \in B
    <3>1. ASSUME NEW y \in B, x < y
          PROVE  x + AddressBytes <= y
      <4>1. PICK l \in DOMAIN more : x = by + l
        BY <2>2
      <4>2. PICK m \in DOMAIN more : y = by + m
        OBVIOUS
      <4>3. l < m /\ l \in Nat /\ m \in Nat
        BY <1>3, <3>1, <4>1, <4>2
      <4>4. l + AddressBytes <= m
        BY <4>3 DEF Spread
      <4> QED  BY <1>1, <4>1, <4>2, <4>3, <4>4
    <3> HIDE DEF both, A, B
    <3> QED  BY <1>4, <1>5, <1>6, <2>2, <3>1
  <2> HIDE DEF both, A, B
  <2> QED  BY <1>6, <2>1, <2>2
<1>9. Listed(both) = Listed(lk) \cup Moved(Listed(more), by)
  <2>1. Moved(Listed(more), by) = {<<by + l, more[l]>> : l \in DOMAIN more}
    <3> DEFINE shifted(p) == <<by + p[1], p[2]>>
    <3>1. \A l \in DOMAIN more : shifted(<<l, more[l]>>) = <<by + l, more[l]>>
      OBVIOUS
    <3>2. Moved(Listed(more), by) = {shifted(p) : p \in {<<l, more[l]>> : l \in DOMAIN more}}
      BY DEF Moved, Listed
    <3> HIDE DEF shifted
    <3>3. {shifted(p) : p \in {<<l, more[l]>> : l \in DOMAIN more}} = {shifted(<<l, more[l]>>) : l \in DOMAIN more}
      OBVIOUS
    <3> QED  BY <3>1, <3>2, <3>3
  <2>2. {<<x, both[x]>> : x \in B} = {<<by + l, more[l]>> : l \in DOMAIN more}
    BY <1>7
  <2>3. {<<x, both[x]>> : x \in A} = {<<x, lk[x]>> : x \in A}
    BY <1>6
  <2> HIDE DEF both, B
  <2>4. {<<x, both[x]>> : x \in A \cup B} = {<<x, both[x]>> : x \in A} \cup {<<x, both[x]>> : x \in B}
    OBVIOUS
  <2> QED  BY <1>6, <2>1, <2>2, <2>3, <2>4 DEF Listed
<1> QED  BY <1>8, <1>9

(* A number that is no larger.                                             *)
LEMMA UpTo ==
  ASSUME NEW a \in Nat, NEW b \in Nat, a <= b
  PROVE  a \in 0 .. b
  OBVIOUS

(* A sub that is appended brings its link references.                      *)
LEMMA LinkingSub ==
  ASSUME NEW t, NEW n, NEW objs, NEW c, NEW e, NEW w \in Nat, NEW dw \in Nat, NEW count, NEW st,
         Layout(t, n, objs, c, w, dw, count, st),
         NEW j \in Of(t[n].items, count, "PushSub"), Kept(st, count, {j}, c, e), Bytes(e, st[j], dw, Len(c)),
         NEW K, K \subseteq Of(t[n].items, count, "PushSub"), j \notin K,
         NEW lk, Linking(t, n, objs, c, dw, count, st, lk, K),
         NEW o, o = objs[SubOf(t, n, t[n].items[j].data)], Spread(o.links, Len(o.code)), Len(o.code) \in Nat,
         Len(e) = Len(c) + Len(o.code)
  PROVE  Linking(t, n, objs, e, dw, count, st, MovedLinks(lk, o.links, Len(c)), K \cup {j})
<1> DEFINE both == MovedLinks(lk, o.links, Len(c))
           those == K \cup {j}
<1>1. Len(c) \in Nat /\ Len(e) \in Nat /\ Len(c) <= Len(e)
  BY DEF Kept
<1>2. Linking(t, n, objs, e, dw, count, st, lk, K)
  <2>1. PICK L : L = {j}
    OBVIOUS
  <2>2. Kept(st, count, L, c, e) /\ \A k \in K : k \notin L
    BY <2>1
  <2> QED  BY <2>2, LinkingKept
<1>3. PICK pos : Positioned(e, dw, st, K, pos) /\ Collected(t, n, objs, count, st, lk, K, pos)
  BY <1>2 DEF Linking
<1>4. Spread(lk, Len(c))
  BY DEF Linking
<1>5. Spread(both, Len(e)) /\ Listed(both) = Listed(lk) \cup Moved(Listed(o.links), Len(c))
  <2> DEFINE by == Len(c)
             len == Len(o.code)
  <2>1. by \in Nat /\ len \in Nat /\ Spread(lk, by) /\ Spread(o.links, len) /\ Len(e) = by + len
    BY <1>1, <1>4
  <2> HIDE DEF by, len
  <2>2. PICK more, end : more = o.links /\ end = Len(e)
    OBVIOUS
  <2>3. by \in Nat /\ len \in Nat /\ Spread(lk, by) /\ Spread(more, len) /\ end = by + len
    BY <2>1, <2>2
  <2>4. /\ Spread(MovedLinks(lk, more, by), end)
        /\ Listed(MovedLinks(lk, more, by)) = Listed(lk) \cup Moved(Listed(more), by)
    BY <2>3, LinksMoved, ZenonT(60)
  <2> QED  BY <2>2, <2>4 DEF by
<1>6. PICK new : new = [k \in those |-> IF k = j THEN Len(c) ELSE pos[k]]
  OBVIOUS
<1>7. new[j] = Len(c) /\ \A k \in K : new[k] = pos[k]
  BY <1>6
<1> HIDE DEF both
<1>8. Positioned(e, dw, st, those, new)
  <2>1. Len(c) \in 0 .. Len(e)
    BY <1>1, UpTo, Zenon
  <2> QED  BY <1>3, <1>7, <2>1 DEF Positioned
<1>9. Collected(t, n, objs, count, st, both, those, new)
  <2> DEFINE cells(k, p) == Moved(SubLinks(t, n, objs, t[n].items[k]), p)
             own == LibraryRefs(t[n].items, count, st)
             before == {cells(k, pos[k]) : k \in K}
             mine == cells(j, new[j])
  <2>1. mine = Moved(Listed(o.links), Len(c))
    BY <1>7 DEF SubLinks
  <2>2. \A k \in K : cells(k, new[k]) = cells(k, pos[k])
    BY <1>7
  <2>3. Listed(lk) = own \cup UNION before
    BY <1>3 DEF Collected
  <2> HIDE DEF cells
  <2>4. {cells(k, new[k]) : k \in those} = before \cup {mine}
    BY <2>2
  <2> HIDE DEF before, mine, own
  <2>5. UNION (before \cup {mine}) = (UNION before) \cup mine
    OBVIOUS
  <2>6. Listed(both) = own \cup UNION (before \cup {mine})
    BY <1>5, <2>1, <2>3, <2>5
  <2>7. Listed(both) = own \cup UNION {cells(k, new[k]) : k \in those}
    BY <2>4, <2>6
  <2> QED  BY <2>7 DEF Collected, cells, own
<1>10. Linking(t, n, objs, e, dw, count, st, both, those)
  BY <1>5, <1>8, <1>9 DEF Linking
<1> QED  BY <1>10 DEF both

-----------------------------------------------------------------------------
(* What is right at every moment.  "st" has the offsets where items start. *)

All == Len(current.items) + 1

Reading(count, st) == Recorded(current.items, count, st, immutables) /\ OneReads(tree, here, objects)

Written(count, st) ==
  /\ Layout(tree, here, objects, code, width, dataWidth, count, st)
  /\ Tagging(current.items, code, tagPos, count, st)
  /\ References(current.items, count, st, refs)
  /\ Reading(count, st)

PointsNow(st, k) == Points(tree, here, objects, code, dataWidth, All, st, k)
TaggedNow(st, k) == Tagged(tree, here, objects, code, tagPos, width, st, k)
LinkingNow(count, st, K) == Linking(tree, here, objects, code, dataWidth, count, st, links, K)

(* The object of assembly n is what its items say.                         *)
Right(t, n, objs) ==
  /\ objs[n].width \in Nat /\ objs[n].dataWidth \in Nat
  /\ \E st :
       LET o == objs[n]
           items == t[n].items
           all == Len(items) + 1
       IN  /\ Layout(t, n, objs, o.code, o.width, o.dataWidth, all, st)
           /\ Tagging(items, o.code, o.tagPos, all, st)
           /\ \A k \in Of(items, all, "PushTag") : Tagged(t, n, objs, o.code, o.tagPos, o.width, st, k)
           /\ \A k \in Of(items, all, "PushData") \cup Of(items, all, "PushSub") :
                Points(t, n, objs, o.code, o.dataWidth, all, st, k)
           /\ \A k \in Of(items, all, "PushProgramSize") : Sized(o.code, o.dataWidth, st, k)
           /\ Recorded(items, all, st, o.immutables)
           /\ Linking(t, n, objs, o.code, o.dataWidth, all, st, o.links, Of(items, all, "PushSub"))
  /\ OneReads(t, n, objs) /\ AllAssigned(t, n, objs)

(* The assembly in progress: while items are appended, while subs are, and *)
(* while data is.                                                          *)
ItemsRight(st) ==
  /\ Written(next, st) /\ st[next] = Len(code)
  /\ SubRefs(current.items, next, st) \subseteq refs.sub
  /\ LinkingNow(next, st, {})
  /\ \A x \in DOMAIN Read(tree, here, objects) :
       x \in DOMAIN unassigned \/ \E k \in Assigners(current.items, x) : k < next

(* The items whose subs have been appended.                                *)
There(st) == {k \in Of(current.items, All, "PushSub") : IdRef(current.items[k], st[k]) \notin refs.sub}

SubsRight(st) ==
  /\ Written(All, st)
  /\ AllAssigned(tree, here, objects)
  /\ LinkingNow(All, st, There(st))
  /\ \A k \in Of(current.items, All, "PushSub") : IdRef(current.items[k], st[k]) \in refs.sub \/ PointsNow(st, k)

DataRight(st) ==
  /\ Written(All, st)
  /\ AllAssigned(tree, here, objects)
  /\ refs.sub = {}
  /\ LinkingNow(All, st, Of(current.items, All, "PushSub"))
  /\ \A k \in Of(current.items, All, "PushSub") : PointsNow(st, k)
  /\ \A k \in Of(current.items, All, "PushTag") : TaggedNow(st, k)
  /\ \A k \in Of(current.items, All, "PushData") : current.items[k].data < next => PointsNow(st, k)

RightInv ==
  /\ \A n \in 1 .. Len(objects) : Right(tree, n, objects)
  /\ pc = "items" => \E st : ItemsRight(st)
  /\ pc = "subs" => \E st : SubsRight(st)
  /\ pc = "data" => \E st : DataRight(st)

-----------------------------------------------------------------------------
(* One item more                                                           *)

(* Only a tag starts with a JUMPDEST.                                      *)
LEMMA FirstCell ==
  ASSUME NEW item, item.type \in ItemTypes, item.type # "Tag", item.type = "Operation" => item.name # "JUMPDEST",
         NEW c, NEW at \in Nat, NEW end \in Nat, NEW w, NEW dw, NEW v, ItemAt(item, c, at, end, w, dw, v)
  PROVE  c[at + 1] # Op("JUMPDEST")
<1>1. CASE item.type = "Operation"
  BY <1>1 DEF ItemAt, Op
<1>2. CASE item.type = "AssignImmutable"
  <2>1. at < end /\ c[end] = Op("POP") /\ \A f \in at + 1 .. end - 1 : c[f] \notin Marks
    BY <1>2 DEF ItemAt
  <2>2. at + 1 = end \/ at + 1 \in at + 1 .. end - 1
    BY <2>1
  <2>3. Op("POP") # Op("JUMPDEST") /\ \A x : x \notin Marks => x # Op("JUMPDEST")
    BY DEF Marks, Op
  <2> QED  BY <2>1, <2>2, <2>3
<1>3. CASE item.type \notin {"Operation", "AssignImmutable"}
  <2>1. \E n : Gap(c, at, end, n)
    BY <1>3 DEF ItemAt, ItemTypes, NumberAt
  <2> QED  BY <2>1 DEF Gap, Push, Op
<1> QED  BY <1>1, <1>2, <1>3

(* The positions of tags with one item more; the error tag has that of the *)
(* first other item.                                                       *)
LEMMA TaggingNext ==
  ASSUME NEW items, NEW count \in Nat \ {0}, NEW st, Tagging(items, code, tagPos, count, st),
         Len(code) \in Nat, st[count] = Len(code), NEW e, Len(e) \in Nat, Len(code) < Len(e),
         \A i \in 1 .. Len(code) : e[i] = code[i],
         items[count].type = "Tag" => /\ items[count] = Item("Tag", items[count].data)
                                      /\ items[count].data \in (Nat \ {0}) \ DOMAIN tagPos,
         items[count].type # "Tag" => e[Len(code) + 1] # Op("JUMPDEST"),
         NEW new, \A k \in 1 .. count : new[k] = st[k]
  PROVE  Tagging(items, e, TagPosWith(items[count]), count + 1, new)
<1> DEFINE item == items[count]
           tags == TagPosWith(item)
           x == item.data
<1>1. /\ \A k \in 1 .. count - 1 : items[k].type = "Tag" => items[k].data \in DOMAIN tagPos /\ tagPos[items[k].data] = st[k]
      /\ \A y \in DOMAIN tagPos \ {0} : \E k \in 1 .. count - 1 : items[k] = Item("Tag", y)
      /\ 0 \in DOMAIN tagPos => tagPos[0] \in Nat /\ tagPos[0] < Len(code) /\ code[tagPos[0] + 1] # Op("JUMPDEST")
  BY DEF Tagging
<1>2. \A k \in 1 .. (count + 1) - 1 : k \in 1 .. count /\ (k = count \/ k \in 1 .. count - 1)
  OBVIOUS
<1>3. \A k \in 1 .. count - 1 : k \in 1 .. (count + 1) - 1 /\ k \in 1 .. count
  OBVIOUS
<1>4. count \in 1 .. (count + 1) - 1 /\ count \in 1 .. count
  OBVIOUS
<1>5. 0 \in DOMAIN tagPos => tagPos[0] < Len(e) /\ e[tagPos[0] + 1] # Op("JUMPDEST")
  <2> SUFFICES ASSUME 0 \in DOMAIN tagPos PROVE tagPos[0] < Len(e) /\ e[tagPos[0] + 1] # Op("JUMPDEST")
    OBVIOUS
  <2>1. tagPos[0] \in Nat /\ tagPos[0] < Len(code) /\ code[tagPos[0] + 1] # Op("JUMPDEST")
    BY <1>1
  <2>2. tagPos[0] + 1 \in 1 .. Len(code)
    BY <2>1
  <2> QED  BY <2>1, <2>2
<1>6. CASE item.type = "Tag"
  <2>1. tags = With(tagPos, x, Len(code))
    BY <1>6 DEF TagPosWith
  <2>2. item = Item("Tag", x) /\ x # 0 /\ x \notin DOMAIN tagPos
    BY <1>6
  <2>3. /\ DOMAIN tags = DOMAIN tagPos \cup {x} /\ tags[x] = Len(code)
        /\ \A y \in DOMAIN tagPos : tags[y] = tagPos[y]
    BY <2>1, <2>2 DEF With
  <2> HIDE DEF tags, x, item
  <2>4. \A k \in 1 .. (count + 1) - 1 : items[k].type = "Tag" => items[k].data \in DOMAIN tags /\ tags[items[k].data] = new[k]
    <3> SUFFICES ASSUME NEW k \in 1 .. (count + 1) - 1, items[k].type = "Tag"
                 PROVE  items[k].data \in DOMAIN tags /\ tags[items[k].data] = new[k]
      OBVIOUS
    <3>1. CASE k = count
      BY <1>2, <2>3, <3>1 DEF x, item
    <3>2. CASE k \in 1 .. count - 1
      BY <1>1, <1>3, <2>3, <3>2
    <3> QED  BY <1>2, <3>1, <3>2
  <2>5. \A y \in DOMAIN tags \ {0} : \E k \in 1 .. (count + 1) - 1 : items[k] = Item("Tag", y)
    <3> SUFFICES ASSUME NEW y \in DOMAIN tags \ {0}
                 PROVE  \E k \in 1 .. (count + 1) - 1 : items[k] = Item("Tag", y)
      OBVIOUS
    <3>1. CASE y = x
      BY <1>4, <2>2, <3>1 DEF item
    <3>2. CASE y # x
      BY <1>1, <1>3, <2>3, <3>2
    <3> QED  BY <3>1, <3>2
  <2>6. 0 \in DOMAIN tags => tags[0] \in Nat /\ tags[0] < Len(e) /\ e[tags[0] + 1] # Op("JUMPDEST")
    BY <1>1, <1>5, <2>2, <2>3
  <2> QED  BY <2>4, <2>5, <2>6 DEF Tagging, tags, item
<1>7. CASE item.type # "Tag"
  <2>1. /\ DOMAIN tagPos \subseteq DOMAIN tags /\ DOMAIN tags \subseteq DOMAIN tagPos \cup {0}
        /\ \A y \in DOMAIN tagPos : tags[y] = tagPos[y]
        /\ 0 \notin DOMAIN tagPos /\ 0 \in DOMAIN tags => tags[0] = Len(code)
    <3>1. CASE 0 \notin DOMAIN tagPos
      <4>1. tags = With(tagPos, 0, Len(code))
        BY <1>7, <3>1 DEF TagPosWith
      <4> HIDE DEF tags
      <4> QED  BY <3>1, <4>1 DEF With
    <3>2. CASE 0 \in DOMAIN tagPos
      <4>1. tags = tagPos
        BY <1>7, <3>2 DEF TagPosWith
      <4> QED  BY <3>2, <4>1
    <3> QED  BY <3>1, <3>2
  <2> HIDE DEF tags
  <2>2. \A k \in 1 .. (count + 1) - 1 : items[k].type = "Tag" => items[k].data \in DOMAIN tags /\ tags[items[k].data] = new[k]
    BY <1>1, <1>2, <1>3, <1>7, <2>1
  <2>3. \A y \in DOMAIN tags \ {0} : \E k \in 1 .. (count + 1) - 1 : items[k] = Item("Tag", y)
    BY <1>1, <1>3, <2>1
  <2>4. 0 \in DOMAIN tags => tags[0] \in Nat /\ tags[0] < Len(e) /\ e[tags[0] + 1] # Op("JUMPDEST")
    BY <1>1, <1>5, <1>7, <2>1
  <2> QED  BY <2>2, <2>3, <2>4 DEF Tagging, tags
<1> QED  BY <1>6, <1>7

(* One more item of a type, or none.                                       *)
LEMMA OfNext ==
  ASSUME NEW items, NEW count \in Nat \ {0}, NEW type
  PROVE  Of(items, count + 1, type) = Of(items, count, type) \cup (IF items[count].type = type THEN {count} ELSE {})
<1>1. \A k : k \in 1 .. (count + 1) - 1 <=> k \in 1 .. count - 1 \/ k = count
  OBVIOUS
<1> QED  BY <1>1 DEF Of

(* One item more: a reference to a library is listed behind its push.      *)
LEMMA LinkingItem ==
  ASSUME NEW t, NEW n, NEW objs, NEW c, NEW e, NEW dw, NEW count \in Nat \ {0}, NEW st, NEW lk,
         Linking(t, n, objs, c, dw, count, st, lk, {}),
         Len(c) \in Nat, Len(e) \in Nat, Len(c) <= Len(e), st[count] = Len(c),
         t[n].items[count].type = "PushLibraryAddress" => Len(e) = Len(c) + 1 + AddressBytes,
         NEW new, \A k \in 1 .. count : new[k] = st[k],
         NEW at, at = Len(c) + 1
  PROVE  Linking(t, n, objs, e, dw, count + 1, new,
                 IF t[n].items[count].type = "PushLibraryAddress" THEN With(lk, at, t[n].items[count].name) ELSE lk, {})
<1> DEFINE item == t[n].items[count]
           more == IF item.type = "PushLibraryAddress" THEN With(lk, at, item.name) ELSE lk
           before == Of(t[n].items, count, "PushLibraryAddress")
<1>1. /\ Spread(lk, Len(c)) /\ Listed(lk) = LibraryRefs(t[n].items, count, st)
  BY DEF Linking, Collected
<1>2. Of(t[n].items, count + 1, "PushLibraryAddress")
        = before \cup (IF item.type = "PushLibraryAddress" THEN {count} ELSE {})
  BY OfNext
<1>3. \A k \in before : k \in 1 .. count /\ new[k] = st[k]
  BY DEF Of
<1>4. new[count] + 1 = at
  OBVIOUS
<1>5. AddressBytes \in Nat \ {0} /\ at \in Nat
  BY BytesAssumption
<1>6. Spread(more, Len(e)) /\ Listed(more) = LibraryRefs(t[n].items, count + 1, new)
  <2>1. CASE item.type = "PushLibraryAddress"
    <3>1. LibraryRefs(t[n].items, count + 1, new) = LibraryRefs(t[n].items, count, st) \cup {<<at, item.name>>}
      <4> DEFINE all == Of(t[n].items, count + 1, "PushLibraryAddress")
      <4>1. all = before \cup {count}
        BY <1>2, <2>1
      <4> HIDE DEF before, all
      <4>2. {<<new[k] + 1, t[n].items[k].name>> : k \in all}
              = {<<st[k] + 1, t[n].items[k].name>> : k \in before} \cup {<<at, item.name>>}
        BY <1>3, <1>4, <4>1
      <4> QED  BY <4>2 DEF LibraryRefs, all, before
    <3>2. DOMAIN more = DOMAIN lk \cup {at} /\ more[at] = item.name /\ \A x \in DOMAIN lk : x # at => more[x] = lk[x]
      BY <2>1 DEF With
    <3>3. \A x \in DOMAIN lk : x \in Nat /\ x + AddressBytes <= Len(c)
      BY <1>1 DEF Spread
    <3>4. at \notin DOMAIN lk
      BY <1>5, <3>3
    <3> HIDE DEF more, item
    <3>5. Listed(more) = Listed(lk) \cup {<<at, item.name>>}
      BY <3>2, <3>4 DEF Listed
    <3>6. Spread(more, Len(e))
      <4> SUFFICES ASSUME NEW x \in DOMAIN more
                   PROVE  /\ x \in Nat /\ x + AddressBytes <= Len(e)
                          /\ \A y \in DOMAIN more : x < y => x + AddressBytes <= y
        BY DEF Spread
      <4>1. CASE x = at
        <5>1. \A y \in DOMAIN more : ~ (x < y)
          BY <1>5, <3>2, <3>3, <4>1
        <5>2. x + AddressBytes <= Len(e)
          BY <1>5, <2>1, <4>1 DEF item
        <5> QED  BY <1>5, <4>1, <5>1, <5>2
      <4>2. CASE x # at
        <5>1. x \in DOMAIN lk
          BY <3>2, <4>2
        <5>2. \A y \in DOMAIN lk : x < y => x + AddressBytes <= y
          BY <1>1, <5>1 DEF Spread
        <5>3. x + AddressBytes <= at /\ x + AddressBytes <= Len(e) /\ x \in Nat
          BY <1>5, <3>3, <5>1
        <5> QED  BY <3>2, <5>2, <5>3
      <4> QED  BY <4>1, <4>2
    <3> QED  BY <1>1, <3>1, <3>5, <3>6
  <2>2. CASE item.type # "PushLibraryAddress"
    <3>1. more = lk
      BY <2>2
    <3>2. LibraryRefs(t[n].items, count + 1, new) = LibraryRefs(t[n].items, count, st)
      BY <1>2, <1>3, <2>2 DEF LibraryRefs
    <3>3. Spread(lk, Len(e))
      <4>1. \A x \in Nat : x + AddressBytes <= Len(c) => x + AddressBytes <= Len(e)
        BY <1>5
      <4> QED  BY <1>1, <4>1 DEF Spread
    <3> QED  BY <1>1, <3>1, <3>2, <3>3
  <2> QED  BY <2>1, <2>2
<1> HIDE DEF more
<1>7. Positioned(e, dw, new, {}, <<>>) /\ Collected(t, n, objs, count + 1, new, more, {}, <<>>)
  BY <1>6 DEF Positioned, Collected
<1>8. Linking(t, n, objs, e, dw, count + 1, new, more, {})
  BY <1>6, <1>7 DEF Linking
<1> QED  BY <1>8 DEF more

(* The references with one item more.                                      *)
LEMMA ReferencesNext ==
  ASSUME NEW items, NEW count \in Nat \ {0}, NEW st, st[count] = Len(code), References(items, count, st, refs),
         refs = [tag |-> refs.tag, sub |-> refs.sub, data |-> refs.data, size |-> refs.size],
         SubRefs(items, count, st) \subseteq refs.sub,
         NEW new, \A k \in 1 .. count : new[k] = st[k]
  PROVE  LET r == RefsWith(items[count])
         IN  /\ References(items, count + 1, new, r)
             /\ SubRefs(items, count + 1, new) \subseteq r.sub
<1> DEFINE r == RefsWith(items[count])
           item == items[count]
           at == Len(code)
<1>1. /\ r.tag = refs.tag \cup (IF item.type = "PushTag" THEN {TagRef(item, at)} ELSE {})
      /\ r.data = refs.data \cup (IF item.type = "PushData" THEN {IdRef(item, at)} ELSE {})
      /\ r.size = refs.size \cup (IF item.type = "PushProgramSize" THEN {at + 1} ELSE {})
      /\ r.sub = refs.sub \cup (IF item.type = "PushSub" THEN {IdRef(item, at)} ELSE {})
  <2>1. CASE item.type = "PushTag"
    <3>1. r = [refs EXCEPT !.tag = refs.tag \cup {TagRef(item, at)}]
      BY <2>1 DEF RefsWith, RefsAt, TagRef
    <3> QED  BY <2>1, <3>1
  <2>2. CASE item.type = "PushData"
    <3>1. r = [refs EXCEPT !.data = refs.data \cup {IdRef(item, at)}]
      BY <2>2 DEF RefsWith, RefsAt, IdRef
    <3> QED  BY <2>2, <3>1
  <2>3. CASE item.type = "PushSub"
    <3>1. r = [refs EXCEPT !.sub = refs.sub \cup {IdRef(item, at)}]
      BY <2>3 DEF RefsWith, RefsAt, IdRef
    <3> QED  BY <2>3, <3>1
  <2>4. CASE item.type = "PushProgramSize"
    <3>1. r = [refs EXCEPT !.size = refs.size \cup {at + 1}]
      BY <2>4 DEF RefsWith, RefsAt
    <3> QED  BY <2>4, <3>1
  <2>5. CASE item.type \notin {"PushTag", "PushData", "PushSub", "PushProgramSize"}
    <3>1. r = refs
      BY <2>5 DEF RefsWith, RefsAt
    <3> QED  BY <2>5, <3>1
  <2> QED  BY <2>1, <2>2, <2>3, <2>4, <2>5
<1>2. \A type : \A k \in Of(items, count, type) : k \in 1 .. count /\ new[k] = st[k]
  BY DEF Of
<1>3. new[count] = at
  OBVIOUS
<1> HIDE DEF item, at, r
<1>4. {TagRef(items[k], new[k]) : k \in Of(items, count + 1, "PushTag")}
        = {TagRef(items[k], st[k]) : k \in Of(items, count, "PushTag")}
            \cup (IF item.type = "PushTag" THEN {TagRef(item, at)} ELSE {})
  BY <1>2, <1>3, OfNext DEF item
<1>5. {IdRef(items[k], new[k]) : k \in Of(items, count + 1, "PushData")}
        = {IdRef(items[k], st[k]) : k \in Of(items, count, "PushData")}
            \cup (IF item.type = "PushData" THEN {IdRef(item, at)} ELSE {})
  BY <1>2, <1>3, OfNext DEF item
<1>6. {IdRef(items[k], new[k]) : k \in Of(items, count + 1, "PushSub")}
        = {IdRef(items[k], st[k]) : k \in Of(items, count, "PushSub")}
            \cup (IF item.type = "PushSub" THEN {IdRef(item, at)} ELSE {})
  BY <1>2, <1>3, OfNext DEF item
<1>7. {new[k] + 1 : k \in Of(items, count + 1, "PushProgramSize")}
        = {st[k] + 1 : k \in Of(items, count, "PushProgramSize")}
            \cup (IF item.type = "PushProgramSize" THEN {at + 1} ELSE {})
  <2> DEFINE before == Of(items, count, "PushProgramSize")
             mine == IF item.type = "PushProgramSize" THEN {count} ELSE {}
  <2>1. Of(items, count + 1, "PushProgramSize") = before \cup mine
    BY OfNext DEF item
  <2>2. \A k \in before : new[k] = st[k]
    BY <1>2
  <2>3. {new[k] + 1 : k \in mine} = IF item.type = "PushProgramSize" THEN {at + 1} ELSE {}
    BY <1>3
  <2> HIDE DEF before, mine
  <2>4. {new[k] + 1 : k \in before} = {st[k] + 1 : k \in before}
    BY <2>2
  <2>5. {new[k] + 1 : k \in before \cup mine} = {new[k] + 1 : k \in before} \cup {new[k] + 1 : k \in mine}
    OBVIOUS
  <2> QED  BY <2>1, <2>3, <2>4, <2>5 DEF before
<1> QED  BY <1>1, <1>4, <1>5, <1>6, <1>7 DEF References, SubRefs, r

(* When the assembler stops, what is done stays.                           *)
LEMMA StoppedRight ==
  ASSUME RightInv, UNCHANGED <<tree, objects>>, pc' \notin {"items", "subs", "data"}
  PROVE  RightInv'
BY DEF RightInv

(* What is done stays right when nothing is added to it.                   *)
LEMMA FrameRight ==
  ASSUME UNCHANGED <<tree, objects>>
  PROVE  /\ here' = here /\ current' = current /\ All' = All
         /\ (\A n \in 1 .. Len(objects) : Right(tree, n, objects))
              => (\A n \in 1 .. Len(objects) : Right(tree, n, objects))'
BY DEF here, current, All

(* What is read and assigned does not change when the items are there.     *)
LEMMA ReadingKept ==
  ASSUME NEW st, Reading(All, st), AllAssigned(tree, here, objects), UNCHANGED <<tree, objects, immutables>>
  PROVE  Reading(All, st)' /\ AllAssigned(tree, here, objects)'
<1>1. here' = here /\ current' = current /\ All' = All
  BY FrameRight
<1> QED  BY <1>1 DEF Reading

(* The places recorded with one item more.                                 *)
RecordedWith(item, imm, at) ==
  IF item.type = "PushImmutable" THEN With(imm, item.name, Append(Occurrences(imm, item.name), at)) ELSE imm

(* The places of immutables are recorded with one more item.               *)
LEMMA RecordedNext ==
  ASSUME NEW items, NEW count \in Nat \ {0}, NEW st, NEW imm, IsFound(imm), Recorded(items, count, st, imm),
         NEW at, at \in Nat, at = st[count] + 1, NEW new, \A k \in 1 .. count : new[k] = st[k]
  PROVE  Recorded(items, count + 1, new, RecordedWith(items[count], imm, at))
<1> DEFINE item == items[count]
           x == item.name
           old == Occurrences(imm, x)
           after == RecordedWith(item, imm, at)
<1>1. \A k \in Of(items, count + 1, "PushImmutable") :
        k \in Of(items, count, "PushImmutable") \/ (k = count /\ item.type = "PushImmutable")
  BY OfNext
<1>2. \A k \in Of(items, count, "PushImmutable") : k \in 1 .. count /\ new[k] = st[k]
  BY DEF Of
<1>3. new[count] + 1 = at
  OBVIOUS
<1>4. CASE item.type # "PushImmutable"
  <2>1. after = imm
    BY <1>4 DEF RecordedWith
  <2> HIDE DEF after
  <2> QED  BY <1>1, <1>2, <1>4, <2>1 DEF Recorded, after
<1>5. CASE item.type = "PushImmutable"
  <2>1. old \in Seq(Nat)
    BY DEF Occurrences, IsFound
  <2>2. Range(old) \subseteq Range(Append(old, at)) /\ at \in Range(Append(old, at))
    <3> HIDE DEF old
    <3>1. /\ DOMAIN old = 1 .. Len(old) /\ Len(old) \in Nat /\ DOMAIN Append(old, at) = 1 .. Len(old) + 1
          /\ Append(old, at)[Len(old) + 1] = at /\ \A i \in 1 .. Len(old) : Append(old, at)[i] = old[i]
      BY <2>1
    <3>2. Len(old) + 1 \in 1 .. Len(old) + 1 /\ \A i \in 1 .. Len(old) : i \in 1 .. Len(old) + 1
      BY <3>1
    <3> QED  BY <3>1, <3>2 DEF Range
  <2>3. after = With(imm, x, Append(old, at))
    BY <1>5 DEF RecordedWith
  <2>4. /\ DOMAIN after = DOMAIN imm \cup {x} /\ after[x] = Append(old, at)
        /\ \A y \in DOMAIN imm : y # x => after[y] = imm[y]
    <3> HIDE DEF old, x, after
    <3> QED  BY <2>3 DEF With
  <2>5. x \in DOMAIN imm => imm[x] = old
    BY DEF Occurrences
  <2> HIDE DEF after, old
  <2>6. \A y \in DOMAIN imm : y \in DOMAIN after /\ Range(imm[y]) \subseteq Range(after[y])
    BY <2>2, <2>4, <2>5
  <2>7. ASSUME NEW k \in Of(items, count + 1, "PushImmutable")
        PROVE  items[k].name \in DOMAIN after /\ new[k] + 1 \in Range(after[items[k].name])
    <3>1. CASE k \in Of(items, count, "PushImmutable")
      BY <1>2, <2>6, <3>1 DEF Recorded
    <3>2. CASE k = count
      BY <1>3, <2>2, <2>4, <3>2
    <3> QED  BY <1>1, <3>1, <3>2
  <2> QED  BY <2>7 DEF Recorded, after
<1> QED  BY <1>4, <1>5

(* An immutable that only the next item assigns waits to be assigned.      *)
LEMMA PlacesAwaited ==
  ASSUME ObjectsInv, here \in DOMAIN tree, NEW k \in DOMAIN current.items, current.items[k].type = "AssignImmutable",
         \A i \in DOMAIN unassigned : i \in DOMAIN ImmutablesOf(Subs) /\ unassigned[i] = ImmutablesOf(Subs)[i],
         \A x \in DOMAIN Read(tree, here, objects) :
           x \in DOMAIN unassigned \/ \E j \in Assigners(current.items, x) : j < k
  PROVE  PlacesOf(tree, here, objects, current.items[k].name) \subseteq Range(Occurrences(unassigned, current.items[k].name))
<1> DEFINE x == current.items[k].name
           those == Assigners(current.items, x)
<1>1. /\ Len(current.items) \in Nat /\ DOMAIN current.items = 1 .. Len(current.items)
      /\ current = tree[here] /\ Read(tree, here, objects) = ImmutablesOf(Subs)
  BY CurrentSound DEF current, Read, Subs
<1>2. k \in those /\ k \in Nat /\ those \subseteq 1 .. Len(current.items)
  BY <1>1 DEF Assigners
<1> HIDE DEF those
<1>3. CASE Cardinality(those) = 1 /\ x \in DOMAIN Read(tree, here, objects)
  <2>1. IsFiniteSet(those)
    <3>1. IsFiniteSet(1 .. Len(current.items))
      BY <1>1, FS_Interval
    <3> QED  BY <1>2, <3>1, FS_Subset
  <2>2. those = {k}
    <3>1. PICK y : those = {y}
      BY <1>3, <2>1, FS_Singleton
    <3> QED  BY <1>2, <3>1
  <2>3. x \in DOMAIN unassigned
    BY <1>2, <1>3, <2>2 DEF those
  <2>4. Occurrences(unassigned, x) = Occurrences(Read(tree, here, objects), x)
    BY <1>1, <1>3, <2>3 DEF Occurrences
  <2> QED  BY <1>1, <2>4 DEF PlacesOf, those
<1>4. CASE Cardinality(those) # 1
  BY <1>1, <1>4 DEF PlacesOf, those
<1>5. CASE x \notin DOMAIN Read(tree, here, objects)
  <2>1. Occurrences(Read(tree, here, objects), x) = <<>>
    BY <1>5 DEF Occurrences
  <2>2. Range(<<>>) = {}
    BY DEF Range
  <2> QED  BY <2>1, <2>2 DEF PlacesOf
<1> QED  BY <1>3, <1>4, <1>5

(* At most one sub reads immutables.                                       *)
LEMMA OneReader ==
  ASSUME ObjectsInv, here \in DOMAIN tree, ~ (Cardinality(WithImmutables(Subs)) > 1)
  PROVE  OneReads(tree, here, objects)
<1> DEFINE reading == WithImmutables(Subs)
<1>1. IsFiniteSet(reading)
  <2>1. reading \subseteq 1 .. Len(Subs) /\ Len(Subs) \in Nat
    <3>1. AreObjects(Subs)
      BY CurrentSound
    <3>2. Len(Subs) \in Nat /\ DOMAIN Subs = 1 .. Len(Subs)
      BY <3>1, LengthsTyped
    <3> QED  BY <3>2 DEF WithImmutables
  <2> HIDE DEF reading
  <2>2. IsFiniteSet(1 .. Len(Subs))
    BY <2>1, FS_Interval
  <2> QED  BY <2>1, <2>2, FS_Subset
<1>2. Cardinality(reading) \in Nat /\ ~ (Cardinality(reading) > 1)
  BY <1>1, FS_CardinalityType
<1>3. Subs = SubObjects(tree[here], objects)
  BY DEF Subs, current
<1> HIDE DEF reading
<1>4. CASE Cardinality(reading) = 0
  <2>1. reading = {}
    BY <1>1, <1>4, FS_EmptySet
  <2> QED  BY <1>3, <2>1 DEF OneReads, reading
<1>5. CASE Cardinality(reading) = 1
  <2>1. PICK x : reading = {x}
    BY <1>1, <1>5, FS_Singleton
  <2> QED  BY <1>3, <2>1 DEF OneReads, reading
<1> QED  BY <1>2, <1>4, <1>5

(* Before the first item, there is nothing to be right.                    *)
LEMMA MeasureRight ==
  ASSUME AssemblerInv, RightInv, measure
  PROVE  RightInv'
<1>1. CASE pc' # "items"
  <2>1. UNCHANGED <<tree, objects>> /\ pc' \notin {"items", "subs", "data"}
    BY <1>1 DEF measure, Fail
  <2> QED  BY <2>1, StoppedRight
<1>2. CASE pc' = "items"
  <2>1. /\ UNCHANGED <<tree, objects, next, code, tagPos, refs, links, immutables>>
        /\ unassigned' = ImmutablesOf(Subs) /\ ~ (Cardinality(WithImmutables(Subs)) > 1)
    BY <1>2 DEF measure, Fail, Subs
  <2>2. next = 1 /\ code = <<>> /\ tagPos = Nothing /\ refs = NoRefs /\ links = Nothing /\ here \in DOMAIN tree
    BY DEF measure, AssemblerInv, MeasureInv
  <2> DEFINE st == [k \in 1 .. 1 |-> 0]
  <2>3. /\ st \in [1 .. 1 -> Nat] /\ st[1] = 0
        /\ Len(<<>>) = 0
    OBVIOUS
  <2>4. ItemsRight(st)'
    <3>1. \A items, type : Of(items, 1, type) = {}
      BY DEF Of
    <3> HIDE DEF st
    <3>2. Starting(st, 1, <<>>)
      BY <2>3 DEF Starting
    <3>3. \A t, n, objs, w, dw : Layout(t, n, objs, <<>>, w, dw, 1, st)
      BY <3>2 DEF Layout
    <3>4. \A items : Tagging(items, <<>>, Nothing, 1, st)
      BY DEF Tagging, Nothing
    <3>5. \A items : References(items, 1, st, NoRefs)
      BY <3>1 DEF References, SubRefs, NoRefs
    <3>6. \A items, imm : Recorded(items, 1, st, imm)
      BY <3>1 DEF Recorded
    <3>7. OneReads(tree, here, objects)
      BY <2>1, <2>2, OneReader DEF AssemblerInv
    <3>8. here' = here /\ current' = current
      BY <2>1, FrameRight
    <3>9. Written(next, st)'
      <4>1. OneReads(tree', here', objects')
        BY <2>1, <3>7, <3>8
      <4> QED  BY <2>1, <2>2, <3>3, <3>4, <3>5, <3>6, <4>1 DEF Written, Reading
    <3>10. DOMAIN Read(tree', here', objects') = DOMAIN unassigned'
      BY <2>1, <3>8 DEF Read, Subs, current
    <3>11. \A t, n, objs, dw : Linking(t, n, objs, <<>>, dw, 1, st, Nothing, {})
      <4> SUFFICES ASSUME NEW t, NEW n, NEW objs, NEW dw
                   PROVE  Linking(t, n, objs, <<>>, dw, 1, st, Nothing, {})
        OBVIOUS
      <4>1. Spread(Nothing, Len(<<>>)) /\ Listed(Nothing) = {}
        BY DEF Spread, Listed, Nothing
      <4>2. LibraryRefs(t[n].items, 1, st) = {}
        BY <3>1 DEF LibraryRefs
      <4>3. Positioned(<<>>, dw, st, {}, <<>>) /\ Collected(t, n, objs, 1, st, Nothing, {}, <<>>)
        BY <4>1, <4>2 DEF Positioned, Collected
      <4> QED  BY <4>1, <4>3 DEF Linking
    <3>12. LinkingNow(next, st, {})'
      BY <2>1, <2>2, <3>11 DEF LinkingNow
    <3> QED  BY <2>1, <2>2, <2>3, <3>1, <3>9, <3>10, <3>12 DEF ItemsRight, SubRefs
  <2> QED  BY <1>2, <2>1, <2>4, FrameRight DEF RightInv
<1> QED  BY <1>1, <1>2

(* The next item, where the last one ends.                                 *)
LEMMA AppendItemRight ==
  ASSUME AssemblerInv, RightInv, appendItem
  PROVE  RightInv'
<1> DEFINE item == current.items[next]
           e == code \o Bytecode(item)
<1>0. /\ ObjectsInv /\ WorkInv /\ ItemsInv /\ here \in DOMAIN tree /\ WidthsInv
      /\ next <= Len(current.items) /\ pc = "items"
  BY DEF appendItem, AssemblerInv, WorkInv
<1>1. CASE item.type = "Tag" /\ item.data \in DOMAIN tagPos
  <2>1. UNCHANGED <<tree, objects>> /\ pc' \notin {"items", "subs", "data"}
    BY <1>1 DEF appendItem, Fail
  <2> QED  BY <2>1, StoppedRight
<1>2. CASE ~ (item.type = "Tag" /\ item.data \in DOMAIN tagPos)
  <2>1. /\ code' = e /\ refs' = RefsWith(item) /\ tagPos' = TagPosWith(item) /\ next' = next + 1
        /\ immutables' = RecordedWith(item, immutables, Len(code) + 1)
        /\ unassigned' = (IF item.type = "AssignImmutable" THEN Without(unassigned, item.name) ELSE unassigned)
        /\ links' = (IF item.type = "PushLibraryAddress" THEN With(links, Len(code) + 1, item.name) ELSE links)
        /\ UNCHANGED <<tree, objects, width, dataWidth, pc>>
    BY <1>2 DEF appendItem, RecordedWith
  <2>2. /\ next \in Nat \ {0} /\ next \in DOMAIN current.items
        /\ item \in Range(current.items) /\ item.type \in ItemTypes
        /\ item.type = "Operation" => item.name # "JUMPDEST"
        /\ item.type = "Tag" => item = Item("Tag", item.data) /\ item.data \in Nat \ {0}
    <3>1. /\ Len(current.items) \in Nat /\ DOMAIN current.items = 1 .. Len(current.items)
          /\ IsAssembly(tree, here)
      BY <1>0, CurrentSound
    <3>2. next \in Nat \ {0} /\ next \in DOMAIN current.items
      BY <1>0, <3>1 DEF ItemsInv
    <3> QED  BY <3>1, <3>2 DEF IsAssembly, current, Range
  <2>3. PICK st : ItemsRight(st)
    BY <1>0 DEF RightInv
  <2>4. /\ Layout(tree, here, objects, code, width, dataWidth, next, st) /\ st[next] = Len(code)
        /\ Tagging(current.items, code, tagPos, next, st)
        /\ References(current.items, next, st, refs)
        /\ SubRefs(current.items, next, st) \subseteq refs.sub
        /\ Recorded(current.items, next, st, immutables) /\ OneReads(tree, here, objects)
        /\ \A x \in DOMAIN Read(tree, here, objects) :
             x \in DOMAIN unassigned \/ \E k \in Assigners(current.items, x) : k < next
        /\ Linking(tree, here, objects, code, dataWidth, next, st, links, {})
    BY <2>3 DEF ItemsRight, Written, Reading, LinkingNow
  <2>5. IsSeq(code) /\ refs = [tag |-> refs.tag, sub |-> refs.sub, data |-> refs.data, size |-> refs.size]
    BY <1>0 DEF WorkInv, IsObject, SoFar
  <2>6. /\ IsSeq(Bytecode(item))
        /\ ItemAt(item, Bytecode(item), 0, Len(Bytecode(item)), width, dataWidth, Held(tree, here, objects, item))
    <3>1. item.type = "AssignImmutable"
            => PlacesOf(tree, here, objects, item.name) \subseteq Range(Occurrences(unassigned, item.name))
      BY <1>0, <2>2, <2>4, PlacesAwaited DEF ItemsInv
    <3> HIDE DEF item
    <3> QED  BY <1>0, <2>2, <3>1, BytecodeAt DEF ItemsInv
  <2> DEFINE v == Held(tree, here, objects, item)
  <2>0. PICK new : new = [k \in 1 .. next + 1 |-> IF k = next + 1 THEN Len(e) ELSE st[k]]
    OBVIOUS
  <2>7. /\ IsSeq(e) /\ Len(e) = Len(code) + Len(Bytecode(item)) /\ \A i \in 1 .. Len(code) : e[i] = code[i]
        /\ Len(code) \in Nat /\ Len(Bytecode(item)) \in Nat
    BY <2>5, <2>6, Joined, JoinedCells, SeqIsFunction
  <2>8. ItemAt(item, e, Len(code), Len(e), width, dataWidth, v)
    <3>1. width \in Nat /\ dataWidth \in Nat
      BY <1>0, Estimated
    <3> HIDE DEF item, v
    <3> QED  BY <2>5, <2>6, <3>1, Shifted DEF v
  <2> HIDE DEF e
  <2>9. Len(e) \in Nat /\ Len(code) < Len(e)
    BY <2>7, <2>8 DEF ItemAt
  <2>10. Same(code, e, 0, Len(code))
    BY <2>7 DEF Same
  <2>11. Layout(tree, here, objects, e, width, dataWidth, next + 1, new)
    <3>1. ItemAt(tree[here].items[next], e, Len(code), Len(e), width, dataWidth,
                 Held(tree, here, objects, tree[here].items[next]))
      BY <2>8 DEF current
    <3> HIDE DEF item
    <3> QED  BY <2>4, <2>7, <2>9, <2>0, <2>10, <3>1, LayoutNext
  <2>12. new[next + 1] = Len(e) /\ \A k \in 1 .. next : new[k] = st[k]
    BY <2>0, <2>2
  <2> HIDE DEF v
  <2>13. item.type # "Tag" => e[Len(code) + 1] # Op("JUMPDEST")
    BY <2>2, <2>7, <2>8, <2>9, FirstCell
  <2>14. Tagging(current.items, e, TagPosWith(item), next + 1, new)
    BY <1>2, <2>2, <2>4, <2>7, <2>9, <2>12, <2>13, TaggingNext
  <2>15. /\ References(current.items, next + 1, new, RefsWith(item))
         /\ SubRefs(current.items, next + 1, new) \subseteq RefsWith(item).sub
    <3>1. /\ next \in Nat \ {0} /\ st[next] = Len(code) /\ References(current.items, next, st, refs)
          /\ refs = [tag |-> refs.tag, sub |-> refs.sub, data |-> refs.data, size |-> refs.size]
          /\ SubRefs(current.items, next, st) \subseteq refs.sub
          /\ \A k \in 1 .. next : new[k] = st[k]
      BY <2>2, <2>4, <2>5, <2>12
    <3> QED  BY <3>1, ReferencesNext
  <2>16. Recorded(current.items, next + 1, new, RecordedWith(item, immutables, Len(code) + 1))
    <3>1. IsFound(immutables)
      BY <1>0 DEF WorkInv, IsObject, SoFar, Offsets, IsFound
    <3>2. PICK at : at = Len(code) + 1
      OBVIOUS
    <3>3. at \in Nat /\ at = st[next] + 1
      BY <2>4, <2>7, <3>2
    <3>4. Recorded(current.items, next + 1, new, RecordedWith(current.items[next], immutables, at))
      BY <2>2, <2>4, <2>12, <3>1, <3>3, RecordedNext
    <3> QED  BY <3>2, <3>4
  <2>17. ASSUME NEW x \in DOMAIN Read(tree, here, objects)
         PROVE  x \in DOMAIN unassigned' \/ \E k \in Assigners(current.items, x) : k < next + 1
    <3>1. CASE x \in DOMAIN unassigned'
      BY <3>1
    <3>2. CASE x \in DOMAIN unassigned /\ x \notin DOMAIN unassigned'
      <4>1. item.type = "AssignImmutable" /\ item.name = x
        BY <2>1, <3>2 DEF Without
      <4>2. next \in Assigners(current.items, x) /\ next < next + 1
        BY <2>2, <4>1 DEF Assigners
      <4> QED  BY <4>2
    <3>3. CASE x \notin DOMAIN unassigned
      <4>1. PICK k \in Assigners(current.items, x) : k < next
        BY <2>4, <3>3
      <4>2. k \in Nat
        <5>1. k \in DOMAIN current.items /\ DOMAIN current.items = 1 .. Len(current.items)
          BY <1>0, CurrentSound DEF Assigners
        <5> QED  BY <5>1
      <4>3. k < next + 1
        BY <2>2, <4>1, <4>2
      <4> QED  BY <4>3
    <3> QED  BY <3>1, <3>2, <3>3
  <2>18. Linking(tree, here, objects, e, dataWidth, next + 1, new, links', {})
    <3>1. PICK at : at = Len(code) + 1
      OBVIOUS
    <3>2. item = tree[here].items[next]
      BY DEF current
    <3>3. item.type = "PushLibraryAddress" => Len(e) = Len(code) + 1 + AddressBytes
      BY <2>8 DEF ItemAt, Gap
    <3>4. /\ next \in Nat \ {0} /\ Linking(tree, here, objects, code, dataWidth, next, st, links, {})
          /\ Len(code) \in Nat /\ Len(e) \in Nat /\ Len(code) <= Len(e) /\ st[next] = Len(code)
          /\ \A k \in 1 .. next : new[k] = st[k]
      BY <2>2, <2>4, <2>7, <2>9, <2>12
    <3> HIDE DEF item
    <3>5. tree[here].items[next].type = "PushLibraryAddress" => Len(e) = Len(code) + 1 + AddressBytes
      BY <3>2, <3>3
    <3>6. Linking(tree, here, objects, e, dataWidth, next + 1, new,
                  IF tree[here].items[next].type = "PushLibraryAddress"
                  THEN With(links, at, tree[here].items[next].name) ELSE links, {})
      BY <3>1, <3>4, <3>5, LinkingItem
    <3> QED  BY <2>1, <3>1, <3>2, <3>6
  <2>19. ItemsRight(new)'
    <3>1. here' = here /\ current' = current
      BY <2>1, FrameRight
    <3> DEFINE r == RefsWith(item)
               tags == TagPosWith(item)
               imm == RecordedWith(item, immutables, Len(code) + 1)
    <3>2. /\ code' = e /\ refs' = r /\ tagPos' = tags /\ next' = next + 1 /\ immutables' = imm
          /\ UNCHANGED <<tree, objects, width, dataWidth>>
      BY <2>1
    <3>3. Recorded(current.items, next + 1, new, imm) /\ OneReads(tree, here, objects)
      BY <2>4, <2>16
    <3>4. \A x \in DOMAIN Read(tree', here', objects') :
            x \in DOMAIN unassigned' \/ \E k \in Assigners(current'.items, x) : k < next'
      BY <2>17, <3>1, <3>2
    <3>5. Tagging(current.items, e, tags, next + 1, new) /\ References(current.items, next + 1, new, r)
      BY <2>14, <2>15
    <3>6. SubRefs(current.items, next + 1, new) \subseteq r.sub
      BY <2>15
    <3> HIDE DEF r, tags, imm, item
    <3>7. Written(next, new)'
      <4>1. Layout(tree', here', objects', code', width', dataWidth', next', new)
        BY <2>11, <3>1, <3>2
      <4>2. Tagging(current'.items, code', tagPos', next', new)
        BY <3>1, <3>2, <3>5
      <4>3. References(current'.items, next', new, refs')
        BY <3>1, <3>2, <3>5
      <4>4. Recorded(current'.items, next', new, immutables') /\ OneReads(tree', here', objects')
        BY <3>1, <3>2, <3>3
      <4> QED  BY <4>1, <4>2, <4>3, <4>4 DEF Written, Reading
    <3>8. LinkingNow(next, new, {})'
      BY <2>18, <3>1, <3>2 DEF LinkingNow
    <3> QED  BY <2>12, <3>1, <3>2, <3>4, <3>6, <3>7, <3>8 DEF ItemsRight
  <2> QED  BY <1>0, <2>1, <2>19, FrameRight DEF RightInv
<1> QED  BY <1>1, <1>2

(* No two references are at the same offset.                               *)
LEMMA StartsDiffer ==
  ASSUME NEW st, NEW count, NEW c, Starting(st, count, c), NEW j \in 1 .. count - 1, NEW k \in 1 .. count - 1, st[j] = st[k]
  PROVE  j = k
<1>1. count \in Nat \ {0} /\ \A i \in 1 .. count : st[i] \in Nat
  BY DEF Starting
<1>2. ASSUME NEW a \in 1 .. count - 1, NEW b \in 1 .. count - 1, a < b
      PROVE  st[a] < st[b]
  <2>1. a + 1 \in 1 .. count /\ a \in 1 .. count /\ b \in 1 .. count /\ a + 1 <= b
    BY <1>1, <1>2
  <2>2. st[a + 1] <= st[b]
    BY <2>1, StartsGrow
  <2>3. st[a] < st[a + 1]
    BY DEF Starting
  <2> QED  BY <1>1, <2>1, <2>2, <2>3
<1>3. j \in 1 .. count /\ k \in 1 .. count
  BY <1>1
<1>4. ~ (j < k) /\ ~ (k < j)
  BY <1>1, <1>2, <1>3
<1> QED  BY <1>4

(* All items of K stand for some cells.                                    *)
StandFor(t, n, objs, count, K, cells) ==
  /\ K \subseteq Of(t[n].items, count, "PushData") \cup Of(t[n].items, count, "PushSub")
  /\ \A k \in K : Target(t, n, objs, t[n].items[k]) = cells

(* The bytes of the references of K to the end of c.                       *)
EndBytes(c, dw, st, K) == [at \in {st[k] + 1 : k \in K} |-> BigEndian(Len(c), dw)]

(* e is c with these cells behind it, to which the items of K point.       *)
IsPointed(t, n, objs, c, tags, w, dw, count, st, K, e) ==
  /\ Layout(t, n, objs, e, w, dw, count, st) /\ Tagging(t[n].items, e, tags, count, st)
  /\ Kept(st, count, K, c, e) /\ IsSeq(e)
  /\ \A k \in K : Points(t, n, objs, e, dw, count, st, k) /\ Bytes(e, st[k], dw, Len(c))

(* Where cells are appended, filled in and pointed to.                     *)
LEMMA PointsWritten ==
  ASSUME NEW t, NEW n, NEW objs, NEW c, IsSeq(c), NEW tags, NEW w \in Nat, NEW dw \in Nat, NEW count, NEW st,
         Layout(t, n, objs, c, w, dw, count, st), Tagging(t[n].items, c, tags, count, st),
         NEW K, NEW more, IsSeq(more), StandFor(t, n, objs, count, K, more)
  PROVE  IsPointed(t, n, objs, c, tags, w, dw, count, st, K, Patched(c, EndBytes(c, dw, st, K)) \o more)
<1> DEFINE bytes == EndBytes(c, dw, st, K)
           p == Patched(c, bytes)
           e == p \o more
<1>1. Len(c) \in Nat /\ Len(more) \in Nat
  BY SeqIsFunction
<1>2. \A k \in K : /\ k \in 1 .. count - 1 /\ t[n].items[k].type \in {"PushData", "PushSub"}
                   /\ Gap(c, st[k], st[k + 1], dw)
  BY DEF Layout, ItemAt, Of, StandFor
<1>3. count \in Nat \ {0} /\ st[count] <= Len(c) /\ \A k \in 1 .. count : st[k] \in Nat
  BY DEF Layout, Starting
<1>4. \A k \in K : /\ st[k] \in Nat /\ st[k + 1] = st[k] + 1 + dw /\ (st[k + 1] - st[k]) - 1 = dw
  <2> SUFFICES ASSUME NEW k \in K PROVE st[k] \in Nat /\ st[k + 1] = st[k] + 1 + dw /\ (st[k + 1] - st[k]) - 1 = dw
    OBVIOUS
  <2>1. k \in 1 .. count
    BY <1>2, <1>3
  <2>2. st[k] \in Nat /\ st[k + 1] = st[k] + 1 + dw
    BY <1>2, <1>3, <2>1 DEF Gap
  <2> QED  BY <2>2
<1>5. /\ DOMAIN bytes = {st[k] + 1 : k \in K}
      /\ \A at \in DOMAIN bytes : bytes[at] = BigEndian(Len(c), dw) /\ DOMAIN bytes[at] = 1 .. dw
  BY DEF BigEndian, EndBytes
<1> HIDE DEF bytes
<1>6. Filling(t[n].items, st, count, K, bytes)
  <2>1. \A at \in DOMAIN bytes : \A i \in DOMAIN bytes[at] : bytes[at][i] # Op("JUMPDEST")
    BY <1>5, BigEndianNoJumpdest
  <2>2. \A k \in K : k \in 1 .. count - 1 /\ Open(t[n].items[k])
    BY <1>2 DEF Open
  <2>3. ASSUME NEW k \in K
        PROVE  DOMAIN bytes[st[k] + 1] = 1 .. (st[k + 1] - st[k]) - 1
    <3>1. st[k] + 1 \in DOMAIN bytes
      BY <1>5
    <3>2. DOMAIN bytes[st[k] + 1] = 1 .. dw /\ (st[k + 1] - st[k]) - 1 = dw
      BY <1>4, <1>5, <3>1
    <3> QED  BY <3>2, Zenon
  <2> QED  BY <1>5, <2>1, <2>2, <2>3, Zenon DEF Filling
<1>8. /\ Layout(t, n, objs, p, w, dw, count, st) /\ Tagging(t[n].items, p, tags, count, st)
      /\ Kept(st, count, K, c, p) /\ IsSeq(p) /\ Len(p) = Len(c)
      /\ \A k \in K : \A i \in 1 .. (st[k + 1] - st[k]) - 1 : p[st[k] + 1 + i] = bytes[st[k] + 1][i]
  <2>1. IsRewritten(t, n, objs, c, tags, w, dw, count, st, K, bytes, Patched(c, bytes))
    BY <1>6, Rewritten
  <2> QED  BY <2>1 DEF IsRewritten
<1> HIDE DEF p
<1>9. /\ Layout(t, n, objs, e, w, dw, count, st) /\ Tagging(t[n].items, e, tags, count, st)
      /\ Kept(st, count, {}, p, e) /\ IsSeq(e) /\ Len(e) = Len(p) + Len(more)
      /\ \A i \in 1 .. Len(p) : e[i] = p[i]
      /\ \A i \in 1 .. Len(more) : e[Len(p) + i] = more[i]
  <2>1. IsSeq(p) /\ Layout(t, n, objs, p, w, dw, count, st) /\ Tagging(t[n].items, p, tags, count, st)
    BY <1>8
  <2>2. IsExtended(t, n, objs, p, tags, w, dw, count, st, more, p \o more)
    BY <2>1, Extended
  <2> QED  BY <2>2 DEF IsExtended
<1> HIDE DEF e
<1>10. Kept(st, count, K, c, e)
  <2>1. st[count] \in Nat
    BY <1>3
  <2> QED  BY <1>8, <1>9, <2>1, KeptTwice
<1>11. ASSUME NEW k \in K
       PROVE  Points(t, n, objs, e, dw, count, st, k) /\ Bytes(e, st[k], dw, Len(c))
  <2>1. ASSUME NEW i \in 1 .. dw
        PROVE  e[st[k] + 1 + i] = BigEndian(Len(c), dw)[i]
    <3>1. st[k + 1] <= st[count]
      <4>1. k + 1 \in 1 .. count /\ count \in 1 .. count /\ k + 1 <= count
        BY <1>2, <1>3
      <4> QED  BY <4>1, StartsGrow DEF Layout
    <3>2. st[k] + 1 + i \in 1 .. Len(p)
      <4>1. st[k] \in Nat /\ st[k] + 1 + dw <= Len(p) /\ Len(p) \in Nat
        BY <1>1, <1>2, <1>3, <1>4, <1>8, <3>1, SMTT(30)
      <4> QED  BY <4>1
    <3>3. p[st[k] + 1 + i] = bytes[st[k] + 1][i]
      BY <1>4, <1>8
    <3>4. bytes[st[k] + 1] = BigEndian(Len(c), dw)
      BY <1>5
    <3> QED  BY <1>9, <3>2, <3>3, <3>4
  <2>2. Bytes(e, st[k], dw, Len(c))
    BY <2>1 DEF Bytes
  <2>3. \A i \in 1 .. Len(more) : e[Len(c) + i] = more[i]
    BY <1>8, <1>9
  <2>4. Len(c) + Len(more) <= Len(e)
    BY <1>1, <1>8, <1>9
  <2>5. PointedAt(e, st[k], dw, more, st[count])
    BY <1>1, <1>3, <2>2, <2>3, <2>4 DEF PointedAt
  <2>6. Target(t, n, objs, t[n].items[k]) = more
    BY DEF StandFor
  <2> QED  BY <2>2, <2>5, <2>6 DEF Points
<1>12. e = Patched(c, EndBytes(c, dw, st, K)) \o more
  BY DEF e, p, bytes
<1> QED  BY <1>9, <1>10, <1>11, <1>12 DEF IsPointed

-----------------------------------------------------------------------------
(* What an assembly needs of the objects before it                         *)

(* What the items of an assembly refer to is there, and comes before it.   *)
LEMMA ItemsTyped ==
  ASSUME NEW t \in Trees, NEW n \in DOMAIN t
  PROVE  /\ n \in Nat \ {0} /\ Len(t[n].items) \in Nat /\ DOMAIN t[n].items = 1 .. Len(t[n].items)
         /\ \A k \in 1 .. Len(t[n].items) :
              LET item == t[n].items[k]
              IN  /\ item.type \in ItemTypes
                  /\ item.type = "PushData" => item.data \in 1 .. Len(t[n].data) /\ t[n].data[item.data] \in Nat
                  /\ item.type \in {"PushSub", "PushSubSize"} => SubOf(t, n, item.data) \in 1 .. n - 1
                  /\ item.type = "PushTag" => item.sub = 0 \/ t[n].subs[item.sub] \in 1 .. n - 1
<1>1. t \in Seq({t[m] : m \in DOMAIN t}) /\ IsAssembly(t, n)
  BY TreesAssumption
<1>2. n \in Nat \ {0}
  BY <1>1
<1>3. Len(t[n].items) \in Nat /\ DOMAIN t[n].items = 1 .. Len(t[n].items)
  BY <1>1 DEF IsAssembly
<1>4. t[n].data \in Seq(Nat) /\ t[n].subs \in Seq(1 .. n - 1)
  BY <1>1 DEF IsAssembly
<1>5. DOMAIN t[n].data = 1 .. Len(t[n].data) /\ \A d \in DOMAIN t[n].data : t[n].data[d] \in Nat
  BY <1>4, Terms
<1>6. \A i \in 1 .. Len(t[n].subs) : t[n].subs[i] \in 1 .. n - 1
  BY <1>4, Terms
<1>6a. Len(t[n].subs) \in Nat
  BY <1>4, Terms
<1>7. ASSUME NEW k \in 1 .. Len(t[n].items)
      PROVE  LET item == t[n].items[k]
             IN  /\ item.type \in ItemTypes
                 /\ item.type = "PushData" => item.data \in 1 .. Len(t[n].data) /\ t[n].data[item.data] \in Nat
                 /\ item.type \in {"PushSub", "PushSubSize"} => SubOf(t, n, item.data) \in 1 .. n - 1
                 /\ item.type = "PushTag" => item.sub = 0 \/ t[n].subs[item.sub] \in 1 .. n - 1
  <2> DEFINE item == t[n].items[k]
  <2>1. /\ item.type \in ItemTypes
        /\ item.type = "PushData" => item.data \in DOMAIN t[n].data
        /\ item.type = "PushTag" => item.sub \in 0 .. Len(t[n].subs)
        /\ item.type \in {"PushSub", "PushSubSize"} => item.data \in 1 .. Len(t[n].subs) + Len(t[n].paths)
    BY <1>1, <1>3 DEF IsAssembly
  <2> HIDE DEF item
  <2>2. item.type = "PushTag" => item.sub = 0 \/ t[n].subs[item.sub] \in 1 .. n - 1
    BY <1>6, <1>6a, <2>1
  <2>3. item.type \in {"PushSub", "PushSubSize"} => SubOf(t, n, item.data) \in 1 .. n - 1
    BY <2>1, SubFoundIn
  <2> QED  BY <1>5, <2>1, <2>2, <2>3 DEF item
<1> QED  BY <1>2, <1>3, <1>7

(* The objects of the subs depend on the objects before n only.            *)
LEMMA ReadSame ==
  ASSUME NEW t \in Trees, NEW n \in DOMAIN t, NEW a, NEW b, \A m \in 1 .. n - 1 : a[m] = b[m]
  PROVE  SubObjects(t[n], a) = SubObjects(t[n], b)
<1>1. t[n].subs \in Seq(1 .. n - 1)
  BY TreesAssumption DEF IsAssembly
<1>2. DOMAIN t[n].subs = 1 .. Len(t[n].subs) /\ \A i \in 1 .. Len(t[n].subs) : t[n].subs[i] \in 1 .. n - 1
  <2> DEFINE S == 1 .. n - 1
  <2>1. t[n].subs \in Seq(S)
    BY <1>1
  <2> HIDE DEF S
  <2>2. \A i \in 1 .. Len(t[n].subs) : t[n].subs[i] \in S
    BY <2>1, Terms
  <2> QED  BY <2>1, <2>2, Terms DEF S
<1> QED  BY <1>2 DEF SubObjects

(* What an assembly says depends on the objects before it only.            *)
LEMMA SameObjects ==
  ASSUME NEW t \in Trees, NEW n \in DOMAIN t, NEW a, NEW b, \A m \in 1 .. n - 1 : a[m] = b[m],
         NEW c, NEW tags, NEW w, NEW dw, NEW st
  PROVE  LET all == Len(t[n].items) + 1
         IN  /\ Layout(t, n, a, c, w, dw, all, st) => Layout(t, n, b, c, w, dw, all, st)
             /\ \A k \in Of(t[n].items, all, "PushTag") : Tagged(t, n, a, c, tags, w, st, k) => Tagged(t, n, b, c, tags, w, st, k)
             /\ \A k \in Of(t[n].items, all, "PushData") \cup Of(t[n].items, all, "PushSub") :
                  Points(t, n, a, c, dw, all, st, k) => Points(t, n, b, c, dw, all, st, k)
<1> DEFINE items == t[n].items
           all == Len(items) + 1
<1>1. all - 1 = Len(items) /\ \A k \in 1 .. all - 1 : k \in 1 .. Len(items)
  BY ItemsTyped
<1>2. ASSUME NEW k \in 1 .. all - 1
      PROVE  /\ Held(t, n, a, items[k]) = Held(t, n, b, items[k])
             /\ items[k].type = "PushTag" => TagsOf(t, n, a, tags, items[k].sub) = TagsOf(t, n, b, tags, items[k].sub)
             /\ items[k].type \in {"PushData", "PushSub"} => Target(t, n, a, items[k]) = Target(t, n, b, items[k])
  <2> DEFINE item == items[k]
  <2>1. /\ item.type \in {"PushSub", "PushSubSize"} => SubOf(t, n, item.data) \in 1 .. n - 1
        /\ item.type = "PushTag" => item.sub = 0 \/ t[n].subs[item.sub] \in 1 .. n - 1
    BY <1>1, ItemsTyped
  <2> HIDE DEF item
  <2>2. Held(t, n, a, item) = Held(t, n, b, item)
    <3>1. Read(t, n, a) = Read(t, n, b)
      BY ReadSame DEF Read
    <3> QED  BY <2>1, <3>1 DEF Held, PlacesOf
  <2>3. item.type = "PushTag" => TagsOf(t, n, a, tags, item.sub) = TagsOf(t, n, b, tags, item.sub)
    BY <2>1 DEF TagsOf
  <2>4. item.type \in {"PushData", "PushSub"} => Target(t, n, a, item) = Target(t, n, b, item)
    BY <2>1 DEF Target
  <2> QED  BY <2>2, <2>3, <2>4 DEF item
<1> HIDE DEF all
<1>3. Layout(t, n, a, c, w, dw, all, st) => Layout(t, n, b, c, w, dw, all, st)
  BY <1>2 DEF Layout
<1>4. \A k \in Of(items, all, "PushTag") : Tagged(t, n, a, c, tags, w, st, k) => Tagged(t, n, b, c, tags, w, st, k)
  BY <1>2 DEF Of, Tagged
<1>5. \A k \in Of(items, all, "PushData") \cup Of(items, all, "PushSub") :
         Points(t, n, a, c, dw, all, st, k) => Points(t, n, b, c, dw, all, st, k)
  BY <1>2 DEF Of, Points
<1> QED  BY <1>3, <1>4, <1>5 DEF all

(* They depend on the objects before n only.                               *)
SubsSame(t, n, a, b, count, K) ==
  /\ t \in Trees /\ n \in DOMAIN t /\ \A m \in 1 .. n - 1 : a[m] = b[m]
  /\ count = Len(t[n].items) + 1 /\ K \subseteq Of(t[n].items, count, "PushSub")

(* Link references depend on them only through the subs.                   *)
LEMMA LinkingSame ==
  ASSUME NEW t, NEW n, NEW a, NEW b, NEW count, NEW K, SubsSame(t, n, a, b, count, K),
         NEW c, NEW dw, NEW st, NEW lk, Linking(t, n, a, c, dw, count, st, lk, K)
  PROVE  Linking(t, n, b, c, dw, count, st, lk, K)
<1>0. /\ t \in Trees /\ n \in DOMAIN t /\ \A m \in 1 .. n - 1 : a[m] = b[m]
      /\ count = Len(t[n].items) + 1 /\ K \subseteq Of(t[n].items, count, "PushSub")
  BY DEF SubsSame
<1>1. ASSUME NEW k \in K
      PROVE  SubLinks(t, n, a, t[n].items[k]) = SubLinks(t, n, b, t[n].items[k])
  <2>1. count - 1 = Len(t[n].items)
    BY <1>0, ItemsTyped
  <2>2. k \in 1 .. count - 1 /\ t[n].items[k].type = "PushSub"
    BY <1>0 DEF Of
  <2>3. SubOf(t, n, t[n].items[k].data) \in 1 .. n - 1
    BY <1>0, <2>1, <2>2, ItemsTyped
  <2> QED  BY <1>0, <2>3 DEF SubLinks
<1>2. PICK pos : Positioned(c, dw, st, K, pos) /\ Collected(t, n, a, count, st, lk, K, pos)
  BY DEF Linking
<1>3. {Moved(SubLinks(t, n, a, t[n].items[k]), pos[k]) : k \in K}
        = {Moved(SubLinks(t, n, b, t[n].items[k]), pos[k]) : k \in K}
  BY <1>1
<1>4. Collected(t, n, b, count, st, lk, K, pos)
  BY <1>2, <1>3 DEF Collected
<1> QED  BY <1>2, <1>4 DEF Linking

(* So does all that is right about an assembly.                            *)
LEMMA RightSame ==
  ASSUME NEW t \in Trees, NEW n \in DOMAIN t, NEW a, NEW b, \A m \in 1 .. n : a[m] = b[m], Right(t, n, a)
  PROVE  Right(t, n, b)
<1>1. n \in Nat \ {0}
  BY ItemsTyped
<1>2. a[n] = b[n] /\ \A m \in 1 .. n - 1 : a[m] = b[m]
  BY <1>1
<1>3. (OneReads(t, n, a) => OneReads(t, n, b)) /\ (AllAssigned(t, n, a) => AllAssigned(t, n, b))
  BY <1>2, ReadSame DEF OneReads, AllAssigned, Read
<1>4. \A c, dw, st, lk, K, count :
        count = Len(t[n].items) + 1 /\ K \subseteq Of(t[n].items, count, "PushSub")
          => (Linking(t, n, a, c, dw, count, st, lk, K) => Linking(t, n, b, c, dw, count, st, lk, K))
  <2>1. \A K, count : count = Len(t[n].items) + 1 /\ K \subseteq Of(t[n].items, count, "PushSub")
                        => SubsSame(t, n, a, b, count, K)
    BY <1>2 DEF SubsSame
  <2> QED  BY <2>1, LinkingSame
<1> QED  BY <1>2, <1>3, <1>4, SameObjects DEF Right

(* The cells an item stands for are cells.                                 *)
LEMMA TargetIsSeq ==
  ASSUME ObjectsInv, here \in DOMAIN tree,
         NEW k \in Of(current.items, All, "PushData") \cup Of(current.items, All, "PushSub")
  PROVE  IsSeq(Target(tree, here, objects, current.items[k]))
<1> DEFINE item == current.items[k]
<1>1. tree \in Trees /\ here - 1 = Len(objects) /\ current = tree[here] /\ Len(objects) \in Nat /\ here \in Nat
  BY CurrentSound, TreeSound DEF ObjectsInv, current
<1>2. k \in 1 .. Len(current.items) /\ item.type \in {"PushData", "PushSub"}
  <2>1. Len(current.items) \in Nat
    BY <1>1, ItemsTyped
  <2> QED  BY <2>1 DEF Of, All
<1>3. /\ item.type = "PushData" => tree[here].data[item.data] \in Nat
      /\ item.type = "PushSub" => SubOf(tree, here, item.data) \in 1 .. here - 1
  BY <1>1, <1>2, ItemsTyped
<1> HIDE DEF item
<1>4. CASE item.type = "PushData"
  <2> DEFINE m == tree[here].data[item.data]
             cells == Piece(tree, here, item.data)
  <2>1. cells = [i \in 1 .. m |-> cells[i]]
    BY DEF Piece
  <2>2. Target(tree, here, objects, item) = cells
    BY <1>4 DEF Target
  <2>3. m \in Nat
    BY <1>3, <1>4
  <2> HIDE DEF cells, m
  <2> QED  BY <2>1, <2>2, <2>3, FunctionIsSeq DEF item
<1>5. CASE item.type = "PushSub"
  <2>1. Target(tree, here, objects, item) = objects[SubOf(tree, here, item.data)].code
    BY <1>5 DEF Target
  <2>2. SubOf(tree, here, item.data) \in 1 .. Len(objects)
    BY <1>1, <1>3, <1>5
  <2> QED  BY <2>1, <2>2 DEF ObjectsInv, IsObject, item
<1> QED  BY <1>2, <1>4, <1>5 DEF item

(* The facts of an assembly whose items are all there.                     *)
LEMMA Working ==
  ASSUME ObjectsInv, WorkInv, NEW st, Written(All, st)
  PROVE  /\ tree \in Trees /\ here \in DOMAIN tree /\ current = tree[here] /\ IsSeq(code) /\ Len(code) \in Nat
         /\ width \in Nat /\ dataWidth \in Nat
         /\ Layout(tree, here, objects, code, width, dataWidth, All, st) /\ Starting(st, All, code)
         /\ Tagging(tree[here].items, code, tagPos, All, st)
         /\ References(tree[here].items, All, st, refs)
         /\ Reading(All, st)
         /\ All \in Nat \ {0} /\ \A k \in 1 .. All : st[k] \in Nat
<1>1. here \in DOMAIN tree /\ IsSeq(code) /\ WidthsInv
  BY DEF WorkInv, IsObject, SoFar
<1>2. width \in Nat /\ dataWidth \in Nat
  BY <1>1, Estimated
<1>3. tree \in Trees /\ current = tree[here]
  BY DEF ObjectsInv, current
<1>4. /\ Layout(tree, here, objects, code, width, dataWidth, All, st) /\ Starting(st, All, code)
      /\ All \in Nat \ {0} /\ \A k \in 1 .. All : st[k] \in Nat
  BY DEF Written, Layout, Starting
<1>5. Len(code) \in Nat
  BY <1>1, SeqIsFunction
<1> QED  BY <1>1, <1>2, <1>3, <1>4, <1>5 DEF Written

(* The INVALID behind the items changes nothing.                           *)
LEMMA EndOfItemsRight ==
  ASSUME AssemblerInv, RightInv, endOfItems
  PROVE  RightInv'
<1>0. /\ ObjectsInv /\ WorkInv /\ ItemsInv /\ here \in DOMAIN tree
      /\ next > Len(current.items) /\ pc = "items"
  BY DEF endOfItems, AssemblerInv, WorkInv
<1>1. CASE DOMAIN unassigned # {}
  <2>1. UNCHANGED <<tree, objects>> /\ pc' \notin {"items", "subs", "data"}
    BY <1>1 DEF endOfItems, Fail
  <2> QED  BY <2>1, StoppedRight
<1>2. CASE DOMAIN unassigned = {}
  <2>1. /\ code' = (IF HasMore THEN Append(code, Op("INVALID")) ELSE code) /\ pc' = "subs"
        /\ UNCHANGED <<tree, objects, next, tagPos, refs, links, immutables, width, dataWidth>>
    BY <1>2 DEF endOfItems
  <2>2. next = All
    <3>1. Len(current.items) \in Nat
      BY <1>0, CurrentSound
    <3> QED  BY <1>0, <3>1 DEF ItemsInv, All
  <2>3. PICK st : ItemsRight(st)
    BY <1>0 DEF RightInv
  <2>4. /\ Written(All, st) /\ SubRefs(current.items, All, st) \subseteq refs.sub
        /\ Linking(tree, here, objects, code, dataWidth, All, st, links, {})
    BY <2>2, <2>3 DEF ItemsRight, LinkingNow
  <2>5. /\ IsSeq(code) /\ Layout(tree, here, objects, code, width, dataWidth, All, st)
        /\ Tagging(tree[here].items, code, tagPos, All, st) /\ References(tree[here].items, All, st, refs)
        /\ current = tree[here] /\ Reading(All, st) /\ width \in Nat /\ dataWidth \in Nat /\ Len(code) \in Nat
    BY <1>0, <2>4, Working
  <2>6. /\ Layout(tree, here, objects, code', width, dataWidth, All, st) /\ Tagging(tree[here].items, code', tagPos, All, st)
        /\ Kept(st, All, {}, code, code')
    <3>1. CASE HasMore
      <4> DEFINE last == <<Op("INVALID")>>
      <4>1. code' = code \o last
        <5>1. \A S : \A s \in Seq(S) : \A x : Append(s, x) = s \o <<x>>
          OBVIOUS
        <5> QED  BY <2>1, <2>5, <3>1, <5>1 DEF IsSeq
      <4>2. IsSeq(last)
        BY SingleIsSeq
      <4> HIDE DEF last
      <4>3. IsExtended(tree, here, objects, code, tagPos, width, dataWidth, All, st, last, code \o last)
        BY <2>5, <4>2, Extended
      <4> QED  BY <4>1, <4>3 DEF IsExtended
    <3>2. CASE ~ HasMore
      <4>1. Kept(st, All, {}, code, code)
        BY <2>5 DEF Kept, Same
      <4> QED  BY <2>1, <2>5, <3>2, <4>1
    <3> QED  BY <3>1, <3>2
  <2>7. here' = here /\ current' = current /\ All' = All
    BY <2>1, FrameRight
  <2>8. AllAssigned(tree, here, objects)
    BY <1>2, <2>3, <2>5 DEF ItemsRight, AllAssigned
  <2>9. Reading(All, st)' /\ AllAssigned(tree, here, objects)'
    BY <2>1, <2>5, <2>8, ReadingKept
  <2>10. SubsRight(st)'
    <3>1. Written(All, st)'
      <4>1. Layout(tree', here', objects', code', width', dataWidth', All', st)
        BY <2>1, <2>6, <2>7
      <4>2. Tagging(current'.items, code', tagPos', All', st) /\ References(current'.items, All', st, refs')
        BY <2>1, <2>5, <2>6, <2>7
      <4> QED  BY <2>9, <4>1, <4>2 DEF Written
    <3>2. \A k \in Of(current.items, All, "PushSub") : IdRef(current.items[k], st[k]) \in refs.sub
      BY <2>4 DEF SubRefs
    <3>3. There(st)' = {}
      BY <2>1, <2>7, <3>2 DEF There
    <3>4. Linking(tree, here, objects, code', dataWidth, All, st, links, {})
      BY <2>4, <2>5, <2>6, LinkingKept
    <3>5. LinkingNow(All, st, There(st))'
      BY <2>1, <2>7, <3>3, <3>4 DEF LinkingNow
    <3> QED  BY <2>1, <2>7, <2>9, <3>1, <3>2, <3>5 DEF SubsRight
  <2> QED  BY <2>1, <2>10, FrameRight, <1>0 DEF RightInv
<1> QED  BY <1>1, <1>2

(* The sub that is appended is what its reference points to; the others    *)
(* stay.                                                                   *)
LEMMA AppendSubRight ==
  ASSUME AssemblerInv, RightInv, appendSub
  PROVE  RightInv'
<1>0. ObjectsInv /\ WorkInv /\ here \in DOMAIN tree /\ pc = "subs"
  BY DEF appendSub, AssemblerInv, WorkInv
<1>1. PICK r \in refs.sub :
        /\ code' = Patched(code, [at \in {r.at} |-> BigEndian(Len(code), dataWidth)]) \o SubObject(r.id).code
        /\ refs' = [refs EXCEPT !.sub = @ \ {r}]
        /\ links' = LinksAppended(SubObject(r.id))
  BY DEF appendSub
<1>2. UNCHANGED <<tree, objects, next, tagPos, immutables, width, dataWidth, pc>>
  BY DEF appendSub
<1>3. PICK st : SubsRight(st)
  BY <1>0 DEF RightInv
<1> DEFINE items == current.items
           subs == Of(items, All, "PushSub")
<1>4. /\ Written(All, st) /\ AllAssigned(tree, here, objects)
      /\ \A k \in subs : IdRef(items[k], st[k]) \in refs.sub \/ PointsNow(st, k)
      /\ Linking(tree, here, objects, code, dataWidth, All, st, links, There(st))
  BY <1>3 DEF SubsRight, LinkingNow
<1>5. /\ tree \in Trees /\ current = tree[here] /\ IsSeq(code) /\ Len(code) \in Nat
      /\ width \in Nat /\ dataWidth \in Nat
      /\ Layout(tree, here, objects, code, width, dataWidth, All, st) /\ Starting(st, All, code)
      /\ Tagging(tree[here].items, code, tagPos, All, st)
      /\ References(tree[here].items, All, st, refs)
      /\ Reading(All, st)
  BY <1>0, <1>4, Working
<1>6. refs' = [tag |-> refs.tag, sub |-> refs.sub \ {r}, data |-> refs.data, size |-> refs.size]
  <2>1. refs = [tag |-> refs.tag, sub |-> refs.sub, data |-> refs.data, size |-> refs.size]
    BY <1>0 DEF WorkInv
  <2> QED  BY <1>1, <2>1
<1>7. PICK j \in subs : r = IdRef(items[j], st[j])
  BY <1>5 DEF References, SubRefs
<1> DEFINE K == {j}
           more == SubObject(r.id).code
           e == Patched(code, EndBytes(code, dataWidth, st, K)) \o more
<1>8. more = Target(tree, here, objects, items[j]) /\ IsSeq(more)
  <2>1. items[j].type = "PushSub" /\ r.id = items[j].data
    BY <1>7 DEF Of, IdRef
  <2>2. more = Target(tree, here, objects, items[j])
    BY <2>1, SubOfTree DEF SubObject, Target
  <2>3. IsSeq(Target(tree, here, objects, items[j]))
    BY <1>0, TargetIsSeq
  <2> QED  BY <2>2, <2>3
<1>9. code' = e
  <2>1. {r.at} = {st[k] + 1 : k \in K}
    BY <1>7 DEF IdRef
  <2>2. [at \in {r.at} |-> BigEndian(Len(code), dataWidth)] = EndBytes(code, dataWidth, st, K)
    BY <2>1 DEF EndBytes
  <2> QED  BY <1>1, <2>2
<1> HIDE DEF more
<1>10. /\ Layout(tree, here, objects, e, width, dataWidth, All, st)
       /\ Tagging(tree[here].items, e, tagPos, All, st)
       /\ Kept(st, All, K, code, e)
       /\ Points(tree, here, objects, e, dataWidth, All, st, j) /\ Bytes(e, st[j], dataWidth, Len(code))
  <2>1. K \subseteq Of(tree[here].items, All, "PushData") \cup Of(tree[here].items, All, "PushSub")
    BY <1>5
  <2>2. \A k \in K : Target(tree, here, objects, tree[here].items[k]) = more
    BY <1>5, <1>8
  <2>3. j \in K
    OBVIOUS
  <2> HIDE DEF K
  <2>4. StandFor(tree, here, objects, All, K, more)
    BY <2>1, <2>2 DEF StandFor
  <2>5. IsPointed(tree, here, objects, code, tagPos, width, dataWidth, All, st, K, e)
    BY <1>5, <1>8, <2>4, PointsWritten
  <2> HIDE DEF e
  <2> QED  BY <2>3, <2>5 DEF IsPointed
<1>11a. Len(e) = Len(code) + Len(more)
  <2> DEFINE p == Patched(code, EndBytes(code, dataWidth, st, K))
  <2>1. IsSeq(p) /\ Len(p) = Len(code)
    BY <1>5, PatchedIsSeq
  <2> HIDE DEF p
  <2>2. Len(p \o more) = Len(p) + Len(more)
    BY <1>8, <2>1, Joined
  <2> QED  BY <2>1, <2>2 DEF p
<1> HIDE DEF e
<1>11b. \A k \in subs : k # j => IdRef(items[k], st[k]) # r
  <2> SUFFICES ASSUME NEW k \in subs, k # j PROVE IdRef(items[k], st[k]) # r
    OBVIOUS
  <2>1. Starting(st, All, code) /\ k \in 1 .. All - 1 /\ j \in 1 .. All - 1
    BY <1>5 DEF Of
  <2>2. st[k] # st[j]
    BY <2>1, StartsDiffer
  <2>3. k \in 1 .. All /\ j \in 1 .. All
    BY <2>1 DEF Starting
  <2>4. st[k] + 1 # st[j] + 1
    BY <2>1, <2>2, <2>3 DEF Starting
  <2> QED  BY <1>7, <2>4 DEF IdRef
<1>11c. Linking(tree, here, objects, e, dataWidth, All, st, links', There(st) \cup {j})
  <2> DEFINE o == SubObject(r.id)
             m == SubOf(tree, here, items[j].data)
  <2>1. items[j].type = "PushSub" /\ r.id = items[j].data /\ items = tree[here].items
    BY <1>5, <1>7 DEF Of, IdRef
  <2>2. o = objects[m]
    BY <2>1, SubOfTree DEF SubObject
  <2>3. m \in 1 .. Len(objects)
    <3>1. Len(items) \in Nat /\ here - 1 = Len(objects)
      BY <1>0, <1>5, ItemsTyped, CurrentSound
    <3>2. j \in 1 .. Len(items)
      BY <3>1 DEF Of, All
    <3>3. m \in 1 .. here - 1
      BY <1>0, <1>5, <2>1, <3>2, ItemsTyped
    <3> QED  BY <3>1, <3>3
  <2>4. Spread(o.links, Len(o.code)) /\ o.code = more /\ Len(o.code) \in Nat
    <3>1. Right(tree, m, objects)
      BY <2>3 DEF RightInv
    <3>2. Spread(o.links, Len(o.code))
      BY <2>2, <3>1 DEF Right, Linking
    <3>3. o.code = more
      BY DEF more
    <3> QED  BY <1>8, <3>2, <3>3, SeqIsFunction
  <2>5. links' = MovedLinks(links, o.links, Len(code))
    BY <1>1 DEF LinksAppended, MovedLinks
  <2>6. There(st) \subseteq Of(tree[here].items, All, "PushSub") /\ j \notin There(st)
    BY <1>7, <2>1 DEF There
  <2>7. j \in Of(tree[here].items, All, "PushSub") /\ Kept(st, All, {j}, code, e)
    BY <1>10, <2>1
  <2>8. o = objects[SubOf(tree, here, tree[here].items[j].data)] /\ Len(e) = Len(code) + Len(o.code)
    BY <1>11a, <2>1, <2>2, <2>4
  <2> HIDE DEF o, m
  <2>9. Linking(tree, here, objects, e, dataWidth, All, st, MovedLinks(links, o.links, Len(code)), There(st) \cup {j})
    BY <1>4, <1>5, <1>10, <2>4, <2>6, <2>7, <2>8, LinkingSub
  <2> QED  BY <2>5, <2>9
<1> HIDE DEF K
<1>11. here' = here /\ current' = current /\ All' = All
  BY <1>2, FrameRight
<1>12. ASSUME NEW k \in subs
       PROVE  IdRef(items[k], st[k]) \in refs.sub \ {r} \/ Points(tree, here, objects, e, dataWidth, All, st, k)
  <2>1. CASE k = j
    BY <1>10, <2>1
  <2>2. CASE k # j
    <3>0. k \in 1 .. All - 1 /\ j \in 1 .. All - 1 /\ items[k].type = "PushSub"
      BY DEF Of
    <3>1. IdRef(items[k], st[k]) # r
      BY <1>11b, <2>2
    <3>2. CASE PointsNow(st, k)
      <4>1. Points(tree, here, objects, code, dataWidth, All, st, k) /\ k \notin K
        BY <2>2, <3>2 DEF PointsNow, K
      <4>2. IsSeq(Target(tree, here, objects, tree[here].items[k]))
        BY <1>0, <1>5, TargetIsSeq
      <4>3. tree[here].items[k].type \in {"PushData", "PushSub"}
        BY <1>5, <3>0
      <4> QED  BY <1>5, <1>10, <3>0, <4>1, <4>2, <4>3, PointsKept
    <3>3. CASE ~ PointsNow(st, k)
      BY <1>4, <3>1, <3>3
    <3> QED  BY <3>2, <3>3
  <2> QED  BY <2>1, <2>2
<1>13. Reading(All, st)' /\ AllAssigned(tree, here, objects)'
  BY <1>2, <1>4, <1>5, ReadingKept
<1>14. SubsRight(st)'
  <2>1. Written(All, st)'
    <3>1. Layout(tree', here', objects', code', width', dataWidth', All', st)
      BY <1>2, <1>9, <1>10, <1>11
    <3>2. Tagging(current'.items, code', tagPos', All', st)
      BY <1>2, <1>5, <1>9, <1>10, <1>11
    <3>3. References(current'.items, All', st, refs')
      BY <1>5, <1>6, <1>11 DEF References
    <3> QED  BY <1>13, <3>1, <3>2, <3>3 DEF Written
  <2>2. refs'.sub = refs.sub \ {r}
    BY <1>6
  <2>3. \A k \in Of(current'.items, All', "PushSub") :
          IdRef(current'.items[k], st[k]) \in refs'.sub \/ Points(tree', here', objects', code', dataWidth', All', st, k)
    BY <1>2, <1>9, <1>11, <1>12, <2>2
  <2>4. LinkingNow(All, st, There(st))'
    <3>1. There(st)' = There(st) \cup {j}
      <4>1. There(st)' = {k \in subs : IdRef(items[k], st[k]) \notin refs.sub \ {r}}
        BY <1>11, <2>2 DEF There
      <4>2. There(st) = {k \in subs : IdRef(items[k], st[k]) \notin refs.sub}
        BY DEF There
      <4> HIDE DEF subs
      <4>3. \A k \in subs : IdRef(items[k], st[k]) = r <=> k = j
        BY <1>7, <1>11b
      <4> QED  BY <1>7, <4>1, <4>2, <4>3
    <3> QED  BY <1>2, <1>9, <1>11, <1>11c, <3>1 DEF LinkingNow
  <2> QED  BY <1>13, <2>1, <2>3, <2>4 DEF SubsRight, PointsNow
<1> QED  BY <1>0, <1>2, <1>14, FrameRight DEF RightInv

(* A tag's position is a number.                                           *)
LEMMA PositionsTyped ==
  ASSUME ObjectsInv, WorkInv, NEW k \in Of(current.items, All, "PushTag"),
         current.items[k].data \in DOMAIN TagPositions(current.items[k].sub)
  PROVE  TagPositions(current.items[k].sub)[current.items[k].data] \in Nat
<1> DEFINE sub == current.items[k].sub
           x == current.items[k].data
<1>0. here \in DOMAIN tree /\ current = tree[here] /\ tree \in Trees /\ here - 1 = Len(objects)
  BY CurrentSound DEF WorkInv, ObjectsInv, current
<1>1. IsObject(SoFar)
  BY DEF WorkInv
<1>2. k \in 1 .. Len(current.items) /\ current.items[k].type = "PushTag"
  <2>1. Len(current.items) \in Nat
    BY <1>0, ItemsTyped
  <2> QED  BY <2>1 DEF Of, All
<1>3. sub = 0 \/ current.subs[sub] \in 1 .. Len(objects)
  BY <1>0, <1>2, ItemsTyped
<1>4. CASE sub = 0
  <2>1. TagPositions(sub) = tagPos
    BY <1>4 DEF TagPositions
  <2>2. Len(code) \in Nat /\ \A y \in DOMAIN tagPos : tagPos[y] \in 0 .. Len(code)
    BY <1>1, SeqIsFunction DEF IsObject, SoFar
  <2> QED  BY <2>1, <2>2
<1>5. CASE sub # 0
  <2> DEFINE o == objects[current.subs[sub]]
  <2>1. TagPositions(sub) = o.tagPos
    BY <1>5 DEF TagPositions
  <2>2. IsObject(o)
    BY <1>3, <1>5 DEF ObjectsInv
  <2> HIDE DEF o
  <2>3. Len(o.code) \in Nat /\ \A y \in DOMAIN o.tagPos : o.tagPos[y] \in 0 .. Len(o.code)
    BY <2>2, SeqIsFunction DEF IsObject
  <2> QED  BY <2>1, <2>3
<1> QED  BY <1>4, <1>5

(* All tags are filled in at once, each with the position that is known by *)
(* now.                                                                    *)
LEMMA FillTagsRight ==
  ASSUME AssemblerInv, RightInv, fillTags
  PROVE  RightInv'
<1>0. ObjectsInv /\ WorkInv /\ here \in DOMAIN tree /\ pc = "subs" /\ refs.sub = {}
  BY DEF fillTags, AssemblerInv, WorkInv
<1> DEFINE items == current.items
           tags == Of(items, All, "PushTag")
           position(r) == TagPositions(r.sub)[r.tag]
           referrer(at) == CHOOSE r \in refs.tag : r.at = at
           bytes == [at \in {r.at : r \in refs.tag} |-> BigEndian(position(referrer(at)), width)]
           missing == \E r \in refs.tag : r.tag \notin DOMAIN TagPositions(r.sub)
           large == \E r \in refs.tag : NumberBytes(position(r)) > width
<1>1. CASE missing \/ large
  <2>1. UNCHANGED <<tree, objects>> /\ pc' \notin {"items", "subs", "data"}
    BY <1>1 DEF fillTags, Fail
  <2> QED  BY <2>1, StoppedRight
<1>2. CASE ~ missing /\ ~ large
  <2>1. /\ code' = Patched(code, bytes) /\ next' = 1 /\ pc' = "data"
        /\ UNCHANGED <<tree, objects, tagPos, refs, links, immutables, width, dataWidth>>
    BY <1>2 DEF fillTags
  <2>2. PICK st : SubsRight(st)
    BY <1>0 DEF RightInv
  <2>3. /\ Written(All, st) /\ AllAssigned(tree, here, objects) /\ \A k \in Of(items, All, "PushSub") : PointsNow(st, k)
        /\ LinkingNow(All, st, There(st))
    BY <1>0, <2>2 DEF SubsRight
  <2>4. /\ tree \in Trees /\ current = tree[here] /\ IsSeq(code) /\ Len(code) \in Nat
        /\ width \in Nat /\ dataWidth \in Nat
        /\ Layout(tree, here, objects, code, width, dataWidth, All, st) /\ Starting(st, All, code)
        /\ Tagging(tree[here].items, code, tagPos, All, st)
        /\ References(tree[here].items, All, st, refs)
        /\ Reading(All, st)
        /\ All \in Nat \ {0} /\ \A k \in 1 .. All : st[k] \in Nat
    BY <1>0, <2>3, Working
  <2>5. refs.tag = {TagRef(items[k], st[k]) : k \in tags}
    BY <2>4 DEF References
  <2>6. \A k \in tags : k \in 1 .. All - 1 /\ k \in 1 .. All /\ items[k].type = "PushTag"
    BY <2>4 DEF Of
  <2> DEFINE where(k) == TagPositions(items[k].sub)[items[k].data]
  <2>7. ASSUME NEW k \in tags
        PROVE  position(referrer(st[k] + 1)) = where(k)
    <3> DEFINE mine == TagRef(items[k], st[k])
    <3>1. mine \in refs.tag /\ mine.at = st[k] + 1 /\ mine.sub = items[k].sub /\ mine.tag = items[k].data
      BY <2>5 DEF TagRef
    <3>2. ASSUME NEW r \in refs.tag, r.at = st[k] + 1
          PROVE  r = mine
      <4>1. PICK j \in tags : r = TagRef(items[j], st[j])
        BY <2>5
      <4>2. st[j] + 1 = st[k] + 1
        BY <3>2, <4>1 DEF TagRef
      <4>3. st[j] = st[k]
        <5>1. st[j] \in Nat /\ st[k] \in Nat
          BY <2>4, <2>6
        <5> QED  BY <4>2, <5>1
      <4>4. j = k
        BY <2>4, <2>6, <4>3, StartsDiffer
      <4> QED  BY <4>1, <4>4
    <3> HIDE DEF mine
    <3>3. referrer(st[k] + 1) = mine
      BY <3>1, <3>2
    <3> QED  BY <3>1, <3>3
  <2>8. ASSUME NEW k \in tags
        PROVE  /\ items[k].data \in DOMAIN TagPositions(items[k].sub)
               /\ where(k) \in Nat /\ where(k) < Power[width]
    <3> DEFINE mine == TagRef(items[k], st[k])
    <3>1. mine \in refs.tag /\ mine.sub = items[k].sub /\ mine.tag = items[k].data
      BY <2>5 DEF TagRef
    <3>2. items[k].data \in DOMAIN TagPositions(items[k].sub) /\ ~ (NumberBytes(where(k)) > width)
      BY <1>2, <3>1
    <3>3. where(k) \in Nat
      BY <1>0, <3>2, PositionsTyped
    <3> HIDE DEF where
    <3>4. NumberBytes(where(k)) \in Nat /\ where(k) < Power[NumberBytes(where(k))]
      BY <3>3, NumberBytesSound
    <3>5. NumberBytes(where(k)) <= width
      BY <2>4, <3>2, <3>4
    <3>6. Power[NumberBytes(where(k))] <= Power[width] /\ Power[NumberBytes(where(k))] \in Nat /\ Power[width] \in Nat
      BY <2>4, <3>4, <3>5, PowerMonotone, PowerBound
    <3> QED  BY <3>2, <3>3, <3>4, <3>6
  <2>9. {r.at : r \in refs.tag} = {st[k] + 1 : k \in tags}
    <3>1. \A k : TagRef(items[k], st[k]).at = st[k] + 1
      BY DEF TagRef
    <3>2. {r.at : r \in {TagRef(items[k], st[k]) : k \in tags}} = {TagRef(items[k], st[k]).at : k \in tags}
      OBVIOUS
    <3> QED  BY <2>5, <3>1, <3>2
  <2> HIDE DEF referrer
  <2>10. /\ DOMAIN bytes = {st[k] + 1 : k \in tags}
         /\ \A at \in DOMAIN bytes : bytes[at] = BigEndian(position(referrer(at)), width) /\ DOMAIN bytes[at] = 1 .. width
    BY <2>9 DEF BigEndian
  <2> HIDE DEF bytes
  <2>11. ASSUME NEW k \in tags
         PROVE  /\ st[k] \in Nat /\ (st[k + 1] - st[k]) - 1 = width
                /\ bytes[st[k] + 1] = BigEndian(where(k), width) /\ DOMAIN bytes[st[k] + 1] = 1 .. width
    <3>1. Gap(code, st[k], st[k + 1], width)
      BY <2>4, <2>6 DEF Layout, ItemAt
    <3>2. st[k] \in Nat
      BY <2>4, <2>6
    <3>3. st[k + 1] = st[k] + 1 + width
      BY <3>1 DEF Gap
    <3>4. st[k] + 1 \in DOMAIN bytes
      BY <2>10
    <3>5. bytes[st[k] + 1] = BigEndian(where(k), width) /\ DOMAIN bytes[st[k] + 1] = 1 .. width
      BY <2>7, <2>10, <3>4
    <3>6. (st[k + 1] - st[k]) - 1 = width
      BY <2>4, <3>2, <3>3
    <3> QED  BY <3>2, <3>5, <3>6
  <2> HIDE DEF position, where
  <2>12. Filling(tree[here].items, st, All, tags, bytes)
    <3>1. tags \subseteq 1 .. All - 1 /\ \A k \in tags : Open(tree[here].items[k])
      BY <2>4, <2>6 DEF Open
    <3>2. \A at \in DOMAIN bytes : \A i \in DOMAIN bytes[at] : bytes[at][i] # Op("JUMPDEST")
      BY <2>10, BigEndianNoJumpdest
    <3>3. \A k \in tags : DOMAIN bytes[st[k] + 1] = 1 .. (st[k + 1] - st[k]) - 1
      BY <2>11
    <3> HIDE DEF tags
    <3> QED  BY <2>10, <3>1, <3>2, <3>3 DEF Filling
  <2> DEFINE e == Patched(code, bytes)
  <2>13. IsRewritten(tree, here, objects, code, tagPos, width, dataWidth, All, st, tags, bytes, e)
    <3> HIDE DEF tags
    <3> QED  BY <2>4, <2>12, Rewritten
  <2> HIDE DEF e
  <2>14. /\ Layout(tree, here, objects, e, width, dataWidth, All, st) /\ Tagging(tree[here].items, e, tagPos, All, st)
         /\ Kept(st, All, tags, code, e)
         /\ \A k \in tags : \A i \in 1 .. (st[k + 1] - st[k]) - 1 : e[st[k] + 1 + i] = bytes[st[k] + 1][i]
    BY <2>13 DEF IsRewritten
  <2>15. ASSUME NEW k \in tags
         PROVE  Tagged(tree, here, objects, e, tagPos, width, st, k)
    <3>1. \A i \in 1 .. width : e[st[k] + 1 + i] = BigEndian(where(k), width)[i]
      BY <2>11, <2>14
    <3>2. Bytes(e, st[k], width, where(k))
      BY <3>1 DEF Bytes
    <3>3. TagPositions(items[k].sub) = TagsOf(tree, here, objects, tagPos, tree[here].items[k].sub)
      BY <2>4 DEF TagPositions, TagsOf
    <3>4. TagHeld(e, st[k], width, TagPositions(items[k].sub), items[k].data)
      BY <2>8, <3>2 DEF TagHeld, where
    <3> QED  BY <2>4, <3>3, <3>4 DEF Tagged
  <2>16. ASSUME NEW k \in Of(items, All, "PushSub")
         PROVE  Points(tree, here, objects, e, dataWidth, All, st, k)
    <3>1. k \in 1 .. All - 1 /\ k \notin tags /\ tree[here].items[k].type \in {"PushData", "PushSub"}
      BY <2>4 DEF Of
    <3>2. IsSeq(Target(tree, here, objects, tree[here].items[k]))
      BY <1>0, <2>4, TargetIsSeq
    <3>3. Points(tree, here, objects, code, dataWidth, All, st, k)
      BY <2>3 DEF PointsNow
    <3> HIDE DEF tags
    <3> QED  BY <2>4, <2>14, <3>1, <3>2, <3>3, PointsKept
  <2>16a. Linking(tree, here, objects, e, dataWidth, All, st, links, Of(items, All, "PushSub"))
    <3>1. There(st) = Of(items, All, "PushSub")
      BY <1>0 DEF There
    <3>2. Of(items, All, "PushSub") \subseteq Of(tree[here].items, All, "PushSub")
      BY <2>4
    <3>3. \A k \in Of(items, All, "PushSub") : k \notin tags
      BY DEF Of
    <3>4. Linking(tree, here, objects, code, dataWidth, All, st, links, Of(items, All, "PushSub"))
      BY <2>3, <3>1 DEF LinkingNow
    <3> HIDE DEF tags, items
    <3> QED  BY <2>4, <2>14, <3>2, <3>3, <3>4, LinkingKept
  <2>17. here' = here /\ current' = current /\ All' = All
    BY <2>1, FrameRight
  <2>18. \A k \in Of(items, All, "PushData") : ~ (items[k].data < 1)
    <3> SUFFICES ASSUME NEW k \in Of(items, All, "PushData") PROVE ~ (items[k].data < 1)
      OBVIOUS
    <3>1. Len(items) \in Nat
      BY <1>0, <2>4, ItemsTyped
    <3>2. k \in 1 .. Len(items) /\ items[k].type = "PushData"
      BY <3>1 DEF Of, All
    <3>3. items[k].data \in 1 .. Len(current.data)
      BY <1>0, <2>4, <3>2, ItemsTyped
    <3> QED  BY <3>3
  <2>19. Reading(All, st)' /\ AllAssigned(tree, here, objects)'
    BY <2>1, <2>3, <2>4, ReadingKept
  <2>20. DataRight(st)'
    <3>0. code' = e
      BY <2>1 DEF e
    <3>1. Written(All, st)'
      <4>1. Layout(tree', here', objects', code', width', dataWidth', All', st)
        BY <2>1, <2>14, <2>17, <3>0
      <4>2. Tagging(current'.items, code', tagPos', All', st) /\ References(current'.items, All', st, refs')
        BY <2>1, <2>4, <2>14, <2>17, <3>0
      <4> QED  BY <2>19, <4>1, <4>2 DEF Written
    <3>2. \A k \in Of(current'.items, All', "PushSub") : Points(tree', here', objects', code', dataWidth', All', st, k)
      BY <2>1, <2>16, <2>17, <3>0
    <3>3. \A k \in Of(current'.items, All', "PushTag") : Tagged(tree', here', objects', code', tagPos', width', st, k)
      BY <2>1, <2>15, <2>17, <3>0
    <3>4. \A k \in Of(current'.items, All', "PushData") : ~ (current'.items[k].data < next')
      BY <2>1, <2>17, <2>18
    <3>5. refs'.sub = {}
      BY <1>0, <2>1
    <3>6. LinkingNow(All, st, Of(current.items, All, "PushSub"))'
      BY <2>1, <2>16a, <2>17, <3>0 DEF LinkingNow
    <3> QED  BY <2>19, <3>1, <3>2, <3>3, <3>4, <3>5, <3>6 DEF DataRight, PointsNow, TaggedNow
  <2> QED  BY <1>0, <2>1, <2>20, FrameRight DEF RightInv
<1> QED  BY <1>1, <1>2

(* All references to a piece of data point to it when it is appended.      *)
LEMMA AppendDataRight ==
  ASSUME AssemblerInv, RightInv, appendData
  PROVE  RightInv'
<1>0. ObjectsInv /\ WorkInv /\ DataInv /\ here \in DOMAIN tree /\ pc = "data"
  BY DEF appendData, AssemblerInv, WorkInv
<1> DEFINE items == current.items
           to == {r.at : r \in {r \in refs.data : r.id = next}}
           K == {k \in Of(items, All, "PushData") : items[k].data = next}
           piece == DataOf(here, next)
<1>1. /\ code' = (IF to = {} THEN code
                  ELSE Patched(code, [at \in to |-> BigEndian(Len(code), dataWidth)]) \o piece)
      /\ next' = next + 1
      /\ UNCHANGED <<tree, objects, tagPos, refs, links, immutables, width, dataWidth, pc>>
  BY DEF appendData
<1>2. PICK st : DataRight(st)
  BY <1>0 DEF RightInv
<1>3. /\ Written(All, st) /\ AllAssigned(tree, here, objects) /\ refs.sub = {}
      /\ \A k \in Of(items, All, "PushSub") : PointsNow(st, k)
      /\ \A k \in Of(items, All, "PushTag") : TaggedNow(st, k)
      /\ \A k \in Of(items, All, "PushData") : items[k].data < next => PointsNow(st, k)
      /\ LinkingNow(All, st, Of(items, All, "PushSub"))
  BY <1>2 DEF DataRight
<1>4. /\ tree \in Trees /\ current = tree[here] /\ IsSeq(code) /\ Len(code) \in Nat
      /\ width \in Nat /\ dataWidth \in Nat
      /\ Layout(tree, here, objects, code, width, dataWidth, All, st)
      /\ Tagging(tree[here].items, code, tagPos, All, st)
      /\ References(tree[here].items, All, st, refs)
      /\ Reading(All, st)
  BY <1>0, <1>3, Working
<1>5. next \in Nat /\ \A k \in Of(items, All, "PushData") : items[k].data \in Nat
  <2>1. \A k \in Of(items, All, "PushData") : items[k].data \in Nat
    <3> SUFFICES ASSUME NEW k \in Of(items, All, "PushData") PROVE items[k].data \in Nat
      OBVIOUS
    <3>1. Len(items) \in Nat
      BY <1>0, <1>4, ItemsTyped
    <3>2. k \in 1 .. Len(items) /\ items[k].type = "PushData"
      BY <3>1 DEF Of, All
    <3>3. items[k].data \in 1 .. Len(current.data)
      BY <1>0, <1>4, <3>2, ItemsTyped
    <3> QED  BY <3>3
  <2>2. next \in Nat
    BY <1>0 DEF DataInv
  <2> QED  BY <2>1, <2>2
<1>6. to = {st[k] + 1 : k \in K}
  <2>1. refs.data = {IdRef(items[k], st[k]) : k \in Of(items, All, "PushData")}
    BY <1>4 DEF References
  <2>2. \A k : IdRef(items[k], st[k]).at = st[k] + 1 /\ IdRef(items[k], st[k]).id = items[k].data
    BY DEF IdRef
  <2>3. {r \in refs.data : r.id = next} = {IdRef(items[k], st[k]) : k \in K}
    BY <2>1, <2>2
  <2>4. {r.at : r \in {IdRef(items[k], st[k]) : k \in K}} = {IdRef(items[k], st[k]).at : k \in K}
    OBVIOUS
  <2> QED  BY <2>2, <2>3, <2>4
<1>7. \A k \in K : k \in Of(items, All, "PushData")
  OBVIOUS
<1> HIDE DEF to, piece
<1>8. /\ Layout(tree, here, objects, code', width, dataWidth, All, st)
      /\ Tagging(tree[here].items, code', tagPos, All, st)
      /\ Kept(st, All, K, code, code')
      /\ \A k \in K : Points(tree, here, objects, code', dataWidth, All, st, k)
  <2>1. CASE to = {}
    <3>1. K = {} /\ code' = code
      BY <1>1, <1>6, <2>1
    <3>2. Kept(st, All, K, code, code)
      BY <1>4 DEF Kept, Same
    <3> QED  BY <1>4, <3>1, <3>2
  <2>2. CASE to # {}
    <3>1. code' = Patched(code, EndBytes(code, dataWidth, st, K)) \o piece
      <4>1. [at \in to |-> BigEndian(Len(code), dataWidth)] = EndBytes(code, dataWidth, st, K)
        BY <1>6 DEF EndBytes
      <4> QED  BY <1>1, <2>2, <4>1
    <3>2. \A k \in K : Target(tree, here, objects, tree[here].items[k]) = piece
      BY <1>4 DEF Target, Of, piece, Piece, DataOf
    <3>3. StandFor(tree, here, objects, All, K, piece)
      BY <1>4, <1>7, <3>2 DEF StandFor
    <3>4. IsSeq(piece)
      <4>1. PICK j : j \in K
        BY <1>6, <2>2
      <4>2. j \in Of(items, All, "PushData") \cup Of(items, All, "PushSub")
        BY <4>1
      <4>3. IsSeq(Target(tree, here, objects, items[j]))
        BY <1>0, <4>2, TargetIsSeq
      <4> QED  BY <1>4, <3>2, <4>1, <4>3
    <3> HIDE DEF K
    <3>5. IsPointed(tree, here, objects, code, tagPos, width, dataWidth, All, st, K,
                    Patched(code, EndBytes(code, dataWidth, st, K)) \o piece)
      BY <1>4, <3>3, <3>4, PointsWritten
    <3> QED  BY <3>1, <3>5 DEF IsPointed
  <2> QED  BY <2>1, <2>2
<1>9. ASSUME NEW k \in Of(items, All, "PushData") \cup Of(items, All, "PushSub"), k \notin K, PointsNow(st, k)
      PROVE  Points(tree, here, objects, code', dataWidth, All, st, k)
  <2>1. k \in 1 .. All - 1 /\ tree[here].items[k].type \in {"PushData", "PushSub"}
    BY <1>4 DEF Of
  <2>2. IsSeq(Target(tree, here, objects, tree[here].items[k]))
    BY <1>0, <1>4, TargetIsSeq
  <2>3. Points(tree, here, objects, code, dataWidth, All, st, k)
    BY <1>9 DEF PointsNow
  <2> HIDE DEF K
  <2> QED  BY <1>4, <1>8, <1>9, <2>1, <2>2, <2>3, PointsKept
<1>10. \A k \in Of(items, All, "PushSub") : Points(tree, here, objects, code', dataWidth, All, st, k)
  <2>1. \A k \in Of(items, All, "PushSub") : k \notin K
    BY DEF Of
  <2> QED  BY <1>3, <1>9, <2>1
<1>11. \A k \in Of(items, All, "PushTag") : Tagged(tree, here, objects, code', tagPos, width, st, k)
  <2> SUFFICES ASSUME NEW k \in Of(tree[here].items, All, "PushTag")
               PROVE  Tagged(tree, here, objects, code', tagPos, width, st, k)
    BY <1>4
  <2>1. k \notin K
    BY <1>4 DEF Of
  <2>2. Tagged(tree, here, objects, code, tagPos, width, st, k)
    BY <1>3, <1>4 DEF TaggedNow
  <2> HIDE DEF K
  <2> QED  BY <1>4, <1>8, <2>1, <2>2, TaggedKept
<1>12. ASSUME NEW k \in Of(items, All, "PushData"), items[k].data < next + 1
       PROVE  Points(tree, here, objects, code', dataWidth, All, st, k)
  <2>1. CASE k \in K
    BY <1>8, <2>1
  <2>2. CASE k \notin K
    <3>1. items[k].data < next
      BY <1>5, <1>12, <2>2
    <3> QED  BY <1>3, <1>9, <2>2, <3>1
  <2> QED  BY <2>1, <2>2
<1>12a. Linking(tree, here, objects, code', dataWidth, All, st, links, Of(items, All, "PushSub"))
  <2>1. Of(items, All, "PushSub") \subseteq Of(tree[here].items, All, "PushSub")
    BY <1>4
  <2>2. \A k \in Of(items, All, "PushSub") : k \notin K
    BY DEF Of
  <2>3. Linking(tree, here, objects, code, dataWidth, All, st, links, Of(items, All, "PushSub"))
    BY <1>3 DEF LinkingNow
  <2> HIDE DEF K, items
  <2> QED  BY <1>4, <1>8, <2>1, <2>2, <2>3, LinkingKept
<1>13. here' = here /\ current' = current /\ All' = All
  BY <1>1, FrameRight
<1>14. Reading(All, st)' /\ AllAssigned(tree, here, objects)'
  BY <1>1, <1>3, <1>4, ReadingKept
<1>15. DataRight(st)'
  <2>1. Written(All, st)'
    <3>1. Layout(tree', here', objects', code', width', dataWidth', All', st)
      BY <1>1, <1>8, <1>13
    <3>2. Tagging(current'.items, code', tagPos', All', st) /\ References(current'.items, All', st, refs')
      BY <1>1, <1>4, <1>8, <1>13
    <3> QED  BY <1>14, <3>1, <3>2 DEF Written
  <2>2. \A k \in Of(current'.items, All', "PushSub") : Points(tree', here', objects', code', dataWidth', All', st, k)
    BY <1>1, <1>10, <1>13
  <2>3. \A k \in Of(current'.items, All', "PushTag") : Tagged(tree', here', objects', code', tagPos', width', st, k)
    BY <1>1, <1>11, <1>13
  <2>4. \A k \in Of(current'.items, All', "PushData") :
          current'.items[k].data < next' => Points(tree', here', objects', code', dataWidth', All', st, k)
    BY <1>1, <1>12, <1>13
  <2>5. refs'.sub = {}
    BY <1>1, <1>3
  <2>6. LinkingNow(All, st, Of(current.items, All, "PushSub"))'
    BY <1>1, <1>12a, <1>13 DEF LinkingNow
  <2> QED  BY <1>14, <2>1, <2>2, <2>3, <2>4, <2>5, <2>6 DEF DataRight, PointsNow, TaggedNow
<1> QED  BY <1>0, <1>1, <1>15, FrameRight DEF RightInv

(* The last references are filled in, and the assembly is done.            *)
LEMMA FinishRight ==
  ASSUME AssemblerInv, RightInv, finish
  PROVE  RightInv'
<1>0. ObjectsInv /\ WorkInv /\ DataInv /\ here \in DOMAIN tree /\ pc = "data" /\ next > Len(current.data)
  BY DEF finish, AssemblerInv, WorkInv
<1> DEFINE items == current.items
           all == code \o Auxiliary
           size == Len(all)
           K == Of(items, All, "PushProgramSize")
           bytecode == Patched(all, [at \in refs.size |-> BigEndian(size, dataWidth)])
           o == [code |-> bytecode, tagPos |-> tagPos, links |-> links, immutables |-> immutables,
                 width |-> width, dataWidth |-> dataWidth]
<1>1. objects' = Append(objects, o) /\ tree' = tree /\ pc' \notin {"items", "subs", "data"}
  BY DEF finish
<1>2. PICK st : DataRight(st)
  BY <1>0 DEF RightInv
<1>3. /\ Written(All, st) /\ AllAssigned(tree, here, objects)
      /\ \A k \in Of(items, All, "PushSub") : PointsNow(st, k)
      /\ \A k \in Of(items, All, "PushTag") : TaggedNow(st, k)
      /\ \A k \in Of(items, All, "PushData") : items[k].data < next => PointsNow(st, k)
      /\ LinkingNow(All, st, Of(items, All, "PushSub"))
  BY <1>2 DEF DataRight
<1>4. /\ tree \in Trees /\ current = tree[here] /\ IsSeq(code) /\ Len(code) \in Nat
      /\ width \in Nat /\ dataWidth \in Nat
      /\ Layout(tree, here, objects, code, width, dataWidth, All, st) /\ Starting(st, All, code)
      /\ Tagging(tree[here].items, code, tagPos, All, st)
      /\ References(tree[here].items, All, st, refs)
      /\ Reading(All, st)
      /\ All \in Nat \ {0} /\ \A k \in 1 .. All : st[k] \in Nat
  BY <1>0, <1>3, Working
<1>5. IsSeq(Auxiliary)
  <2> DEFINE aux == Auxiliary
  <2>1. aux = [i \in 1 .. current.aux |-> aux[i]] /\ current.aux \in Nat
    BY <1>0, CurrentSound DEF Auxiliary
  <2> HIDE DEF aux
  <2>2. IsSeq(aux)
    BY <2>1, FunctionIsSeq
  <2> QED  BY <2>2 DEF aux
<1>6. IsExtended(tree, here, objects, code, tagPos, width, dataWidth, All, st, Auxiliary, all)
  BY <1>4, <1>5, Extended
<1> HIDE DEF all
<1>7. /\ Layout(tree, here, objects, all, width, dataWidth, All, st) /\ Tagging(tree[here].items, all, tagPos, All, st)
      /\ Kept(st, All, {}, code, all) /\ IsSeq(all)
  BY <1>6 DEF IsExtended
<1>8. bytecode = Patched(all, EndBytes(all, dataWidth, st, K))
  <2>1. refs.size = {st[k] + 1 : k \in K}
    BY <1>4 DEF References
  <2> QED  BY <2>1 DEF EndBytes
<1> DEFINE bytes == EndBytes(all, dataWidth, st, K)
<1>9. ASSUME NEW k \in K
      PROVE  /\ k \in 1 .. All - 1 /\ items[k].type = "PushProgramSize"
             /\ st[k] \in Nat /\ (st[k + 1] - st[k]) - 1 = dataWidth
             /\ bytes[st[k] + 1] = BigEndian(size, dataWidth) /\ DOMAIN bytes[st[k] + 1] = 1 .. dataWidth
  <2>1. k \in 1 .. All - 1 /\ k \in 1 .. All /\ items[k].type = "PushProgramSize"
    BY <1>4 DEF Of
  <2>2. Gap(code, st[k], st[k + 1], dataWidth)
    BY <1>4, <2>1 DEF Layout, ItemAt
  <2>3. st[k] \in Nat /\ st[k + 1] = st[k] + 1 + dataWidth
    BY <1>4, <2>1, <2>2 DEF Gap
  <2>4. (st[k + 1] - st[k]) - 1 = dataWidth
    BY <1>4, <2>3
  <2>5. bytes[st[k] + 1] = BigEndian(size, dataWidth)
    BY DEF EndBytes
  <2>6. DOMAIN BigEndian(size, dataWidth) = 1 .. dataWidth
    BY DEF BigEndian
  <2> QED  BY <2>1, <2>3, <2>4, <2>5, <2>6
<1>10. DOMAIN bytes = {st[k] + 1 : k \in K} /\ \A at \in DOMAIN bytes : bytes[at] = BigEndian(size, dataWidth)
  BY DEF EndBytes
<1> HIDE DEF bytes, size
<1>11. Filling(tree[here].items, st, All, K, bytes)
  <2>1. K \subseteq 1 .. All - 1 /\ \A k \in K : Open(tree[here].items[k])
    BY <1>4, <1>9 DEF Open
  <2>2. \A at \in DOMAIN bytes : \A i \in DOMAIN bytes[at] : bytes[at][i] # Op("JUMPDEST")
    BY <1>10, BigEndianNoJumpdest
  <2>3. \A k \in K : DOMAIN bytes[st[k] + 1] = 1 .. (st[k + 1] - st[k]) - 1
    BY <1>9
  <2> HIDE DEF K
  <2> QED  BY <1>10, <2>1, <2>2, <2>3 DEF Filling
<1>12. IsRewritten(tree, here, objects, all, tagPos, width, dataWidth, All, st, K, bytes, bytecode)
  <2>1. IsRewritten(tree, here, objects, all, tagPos, width, dataWidth, All, st, K, bytes, Patched(all, bytes))
    <3> HIDE DEF K
    <3> QED  BY <1>7, <1>11, Rewritten
  <2> QED  BY <1>8, <2>1 DEF bytes
<1> HIDE DEF bytecode
<1>13. /\ Layout(tree, here, objects, bytecode, width, dataWidth, All, st)
       /\ Tagging(tree[here].items, bytecode, tagPos, All, st)
       /\ Kept(st, All, K, all, bytecode) /\ Len(bytecode) = size
       /\ \A k \in K : \A i \in 1 .. (st[k + 1] - st[k]) - 1 : bytecode[st[k] + 1 + i] = bytes[st[k] + 1][i]
  BY <1>12 DEF IsRewritten, size
<1>14. \A k \in K : Sized(bytecode, dataWidth, st, k)
  BY <1>9, <1>13 DEF Sized, Bytes
<1>15. \A k \in Of(tree[here].items, All, "PushTag") : Tagged(tree, here, objects, bytecode, tagPos, width, st, k)
  <2> SUFFICES ASSUME NEW k \in Of(tree[here].items, All, "PushTag")
               PROVE  Tagged(tree, here, objects, bytecode, tagPos, width, st, k)
    OBVIOUS
  <2>1. k \notin K /\ k \notin {}
    BY <1>4 DEF Of
  <2>2. Tagged(tree, here, objects, code, tagPos, width, st, k)
    BY <1>3, <1>4 DEF TaggedNow
  <2> HIDE DEF K
  <2>3. Tagged(tree, here, objects, all, tagPos, width, st, k)
    BY <1>4, <1>7, <2>1, <2>2, TaggedKept
  <2> QED  BY <1>4, <1>7, <1>13, <2>1, <2>3, TaggedKept
<1>16. \A k \in Of(tree[here].items, All, "PushData") \cup Of(tree[here].items, All, "PushSub") :
          Points(tree, here, objects, bytecode, dataWidth, All, st, k)
  <2> SUFFICES ASSUME NEW k \in Of(items, All, "PushData") \cup Of(items, All, "PushSub")
               PROVE  Points(tree, here, objects, bytecode, dataWidth, All, st, k)
    BY <1>4
  <2>1. k \in 1 .. All - 1 /\ k \notin K /\ k \notin {} /\ tree[here].items[k].type \in {"PushData", "PushSub"}
    BY <1>4 DEF Of
  <2>2. IsSeq(Target(tree, here, objects, tree[here].items[k]))
    BY <1>0, <1>4, TargetIsSeq
  <2>3. k \in Of(items, All, "PushData") => items[k].data < next
    <3> SUFFICES ASSUME k \in Of(items, All, "PushData") PROVE items[k].data < next
      OBVIOUS
    <3>1. Len(items) \in Nat
      BY <1>0, <1>4, ItemsTyped
    <3>2. k \in 1 .. Len(items) /\ items[k].type = "PushData"
      BY <3>1 DEF Of, All
    <3>3. items[k].data \in 1 .. Len(current.data)
      BY <1>0, <1>4, <3>2, ItemsTyped
    <3>4. Len(current.data) \in Nat /\ next \in Nat
      BY <1>0, CurrentSound, Terms DEF DataInv
    <3> QED  BY <1>0, <3>3, <3>4
  <2>4. Points(tree, here, objects, code, dataWidth, All, st, k)
    BY <1>3, <2>3 DEF PointsNow
  <2> HIDE DEF K
  <2>5. Points(tree, here, objects, all, dataWidth, All, st, k)
    BY <1>4, <1>7, <2>1, <2>2, <2>4, PointsKept
  <2> QED  BY <1>4, <1>7, <1>13, <2>1, <2>2, <2>5, PointsKept
<1>16a. Linking(tree, here, objects, bytecode, dataWidth, All, st, links, Of(items, All, "PushSub"))
  <2>1. Of(items, All, "PushSub") \subseteq Of(tree[here].items, All, "PushSub")
    BY <1>4
  <2>2. \A k \in Of(items, All, "PushSub") : k \notin K /\ k \notin {}
    BY DEF Of
  <2>3. Linking(tree, here, objects, code, dataWidth, All, st, links, Of(items, All, "PushSub"))
    BY <1>3 DEF LinkingNow
  <2> HIDE DEF K, items
  <2>4. Linking(tree, here, objects, all, dataWidth, All, st, links, Of(items, All, "PushSub"))
    BY <1>4, <1>7, <2>1, <2>2, <2>3, LinkingKept
  <2> QED  BY <1>4, <1>7, <1>13, <2>1, <2>2, <2>4, LinkingKept
<1>17. /\ Len(objects) \in Nat /\ here = Len(objects) + 1 /\ Len(objects') = Len(objects) + 1
       /\ objects'[here] = o /\ \A m \in 1 .. Len(objects) : objects'[m] = objects[m]
  <2>1. PICK S : objects \in Seq(S)
    BY <1>0 DEF ObjectsInv, IsSeq
  <2>2. objects \in Seq(S \cup {o}) /\ o \in S \cup {o}
    BY <2>1
  <2> HIDE DEF o
  <2> QED  BY <1>1, <2>2 DEF here
<1>18. Right(tree, here, objects')
  <2>1. /\ objects'[here].code = bytecode /\ objects'[here].tagPos = tagPos
        /\ objects'[here].width = width /\ objects'[here].dataWidth = dataWidth
        /\ objects'[here].immutables = immutables /\ objects'[here].links = links
    BY <1>17
  <2>2. \A m \in 1 .. here - 1 : objects[m] = objects'[m]
    BY <1>17
  <2> HIDE DEF o
  <2>3. All = Len(tree[here].items) + 1
    BY <1>4 DEF All
  <2>4. /\ Layout(tree, here, objects', bytecode, width, dataWidth, All, st)
        /\ \A k \in Of(tree[here].items, All, "PushTag") : Tagged(tree, here, objects', bytecode, tagPos, width, st, k)
        /\ \A k \in Of(tree[here].items, All, "PushData") \cup Of(tree[here].items, All, "PushSub") :
             Points(tree, here, objects', bytecode, dataWidth, All, st, k)
    <3>1. /\ Layout(tree, here, objects, bytecode, width, dataWidth, All, st)
             => Layout(tree, here, objects', bytecode, width, dataWidth, All, st)
          /\ \A k \in Of(tree[here].items, All, "PushTag") :
               Tagged(tree, here, objects, bytecode, tagPos, width, st, k)
                 => Tagged(tree, here, objects', bytecode, tagPos, width, st, k)
          /\ \A k \in Of(tree[here].items, All, "PushData") \cup Of(tree[here].items, All, "PushSub") :
               Points(tree, here, objects, bytecode, dataWidth, All, st, k)
                 => Points(tree, here, objects', bytecode, dataWidth, All, st, k)
      BY <1>0, <1>4, <2>2, <2>3, SameObjects
    <3> QED  BY <1>13, <1>15, <1>16, <3>1
  <2>5. \A k \in Of(tree[here].items, All, "PushProgramSize") : Sized(bytecode, dataWidth, st, k)
    BY <1>4, <1>14
  <2>6. objects'[here].width \in Nat /\ objects'[here].dataWidth \in Nat
    BY <1>4, <2>1
  <2>7. Recorded(tree[here].items, All, st, immutables) /\ OneReads(tree, here, objects)
    BY <1>4 DEF Reading
  <2>8. OneReads(tree, here, objects') /\ AllAssigned(tree, here, objects')
    <3>1. SubObjects(tree[here], objects) = SubObjects(tree[here], objects')
      BY <1>0, <1>4, <2>2, ReadSame
    <3> QED  BY <1>3, <2>7, <3>1 DEF OneReads, AllAssigned, Read
  <2>9. Linking(tree, here, objects', bytecode, dataWidth, All, st, links, Of(tree[here].items, All, "PushSub"))
    <3>1. Linking(tree, here, objects, bytecode, dataWidth, All, st, links, Of(tree[here].items, All, "PushSub"))
      BY <1>4, <1>16a
    <3>2. PICK b : b = objects'
      OBVIOUS
    <3>3. PICK n : n = here
      OBVIOUS
    <3>4. PICK subs : subs = Of(tree[here].items, All, "PushSub")
      OBVIOUS
    <3>5. PICK count : count = All
      OBVIOUS
    <3>6. n \in DOMAIN tree /\ tree \in Trees /\ \A m \in 1 .. n - 1 : objects[m] = b[m]
      BY <1>0, <1>4, <2>2, <3>2, <3>3
    <3>7. /\ count = Len(tree[n].items) + 1 /\ subs \subseteq Of(tree[n].items, count, "PushSub")
          /\ Linking(tree, n, objects, bytecode, dataWidth, count, st, links, subs)
      BY <2>3, <3>1, <3>3, <3>4, <3>5
    <3>8. SubsSame(tree, n, objects, b, count, subs)
      BY <3>6, <3>7 DEF SubsSame
    <3>9. Linking(tree, n, b, bytecode, dataWidth, count, st, links, subs)
      BY <3>7, <3>8, LinkingSame
    <3> QED  BY <3>2, <3>3, <3>4, <3>5, <3>9
  <2> QED  BY <1>13, <2>1, <2>3, <2>4, <2>5, <2>6, <2>7, <2>8, <2>9 DEF Right
<1>19. ASSUME NEW n \in 1 .. Len(objects')
       PROVE  Right(tree, n, objects')
  <2>1. CASE n = here
    BY <1>18, <2>1
  <2>2. CASE n # here
    <3>1. n \in 1 .. Len(objects)
      BY <1>17, <2>2
    <3>2. n \in DOMAIN tree
      BY <1>0, <3>1, TreeSound
    <3>3. \A m \in 1 .. n : objects[m] = objects'[m]
      BY <1>17, <3>1
    <3>4. Right(tree, n, objects)
      BY <3>1 DEF RightInv
    <3> QED  BY <1>4, <3>2, <3>3, <3>4, RightSame
  <2> QED  BY <2>1, <2>2
<1> QED  BY <1>1, <1>19 DEF RightInv

(* At every moment, each item is in the bytecode where the one before it   *)
(* ends, each tag has the position of its item, and each reference of the  *)
(* bytecode is either still listed to be filled in or holds the position   *)
(* it was made for (Assembly::assemble: the loops that append items, subs  *)
(* and data and fill in tags, Assembly.cpp). Subs and data are put behind  *)
(* all items, so that filling in a reference disturbs nothing else.        *)
THEOREM AssemblerRight == Spec => []RightInv
<1>1. Init => RightInv
  BY DEF Init, RightInv
<1>2. AssemblerInv /\ RightInv /\ [Next]_vars => RightInv'
  <2> SUFFICES ASSUME AssemblerInv, RightInv, [Next]_vars
               PROVE  RightInv'
    OBVIOUS
  <2>1. CASE measure
    BY <2>1, MeasureRight
  <2>2. CASE appendItem
    BY <2>2, AppendItemRight
  <2>3. CASE endOfItems
    BY <2>3, EndOfItemsRight
  <2>4. CASE appendSub
    BY <2>4, AppendSubRight
  <2>5. CASE fillTags
    BY <2>5, FillTagsRight
  <2>6. CASE appendData
    BY <2>6, AppendDataRight
  <2>7. CASE finish
    BY <2>7, FinishRight
  <2>8. CASE link
    <3>1. UNCHANGED <<tree, objects>> /\ pc' \notin {"items", "subs", "data"}
      BY <2>8 DEF link
    <3> QED  BY <3>1, StoppedRight
  <2>9. CASE UNCHANGED vars
    <3>1. UNCHANGED <<tree, objects, next, code, tagPos, refs, links, immutables, unassigned, width, dataWidth, pc>>
      BY <2>9 DEF vars
    <3>2. here' = here /\ current' = current /\ All' = All
      BY <3>1, FrameRight
    <3> QED  BY <3>1, <3>2 DEF RightInv, ItemsRight, SubsRight, DataRight, Written, Reading,
                               There, LinkingNow, PointsNow, TaggedNow
  <2> QED  BY <2>1, <2>2, <2>3, <2>4, <2>5, <2>6, <2>7, <2>8, <2>9 DEF Next
<1> QED  BY <1>1, <1>2, AssemblerAlways, PTL DEF Spec

-----------------------------------------------------------------------------
(* What is read back                                                       *)

StartAt(items, c, f, k) == IF k = 1 THEN 0 ELSE EndOf(items[k - 1], c, f[k - 1])

(* The items of assembly n start where st says.                            *)
StartsAt(n, st) == \A k \in 1 .. Len(tree[n].items) : Starts(n)[k] = st[k]

(* Starts, which reads the bytecode back, finds the items where they were  *)
(* put.                                                                    *)
LEMMA StartsAre ==
  ASSUME tree \in Trees, NEW n \in DOMAIN tree, IsSeq(objects[n].code), NEW objs, NEW w, NEW dw, NEW st,
         NEW count, count = Len(tree[n].items) + 1, Layout(tree, n, objs, objects[n].code, w, dw, count, st)
  PROVE  StartsAt(n, st)
<1> DEFINE items == tree[n].items
           L == Len(items)
           c == objects[n].code
           s == CHOOSE f : f = [k \in 1 .. L |-> StartAt(items, c, f, k)]
           f == [k \in 1 .. L |-> st[k]]
           T == {d \in 0 .. L - 1 : s[d + 1] = st[d + 1]}
<1>1. L \in Nat /\ Len(c) \in Nat /\ \A k \in 1 .. L : items[k].type \in ItemTypes
  BY ItemsTyped, SeqIsFunction
<1>2. Starts(n) = s
  BY DEF Starts, StartAt
<1>3. /\ st[1] = 0 /\ st[L + 1] <= Len(c) /\ \A k \in 1 .. L + 1 : st[k] \in Nat
      /\ Starting(st, L + 1, c)
  BY DEF Layout, Starting
<1>4. ASSUME NEW k \in 1 .. L
      PROVE  EndOf(items[k], c, st[k]) = st[k + 1]
  <2>1. k \in 1 .. (L + 1) - 1 /\ k \in 1 .. L + 1 /\ k + 1 \in 1 .. L + 1 /\ L + 1 \in 1 .. L + 1 /\ k + 1 <= L + 1
    BY <1>1
  <2>2. ItemAt(items[k], c, st[k], st[k + 1], w, dw, Held(tree, n, objs, items[k]))
    BY <2>1 DEF Layout
  <2>3. st[k + 1] <= st[L + 1]
    BY <1>3, <2>1, StartsGrow
  <2>4. /\ st[k] \in Nat /\ st[k + 1] \in Nat /\ st[L + 1] \in Nat
        /\ st[L + 1] <= Len(c) /\ Len(c) \in Nat
    BY <1>1, <1>3, <2>1
  <2>5. st[k + 1] <= Len(c)
    BY <2>3, <2>4, SMTT(30)
  <2> HIDE DEF items, c
  <2> QED  BY <1>1, <2>2, <2>4, <2>5, EndFound
<1> HIDE DEF c, items, L
<1>5. f = [k \in 1 .. L |-> StartAt(items, c, f, k)]
  <2>1. ASSUME NEW k \in 1 .. L
        PROVE  f[k] = StartAt(items, c, f, k)
    <3>1. CASE k = 1
      BY <1>3, <3>1 DEF StartAt
    <3>2. CASE k # 1
      <4>1. k - 1 \in 1 .. L /\ (k - 1) + 1 = k
        BY <1>1, <3>2
      <4>2. EndOf(items[k - 1], c, st[k - 1]) = st[k]
        BY <1>4, <4>1
      <4> QED  BY <3>2, <4>1, <4>2 DEF StartAt
    <3> QED  BY <3>1, <3>2
  <2> QED  BY <2>1
<1>6. s = [k \in 1 .. L |-> StartAt(items, c, s, k)]
  <2> HIDE DEF f
  <2> QED  BY <1>5
<1> HIDE DEF s
<1>7. \A k \in 1 .. L : s[k] = StartAt(items, c, s, k)
  BY <1>6
<1>8. CASE L = 0
  BY <1>8 DEF StartsAt, L, items
<1>9. CASE L # 0
  <2>1. 0 \in T
    <3>1. 1 \in 1 .. L /\ 0 \in 0 .. L - 1 /\ 0 + 1 = 1
      BY <1>1, <1>9
    <3>2. s[1] = 0
      BY <1>7, <3>1 DEF StartAt
    <3> QED  BY <1>3, <3>1, <3>2
  <2>2. ASSUME NEW d \in 0 .. (L - 1) - 1, d \in T
        PROVE  d + 1 \in T
    <3>1. d + 1 \in 0 .. L - 1 /\ d + 1 \in 1 .. L /\ (d + 1) + 1 \in 1 .. L /\ (d + 1) + 1 # 1 /\ ((d + 1) + 1) - 1 = d + 1
      BY <1>1
    <3>2. s[(d + 1) + 1] = EndOf(items[d + 1], c, s[d + 1])
      BY <1>7, <3>1 DEF StartAt
    <3>3. s[d + 1] = st[d + 1]
      BY <2>2
    <3>4. EndOf(items[d + 1], c, st[d + 1]) = st[(d + 1) + 1]
      BY <1>4, <3>1
    <3> QED  BY <3>1, <3>2, <3>3, <3>4
  <2>3. 0 .. L - 1 \subseteq T
    <3>1. \A d \in 0 .. (L - 1) - 1 : d \in T => d + 1 \in T
      BY <2>2
    <3> HIDE DEF T
    <3>2. L - 1 \in Nat
      BY <1>1, <1>9
    <3> QED  BY <2>1, <3>1, <3>2, NumbersUpTo
  <2>4. ASSUME NEW k \in 1 .. L
        PROVE  s[k] = st[k]
    <3>1. k - 1 \in 0 .. L - 1 /\ (k - 1) + 1 = k
      BY <1>1
    <3>2. k - 1 \in T
      BY <2>3, <3>1
    <3> QED  BY <3>1, <3>2
  <2> QED  BY <1>2, <2>4 DEF StartsAt, L, items
<1> QED  BY <1>8, <1>9

(* Cells that are pointed to are found.                                    *)
LEMMA PointedRead ==
  ASSUME NEW c, IsSeq(c), NEW at, NEW n \in Nat, NEW cells, IsSeq(cells), NEW low \in Nat,
         Len(c) < Power[n], c[at + 1] = Push(n), PointedAt(c, at, n, cells, low)
  PROVE  PointsTo(c, at, cells)
<1>1. PICK v \in Nat : /\ low <= v /\ v + Len(cells) <= Len(c)
                       /\ Bytes(c, at, n, v)
                       /\ \A i \in 1 .. Len(cells) : c[v + i] = cells[i]
  BY DEF PointedAt
<1>2. Len(c) \in Nat /\ Len(cells) \in Nat /\ cells = [i \in 1 .. Len(cells) |-> cells[i]]
  BY SeqIsFunction
<1>3. Power[n] \in Nat
  BY PowerBound
<1>4. Pushed(c, at) = v
  <2>1. v < Power[n]
    BY <1>1, <1>2, <1>3
  <2> QED  BY <1>1, <2>1, ReadBack
<1>5. SubSeq(c, v + 1, v + Len(cells)) = cells
  <2>1. PICK S : c \in Seq(S)
    BY DEF IsSeq
  <2>2. SubSeq(c, v + 1, v + Len(cells)) = [i \in 1 .. Len(cells) |-> c[v + i]]
    <3> DEFINE m == Len(cells)
    <3>1. m \in Nat /\ v + m <= Len(c)
      BY <1>1, <1>2
    <3> HIDE DEF m
    <3>2. SubSeq(c, v + 1, v + m) = [i \in 1 .. m |-> c[v + i]]
      BY <1>2, <2>1, <3>1
    <3> QED  BY <3>2 DEF m
  <2> QED  BY <1>1, <1>2, <2>2
<1> QED  BY <1>4, <1>5 DEF PointsTo, Cells

(* What a push pushes, if the number behind it fits.                       *)
LEMMA NumberRead ==
  ASSUME NEW c, NEW at, NEW end, NEW v \in Nat, NumberAt(c, at, end, v)
  PROVE  Pushed(c, at) = v
BY ReadBack DEF NumberAt, Gap

(* The same, for an assembly that is done.                                 *)
LEMMA StartsOf ==
  ASSUME ObjectsInv, NEW n \in 1 .. Len(objects), NEW w, NEW dw, NEW st,
         NEW count, count = Len(tree[n].items) + 1, Layout(tree, n, objects, objects[n].code, w, dw, count, st)
  PROVE  /\ StartsAt(n, st)
         /\ \A k \in 1 .. Len(tree[n].items) : st[k] \in Nat
         /\ st[count] \in Nat
<1>1. tree \in Trees /\ n \in DOMAIN tree /\ IsSeq(objects[n].code)
  BY TreeSound DEF ObjectsInv, IsObject
<1>2. StartsAt(n, st)
  BY <1>1, StartsAre
<1>3. Len(tree[n].items) \in Nat
  BY <1>1, ItemsTyped
<1>4. st \in [1 .. Len(tree[n].items) + 1 -> Nat]
  BY DEF Layout, Starting
<1> QED  BY <1>2, <1>3, <1>4

(* Every item means what it stands for.                                    *)
LEMMA MeansRight ==
  ASSUME ObjectsInv, \A m \in 1 .. Len(objects) : Right(tree, m, objects),
         NEW n \in 1 .. Len(objects), Len(objects[n].code) < Power[objects[n].dataWidth],
         NEW k \in DOMAIN tree[n].items
  PROVE  Means(n, tree[n].items[k], Starts(n)[k])
<1> DEFINE o == objects[n]
           c == o.code
           w == o.width
           dw == o.dataWidth
           items == tree[n].items
           item == items[k]
           all == Len(items) + 1
<1>1. tree \in Trees /\ Len(objects) \in Nat /\ \A m \in 1 .. Len(objects) : m \in DOMAIN tree /\ IsObject(objects[m])
  BY TreeSound DEF ObjectsInv
<1>2. /\ \A m \in 1 .. Len(objects) : IsSeq(objects[m].code) /\ Len(objects[m].code) \in Nat
      /\ IsSeq(c) /\ Len(c) \in Nat
  BY <1>1, SeqIsFunction DEF IsObject
<1>0. w \in Nat /\ dw \in Nat
  BY DEF Right
<1>3. PICK st :
        /\ Layout(tree, n, objects, c, w, dw, all, st)
        /\ Tagging(items, c, o.tagPos, all, st)
        /\ \A j \in Of(items, all, "PushTag") : Tagged(tree, n, objects, c, o.tagPos, w, st, j)
        /\ \A j \in Of(items, all, "PushData") \cup Of(items, all, "PushSub") : Points(tree, n, objects, c, dw, all, st, j)
        /\ \A j \in Of(items, all, "PushProgramSize") : Sized(c, dw, st, j)
  BY DEF Right
<1>4. /\ Len(items) \in Nat /\ k \in 1 .. Len(items) /\ k \in 1 .. all - 1 /\ k \in 1 .. all
      /\ n \in Nat \ {0}
      /\ item.type \in ItemTypes
      /\ item.type \in {"PushSub", "PushSubSize"} => SubOf(tree, n, item.data) \in 1 .. n - 1
      /\ item.type = "PushTag" => item.sub = 0 \/ tree[n].subs[item.sub] \in 1 .. n - 1
  <2>1. tree \in Trees /\ n \in DOMAIN tree
    BY <1>1
  <2>2. n \in Nat \ {0} /\ Len(items) \in Nat /\ DOMAIN items = 1 .. Len(items)
    BY <2>1, ItemsTyped
  <2>3. k \in 1 .. Len(items) /\ k \in 1 .. all - 1 /\ k \in 1 .. all
    BY <2>2
  <2>4. /\ item.type \in ItemTypes
        /\ item.type \in {"PushSub", "PushSubSize"} => SubOf(tree, n, item.data) \in 1 .. n - 1
        /\ item.type = "PushTag" => item.sub = 0 \/ tree[n].subs[item.sub] \in 1 .. n - 1
    BY <2>1, <2>3, ItemsTyped
  <2> HIDE DEF item
  <2> QED  BY <2>2, <2>3, <2>4
<1> DEFINE at == st[k]
<1>5. Starts(n)[k] = at
  <2>1. all = Len(tree[n].items) + 1 /\ Layout(tree, n, objects, objects[n].code, w, dw, all, st)
    BY <1>3
  <2> HIDE DEF w, dw, all
  <2>2. StartsAt(n, st)
    BY <2>1, StartsOf
  <2> QED  BY <1>4, <2>2 DEF StartsAt
<1>6. at \in Nat /\ st[all] \in Nat
  <2>1. all = Len(tree[n].items) + 1 /\ Layout(tree, n, objects, objects[n].code, w, dw, all, st)
    BY <1>3
  <2> HIDE DEF w, dw, all
  <2>2. (\A i \in 1 .. Len(tree[n].items) : st[i] \in Nat) /\ st[all] \in Nat
    BY <2>1, StartsOf
  <2> QED  BY <1>4, <2>2
<1>7. ItemAt(item, c, at, st[k + 1], w, dw, Held(tree, n, objects, item))
  BY <1>3, <1>4 DEF Layout
<1>8. /\ w \in Nat /\ dw \in Nat /\ Len(c) < Power[dw]
      /\ \A type : item.type = type => k \in Of(items, all, type)
  BY <1>0, <1>4 DEF Of
<1> HIDE DEF at
<1>9. ASSUME item.type \in {"Operation", "Tag"}
      PROVE  Means(n, item, at)
  <2>1. /\ item.type = "Operation" => c[at + 1] = Op(item.name)
        /\ item.type = "Tag" => c[at + 1] = Op("JUMPDEST")
    BY <1>7 DEF ItemAt
  <2> HIDE DEF item
  <2> QED  BY <1>9, <2>1 DEF Means
<1>10. ASSUME item.type = "Push"
       PROVE  Means(n, item, at)
  <2>1. NumberAt(c, at, st[k + 1], item.data)
    BY <1>7, <1>10 DEF ItemAt, Held
  <2>2. item.data \in Nat
    BY <1>1, <1>10, TreeSound DEF IsAssembly
  <2>3. Pushed(c, at) = item.data
    BY <2>1, <2>2, NumberRead
  <2> HIDE DEF item
  <2> QED  BY <1>10, <2>3 DEF Means
<1>11. ASSUME item.type = "PushSubSize"
       PROVE  Means(n, item, at)
  <2> DEFINE sub == objects[SubOf(tree, n, item.data)]
  <2>1. NumberAt(c, at, st[k + 1], Len(sub.code))
    BY <1>7, <1>11 DEF ItemAt, Held
  <2>2. Len(sub.code) \in Nat
    BY <1>1, <1>2, <1>4, <1>11
  <2>3. Pushed(c, at) = Len(sub.code)
    BY <2>1, <2>2, NumberRead
  <2>4. sub = objects[subAssemblyById(n, item.data)]
    BY SubOfTree
  <2> HIDE DEF item, sub
  <2> QED  BY <1>11, <2>3, <2>4 DEF Means
<1>12. ASSUME item.type = "PushProgramSize"
       PROVE  Means(n, item, at)
  <2>1. c[at + 1] = Push(dw)
    BY <1>7, <1>12 DEF ItemAt, Gap
  <2>2. Bytes(c, at, dw, Len(c))
    BY <1>3, <1>8, <1>12 DEF Sized, at
  <2> HIDE DEF item, c, dw
  <2>3. Pushed(c, at) = Len(c)
    BY <1>2, <1>8, <2>1, <2>2, ReadBack
  <2> QED  BY <1>12, <2>3 DEF Means, c
<1>13. ASSUME item.type \in {"PushData", "PushSub"}
       PROVE  Means(n, item, at)
  <2> DEFINE cells == Target(tree, n, objects, item)
  <2>1. c[at + 1] = Push(dw)
    BY <1>7, <1>13 DEF ItemAt, Gap
  <2>2. PointedAt(c, at, dw, cells, st[all])
    BY <1>3, <1>8, <1>13 DEF Points, at
  <2>3. /\ item.type = "PushData" => cells = DataOf(n, item.data)
        /\ item.type = "PushSub" => cells = objects[subAssemblyById(n, item.data)].code
    BY SubOfTree DEF Target, Piece, DataOf
  <2>4. IsSeq(cells)
    <3>1. CASE item.type = "PushSub"
      <4>1. cells = objects[SubOf(tree, n, item.data)].code
        BY <3>1 DEF Target
      <4>2. SubOf(tree, n, item.data) \in 1 .. Len(objects)
        BY <1>1, <1>4, <3>1
      <4> QED  BY <1>2, <4>1, <4>2
    <3>2. CASE item.type = "PushData"
      <4> DEFINE m == tree[n].data[item.data]
      <4>1. m \in Nat
        BY <1>1, <1>4, <3>2, ItemsTyped
      <4>2. cells = [i \in 1 .. m |-> cells[i]]
        BY <3>2 DEF Target, Piece
      <4> HIDE DEF cells, m
      <4> QED  BY <4>1, <4>2, FunctionIsSeq
    <3> QED  BY <1>13, <3>1, <3>2
  <2> HIDE DEF cells, item, c, dw
  <2>5. PointsTo(c, at, cells)
    BY <1>2, <1>6, <1>8, <2>1, <2>2, <2>4, PointedRead
  <2> QED  BY <1>13, <2>3, <2>5 DEF Means, c
<1>14. ASSUME item.type = "PushTag"
       PROVE  Means(n, item, at)
  <2> DEFINE j == IF item.sub = 0 THEN n ELSE tree[n].subs[item.sub]
             x == item.data
             tags == objects[j].tagPos
             code2 == objects[j].code
             targets == tree[j].items
  <2>1. j \in 1 .. Len(objects) /\ j \in DOMAIN tree
    BY <1>1, <1>4, <1>14
  <2>2. TagsOf(tree, n, objects, o.tagPos, item.sub) = tags
    BY DEF TagsOf
  <2>3. TagHeld(c, at, w, tags, x)
    BY <1>3, <1>8, <1>14, <2>2 DEF Tagged, at
  <2>4. c[at + 1] = Push(w)
    BY <1>7, <1>14 DEF ItemAt, Gap
  <2>5. /\ x \in DOMAIN tags /\ tags[x] \in Nat
        /\ Pushed(c, at) = tags[x]
    BY <1>8, <2>3, <2>4, ReadBack DEF TagHeld
  <2>6. PICK s :
          /\ Layout(tree, j, objects, code2, objects[j].width, objects[j].dataWidth, Len(targets) + 1, s)
          /\ Tagging(targets, code2, tags, Len(targets) + 1, s)
    BY <2>1 DEF Right
  <2>7. \A m \in 1 .. Len(targets) : Starts(j)[m] = s[m]
    <3> DEFINE count == Len(tree[j].items) + 1
    <3>1. Layout(tree, j, objects, objects[j].code, objects[j].width, objects[j].dataWidth, count, s)
      BY <2>6
    <3>2. count = Len(tree[j].items) + 1
      OBVIOUS
    <3> HIDE DEF j, count
    <3>3. StartsAt(j, s)
      BY <2>1, <3>1, <3>2, StartsOf
    <3> QED  BY <3>3 DEF StartsAt
  <2>8. Len(targets) \in Nat /\ DOMAIN targets = 1 .. Len(targets) /\ 1 .. (Len(targets) + 1) - 1 = 1 .. Len(targets)
    <3>1. Len(targets) \in Nat /\ DOMAIN targets = 1 .. Len(targets)
      <4> HIDE DEF j
      <4> QED  BY <1>1, <2>1, ItemsTyped
    <3> HIDE DEF targets
    <3> QED  BY <3>1
  <2>9. /\ \A m \in 1 .. Len(targets) :
             targets[m].type = "Tag" => targets[m].data \in DOMAIN tags /\ tags[targets[m].data] = s[m]
        /\ \A y \in DOMAIN tags \ {0} : \E m \in 1 .. Len(targets) : targets[m] = Item("Tag", y)
        /\ 0 \in DOMAIN tags => code2[tags[0] + 1] # Op("JUMPDEST")
    BY <2>6, <2>8 DEF Tagging
  <2>10. CASE x = 0
    <3>1. objects[j].code[Pushed(c, at) + 1] # Op("JUMPDEST")
      BY <2>5, <2>9, <2>10
    <3> HIDE DEF c
    <3> QED  BY <1>14, <2>10, <3>1 DEF Means, c
  <2>11. CASE x # 0
    <3> DEFINE M == {m \in DOMAIN targets : targets[m] = Item("Tag", x)}
    <3>1. \A m \in M : Starts(j)[m] = tags[x]
      <4>1. Item("Tag", x).type = "Tag" /\ Item("Tag", x).data = x
        BY DEF Item
      <4>2. \A m \in M : m \in 1 .. Len(targets) /\ targets[m].type = "Tag" /\ targets[m].data = x
        BY <2>8, <4>1
      <4> HIDE DEF M, targets, tags, x, j
      <4> QED  BY <2>7, <2>9, <4>2
    <3>2. M # {}
      BY <2>5, <2>8, <2>9, <2>11
    <3>3. Placed(j, Item("Tag", x)) = {Starts(j)[m] : m \in M}
      BY DEF Placed
    <3> HIDE DEF M
    <3>4. Placed(j, Item("Tag", x)) = {tags[x]}
      BY <3>1, <3>2, <3>3
    <3> QED  BY <1>14, <2>5, <2>11, <3>4 DEF Means
  <2> QED  BY <2>10, <2>11
<1>15. ASSUME item.type \in ItemTypes \ {"Operation", "Tag", "Push", "PushTag", "PushData", "PushSub", "PushSubSize",
                                          "PushProgramSize"}
       PROVE  Means(n, item, at)
  <2> HIDE DEF item
  <2> QED  BY <1>15 DEF Means, ItemTypes
<1> QED  BY <1>4, <1>5, <1>9, <1>10, <1>11, <1>12, <1>13, <1>14, <1>15 DEF ItemTypes

(* The bytecode of an assembly that is done means what its items say: read *)
(* back instruction by instruction, a push of a tag, of data, of a sub or  *)
(* of the size of the program pushes the position of that tag, data or     *)
(* sub, or that size, as long as the bytecode is no longer than positions  *)
(* of that width can tell (what Assembly::assemble promises; tags of subs  *)
(* included).                                                              *)
THEOREM AssemblerReferencesRight == Spec => []ReferencesRight
<1>1. AssemblerInv /\ RightInv => ReferencesRight
  <2> SUFFICES ASSUME ObjectsInv, \A m \in 1 .. Len(objects) : Right(tree, m, objects)
               PROVE  ReferencesRight
    BY DEF AssemblerInv, RightInv
  <2>1. DOMAIN objects = 1 .. Len(objects)
    BY DEF ObjectsInv
  <2> QED  BY <2>1, MeansRight DEF ReferencesRight
<1> QED  BY <1>1, AssemblerAlways, AssemblerRight, PTL

-----------------------------------------------------------------------------
(* Immutables                                                              *)

(* The places behind the pushes of an immutable are those recorded for it. *)
LEMMA PlacesRecorded ==
  ASSUME ObjectsInv, NEW s \in 1 .. Len(objects), Right(tree, s, objects), NEW i,
         NEW at \in Placed(s, Named("PushImmutable", i))
  PROVE  i \in DOMAIN objects[s].immutables /\ at + 1 \in Range(objects[s].immutables[i])
<1> DEFINE o == objects[s]
           items == tree[s].items
           count == Len(items) + 1
<1>1. PICK st : /\ Layout(tree, s, objects, o.code, o.width, o.dataWidth, count, st)
                /\ Recorded(items, count, st, o.immutables)
  BY DEF Right
<1>2. StartsAt(s, st)
  <2>1. count = Len(tree[s].items) + 1
    OBVIOUS
  <2> HIDE DEF count
  <2> QED  BY <1>1, <2>1, StartsOf
<1>3. Len(items) \in Nat /\ DOMAIN items = 1 .. Len(items)
  <2>1. tree \in Trees /\ s \in DOMAIN tree
    BY TreeSound DEF ObjectsInv
  <2> QED  BY <2>1, ItemsTyped
<1>4. PICK k \in DOMAIN items : items[k] = Named("PushImmutable", i) /\ at = Starts(s)[k]
  BY DEF Placed
<1>5. items[k].type = "PushImmutable" /\ items[k].name = i
  BY <1>4 DEF Named
<1>6. k \in Of(items, count, "PushImmutable")
  <2>1. k \in 1 .. count - 1
    BY <1>3
  <2> QED  BY <1>5, <2>1 DEF Of
<1>7. at = st[k]
  BY <1>2, <1>3, <1>4 DEF StartsAt
<1> QED  BY <1>1, <1>5, <1>6, <1>7 DEF Recorded

(* What an assembly assigns is what the only sub with immutables reads.    *)
LEMMA ReadByOne ==
  ASSUME NEW t, NEW n, NEW objs, OneReads(t, n, objs), NEW s \in Range(t[n].subs), DOMAIN objs[s].immutables # {}
  PROVE  Read(t, n, objs) = objs[s].immutables
<1> DEFINE subs == SubObjects(t[n], objs)
           reading == WithImmutables(subs)
<1>1. PICK j \in DOMAIN t[n].subs : t[n].subs[j] = s
  BY DEF Range
<1>2. j \in DOMAIN subs /\ subs[j] = objs[s]
  BY <1>1 DEF SubObjects
<1> HIDE DEF subs
<1>3. j \in reading
  BY <1>2 DEF WithImmutables
<1>4. \A i \in reading : i = j
  BY <1>3 DEF OneReads, subs
<1> HIDE DEF reading
<1>5. (CHOOSE i \in reading : TRUE) = j
  BY <1>3, <1>4
<1> QED  BY <1>2, <1>3, <1>5 DEF Read, ImmutablesOf, subs, reading

(* What is stored to a place is read back as that place.                   *)
LEMMA StoredThere ==
  ASSUME NEW n, NEW at \in Nat, NEW end, NEW x \in Nat, StoresTo(objects[n].code, at, end, x)
  PROVE  x \in Stored(n, at, end)
<1> DEFINE c == objects[n].code
           m == NumberBytes(x)
<1>1. PICK p \in at .. end - 1 : c[p + 1] = Op("DUP1") /\ c[p + 2] = Push(m) /\ Bytes(c, p + 1, m, x)
  BY DEF StoresTo
<1>2. m \in Nat /\ x < Power[m]
  BY NumberBytesSound
<1> HIDE DEF c, m
<1>3. Pushed(c, p + 1) = x
  <2>1. PICK q : q = p + 1
    OBVIOUS
  <2>2. q + 1 = p + 2
    BY <2>1
  <2>3. c[q + 1] = Push(m) /\ Bytes(c, q, m, x)
    BY <1>1, <2>1, <2>2
  <2>4. Pushed(c, q) = x
    BY <1>2, <2>3, ReadBack
  <2> QED  BY <2>1, <2>4
<1> QED  BY <1>1, <1>3 DEF Stored, c

(* An immutable is stored where the sub reads it.                          *)
LEMMA ImmutableWritten ==
  ASSUME ObjectsInv, \A m \in 1 .. Len(objects) : Right(tree, m, objects),
         NEW n \in 1 .. Len(objects), NEW s \in Range(tree[n].subs), NEW i,
         NEW at \in Placed(s, Named("PushImmutable", i))
  PROVE  LET items == tree[n].items
             to == Assigners(items, i)
         IN  /\ to # {}
             /\ \A k \in to : Cardinality(to) = 1 =>
                  at + 1 \in Stored(n, Starts(n)[k], EndOf(items[k], objects[n].code, Starts(n)[k]))
<1> DEFINE o == objects[n]
           c == o.code
           items == tree[n].items
           to == Assigners(items, i)
           count == Len(items) + 1
<1>1. /\ tree \in Trees /\ n \in DOMAIN tree /\ n \in Nat \ {0} /\ Len(items) \in Nat /\ DOMAIN items = 1 .. Len(items)
      /\ IsSeq(c) /\ Len(c) \in Nat
  <2>1. tree \in Trees /\ n \in DOMAIN tree
    BY TreeSound DEF ObjectsInv
  <2>2. IsSeq(c)
    BY DEF ObjectsInv, IsObject
  <2> QED  BY <2>1, <2>2, ItemsTyped, SeqIsFunction
<1>2. s \in 1 .. Len(objects)
  <2>1. tree[n].subs \in Seq(1 .. n - 1)
    BY <1>1, TreesAssumption DEF IsAssembly
  <2>2. s \in 1 .. n - 1
    <3> DEFINE S == 1 .. n - 1
    <3>1. tree[n].subs \in Seq(S)
      BY <2>1
    <3> HIDE DEF S
    <3>2. s \in S
      BY <3>1, Terms DEF Range
    <3> QED  BY <3>2 DEF S
  <2>3. Len(objects) \in Nat
    BY TreeSound
  <2> QED  BY <2>2, <2>3
<1>3. i \in DOMAIN objects[s].immutables /\ at + 1 \in Range(objects[s].immutables[i])
  BY <1>2, PlacesRecorded
<1>4. PICK st : Layout(tree, n, objects, c, o.width, o.dataWidth, count, st)
  BY DEF Right
<1>5. OneReads(tree, n, objects) /\ AllAssigned(tree, n, objects)
  BY DEF Right
<1>6. Read(tree, n, objects) = objects[s].immutables
  BY <1>3, <1>5, ReadByOne
<1>7. to # {}
  BY <1>3, <1>5, <1>6 DEF AllAssigned
<1>8. ASSUME NEW k \in to, Cardinality(to) = 1
      PROVE  at + 1 \in Stored(n, Starts(n)[k], EndOf(items[k], c, Starts(n)[k]))
  <2> DEFINE item == items[k]
             v == Held(tree, n, objects, item)
             from == st[k]
             end == st[k + 1]
  <2>1. k \in 1 .. Len(items) /\ item.type = "AssignImmutable" /\ item.name = i
    BY <1>1 DEF Assigners
  <2>2. k \in 1 .. count - 1 /\ k \in 1 .. count /\ k + 1 \in 1 .. count /\ count = Len(tree[n].items) + 1
    BY <1>1, <2>1
  <2> HIDE DEF item, count
  <2>3. Starts(n)[k] = from
    <3>1. StartsAt(n, st)
      BY <1>4, <2>2, StartsOf
    <3> QED  BY <2>1, <3>1 DEF StartsAt
  <2>4. Starting(st, count, c) /\ ItemAt(item, c, from, end, o.width, o.dataWidth, v)
    BY <1>4, <2>2 DEF Layout, item
  <2>5. from \in Nat /\ end \in Nat /\ end <= Len(c)
    <3>1. from \in Nat /\ end \in Nat /\ st[count] \in Nat /\ st[count] <= Len(c)
      <4>1. st \in [1 .. count -> Nat] /\ count \in Nat \ {0} /\ st[count] <= Len(c)
        BY <2>4 DEF Starting
      <4>2. count \in 1 .. count
        BY <4>1
      <4> QED  BY <2>2, <4>1, <4>2
    <3>2. end <= st[count]
      <4>1. k + 1 <= count /\ count \in 1 .. count
        BY <2>2
      <4> QED  BY <2>2, <2>4, <4>1, StartsGrow
    <3> QED  BY <1>1, <3>1, <3>2
  <2>6. v = Range(objects[s].immutables[i])
    <3>1. v = PlacesOf(tree, n, objects, i)
      BY <2>1 DEF Held
    <3> HIDE DEF to
    <3>2. Cardinality(Assigners(tree[n].items, i)) = 1
      BY <1>8 DEF to
    <3> QED  BY <1>3, <1>6, <3>1, <3>2 DEF PlacesOf, Occurrences
  <2> HIDE DEF v, from, end
  <2>7. at + 1 \in Nat /\ StoresTo(c, from, end, at + 1)
    BY <1>3, <2>1, <2>4, <2>6 DEF ItemAt
  <2>8. at + 1 \in Stored(n, from, end)
    <3>1. PICK x : x = at + 1
      OBVIOUS
    <3>2. x \in Nat /\ StoresTo(objects[n].code, from, end, x)
      BY <2>7, <3>1
    <3> QED  BY <2>5, <3>1, <3>2, StoredThere
  <2>9. EndOf(item, c, from) = end
    <3>1. item.type \in ItemTypes
      BY <2>1 DEF ItemTypes
    <3> HIDE DEF o
    <3> QED  BY <1>1, <2>4, <2>5, <3>1, EndFound DEF o
  <2> QED  BY <2>3, <2>8, <2>9 DEF item
<1> QED  BY <1>7, <1>8

(* Whatever immutable a sub reads is assigned by the assembly that uses    *)
(* it, and an assignment that is the only one of its immutable stores it   *)
(* to every place where the sub reads it: the places recorded when the sub *)
(* was assembled are those of its pushes, and the assembler refuses to     *)
(* merge the places of several subs (Assembly::assemble, the cases         *)
(* PushImmutable and AssignImmutable and the assertions around them).      *)
THEOREM AssemblerImmutablesWritten == Spec => []ImmutablesWritten
<1>1. AssemblerInv /\ RightInv => ImmutablesWritten
  <2> SUFFICES ASSUME ObjectsInv, \A m \in 1 .. Len(objects) : Right(tree, m, objects)
               PROVE  ImmutablesWritten
    BY DEF AssemblerInv, RightInv
  <2>1. DOMAIN objects = 1 .. Len(objects)
    BY DEF ObjectsInv
  <2> SUFFICES ASSUME NEW n \in 1 .. Len(objects), NEW s \in Range(tree[n].subs), NEW i \in Immutables
               PROVE  LET items == tree[n].items
                          to == Assigners(items, i)
                          read == {at + 1 : at \in Placed(s, Named("PushImmutable", i))}
                      IN  /\ read # {} => to # {}
                          /\ \A k \in to : Cardinality(to) = 1 =>
                               read \subseteq Stored(n, Starts(n)[k], EndOf(items[k], objects[n].code, Starts(n)[k]))
    BY <2>1 DEF ImmutablesWritten, Assigners
  <2> QED  BY ImmutableWritten
<1> QED  BY <1>1, AssemblerAlways, AssemblerRight, PTL

-----------------------------------------------------------------------------
(* Library addresses                                                       *)

(* What the library pushes of assembly n are, given those of the others.   *)
PushesAt(f, n) ==
  LET items == tree[n].items
      start == Starts(n)
      own == {<<start[k] + 1, items[k].name>> : k \in {k \in DOMAIN items : items[k].type = "PushLibraryAddress"}}
      appended(k) == {<<Pushed(objects[n].code, start[k]) + l[1], l[2]>> : l \in f[subAssemblyById(n, items[k].data)]}
  IN  own \cup UNION {appended(k) : k \in {k \in DOMAIN items : items[k].type = "PushSub"}}

PushesTo(m, f) == f = [n \in 1 .. m |-> PushesAt(f, n)]

(* The subs of an assembly are among the objects before it.                *)
LEMMA SubBefore ==
  ASSUME ObjectsInv, NEW n \in 1 .. Len(objects), NEW k \in DOMAIN tree[n].items, tree[n].items[k].type = "PushSub"
  PROVE  /\ subAssemblyById(n, tree[n].items[k].data) = SubOf(tree, n, tree[n].items[k].data)
         /\ SubOf(tree, n, tree[n].items[k].data) \in 1 .. n - 1
<1>1. tree \in Trees /\ n \in DOMAIN tree
  BY TreeSound DEF ObjectsInv
<1>2. k \in 1 .. Len(tree[n].items)
  BY <1>1, ItemsTyped
<1>3. SubOf(tree, n, tree[n].items[k].data) \in 1 .. n - 1
  BY <1>1, <1>2, ItemsTyped
<1> QED  BY <1>3, SubOfTree

(* The library pushes depend on those of the assemblies before.            *)
LEMMA PushesSame ==
  ASSUME ObjectsInv, NEW n \in 1 .. Len(objects), NEW f, NEW g, \A m \in 1 .. n - 1 : f[m] = g[m]
  PROVE  PushesAt(f, n) = PushesAt(g, n)
<1> DEFINE items == tree[n].items
           subs == {k \in DOMAIN items : items[k].type = "PushSub"}
           moved(k, h) == {<<Pushed(objects[n].code, Starts(n)[k]) + l[1], l[2]>> : l \in h[subAssemblyById(n, items[k].data)]}
<1>1. \A k \in subs : f[subAssemblyById(n, items[k].data)] = g[subAssemblyById(n, items[k].data)]
  BY SubBefore
<1>2. \A k \in subs : moved(k, f) = moved(k, g)
  BY <1>1
<1> HIDE DEF moved, subs
<1>3. {moved(k, f) : k \in subs} = {moved(k, g) : k \in subs}
  BY <1>2
<1> QED  BY <1>3 DEF PushesAt, moved, subs

(* The library pushes are well defined: subs come first.                   *)
LEMMA PushesDefined ==
  ASSUME ObjectsInv
  PROVE  PushesTo(Len(objects), LibraryPushes)
<1> DEFINE L == Len(objects)
           T == {m \in Nat : m <= L => \E f : PushesTo(m, f)}
<1>1. L \in Nat
  BY TreeSound
<1>2. 0 \in T
  <2>1. PICK f : f = [n \in 1 .. 0 |-> 0]
    OBVIOUS
  <2>2. PushesTo(0, f)
    BY <2>1 DEF PushesTo
  <2> QED  BY <2>2
<1>3. ASSUME NEW m \in Nat, m \in T, m + 1 <= L
      PROVE  \E f : PushesTo(m + 1, f)
  <2>1. PICK f : PushesTo(m, f)
    BY <1>1, <1>3
  <2>2. PICK g : g = [n \in 1 .. m + 1 |-> PushesAt(f, n)]
    OBVIOUS
  <2>3. \A n \in 1 .. m : f[n] = PushesAt(f, n)
    BY <2>1 DEF PushesTo
  <2>4. \A n \in 1 .. m : g[n] = f[n]
    BY <2>2, <2>3
  <2>5. \A n \in 1 .. m + 1 : PushesAt(f, n) = PushesAt(g, n)
    <3> SUFFICES ASSUME NEW n \in 1 .. m + 1 PROVE PushesAt(f, n) = PushesAt(g, n)
      OBVIOUS
    <3>1. n \in 1 .. L /\ \A j \in 1 .. n - 1 : j \in 1 .. m
      BY <1>1, <1>3
    <3>2. n \in 1 .. Len(objects) /\ \A j \in 1 .. n - 1 : f[j] = g[j]
      BY <2>4, <3>1
    <3> QED  BY <3>2, PushesSame
  <2>6. g = [n \in 1 .. m + 1 |-> PushesAt(g, n)]
    BY <2>2, <2>5
  <2> QED  BY <2>6 DEF PushesTo
<1>4. \A m \in Nat : m \in T => m + 1 \in T
  <2> SUFFICES ASSUME NEW m \in Nat, m \in T PROVE m + 1 \in T
    OBVIOUS
  <2>1. m + 1 <= L => \E f : PushesTo(m + 1, f)
    BY <1>3
  <2> QED  BY <2>1
<1> HIDE DEF T
<1>5. L \in T
  BY <1>1, <1>2, <1>4, AllNumbers
<1>6. PICK f : PushesTo(L, f)
  BY <1>1, <1>5 DEF T
<1>7. LibraryPushes = CHOOSE g : PushesTo(Len(objects), g)
  BY DEF LibraryPushes, PushesTo, PushesAt
<1> QED  BY <1>6, <1>7

(* The push that appends a sub pushes its position.                        *)
LEMMA PushesFound ==
  ASSUME ObjectsInv, NEW n \in 1 .. Len(objects), NEW o, o = objects[n], NEW count, count = Len(tree[n].items) + 1,
         NEW st, Layout(tree, n, objects, o.code, o.width, o.dataWidth, count, st),
         o.dataWidth \in Nat, Len(o.code) < Power[o.dataWidth],
         Linking(tree, n, objects, o.code, o.dataWidth, count, st, o.links, Of(tree[n].items, count, "PushSub")),
         NEW f, \A m \in 1 .. n - 1 : f[m] = Listed(objects[m].links)
  PROVE  PushesAt(f, n) = Listed(o.links)
<1> DEFINE c == o.code
           dw == o.dataWidth
           items == tree[n].items
           subs == {k \in DOMAIN items : items[k].type = "PushSub"}
           libs == {k \in DOMAIN items : items[k].type = "PushLibraryAddress"}
<1>1. tree \in Trees /\ n \in DOMAIN tree /\ Len(items) \in Nat /\ DOMAIN items = 1 .. Len(items)
  <2>1. tree \in Trees /\ n \in DOMAIN tree
    BY TreeSound DEF ObjectsInv
  <2> QED  BY <2>1, ItemsTyped
<1>2. /\ \A k \in 1 .. Len(items) : Starts(n)[k] = st[k] /\ st[k] \in Nat
  <2>1. Layout(tree, n, objects, objects[n].code, o.width, o.dataWidth, count, st)
    OBVIOUS
  <2>2. StartsAt(n, st) /\ \A k \in 1 .. Len(tree[n].items) : st[k] \in Nat
    BY <2>1, StartsOf
  <2> QED  BY <2>2 DEF StartsAt
<1>3. count - 1 = Len(items)
  BY <1>1
<1>4. subs = Of(items, count, "PushSub") /\ libs = Of(items, count, "PushLibraryAddress")
  BY <1>1, <1>3 DEF Of
<1>5. PICK pos : Positioned(c, dw, st, subs, pos) /\ Collected(tree, n, objects, count, st, o.links, subs, pos)
  BY <1>4 DEF Linking
<1>6. IsSeq(c) /\ Len(c) \in Nat /\ Power[dw] \in Nat
  BY PowerBound, SeqIsFunction DEF ObjectsInv, IsObject
<1>7. ASSUME NEW k \in subs
      PROVE  /\ Pushed(c, st[k]) = pos[k]
             /\ f[subAssemblyById(n, items[k].data)] = SubLinks(tree, n, objects, items[k])
  <2>1. k \in 1 .. Len(items) /\ k \in 1 .. count - 1 /\ items[k].type = "PushSub"
    BY <1>1, <1>3
  <2>2. c[st[k] + 1] = Push(dw)
    <3>1. Gap(c, st[k], st[k + 1], dw)
      BY <2>1 DEF Layout, ItemAt
    <3> QED  BY <3>1 DEF Gap
  <2>3. pos[k] \in Nat /\ pos[k] < Power[dw] /\ Bytes(c, st[k], dw, pos[k])
    BY <1>5, <1>6 DEF Positioned
  <2>4. Pushed(c, st[k]) = pos[k]
    <3>1. dw \in Nat
      OBVIOUS
    <3> HIDE DEF c, dw
    <3> QED  BY <2>2, <2>3, <3>1, ReadBack
  <2>5. f[subAssemblyById(n, items[k].data)] = SubLinks(tree, n, objects, items[k])
    BY SubBefore DEF SubLinks
  <2> QED  BY <2>4, <2>5
<1> DEFINE appended(k) == {<<Pushed(c, Starts(n)[k]) + l[1], l[2]>> : l \in f[subAssemblyById(n, items[k].data)]}
           own == {<<Starts(n)[k] + 1, items[k].name>> : k \in libs}
<1>8. \A k \in subs : appended(k) = Moved(SubLinks(tree, n, objects, items[k]), pos[k])
  BY <1>1, <1>2, <1>7 DEF Moved
<1>9. own = LibraryRefs(items, count, st)
  <2>1. \A k \in libs : Starts(n)[k] = st[k]
    BY <1>1, <1>2
  <2> HIDE DEF libs
  <2>2. {<<Starts(n)[k] + 1, items[k].name>> : k \in libs} = {<<st[k] + 1, items[k].name>> : k \in libs}
    BY <2>1
  <2> QED  BY <1>4, <2>2 DEF LibraryRefs
<1>10. PushesAt(f, n) = own \cup UNION {appended(k) : k \in subs}
  BY DEF PushesAt
<1> HIDE DEF appended, own, subs
<1>11. {appended(k) : k \in subs} = {Moved(SubLinks(tree, n, objects, items[k]), pos[k]) : k \in subs}
  BY <1>8
<1>12. Listed(o.links) = LibraryRefs(items, count, st)
                           \cup UNION {Moved(SubLinks(tree, n, objects, items[k]), pos[k]) : k \in subs}
  BY <1>5 DEF Collected
<1> QED  BY <1>9, <1>10, <1>11, <1>12

(* The library pushes of an assembly, found by reading its bytecode and    *)
(* that of its subs, are those of its link references.                     *)
LEMMA PushesListed ==
  ASSUME ObjectsInv, \A m \in 1 .. Len(objects) : Right(tree, m, objects),
         NEW n \in 1 .. Len(objects), \A m \in 1 .. n : Len(objects[m].code) < Power[objects[m].dataWidth]
  PROVE  LibraryPushes[n] = Listed(objects[n].links)
<1> DEFINE Found(m) == LibraryPushes[m] = Listed(objects[m].links)
           T == {j \in Nat : j <= n => \A m \in 1 .. j : Found(m)}
<1>1. n \in Nat /\ Len(objects) \in Nat
  BY TreeSound
<1>2. PushesTo(Len(objects), LibraryPushes)
  BY PushesDefined
<1>3. \A m \in 1 .. Len(objects) : LibraryPushes[m] = PushesAt(LibraryPushes, m)
  BY <1>2 DEF PushesTo
<1>4. ASSUME NEW j \in Nat, \A m \in 1 .. j : Found(m), j + 1 <= n
      PROVE  Found(j + 1)
  <2>1. PICK i : i = j + 1
    OBVIOUS
  <2>2. i \in 1 .. Len(objects) /\ i \in 1 .. n /\ \A m \in 1 .. i - 1 : m \in 1 .. j
    BY <1>1, <1>4, <2>1
  <2>3. \A m \in 1 .. i - 1 : LibraryPushes[m] = Listed(objects[m].links)
    BY <1>4, <2>2
  <2>4. PICK o : o = objects[i]
    OBVIOUS
  <2>5. PICK count : count = Len(tree[i].items) + 1
    OBVIOUS
  <2>6. Right(tree, i, objects)
    BY <2>2
  <2>7. PICK st : /\ Layout(tree, i, objects, o.code, o.width, o.dataWidth, count, st)
                  /\ Linking(tree, i, objects, o.code, o.dataWidth, count, st, o.links,
                             Of(tree[i].items, count, "PushSub"))
    BY <2>4, <2>5, <2>6 DEF Right
  <2>8. o.dataWidth \in Nat /\ Len(o.code) < Power[o.dataWidth]
    BY <2>2, <2>4, <2>6 DEF Right
  <2>9. PushesAt(LibraryPushes, i) = Listed(o.links)
    BY <2>2, <2>3, <2>4, <2>5, <2>7, <2>8, PushesFound
  <2> QED  BY <1>3, <2>1, <2>2, <2>4, <2>9
<1> HIDE DEF Found
<1>5. 0 \in T
  OBVIOUS
<1>6. \A j \in Nat : j \in T => j + 1 \in T
  <2> SUFFICES ASSUME NEW j \in Nat, j \in T
               PROVE  j + 1 \in T
    OBVIOUS
  <2>1. ASSUME j + 1 <= n, NEW m \in 1 .. j + 1
        PROVE  Found(m)
    <3>1. \A k \in 1 .. j : Found(k)
      BY <1>1, <2>1
    <3>2. Found(j + 1)
      BY <1>4, <2>1, <3>1
    <3>3. m \in 1 .. j \/ m = j + 1
      BY <2>1
    <3> QED  BY <3>1, <3>2, <3>3
  <2>2. j + 1 \in Nat /\ (j + 1 <= n => \A m \in 1 .. j + 1 : Found(m))
    BY <2>1
  <2> QED  BY <2>2, Zenon
<1> HIDE DEF T
<1>7. n \in T
  BY <1>1, <1>5, <1>6, AllNumbers
<1>8. Found(n)
  BY <1>1, <1>7 DEF T
<1> QED  BY <1>8 DEF Found

(* Addresses that are filled in are where their references are, and        *)
(* nowhere else.                                                           *)
LEMMA AddressesFilled ==
  ASSUME NEW c, IsSeq(c), NEW lk, Spread(lk, Len(c)), NEW resolved \in SUBSET DOMAIN lk,
         NEW e, e = Patched(c, [at \in resolved |-> AddressOf(lk[at])])
  PROVE  /\ \A at \in resolved : Cells(e, at, AddressBytes) = AddressOf(lk[at])
         /\ \A k \in DOMAIN e : e[k] # c[k] => \E at \in resolved : k - at \in 1 .. AddressBytes
<1> DEFINE bytes == [at \in resolved |-> AddressOf(lk[at])]
           Covers(at, i) == i - at \in 1 .. AddressBytes
<1>1. IsSeq(e) /\ Len(e) = Len(c) /\ Len(c) \in Nat /\ DOMAIN e = 1 .. Len(c) /\ DOMAIN c = 1 .. Len(c)
  BY PatchedIsSeq, SeqIsFunction
<1>2. AddressBytes \in Nat \ {0}
  BY BytesAssumption
<1>3. DOMAIN bytes = resolved /\ \A at \in resolved : bytes[at] = AddressOf(lk[at]) /\ DOMAIN bytes[at] = 1 .. AddressBytes
  BY DEF AddressOf
<1>4. \A at \in resolved : /\ at \in Nat /\ at + AddressBytes <= Len(c)
                           /\ \A other \in resolved : at < other => at + AddressBytes <= other
  BY DEF Spread
<1> HIDE DEF bytes
<1>5. \A i \in 1 .. Len(c) : (~ \E at \in resolved : Covers(at, i)) => e[i] = c[i]
  BY <1>1, <1>3 DEF Patched, bytes
<1>6. \A i \in 1 .. Len(c) : \A at \in resolved :
        Covers(at, i) /\ (\A b \in resolved : Covers(b, i) => b = at) => e[i] = bytes[at][i - at]
  BY <1>1, <1>3 DEF Patched, bytes
<1>7. ASSUME NEW at \in resolved
      PROVE  Cells(e, at, AddressBytes) = AddressOf(lk[at])
  <2>1. ASSUME NEW i \in 1 .. AddressBytes
        PROVE  e[at + i] = AddressOf(lk[at])[i]
    <3>1. at + i \in 1 .. Len(c) /\ (at + i) - at = i
      BY <1>1, <1>2, <1>4
    <3>2. Covers(at, at + i)
      BY <3>1
    <3>3. ASSUME NEW b \in resolved, Covers(b, at + i)
          PROVE  b = at
      <4>1. b \in Nat /\ at \in Nat /\ b < at + i /\ at + i <= b + AddressBytes
        BY <1>2, <1>4, <3>3
      <4>2. ~ (at < b) /\ ~ (b < at)
        BY <1>2, <1>4, <4>1
      <4> QED  BY <4>1, <4>2
    <3> QED  BY <1>3, <1>6, <3>1, <3>2, <3>3
  <2>2. PICK S : e \in Seq(S)
    BY <1>1 DEF IsSeq
  <2>3. SubSeq(e, at + 1, at + AddressBytes) = [i \in 1 .. AddressBytes |-> e[at + i]]
    BY <1>1, <1>2, <1>4, <2>2
  <2>4. AddressOf(lk[at]) = [i \in 1 .. AddressBytes |-> AddressOf(lk[at])[i]]
    BY DEF AddressOf
  <2> QED  BY <2>1, <2>3, <2>4 DEF Cells
<1>8. \A k \in DOMAIN e : e[k] # c[k] => \E at \in resolved : Covers(at, k)
  BY <1>1, <1>5
<1> QED  BY <1>7, <1>8

(* What linking has done.                                                  *)
Linked(o) ==
  \E resolved \in SUBSET DOMAIN o.links :
    /\ linked = Patched(o.code, [at \in resolved |-> AddressOf(o.links[at])])
    /\ DOMAIN links = DOMAIN o.links \ resolved

LinkedInv == pc = "done" => Linked(Last(objects))

(* Once linking is done, it has done that.                                 *)
LEMMA LinkedAlways == Spec => []LinkedInv
<1>1. Init => LinkedInv
  BY DEF Init, LinkedInv
<1>2. LinkedInv /\ [Next]_vars => LinkedInv'
  <2> SUFFICES ASSUME LinkedInv, [Next]_vars
               PROVE  LinkedInv'
    OBVIOUS
  <2>1. CASE measure
    BY <2>1 DEF measure, Fail, LinkedInv
  <2>2. CASE appendItem
    BY <2>2 DEF appendItem, Fail, LinkedInv
  <2>3. CASE endOfItems
    BY <2>3 DEF endOfItems, Fail, LinkedInv
  <2>4. CASE appendSub
    BY <2>4 DEF appendSub, LinkedInv
  <2>5. CASE fillTags
    BY <2>5 DEF fillTags, Fail, LinkedInv
  <2>6. CASE appendData
    BY <2>6 DEF appendData, LinkedInv
  <2>7. CASE finish
    BY <2>7 DEF finish, LinkedInv
  <2>8. CASE link
    <3> DEFINE o == Last(objects)
    <3>1. PICK known \in SUBSET Libraries :
            LET resolved == {at \in DOMAIN o.links : o.links[at] \in known}
            IN  /\ linked' = Patched(o.code, [at \in resolved |-> AddressOf(o.links[at])])
                /\ links' = [at \in DOMAIN o.links \ resolved |-> o.links[at]]
      BY <2>8 DEF link
    <3>2. PICK resolved : resolved = {at \in DOMAIN o.links : o.links[at] \in known}
      OBVIOUS
    <3>3. objects' = objects
      BY <2>8 DEF link
    <3> HIDE DEF o
    <3>4. Linked(o)'
      <4>1. o' = o
        BY <3>3 DEF o
      <4>2. DOMAIN links' = DOMAIN o.links \ resolved
        BY <3>1, <3>2
      <4> QED  BY <3>1, <3>2, <4>1, <4>2 DEF Linked
    <3> QED  BY <3>4 DEF LinkedInv, o
  <2>9. CASE UNCHANGED vars
    BY <2>9 DEF vars, LinkedInv, Linked
  <2> QED  BY <2>1, <2>2, <2>3, <2>4, <2>5, <2>6, <2>7, <2>8, <2>9 DEF Next
<1> QED  BY <1>1, <1>2, PTL DEF Spec

(* The link references of a program are those of its pushes of library     *)
(* addresses, in its own code and in that of the subs it contains, at any  *)
(* depth, as long as its positions fit in the widths fixed for them; what  *)
(* linking writes are the addresses at those that are resolved             *)
(* (LinkerObject::append, which moves the references of a sub with its     *)
(* code, and LinkerObject::link).                                          *)
THEOREM AssemblerLinksRight == Spec => []LinksRight
<1>1. AssemblerInv /\ RightInv /\ LinkedInv => LinksRight
  <2> SUFFICES ASSUME ObjectsInv, \A m \in 1 .. Len(objects) : Right(tree, m, objects), LinkedInv,
                      NEW n \in 1 .. Len(objects),
                      \A m \in 1 .. n : Len(objects[m].code) < Power[objects[m].dataWidth]
               PROVE  /\ LibraryPushes[n] = {<<at, objects[n].links[at]>> : at \in DOMAIN objects[n].links}
                      /\ pc = "done" /\ n = Len(objects) =>
                           /\ \A p \in LibraryPushes[n] :
                                p[1] \in DOMAIN links \/ Cells(linked, p[1], AddressBytes) = AddressOf(p[2])
                           /\ \A k \in DOMAIN linked : linked[k] # objects[n].code[k] =>
                                \E p \in LibraryPushes[n] :
                                  p[1] \notin DOMAIN links /\ k - p[1] \in 1 .. AddressBytes
    <3>1. DOMAIN objects = 1 .. Len(objects)
      BY DEF ObjectsInv
    <3> QED  BY <3>1 DEF AssemblerInv, RightInv, LinksRight
  <2> DEFINE c == objects[n].code
             lk == objects[n].links
  <2>1. LibraryPushes[n] = Listed(lk)
    BY PushesListed
  <2>2. Spread(lk, Len(c)) /\ IsSeq(c)
    <3>1. Right(tree, n, objects)
      OBVIOUS
    <3> QED  BY <3>1 DEF Right, Linking, ObjectsInv, IsObject
  <2>3. ASSUME pc = "done", n = Len(objects)
        PROVE  /\ \A p \in LibraryPushes[n] :
                    p[1] \in DOMAIN links \/ Cells(linked, p[1], AddressBytes) = AddressOf(p[2])
               /\ \A k \in DOMAIN linked : linked[k] # c[k] =>
                    \E p \in LibraryPushes[n] : p[1] \notin DOMAIN links /\ k - p[1] \in 1 .. AddressBytes
    <3>1. Last(objects) = objects[n]
      BY <2>3 DEF Last
    <3>2. PICK resolved \in SUBSET DOMAIN lk :
            /\ linked = Patched(c, [at \in resolved |-> AddressOf(lk[at])])
            /\ DOMAIN links = DOMAIN lk \ resolved
      BY <2>3, <3>1 DEF LinkedInv, Linked
    <3> HIDE DEF c, lk
    <3>3. /\ \A at \in resolved : Cells(linked, at, AddressBytes) = AddressOf(lk[at])
          /\ \A k \in DOMAIN linked : linked[k] # c[k] => \E at \in resolved : k - at \in 1 .. AddressBytes
      BY <2>2, <3>2, AddressesFilled
    <3>4. \A p \in LibraryPushes[n] : p[1] \in DOMAIN lk /\ p[2] = lk[p[1]]
      BY <2>1 DEF Listed
    <3>5. \A at \in DOMAIN lk : <<at, lk[at]>> \in LibraryPushes[n]
      BY <2>1 DEF Listed
    <3>6. ASSUME NEW k \in DOMAIN linked, linked[k] # c[k]
          PROVE  \E p \in LibraryPushes[n] : p[1] \notin DOMAIN links /\ k - p[1] \in 1 .. AddressBytes
      <4>1. PICK at \in resolved : k - at \in 1 .. AddressBytes
        BY <3>3, <3>6
      <4>2. PICK p : p = <<at, lk[at]>>
        OBVIOUS
      <4>3. p \in LibraryPushes[n] /\ p[1] = at /\ at \notin DOMAIN links
        BY <3>2, <3>5, <4>2
      <4> QED  BY <4>1, <4>3
    <3>7. ASSUME NEW p \in LibraryPushes[n], p[1] \notin DOMAIN links
          PROVE  Cells(linked, p[1], AddressBytes) = AddressOf(p[2])
      <4>1. p[1] \in resolved /\ p[2] = lk[p[1]]
        BY <3>2, <3>4, <3>7
      <4> QED  BY <3>3, <4>1
    <3> QED  BY <3>6, <3>7
  <2> QED  BY <2>1, <2>3 DEF Listed
<1> QED  BY <1>1, AssemblerAlways, AssemblerRight, LinkedAlways, PTL
=============================================================================
