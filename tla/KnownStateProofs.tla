-------------------------- MODULE KnownStateProofs --------------------------
(***************************************************************************)
(* The knowledge of KnownState about storage, memory and hashes is sound   *)
(* for words of any size, any constants and blocks of any length, as long  *)
(* as the number of hashed words tells how many bytes are hashed; and      *)
(* sequence numbers separate loads and stores.                             *)
(***************************************************************************)
EXTENDS KnownState, Induction, SequenceTheorems

-----------------------------------------------------------------------------
(* Numbers: a digit more, and a digit less.                                *)
LEMMA DigitAppended ==
  ASSUME NEW b \in Nat, NEW p \in Nat \ {0}, NEW x \in 0 .. p - 1, NEW d \in 0 .. b - 1
  PROVE  b * x + d \in 0 .. b * p - 1
<1>1. b * x <= b * (p - 1)
  OBVIOUS
<1>2. b * (p - 1) = b * p - b /\ b * x \in Nat /\ b * p \in Nat
  OBVIOUS
<1> QED  BY <1>1, <1>2

(* A number is its last digit and the digits before it.                    *)
LEMMA DigitSplit ==
  ASSUME NEW v \in Nat, NEW p \in Nat \ {0}, NEW b \in Nat \ {0}
  PROVE  v \div p = b * (v \div (b * p)) + ((v \div p) % b)
<1>1. v \div (p * b) = (v \div p) \div b /\ p * b = b * p
  OBVIOUS
<1>2. v \div p \in Nat
  OBVIOUS
<1>3. \A q \in Nat : q = b * (q \div b) + (q % b)
  OBVIOUS
<1> QED  BY <1>1, <1>2, <1>3

(* The last digit and the ones before it are determined by the number.     *)
LEMMA LastDigit ==
  ASSUME NEW b \in Nat \ {0}, NEW x \in Nat, NEW d \in 0 .. b - 1, NEW y \in Nat, NEW e \in 0 .. b - 1,
         b * x + d = b * y + e
  PROVE  x = y /\ d = e
<1>1. (b * x + d) \div b = x /\ (b * y + e) \div b = y
  OBVIOUS
<1> QED  BY <1>1

(* The powers of the base, and with them the words.                        *)
IsPower(f) == f = [k \in 0 .. WordSize |-> IF k = 0 THEN 1 ELSE Base * f[k - 1]]

(* Power is the function its recursive definition describes, and positive. *)
LEMMA Powers ==
  /\ Power[0] = 1
  /\ \A k \in 1 .. WordSize : Power[k] = Base * Power[k - 1]
  /\ \A k \in 0 .. WordSize : Power[k] \in Nat \ {0}
<1> DEFINE V == Nat \ {0}
           step == [i \in 1 .. WordSize |-> [x \in V |-> Base * x]]
           T == {k \in 0 .. WordSize : Power[k] \in V}
<1>0. WordSize \in Nat \ {0} /\ Base \in Nat \ {0}
  BY SizesAssumption
<1>1. /\ step \in [1 .. WordSize -> [V -> V]] /\ 1 \in V
      /\ \A i \in 1 .. WordSize : \A x \in V : step[i][x] = Base * x
  BY <1>0
<1> HIDE DEF step
<1>2. \E f : IsPower(f)
  <2>1. PICK f : IsHistory(f, V, WordSize, 1, step)
    <3> HIDE DEF V
    <3> QED  BY <1>0, <1>1, Iteration
  <2>2. /\ f \in [0 .. WordSize -> V]
        /\ \A i \in 0 .. WordSize : f[i] = IF i = 0 THEN 1 ELSE step[i][f[i - 1]]
    BY <2>1 DEF IsHistory
  <2>3. \A i \in 0 .. WordSize : f[i] = IF i = 0 THEN 1 ELSE Base * f[i - 1]
    <3> SUFFICES ASSUME NEW i \in 0 .. WordSize
                 PROVE  f[i] = IF i = 0 THEN 1 ELSE Base * f[i - 1]
      OBVIOUS
    <3>1. i # 0 => i - 1 \in 0 .. WordSize /\ i \in 1 .. WordSize
      BY <1>0
    <3> QED  BY <1>1, <2>2, <3>1
  <2>4. f = [k \in 0 .. WordSize |-> IF k = 0 THEN 1 ELSE Base * f[k - 1]]
    BY <2>2, <2>3
  <2> QED  BY <2>4 DEF IsPower
<1>3. IsPower(Power)
  BY <1>2 DEF Power, IsPower
<1>4. /\ Power[0] = 1
      /\ \A k \in 1 .. WordSize : Power[k] = Base * Power[k - 1]
  BY <1>0, <1>3 DEF IsPower
<1>5. 0 \in T
  BY <1>0, <1>4
<1>6. ASSUME NEW n \in 0 .. WordSize - 1, n \in T
      PROVE  n + 1 \in T
  <2>1. n + 1 \in 1 .. WordSize /\ (n + 1) - 1 = n
    BY <1>0
  <2>2. Power[n + 1] = Base * Power[n] /\ Power[n] \in V
    BY <1>4, <1>6, <2>1
  <2>3. \A x \in Nat \ {0} : Base * x \in Nat \ {0}
    BY <1>0
  <2> QED  BY <1>0, <2>1, <2>2, <2>3
<1>7. 0 .. WordSize \subseteq T
  <2>1. \A n \in 0 .. WordSize - 1 : n \in T => n + 1 \in T
    BY <1>6
  <2> HIDE DEF T
  <2> QED  BY <1>0, <1>5, <2>1, NumbersUpTo
<1> QED  BY <1>4, <1>7

(* There are words, and 0 is one.                                          *)
LEMMA ModulusPositive == Modulus \in Nat \ {0} /\ 0 \in Word
  BY Powers, SizesAssumption DEF Modulus, Word

-----------------------------------------------------------------------------
(* Words in memory.                                                        *)
Memories == [Word -> 0 .. Base - 1]

SumAt(mem, a, f, i) == IF i = 0 THEN 0 ELSE Base * f[i - 1] + mem[a + i - 1]

IsSum(mem, a, f) ==
  /\ f \in [0 .. WordSize -> Nat]
  /\ \A i \in 0 .. WordSize : f[i] = SumAt(mem, a, f, i)

(* The addresses of the bytes of a word in memory are words.               *)
LEMMA BytesOfWord ==
  ASSUME NEW mem \in Memories, NEW a \in Word, InMemory(a, WordSize), NEW i \in 1 .. WordSize
  PROVE  a + i - 1 \in Word /\ mem[a + i - 1] \in 0 .. Base - 1
<1>1. a + i - 1 \in Word
  BY ModulusPositive, SizesAssumption DEF InMemory, Word
<1> QED  BY <1>1 DEF Memories

(* A word is the sum of its digits.                                        *)
LEMMA WordIsSum ==
  ASSUME NEW mem \in Memories, NEW a \in Word, InMemory(a, WordSize)
  PROVE  \E f : IsSum(mem, a, f) /\ WordAt(mem, a) = f[WordSize]
<1> DEFINE step == [i \in 1 .. WordSize |-> [x \in Nat |-> Base * x + mem[a + i - 1]]]
           Unfolds(f) == f = [i \in 0 .. WordSize |-> SumAt(mem, a, f, i)]
           sum == CHOOSE f : Unfolds(f)
           T == {i \in 0 .. WordSize : sum[i] \in Nat}
<1>0. WordSize \in Nat \ {0} /\ Base \in Nat \ {0}
  BY SizesAssumption
<1>1. \A i \in 1 .. WordSize : mem[a + i - 1] \in Nat
  BY <1>0, BytesOfWord
<1>2. /\ step \in [1 .. WordSize -> [Nat -> Nat]]
      /\ \A i \in 1 .. WordSize : \A x \in Nat : step[i][x] = Base * x + mem[a + i - 1]
  BY <1>0, <1>1
<1> HIDE DEF step
<1>3. \E f : Unfolds(f)
  <2>1. PICK f : IsHistory(f, Nat, WordSize, 0, step)
    BY <1>0, <1>2, Iteration
  <2>2. /\ f \in [0 .. WordSize -> Nat]
        /\ \A i \in 0 .. WordSize : f[i] = IF i = 0 THEN 0 ELSE step[i][f[i - 1]]
    BY <2>1 DEF IsHistory
  <2>3. \A i \in 0 .. WordSize : f[i] = SumAt(mem, a, f, i)
    <3> SUFFICES ASSUME NEW i \in 0 .. WordSize PROVE f[i] = SumAt(mem, a, f, i)
      OBVIOUS
    <3>1. CASE i = 0
      BY <1>0, <2>2, <3>1 DEF SumAt
    <3>2. CASE i # 0
      <4>1. i \in 1 .. WordSize /\ f[i - 1] \in Nat
        BY <1>0, <2>2, <3>2
      <4> QED  BY <1>2, <2>2, <3>2, <4>1 DEF SumAt
    <3> QED  BY <3>1, <3>2
  <2>4. Unfolds(f)
    BY <2>2, <2>3
  <2> QED  BY <2>4
<1>4. Unfolds(sum)
  BY <1>3
<1>5. WordAt(mem, a) = sum[WordSize]
  BY DEF WordAt, SumAt
<1> HIDE DEF sum
<1>6. \A i \in 0 .. WordSize : sum[i] = SumAt(mem, a, sum, i)
  BY <1>4
<1>7. 0 \in T
  BY <1>0, <1>6 DEF SumAt
<1>8. ASSUME NEW n \in 0 .. WordSize - 1, n \in T
      PROVE  n + 1 \in T
  <2>1. n + 1 \in 1 .. WordSize /\ n + 1 \in 0 .. WordSize /\ n + 1 # 0 /\ (n + 1) - 1 = n
    BY <1>0
  <2>2. sum[n + 1] = Base * sum[n] + mem[a + (n + 1) - 1]
    BY <1>6, <2>1 DEF SumAt
  <2>3. sum[n] \in Nat /\ mem[a + (n + 1) - 1] \in Nat
    BY <1>1, <1>8, <2>1
  <2> QED  BY <1>0, <2>1, <2>2, <2>3
<1>9. 0 .. WordSize \subseteq T
  <2>1. \A n \in 0 .. WordSize - 1 : n \in T => n + 1 \in T
    BY <1>8
  <2> HIDE DEF T
  <2> QED  BY <1>0, <1>7, <2>1, NumbersUpTo
<1>10. sum \in [0 .. WordSize -> Nat]
  BY <1>4, <1>9
<1> QED  BY <1>5, <1>6, <1>10 DEF IsSum

(* The sums of two memories with the same bytes are the same.              *)
LEMMA WordAtSame ==
  ASSUME NEW mem \in Memories, NEW new \in Memories, NEW a \in Word, InMemory(a, WordSize),
         \A i \in 1 .. WordSize : new[a + i - 1] = mem[a + i - 1]
  PROVE  WordAt(new, a) = WordAt(mem, a)
<1>0. WordSize \in Nat \ {0}
  BY SizesAssumption
<1>1. PICK f : IsSum(mem, a, f) /\ WordAt(mem, a) = f[WordSize]
  BY WordIsSum
<1>2. PICK g : IsSum(new, a, g) /\ WordAt(new, a) = g[WordSize]
  BY WordIsSum
<1> DEFINE T == {i \in 0 .. WordSize : f[i] = g[i]}
<1>3. \A i \in 0 .. WordSize : f[i] = SumAt(mem, a, f, i) /\ g[i] = SumAt(new, a, g, i)
  BY <1>1, <1>2 DEF IsSum
<1>4. 0 \in T
  BY <1>0, <1>3 DEF SumAt
<1>5. ASSUME NEW n \in 0 .. WordSize - 1, n \in T
      PROVE  n + 1 \in T
  <2>1. n + 1 \in 1 .. WordSize /\ n + 1 \in 0 .. WordSize /\ n + 1 # 0 /\ (n + 1) - 1 = n
    BY <1>0
  <2>2. /\ f[n + 1] = Base * f[n] + mem[a + (n + 1) - 1]
        /\ g[n + 1] = Base * g[n] + new[a + (n + 1) - 1]
    BY <1>3, <2>1 DEF SumAt
  <2> QED  BY <1>5, <2>1, <2>2
<1>6. 0 .. WordSize \subseteq T
  <2>1. \A n \in 0 .. WordSize - 1 : n \in T => n + 1 \in T
    BY <1>5
  <2> HIDE DEF T
  <2> QED  BY <1>0, <1>4, <2>1, NumbersUpTo
<1> QED  BY <1>0, <1>1, <1>2, <1>6

(* Memory holds words.                                                     *)
LEMMA WordAtTyped ==
  ASSUME NEW mem \in Memories, NEW a \in Word, InMemory(a, WordSize)
  PROVE  WordAt(mem, a) \in Word
<1>0. WordSize \in Nat \ {0} /\ Base \in Nat \ {0}
  BY SizesAssumption
<1>1. PICK f : IsSum(mem, a, f) /\ WordAt(mem, a) = f[WordSize]
  BY WordIsSum
<1> DEFINE T == {i \in 0 .. WordSize : f[i] \in 0 .. Power[i] - 1}
<1>2. \A i \in 0 .. WordSize : f[i] = SumAt(mem, a, f, i)
  BY <1>1 DEF IsSum
<1>3. 0 \in T
  BY <1>0, <1>2, Powers DEF SumAt
<1>4. ASSUME NEW n \in 0 .. WordSize - 1, n \in T
      PROVE  n + 1 \in T
  <2>1. n + 1 \in 1 .. WordSize /\ n + 1 \in 0 .. WordSize /\ n + 1 # 0 /\ (n + 1) - 1 = n
        /\ n \in 0 .. WordSize
    BY <1>0
  <2>2. f[n + 1] = Base * f[n] + mem[a + (n + 1) - 1]
    BY <1>2, <2>1 DEF SumAt
  <2>3. f[n] \in 0 .. Power[n] - 1 /\ mem[a + (n + 1) - 1] \in 0 .. Base - 1
    BY <1>4, <2>1, BytesOfWord
  <2>4. Power[n] \in Nat \ {0} /\ Power[n + 1] = Base * Power[n]
    BY <2>1, Powers
  <2>5. f[n + 1] \in 0 .. Power[n + 1] - 1
    BY <1>0, <2>2, <2>3, <2>4, DigitAppended
  <2> QED  BY <2>1, <2>5
<1>5. 0 .. WordSize \subseteq T
  <2>1. \A n \in 0 .. WordSize - 1 : n \in T => n + 1 \in T
    BY <1>4
  <2> HIDE DEF T
  <2> QED  BY <1>0, <1>3, <2>1, NumbersUpTo
<1> QED  BY <1>0, <1>1, <1>5 DEF Word, Modulus

(* Words with the same value consist of the same bytes.                    *)
LEMMA WordAtInjective ==
  ASSUME NEW mem \in Memories, NEW new \in Memories, NEW a \in Word, InMemory(a, WordSize),
         WordAt(new, a) = WordAt(mem, a)
  PROVE  \A i \in 1 .. WordSize : new[a + i - 1] = mem[a + i - 1]
<1>0. WordSize \in Nat \ {0} /\ Base \in Nat \ {0}
  BY SizesAssumption
<1>1. PICK f : IsSum(mem, a, f) /\ WordAt(mem, a) = f[WordSize]
  BY WordIsSum
<1>2. PICK g : IsSum(new, a, g) /\ WordAt(new, a) = g[WordSize]
  BY WordIsSum
<1> DEFINE T == {n \in 0 .. WordSize : f[WordSize - n] = g[WordSize - n]}
<1>3. ASSUME NEW i \in 1 .. WordSize, f[i] = g[i]
      PROVE  f[i - 1] = g[i - 1] /\ mem[a + i - 1] = new[a + i - 1]
  <2>1. i \in 0 .. WordSize /\ i # 0 /\ i - 1 \in 0 .. WordSize
    BY <1>0
  <2>2. /\ f[i] = Base * f[i - 1] + mem[a + i - 1] /\ g[i] = Base * g[i - 1] + new[a + i - 1]
        /\ f[i - 1] \in Nat /\ g[i - 1] \in Nat
    BY <1>1, <1>2, <2>1 DEF IsSum, SumAt
  <2>3. mem[a + i - 1] \in 0 .. Base - 1 /\ new[a + i - 1] \in 0 .. Base - 1
    BY BytesOfWord
  <2> DEFINE x == f[i - 1]
             y == g[i - 1]
             d == mem[a + i - 1]
             e == new[a + i - 1]
  <2>4. Base * x + d = Base * y + e
    BY <1>3, <2>2
  <2>5. x \in Nat /\ y \in Nat /\ d \in 0 .. Base - 1 /\ e \in 0 .. Base - 1
    BY <2>2, <2>3
  <2> HIDE DEF x, y, d, e
  <2>6. x = y /\ d = e
    BY <1>0, <2>4, <2>5, LastDigit
  <2> QED  BY <2>6 DEF x, y, d, e
<1>4. 0 \in T
  BY <1>0, <1>1, <1>2
<1>5. ASSUME NEW n \in 0 .. WordSize - 1, n \in T
      PROVE  n + 1 \in T
  <2>1. WordSize - n \in 1 .. WordSize /\ (WordSize - n) - 1 = WordSize - (n + 1)
        /\ n + 1 \in 0 .. WordSize
    BY <1>0
  <2>2. f[WordSize - n] = g[WordSize - n]
    BY <1>5
  <2> QED  BY <1>3, <2>1, <2>2
<1>6. 0 .. WordSize \subseteq T
  <2>1. \A n \in 0 .. WordSize - 1 : n \in T => n + 1 \in T
    BY <1>5
  <2> HIDE DEF T
  <2> QED  BY <1>0, <1>4, <2>1, NumbersUpTo
<1>7. ASSUME NEW i \in 1 .. WordSize
      PROVE  new[a + i - 1] = mem[a + i - 1]
  <2>1. WordSize - i \in 0 .. WordSize /\ WordSize - (WordSize - i) = i
    BY <1>0
  <2>2. f[i] = g[i]
    BY <1>6, <2>1
  <2> QED  BY <1>3, <2>2
<1> QED  BY <1>7

(* MSTORE writes the digits of a word, and leaves the other bytes.         *)
LEMMA WrittenBytes ==
  ASSUME NEW mem \in Memories, NEW a \in Word, InMemory(a, WordSize), NEW v \in Word
  PROVE  /\ WriteWord(mem, a, v) \in Memories
         /\ \A i \in 1 .. WordSize :
              WriteWord(mem, a, v)[a + i - 1] = (v \div Power[WordSize - i]) % Base
         /\ \A x \in Word : x \notin a .. a + WordSize - 1 => WriteWord(mem, a, v)[x] = mem[x]
<1> DEFINE new == WriteWord(mem, a, v)
<1>0. WordSize \in Nat \ {0} /\ Base \in Nat \ {0} /\ a \in Nat /\ v \in Nat
  BY SizesAssumption, ModulusPositive DEF Word
<1>1. \A i \in 1 .. WordSize : /\ Digits(v)[i] = (v \div Power[WordSize - i]) % Base
                               /\ Digits(v)[i] \in 0 .. Base - 1
  <2> SUFFICES ASSUME NEW i \in 1 .. WordSize
               PROVE  /\ Digits(v)[i] = (v \div Power[WordSize - i]) % Base
                      /\ Digits(v)[i] \in 0 .. Base - 1
    OBVIOUS
  <2>1. Digits(v)[i] = (v \div Power[WordSize - i]) % Base
    BY DEF Digits
  <2>2. Power[WordSize - i] \in Nat \ {0}
    BY <1>0, Powers
  <2>3. v \div Power[WordSize - i] \in Nat
    BY <1>0, <2>2
  <2> QED  BY <1>0, <2>1, <2>3
<1>2. DOMAIN mem = Word
  BY DEF Memories
<1>3. /\ \A x \in Word : new[x] = IF x \in a .. a + WordSize - 1
                                  THEN Digits(v)[x - a + 1] ELSE mem[x]
      /\ new = [x \in Word |-> new[x]]
  BY <1>2 DEF WriteWord
<1> HIDE DEF new
<1>4. \A x \in Word : new[x] \in 0 .. Base - 1
  <2> SUFFICES ASSUME NEW x \in Word PROVE new[x] \in 0 .. Base - 1
    OBVIOUS
  <2>1. CASE x \in a .. a + WordSize - 1
    <3>1. x - a + 1 \in 1 .. WordSize
      BY <1>0, <2>1
    <3> QED  BY <1>1, <1>3, <2>1, <3>1
  <2>2. CASE x \notin a .. a + WordSize - 1
    BY <1>3, <2>2 DEF Memories
  <2> QED  BY <2>1, <2>2
<1>5. ASSUME NEW i \in 1 .. WordSize
      PROVE  new[a + i - 1] = (v \div Power[WordSize - i]) % Base
  <2>1. /\ a + i - 1 \in a .. a + WordSize - 1 /\ (a + i - 1) - a + 1 = i
        /\ a + i - 1 \in Word
    BY <1>0, BytesOfWord
  <2> QED  BY <1>1, <1>3, <2>1
<1> QED  BY <1>3, <1>4, <1>5 DEF Memories, new

(* What was written is read.                                               *)
LEMMA WordAtWritten ==
  ASSUME NEW mem \in Memories, NEW a \in Word, InMemory(a, WordSize), NEW v \in Word
  PROVE  WordAt(WriteWord(mem, a, v), a) = v
<1> DEFINE new == WriteWord(mem, a, v)
<1>0. WordSize \in Nat \ {0} /\ Base \in Nat \ {0} /\ v \in Nat /\ v < Modulus /\ Modulus \in Nat
  BY SizesAssumption, ModulusPositive DEF Word
<1>1. /\ new \in Memories
      /\ \A i \in 1 .. WordSize : new[a + i - 1] = (v \div Power[WordSize - i]) % Base
  BY WrittenBytes
<1> HIDE DEF new
<1>2. PICK f : IsSum(new, a, f) /\ WordAt(new, a) = f[WordSize]
  BY <1>1, WordIsSum
<1> DEFINE T == {i \in 0 .. WordSize : f[i] = v \div Power[WordSize - i]}
<1>3. \A i \in 0 .. WordSize : f[i] = SumAt(new, a, f, i)
  BY <1>2 DEF IsSum
<1>4. 0 \in T
  <2>1. f[0] = 0
    BY <1>0, <1>3 DEF SumAt
  <2>2. Power[WordSize - 0] = Modulus
    BY <1>0 DEF Modulus
  <2>3. v \div Modulus = 0
    BY <1>0
  <2> QED  BY <1>0, <2>1, <2>2, <2>3
<1>5. ASSUME NEW n \in 0 .. WordSize - 1, n \in T
      PROVE  n + 1 \in T
  <2> DEFINE p == Power[WordSize - (n + 1)]
  <2>1. n + 1 \in 1 .. WordSize /\ n + 1 \in 0 .. WordSize /\ n + 1 # 0 /\ (n + 1) - 1 = n
    BY <1>0
  <2>2. /\ WordSize - n \in 1 .. WordSize /\ (WordSize - n) - 1 = WordSize - (n + 1)
        /\ WordSize - (n + 1) \in 0 .. WordSize
    BY <1>0
  <2>3. p \in Nat \ {0} /\ Power[WordSize - n] = Base * p
    BY <2>2, Powers
  <2>4. f[n + 1] = Base * f[n] + new[a + (n + 1) - 1]
    BY <1>3, <2>1 DEF SumAt
  <2>5. new[a + (n + 1) - 1] = (v \div p) % Base
    BY <1>1, <2>1
  <2>6. f[n] = v \div (Base * p)
    BY <1>5, <2>3
  <2>7. v \div p = Base * (v \div (Base * p)) + ((v \div p) % Base)
    BY <1>0, <2>3, DigitSplit
  <2>8. f[n + 1] = v \div p
    BY <2>4, <2>5, <2>6, <2>7
  <2> QED  BY <2>1, <2>8
<1>6. 0 .. WordSize \subseteq T
  <2>1. \A n \in 0 .. WordSize - 1 : n \in T => n + 1 \in T
    BY <1>5
  <2> HIDE DEF T
  <2> QED  BY <1>0, <1>4, <2>1, NumbersUpTo
<1>7. f[WordSize] = v \div Power[WordSize - WordSize] /\ WordSize - WordSize = 0
  BY <1>0, <1>6
<1>8. f[WordSize] = v
  BY <1>0, <1>7, Powers
<1> QED  BY <1>2, <1>8 DEF new

(* Words that do not overlap the written one stay as they are.             *)
LEMMA WordAtElsewhere ==
  ASSUME NEW mem \in Memories, NEW a \in Word, InMemory(a, WordSize), NEW v \in Word,
         NEW b \in Word, InMemory(b, WordSize), b + WordSize <= a \/ a + WordSize <= b
  PROVE  WordAt(WriteWord(mem, a, v), b) = WordAt(mem, b)
<1> DEFINE new == WriteWord(mem, a, v)
<1>1. new \in Memories /\ \A x \in Word : x \notin a .. a + WordSize - 1 => new[x] = mem[x]
  BY WrittenBytes
<1> HIDE DEF new
<1>2. ASSUME NEW i \in 1 .. WordSize PROVE new[b + i - 1] = mem[b + i - 1]
  <2>1. b + i - 1 \in Word
    BY BytesOfWord
  <2>2. b + i - 1 \notin a .. a + WordSize - 1
    BY SizesAssumption, ModulusPositive DEF Word
  <2> QED  BY <1>1, <2>1, <2>2
<1>3. WordAt(new, b) = WordAt(mem, b)
  BY <1>1, <1>2, WordAtSame
<1> QED  BY <1>3 DEF new

(* Writing what is there changes nothing.                                  *)
LEMMA WrittenAgain ==
  ASSUME NEW mem \in Memories, NEW a \in Word, InMemory(a, WordSize)
  PROVE  WriteWord(mem, a, WordAt(mem, a)) = mem
<1> DEFINE v == WordAt(mem, a)
           new == WriteWord(mem, a, v)
<1>0. v \in Word
  BY WordAtTyped
<1> HIDE DEF v
<1>1. new \in Memories /\ \A x \in Word : x \notin a .. a + WordSize - 1 => new[x] = mem[x]
  BY <1>0, WrittenBytes
<1>2. WordAt(new, a) = v
  BY <1>0, WordAtWritten
<1> HIDE DEF new
<1>3. \A i \in 1 .. WordSize : new[a + i - 1] = mem[a + i - 1]
  BY <1>1, <1>2, WordAtInjective DEF v
<1>4. ASSUME NEW x \in Word PROVE new[x] = mem[x]
  <2>1. CASE x \in a .. a + WordSize - 1
    <3>1. x - a + 1 \in 1 .. WordSize /\ a + (x - a + 1) - 1 = x
      BY <2>1, SizesAssumption, ModulusPositive DEF Word
    <3> QED  BY <1>3, <3>1
  <2> QED  BY <1>1, <2>1
<1>5. new = mem
  BY <1>1, <1>4 DEF Memories
<1> QED  BY <1>5 DEF new, v

-----------------------------------------------------------------------------
(* Hashes of bytes that lie in words.                                      *)
WordsOf(n) == (n + WordSize - 1) \div WordSize

(* The hash of the first n bytes of a list of words.                       *)
HashOf(values, n) ==
  Hash([k \in 1 .. n |->
          Digits(values[((k - 1) \div WordSize) + 1])[((k - 1) % WordSize) + 1]])

(* The digits of a word are its bytes.                                     *)
LEMMA ByteOfWord ==
  ASSUME NEW mem \in Memories, NEW a \in Word, InMemory(a, WordSize), NEW r \in 1 .. WordSize
  PROVE  Digits(WordAt(mem, a))[r] = mem[a + r - 1]
<1> DEFINE v == WordAt(mem, a)
<1>1. v \in Word /\ WriteWord(mem, a, v) = mem
  BY WordAtTyped, WrittenAgain
<1> HIDE DEF v
<1>2. mem[a + r - 1] = (v \div Power[WordSize - r]) % Base
  BY <1>1, WrittenBytes
<1>3. Digits(v)[r] = (v \div Power[WordSize - r]) % Base
  BY DEF Digits
<1> QED  BY <1>2, <1>3 DEF v

(* The words that n bytes touch, and the place of a byte in them.          *)
LEMMA WordsTouched ==
  ASSUME NEW n \in Nat
  PROVE  /\ WordsOf(n) \in Nat
         /\ \A k \in 1 .. n : LET i == ((k - 1) \div WordSize) + 1
                                  r == ((k - 1) % WordSize) + 1
                              IN  /\ i \in 1 .. WordsOf(n) /\ r \in 1 .. WordSize
                                  /\ k = (i - 1) * WordSize + r
<1>0. WordSize \in Nat \ {0}
  BY SizesAssumption
<1>1. WordsOf(n) \in Nat /\ n <= WordsOf(n) * WordSize
  BY <1>0 DEF WordsOf
<1>2. ASSUME NEW k \in 1 .. n
      PROVE  LET i == ((k - 1) \div WordSize) + 1
                 r == ((k - 1) % WordSize) + 1
             IN  /\ i \in 1 .. WordsOf(n) /\ r \in 1 .. WordSize
                 /\ k = (i - 1) * WordSize + r
  <2> DEFINE q == (k - 1) \div WordSize
             m == (k - 1) % WordSize
             L == WordsOf(n)
  <2>1. q \in Nat /\ m \in 0 .. WordSize - 1 /\ k - 1 = WordSize * q + m
    BY <1>0
  <2>2. L \in Nat /\ n <= L * WordSize
    BY <1>1
  <2> HIDE DEF q, m, L
  <2>3. q < L
    <3> SUFFICES ASSUME q >= L PROVE FALSE
      BY <2>1, <2>2
    <3>1. WordSize * q >= WordSize * L
      BY <1>0, <2>1, <2>2
    <3>2. k - 1 >= L * WordSize
      BY <1>0, <2>1, <2>2, <3>1
    <3> QED  BY <1>0, <2>2, <3>2
  <2>4. q + 1 \in 1 .. L /\ m + 1 \in 1 .. WordSize /\ k = ((q + 1) - 1) * WordSize + (m + 1)
    BY <1>0, <2>1, <2>2, <2>3
  <2> QED  BY <2>4 DEF q, m, L
<1> QED  BY <1>1, <1>2

(* The word i of those from address a on lies in memory if all do.         *)
LEMMA WordAddress ==
  ASSUME NEW a \in Word, NEW L \in Nat, InMemory(a, L * WordSize), NEW i \in 1 .. L
  PROVE  /\ (i - 1) * WordSize \in Word
         /\ a + (i - 1) * WordSize \in Word
         /\ InMemory(a + (i - 1) * WordSize, WordSize)
         /\ Plus(a, (i - 1) * WordSize) = a + (i - 1) * WordSize
<1> DEFINE d == (i - 1) * WordSize
<1>0. WordSize \in Nat \ {0} /\ Modulus \in Nat
  BY SizesAssumption, ModulusPositive
<1>1. d \in Nat /\ d + WordSize = i * WordSize
  BY <1>0
<1>2. i * WordSize <= L * WordSize /\ L * WordSize \in Nat
  BY <1>0
<1> HIDE DEF d
<1>3. a \in Nat /\ a + d + WordSize <= Modulus
  BY <1>0, <1>1, <1>2 DEF InMemory, Word
<1>4. d \in Word /\ a + d \in Word /\ InMemory(a + d, WordSize) /\ Plus(a, d) = a + d
  BY <1>0, <1>1, <1>3 DEF InMemory, Word, Plus
<1> QED  BY <1>4 DEF d

(* The hash of the words that n bytes touch is the hash of the bytes.      *)
LEMMA HashOfWords ==
  ASSUME NEW mem \in Memories, NEW a \in Word, NEW n \in Nat,
         InMemory(a, WordsOf(n) * WordSize), NEW values,
         \A i \in 1 .. WordsOf(n) : values[i] = WordAt(mem, a + (i - 1) * WordSize)
  PROVE  HashOf(values, n) = Hash(BytesAt(mem, a, n))
<1>1. ASSUME NEW k \in 1 .. n
      PROVE  Digits(values[((k - 1) \div WordSize) + 1])[((k - 1) % WordSize) + 1]
               = mem[a + k - 1]
  <2> DEFINE i == ((k - 1) \div WordSize) + 1
             r == ((k - 1) % WordSize) + 1
             d == (i - 1) * WordSize
  <2>1. /\ WordsOf(n) \in Nat /\ i \in 1 .. WordsOf(n) /\ r \in 1 .. WordSize
        /\ k = d + r
    BY WordsTouched
  <2> HIDE DEF i, r
  <2>2. d \in Word /\ a + d \in Word /\ InMemory(a + d, WordSize)
    BY <2>1, WordAddress
  <2>3. values[i] = WordAt(mem, a + d)
    BY <2>1
  <2> HIDE DEF d
  <2>4. Digits(values[i])[r] = mem[(a + d) + r - 1]
    BY <2>1, <2>2, <2>3, ByteOfWord
  <2>5. (a + d) + r - 1 = a + k - 1
    BY <2>1, <2>2, ModulusPositive DEF Word
  <2> QED  BY <2>4, <2>5 DEF i, r
<1>2. [k \in 1 .. n |-> Digits(values[((k - 1) \div WordSize) + 1])[((k - 1) % WordSize) + 1]]
        = [k \in 1 .. n |-> mem[a + k - 1]]
  BY <1>1
<1> QED  BY <1>2 DEF HashOf, BytesAt

(* A hash is a word.                                                       *)
LEMMA HashTyped ==
  ASSUME NEW n \in Nat, NEW bytes \in [1 .. n -> Nat]
  PROVE  Hash(bytes) \in Word
<1> DEFINE At(h, i) == IF i = 0 THEN 1 ELSE (3 * h[i - 1] + 2 * bytes[i] + i) % Modulus
           step == [i \in 1 .. n |-> [x \in Word |-> (3 * x + 2 * bytes[i] + i) % Modulus]]
           Unfolds(h) == h = [i \in 0 .. n |-> At(h, i)]
           hash == CHOOSE h : Unfolds(h)
           T == {i \in 0 .. n : hash[i] \in Word}
<1>0. Modulus \in Nat \ {0} /\ Word = 0 .. Modulus - 1
  BY ModulusPositive DEF Word
<1>1. 1 \in Word
  <2>1. WordSize \in 1 .. WordSize /\ WordSize - 1 \in 0 .. WordSize /\ Base \in Nat /\ Base > 1
    BY SizesAssumption
  <2>2. Modulus = Base * Power[WordSize - 1] /\ Power[WordSize - 1] \in Nat \ {0}
    BY <2>1, Powers DEF Modulus
  <2>3. \A x \in Nat \ {0} : Base * x > 1
    BY <2>1
  <2> QED  BY <1>0, <2>2, <2>3
<1>2. \A i \in 1 .. n : \A x \in Word : (3 * x + 2 * bytes[i] + i) % Modulus \in Word
  <2> SUFFICES ASSUME NEW i \in 1 .. n, NEW x \in Word
               PROVE  (3 * x + 2 * bytes[i] + i) % Modulus \in Word
    OBVIOUS
  <2>1. bytes[i] \in Nat /\ x \in Nat
    BY <1>0
  <2>2. 3 * x + 2 * bytes[i] + i \in Nat
    BY <2>1
  <2>3. \A q \in Nat : q % Modulus \in 0 .. Modulus - 1
    BY <1>0
  <2> QED  BY <1>0, <2>2, <2>3
<1>3. /\ step \in [1 .. n -> [Word -> Word]]
      /\ \A i \in 1 .. n : \A x \in Word : step[i][x] = (3 * x + 2 * bytes[i] + i) % Modulus
  BY <1>2
<1> HIDE DEF step
<1>4. \E h : Unfolds(h)
  <2>1. PICK f : IsHistory(f, Word, n, 1, step)
    BY <1>1, <1>3, Iteration
  <2>2. /\ f \in [0 .. n -> Word]
        /\ \A i \in 0 .. n : f[i] = IF i = 0 THEN 1 ELSE step[i][f[i - 1]]
    BY <2>1 DEF IsHistory
  <2>3. ASSUME NEW i \in 0 .. n PROVE f[i] = At(f, i)
    <3>1. CASE i = 0
      BY <2>2, <3>1
    <3>2. CASE i # 0
      <4>1. i \in 1 .. n /\ f[i - 1] \in Word
        BY <2>2, <3>2
      <4> QED  BY <1>3, <2>2, <3>2, <4>1
    <3> QED  BY <3>1, <3>2
  <2>4. Unfolds(f)
    BY <2>2, <2>3
  <2> QED  BY <2>4
<1>5. Unfolds(hash)
  BY <1>4
<1>6. Len(bytes) = n
  OBVIOUS
<1>7. Hash(bytes) = hash[n]
  BY <1>6 DEF Hash
<1> HIDE DEF hash
<1>8. \A i \in 0 .. n : hash[i] = At(hash, i)
  BY <1>5
<1>9. 0 \in T
  BY <1>1, <1>8
<1>10. ASSUME NEW i \in 0 .. n - 1, i \in T
       PROVE  i + 1 \in T
  <2>1. i + 1 \in 1 .. n /\ i + 1 \in 0 .. n /\ i + 1 # 0 /\ (i + 1) - 1 = i
    OBVIOUS
  <2>2. hash[i + 1] = (3 * hash[i] + 2 * bytes[i + 1] + (i + 1)) % Modulus
    BY <1>8, <2>1
  <2> QED  BY <1>2, <1>10, <2>1, <2>2
<1>11. 0 .. n \subseteq T
  <2>1. \A i \in 0 .. n - 1 : i \in T => i + 1 \in T
    BY <1>10
  <2> HIDE DEF T
  <2> QED  BY <1>9, <2>1, NumbersUpTo
<1> QED  BY <1>7, <1>11

-----------------------------------------------------------------------------
(* Wrapping arithmetic: sums and differences stay words, and a difference  *)
(* is zero exactly for equal words.                                        *)
LEMMA PlusMinusTyped ==
  ASSUME NEW a \in Word, NEW b \in Word
  PROVE  Plus(a, b) \in Word /\ Minus(a, b) \in Word /\ (Minus(a, b) = 0 <=> a = b)
  BY ModulusPositive DEF Plus, Minus, Word

(* Equal differences stay equal when the same word is added on both sides. *)
LEMMA MinusOfSum ==
  ASSUME NEW a \in Word, NEW b \in Word, NEW c \in Word, NEW d \in Word, NEW n \in Word,
         Minus(a, b) = Minus(c, d)
  PROVE  /\ Minus(Plus(a, n), b) = Minus(Plus(c, n), d)
         /\ Minus(b, Plus(a, n)) = Minus(d, Plus(c, n))
  BY ModulusPositive DEF Plus, Minus, Word

(* A difference determines the one in the other direction.                 *)
LEMMA MinusTurned ==
  ASSUME NEW a \in Word, NEW b \in Word, NEW c \in Word, NEW d \in Word,
         Minus(a, b) = Minus(c, d)
  PROVE  Minus(b, a) = Minus(d, c)
  BY ModulusPositive DEF Minus, Word

(* All words differ from themselves by the same.                           *)
LEMMA MinusSelf ==
  ASSUME NEW a \in Word, NEW b \in Word
  PROVE  Minus(a, a) = Minus(b, b)
  BY ModulusPositive DEF Minus, Word

(* The forbidden interval of knownToBeDifferentBy32 holds all differences  *)
(* of words that overlap.                                                  *)
LEMMA FarApart ==
  ASSUME NEW a \in Word, NEW b \in Word,
         Plus(Minus(b, a), WordSize - 1) > 2 * (WordSize - 1)
  PROVE  b + WordSize <= a \/ a + WordSize <= b
  BY ModulusPositive, SizesAssumption DEF Plus, Minus, Word

-----------------------------------------------------------------------------
(* The invariant *)

(* Hashes are found by the classes of the words they read.  What is proved *)
(* about classes holds where that determines the number of bytes.          *)
LengthsDistinct ==
  \A n, k \in Lengths :
    n <= 4 * WordSize /\ k <= 4 * WordSize /\ WordsOf(n) = WordsOf(k) => n = k

IsClass(c) == c = [base |-> c.base, off |-> c.off] /\ c.off \in Word

IsOperand(o) ==
  /\ o = [class |-> o.class, value |-> o.value]
  /\ IsClass(o.class)
  /\ o.value \in Word

IsMachine(m) ==
  /\ m = [storage |-> m.storage, memory |-> m.memory, signals |-> m.signals]
  /\ m.storage \in [Word -> Word]
  /\ m.memory \in Memories

(* Classes over the same base differ by what their offsets differ by.      *)
Coherent(S) ==
  \A o, p \in S : o.class.base = p.class.base
                    => Minus(o.value, p.value) = Minus(o.class.off, p.class.off)

AllOperands(S) == (\A o \in S : IsOperand(o)) /\ Coherent(S)

(* Everything the map content mentions is the class of an operand of S.    *)
WitnessedBy(content, S) ==
  \A c \in DOMAIN content :
    /\ \E o \in S : o.class = c
    /\ \E o \in S : o.class = content[c]

(* What content says about the operands of S is true of the given store.   *)
SoundFor(content, S, store) ==
  \A s, v \in S : s.class \in DOMAIN content /\ content[s.class] = v.class
                     => store[s.value] = v.value

(* Loads with the current sequence number are still known: a new load of   *)
(* an unknown slot gets a class no operand has.                            *)
Fresh(content, S, op, seq) ==
  \A o \in S :
    o.class.base.op = op =>
      /\ o.class.base.seq \in Nat
      /\ o.class.base.seq <= seq
      /\ o.class.base.seq = seq => o.class.base.args[1] \in DOMAIN content

Known(content, S, store, op, seq) ==
  /\ WitnessedBy(content, S)
  /\ SoundFor(content, S, store)
  /\ Fresh(content, S, op, seq)

(* The words of memory, and that those of known address are all there.     *)
Words(mem) == [a \in Word |-> WordAt(mem, a)]

InRange(content, S) ==
  \A s \in S : s.class \in DOMAIN content => InMemory(s.value, WordSize)

(* A signal instruction leaves the same word wherever it is executed.      *)
SignalsAlike(S) ==
  \A o \in S : o.class.base.op \in {"CREATESIGNAL", "DELETESIGNAL"}
                 => Minus(o.value, Plus(0, 1)) = Minus(o.class.off, 0)

(* A constant is its value.                                                *)
ConstsAlike(S) == \A o \in S : IsConst(o.class) => o.value = o.class.off

(* The classes of key are those of operands of S with the given values.    *)
IsKey(key, S, values, n) ==
  /\ DOMAIN key = 1 .. WordsOf(n)
  /\ \A i \in 1 .. WordsOf(n) : \E o \in S : o.class = key[i] /\ o.value = values[i]

(* A known hash is the hash of the words it is found by.                   *)
HashesKnown(table, S) ==
  \A key \in DOMAIN table : \E n \in Lengths, h \in S : \E values :
    /\ n <= 4 * WordSize /\ IsKey(key, S, values, n)
    /\ h.class = table[key] /\ h.value = HashOf(values, n)

(* Hashes with the current sequence number are those of memory as it is.   *)
HashesFresh(S, mem, seq) ==
  \A o \in S :
    o.class.base.op = "KECCAK256" =>
      /\ o.class.base.seq \in Nat
      /\ o.class.base.seq <= seq
      /\ o.class.base.seq = seq => \E s \in S, n \in Lengths :
           /\ o.class.base.args = <<s.class, Const(n)>>
           /\ Hash(BytesAt(mem, s.value, n)) \in Word
           /\ Minus(o.value, Hash(BytesAt(mem, s.value, n))) = Minus(o.class.off, 0)

(* All that is known about the operands S and the machine m.               *)
Knowledge(S, storage, memory, hash, m, seq) ==
  /\ AllOperands(S)
  /\ Known(storage, S, m.storage, "SLOAD", seq)
  /\ Known(memory, S, Words(m.memory), "MLOAD", seq)
  /\ InRange(memory, S)
  /\ SignalsAlike(S) /\ ConstsAlike(S)
  /\ HashesKnown(hash, S) /\ HashesFresh(S, m.memory, seq)

KnowledgeInv ==
  /\ IsMachine(machine)
  /\ sequenceNumber \in Nat /\ steps \in 0 .. MaxSteps
  /\ Knowledge(operands, storageContent, memoryContent, hashes, machine, sequenceNumber)

-----------------------------------------------------------------------------
(* Operands of the same class have the same value.                         *)
LEMMA CoherentClasses ==
  ASSUME NEW S, AllOperands(S)
  PROVE  \A o, p \in S : o.class = p.class => o.value = p.value
<1>1. SUFFICES ASSUME NEW o \in S, NEW p \in S, o.class = p.class
               PROVE  o.value = p.value
  OBVIOUS
<1>2. /\ o.value \in Word /\ p.value \in Word
      /\ o.class.off \in Word
  BY DEF AllOperands, IsOperand, IsClass
<1>3. Minus(o.value, p.value) = Minus(o.class.off, o.class.off)
  BY <1>1 DEF AllOperands, Coherent
<1>4. Minus(o.value, p.value) = 0
  BY <1>2, <1>3, PlusMinusTyped
<1> QED
  BY <1>2, <1>4, PlusMinusTyped

(* One coherent operand may be added to coherent ones.                     *)
LEMMA CoherentExtends ==
  ASSUME NEW S, AllOperands(S), NEW n, IsOperand(n),
         \A o \in S : o.class.base = n.class.base =>
            Minus(o.value, n.value) = Minus(o.class.off, n.class.off)
  PROVE  AllOperands(S \cup {n})
<1>1. Minus(n.value, n.value) = Minus(n.class.off, n.class.off)
  BY MinusSelf DEF IsOperand, IsClass
<1>2. ASSUME NEW o \in S, o.class.base = n.class.base
      PROVE  Minus(n.value, o.value) = Minus(n.class.off, o.class.off)
  <2>1. Minus(o.value, n.value) = Minus(o.class.off, n.class.off)
    BY <1>2
  <2>2. /\ o.value \in Word /\ o.class.off \in Word
        /\ n.value \in Word /\ n.class.off \in Word
    BY DEF AllOperands, IsOperand, IsClass
  <2> QED  BY <2>1, <2>2, MinusTurned
<1> QED
  BY <1>1, <1>2 DEF AllOperands, Coherent

(* Knowledge survives the arrival of an operand, since everything it       *)
(* mentions was the class of an operand before.                            *)
LEMMA KnownExtends ==
  ASSUME NEW S, NEW n, AllOperands(S \cup {n}),
         NEW content, NEW store, NEW op, NEW seq, Known(content, S, store, op, seq),
         n.class.base.op = op => \E o \in S : o.class.base = n.class.base
  PROVE  Known(content, S \cup {n}, store, op, seq)
<1> DEFINE T == S \cup {n}
<1>1. WitnessedBy(content, T)
  BY DEF Known, WitnessedBy
<1>2. SoundFor(content, T, store)
  <2>1. SUFFICES ASSUME NEW s \in T, NEW v \in T,
                        s.class \in DOMAIN content, content[s.class] = v.class
                 PROVE  store[s.value] = v.value
    BY DEF SoundFor
  <2>2. PICK s0 \in S : s0.class = s.class
    BY <2>1 DEF Known, WitnessedBy
  <2>3. PICK v0 \in S : v0.class = v.class
    BY <2>1 DEF Known, WitnessedBy
  <2>4. s0 \in T /\ v0 \in T
    OBVIOUS
  <2>5. s0.value = s.value /\ v0.value = v.value
    <3> HIDE DEF T
    <3>1. AllOperands(T)
      BY DEF T
    <3> QED  BY <2>2, <2>3, <2>4, <3>1, CoherentClasses
  <2> QED
    BY <2>1, <2>2, <2>3, <2>5 DEF Known, SoundFor
<1>3. Fresh(content, T, op, seq)
  BY DEF Known, Fresh
<1> QED  BY <1>1, <1>2, <1>3 DEF Known

(* An operand whose address is known already is in range.                  *)
LEMMA InRangeExtends ==
  ASSUME NEW S, NEW n, AllOperands(S \cup {n}),
         NEW content, WitnessedBy(content, S), InRange(content, S)
  PROVE  InRange(content, S \cup {n})
<1> SUFFICES ASSUME n.class \in DOMAIN content
             PROVE  InMemory(n.value, WordSize)
  BY DEF InRange
<1>1. PICK o \in S : o.class = n.class
  BY DEF WitnessedBy
<1>2. o.value = n.value
  BY <1>1, CoherentClasses
<1> QED  BY <1>1, <1>2 DEF InRange

(* A load yields the class of what is in the slot, or a class no operand   *)
(* has had since the last store.                                           *)
LEMMA LoadKnown ==
  ASSUME NEW S, AllOperands(S), NEW content, NEW store, NEW op, NEW seq \in Nat,
         Known(content, S, store, op, seq),
         NEW s \in S, store[s.value] \in Word, NEW class,
         class = IF s.class \in DOMAIN content THEN content[s.class]
                 ELSE find(op, <<s.class>>, seq)
  PROVE  LET n == Operand(class, store[s.value])
         IN  /\ AllOperands(S \cup {n})
             /\ Known(With(content, s.class, class), S \cup {n}, store, op, seq)
             /\ n \in S \/ n.class.base.op = op
<1> DEFINE n == Operand(class, store[s.value])
           new == With(content, s.class, class)
<1>0. n.class = class /\ n.value = store[s.value]
  BY DEF Operand
<1>1. /\ DOMAIN new = DOMAIN content \cup {s.class}
      /\ new[s.class] = class
      /\ \A c \in DOMAIN content : c # s.class => new[c] = content[c]
  BY DEF With
<1>2. CASE s.class \in DOMAIN content
  <2>1. class = content[s.class]
    BY <1>2
  <2>2. PICK w \in S : w.class = class
    BY <1>2, <2>1 DEF Known, WitnessedBy
  <2>3. store[s.value] = w.value
    BY <1>2, <2>1, <2>2 DEF Known, SoundFor
  <2>4. n = w
    BY <2>2, <2>3 DEF AllOperands, IsOperand, Operand
  <2>5. S \cup {n} = S
    BY <2>4
  <2>6. DOMAIN new = DOMAIN content /\ \A c \in DOMAIN content : new[c] = content[c]
    BY <1>1, <1>2, <2>1
  <2>7. Known(new, S, store, op, seq)
    <3> HIDE DEF new
    <3> QED  BY <2>6 DEF Known, WitnessedBy, SoundFor, Fresh
  <2> QED  BY <2>4, <2>5, <2>7
<1>3. CASE s.class \notin DOMAIN content
  <2>1. class = [base |-> [op |-> op, args |-> <<s.class>>, seq |-> seq], off |-> 0]
    BY <1>3 DEF find, Expr
  <2>2. IsOperand(n)
    BY <2>1, ModulusPositive DEF IsOperand, IsClass, Operand
  <2>3. n.class.base.op = op /\ n.class.base.seq = seq /\ n.class.base.args[1] = s.class
    BY <1>0, <2>1
  <2> HIDE DEF n, new
  <2>4. \A o \in S : o.class.base # n.class.base
    BY <1>3, <2>3 DEF Known, Fresh
  <2>5. AllOperands(S \cup {n})
    BY <2>2, <2>4, CoherentExtends
  <2>6. WitnessedBy(new, S \cup {n})
    <3> SUFFICES ASSUME NEW c \in DOMAIN new
                 PROVE  /\ \E o \in S \cup {n} : o.class = c
                        /\ \E o \in S \cup {n} : o.class = new[c]
      BY DEF WitnessedBy
    <3>1. CASE c = s.class
      BY <1>0, <1>1, <3>1
    <3>2. CASE c # s.class
      <4>1. c \in DOMAIN content /\ new[c] = content[c]
        BY <1>1, <3>2
      <4> QED  BY <4>1 DEF Known, WitnessedBy
    <3> QED  BY <3>1, <3>2
  <2>7. Fresh(new, S \cup {n}, op, seq)
    BY <1>1, <2>3 DEF Known, Fresh
  <2>8. SoundFor(new, S \cup {n}, store)
    <3>1. SUFFICES ASSUME NEW t \in S \cup {n}, NEW w \in S \cup {n},
                          t.class \in DOMAIN new, new[t.class] = w.class
                   PROVE  store[t.value] = w.value
      BY DEF SoundFor
    <3>2. CASE t.class = s.class
      <4>1. w.class = n.class
        BY <1>0, <1>1, <3>1, <3>2
      <4>2. w.value = n.value /\ t.value = s.value
        BY <2>5, <3>2, <4>1, CoherentClasses
      <4> QED  BY <1>0, <4>2
    <3>3. CASE t.class # s.class
      <4>1. t.class \in DOMAIN content /\ content[t.class] = w.class
        BY <1>1, <3>1, <3>3
      <4>2. PICK t0 \in S : t0.class = t.class
        BY <4>1 DEF Known, WitnessedBy
      <4>3. PICK w0 \in S : w0.class = w.class
        BY <4>1 DEF Known, WitnessedBy
      <4>4. store[t0.value] = w0.value
        BY <4>1, <4>2, <4>3 DEF Known, SoundFor
      <4>5. t0.value = t.value /\ w0.value = w.value
        BY <2>5, <4>2, <4>3, CoherentClasses
      <4> QED  BY <4>4, <4>5
    <3> QED  BY <3>2, <3>3
  <2> QED  BY <2>3, <2>5, <2>6, <2>7, <2>8 DEF Known, n, new
<1> QED  BY <1>2, <1>3

(* What is known after a store: the slot written to, and the kept ones.    *)
Stored(content, kept, slot, value) ==
  [c \in kept \cup {slot} |-> IF c = slot THEN value ELSE content[c]]

(* The store that becomes stored leaves alone what is kept.                *)
Leaves(content, S, kept, store, stored) ==
  \A t, w \in S :
    t.class \in kept /\ content[t.class] = w.class /\ store[t.value] = w.value
      => stored[t.value] = w.value

(* Knowledge after a store is true if the store left what is kept of it.   *)
LEMMA StoreKnown ==
  ASSUME NEW S, AllOperands(S), NEW content, NEW store, NEW op, NEW seq \in Nat,
         Known(content, S, store, op, seq),
         NEW s \in S, NEW v \in S, NEW kept, kept \subseteq DOMAIN content, NEW stored,
         stored[s.value] = v.value, Leaves(content, S, kept, store, stored)
  PROVE  Known(Stored(content, kept, s.class, v.class), S, stored, op, seq + 2)
<1> DEFINE new == Stored(content, kept, s.class, v.class)
<1>1. /\ DOMAIN new = kept \cup {s.class} /\ new[s.class] = v.class
      /\ \A c \in kept : c # s.class => new[c] = content[c]
  BY DEF Stored
<1> HIDE DEF new
<1>2. WitnessedBy(new, S)
  <2> SUFFICES ASSUME NEW c \in DOMAIN new
               PROVE  (\E o \in S : o.class = c) /\ (\E o \in S : o.class = new[c])
    BY DEF WitnessedBy
  <2>1. CASE c = s.class
    BY <1>1, <2>1
  <2>2. CASE c # s.class
    BY <1>1, <2>2 DEF Known, WitnessedBy
  <2> QED  BY <2>1, <2>2
<1>3. Fresh(new, S, op, seq + 2)
  BY DEF Known, Fresh
<1>4. SoundFor(new, S, stored)
  <2>1. SUFFICES ASSUME NEW t \in S, NEW w \in S, t.class \in DOMAIN new, new[t.class] = w.class
                 PROVE  stored[t.value] = w.value
    BY DEF SoundFor
  <2>2. CASE t.class = s.class
    <3>1. w.class = v.class
      BY <1>1, <2>1, <2>2
    <3>2. t.value = s.value /\ w.value = v.value
      BY <2>2, <3>1, CoherentClasses
    <3> QED  BY <3>2
  <2>3. CASE t.class # s.class
    <3>1. t.class \in kept /\ content[t.class] = w.class
      BY <1>1, <2>1, <2>3
    <3>2. store[t.value] = w.value
      BY <3>1 DEF Known, SoundFor
    <3> QED  BY <3>1, <3>2 DEF Leaves
  <2> QED  BY <2>2, <2>3
<1> QED  BY <1>2, <1>3, <1>4 DEF Known, new

(* Knowledge stays when the numbers go on, and the empty map knows nothing *)
(* wrong.                                                                  *)
LEMMA KnownLater ==
  ASSUME NEW content, NEW S, NEW store, NEW op, NEW seq \in Nat,
         Known(content, S, store, op, seq)
  PROVE  /\ Known(content, S, store, op, seq + 2)
         /\ \A any : Known(Nothing, S, any, op, seq + 2)
<1>1. Fresh(content, S, op, seq + 2) /\ Fresh(Nothing, S, op, seq + 2)
  BY DEF Known, Fresh
<1>2. WitnessedBy(Nothing, S) /\ \A any : SoundFor(Nothing, S, any)
  BY DEF WitnessedBy, SoundFor, Nothing
<1> QED  BY <1>1, <1>2 DEF Known

(* Maps that say the same know the same.                                   *)
LEMMA SameKnown ==
  ASSUME NEW content, NEW S, NEW store, NEW op, NEW seq, Known(content, S, store, op, seq),
         NEW new, DOMAIN new = DOMAIN content, \A c \in DOMAIN content : new[c] = content[c]
  PROVE  Known(new, S, store, op, seq)
  BY DEF Known, WitnessedBy, SoundFor, Fresh

(* Known hashes stay known with more operands.                             *)
LEMMA HashesKept ==
  ASSUME NEW S, NEW T, S \subseteq T, NEW table, HashesKnown(table, S)
  PROVE  HashesKnown(table, T)
<1> SUFFICES ASSUME NEW key \in DOMAIN table
             PROVE  \E n \in Lengths, h \in T : \E values :
                      /\ n <= 4 * WordSize /\ IsKey(key, T, values, n)
                      /\ h.class = table[key] /\ h.value = HashOf(values, n)
  BY DEF HashesKnown
<1>1. PICK n \in Lengths, h \in S : \E values :
         /\ n <= 4 * WordSize /\ IsKey(key, S, values, n)
         /\ h.class = table[key] /\ h.value = HashOf(values, n)
  BY DEF HashesKnown
<1>2. PICK values : IsKey(key, S, values, n) /\ h.value = HashOf(values, n)
  BY <1>1
<1>3. IsKey(key, T, values, n)
  BY <1>2 DEF IsKey
<1> QED  BY <1>1, <1>2, <1>3

(* Hashes of earlier memory are old when the numbers go on.                *)
LEMMA HashesLater ==
  ASSUME NEW S, NEW mem, NEW seq \in Nat, HashesFresh(S, mem, seq)
  PROVE  \A any : HashesFresh(S, any, seq + 2)
  BY DEF HashesFresh

-----------------------------------------------------------------------------
(* More operands *)

(* An operand may join if it is one more with a base that is there, or no  *)
(* load, and signals, constants and hashes stay what they are.             *)
Joins(n, S, mem, seq) ==
  /\ n.class.base.op \in {"SLOAD", "MLOAD"} => \E o \in S : o.class.base = n.class.base
  /\ SignalsAlike({n}) /\ ConstsAlike({n})
  /\ HashesFresh(S \cup {n}, mem, seq)

(* Such an operand leaves all knowledge as it is.                          *)
LEMMA OperandAdded ==
  ASSUME NEW S, NEW storage, NEW memory, NEW hash, NEW m, NEW seq,
         Knowledge(S, storage, memory, hash, m, seq),
         NEW n, AllOperands(S \cup {n}), Joins(n, S, m.memory, seq)
  PROVE  Knowledge(S \cup {n}, storage, memory, hash, m, seq)
<1>1. /\ Known(storage, S, m.storage, "SLOAD", seq)
      /\ Known(memory, S, Words(m.memory), "MLOAD", seq)
      /\ InRange(memory, S)
  BY DEF Knowledge
<1>2. Known(storage, S \cup {n}, m.storage, "SLOAD", seq)
  BY <1>1, KnownExtends DEF Joins
<1>3. Known(memory, S \cup {n}, Words(m.memory), "MLOAD", seq)
  BY <1>1, KnownExtends DEF Joins
<1>4. InRange(memory, S \cup {n})
  BY <1>1, InRangeExtends DEF Known
<1>5. SignalsAlike(S \cup {n}) /\ ConstsAlike(S \cup {n})
  BY DEF Knowledge, Joins, SignalsAlike, ConstsAlike
<1>6. HashesKnown(hash, S \cup {n})
  BY HashesKept DEF Knowledge
<1>7. HashesFresh(S \cup {n}, m.memory, seq)
  BY DEF Joins
<1> QED  BY <1>2, <1>3, <1>4, <1>5, <1>6, <1>7 DEF Knowledge

(* No operand that is not a hash disturbs the hashes.                      *)
LEMMA NoHashAdded ==
  ASSUME NEW S, NEW mem, NEW seq, HashesFresh(S, mem, seq), NEW n,
         n.class.base.op # "KECCAK256"
  PROVE  HashesFresh(S \cup {n}, mem, seq)
  BY DEF HashesFresh

(* Adding a constant moves class and value by the same offset.             *)
LEMMA OffsetAdded ==
  ASSUME NEW S, NEW storage, NEW memory, NEW hash, NEW m, NEW seq,
         Knowledge(S, storage, memory, hash, m, seq), NEW s \in S, NEW k \in Word
  PROVE  Knowledge(S \cup {Operand(Offset(s.class, k), Plus(s.value, k))},
                   storage, memory, hash, m, seq)
<1> DEFINE n == Operand(Offset(s.class, k), Plus(s.value, k))
<1>1. /\ AllOperands(S) /\ IsOperand(s)
      /\ s.value \in Word /\ s.class.off \in Word
  BY DEF Knowledge, AllOperands, IsOperand, IsClass
<1>2. /\ n.class.base = s.class.base
      /\ n.class.off = Plus(s.class.off, k)
      /\ n.value = Plus(s.value, k)
  BY DEF Operand, Offset
<1>3. IsOperand(n)
  BY <1>1, PlusMinusTyped DEF IsOperand, IsClass, Operand, Offset
<1> HIDE DEF n
<1>4. ASSUME NEW o \in S, o.class.base = n.class.base
      PROVE  Minus(o.value, n.value) = Minus(o.class.off, n.class.off)
  <2>1. Minus(s.value, o.value) = Minus(s.class.off, o.class.off)
    BY <1>1, <1>2, <1>4 DEF AllOperands, Coherent
  <2>2. o.value \in Word /\ o.class.off \in Word
    BY <1>1 DEF AllOperands, IsOperand, IsClass
  <2> QED  BY <1>1, <1>2, <2>1, <2>2, MinusOfSum
<1>5. AllOperands(S \cup {n})
  BY <1>1, <1>3, <1>4, CoherentExtends
<1>6. SignalsAlike({n})
  <2> SUFFICES ASSUME n.class.base.op \in {"CREATESIGNAL", "DELETESIGNAL"}
               PROVE  Minus(n.value, Plus(0, 1)) = Minus(n.class.off, 0)
    BY DEF SignalsAlike
  <2>1. Minus(s.value, Plus(0, 1)) = Minus(s.class.off, 0)
    BY <1>2 DEF Knowledge, SignalsAlike
  <2>2. Plus(0, 1) \in Word /\ 0 \in Word
    BY ModulusPositive DEF Plus, Word
  <2> QED  BY <1>1, <1>2, <2>1, <2>2, MinusOfSum
<1>7. ConstsAlike({n})
  BY <1>2 DEF Knowledge, ConstsAlike, IsConst
<1>8. HashesFresh(S \cup {n}, m.memory, seq)
  <2>1. CASE n.class.base.op # "KECCAK256"
    BY <2>1, NoHashAdded DEF Knowledge
  <2>2. CASE n.class.base.op = "KECCAK256"
    <3> SUFFICES ASSUME n.class.base.seq = seq
                 PROVE  \E t \in S, i \in Lengths :
                          /\ n.class.base.args = <<t.class, Const(i)>>
                          /\ Hash(BytesAt(m.memory, t.value, i)) \in Word
                          /\ Minus(n.value, Hash(BytesAt(m.memory, t.value, i)))
                               = Minus(n.class.off, 0)
      BY <1>2, <2>2 DEF Knowledge, HashesFresh
    <3>1. PICK t \in S, i \in Lengths :
             /\ s.class.base.args = <<t.class, Const(i)>>
             /\ Hash(BytesAt(m.memory, t.value, i)) \in Word
             /\ Minus(s.value, Hash(BytesAt(m.memory, t.value, i))) = Minus(s.class.off, 0)
      BY <1>2, <2>2 DEF Knowledge, HashesFresh
    <3> DEFINE v == Hash(BytesAt(m.memory, t.value, i))
    <3>2. v \in Word /\ Minus(s.value, v) = Minus(s.class.off, 0) /\ 0 \in Word
      BY <3>1, ModulusPositive
    <3> HIDE DEF v
    <3>3. Minus(n.value, v) = Minus(n.class.off, 0)
      BY <1>1, <1>2, <3>2, MinusOfSum
    <3> QED  BY <1>2, <3>1, <3>3 DEF v
  <2> QED  BY <2>1, <2>2
<1>9. Joins(n, S, m.memory, seq)
  BY <1>2, <1>6, <1>7, <1>8 DEF Joins
<1>10. Knowledge(S \cup {n}, storage, memory, hash, m, seq)
  BY <1>5, <1>9, OperandAdded
<1> QED  BY <1>10 DEF n

(* A constant has its own value as offset.                                 *)
LEMMA ConstAdded ==
  ASSUME NEW S, NEW storage, NEW memory, NEW hash, NEW m, NEW seq,
         Knowledge(S, storage, memory, hash, m, seq), NEW k \in Word
  PROVE  Knowledge(S \cup {Operand(Const(k), k)}, storage, memory, hash, m, seq)
<1> DEFINE n == Operand(Const(k), k)
<1>1. n.class.base.op = "Push" /\ n.class.off = k /\ n.value = k /\ IsOperand(n)
  BY DEF Operand, Const, Expr, IsOperand, IsClass
<1> HIDE DEF n
<1>2. AllOperands(S \cup {n})
  <2>1. \A o \in S : o.class.base = n.class.base =>
          Minus(o.value, n.value) = Minus(o.class.off, n.class.off)
    BY <1>1 DEF Knowledge, ConstsAlike, IsConst
  <2> QED  BY <1>1, <2>1, CoherentExtends DEF Knowledge
<1>3. Joins(n, S, m.memory, seq)
  <2>1. HashesFresh(S \cup {n}, m.memory, seq)
    BY <1>1, NoHashAdded DEF Knowledge
  <2> QED  BY <1>1, <2>1 DEF Joins, SignalsAlike, ConstsAlike
<1>4. Knowledge(S \cup {n}, storage, memory, hash, m, seq)
  BY <1>2, <1>3, OperandAdded
<1> QED  BY <1>4 DEF n

(* A signal instruction yields a word that depends on nothing.             *)
LEMMA SignalAdded ==
  ASSUME NEW S, NEW storage, NEW memory, NEW hash, NEW m, NEW seq,
         Knowledge(S, storage, memory, hash, m, seq), NEW c,
         NEW instr \in {"CREATESIGNAL", "DELETESIGNAL"}
  PROVE  Knowledge(S \cup {Operand(find(instr, <<c>>, 0), Plus(0, 1))},
                   storage, memory, hash, m, seq)
<1> DEFINE n == Operand(find(instr, <<c>>, 0), Plus(0, 1))
<1>1. 0 \in Word /\ Plus(0, 1) \in Word
  BY ModulusPositive DEF Plus, Word
<1>2. IsOperand(n)
  BY <1>1 DEF IsOperand, IsClass, Operand, find, Expr
<1>3. n.class.base.op = instr /\ n.class.off = 0 /\ n.value = Plus(0, 1)
  BY DEF Operand, find, Expr
<1> HIDE DEF n
<1>4. AllOperands(S \cup {n})
  <2>1. \A o \in S : o.class.base = n.class.base =>
          Minus(o.value, n.value) = Minus(o.class.off, n.class.off)
    BY <1>3 DEF Knowledge, SignalsAlike
  <2> QED  BY <1>2, <2>1, CoherentExtends DEF Knowledge
<1>5. Joins(n, S, m.memory, seq)
  <2>1. HashesFresh(S \cup {n}, m.memory, seq)
    BY <1>3, NoHashAdded DEF Knowledge
  <2>2. SignalsAlike({n})
    BY <1>1, <1>3, MinusSelf DEF SignalsAlike
  <2> QED  BY <1>3, <2>1, <2>2 DEF Joins, ConstsAlike, IsConst
<1>6. Knowledge(S \cup {n}, storage, memory, hash, m, seq)
  BY <1>4, <1>5, OperandAdded
<1> QED  BY <1>6 DEF n

(* A load from storage; what is known about the rest stays.                *)
LEMMA SLOADAdded ==
  ASSUME NEW S, NEW storage, NEW memory, NEW hash, NEW m, NEW seq \in Nat,
         Knowledge(S, storage, memory, hash, m, seq), IsMachine(m), NEW s \in S, NEW class,
         class = IF s.class \in DOMAIN storage THEN storage[s.class]
                 ELSE find("SLOAD", <<s.class>>, seq)
  PROVE  Knowledge(S \cup {Operand(class, m.storage[s.value])},
                   With(storage, s.class, class), memory, hash, m, seq)
<1> DEFINE store == m.storage
           n == Operand(class, store[s.value])
           T == S \cup {n}
           new == With(storage, s.class, class)
<1>1. /\ AllOperands(S) /\ store[s.value] \in Word
      /\ Known(storage, S, store, "SLOAD", seq)
      /\ Known(memory, S, Words(m.memory), "MLOAD", seq) /\ InRange(memory, S)
      /\ SignalsAlike(S) /\ ConstsAlike(S) /\ HashesKnown(hash, S)
      /\ HashesFresh(S, m.memory, seq)
  BY DEF Knowledge, IsMachine, AllOperands, IsOperand
<1> HIDE DEF store
<1>2. /\ AllOperands(T) /\ Known(new, T, store, "SLOAD", seq)
      /\ n \in S \/ n.class.base.op = "SLOAD"
  BY <1>1, LoadKnown
<1> HIDE DEF n, new
<1>3. /\ Known(memory, T, Words(m.memory), "MLOAD", seq) /\ InRange(memory, T)
      /\ SignalsAlike(T) /\ ConstsAlike(T) /\ HashesFresh(T, m.memory, seq)
  <2>1. CASE n \in S
    <3>1. T = S
      BY <2>1
    <3> QED  BY <1>1, <3>1
  <2>2. CASE n.class.base.op = "SLOAD"
    <3>1. Known(memory, T, Words(m.memory), "MLOAD", seq)
      BY <1>1, <1>2, <2>2, KnownExtends
    <3>2. InRange(memory, T)
      BY <1>1, <1>2, InRangeExtends DEF Known
    <3>3. SignalsAlike(T) /\ ConstsAlike(T)
      BY <1>1, <2>2 DEF SignalsAlike, ConstsAlike, IsConst
    <3>4. HashesFresh(T, m.memory, seq)
      BY <1>1, <2>2, NoHashAdded
    <3> QED  BY <3>1, <3>2, <3>3, <3>4
  <2> QED  BY <1>2, <2>1, <2>2
<1>4. HashesKnown(hash, T)
  BY <1>1, HashesKept
<1>5. Knowledge(T, new, memory, hash, m, seq)
  BY <1>2, <1>3, <1>4 DEF Knowledge, store
<1> QED  BY <1>5 DEF n, new, store

(* A load from memory.                                                     *)
LEMMA MLOADAdded ==
  ASSUME NEW S, NEW storage, NEW memory, NEW hash, NEW m, NEW seq \in Nat,
         Knowledge(S, storage, memory, hash, m, seq), IsMachine(m), NEW s \in S,
         InMemory(s.value, WordSize), NEW class,
         class = IF s.class \in DOMAIN memory THEN memory[s.class]
                 ELSE find("MLOAD", <<s.class>>, seq)
  PROVE  Knowledge(S \cup {Operand(class, WordAt(m.memory, s.value))},
                   storage, With(memory, s.class, class), hash, m, seq)
<1> DEFINE store == Words(m.memory)
           n == Operand(class, store[s.value])
           T == S \cup {n}
           new == With(memory, s.class, class)
<1>1. s.value \in Word /\ m.memory \in Memories
  BY DEF Knowledge, IsMachine, AllOperands, IsOperand
<1>2. store[s.value] = WordAt(m.memory, s.value) /\ store[s.value] \in Word
  BY <1>1, WordAtTyped DEF Words
<1>3. /\ AllOperands(S) /\ Known(memory, S, store, "MLOAD", seq)
      /\ Known(storage, S, m.storage, "SLOAD", seq) /\ InRange(memory, S)
      /\ SignalsAlike(S) /\ ConstsAlike(S) /\ HashesKnown(hash, S)
      /\ HashesFresh(S, m.memory, seq)
  BY DEF Knowledge
<1> HIDE DEF store
<1>4. /\ AllOperands(T) /\ Known(new, T, store, "MLOAD", seq)
      /\ n \in S \/ n.class.base.op = "MLOAD"
  BY <1>2, <1>3, LoadKnown
<1>5. DOMAIN new = DOMAIN memory \cup {s.class}
  BY DEF With
<1> HIDE DEF n, new
<1>6. /\ Known(storage, T, m.storage, "SLOAD", seq)
      /\ SignalsAlike(T) /\ ConstsAlike(T) /\ HashesFresh(T, m.memory, seq)
  <2>1. CASE n \in S
    <3>1. T = S
      BY <2>1
    <3> QED  BY <1>3, <3>1
  <2>2. CASE n.class.base.op = "MLOAD"
    <3>1. Known(storage, T, m.storage, "SLOAD", seq)
      BY <1>3, <1>4, <2>2, KnownExtends
    <3>2. SignalsAlike(T) /\ ConstsAlike(T)
      BY <1>3, <2>2 DEF SignalsAlike, ConstsAlike, IsConst
    <3>3. HashesFresh(T, m.memory, seq)
      BY <1>3, <2>2, NoHashAdded
    <3> QED  BY <3>1, <3>2, <3>3
  <2> QED  BY <1>4, <2>1, <2>2
<1>7. InRange(new, T)
  <2>1. InRange(memory, T)
    BY <1>3, <1>4, InRangeExtends DEF Known
  <2> SUFFICES ASSUME NEW t \in T, t.class \in DOMAIN new
               PROVE  InMemory(t.value, WordSize)
    BY DEF InRange
  <2>2. CASE t.class = s.class
    <3>1. s \in T
      OBVIOUS
    <3> HIDE DEF T
    <3>2. t.value = s.value
      BY <1>4, <2>2, <3>1, CoherentClasses
    <3> QED  BY <3>2
  <2>3. CASE t.class # s.class
    BY <1>5, <2>1, <2>3 DEF InRange
  <2> QED  BY <2>2, <2>3
<1>8. HashesKnown(hash, T)
  BY <1>3, HashesKept
<1>9. Knowledge(T, storage, new, hash, m, seq)
  BY <1>4, <1>6, <1>7, <1>8 DEF Knowledge, store
<1> QED  BY <1>2, <1>9 DEF n, new

(* The bytes of a hash are in memory, and it is a word.                    *)
LEMMA HashInMemory ==
  ASSUME NEW mem \in Memories, NEW a \in Word, NEW n \in Nat, InMemory(a, WordsOf(n) * WordSize)
  PROVE  Hash(BytesAt(mem, a, n)) \in Word
<1> DEFINE L == WordsOf(n)
           W == WordSize
           bytes == BytesAt(mem, a, n)
<1>0. W \in Nat \ {0} /\ Modulus \in Nat /\ a \in Nat
  BY SizesAssumption, ModulusPositive DEF Word
<1>1. L \in Nat /\ n <= L * W
  BY <1>0 DEF WordsOf
<1> HIDE DEF L, W
<1>2. L * W \in Nat
  BY <1>0, <1>1
<1>3. \A k \in 1 .. n : a + k - 1 \in Word
  BY <1>0, <1>1, <1>2 DEF InMemory, Word, L, W
<1>4. \A k \in 1 .. n : mem[a + k - 1] \in Nat
  BY <1>3, SizesAssumption DEF Memories
<1>5. bytes \in [1 .. n -> Nat]
  BY <1>4 DEF BytesAt
<1> QED  BY <1>5, HashTyped

(* A hash that is not known gets a class of its own.                       *)
LEMMA HashFound ==
  ASSUME NEW S, NEW storage, NEW memory, NEW hash, NEW m, NEW seq \in Nat,
         Knowledge(S, storage, memory, hash, m, seq), NEW s \in S, NEW k \in Lengths,
         Hash(BytesAt(m.memory, s.value, k)) \in Word
  PROVE  Knowledge(S \cup {Operand(find("KECCAK256", <<s.class, Const(k)>>, seq),
                                   Hash(BytesAt(m.memory, s.value, k)))},
                   storage, memory, hash, m, seq)
<1> DEFINE v == Hash(BytesAt(m.memory, s.value, k))
           n == Operand(find("KECCAK256", <<s.class, Const(k)>>, seq), v)
<1>0. v \in Word /\ 0 \in Word
  BY ModulusPositive
<1>1. AllOperands(S) /\ HashesFresh(S, m.memory, seq)
  BY DEF Knowledge
<1> HIDE DEF v
<1>2. IsOperand(n)
  BY <1>0 DEF IsOperand, IsClass, Operand, find, Expr
<1>3. /\ n.class.base.op = "KECCAK256" /\ n.class.base.args = <<s.class, Const(k)>>
      /\ n.class.base.seq = seq /\ n.class.off = 0 /\ n.value = v
  BY DEF Operand, find, Expr
<1> HIDE DEF n
<1>4. AllOperands(S \cup {n})
  <2>1. ASSUME NEW o \in S, o.class.base = n.class.base
        PROVE  Minus(o.value, n.value) = Minus(o.class.off, n.class.off)
    <3>1. PICK t \in S, i \in Lengths :
             /\ o.class.base.args = <<t.class, Const(i)>>
             /\ Minus(o.value, Hash(BytesAt(m.memory, t.value, i))) = Minus(o.class.off, 0)
      BY <1>1, <1>3, <2>1 DEF HashesFresh
    <3>2. t.class = s.class /\ Const(i) = Const(k)
      BY <1>3, <2>1, <3>1
    <3>3. i = k
      BY <3>2 DEF Const
    <3>4. t.value = s.value
      BY <1>1, <3>2, CoherentClasses
    <3> QED  BY <1>3, <3>1, <3>3, <3>4 DEF v
  <2> QED  BY <1>1, <1>2, <2>1, CoherentExtends
<1>5. Joins(n, S, m.memory, seq)
  <2>1. Minus(n.value, v) = Minus(n.class.off, 0)
    BY <1>0, <1>3, MinusSelf
  <2>2. HashesFresh(S \cup {n}, m.memory, seq)
    BY <1>0, <1>1, <1>3, <2>1 DEF HashesFresh, v
  <2> QED  BY <1>3, <2>2 DEF Joins, SignalsAlike, ConstsAlike, IsConst
<1>6. Knowledge(S \cup {n}, storage, memory, hash, m, seq)
  BY <1>4, <1>5, OperandAdded
<1> QED  BY <1>6 DEF n, v

-----------------------------------------------------------------------------
(* applyKeccak256: the words that are hashed are loaded one by one.        *)
SlotOperand(s, i) == Operand(Offset(s.class, (i - 1) * WordSize), s.value + (i - 1) * WordSize)

LoadOperand(memory, m, seq, s, i) ==
  LET slot == Offset(s.class, (i - 1) * WordSize)
  IN  Operand(IF slot \in DOMAIN memory THEN memory[slot] ELSE find("MLOAD", <<slot>>, seq),
              WordAt(m.memory, s.value + (i - 1) * WordSize))

(* Operands and memory content after i loads.                              *)
LoadedOperands(S, memory, m, seq, s, i) ==
  S \cup UNION {{SlotOperand(s, j), LoadOperand(memory, m, seq, s, j)} : j \in 1 .. i}

LoadedContent(memory, seq, s, i) ==
  [c \in DOMAIN memory \cup {Offset(s.class, (j - 1) * WordSize) : j \in 1 .. i} |->
     IF c \in DOMAIN memory THEN memory[c] ELSE find("MLOAD", <<c>>, seq)]

(* One more load.                                                          *)
LEMMA OneMoreLoaded ==
  ASSUME NEW S, NEW storage, NEW memory, NEW hash, NEW m, NEW seq \in Nat, IsMachine(m),
         NEW s \in S, NEW L \in Nat, InMemory(s.value, L * WordSize), s.value \in Word,
         NEW i \in 0 .. L - 1,
         Knowledge(LoadedOperands(S, memory, m, seq, s, i), storage,
                   LoadedContent(memory, seq, s, i), hash, m, seq)
  PROVE  Knowledge(LoadedOperands(S, memory, m, seq, s, i + 1), storage,
                   LoadedContent(memory, seq, s, i + 1), hash, m, seq)
<1> DEFINE d == ((i + 1) - 1) * WordSize
           slot == Offset(s.class, d)
           T == LoadedOperands(S, memory, m, seq, s, i)
           content == LoadedContent(memory, seq, s, i)
           t == SlotOperand(s, i + 1)
           n == LoadOperand(memory, m, seq, s, i + 1)
           next == LoadedContent(memory, seq, s, i + 1)
           class == IF slot \in DOMAIN memory THEN memory[slot] ELSE find("MLOAD", <<slot>>, seq)
<1>0. i + 1 \in 1 .. L
  OBVIOUS
<1>1. /\ d \in Word /\ s.value + d \in Word /\ InMemory(s.value + d, WordSize)
      /\ Plus(s.value, d) = s.value + d
  BY <1>0, WordAddress
<1> HIDE DEF d
<1>2. t = Operand(slot, s.value + d) /\ n = Operand(class, WordAt(m.memory, s.value + d))
  BY DEF SlotOperand, LoadOperand, d
<1>3. 1 .. i + 1 = (1 .. i) \cup {i + 1}
  OBVIOUS
<1>4. LoadedOperands(S, memory, m, seq, s, i + 1) = (T \cup {t}) \cup {n}
  <2> HIDE DEF t, n
  <2>1. {{SlotOperand(s, j), LoadOperand(memory, m, seq, s, j)} : j \in 1 .. i + 1}
          = {{SlotOperand(s, j), LoadOperand(memory, m, seq, s, j)} : j \in 1 .. i} \cup {{t, n}}
    BY <1>3 DEF t, n
  <2> QED  BY <2>1 DEF LoadedOperands
<1>5. s \in T
  BY DEF LoadedOperands
<1> HIDE DEF T, t, n
<1>6. Knowledge(T \cup {t}, storage, content, hash, m, seq)
  <2>1. t = Operand(Offset(s.class, d), Plus(s.value, d))
    BY <1>1, <1>2
  <2>2. Knowledge(T, storage, content, hash, m, seq)
    BY DEF T
  <2> HIDE DEF content
  <2> QED  BY <1>1, <1>5, <2>1, <2>2, OffsetAdded
<1>7. t \in T \cup {t} /\ t.class = slot /\ t.value = s.value + d
  BY <1>2 DEF Operand
<1>8. /\ DOMAIN content = DOMAIN memory \cup {Offset(s.class, (j - 1) * WordSize) : j \in 1 .. i}
      /\ \A c \in DOMAIN content : content[c] = IF c \in DOMAIN memory THEN memory[c]
                                                ELSE find("MLOAD", <<c>>, seq)
  BY DEF LoadedContent
<1>9. next = With(content, slot, class)
  <2>1. {Offset(s.class, (j - 1) * WordSize) : j \in 1 .. i + 1}
          = {Offset(s.class, (j - 1) * WordSize) : j \in 1 .. i} \cup {slot}
    BY <1>3 DEF d
  <2>2. DOMAIN memory \cup {Offset(s.class, (j - 1) * WordSize) : j \in 1 .. i + 1}
          = DOMAIN content \cup {slot}
    BY <1>8, <2>1
  <2>3. next = [c \in DOMAIN content \cup {slot} |->
                  IF c \in DOMAIN memory THEN memory[c] ELSE find("MLOAD", <<c>>, seq)]
    BY <2>2 DEF LoadedContent
  <2> HIDE DEF content, next, slot
  <2>4. \A c \in DOMAIN content \cup {slot} :
          (IF c \in DOMAIN memory THEN memory[c] ELSE find("MLOAD", <<c>>, seq))
            = (IF c = slot THEN class ELSE content[c])
    BY <1>8
  <2> QED  BY <2>3, <2>4 DEF With
<1>10. class = IF slot \in DOMAIN content THEN content[slot] ELSE find("MLOAD", <<slot>>, seq)
  <2> HIDE DEF content, slot
  <2> QED  BY <1>8
<1> HIDE DEF content, next, slot, class
<1>11. Knowledge((T \cup {t}) \cup {n}, storage, next, hash, m, seq)
  <2> DEFINE U == T \cup {t}
  <2>1. /\ Knowledge(U, storage, content, hash, m, seq) /\ t \in U
        /\ InMemory(t.value, WordSize)
        /\ class = IF t.class \in DOMAIN content THEN content[t.class]
                   ELSE find("MLOAD", <<t.class>>, seq)
        /\ n = Operand(class, WordAt(m.memory, t.value))
        /\ next = With(content, t.class, class)
    BY <1>1, <1>2, <1>6, <1>7, <1>9, <1>10
  <2> HIDE DEF U
  <2>2. Knowledge(U \cup {n}, storage, next, hash, m, seq)
    BY <2>1, MLOADAdded
  <2> QED  BY <2>2 DEF U
<1> QED  BY <1>4, <1>11 DEF next

(* All loads.                                                              *)
LEMMA AllLoaded ==
  ASSUME NEW S, NEW storage, NEW memory, NEW hash, NEW m, NEW seq \in Nat, IsMachine(m),
         Knowledge(S, storage, memory, hash, m, seq),
         NEW s \in S, NEW L \in Nat, InMemory(s.value, L * WordSize), s.value \in Word
  PROVE  Knowledge(LoadedOperands(S, memory, m, seq, s, L), storage,
                   LoadedContent(memory, seq, s, L), hash, m, seq)
<1> DEFINE Good(i) == Knowledge(LoadedOperands(S, memory, m, seq, s, i), storage,
                                LoadedContent(memory, seq, s, i), hash, m, seq)
           T == {i \in 0 .. L : Good(i)}
<1>1. Good(0)
  <2>1. 1 .. 0 = {}
    OBVIOUS
  <2>2. LoadedOperands(S, memory, m, seq, s, 0) = S
    BY <2>1 DEF LoadedOperands
  <2> DEFINE new == LoadedContent(memory, seq, s, 0)
  <2>3. DOMAIN new = DOMAIN memory /\ \A c \in DOMAIN memory : new[c] = memory[c]
    BY <2>1 DEF LoadedContent
  <2> HIDE DEF new
  <2>4. Known(new, S, Words(m.memory), "MLOAD", seq)
    BY <2>3, SameKnown DEF Knowledge
  <2>5. InRange(new, S)
    BY <2>3 DEF Knowledge, InRange
  <2>6. Knowledge(S, storage, new, hash, m, seq)
    BY <2>4, <2>5 DEF Knowledge
  <2> QED  BY <2>2, <2>6 DEF new
<1>2. ASSUME NEW i \in 0 .. L - 1, i \in T
      PROVE  i + 1 \in T
  <2>1. Good(i) /\ i + 1 \in 0 .. L
    BY <1>2
  <2>2. Good(i + 1)
    BY <2>1, OneMoreLoaded
  <2> QED  BY <2>1, <2>2
<1>3. 0 \in T
  BY <1>1
<1>4. 0 .. L \subseteq T
  <2>1. \A i \in 0 .. L - 1 : i \in T => i + 1 \in T
    BY <1>2
  <2> HIDE DEF T
  <2> QED  BY <1>3, <2>1, NumbersUpTo
<1>5. L \in T
  BY <1>4
<1> QED  BY <1>5

(* The class that HashClass gives to a hash, with the words as arguments.  *)
ClassOfHash(table, s, k, seq, arguments) ==
  IF arguments \in DOMAIN table THEN table[arguments]
  ELSE IF \A i \in DOMAIN arguments : IsConst(arguments[i])
  THEN Const(Hash([j \in 1 .. k |->
               Digits(arguments[((j - 1) \div WordSize) + 1].off)[((j - 1) % WordSize) + 1]]))
  ELSE find("KECCAK256", <<s.class, Const(k)>>, seq)

(* The arguments are the classes of the words from the address s on.       *)
AreArguments(arguments, T, mem, s, k) ==
  /\ DOMAIN arguments = 1 .. WordsOf(k)
  /\ \A i \in 1 .. WordsOf(k) : \E o \in T :
       o.class = arguments[i] /\ o.value = WordAt(mem, s.value + (i - 1) * WordSize)

(* A hash of words gets the class of its value: the class it was known     *)
(* by, a constant, or a class no other hash has.                           *)
LEMMA HashAdded ==
  ASSUME LengthsDistinct,
         NEW T, NEW storage, NEW memory, NEW table, NEW m, NEW seq \in Nat, IsMachine(m),
         Knowledge(T, storage, memory, table, m, seq), NEW s \in T, NEW k \in Lengths,
         k <= 4 * WordSize, InMemory(s.value, WordsOf(k) * WordSize),
         NEW arguments, AreArguments(arguments, T, m.memory, s, k)
  PROVE  LET class == ClassOfHash(table, s, k, seq, arguments)
         IN  Knowledge(T \cup {Operand(class, Hash(BytesAt(m.memory, s.value, k)))},
                       storage, memory, With(table, arguments, class), m, seq)
<1> DEFINE class == ClassOfHash(table, s, k, seq, arguments)
           L == WordsOf(k)
           Value(i) == WordAt(m.memory, s.value + (i - 1) * WordSize)
           v == Hash(BytesAt(m.memory, s.value, k))
           n == Operand(class, v)
           new == With(table, arguments, class)
<1>0. /\ k \in Nat /\ L \in Nat /\ s.value \in Word /\ m.memory \in Memories /\ AllOperands(T)
      /\ HashesKnown(table, T) /\ ConstsAlike(T)
  <2>1. k \in Nat
    BY SizesAssumption, ModulusPositive DEF Word
  <2> QED  BY <2>1, WordsTouched DEF Knowledge, AllOperands, IsOperand, IsMachine
<1>1. v \in Word
  BY <1>0, HashInMemory
<1>2. \A values : (\A i \in 1 .. L : values[i] = Value(i)) => HashOf(values, k) = v
  BY <1>0, HashOfWords
<1>3. /\ DOMAIN arguments = 1 .. L
      /\ \A i \in 1 .. L : \E o \in T : o.class = arguments[i] /\ o.value = Value(i)
  BY DEF AreArguments
<1> HIDE DEF v, L, Value
<1>4. /\ DOMAIN new = DOMAIN table \cup {arguments} /\ new[arguments] = class
      /\ \A key \in DOMAIN table : key # arguments => new[key] = table[key]
  BY DEF With
<1>5. n.class = class /\ n.value = v
  BY DEF Operand
<1>6. Knowledge(T \cup {n}, storage, memory, table, m, seq)
  <2>1. CASE arguments \in DOMAIN table
    <3>1. class = table[arguments]
      BY <2>1 DEF ClassOfHash
    <3>2. PICK n0 \in Lengths, h \in T : \E values :
             /\ n0 <= 4 * WordSize /\ IsKey(arguments, T, values, n0)
             /\ h.class = table[arguments] /\ h.value = HashOf(values, n0)
      BY <1>0, <2>1 DEF HashesKnown
    <3>3. PICK values : IsKey(arguments, T, values, n0) /\ h.value = HashOf(values, n0)
      BY <3>2
    <3>4. n0 = k
      <4>1. n0 \in Nat
        BY SizesAssumption, ModulusPositive DEF Word
      <4>2. WordsOf(n0) \in Nat /\ 1 .. WordsOf(n0) = 1 .. L
        BY <1>3, <3>3, <4>1, WordsTouched DEF IsKey
      <4>3. WordsOf(n0) = L
        BY <1>0, <4>2
      <4> QED  BY <3>2, <4>3 DEF LengthsDistinct, L
    <3>5. ASSUME NEW i \in 1 .. L PROVE values[i] = Value(i)
      <4>1. PICK o \in T : o.class = arguments[i] /\ o.value = Value(i)
        BY <1>3
      <4>2. PICK p \in T : p.class = arguments[i] /\ p.value = values[i]
        BY <3>3, <3>4 DEF IsKey, L
      <4> QED  BY <1>0, <4>1, <4>2, CoherentClasses
    <3>6. h.value = v
      BY <1>2, <3>3, <3>4, <3>5
    <3>7. n = h
      BY <1>0, <1>5, <3>1, <3>2, <3>6 DEF AllOperands, IsOperand, Operand
    <3>8. T \cup {n} = T
      BY <3>7
    <3> QED  BY <3>8
  <2>2. CASE arguments \notin DOMAIN table /\ \A i \in DOMAIN arguments : IsConst(arguments[i])
    <3> DEFINE offsets == [i \in 1 .. L |-> arguments[i].off]
    <3>1. ASSUME NEW i \in 1 .. L PROVE offsets[i] = Value(i)
      <4>1. PICK o \in T : o.class = arguments[i] /\ o.value = Value(i)
        BY <1>3
      <4> QED  BY <1>0, <1>3, <2>2, <4>1 DEF ConstsAlike
    <3>2. HashOf(offsets, k) = v
      <4> HIDE DEF offsets
      <4> QED  BY <1>2, <3>1
    <3>3. [j \in 1 .. k |->
             Digits(arguments[((j - 1) \div WordSize) + 1].off)[((j - 1) % WordSize) + 1]]
            = [j \in 1 .. k |->
                 Digits(offsets[((j - 1) \div WordSize) + 1])[((j - 1) % WordSize) + 1]]
      <4>1. \A j \in 1 .. k : ((j - 1) \div WordSize) + 1 \in 1 .. L
        BY <1>0, WordsTouched DEF L
      <4>2. \A j \in 1 .. k : offsets[((j - 1) \div WordSize) + 1]
                                = arguments[((j - 1) \div WordSize) + 1].off
        BY <4>1
      <4> HIDE DEF offsets
      <4> QED  BY <4>2
    <3> HIDE DEF offsets
    <3>4. class = Const(v)
      BY <2>2, <3>2, <3>3 DEF ClassOfHash, HashOf
    <3> QED  BY <1>1, <3>4, ConstAdded
  <2>3. CASE arguments \notin DOMAIN table /\ ~ \A i \in DOMAIN arguments : IsConst(arguments[i])
    <3>1. class = find("KECCAK256", <<s.class, Const(k)>>, seq)
      BY <2>3 DEF ClassOfHash
    <3> QED  BY <1>1, <3>1, HashFound DEF v
  <2> QED  BY <2>1, <2>2, <2>3
<1> HIDE DEF n, new, class
<1>7. HashesKnown(new, T \cup {n})
  <2>1. HashesKnown(table, T \cup {n})
    BY <1>6 DEF Knowledge
  <2> SUFFICES ASSUME NEW key \in DOMAIN new
               PROVE  \E i \in Lengths, h \in T \cup {n} : \E values :
                        /\ i <= 4 * WordSize /\ IsKey(key, T \cup {n}, values, i)
                        /\ h.class = new[key] /\ h.value = HashOf(values, i)
    BY DEF HashesKnown
  <2>2. CASE key # arguments
    BY <1>4, <2>1, <2>2 DEF HashesKnown
  <2>3. CASE key = arguments
    <3> DEFINE values == [i \in 1 .. L |-> Value(i)]
    <3>1. \A i \in 1 .. L : values[i] = Value(i)
      OBVIOUS
    <3> HIDE DEF values
    <3>2. HashOf(values, k) = v
      BY <1>2, <3>1
    <3>3. IsKey(arguments, T \cup {n}, values, k)
      BY <1>3, <3>1 DEF IsKey, L
    <3>4. n.class = new[key] /\ n.value = HashOf(values, k)
      BY <1>4, <1>5, <2>3, <3>2
    <3> QED  BY <2>3, <3>3, <3>4
  <2> QED  BY <2>2, <2>3
<1>8. Knowledge(T \cup {n}, storage, memory, new, m, seq)
  BY <1>6, <1>7 DEF Knowledge
<1> QED  BY <1>8 DEF n, new, class, v

-----------------------------------------------------------------------------
(* A block starts without knowledge and with operands of different bases.  *)
LEMMA InitKnowledge == Init => KnowledgeInv
<1> SUFFICES ASSUME Init PROVE KnowledgeInv
  OBVIOUS
<1>1. PICK v \in [1 .. 2 -> UnknownValues] :
         operands = {Operand(Unknown(i), v[i]) : i \in 1 .. 2}
                      \cup {Operand(Const(n), n) : n \in Literals}
  BY DEF Init
<1>2. \A i \in 1 .. 2 : /\ IsOperand(Operand(Unknown(i), v[i]))
                        /\ Unknown(i).base.op \in {"Undefined1", "Undefined2"}
                        /\ Unknown(i).off = 0
  BY ModulusPositive, SizesAssumption DEF IsOperand, IsClass, Operand, Unknown, find, Expr
<1>3. \A n \in Literals : /\ IsOperand(Operand(Const(n), n))
                          /\ Const(n).base.op = "Push" /\ Const(n).off = n
  BY SizesAssumption DEF IsOperand, IsClass, Operand, Const, Expr
<1>4. \A o \in operands : IsOperand(o)
  BY <1>1, <1>2, <1>3
<1>5. Coherent(operands)
  <2>1. ASSUME NEW o \in operands, NEW p \in operands, o.class.base = p.class.base
        PROVE  Minus(o.value, p.value) = Minus(o.class.off, p.class.off)
    <3>1. CASE o.class.base.op = "Push"
      <4>1. o.value = o.class.off /\ p.value = p.class.off
        BY <1>1, <1>2, <1>3, <2>1, <3>1 DEF Operand
      <4> QED  BY <4>1
    <3>2. CASE o.class.base.op # "Push"
      <4>1. PICK i \in 1 .. 2 : o = Operand(Unknown(i), v[i])
        BY <1>1, <1>3, <3>2 DEF Operand
      <4>2. PICK j \in 1 .. 2 : p = Operand(Unknown(j), v[j])
        BY <1>1, <1>3, <2>1, <3>2 DEF Operand
      <4>3. i = j
        BY <2>1, <4>1, <4>2 DEF Operand, Unknown, find, Expr
      <4>4. o.value \in Word /\ o.class.off \in Word
        BY <1>4 DEF IsOperand, IsClass
      <4> QED
        BY <4>1, <4>2, <4>3, <4>4, MinusSelf
    <3> QED  BY <3>1, <3>2
  <2> QED  BY <2>1 DEF Coherent
<1>6. \A o \in operands : o.class.base.op \in {"Undefined1", "Undefined2", "Push"}
  BY <1>1, <1>2, <1>3 DEF Operand
<1>7. IsMachine(machine)
  <2>1. PICK m \in Initial :
          machine = [storage |-> m.storage, memory |-> m.memory, signals |-> <<>>]
    BY DEF Init
  <2>2. m.storage \in [Word -> Word] /\ m.memory \in Memories
    BY SizesAssumption DEF Contents, Memories
  <2> QED  BY <2>1, <2>2 DEF IsMachine
<1>8. \A store, op : op \in {"SLOAD", "MLOAD"} => Known(Nothing, operands, store, op, sequenceNumber)
  BY <1>6 DEF Known, WitnessedBy, SoundFor, Fresh, Nothing
<1>9. InRange(Nothing, operands) /\ HashesKnown(Nothing, operands)
  BY DEF InRange, HashesKnown, Nothing
<1>10. SignalsAlike(operands) /\ HashesFresh(operands, machine.memory, sequenceNumber)
  BY <1>6 DEF SignalsAlike, HashesFresh
<1>11. ConstsAlike(operands)
  BY <1>1, <1>2, <1>3 DEF ConstsAlike, IsConst, Operand
<1>12. sequenceNumber \in Nat /\ steps \in 0 .. MaxSteps
  BY SizesAssumption DEF Init
<1>13. storageContent = Nothing /\ memoryContent = Nothing /\ hashes = Nothing
  BY DEF Init
<1>14. Knowledge(operands, Nothing, Nothing, Nothing, machine, sequenceNumber)
  BY <1>4, <1>5, <1>8, <1>9, <1>10, <1>11 DEF Knowledge, AllOperands
<1> QED
  BY <1>7, <1>12, <1>13, <1>14 DEF KnowledgeInv

(* What each step of a block leaves of the bound on its length.            *)
LEMMA FedSteps ==
  ASSUME KnowledgeInv, NEW instr, Fed(instr)
  PROVE  steps' \in 0 .. MaxSteps
  BY SizesAssumption DEF KnowledgeInv, Fed

(* storeInStorage drops all it knew about slots that may equal the one     *)
(* written to, and what it keeps is still true.                            *)
LEMMA SSTOREStep ==
  ASSUME KnowledgeInv, NEW s \in operands, NEW v \in operands, FeedSSTORE(s, v)
  PROVE  KnowledgeInv'
<1> DEFINE old == machine.storage
           stored == [old EXCEPT ![s.value] = v.value]
<1>1. /\ operands' = operands
      /\ machine' = [machine EXCEPT !.storage[s.value] = v.value]
      /\ steps' \in 0 .. MaxSteps
  BY FedSteps DEF FeedSSTORE
<1>2. /\ AllOperands(operands) /\ old \in [Word -> Word]
      /\ s.value \in Word /\ v.value \in Word /\ sequenceNumber \in Nat
      /\ Known(storageContent, operands, old, "SLOAD", sequenceNumber)
      /\ Known(memoryContent, operands, Words(machine.memory), "MLOAD", sequenceNumber)
      /\ InRange(memoryContent, operands)
  BY DEF KnowledgeInv, Knowledge, IsMachine, AllOperands, IsOperand
<1>3. /\ IsMachine(machine') /\ machine'.storage = stored /\ machine'.memory = machine.memory
      /\ stored[s.value] = v.value
      /\ \A a \in Word : a # s.value => stored[a] = old[a]
  BY <1>1, <1>2 DEF KnowledgeInv, IsMachine
<1>4. CASE s.class \in DOMAIN storageContent /\ storageContent[s.class] = v.class
  <2>1. UNCHANGED <<storageContent, memoryContent, hashes, sequenceNumber>>
    BY <1>4 DEF FeedSSTORE, storeInStorage, known
  <2>2. old[s.value] = v.value
    BY <1>2, <1>4 DEF Known, SoundFor
  <2>3. stored = old
    BY <1>2, <2>2
  <2>4. machine' = machine
    BY <1>1, <1>3, <2>3 DEF KnowledgeInv, IsMachine
  <2> QED
    BY <1>1, <2>1, <2>4 DEF KnowledgeInv
<1>5. CASE ~(s.class \in DOMAIN storageContent /\ storageContent[s.class] = v.class)
  <2> DEFINE kept == {c \in DOMAIN storageContent :
                        knownToBeDifferent(c, s.class) \/ storageContent[c] = v.class}
  <2>1. /\ storageContent' = Stored(storageContent, kept, s.class, v.class)
        /\ sequenceNumber' = sequenceNumber + 2 /\ UNCHANGED <<memoryContent, hashes>>
    BY <1>5 DEF FeedSSTORE, storeInStorage, Stored
  <2>2. ASSUME NEW t \in operands, NEW w \in operands,
               t.class \in kept, storageContent[t.class] = w.class, old[t.value] = w.value
        PROVE  stored[t.value] = w.value
    <3>1. /\ t.value \in Word /\ t.class.off \in Word /\ s.class.off \in Word
      BY <1>2 DEF AllOperands, IsOperand, IsClass
    <3>2. CASE knownToBeDifferent(t.class, s.class)
      <4>1. Minus(t.value, s.value) = Minus(t.class.off, s.class.off)
        BY <1>2, <3>2 DEF AllOperands, Coherent, knownToBeDifferent
      <4>2. t.value # s.value
        BY <1>2, <3>1, <3>2, <4>1, PlusMinusTyped DEF knownToBeDifferent, Difference
      <4> QED  BY <1>3, <2>2, <3>1, <4>2
    <3>3. CASE storageContent[t.class] = v.class
      <4>1. w.value = v.value
        BY <1>2, <2>2, <3>3, CoherentClasses
      <4> QED  BY <1>3, <2>2, <3>1, <4>1
    <3> QED  BY <2>2, <3>2, <3>3
  <2>3. kept \subseteq DOMAIN storageContent
    OBVIOUS
  <2> HIDE DEF kept, stored, old
  <2>4. Leaves(storageContent, operands, kept, old, stored)
    BY <2>2 DEF Leaves
  <2>5. Known(storageContent', operands, stored, "SLOAD", sequenceNumber + 2)
    BY <1>2, <1>3, <2>1, <2>3, <2>4, StoreKnown
  <2>6. Known(memoryContent, operands, Words(machine.memory), "MLOAD", sequenceNumber + 2)
    BY <1>2, KnownLater
  <2>7. HashesFresh(operands, machine.memory, sequenceNumber + 2)
    BY <1>2, HashesLater DEF KnowledgeInv, Knowledge
  <2>8. Knowledge(operands, storageContent', memoryContent, hashes, machine', sequenceNumber + 2)
    BY <1>2, <1>3, <2>5, <2>6, <2>7 DEF KnowledgeInv, Knowledge, old
  <2> QED
    BY <1>1, <1>2, <1>3, <2>1, <2>8 DEF KnowledgeInv
<1> QED  BY <1>4, <1>5

(* storeInMemory drops all it knew about words that may overlap the one    *)
(* written, and what it keeps is still true.                               *)
LEMMA MSTOREStep ==
  ASSUME KnowledgeInv, NEW s \in operands, NEW v \in operands, FeedMSTORE(s, v)
  PROVE  KnowledgeInv'
<1> DEFINE old == machine.memory
           written == WriteWord(old, s.value, v.value)
<1>1. /\ operands' = operands
      /\ machine' = [machine EXCEPT !.memory = written]
      /\ steps' \in 0 .. MaxSteps
      /\ InMemory(s.value, WordSize)
  BY FedSteps DEF FeedMSTORE
<1>2. /\ AllOperands(operands) /\ old \in Memories
      /\ s.value \in Word /\ v.value \in Word /\ sequenceNumber \in Nat
      /\ Known(storageContent, operands, machine.storage, "SLOAD", sequenceNumber)
      /\ Known(memoryContent, operands, Words(old), "MLOAD", sequenceNumber)
      /\ InRange(memoryContent, operands)
  BY DEF KnowledgeInv, Knowledge, IsMachine, AllOperands, IsOperand
<1>3. written \in Memories /\ WordAt(written, s.value) = v.value
  BY <1>1, <1>2, WrittenBytes, WordAtWritten
<1> HIDE DEF written
<1>4. IsMachine(machine') /\ machine'.memory = written /\ machine'.storage = machine.storage
  BY <1>1, <1>3 DEF KnowledgeInv, IsMachine
<1>5. CASE s.class \in DOMAIN memoryContent /\ memoryContent[s.class] = v.class
  <2>1. UNCHANGED <<storageContent, memoryContent, hashes, sequenceNumber>>
    BY <1>5 DEF FeedMSTORE, storeInMemory, known
  <2>2. WordAt(old, s.value) = v.value
    BY <1>2, <1>5 DEF Known, SoundFor, Words
  <2>3. written = old
    BY <1>1, <1>2, <2>2, WrittenAgain DEF written
  <2>4. machine' = machine
    BY <1>1, <2>3 DEF KnowledgeInv, IsMachine
  <2> QED
    BY <1>1, <2>1, <2>4 DEF KnowledgeInv
<1>6. CASE ~(s.class \in DOMAIN memoryContent /\ memoryContent[s.class] = v.class)
  <2> DEFINE kept == {c \in DOMAIN memoryContent : knownToBeDifferentBy32(c, s.class)}
  <2>1. /\ memoryContent' = Stored(memoryContent, kept, s.class, v.class)
        /\ sequenceNumber' = sequenceNumber + 2 /\ UNCHANGED <<storageContent, hashes>>
    BY <1>6 DEF FeedMSTORE, storeInMemory, Stored
  <2>2. kept \subseteq DOMAIN memoryContent /\ DOMAIN memoryContent' = kept \cup {s.class}
    BY <2>1 DEF Stored
  <2>3. ASSUME NEW t \in operands, NEW w \in operands,
               t.class \in kept, memoryContent[t.class] = w.class, Words(old)[t.value] = w.value
        PROVE  Words(written)[t.value] = w.value
    <3>1. t.value \in Word /\ InMemory(t.value, WordSize)
      BY <1>2, <2>2, <2>3 DEF AllOperands, IsOperand, InRange
    <3>2. Minus(t.value, s.value) = Minus(t.class.off, s.class.off)
      BY <1>2, <2>3 DEF AllOperands, Coherent, knownToBeDifferentBy32
    <3>3. Plus(Minus(t.value, s.value), WordSize - 1) > 2 * (WordSize - 1)
      BY <2>3, <3>2 DEF knownToBeDifferentBy32, Difference
    <3>4. t.value + WordSize <= s.value \/ s.value + WordSize <= t.value
      BY <1>2, <3>1, <3>3, FarApart
    <3>5. WordAt(written, t.value) = WordAt(old, t.value)
      BY <1>1, <1>2, <3>1, <3>4, WordAtElsewhere DEF written
    <3> QED  BY <2>3, <3>1, <3>5 DEF Words
  <2>4. Words(written)[s.value] = v.value
    BY <1>2, <1>3 DEF Words
  <2> HIDE DEF kept, old
  <2>5. Leaves(memoryContent, operands, kept, Words(old), Words(written))
    BY <2>3 DEF Leaves
  <2>6. Known(memoryContent', operands, Words(written), "MLOAD", sequenceNumber + 2)
    BY <1>2, <2>1, <2>2, <2>4, <2>5, StoreKnown
  <2>7. Known(storageContent, operands, machine.storage, "SLOAD", sequenceNumber + 2)
    BY <1>2, KnownLater
  <2>8. InRange(memoryContent', operands)
    <3> SUFFICES ASSUME NEW t \in operands, t.class \in DOMAIN memoryContent'
                 PROVE  InMemory(t.value, WordSize)
      BY DEF InRange
    <3>1. CASE t.class = s.class
      <4>1. t.value = s.value
        BY <1>2, <3>1, CoherentClasses
      <4> QED  BY <1>1, <4>1
    <3>2. CASE t.class # s.class
      BY <1>2, <2>2, <3>2 DEF InRange
    <3> QED  BY <3>1, <3>2
  <2>9. HashesFresh(operands, written, sequenceNumber + 2)
    BY <1>2, HashesLater DEF KnowledgeInv, Knowledge
  <2>10. Knowledge(operands, storageContent, memoryContent', hashes, machine', sequenceNumber + 2)
    BY <1>2, <1>4, <2>6, <2>7, <2>8, <2>9 DEF KnowledgeInv, Knowledge
  <2> QED
    BY <1>1, <1>2, <1>4, <2>1, <2>10 DEF KnowledgeInv
<1> QED  BY <1>5, <1>6

(* loadFromStorage.                                                        *)
LEMMA SLOADStep ==
  ASSUME KnowledgeInv, NEW s \in operands, FeedSLOAD(s)
  PROVE  KnowledgeInv'
<1> DEFINE class == Loaded(storageContent, "SLOAD", s.class)
<1>1. /\ UNCHANGED <<machine, sequenceNumber, memoryContent, hashes>>
      /\ storageContent' = With(storageContent, s.class, class)
      /\ operands' = operands \cup {Operand(class, machine.storage[s.value])}
      /\ steps' \in 0 .. MaxSteps
  BY FedSteps DEF FeedSLOAD
<1>2. class = IF s.class \in DOMAIN storageContent THEN storageContent[s.class]
              ELSE find("SLOAD", <<s.class>>, sequenceNumber)
  BY DEF Loaded
<1> HIDE DEF class
<1>3. Knowledge(operands', storageContent', memoryContent, hashes, machine, sequenceNumber)
  BY <1>1, <1>2, SLOADAdded DEF KnowledgeInv
<1> QED  BY <1>1, <1>3 DEF KnowledgeInv

(* loadFromMemory.                                                         *)
LEMMA MLOADStep ==
  ASSUME KnowledgeInv, NEW s \in operands, FeedMLOAD(s)
  PROVE  KnowledgeInv'
<1> DEFINE class == Loaded(memoryContent, "MLOAD", s.class)
<1>1. /\ UNCHANGED <<machine, sequenceNumber, storageContent, hashes>>
      /\ memoryContent' = With(memoryContent, s.class, class)
      /\ operands' = operands \cup {Operand(class, WordAt(machine.memory, s.value))}
      /\ steps' \in 0 .. MaxSteps
      /\ InMemory(s.value, WordSize)
  BY FedSteps DEF FeedMLOAD
<1>2. class = IF s.class \in DOMAIN memoryContent THEN memoryContent[s.class]
              ELSE find("MLOAD", <<s.class>>, sequenceNumber)
  BY DEF Loaded
<1> HIDE DEF class
<1>3. Knowledge(operands', storageContent, memoryContent', hashes, machine, sequenceNumber)
  BY <1>1, <1>2, MLOADAdded DEF KnowledgeInv
<1> QED  BY <1>1, <1>3 DEF KnowledgeInv

(* ADD of a constant.                                                      *)
LEMMA ADDStep ==
  ASSUME KnowledgeInv, NEW s \in operands, NEW k \in Literals, FeedADD(s, k)
  PROVE  KnowledgeInv'
<1>1. /\ UNCHANGED <<machine, sequenceNumber, storageContent, memoryContent, hashes>>
      /\ operands' = operands \cup {Operand(Offset(s.class, k), Plus(s.value, k))}
      /\ steps' \in 0 .. MaxSteps
  BY FedSteps DEF FeedADD, known
<1>2. k \in Word
  BY SizesAssumption
<1>3. Knowledge(operands', storageContent, memoryContent, hashes, machine, sequenceNumber)
  BY <1>1, <1>2, OffsetAdded DEF KnowledgeInv
<1> QED  BY <1>1, <1>3 DEF KnowledgeInv

(* CREATESIGNAL and DELETESIGNAL leave storage and memory as they are.     *)
LEMMA SignalStep ==
  ASSUME KnowledgeInv, NEW s \in operands, NEW instr \in {"CREATESIGNAL", "DELETESIGNAL"},
         FeedSignal(instr, s)
  PROVE  KnowledgeInv'
<1>1. /\ UNCHANGED <<sequenceNumber, storageContent, memoryContent, hashes>>
      /\ operands' = operands \cup {Operand(find(instr, <<s.class>>, 0), Plus(0, 1))}
      /\ machine' = [machine EXCEPT !.signals = Append(@, <<instr, s.value>>)]
      /\ steps' \in 0 .. MaxSteps
  BY FedSteps DEF FeedSignal, known
<1>2. IsMachine(machine') /\ machine'.storage = machine.storage /\ machine'.memory = machine.memory
  BY <1>1 DEF KnowledgeInv, IsMachine
<1>3. Knowledge(operands', storageContent, memoryContent, hashes, machine, sequenceNumber)
  BY <1>1, SignalAdded DEF KnowledgeInv
<1>4. Knowledge(operands', storageContent, memoryContent, hashes, machine', sequenceNumber)
  BY <1>2, <1>3 DEF Knowledge
<1> QED  BY <1>1, <1>2, <1>4 DEF KnowledgeInv

(* KECCAK256 of a constant number of bytes: its words are loaded if there  *)
(* are at most four of them.                                               *)
LEMMA KECCAK256Step ==
  ASSUME LengthsDistinct, KnowledgeInv, NEW s \in operands, NEW n \in Lengths, FeedKECCAK256(s, n)
  PROVE  KnowledgeInv'
<1> DEFINE L == WordsOf(n)
           slots == HashSlots(s.class, n)
           arguments == HashArguments(s.class, n)
           class == HashClass(s.class, n)
           v == Hash(BytesAt(machine.memory, s.value, n))
           h == Operand(class, v)
           c == Operand(Const(n), n)
           W == WordSize
           Rest(T) == ((operands \cup {h}) \cup {c}) \cup T
<1>0. /\ n \in Nat /\ n \in Word /\ L \in Nat /\ W \in Nat
      /\ s.value \in Word /\ machine.memory \in Memories
      /\ sequenceNumber \in Nat /\ IsMachine(machine)
      /\ Knowledge(operands, storageContent, memoryContent, hashes, machine, sequenceNumber)
  <2>1. n \in Nat /\ n \in Word
    BY SizesAssumption, ModulusPositive DEF Word
  <2> QED
    BY <2>1, SizesAssumption, WordsTouched DEF KnowledgeInv, Knowledge, AllOperands, IsOperand, IsMachine
<1>1. /\ slots = [i \in 1 .. L |-> Offset(s.class, (i - 1) * WordSize)]
      /\ DOMAIN slots = 1 .. L
      /\ \A i \in 1 .. L : slots[i] = Offset(s.class, (i - 1) * WordSize)
      /\ Len(slots) = L
  BY <1>0 DEF HashSlots, WordsOf
<1>2. /\ UNCHANGED <<machine, sequenceNumber, storageContent>>
      /\ steps' \in 0 .. MaxSteps
      /\ InMemory(s.value, L * WordSize)
  BY <1>1, FedSteps DEF FeedKECCAK256
<1>3. v \in Word
  BY <1>0, <1>2, HashInMemory
<1>4. CASE ~(n <= 4 * WordSize)
  <2>1. UNCHANGED <<memoryContent, hashes>> /\ operands' = Rest({})
    BY <1>4 DEF FeedKECCAK256
  <2>2. class = find("KECCAK256", <<s.class, Const(n)>>, sequenceNumber)
    <3>1. n > 4 * WordSize
      BY <1>0, <1>4
    <3> QED  BY <3>1 DEF HashClass
  <2>3. Knowledge(operands \cup {h}, storageContent, memoryContent, hashes, machine, sequenceNumber)
    BY <1>0, <1>3, <2>2, HashFound
  <2> HIDE DEF h
  <2>4. Knowledge((operands \cup {h}) \cup {c}, storageContent, memoryContent, hashes, machine,
                  sequenceNumber)
    BY <1>0, <2>3, ConstAdded
  <2>5. operands' = (operands \cup {h}) \cup {c}
    BY <2>1
  <2> QED  BY <1>0, <1>2, <2>1, <2>4, <2>5 DEF KnowledgeInv
<1>5. CASE n <= 4 * WordSize
  <2> DEFINE T == LoadedOperands(operands, memoryContent, machine, sequenceNumber, s, L)
             content == LoadedContent(memoryContent, sequenceNumber, s, L)
             table == With(hashes, arguments, class)
  <2>1. /\ memoryContent' = [x \in DOMAIN memoryContent \cup {slots[i] : i \in DOMAIN slots} |->
                               Loaded(memoryContent, "MLOAD", x)]
        /\ hashes' = table
        /\ operands' = Rest(UNION {{Operand(slots[i], s.value + (i - 1) * WordSize),
                                    Operand(arguments[i],
                                            WordAt(machine.memory, s.value + (i - 1) * WordSize))} :
                                     i \in DOMAIN slots})
    BY <1>5 DEF FeedKECCAK256
  <2>2. DOMAIN arguments = 1 .. L /\ \A i \in 1 .. L :
          arguments[i] = IF slots[i] \in DOMAIN memoryContent THEN memoryContent[slots[i]]
                         ELSE find("MLOAD", <<slots[i]>>, sequenceNumber)
    BY <1>1 DEF HashArguments, Loaded
  <2>3. class = ClassOfHash(hashes, s, n, sequenceNumber, arguments)
    <3>1. ~(n > 4 * WordSize)
      BY <1>0, <1>5
    <3> QED  BY <3>1 DEF HashClass, ClassOfHash
  <2> HIDE DEF slots, arguments, class
  <2>4. memoryContent' = content
    <3>1. {slots[i] : i \in DOMAIN slots} = {Offset(s.class, (j - 1) * WordSize) : j \in 1 .. L}
      BY <1>1
    <3> QED  BY <2>1, <3>1 DEF LoadedContent, Loaded
  <2>5. \A i \in 1 .. L :
          /\ Operand(slots[i], s.value + (i - 1) * WordSize) = SlotOperand(s, i)
          /\ Operand(arguments[i], WordAt(machine.memory, s.value + (i - 1) * WordSize))
               = LoadOperand(memoryContent, machine, sequenceNumber, s, i)
    BY <1>1, <2>2 DEF SlotOperand, LoadOperand
  <2>6. operands' = (T \cup {h}) \cup {c}
    <3>1. {{Operand(slots[i], s.value + (i - 1) * WordSize),
            Operand(arguments[i], WordAt(machine.memory, s.value + (i - 1) * WordSize))} :
              i \in DOMAIN slots}
            = {{SlotOperand(s, i), LoadOperand(memoryContent, machine, sequenceNumber, s, i)} :
                 i \in 1 .. L}
      BY <1>1, <2>5
    <3> HIDE DEF h, c
    <3> QED  BY <2>1, <3>1 DEF LoadedOperands
  <2>7. Knowledge(T, storageContent, content, hashes, machine, sequenceNumber)
    <3> HIDE DEF L
    <3> QED  BY <1>0, <1>2, AllLoaded
  <2>8. s \in T
    BY DEF LoadedOperands
  <2>9. AreArguments(arguments, T, machine.memory, s, n)
    <3> SUFFICES ASSUME NEW i \in 1 .. L
                 PROVE  \E o \in T : /\ o.class = arguments[i]
                                     /\ o.value = WordAt(machine.memory, s.value + (i - 1) * WordSize)
      BY <2>2 DEF AreArguments
    <3> DEFINE o == LoadOperand(memoryContent, machine, sequenceNumber, s, i)
    <3>1. o.class = arguments[i] /\ o.value = WordAt(machine.memory, s.value + (i - 1) * WordSize)
      BY <2>5 DEF Operand
    <3>2. o \in T
      BY DEF LoadedOperands
    <3> QED  BY <3>1, <3>2
  <2> HIDE DEF T, content
  <2>10. Knowledge(T \cup {h}, storageContent, content, table, machine, sequenceNumber)
    BY <1>0, <1>2, <1>5, <2>3, <2>7, <2>8, <2>9, HashAdded
  <2> HIDE DEF h, table
  <2>11. Knowledge((T \cup {h}) \cup {c}, storageContent, content, table, machine, sequenceNumber)
    BY <1>0, <2>10, ConstAdded
  <2> QED  BY <1>0, <1>2, <2>1, <2>4, <2>6, <2>11 DEF KnowledgeInv
<1> QED  BY <1>4, <1>5

(* A call forgets all knowledge and ends the era of earlier loads.         *)
LEMMA CALLStep ==
  ASSUME KnowledgeInv, FeedCALL
  PROVE  KnowledgeInv'
<1>1. /\ operands' = operands
      /\ storageContent' = Nothing /\ memoryContent' = Nothing /\ hashes' = hashes
      /\ sequenceNumber' = sequenceNumber + 2
      /\ steps' \in 0 .. MaxSteps
  BY FedSteps DEF FeedCALL
<1>2. IsMachine(machine')
  <2>1. CASE machine' = machine
    BY <2>1 DEF KnowledgeInv
  <2>2. ASSUME NEW m \in AfterCall,
               machine' = [machine EXCEPT !.storage = m.storage, !.memory = m.memory]
        PROVE  IsMachine(machine')
    <3>1. m.storage \in [Word -> Word] /\ m.memory \in Memories
      BY SizesAssumption DEF Contents, Memories
    <3> QED  BY <2>2, <3>1 DEF KnowledgeInv, IsMachine
  <2> QED  BY <2>1, <2>2 DEF FeedCALL
<1>3. /\ Known(Nothing, operands, machine'.storage, "SLOAD", sequenceNumber + 2)
      /\ Known(Nothing, operands, Words(machine'.memory), "MLOAD", sequenceNumber + 2)
  BY KnownLater DEF KnowledgeInv, Knowledge
<1>4. InRange(Nothing, operands)
  BY DEF InRange, Nothing
<1>5. HashesFresh(operands, machine'.memory, sequenceNumber + 2)
  BY HashesLater DEF KnowledgeInv, Knowledge
<1>6. Knowledge(operands, Nothing, Nothing, hashes, machine', sequenceNumber + 2)
  BY <1>3, <1>4, <1>5 DEF KnowledgeInv, Knowledge
<1> QED
  BY <1>1, <1>2, <1>6 DEF KnowledgeInv

(* Every step keeps the invariant.                                         *)
LEMMA KnowledgeStep == LengthsDistinct /\ KnowledgeInv /\ [Next]_vars => KnowledgeInv'
<1> SUFFICES ASSUME LengthsDistinct, KnowledgeInv, [Next]_vars
             PROVE  KnowledgeInv'
  OBVIOUS
<1>1. CASE UNCHANGED vars
  BY <1>1 DEF KnowledgeInv, vars, known
<1> QED
  BY <1>1, SSTOREStep, MSTOREStep, SLOADStep, MLOADStep, KECCAK256Step, ADDStep, SignalStep,
     CALLStep
     DEF Next

(* All offsets and values stay words of 256 bits and memory consists of    *)
(* bytes: Plus wraps around, MSTORE writes the digits of a word.           *)
THEOREM KnowledgeTypeCorrect ==
  ASSUME LengthsDistinct
  PROVE  Spec => []TypeOK
<1>1. KnowledgeInv => TypeOK
  BY DEF KnowledgeInv, Knowledge, AllOperands, IsOperand, IsClass, IsMachine, Memories, TypeOK
<1> QED
  BY <1>1, InitKnowledge, KnowledgeStep, PTL DEF Spec

(* In a block of any length and over words of any size, m_storageContent   *)
(* never claims a value a slot does not have.                              *)
THEOREM StorageKnowledgeCorrect ==
  ASSUME LengthsDistinct
  PROVE  Spec => []StorageKnowledgeSound
<1>1. KnowledgeInv => StorageKnowledgeSound
  BY DEF KnowledgeInv, Knowledge, Known, SoundFor, StorageKnowledgeSound
<1> QED
  BY <1>1, InitKnowledge, KnowledgeStep, PTL DEF Spec

(* In such a block m_memoryContent never claims a word that memory does    *)
(* not have, although stores overlap and addresses wrap around: the        *)
(* interval of knownToBeDifferentBy32 is wide enough.                      *)
THEOREM MemoryKnowledgeCorrect ==
  ASSUME LengthsDistinct
  PROVE  Spec => []MemoryKnowledgeSound
<1>1. ASSUME KnowledgeInv PROVE MemoryKnowledgeSound
  <2> SUFFICES ASSUME NEW s \in operands, NEW v \in operands,
                      s.class \in DOMAIN memoryContent, memoryContent[s.class] = v.class
               PROVE  InMemory(s.value, WordSize) /\ WordAt(machine.memory, s.value) = v.value
    BY DEF MemoryKnowledgeSound
  <2>1. InMemory(s.value, WordSize)
    BY <1>1 DEF KnowledgeInv, Knowledge, InRange
  <2>2. Words(machine.memory)[s.value] = v.value
    BY <1>1 DEF KnowledgeInv, Knowledge, Known, SoundFor
  <2>3. s.value \in Word
    BY <1>1 DEF KnowledgeInv, Knowledge, AllOperands, IsOperand
  <2> QED  BY <2>1, <2>2, <2>3 DEF Words
<1> QED
  BY <1>1, InitKnowledge, KnowledgeStep, PTL DEF Spec

(* In such a block, all values of an equivalence class are equal, so any   *)
(* of them may stand for the others.  Hashes may share a class although    *)
(* they were taken of different addresses and before or after stores.      *)
THEOREM ClassesCorrect ==
  ASSUME LengthsDistinct
  PROVE  Spec => []ClassesSound
<1>1. KnowledgeInv => ClassesSound
  BY CoherentClasses DEF KnowledgeInv, Knowledge, ClassesSound
<1> QED
  BY <1>1, InitKnowledge, KnowledgeStep, PTL DEF Spec

-----------------------------------------------------------------------------
(* Sequence numbers, in blocks of all instructions *)

IsSequence(s) == s \in Seq({s[i] : i \in DOMAIN s})

(* A class that was loaded has an odd number.                              *)
Numbered(c) == c.base.op \in Loads => c.base.seq \in Nat /\ c.base.seq % 2 = 1

AllNumbered(content) == \A c \in DOMAIN content : Numbered(content[c])

(* A store has an even number below the current one, which is odd, and     *)
(* stores are in the order of their numbers.                               *)
StoresNumbered ==
  /\ IsSequence(storeOperations)
  /\ \A i \in DOMAIN storeOperations :
       /\ storeOperations[i].seq \in Nat /\ storeOperations[i].seq % 2 = 0
       /\ storeOperations[i].seq < sequenceNumber
  /\ \A i, j \in DOMAIN storeOperations :
       i < j => storeOperations[i].seq < storeOperations[j].seq

NumbersInv ==
  /\ sequenceNumber \in Nat /\ sequenceNumber % 2 = 1
  /\ \A o \in operands : Numbered(o.class)
  /\ AllNumbered(storageContent) /\ AllNumbered(memoryContent) /\ AllNumbered(hashes)
  /\ StoresNumbered

(* A sequence is one of its own elements.                                  *)
LEMMA SequenceOfItsElements ==
  ASSUME NEW S, NEW s \in Seq(S)
  PROVE  IsSequence(s)
<1> DEFINE T == {s[i] : i \in DOMAIN s}
<1>1. PICK n \in Nat : s \in [1 .. n -> S]
  BY SeqDef
<1>2. s \in [1 .. n -> T]
  BY <1>1
<1>3. s \in UNION {[1 .. k -> T] : k \in Nat}
  BY <1>2
<1> QED  BY <1>3, SeqDef DEF IsSequence

(* A store appended with the next number keeps the stores in order.        *)
LEMMA StoreAppended ==
  ASSUME NumbersInv, NEW store, store.seq = sequenceNumber + 1,
         storeOperations' = Append(storeOperations, store),
         sequenceNumber' = sequenceNumber + 2
  PROVE  StoresNumbered' /\ sequenceNumber' \in Nat /\ sequenceNumber' % 2 = 1
<1> DEFINE old == storeOperations
           S == {old[i] : i \in DOMAIN old} \cup {store}
<1>1. old \in Seq(S) /\ store \in S
  BY DEF NumbersInv, StoresNumbered, IsSequence
<1>2. /\ DOMAIN storeOperations' = 1 .. Len(old) + 1
      /\ \A i \in 1 .. Len(old) : storeOperations'[i] = old[i]
      /\ storeOperations'[Len(old) + 1] = store
      /\ DOMAIN old = 1 .. Len(old) /\ Len(old) \in Nat
  BY <1>1
<1>3. IsSequence(storeOperations)'
  <2>1. storeOperations' \in Seq(S)
    BY <1>1
  <2> QED  BY <2>1, SequenceOfItsElements
<1>4. \A i \in DOMAIN old : /\ old[i].seq \in Nat /\ old[i].seq % 2 = 0
                            /\ old[i].seq < sequenceNumber
  BY DEF NumbersInv, StoresNumbered
<1>5. sequenceNumber \in Nat /\ sequenceNumber % 2 = 1
  BY DEF NumbersInv
<1>6. sequenceNumber' \in Nat /\ sequenceNumber' % 2 = 1
      /\ store.seq \in Nat /\ store.seq % 2 = 0 /\ store.seq < sequenceNumber'
  BY <1>5
<1>7. \A i \in DOMAIN storeOperations' :
        /\ storeOperations'[i].seq \in Nat /\ storeOperations'[i].seq % 2 = 0
        /\ storeOperations'[i].seq < sequenceNumber'
  BY <1>2, <1>4, <1>5, <1>6
<1>8. \A i, j \in DOMAIN storeOperations' :
        i < j => storeOperations'[i].seq < storeOperations'[j].seq
  <2>1. \A i, j \in DOMAIN old : i < j => old[i].seq < old[j].seq
    BY DEF NumbersInv, StoresNumbered
  <2> QED  BY <2>1, <1>2, <1>4, <1>5
<1> QED
  BY <1>3, <1>6, <1>7, <1>8 DEF StoresNumbered

(* A load yields a class that was known or one with the current number.    *)
LEMMA LoadNumbered ==
  ASSUME NumbersInv, NEW content, AllNumbered(content), NEW op, NEW slot
  PROVE  Numbered(Loaded(content, op, slot))
  BY DEF NumbersInv, AllNumbered, Numbered, Loaded, find, Expr

(* Classes of one more slot.                                               *)
LEMMA WithNumbered ==
  ASSUME NEW content, AllNumbered(content), NEW slot, NEW class, Numbered(class)
  PROVE  AllNumbered(With(content, slot, class))
  BY DEF AllNumbered, With

(* The class of a hash is known, a constant, or has the current number.    *)
LEMMA HashNumbered ==
  ASSUME NumbersInv, NEW begin, NEW n
  PROVE  Numbered(HashClass(begin, n))
<1>1. Numbered(find("KECCAK256", <<begin, Const(n)>>, sequenceNumber))
  BY DEF NumbersInv, Numbered, find, Expr
<1>2. \A k : Numbered(Const(k))
  BY DEF Numbered, Const, Expr, Loads
<1>3. HashArguments(begin, n) \in DOMAIN hashes => Numbered(hashes[HashArguments(begin, n)])
  BY DEF NumbersInv, AllNumbered
<1> HIDE DEF Numbered
<1> QED
  BY <1>1, <1>2, <1>3 DEF HashClass

(* The operands a block begins with are not loaded.                        *)
LEMMA InitNumbersInv == Init => NumbersInv
<1> SUFFICES ASSUME Init PROVE NumbersInv
  OBVIOUS
<1>1. \A o \in operands : Numbered(o.class)
  BY DEF Init, Operand, Unknown, Const, find, Expr, Numbered, Loads
<1>2. AllNumbered(storageContent) /\ AllNumbered(memoryContent) /\ AllNumbered(hashes)
  BY DEF Init, Nothing, AllNumbered
<1>3. StoresNumbered
  BY DEF Init, StoresNumbered, IsSequence
<1> QED
  BY <1>1, <1>2, <1>3 DEF Init, NumbersInv

(* A store: knowledge about slots that stays was there before.             *)
LEMMA NumbersStore ==
  ASSUME NumbersInv, NEW s \in operands, NEW v \in operands,
         FeedSSTORE(s, v) \/ FeedMSTORE(s, v)
  PROVE  NumbersInv'
<1> USE DEF NumbersInv
<1>0. operands' = operands /\ Numbered(v.class)
  BY DEF FeedSSTORE, FeedMSTORE
<1>1. CASE UNCHANGED known
  BY <1>0, <1>1 DEF known, AllNumbered, StoresNumbered
<1>2. CASE /\ FeedSSTORE(s, v)
           /\ ~ (s.class \in DOMAIN storageContent /\ storageContent[s.class] = v.class)
  <2> DEFINE store == [target |-> "Storage", slot |-> s.class, seq |-> sequenceNumber + 1,
                       expression |-> find("SSTORE", <<s.class, v.class>>, sequenceNumber + 1)]
  <2>1. /\ storeOperations' = Append(storeOperations, store)
        /\ sequenceNumber' = sequenceNumber + 2
        /\ memoryContent' = memoryContent /\ hashes' = hashes
    BY <1>2 DEF FeedSSTORE, storeInStorage
  <2>2. PICK kept \in SUBSET DOMAIN storageContent :
           storageContent' = [c \in kept \cup {s.class} |->
                                IF c = s.class THEN v.class ELSE storageContent[c]]
    BY <1>2 DEF FeedSSTORE, storeInStorage
  <2>3. AllNumbered(storageContent)'
    BY <1>0, <2>2 DEF AllNumbered
  <2>4. store.seq = sequenceNumber + 1
    OBVIOUS
  <2> HIDE DEF store
  <2>5. StoresNumbered' /\ sequenceNumber' \in Nat /\ sequenceNumber' % 2 = 1
    BY <2>1, <2>4, StoreAppended
  <2> QED  BY <1>0, <2>1, <2>3, <2>5 DEF AllNumbered
<1>3. CASE /\ FeedMSTORE(s, v)
           /\ ~ (s.class \in DOMAIN memoryContent /\ memoryContent[s.class] = v.class)
  <2> DEFINE store == [target |-> "Memory", slot |-> s.class, seq |-> sequenceNumber + 1,
                       expression |-> find("MSTORE", <<s.class, v.class>>, sequenceNumber + 1)]
  <2>1. /\ storeOperations' = Append(storeOperations, store)
        /\ sequenceNumber' = sequenceNumber + 2
        /\ storageContent' = storageContent /\ hashes' = hashes
    BY <1>3 DEF FeedMSTORE, storeInMemory
  <2>2. PICK kept \in SUBSET DOMAIN memoryContent :
           memoryContent' = [c \in kept \cup {s.class} |->
                               IF c = s.class THEN v.class ELSE memoryContent[c]]
    BY <1>3 DEF FeedMSTORE, storeInMemory
  <2>3. AllNumbered(memoryContent)'
    BY <1>0, <2>2 DEF AllNumbered
  <2>4. store.seq = sequenceNumber + 1
    OBVIOUS
  <2> HIDE DEF store
  <2>5. StoresNumbered' /\ sequenceNumber' \in Nat /\ sequenceNumber' % 2 = 1
    BY <2>1, <2>4, StoreAppended
  <2> QED  BY <1>0, <2>1, <2>3, <2>5 DEF AllNumbered
<1> QED
  BY <1>1, <1>2, <1>3 DEF FeedSSTORE, FeedMSTORE, storeInStorage, storeInMemory

(* A load of a word.                                                       *)
LEMMA NumbersLoad ==
  ASSUME NumbersInv, NEW s \in operands, FeedSLOAD(s) \/ FeedMLOAD(s)
  PROVE  NumbersInv'
<1>1. CASE FeedSLOAD(s)
  <2> DEFINE class == Loaded(storageContent, "SLOAD", s.class)
  <2>1. Numbered(class)
    BY LoadNumbered DEF NumbersInv
  <2>2. /\ storageContent' = With(storageContent, s.class, class)
        /\ operands' = operands \cup {Operand(class, machine.storage[s.value])}
        /\ memoryContent' = memoryContent /\ hashes' = hashes
        /\ sequenceNumber' = sequenceNumber /\ storeOperations' = storeOperations
    BY <1>1 DEF FeedSLOAD
  <2> HIDE DEF class
  <2>3. AllNumbered(With(storageContent, s.class, class))
    BY <2>1, WithNumbered DEF NumbersInv
  <2>4. \A o \in operands' : Numbered(o.class)
    BY <2>1, <2>2 DEF NumbersInv, Operand
  <2> QED  BY <2>2, <2>3, <2>4 DEF NumbersInv, AllNumbered, StoresNumbered
<1>2. CASE FeedMLOAD(s)
  <2> DEFINE class == Loaded(memoryContent, "MLOAD", s.class)
  <2>1. Numbered(class)
    BY LoadNumbered DEF NumbersInv
  <2>2. /\ memoryContent' = With(memoryContent, s.class, class)
        /\ operands' = operands \cup {Operand(class, WordAt(machine.memory, s.value))}
        /\ storageContent' = storageContent /\ hashes' = hashes
        /\ sequenceNumber' = sequenceNumber /\ storeOperations' = storeOperations
    BY <1>2 DEF FeedMLOAD
  <2> HIDE DEF class
  <2>3. AllNumbered(With(memoryContent, s.class, class))
    BY <2>1, WithNumbered DEF NumbersInv
  <2>4. \A o \in operands' : Numbered(o.class)
    BY <2>1, <2>2 DEF NumbersInv, Operand
  <2> QED  BY <2>2, <2>3, <2>4 DEF NumbersInv, AllNumbered, StoresNumbered
<1> QED  BY <1>1, <1>2

(* A hash loads the words it is about first.                               *)
LEMMA NumbersHash ==
  ASSUME NumbersInv, NEW s \in operands, NEW n \in Lengths, FeedKECCAK256(s, n)
  PROVE  NumbersInv'
<1> DEFINE slots     == HashSlots(s.class, n)
           arguments == HashArguments(s.class, n)
           class     == HashClass(s.class, n)
<1>1. Numbered(class)
  BY HashNumbered
<1>2. \A c : Numbered(Loaded(memoryContent, "MLOAD", c))
  BY LoadNumbered DEF NumbersInv
<1>3. \A i \in DOMAIN slots : Numbered(arguments[i])
  BY <1>2 DEF HashArguments
<1>4. AllNumbered(memoryContent)'
  <2> HIDE DEF slots, arguments, class
  <2>1. \/ memoryContent' = memoryContent
        \/ memoryContent' = [c \in DOMAIN memoryContent \cup {slots[i] : i \in DOMAIN slots} |->
                               Loaded(memoryContent, "MLOAD", c)]
    BY DEF FeedKECCAK256, slots
  <2> QED  BY <1>2, <2>1 DEF NumbersInv, AllNumbered
<1>5. AllNumbered(hashes)'
  <2>1. hashes' = hashes \/ hashes' = With(hashes, arguments, class)
    BY DEF FeedKECCAK256
  <2> HIDE DEF arguments, class
  <2>2. AllNumbered(With(hashes, arguments, class))
    BY <1>1, WithNumbered DEF NumbersInv
  <2> QED  BY <2>1, <2>2 DEF NumbersInv, AllNumbered
<1>6. \A o \in operands' : Numbered(o.class)
  <2>1. \A k : Numbered(Const(k))
    BY DEF Numbered, Const, Expr, Loads
  <2>2. Numbered(s.class) /\ \A k : Numbered(Offset(s.class, k))
    BY DEF NumbersInv, Numbered, Offset
  <2>3. \A i \in DOMAIN slots : Numbered(slots[i])
    BY <2>2 DEF HashSlots
  <2>4. \A o \in operands' :
           \/ o \in operands \/ o.class = class \/ o.class = Const(n)
           \/ \E i \in DOMAIN slots : o.class = slots[i] \/ o.class = arguments[i]
    BY DEF FeedKECCAK256, Operand
  <2> QED  BY <1>1, <1>3, <2>1, <2>3, <2>4 DEF NumbersInv
<1> QED
  BY <1>4, <1>5, <1>6 DEF NumbersInv, FeedKECCAK256, AllNumbered, StoresNumbered

(* Every item keeps the numbers of loads and stores apart.                 *)
LEMMA NumbersStep == NumbersInv /\ [Next]_vars => NumbersInv'
<1> SUFFICES ASSUME NumbersInv, [Next]_vars PROVE NumbersInv'
  OBVIOUS
<1>1. ASSUME NEW s \in operands, NEW n \in Literals, FeedADD(s, n)
      PROVE  NumbersInv'
  <2>1. UNCHANGED known /\ \A o \in operands' : Numbered(o.class)
    BY <1>1 DEF FeedADD, NumbersInv, Numbered, Operand, Offset
  <2> QED  BY <2>1 DEF known, NumbersInv, AllNumbered, StoresNumbered
<1>2. ASSUME NEW s \in operands, NEW instr \in {"CREATESIGNAL", "DELETESIGNAL"}, FeedSignal(instr, s)
      PROVE  NumbersInv'
  <2>1. UNCHANGED known /\ \A o \in operands' : Numbered(o.class)
    BY <1>2 DEF FeedSignal, NumbersInv, Numbered, Operand, find, Expr, Loads
  <2> QED  BY <2>1 DEF known, NumbersInv, AllNumbered, StoresNumbered
<1>3. CASE FeedCALL
  <2>1. /\ operands' = operands /\ hashes' = hashes
        /\ AllNumbered(storageContent)' /\ AllNumbered(memoryContent)'
        /\ storeOperations' = <<>> /\ sequenceNumber' = sequenceNumber + 2
    BY <1>3 DEF FeedCALL, Nothing, AllNumbered
  <2>2. StoresNumbered'
    BY <2>1 DEF StoresNumbered, IsSequence
  <2>3. sequenceNumber' \in Nat /\ sequenceNumber' % 2 = 1
    BY <2>1 DEF NumbersInv
  <2> QED  BY <2>1, <2>2, <2>3 DEF NumbersInv, AllNumbered
<1>4. CASE UNCHANGED vars
  BY <1>4 DEF vars, known, NumbersInv, AllNumbered, StoresNumbered
<1> QED
  BY <1>1, <1>2, <1>3, <1>4, NumbersStore, NumbersLoad, NumbersHash DEF Next

(* In a block of any instructions, memory accesses, hashes and signals     *)
(* included, a store has its number for itself: addDependencies and        *)
(* generateCode may order loads and stores by nothing else.                *)
THEOREM SequenceNumbersCorrect == Spec => []SequenceNumbersSeparate
<1>1. NumbersInv => SequenceNumbersSeparate
  <2> SUFFICES ASSUME NumbersInv, NEW i \in DOMAIN storeOperations, NEW j \in DOMAIN storeOperations
               PROVE  /\ storeOperations[i].seq = storeOperations[j].seq => i = j
                      /\ \A o \in operands : o.class.base.op \in Loads =>
                            o.class.base.seq # storeOperations[i].seq
    BY DEF SequenceNumbersSeparate
  <2>1. i \in Int /\ j \in Int
    BY DEF NumbersInv, StoresNumbered, IsSequence
  <2>2. storeOperations[i].seq = storeOperations[j].seq => i = j
    BY <2>1 DEF NumbersInv, StoresNumbered
  <2> QED  BY <2>2 DEF NumbersInv, StoresNumbered, Numbered
<1> QED
  BY <1>1, InitNumbersInv, NumbersStep, PTL DEF Spec
=============================================================================
