------------------------------ MODULE EVMWords ------------------------------
(***************************************************************************)
(* Words of the EVM and the instructions that only compute on them, as the *)
(* interpreter of the test tools defines them.                             *)
(***************************************************************************)
EXTENDS Integers, Sequences, FiniteSetsExt

CONSTANTS
  ByteBits,      \* bits of a byte (8)
  WordSize,      \* bytes of a word (32)
  AddressBits    \* bits of an address (160)

Bits    == ByteBits * WordSize
Base    == 2 ^ ByteBits
Modulus == 2 ^ Bits
Word    == 0 .. Modulus - 1
Ones    == Modulus - 1          \* ~Word(0)

Bool(b)   == IF b THEN 1 ELSE 0
Signed(v) == IF v >= Modulus \div 2 THEN v - Modulus ELSE v       \* u2s
Bit(v, i) == (v \div 2 ^ i) % 2

(* Operations on the bits of words, as tables.                             *)
BitTable(F(_, _)) ==
  [p \in Word \X Word |-> SumSet({2 ^ i : i \in {j \in 0 .. Bits - 1 : F(Bit(p[1], j), Bit(p[2], j)) = 1}})]
AndTable == BitTable(LAMBDA a, b : a * b)
OrTable  == BitTable(LAMBDA a, b : IF a + b > 0 THEN 1 ELSE 0)
XorTable == BitTable(LAMBDA a, b : (a + b) % 2)
And(a, b) == AndTable[<<a, b>>]
Or(a, b)  == OrTable[<<a, b>>]
Not(a)    == Ones - a

Magnitude(n) == IF n < 0 THEN 0 - n ELSE n

(* Division and remainder of C++, which round towards zero.                *)
Quotient(a, b) ==
  LET q == Magnitude(a) \div Magnitude(b) IN IF (a < 0) = (b < 0) THEN q ELSE 0 - q
Remainder(a, b) == a - b * Quotient(a, b)

PowerTable ==
  LET p[k \in Word \X Word] ==
        IF k[2] = 0 THEN 1 % Modulus ELSE (p[<<k[1], k[2] - 1>>] * k[1]) % Modulus
  IN  [k \in Word \X Word |-> p[k]]

SignExtend(n, v) ==
  LET test == n * ByteBits + ByteBits - 1
      mask == 2 ^ test - 1
  IN  IF n >= WordSize - 1 THEN v ELSE IF Bit(v, test) = 1 THEN Or(v, Not(mask)) ELSE And(v, mask)

(* The arithmetic part of EVMInstructionInterpreter::eval.                 *)
Compute(o, a) ==
  CASE o = "add"  -> (a[1] + a[2]) % Modulus
    [] o = "mul"  -> (a[1] * a[2]) % Modulus
    [] o = "sub"  -> (a[1] - a[2]) % Modulus
    [] o = "div"  -> IF a[2] = 0 THEN 0 ELSE a[1] \div a[2]
    [] o = "sdiv" -> IF a[2] = 0 THEN 0 ELSE Quotient(Signed(a[1]), Signed(a[2])) % Modulus
    [] o = "mod"  -> IF a[2] = 0 THEN 0 ELSE a[1] % a[2]
    [] o = "smod" -> IF a[2] = 0 THEN 0 ELSE Remainder(Signed(a[1]), Signed(a[2])) % Modulus
    [] o = "exp"  -> PowerTable[<<a[1], a[2]>>]
    [] o = "not"  -> Not(a[1])
    [] o = "lt"   -> Bool(a[1] < a[2])
    [] o = "gt"   -> Bool(a[1] > a[2])
    [] o = "slt"  -> Bool(Signed(a[1]) < Signed(a[2]))
    [] o = "sgt"  -> Bool(Signed(a[1]) > Signed(a[2]))
    [] o = "eq"   -> Bool(a[1] = a[2])
    [] o = "iszero" -> Bool(a[1] = 0)
    [] o = "and"  -> And(a[1], a[2])
    [] o = "or"   -> Or(a[1], a[2])
    [] o = "xor"  -> XorTable[<<a[1], a[2]>>]
    [] o = "byte" -> IF a[1] >= WordSize THEN 0
                     ELSE (a[2] \div 2 ^ (ByteBits * (WordSize - 1 - a[1]))) % Base
    [] o = "shl"  -> IF a[1] > Bits - 1 THEN 0 ELSE (a[2] * 2 ^ a[1]) % Modulus
    [] o = "shr"  -> IF a[1] > Bits - 1 THEN 0 ELSE a[2] \div 2 ^ a[1]
    [] o = "addmod" -> IF a[3] = 0 THEN 0 ELSE (a[1] + a[2]) % a[3]
    [] o = "mulmod" -> IF a[3] = 0 THEN 0 ELSE (a[1] * a[2]) % a[3]
    [] o = "signextend" -> SignExtend(a[1], a[2])

Arithmetic ==
  {"add", "mul", "sub", "div", "sdiv", "mod", "smod", "exp", "not", "lt", "gt", "slt", "sgt", "eq",
   "iszero", "and", "or", "xor", "byte", "shl", "shr", "addmod", "mulmod", "signextend"}
=============================================================================
