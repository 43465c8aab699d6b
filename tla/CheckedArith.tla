---------------------------- MODULE CheckedArith ----------------------------
(***************************************************************************)
(* The arithmetic of contracts (cryptolib.go): the helpers that the code   *)
(* generated for a TOL expression calls for unsigned and signed integers   *)
(* of n bits, checked ("reverts with Panic(0x11)") and unchecked, over the *)
(* numbers of module Uint256.                                              *)
(*                                                                         *)
(* The specification loads two operands and a width; the properties        *)
(* compare what the code computes from them with the integers.             *)
(* cryptoSignedCheckedAddSignOnly is a wrong form of the definition that   *)
(* follows it.                                                             *)
(***************************************************************************)
EXTENDS Uint256

CONSTANTS
  Digits,   \* the words operands are made of
  Width     \* the widths n of integer types

ASSUME OperandAssumption == Digits \subseteq Word /\ Width \subseteq 2 .. Bits

\* A helper returns the set of its result, or the empty set if it reverts.
Reverts == {}

cryptoUintCheckedAdd(a, b, n) ==
  LET result == lu256Add(a, b)
  IN IF IF n = Bits THEN lu256Cmp(result, a) < 0 ELSE lu256MaskN(result, n) # result
     THEN Reverts ELSE {result}

cryptoUintCheckedSub(a, b, n) ==
  IF lu256Cmp(lu256MaskN(b, n), lu256MaskN(a, n)) > 0 THEN Reverts ELSE {lu256Sub(a, b)}

cryptoUintCheckedMul(a, b, n) ==
  LET result == lu256Mul(a, b)
      overflows == IF n < Bits THEN lu256MaskN(result, n) # result
                   ELSE ~lu256IsZero(a) /\ lu256DivMod(result, a)[1] # b
  IN IF overflows THEN Reverts ELSE {result}

cryptoSignedCheckedAddSignOnly(a, b, n) ==
  LET result == lu256MaskN(lu256Add(a, b), n)
  IN IF lu256BitN(result, n - 1) # lu256BitN(a, n - 1) THEN Reverts ELSE {result}

cryptoSignedCheckedAdd(a, b, n) ==
  LET result == lu256MaskN(lu256Add(a, b), n)
      negative(v) == lu256BitN(v, n - 1)
  IN IF negative(a) = negative(b) /\ negative(result) # negative(a) THEN Reverts ELSE {result}

cryptoSignedCheckedSub(a, b, n) ==
  LET result == lu256MaskN(lu256Sub(a, b), n)
      negative(v) == lu256BitN(v, n - 1)
  IN IF negative(a) # negative(b) /\ negative(result) # negative(a) THEN Reverts ELSE {result}

cryptoSignedCheckedMul(a, b, n) ==
  LET result == lu256MaskN(lu256Mul(a, b), n)
  IN IF /\ ~lu256IsZero(lu256MaskN(a, n))
        /\ lu256MaskN(lu256SignedDivN(result, lu256MaskN(a, n), n), n) # lu256MaskN(b, n)
     THEN Reverts ELSE {result}

\* -1 and the least n-bit number
MinusOne(n) == lu256MaskN(AllOnes, n)
MinSigned(n) == lu256Bor(LUint256Zero, lu256Shl(LUint256One, n - 1))

cryptoSignedDiv(a, b, n) ==
  IF \/ lu256IsZero(lu256MaskN(b, n))
     \/ lu256MaskN(a, n) = MinSigned(n) /\ lu256MaskN(b, n) = MinusOne(n)
  THEN Reverts ELSE {lu256SignedDivN(a, b, n)}

cryptoSignedMod(a, b, n) ==
  IF lu256IsZero(lu256MaskN(b, n)) THEN Reverts ELSE {lu256SignedModN(a, b, n)}
-----------------------------------------------------------------------------
VARIABLES a, b, n, operands   \* operands that are loaded

vars == <<a, b, n, operands>>

Init == a = LUint256Zero /\ b = LUint256Zero /\ n = Bits /\ operands = 0

\* A value of a TOL type never has bits beyond its width.
Operands(bits) == {v \in [0 .. 3 -> Digits] : Val(v) < 2 ^ bits}

Load1 == operands = 0 /\ operands' = 1 /\ n' \in Width /\ a' \in Operands(n') /\ UNCHANGED b
Load2 == operands = 1 /\ operands' = 2 /\ b' \in Operands(n) /\ UNCHANGED <<a, n>>

Next == Load1 \/ Load2
Spec == Init /\ [][Next]_vars
-----------------------------------------------------------------------------
(* Reference: the integers *)

Signed(v) == IF Val(v) >= 2 ^ (n - 1) THEN Val(v) - 2 ^ n ELSE Val(v)
ToU(i, bits) == U(i % 2 ^ bits)
Abs(i) == IF i < 0 THEN -i ELSE i
Sgn(i) == IF i < 0 THEN -1 ELSE 1

UnsignedRange == 0 .. 2 ^ n - 1
SignedRange == -(2 ^ (n - 1)) .. 2 ^ (n - 1) - 1

\* i as the code returns it, if it is in the range of the type
In(range, i) == IF i \in range THEN {ToU(i, n)} ELSE Reverts

\* The long division of u by d meets no partial remainder whose leading word is
\* the leading word of the divisor.
Estimable(u, d) ==
  LET len == dLen(d)
      s == LeadingZeros(d[len - 1])
      divisor == Val(d) * 2 ^ s
      dividend == Val(u) * 2 ^ s
      remainder(j) == (dividend \div Base(j + 1)) % divisor
  IN \A j \in 0 .. 4 - len : remainder(j) \div Base(len - 1) < divisor \div Base(len - 1)

Divides(u, d) == LET q == lu256DivMod(u, d) IN Val(q[1]) = Val(u) \div Val(d) /\ Val(q[2]) = Val(u) % Val(d)
Multiplies(u, v) == Val(lu256Mul(u, v)) = (Val(u) * Val(v)) % 2 ^ Bits

\* Types of the operands, and of every result: four words, without a bit beyond the
\* width of the type.
TypeOK ==
  /\ a \in U256 /\ b \in U256 /\ n \in 2 .. Bits
  /\ \A v \in {lu256Add(a, b), lu256Sub(a, b), lu256Mul(a, b), lu256Bnot(a), lu256Shl(a, n), lu256Shr(a, n)} :
       v \in U256
  /\ \A v \in cryptoSignedCheckedAdd(a, b, n) \cup cryptoSignedCheckedSub(a, b, n)
              \cup cryptoSignedDiv(a, b, n) \cup cryptoSignedMod(a, b, n) : Val(v) < 2 ^ n

\* The wrapping operations are arithmetic modulo 2^256: addition and subtraction of
\* all numbers, a multiplication by a number of one word, shifts by any distance.
WrapsExactly ==
  /\ Val(lu256Add(a, b)) = (Val(a) + Val(b)) % 2 ^ Bits
  /\ Val(lu256Sub(a, b)) = (Val(a) - Val(b)) % 2 ^ Bits
  /\ dLen(b) = 1 => Multiplies(a, b)
  /\ operands = 1 => \A k \in 0 .. Bits :
                          /\ Val(lu256Shl(a, k)) = (Val(a) * 2 ^ k) % 2 ^ Bits
                          /\ Val(lu256Shr(a, k)) = Val(a) \div 2 ^ k
  /\ (lu256Cmp(a, b) < 0) <=> (Val(a) < Val(b))

\* The division by one word is exact, and so is the long division when no leading
\* word of a partial remainder reaches that of the divisor: every estimate is
\* corrected to the digit.
DividesExactly ==
  ~lu256IsZero(b) /\ (dLen(b) = 1 \/ Estimable(a, b)) => Divides(a, b)

\* lu256DivMod "returns (a/b, a%b)".
DivModExact == ~lu256IsZero(b) => Divides(a, b)

\* lu256Mul "computes a*b mod 2^256".
MulExact == Multiplies(a, b)

ShiftsSigned(k) == lu256SarN(a, k, n) = ToU(Signed(a) \div 2 ^ k, n)

\* Signed operations are the truncating ones of the integers; division reverts by
\* zero and on the one quotient that does not fit; an arithmetic shift is a division
\* that rounds down, at least as far as the sign bits that lu256SignExtendN adds.
SignedExactly ==
  LET x == Signed(a)
      y == Signed(b)
      magnitudesDivide == y # 0 /\ Divides(AbsN(a, n), AbsN(b, n))
  IN /\ magnitudesDivide => cryptoSignedDiv(a, b, n) = In(SignedRange, Sgn(x) * Sgn(y) * (Abs(x) \div Abs(y)))
     /\ magnitudesDivide => cryptoSignedMod(a, b, n) = {ToU(Sgn(x) * (Abs(x) % Abs(y)), n)}
     /\ y = 0 => cryptoSignedDiv(a, b, n) = Reverts /\ cryptoSignedMod(a, b, n) = Reverts
     /\ (lu256SignedCmpN(a, b, n) < 0) <=> (x < y)
     /\ operands = 1 =>
          /\ lu256SignExtendN(a, n) = ToU(x, Bits)
          /\ \A k \in 0 .. Bits : x >= 0 \/ k >= n \/ k + n <= Bits => ShiftsSigned(k)

\* cryptoSignedSar: "sign bit is preserved".
SarExact == \A k \in 0 .. Bits : ShiftsSigned(k)

\* A checked operation returns the result that the integers give, or reverts if it
\* does not fit the type: addition, subtraction, and a multiplication of unsigned
\* numbers whose product has at most 256 bits and that lu256Mul gets right.
ChecksExactly ==
  /\ cryptoUintCheckedAdd(a, b, n) = In(UnsignedRange, Val(a) + Val(b))
  /\ cryptoUintCheckedSub(a, b, n) = In(UnsignedRange, Val(a) - Val(b))
  /\ cryptoSignedCheckedAdd(a, b, n) = In(SignedRange, Signed(a) + Signed(b))
  /\ cryptoSignedCheckedSub(a, b, n) = In(SignedRange, Signed(a) - Signed(b))
  /\ 2 * n <= Bits /\ Multiplies(a, b) =>
       cryptoUintCheckedMul(a, b, n) = In(UnsignedRange, Val(a) * Val(b))

\* "These revert with Panic(0x11) on overflow": a checked multiplication whose
\* product does not fit the type reverts, where the product itself is right.
CheckedMulReverts ==
  Multiplies(a, b) =>
    /\ Val(a) * Val(b) \notin UnsignedRange => cryptoUintCheckedMul(a, b, n) = Reverts
    /\ Signed(a) * Signed(b) \notin SignedRange => cryptoSignedCheckedMul(a, b, n) = Reverts
=============================================================================
