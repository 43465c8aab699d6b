------------------------------ MODULE Uint256 ------------------------------
(***************************************************************************)
(* The number type of the VM (uint256.go): an unsigned integer of four     *)
(* words, LUint256{lo, ml, mh, hi}.  The code has words of 64 bits; here   *)
(* they have W, every 64 of the code is W and every 256 is Bits, so that   *)
(* carries, borrows and the quotient estimates of the division meet their  *)
(* limits in numbers TLC can enumerate.                                    *)
(*                                                                         *)
(* lu256AddCarryLost, DivideStepWithoutAddBack and                         *)
(* lu256SignedModNOfDivisor are wrong forms of the definitions that follow *)
(* them: they show that the properties of CheckedArith notice such an      *)
(* error.                                                                  *)
(***************************************************************************)
EXTENDS Integers, FiniteSetsExt

CONSTANT W   \* bits of a word

ASSUME WordAssumption == W \in Nat \ {0}

B == 2 ^ W          \* one more than the largest word
Bits == 4 * W       \* 256
Base(i) == 2 ^ (i * W)      \* what a one in word i stands for
Word == 0 .. B - 1
U256 == [0 .. 3 -> Word]    \* 0 is lo, 1 is ml, 2 is mh, 3 is hi

Val(a) == a[0] + Base(1) * a[1] + Base(2) * a[2] + Base(3) * a[3]
U(v) == [i \in 0 .. 3 |-> (v \div Base(i)) % B]   \* inverse of Val

LUint256Zero == [i \in 0 .. 3 |-> 0]
LUint256One == [i \in 0 .. 3 |-> IF i = 0 THEN 1 ELSE 0]
AllOnes == [i \in 0 .. 3 |-> B - 1]
-----------------------------------------------------------------------------
(* package math/bits *)

Sum(x, y, c) == (x + y + c) % B              \* bits.Add64
Carry(x, y, c) == (x + y + c) \div B
Diff(x, y, b) == (x - y - b) % B             \* bits.Sub64
Borrow(x, y, b) == IF x < y + b THEN 1 ELSE 0
Hi(x, y) == (x * y) \div B                   \* bits.Mul64
Lo(x, y) == (x * y) % B
-----------------------------------------------------------------------------
lu256Cmp(a, b) ==
  IF a = b THEN 0
  ELSE LET i == Max({k \in 0 .. 3 : a[k] # b[k]}) IN IF a[i] > b[i] THEN 1 ELSE -1

lu256IsZero(v) == v = LUint256Zero

lu256AddCarryLost(a, b) ==
  [i \in 0 .. 3 |-> Sum(a[i], b[i], IF i = 0 THEN 0 ELSE Carry(a[i - 1], b[i - 1], 0))]

lu256Add(a, b) ==
  LET c0 == Carry(a[0], b[0], 0)
      c1 == Carry(a[1], b[1], c0)
      c2 == Carry(a[2], b[2], c1)
  IN [i \in 0 .. 3 |-> Sum(a[i], b[i], <<0, c0, c1, c2>>[i + 1])]

lu256Sub(a, b) ==
  LET b0 == Borrow(a[0], b[0], 0)
      b1 == Borrow(a[1], b[1], b0)
      b2 == Borrow(a[2], b[2], b1)
  IN [i \in 0 .. 3 |-> Diff(a[i], b[i], <<0, b0, b1, b2>>[i + 1])]

\* Word by word, with the carry of each addition handed to the next addition into
\* the same word, and only the last one to the next word.
lu256Mul(a, b) ==
  LET h0 == Hi(a[0], b[0])
      p01 == Lo(a[0], b[1])
      p10 == Lo(a[1], b[0])
      s1 == Sum(h0, p01, 0)
      d1 == Carry(h0, p01, 0)
      carry1 == (Hi(a[0], b[1]) + Hi(a[1], b[0]) + Carry(s1, p10, d1)) % B
      p02 == Lo(a[0], b[2])
      p11 == Lo(a[1], b[1])
      p20 == Lo(a[2], b[0])
      s2 == Sum(carry1, p02, 0)
      d2 == Carry(carry1, p02, 0)
      s3 == Sum(s2, p11, d2)
      d3 == Carry(s2, p11, d2)
      carry2 == (Hi(a[0], b[2]) + Hi(a[1], b[1]) + Hi(a[2], b[0]) + Carry(s3, p20, d3)) % B
      r3 == (carry2 + Lo(a[0], b[3]) + Lo(a[1], b[2]) + Lo(a[2], b[1]) + Lo(a[3], b[0])) % B
  IN [i \in 0 .. 3 |-> <<Lo(a[0], b[0]), Sum(s1, p10, d1), Sum(s3, p20, d3), r3>>[i + 1]]

Bit(x, k) == (x \div 2 ^ k) % 2

\* Bit by bit: f[k] has the k lowest bits.
OrWord(x, y) ==
  LET f[k \in 0 .. W] ==
        IF k = 0 THEN 0 ELSE f[k - 1] + 2 ^ (k - 1) * Max({Bit(x, k - 1), Bit(y, k - 1)})
  IN f[W]

lu256Bor(a, b) == [i \in 0 .. 3 |-> OrWord(a[i], b[i])]
lu256Bnot(a) == [i \in 0 .. 3 |-> B - 1 - a[i]]

\* Word i of the number a[0] + B * a[1] + ... shifted left by s < W bits.
ShiftedLeft(a, s, i) ==
  (IF i \in DOMAIN a THEN (a[i] * 2 ^ s) % B ELSE 0)
    + (IF i - 1 \in DOMAIN a THEN a[i - 1] \div 2 ^ (W - s) ELSE 0)
\* The same, shifted right.
ShiftedRight(a, s, i) ==
  (IF i \in DOMAIN a THEN a[i] \div 2 ^ s ELSE 0)
    + (IF i + 1 \in DOMAIN a THEN (a[i + 1] * 2 ^ (W - s)) % B ELSE 0)

lu256Shl(a, n) == IF n >= Bits THEN LUint256Zero
                  ELSE [i \in 0 .. 3 |-> ShiftedLeft(a, n % W, i - n \div W)]
lu256Shr(a, n) == IF n >= Bits THEN LUint256Zero
                  ELSE [i \in 0 .. 3 |-> ShiftedRight(a, n % W, i + n \div W)]
-----------------------------------------------------------------------------
(* u256KnuthD.  A quotient digit is estimated from the leading words of the *)
(* normalized dividend un and divisor dn (n words), corrected, and the      *)
(* product of the digit and dn is subtracted from un at word j.             *)

EstimateOf(q, r) == [q |-> q, r |-> r, tight |-> FALSE]

\* One turn of the loop that refines the estimate: next is dn[n - 2], top is dn[n - 1].
Refine(e, top, next, u) ==
  IF e.tight \/ next = 0 \/ e.q * next <= e.r * B + u THEN [e EXCEPT !.tight = TRUE]
  ELSE [q |-> e.q - 1, r |-> Sum(e.r, top, 0), tight |-> Carry(e.r, top, 0) # 0]

\* top is at least B / 2, so that two turns are enough.
Digit(un, dn, n, j) ==
  LET top == dn[n - 1]
      u == un[j + n] * B + un[j + n - 1]
      e == IF un[j + n] >= top THEN EstimateOf(B - 1, 0) ELSE EstimateOf(u \div top, u % top)
      turn(x) == Refine(x, top, dn[n - 2], un[j + n - 2])
  IN turn(turn(e)).q

\* un after the subtraction of q * dn from the words j .. j + n - 1, and what is
\* still to be taken from word j + n.
MulSub(un, dn, n, j, q) ==
  LET f[i \in 0 .. n] ==
        IF i = 0 THEN [un |-> un, borrow |-> 0]
        ELSE LET p == f[i - 1]
                 k == j + i - 1
                 lo == Sum(Lo(q, dn[i - 1]), p.borrow, 0)
                 hi == (Hi(q, dn[i - 1]) + Carry(Lo(q, dn[i - 1]), p.borrow, 0)) % B
             IN [un |-> [p.un EXCEPT ![k] = Diff(@, lo, 0)],
                 borrow |-> (hi + Borrow(p.un[k], lo, 0)) % B]
  IN f[n]

\* un after dn is added back to the words j .. j + n.
AddBack(un, dn, n, j) ==
  LET f[i \in 0 .. n] ==
        IF i = 0 THEN [un |-> un, carry |-> 0]
        ELSE LET p == f[i - 1]
                 k == j + i - 1
             IN [un |-> [p.un EXCEPT ![k] = Sum(@, dn[i - 1], p.carry)],
                 carry |-> Carry(p.un[k], dn[i - 1], p.carry)]
  IN [f[n].un EXCEPT ![j + n] = Sum(@, 0, f[n].carry)]

DivideStepWithoutAddBack(s, dn, n, j) ==
  LET q == Digit(s.un, dn, n, j)
      m == MulSub(s.un, dn, n, j, q)
  IN [un |-> [m.un EXCEPT ![j + n] = Diff(@, m.borrow, 0)], q |-> [s.q EXCEPT ![j] = q]]

DivideStep(s, dn, n, j) ==
  LET q == Digit(s.un, dn, n, j)
      m == MulSub(s.un, dn, n, j, q)
      left == [m.un EXCEPT ![j + n] = Diff(@, m.borrow, 0)]
  IN IF m.un[j + n] >= m.borrow THEN [un |-> left, q |-> [s.q EXCEPT ![j] = q]]
     ELSE [un |-> AddBack(left, dn, n, j), q |-> [s.q EXCEPT ![j] = q - 1]]

dLen(d) == 1 + Max({i \in 0 .. 3 : i = 0 \/ d[i] # 0})
LeadingZeros(x) == CHOOSE s \in 0 .. W - 1 : B <= 2 * x * 2 ^ s /\ x * 2 ^ s < B

u256KnuthD(u, d) ==
  LET n == dLen(d)
      shift == LeadingZeros(d[n - 1])
      dn == [i \in 0 .. 3 |-> ShiftedLeft(d, shift, i)]
      un == [i \in 0 .. 4 |-> ShiftedLeft(u, shift, i)]
      f[k \in 0 .. 5 - n] ==
        IF k = 0 THEN [un |-> un, q |-> LUint256Zero]
        ELSE DivideStep(f[k - 1], dn, n, 5 - n - k)
      left == [i \in 0 .. n - 1 |-> f[5 - n].un[i]]
  IN <<f[5 - n].q, [i \in 0 .. 3 |-> ShiftedRight(left, shift, i)]>>

\* Four divisions of two words by one.
DivModWord(a, d) ==
  LET u(r, i) == r * B + a[i]
      r3 == u(0, 3) % d
      r2 == u(r3, 2) % d
      r1 == u(r2, 1) % d
  IN << [i \in 0 .. 3 |-> <<u(r1, 0) \div d, u(r2, 1) \div d, u(r3, 2) \div d, u(0, 3) \div d>>[i + 1]],
        [i \in 0 .. 3 |-> IF i = 0 THEN u(r1, 0) % d ELSE 0] >>

\* <<quotient, remainder>>; b is not zero.
lu256DivMod(a, b) ==
  CASE lu256Cmp(a, b) = -1 -> <<LUint256Zero, a>>
    [] lu256Cmp(a, b) = 0  -> <<LUint256One, LUint256Zero>>
    [] OTHER -> IF dLen(b) = 1 THEN DivModWord(a, b[0]) ELSE u256KnuthD(a, b)
-----------------------------------------------------------------------------
(* N-bit numbers *)

lu256MaskN(a, n) ==
  [i \in 0 .. 3 |-> IF (i + 1) * W <= n THEN a[i]
                    ELSE IF i * W < n THEN a[i] % 2 ^ (n - i * W) ELSE 0]

lu256BitN(a, n) == Bit(a[n \div W], n % W) = 1

lu256NegN(a, n) == lu256MaskN(lu256Sub(LUint256Zero, a), n)

lu256SignExtendN(a, n) ==
  IF n >= Bits \/ ~lu256BitN(a, n - 1) THEN a
  ELSE lu256Bor(a, lu256Bnot(lu256MaskN(AllOnes, n)))

lu256SignedCmpN(a, b, n) ==
  IF lu256BitN(a, n - 1) = lu256BitN(b, n - 1) THEN lu256Cmp(a, b)
  ELSE IF lu256BitN(a, n - 1) THEN -1 ELSE 1

AbsN(a, n) == IF lu256BitN(a, n - 1) THEN lu256NegN(a, n) ELSE a

lu256SignedDivN(a, b, n) ==
  LET q == lu256MaskN(lu256DivMod(AbsN(a, n), AbsN(b, n))[1], n)
  IN IF lu256BitN(a, n - 1) # lu256BitN(b, n - 1) THEN lu256NegN(q, n) ELSE q

lu256SignedModNOfDivisor(a, b, n) ==
  LET r == lu256MaskN(lu256DivMod(AbsN(a, n), AbsN(b, n))[2], n)
  IN IF lu256BitN(b, n - 1) THEN lu256NegN(r, n) ELSE r

lu256SignedModN(a, b, n) ==
  LET r == lu256MaskN(lu256DivMod(AbsN(a, n), AbsN(b, n))[2], n)
  IN IF lu256BitN(a, n - 1) THEN lu256NegN(r, n) ELSE r

lu256SarN(a, shift, n) ==
  IF ~lu256BitN(a, n - 1) THEN lu256MaskN(lu256Shr(a, shift), n)
  ELSE IF shift >= n THEN lu256MaskN(AllOnes, n)
  ELSE lu256MaskN(lu256Shr(lu256SignExtendN(a, n), shift), n)
=============================================================================
