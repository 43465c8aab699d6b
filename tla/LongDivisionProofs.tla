------------------------ MODULE LongDivisionProofs ------------------------
(***************************************************************************)
(* The division of Uint256 and the signed operations that rest on it, for  *)
(* words of every size.                                                    *)
(*                                                                         *)
(* The argument of the long division, from the inside: MulSub and AddBack  *)
(* are a subtraction and an addition of numbers (MulSubIs, AddBackIs); the *)
(* refined estimate of a digit is the digit or one more (DigitBounds),     *)
(* because the divisor is normalized; a step therefore finds the digit and *)
(* leaves the remainder (StepIs); so the loop keeps LongInv, the quotient  *)
(* and the remainder of the words seen so far (LongDivides); and shifting  *)
(* dividend and divisor alike changes neither quotient nor remainder but   *)
(* for the shift (KnuthIs).                                                *)
(***************************************************************************)
EXTENDS CheckedArithProofs

\* The number that words j .. j + i - 1 of w form.
Part(w, j, i) ==
  LET x(k) == IF k < i THEN Base(k) * w[j + k] ELSE 0
  IN x(0) + x(1) + x(2) + x(3) + x(4)

\* Base(i) * w[j + i] is what word j + i adds.
LEMMA PartSucc ==
  ASSUME NEW w, NEW j \in Int, NEW i \in 0 .. 4, \A k \in 0 .. 4 : k <= i => w[j + k] \in Int
  PROVE  /\ Part(w, j, 0) = 0 /\ Part(w, j, i) \in Int
         /\ Part(w, j, i + 1) = Part(w, j, i) + Base(i) * w[j + i]
<1> DEFINE x(k) == Base(k) * w[j + k]
           p(k, m) == IF k < m THEN x(k) ELSE 0
<1>1. \A k \in 0 .. 4 : k <= i => x(k) \in Int
  <2> SUFFICES ASSUME NEW k \in 0 .. 4, k <= i PROVE x(k) \in Int
    OBVIOUS
  <2>1. Base(k) \in Int /\ w[j + k] \in Int
    BY BaseSucc
  <2> QED BY <2>1, Times
<1>2. \A m : Part(w, j, m) = p(0, m) + p(1, m) + p(2, m) + p(3, m) + p(4, m)
  BY DEF Part
<1> HIDE DEF x
<1>3. Part(w, j, i + 1) = Part(w, j, i) + x(i) /\ Part(w, j, i) \in Int /\ Part(w, j, 0) = 0
  BY <1>1, <1>2
<1> QED BY <1>3 DEF x

\* The lowest word of a part, and the rest.
LEMMA PartLow ==
  ASSUME NEW w, NEW j \in Int, NEW i \in 0 .. 4, \A k \in 0 .. 4 : k <= i => w[j + k] \in Int
  PROVE  /\ Part(w, j + 1, i) \in Int
         /\ Part(w, j, i + 1) = w[j] + B * Part(w, j + 1, i)
<1> DEFINE P(m) == Part(w, j + 1, m) \in Int /\ Part(w, j, m + 1) = w[j] + B * Part(w, j + 1, m)
<1>1. P(0)
  <2>1. Part(w, j, 0) = 0 /\ Part(w, j, 0 + 1) = Part(w, j, 0) + Base(0) * w[j + 0] /\ w[j + 0] \in Int
    BY PartSucc
  <2>2. Part(w, j + 1, 0) = 0
    BY DEF Part
  <2> QED BY <2>1, <2>2, Bases, WordBase
<1>2. ASSUME NEW m \in 0 .. 3, P(m), m + 1 <= i PROVE P(m + 1)
  <2>1. PICK y \in Int : y = w[j + (m + 1)] /\ y = w[(j + 1) + m]
    BY <1>2
  <2>2. /\ Part(w, j, (m + 1) + 1) = Part(w, j, m + 1) + Base(m + 1) * y
    BY <1>2, <2>1, PartSucc
  <2>3. \A k \in 0 .. 4 : k <= m => w[(j + 1) + k] \in Int
    <3> SUFFICES ASSUME NEW k \in 0 .. 4, k <= m PROVE w[(j + 1) + k] \in Int
      OBVIOUS
    <3>1. (j + 1) + k = j + (k + 1) /\ k + 1 \in 0 .. 4 /\ k + 1 <= i
      BY <1>2
    <3> QED BY <3>1
  <2>4. Part(w, j + 1, m + 1) = Part(w, j + 1, m) + Base(m) * y
    BY <2>1, <2>3, PartSucc
  <2>5. PICK p \in Int : p = Part(w, j + 1, m)
    BY <1>2
  <2>6. PICK c \in Nat \ {0} : c = Base(m) /\ Base(m + 1) = c * B
    BY BaseSucc
  <2>7. /\ c * y \in Int /\ B * (p + c * y) = B * p + B * (c * y)
        /\ B * (c * y) = (B * c) * y /\ B * c = c * B /\ (c * B) * y \in Int /\ B * p \in Int
    BY WordBase, Times
  <2>8. w[j] \in Int
    <3>1. w[j + 0] \in Int /\ j + 0 = j
      OBVIOUS
    <3> QED BY <3>1
  <2>9. Part(w, j, m + 1) = w[j] + B * p
    BY <1>2, <2>5
  <2>10. Part(w, j, (m + 1) + 1) = (w[j] + B * p) + (c * B) * y
    BY <2>2, <2>6, <2>9
  <2>11. Part(w, j + 1, m + 1) = p + c * y
    BY <2>4, <2>5, <2>6
  <2> HIDE DEF P
  <2>12. Part(w, j, (m + 1) + 1) = w[j] + B * Part(w, j + 1, m + 1)
    BY <2>7, <2>8, <2>10, <2>11
  <2> QED BY <2>7, <2>11, <2>12 DEF P
<1> HIDE DEF P
<1>3. P(i)
  <2>1. 1 <= i => P(1)
    BY <1>1, <1>2
  <2>2. 2 <= i => P(2)
    BY <2>1, <1>2
  <2>3. 3 <= i => P(3)
    BY <2>2, <1>2
  <2>4. 4 <= i => P(4)
    BY <2>3, <1>2
  <2> QED BY <1>1, <2>1, <2>2, <2>3, <2>4
<1> QED BY <1>3 DEF P

\* A part of i words is below Base(i).
LEMMA PartBound ==
  ASSUME NEW w, NEW j \in Int, NEW i \in 0 .. 5, \A k \in 0 .. 4 : k < i => w[j + k] \in Word
  PROVE  Part(w, j, i) \in Nat /\ Part(w, j, i) < Base(i)
<1> DEFINE P(m) == Part(w, j, m) \in Nat /\ Part(w, j, m) < Base(m)
<1>1. P(0)
  BY Bases DEF Part
<1>2. ASSUME NEW m \in 0 .. 4, P(m), m + 1 <= i PROVE P(m + 1)
  <2>1. PICK y \in Nat : y = w[j + m] /\ y <= B - 1
    BY <1>2, WordBase DEF Word
  <2>2. \A k \in 0 .. 4 : k <= m => w[j + k] \in Int
    BY <1>2, WordBase DEF Word
  <2>3. Part(w, j, m + 1) = Part(w, j, m) + Base(m) * y
    BY <2>1, <2>2, PartSucc
  <2>4. PICK p \in Nat : p = Part(w, j, m) /\ p < Base(m)
    BY <1>2
  <2>5. PICK c \in Nat \ {0} : c = Base(m) /\ Base(m + 1) = c * B
    BY BaseSucc
  <2>6. c * y <= c * (B - 1) /\ c * (B - 1) = c * B - c * 1 /\ c * 1 = c /\ c * B \in Int /\ c * y \in Nat
    BY <2>1, WordBase, Times, TimesMono
  <2>7. p + c * y \in Nat /\ p + c * y < c * B
    BY <2>4, <2>5, <2>6
  <2> QED BY <2>3, <2>4, <2>5, <2>7
<1> HIDE DEF P
<1>3. P(i)
  <2>1. 1 <= i => P(1)
    BY <1>1, <1>2
  <2>2. 2 <= i => P(2)
    BY <2>1, <1>2
  <2>3. 3 <= i => P(3)
    BY <2>2, <1>2
  <2>4. 4 <= i => P(4)
    BY <2>3, <1>2
  <2>5. 5 <= i => P(5)
    BY <2>4, <1>2
  <2> QED BY <1>1, <2>1, <2>2, <2>3, <2>4, <2>5
<1> QED BY <1>3 DEF P

\* A part depends on its words only.
LEMMA PartSame ==
  ASSUME NEW w, NEW v, NEW j, NEW i, \A k \in 0 .. 4 : k < i => w[j + k] = v[j + k]
  PROVE  Part(w, j, i) = Part(v, j, i)
BY DEF Part

-----------------------------------------------------------------------------
(* MulSub and AddBack                                                       *)

\* The words of a normalized dividend.
Num5 == [0 .. 4 -> Word]

\* F starts with x and goes on with g.
Solves(F, m, x, g) == \A i \in 0 .. m : F[i] = IF i = 0 THEN x ELSE g[<<F[i - 1], i>>]

\* A recursion over 0 .. m that stays in a set has a solution.
LEMMA Recursion ==
  ASSUME NEW m \in Nat, NEW S, NEW x \in S, NEW g \in [S \X (1 .. m) -> S]
  PROVE  \E F \in [0 .. m -> S] : Solves(F, m, x, g)
<1> DEFINE Body(F, i) == IF i = 0 THEN x ELSE g[<<F[i - 1], i>>]
           T == {k \in 0 .. m : \E F \in [0 .. k -> S] : \A i \in 0 .. k : F[i] = Body(F, i)}
<1>1. 0 \in T
  <2> DEFINE G == [i \in 0 .. 0 |-> x]
  <2>1. G \in [0 .. 0 -> S] /\ \A i \in 0 .. 0 : G[i] = Body(G, i)
    OBVIOUS
  <2> HIDE DEF G, Body
  <2> QED BY <2>1
<1>2. ASSUME NEW k \in 0 .. m - 1, k \in T PROVE k + 1 \in T
  <2>1. PICK F \in [0 .. k -> S] : \A i \in 0 .. k : F[i] = Body(F, i)
    BY <1>2
  <2> DEFINE G == [i \in 0 .. k + 1 |-> IF i <= k THEN F[i] ELSE g[<<F[k], k + 1>>]]
  <2>2. g[<<F[k], k + 1>>] \in S
    OBVIOUS
  <2>3. G \in [0 .. k + 1 -> S]
    BY <2>2
  <2>4. ASSUME NEW i \in 0 .. k + 1 PROVE G[i] = Body(G, i)
    <3>1. CASE i = 0
      <4>1. 0 <= k /\ 0 \in 0 .. k + 1 /\ 0 \in 0 .. k
        OBVIOUS
      <4>2. F[0] = Body(F, 0)
        BY <2>1, <4>1
      <4>3. F[0] = x
        BY <4>2
      <4>4. G[0] = x
        BY <4>1, <4>3
      <4> QED BY <3>1, <4>4
    <3>2. CASE i \in 1 .. k
      <4>1. i - 1 \in 0 .. k + 1 /\ i - 1 <= k /\ i <= k /\ i # 0 /\ i \in 0 .. k
        BY <3>2
      <4>2. G[i - 1] = F[i - 1] /\ G[i] = F[i] /\ F[i] = Body(F, i)
        BY <2>1, <4>1
      <4> QED BY <4>1, <4>2
    <3>3. CASE i = k + 1
      <4>1. i - 1 = k /\ i # 0 /\ ~(i <= k) /\ k \in 0 .. k + 1
        BY <3>3
      <4>2. G[i - 1] = F[k] /\ G[i] = g[<<F[k], i>>]
        BY <3>3, <4>1
      <4> QED BY <4>1, <4>2
    <3> QED BY <3>1, <3>2, <3>3
  <2>5. \E H \in [0 .. k + 1 -> S] : \A i \in 0 .. k + 1 : H[i] = Body(H, i)
    <3> HIDE DEF G, Body
    <3> QED BY <2>3, <2>4
  <2>6. k + 1 \in 0 .. m
    OBVIOUS
  <2> HIDE DEF Body
  <2> QED BY <2>5, <2>6
<1>3. m \in T
  <2> HIDE DEF T
  <2>1. 0 .. m \subseteq T
    BY <1>1, <1>2, IntervalInduction
  <2> QED BY <2>1
<1>4. PICK F \in [0 .. m -> S] : \A i \in 0 .. m : F[i] = Body(F, i)
  BY <1>3
<1> QED BY <1>4, Zenon DEF Solves

\* What the loop of MulSub makes of word x of un, y of dn and borrow e: the new word
\* and the new borrow.
SubProduct(x, q, y, e) == Diff(x, Sum(Lo(q, y), e, 0), 0)
SubProductBorrow(x, q, y, e) ==
  (((Hi(q, y) + Carry(Lo(q, y), e, 0)) % B) + Borrow(x, Sum(Lo(q, y), e, 0), 0)) % B

\* One word of q * dn taken from a word of un.
LEMMA MulSubWord ==
  ASSUME NEW q \in Word, NEW y \in Word, NEW e \in Word, NEW x \in Word
  PROVE  /\ SubProduct(x, q, y, e) \in Word /\ SubProductBorrow(x, q, y, e) \in Word
         /\ (x - q * y) - e = SubProduct(x, q, y, e) - B * SubProductBorrow(x, q, y, e)
<1> DEFINE lo == Sum(Lo(q, y), e, 0)
           hi == Hi(q, y) + Carry(Lo(q, y), e, 0)
           bor == Borrow(x, lo, 0)
<1>1. /\ B \in Nat \ {0} /\ B >= 2
      /\ x \in Nat /\ x < B /\ y \in Nat /\ y <= B - 1 /\ q \in Nat /\ q <= B - 1 /\ e \in Nat /\ e <= B - 1
  BY WordBase DEF Word
<1>2. Lo(q, y) \in Nat
  BY MulWord, WordBase DEF Word
<1>3. Sum(e, Lo(q, y), 0) = lo /\ Carry(e, Lo(q, y), 0) = Carry(Lo(q, y), e, 0)
  <2>1. e + Lo(q, y) + 0 = Lo(q, y) + e + 0
    BY <1>1, <1>2
  <2> QED BY <2>1 DEF Sum, Carry
<1>4. lo \in Word /\ hi \in Word /\ hi % B = hi /\ q * y + e = lo + B * hi
  BY <1>3, MulStep
<1>5. bor \in {0, 1} /\ Diff(x, lo, 0) \in Word /\ (x - lo) + (-0) = Diff(x, lo, 0) + B * (-bor)
  BY <1>4, SubWord
<1>6. bor = IF x < lo + 0 THEN 1 ELSE 0
  BY DEF Borrow
<1> HIDE DEF lo, hi, bor
<1>7. PICK l \in Nat, h \in Nat, r \in Nat, z \in Nat :
        l = lo /\ h = hi /\ r = bor /\ z = Diff(x, lo, 0) /\ l <= B - 1 /\ h <= B - 1
  <2>1. lo \in Nat /\ hi \in Nat /\ bor \in Nat /\ Diff(x, lo, 0) \in Nat /\ lo <= B - 1 /\ hi <= B - 1
    BY <1>4, <1>5, WordBase DEF Word
  <2> QED BY <2>1
<1>8. h + r <= B - 1
  <2>1. CASE h = B - 1
    <3>1. q * y <= (B - 1) * (B - 1)
      <4>1. q * y <= q * (B - 1)
        BY <1>1, TimesMono
      <4>2. (B - 1) * q <= (B - 1) * (B - 1) /\ q * (B - 1) = (B - 1) * q
        BY <1>1, TimesMono, Times
      <4>3. q * y \in Int /\ q * (B - 1) \in Int /\ (B - 1) * (B - 1) \in Int
        BY <1>1, Times
      <4> QED BY <4>1, <4>2, <4>3
    <3>2. B * (B - 1) = (B - 1) * B /\ (B - 1) * B = (B - 1) * ((B - 1) + 1)
      BY <1>1, Times
    <3>3. (B - 1) * ((B - 1) + 1) = (B - 1) * (B - 1) + (B - 1) * 1 /\ (B - 1) * 1 = B - 1
      BY <1>1, Times
    <3>4. PICK qy \in Int, bb \in Int : qy = q * y /\ bb = (B - 1) * (B - 1)
      BY <1>1, Times
    <3>5. B * h = bb + (B - 1)
      BY <2>1, <3>2, <3>3, <3>4
    <3>6. qy + e = l + B * h /\ qy <= bb
      BY <1>4, <1>7, <3>1, <3>4
    <3>7. l <= 0
      BY <1>1, <1>7, <3>4, <3>5, <3>6
    <3>8. ~(x < lo + 0)
      BY <1>1, <1>7, <3>7
    <3> QED BY <1>6, <1>7, <2>1, <3>8
  <2>2. CASE h # B - 1
    BY <1>1, <1>5, <1>7, <2>2
  <2> QED BY <2>1, <2>2
<1>9. (h + r) % B = h + r /\ h + r \in Word
  BY <1>1, <1>7, <1>8, SmallMod DEF Word
<1>10. B * (-r) = -(B * r) /\ B * (h + r) = B * h + B * r /\ B * r \in Int /\ B * h \in Int /\ q * y \in Int
  <2>1. B * (0 - r) = B * 0 - B * r /\ B * 0 = 0 /\ 0 - r = -r
    BY <1>1, <1>7, Times
  <2> QED BY <2>1, <1>1, <1>7, Times
<1>11. (x - l) + (-0) = z + B * (-r) /\ q * y + e = l + B * h
  BY <1>4, <1>5, <1>7
<1>12. (x - q * y) - e = z - B * (h + r)
  <2>1. PICK qy \in Int, bh \in Int, br \in Int : qy = q * y /\ bh = B * h /\ br = B * r
    BY <1>10
  <2>2. (x - l) + (-0) = z + (-br) /\ qy + e = l + bh /\ B * (h + r) = bh + br
    BY <1>10, <1>11, <2>1
  <2>3. (x - qy) - e = z - (bh + br)
    BY <1>1, <1>7, <2>1, <2>2
  <2> QED BY <2>1, <2>2, <2>3
<1>13. ((hi % B) + bor) % B = h + r
  BY <1>4, <1>7, <1>9
<1>14. /\ Diff(x, lo, 0) \in Word /\ ((hi % B) + bor) % B \in Word
       /\ (x - q * y) - e = Diff(x, lo, 0) - B * (((hi % B) + bor) % B)
  BY <1>5, <1>7, <1>9, <1>12, <1>13
<1> QED BY <1>14 DEF lo, hi, bor, SubProduct, SubProductBorrow

\* A turn of the loop of MulSub.
MulSubTurn(p, dn, j, q, i) ==
  LET k == j + i - 1
      lo == Sum(Lo(q, dn[i - 1]), p.borrow, 0)
      hi == (Hi(q, dn[i - 1]) + Carry(Lo(q, dn[i - 1]), p.borrow, 0)) % B
  IN [un |-> [p.un EXCEPT ![k] = Diff(@, lo, 0)],
      borrow |-> (hi + Borrow(p.un[k], lo, 0)) % B]

\* One turn of the loop of AddBack.
AddBackTurn(p, dn, j, i) ==
  LET k == j + i - 1
  IN [un |-> [p.un EXCEPT ![k] = Sum(@, dn[i - 1], p.carry)],
      carry |-> Carry(p.un[k], dn[i - 1], p.carry)]

\* A step has words j .. j + len, and the numbers it works on are words.
StepArgs(w, dn, len, j) == w \in Num5 /\ dn \in U256 /\ len \in 2 .. 4 /\ j \in 0 .. 4 - len

\* The words of w at j .. j + i - 1 have changed, and only they.
OnlyChanged(w, v, j, i) == \A k \in 0 .. 4 : k < j \/ k >= j + i => w[k] = v[k]

\* After i turns of MulSub: the words below j + i are the difference, but for the borrow.
MulSubInv(p, w, dn, j, q, i) ==
  /\ p \in [un : Num5, borrow : Word] /\ OnlyChanged(p.un, w, j, i)
  /\ Part(p.un, j, i) = (Part(w, j, i) - q * Part(dn, 0, i)) + Base(i) * p.borrow

\* Parts of the numbers of a step.
LEMMA StepParts ==
  ASSUME NEW w, NEW dn, NEW len, NEW j, StepArgs(w, dn, len, j), NEW i \in 0 .. len - 1
  PROVE  /\ j \in Nat /\ i \in Nat /\ j + i \in 0 .. 4 /\ i \in 0 .. 3 /\ i \in 0 .. 4 /\ j \in Int /\ j + i + 1 \in 0 .. 4
         /\ w[j + i] \in Word /\ w[j + i] \in Int /\ dn[i] \in Word /\ dn[i] \in Int /\ w[j + i + 1] \in Word
         /\ Part(w, j, i) \in Int /\ Part(w, j, i + 1) = Part(w, j, i) + Base(i) * w[j + i]
         /\ Part(dn, 0, i) \in Int /\ Part(dn, 0, i + 1) = Part(dn, 0, i) + Base(i) * dn[i]
<1>1. j \in Nat /\ i \in Nat /\ j + i \in 0 .. 4 /\ i \in 0 .. 3 /\ i \in 0 .. 4 /\ j \in Int /\ j + i + 1 \in 0 .. 4
  BY DEF StepArgs
<1>2. Word \subseteq Int
  BY WordBase DEF Word
<1>3. w[j + i] \in Word /\ dn[i] \in Word /\ w[j + i + 1] \in Word
  BY <1>1 DEF StepArgs, Num5, U256
<1>4. \A k \in 0 .. 4 : k <= i => w[j + k] \in Int
  <2> SUFFICES ASSUME NEW k \in 0 .. 4, k <= i PROVE w[j + k] \in Int
    OBVIOUS
  <2>1. j + k \in 0 .. 4
    BY <1>1
  <2> QED BY <2>1, <1>2 DEF StepArgs, Num5
<1>5. \A k \in 0 .. 4 : k <= i => dn[0 + k] \in Int
  <2> SUFFICES ASSUME NEW k \in 0 .. 4, k <= i PROVE dn[0 + k] \in Int
    OBVIOUS
  <2>1. 0 + k \in 0 .. 3
    BY <1>1
  <2> QED BY <2>1, <1>2 DEF StepArgs, U256
<1>6. Part(w, j, i) \in Int /\ Part(w, j, i + 1) = Part(w, j, i) + Base(i) * w[j + i]
  BY <1>1, <1>4, PartSucc
<1>7. Part(dn, 0, i) \in Int /\ Part(dn, 0, i + 1) = Part(dn, 0, i) + Base(i) * dn[0 + i]
  BY <1>1, <1>5, PartSucc
<1>8. 0 + i = i
  BY <1>1
<1> QED BY <1>1, <1>2, <1>3, <1>6, <1>7, <1>8

\* A number whose words outside a part are kept keeps the parts below.
LEMMA ChangeAbove ==
  ASSUME NEW w, NEW v, NEW j \in Nat, NEW i \in 0 .. 5, \A k \in 0 .. 4 : k < j + i => w[k] = v[k], j + i <= 5
  PROVE  Part(w, j, i) = Part(v, j, i)
<1>1. \A k \in 0 .. 4 : k < i => w[j + k] = v[j + k]
  <2> SUFFICES ASSUME NEW k \in 0 .. 4, k < i PROVE w[j + k] = v[j + k]
    OBVIOUS
  <2>1. j + k \in 0 .. 4 /\ j + k < j + i
    OBVIOUS
  <2> QED BY <2>1
<1> QED BY <1>1, PartSame

\* What a word hands on is what the next one is handed.
LEMMA CarryCancels ==
  \A m, d, c, x, y, z \in Int :
    ((m - d) + c) + (((x - y) - c) + z) = ((m + x) - (d + y)) + z
OBVIOUS

\* A turn of MulSub keeps this.
LEMMA MulSubKeeps ==
  ASSUME NEW w, NEW dn, NEW len, NEW j, StepArgs(w, dn, len, j), NEW q \in Word, NEW i \in 0 .. len - 1,
         NEW p, MulSubInv(p, w, dn, j, q, i)
  PROVE  MulSubInv(MulSubTurn(p, dn, j, q, i + 1), w, dn, j, q, i + 1)
<1>1. /\ p.un \in Num5 /\ p.borrow \in Word /\ OnlyChanged(p.un, w, j, i)
      /\ Part(p.un, j, i) = (Part(w, j, i) - q * Part(dn, 0, i)) + Base(i) * p.borrow
  BY DEF MulSubInv
<1>2. /\ j \in Nat /\ i \in Nat /\ j + i \in 0 .. 4
      /\ w[j + i] \in Word /\ w[j + i] \in Int /\ dn[i] \in Word /\ dn[i] \in Int
      /\ Part(w, j, i) \in Int /\ Part(w, j, i + 1) = Part(w, j, i) + Base(i) * w[j + i]
      /\ Part(dn, 0, i) \in Int /\ Part(dn, 0, i + 1) = Part(dn, 0, i) + Base(i) * dn[i]
  BY StepParts
<1>3. p.un[j + i] = w[j + i]
  BY <1>1, <1>2 DEF OnlyChanged
<1>4. (i + 1) - 1 = i /\ j + (i + 1) - 1 = j + i
  BY <1>2
<1> DEFINE t == SubProductBorrow(w[j + i], q, dn[i], p.borrow)
           z == SubProduct(w[j + i], q, dn[i], p.borrow)
           r == MulSubTurn(p, dn, j, q, i + 1)
<1>5. r = [un |-> [p.un EXCEPT ![j + i] = z], borrow |-> t]
  BY <1>3, <1>4 DEF MulSubTurn, SubProduct, SubProductBorrow
<1>6. z \in Word /\ t \in Word /\ (w[j + i] - q * dn[i]) - p.borrow = z - B * t
  <2>1. q \in Word /\ dn[i] \in Word /\ p.borrow \in Word /\ w[j + i] \in Word
    BY <1>1, <1>2
  <2>2. PICK x \in Word, y \in Word, e \in Word : x = w[j + i] /\ y = dn[i] /\ e = p.borrow
    BY <2>1
  <2>3. /\ SubProduct(x, q, y, e) \in Word /\ SubProductBorrow(x, q, y, e) \in Word
        /\ (x - q * y) - e = SubProduct(x, q, y, e) - B * SubProductBorrow(x, q, y, e)
    BY MulSubWord
  <2> QED BY <2>2, <2>3
<1> HIDE DEF t, z, r
<1>7. r \in [un : Num5, borrow : Word]
  BY <1>1, <1>2, <1>5, <1>6 DEF Num5
<1>8. /\ \A k \in 0 .. 4 : k # j + i => r.un[k] = p.un[k]
      /\ r.un[j + i] = z
  BY <1>1, <1>2, <1>5 DEF Num5
<1>9. OnlyChanged(r.un, w, j, i + 1)
  BY <1>1, <1>2, <1>8 DEF OnlyChanged
<1>10. Part(r.un, j, i + 1) = Part(p.un, j, i) + Base(i) * z
  <2>1. StepArgs(r.un, dn, len, j)
    BY <1>7 DEF StepArgs
  <2>2. Part(r.un, j, i + 1) = Part(r.un, j, i) + Base(i) * z
    BY <2>1, <1>8, StepParts
  <2>3. Part(r.un, j, i) = Part(p.un, j, i)
    <3>1. \A k \in 0 .. 4 : k < j + i => r.un[k] = p.un[k]
      BY <1>2, <1>8
    <3>2. i \in 0 .. 5 /\ j + i <= 5
      BY <1>2
    <3> QED BY <3>1, <3>2, <1>2, ChangeAbove
  <2> QED BY <2>2, <2>3
<1>11. \E x \in Int, y \in Int, e \in Int, s \in Int, c \in Int, pw \in Int, pd \in Int, u \in Int :
         /\ x = w[j + i] /\ y = dn[i] /\ e = p.borrow /\ s = z /\ c = Base(i) /\ u = t
         /\ pw = Part(w, j, i) /\ pd = Part(dn, 0, i) /\ q \in Int /\ B \in Int /\ Base(i + 1) = c * B
  <2>1. Word \subseteq Int /\ B \in Int
    BY WordBase DEF Word
  <2>2. Base(i) \in Int /\ Base(i + 1) = Base(i) * B
    BY <1>2, BaseSucc
  <2>3. p.borrow \in Int /\ z \in Int /\ t \in Int /\ q \in Int
    BY <1>1, <1>6, <2>1
  <2> QED BY <1>2, <2>1, <2>2, <2>3
<1>12. PICK x \in Int, y \in Int, e \in Int, s \in Int, c \in Int, pw \in Int, pd \in Int, u \in Int :
         /\ x = w[j + i] /\ y = dn[i] /\ e = p.borrow /\ s = z /\ c = Base(i) /\ u = t
         /\ pw = Part(w, j, i) /\ pd = Part(dn, 0, i) /\ q \in Int /\ B \in Int /\ Base(i + 1) = c * B
  BY <1>11
<1>13. ((pw - q * pd) + c * e) + c * s = ((pw + c * x) - q * (pd + c * y)) + (c * B) * u
  <2>1. s = ((x - q * y) - e) + B * u /\ q * y \in Int /\ B * u \in Int
    <3>1. q * y \in Int /\ B * u \in Int
      BY <1>12, Times
    <3>2. (x - q * y) - e = s - B * u
      BY <1>6, <1>12
    <3> QED BY <3>1, <3>2
  <2>2. c * s = ((c * x - c * (q * y)) - c * e) + c * (B * u)
    <3>1. c * s = c * ((x - q * y) - e) + c * (B * u)
      BY <2>1, Times
    <3>2. c * ((x - q * y) - e) = c * (x - q * y) - c * e
      BY <2>1, Times
    <3>3. c * (x - q * y) = c * x - c * (q * y)
      BY <2>1, Times
    <3> QED BY <3>1, <3>2, <3>3
  <2>3. q * (pd + c * y) = q * pd + q * (c * y) /\ q * (c * y) = c * (q * y) /\ c * (B * u) = (c * B) * u
    <3>1. c * y \in Int /\ q * (pd + c * y) = q * pd + q * (c * y) /\ c * (B * u) = (c * B) * u
      BY <1>12, Times
    <3>2. q * (c * y) = (q * c) * y /\ q * c = c * q /\ c * (q * y) = (c * q) * y
      BY <1>12, Times
    <3> QED BY <3>1, <3>2
  <2>4. PICK cx \in Int, cqy \in Int, ce \in Int, cbu \in Int, qpd \in Int :
          cx = c * x /\ cqy = c * (q * y) /\ ce = c * e /\ cbu = c * (B * u) /\ qpd = q * pd
    BY <1>12, <2>1, Times
  <2>5. ((pw - qpd) + ce) + (((cx - cqy) - ce) + cbu) = ((pw + cx) - (qpd + cqy)) + cbu
    OBVIOUS
  <2> QED BY <2>2, <2>3, <2>4, <2>5
<1>14. Part(r.un, j, i + 1) = (Part(w, j, i + 1) - q * Part(dn, 0, i + 1)) + Base(i + 1) * r.borrow
  <2>1. r.borrow = t
    BY <1>5
  <2> QED BY <1>1, <1>2, <1>10, <1>12, <1>13, <2>1
<1>15. MulSubInv(r, w, dn, j, q, i + 1)
  BY <1>7, <1>9, <1>14 DEF MulSubInv
<1> QED BY <1>15 DEF r

\* A turn keeps the types.
LEMMA MulSubTyped ==
  ASSUME NEW w, NEW dn, NEW len, NEW j, StepArgs(w, dn, len, j), NEW q \in Word, NEW i \in 1 .. len,
         NEW p \in [un : Num5, borrow : Word]
  PROVE  MulSubTurn(p, dn, j, q, i) \in [un : Num5, borrow : Word]
<1>1. PICK k \in 0 .. 4 : k = j + i - 1
  BY DEF StepArgs
<1>2. i - 1 \in 0 .. 3
  BY DEF StepArgs
<1>3. PICK y \in Word : y = dn[i - 1]
  BY <1>2 DEF StepArgs, U256
<1>4. PICK x \in Word, e \in Word : x = p.un[k] /\ e = p.borrow
  BY <1>1 DEF Num5
<1>5. SubProduct(x, q, y, e) \in Word /\ SubProductBorrow(x, q, y, e) \in Word
  BY MulSubWord
<1>6. MulSubTurn(p, dn, j, q, i) = [un |-> [p.un EXCEPT ![k] = SubProduct(x, q, y, e)],
                                    borrow |-> SubProductBorrow(x, q, y, e)]
  BY <1>1, <1>3, <1>4 DEF MulSubTurn, SubProduct, SubProductBorrow
<1>7. p.un \in [0 .. 4 -> Word]
  BY DEF Num5
<1>8. [p.un EXCEPT ![k] = SubProduct(x, q, y, e)] \in Num5
  BY <1>1, <1>5, <1>7 DEF Num5
<1> QED BY <1>5, <1>6, <1>8

\* MulSub takes q * dn from words j .. j + len - 1; the borrow is what is left to take.
LEMMA MulSubIs ==
  ASSUME NEW w, NEW dn, NEW len, NEW j, StepArgs(w, dn, len, j), NEW q \in Word
  PROVE  MulSubInv(MulSub(w, dn, len, j, q), w, dn, j, q, len)
<1> DEFINE S == [un : Num5, borrow : Word]
           x0 == [un |-> w, borrow |-> 0]
           g == [z \in S \X (1 .. len) |-> MulSubTurn(z[1], dn, j, q, z[2])]
           Is(F) == F = [i \in 0 .. len |-> IF i = 0 THEN x0 ELSE MulSubTurn(F[i - 1], dn, j, q, i)]
<1>0. len \in Nat /\ 0 \in Word /\ w \in Num5 /\ len \in 2 .. 4 /\ j \in Nat
  BY WordBase DEF StepArgs, Word
<1>1. x0 \in S
  BY <1>0
<1>2. \A p \in S, i \in 1 .. len : MulSubTurn(p, dn, j, q, i) \in S
  BY MulSubTyped
<1>3. g \in [S \X (1 .. len) -> S]
  <2> HIDE DEF S
  <2> QED BY <1>2
<1>4. \A p \in S, i \in 1 .. len : g[<<p, i>>] = MulSubTurn(p, dn, j, q, i)
  <2> HIDE DEF S
  <2> QED OBVIOUS
<1> HIDE DEF S, g, x0
<1>5. PICK F \in [0 .. len -> S] : Solves(F, len, x0, g)
  <2>1. len \in Nat
    BY <1>0
  <2> QED BY <2>1, <1>1, <1>3, Recursion
<1>6. \A i \in 0 .. len : F[i] = IF i = 0 THEN x0 ELSE MulSubTurn(F[i - 1], dn, j, q, i)
  <2> SUFFICES ASSUME NEW i \in 0 .. len, i # 0 PROVE F[i] = MulSubTurn(F[i - 1], dn, j, q, i)
    BY <1>5 DEF Solves
  <2>1. i - 1 \in 0 .. len /\ i \in 1 .. len
    BY <1>0
  <2>2. F[i] = g[<<F[i - 1], i>>] /\ F[i - 1] \in S
    BY <1>5, <2>1 DEF Solves
  <2> QED BY <1>4, <2>1, <2>2
<1>7. Is(F)
  BY <1>6
<1> DEFINE f == CHOOSE G : Is(G)
<1>8. Is(f)
  <2> HIDE DEF Is
  <2> QED BY <1>7
<1>9. MulSub(w, dn, len, j, q) = f[len]
  BY DEF MulSub, MulSubTurn, x0
<1> HIDE DEF f
<1>10. f[0] = x0 /\ \A i \in 0 .. len - 1 : f[i + 1] = MulSubTurn(f[i], dn, j, q, i + 1)
  <2>1. f[0] = x0
    BY <1>0, <1>8
  <2>2. ASSUME NEW i \in 0 .. len - 1 PROVE f[i + 1] = MulSubTurn(f[i], dn, j, q, i + 1)
    <3>1. i + 1 \in 0 .. len /\ i + 1 # 0 /\ (i + 1) - 1 = i
      BY <1>0
    <3>2. f[i + 1] = MulSubTurn(f[(i + 1) - 1], dn, j, q, i + 1)
      BY <3>1, <1>8
    <3> QED BY <3>1, <3>2
  <2> QED BY <2>1, <2>2
<1> HIDE DEF Is
<1>11. MulSubInv(f[0], w, dn, j, q, 0)
  <2>1. f[0] \in [un : Num5, borrow : Word] /\ f[0].un = w /\ f[0].borrow = 0
    BY <1>1, <1>10 DEF S, x0
  <2>2. Part(w, j, 0) = 0 /\ Part(dn, 0, 0) = 0
    BY DEF Part
  <2>3. q * 0 = 0 /\ Base(0) * 0 = 0
    BY Bases, WordBase DEF Word
  <2> QED BY <2>1, <2>2, <2>3 DEF MulSubInv, OnlyChanged
<1> DEFINE T == {i \in 0 .. len : MulSubInv(f[i], w, dn, j, q, i)}
<1>12. 0 \in T
  BY <1>0, <1>11
<1>13. ASSUME NEW i \in 0 .. len - 1, i \in T PROVE i + 1 \in T
  <2>1. MulSubInv(MulSubTurn(f[i], dn, j, q, i + 1), w, dn, j, q, i + 1)
    BY <1>13, MulSubKeeps
  <2>2. i + 1 \in 0 .. len
    BY <1>0
  <2> QED BY <1>10, <2>1, <2>2
<1>14. 0 .. len \subseteq T
  <2> HIDE DEF T
  <2> QED BY <1>0, <1>12, <1>13, IntervalInduction
<1>15. MulSubInv(f[len], w, dn, j, q, len)
  BY <1>0, <1>14
<1> QED BY <1>9, <1>15

\* After i turns of AddBack: the words below j + i are the sum, but for the carry.
AddBackInv(p, w, dn, j, i) ==
  /\ p \in [un : Num5, carry : Nat] /\ OnlyChanged(p.un, w, j, i)
  /\ Part(p.un, j, i) + Base(i) * p.carry = Part(w, j, i) + Part(dn, 0, i)

\* A turn of AddBack keeps the types.
LEMMA AddBackTyped ==
  ASSUME NEW w, NEW dn, NEW len, NEW j, StepArgs(w, dn, len, j), NEW i \in 1 .. len,
         NEW p \in [un : Num5, carry : Nat]
  PROVE  AddBackTurn(p, dn, j, i) \in [un : Num5, carry : Nat]
<1>1. PICK k \in 0 .. 4 : k = j + i - 1
  BY DEF StepArgs
<1>2. i - 1 \in 0 .. 3
  BY DEF StepArgs
<1>3. PICK y \in Nat : y = dn[i - 1]
  BY <1>2, WordBase DEF StepArgs, U256, Word
<1>4. PICK x \in Nat, e \in Nat : x = p.un[k] /\ e = p.carry
  BY <1>1, WordBase DEF Num5, Word
<1>5. Sum(x, y, e) \in Word /\ Carry(x, y, e) \in Nat
  BY AddWord
<1>6. AddBackTurn(p, dn, j, i) = [un |-> [p.un EXCEPT ![k] = Sum(x, y, e)], carry |-> Carry(x, y, e)]
  BY <1>1, <1>3, <1>4 DEF AddBackTurn
<1>7. p.un \in [0 .. 4 -> Word]
  BY DEF Num5
<1>8. [p.un EXCEPT ![k] = Sum(x, y, e)] \in Num5
  BY <1>1, <1>5, <1>7 DEF Num5
<1> QED BY <1>5, <1>6, <1>8

\* A turn of AddBack keeps the sum.
LEMMA AddBackKeeps ==
  ASSUME NEW w, NEW dn, NEW len, NEW j, StepArgs(w, dn, len, j), NEW i \in 0 .. len - 1,
         NEW p, AddBackInv(p, w, dn, j, i)
  PROVE  AddBackInv(AddBackTurn(p, dn, j, i + 1), w, dn, j, i + 1)
<1>1. /\ p.un \in Num5 /\ p.carry \in Nat /\ OnlyChanged(p.un, w, j, i)
      /\ Part(p.un, j, i) + Base(i) * p.carry = Part(w, j, i) + Part(dn, 0, i)
      /\ p \in [un : Num5, carry : Nat]
  BY DEF AddBackInv
<1>2. /\ j \in Nat /\ i \in Nat /\ j + i \in 0 .. 4
      /\ w[j + i] \in Word /\ w[j + i] \in Int /\ dn[i] \in Word /\ dn[i] \in Int
      /\ Part(w, j, i) \in Int /\ Part(w, j, i + 1) = Part(w, j, i) + Base(i) * w[j + i]
      /\ Part(dn, 0, i) \in Int /\ Part(dn, 0, i + 1) = Part(dn, 0, i) + Base(i) * dn[i]
  BY StepParts
<1>3. p.un[j + i] = w[j + i]
  BY <1>1, <1>2 DEF OnlyChanged
<1>4. (i + 1) - 1 = i /\ j + (i + 1) - 1 = j + i /\ i + 1 \in 1 .. len
  BY <1>2 DEF StepArgs
<1>5. PICK x \in Nat, y \in Nat, e \in Nat : x = w[j + i] /\ y = dn[i] /\ e = p.carry
  BY <1>1, <1>2, WordBase DEF Word
<1>6. PICK s \in Nat, t \in Nat : s = Sum(x, y, e) /\ t = Carry(x, y, e) /\ x + y + e = s + B * t
  <2>1. Word \subseteq Nat
    BY WordBase DEF Word
  <2>2. Carry(x, y, e) \in Nat /\ Sum(x, y, e) \in Word /\ x + y + e = Sum(x, y, e) + B * Carry(x, y, e)
    BY AddWord
  <2>3. Sum(x, y, e) \in Nat
    BY <2>1, <2>2
  <2> QED BY <2>2, <2>3
<1> DEFINE r == AddBackTurn(p, dn, j, i + 1)
<1>7. r = [un |-> [p.un EXCEPT ![j + i] = s], carry |-> t]
  BY <1>3, <1>4, <1>5, <1>6 DEF AddBackTurn
<1>8. r \in [un : Num5, carry : Nat]
  BY <1>1, <1>4, AddBackTyped
<1> HIDE DEF r
<1>9. /\ \A k \in 0 .. 4 : k # j + i => r.un[k] = p.un[k]
      /\ r.un[j + i] = s
  BY <1>1, <1>2, <1>7 DEF Num5
<1>10. OnlyChanged(r.un, w, j, i + 1)
  BY <1>1, <1>2, <1>9 DEF OnlyChanged
<1>11. Part(p.un, j, i) \in Int /\ Part(r.un, j, i + 1) = Part(p.un, j, i) + Base(i) * s
  <2>1. StepArgs(r.un, dn, len, j) /\ StepArgs(p.un, dn, len, j)
    BY <1>1, <1>8 DEF StepArgs
  <2>2. Part(r.un, j, i + 1) = Part(r.un, j, i) + Base(i) * s /\ Part(p.un, j, i) \in Int
    BY <2>1, <1>9, StepParts
  <2>3. Part(r.un, j, i) = Part(p.un, j, i)
    <3>1. \A k \in 0 .. 4 : k < j + i => r.un[k] = p.un[k]
      BY <1>2, <1>9
    <3>2. i \in 0 .. 5 /\ j + i <= 5
      BY <1>2
    <3> QED BY <3>1, <3>2, <1>2, ChangeAbove
  <2> QED BY <2>2, <2>3
<1>12. PICK c \in Nat, pp \in Int, pw \in Int, pd \in Int :
         /\ c = Base(i) /\ Base(i + 1) = c * B /\ pp = Part(p.un, j, i)
         /\ pw = Part(w, j, i) /\ pd = Part(dn, 0, i)
  <2>1. Base(i) \in Nat /\ Base(i + 1) = Base(i) * B
    BY <1>2, BaseSucc
  <2> QED BY <2>1, <1>2, <1>11
<1>13. (pp + c * s) + (c * B) * t = (pw + c * x) + (pd + c * y)
  <2>1. pp + c * e = pw + pd
    BY <1>1, <1>5, <1>12
  <2>2. c * (x + y + e) = c * s + c * (B * t) /\ c * (B * t) = (c * B) * t
    <3>1. B * t \in Int /\ s \in Int /\ c \in Int
      BY WordBase, Times
    <3>2. c * (s + B * t) = c * s + c * (B * t)
      BY <3>1, Times
    <3>3. c * (B * t) = (c * B) * t
      BY WordBase, Times
    <3> QED BY <1>6, <3>2, <3>3
  <2>3. c * (x + y + e) = c * (x + y) + c * e /\ c * (x + y) = c * x + c * y
    BY Times
  <2>4. PICK cs \in Int, cx \in Int, cy \in Int, ce \in Int, cbt \in Int :
          cs = c * s /\ cx = c * x /\ cy = c * y /\ ce = c * e /\ cbt = (c * B) * t
    BY WordBase, Times
  <2>5. pp + ce = pw + pd /\ cx + cy + ce = cs + cbt
    BY <2>1, <2>2, <2>3, <2>4
  <2>6. (pp + cs) + cbt = (pw + cx) + (pd + cy)
    BY <2>5
  <2> QED BY <2>4, <2>6
<1>14. Part(r.un, j, i + 1) + Base(i + 1) * r.carry = Part(w, j, i + 1) + Part(dn, 0, i + 1)
  <2>1. r.carry = t
    BY <1>7
  <2> QED BY <1>2, <1>5, <1>11, <1>12, <1>13, <2>1
<1>15. AddBackInv(r, w, dn, j, i + 1)
  BY <1>8, <1>10, <1>14 DEF AddBackInv
<1> QED BY <1>15 DEF r

\* AddBack adds dn to words j .. j + len - 1, and the carry c to word j + len.
LEMMA AddBackIs ==
  ASSUME NEW w, NEW dn, NEW len, NEW j, StepArgs(w, dn, len, j)
  PROVE  \E c \in Nat :
           LET r == AddBack(w, dn, len, j)
           IN /\ r \in Num5 /\ OnlyChanged(r, w, j, len + 1)
              /\ Part(r, j, len) + Base(len) * c = Part(w, j, len) + Part(dn, 0, len)
              /\ r[j + len] = (w[j + len] + c) % B
<1> DEFINE S == [un : Num5, carry : Nat]
           x0 == [un |-> w, carry |-> 0]
           g == [z \in S \X (1 .. len) |-> AddBackTurn(z[1], dn, j, z[2])]
           Is(F) == F = [i \in 0 .. len |-> IF i = 0 THEN x0 ELSE AddBackTurn(F[i - 1], dn, j, i)]
<1>0. len \in Nat /\ w \in Num5 /\ len \in 2 .. 4 /\ j \in Nat
  BY DEF StepArgs
<1>1. x0 \in S
  BY <1>0
<1>2. \A p \in S, i \in 1 .. len : AddBackTurn(p, dn, j, i) \in S
  BY AddBackTyped
<1>3. g \in [S \X (1 .. len) -> S]
  <2> HIDE DEF S
  <2> QED BY <1>2
<1>4. \A p \in S, i \in 1 .. len : g[<<p, i>>] = AddBackTurn(p, dn, j, i)
  <2> HIDE DEF S
  <2> QED OBVIOUS
<1> HIDE DEF S, g, x0
<1>5. PICK F \in [0 .. len -> S] : Solves(F, len, x0, g)
  <2>1. len \in Nat
    BY <1>0
  <2> QED BY <2>1, <1>1, <1>3, Recursion
<1>6. \A i \in 0 .. len : F[i] = IF i = 0 THEN x0 ELSE AddBackTurn(F[i - 1], dn, j, i)
  <2> SUFFICES ASSUME NEW i \in 0 .. len, i # 0 PROVE F[i] = AddBackTurn(F[i - 1], dn, j, i)
    BY <1>5 DEF Solves
  <2>1. i - 1 \in 0 .. len /\ i \in 1 .. len
    BY <1>0
  <2>2. F[i] = g[<<F[i - 1], i>>] /\ F[i - 1] \in S
    BY <1>5, <2>1 DEF Solves
  <2> QED BY <1>4, <2>1, <2>2
<1>7. Is(F)
  BY <1>6
<1> DEFINE f == CHOOSE G : Is(G)
<1>8. Is(f)
  <2> HIDE DEF Is
  <2> QED BY <1>7
<1>9. AddBack(w, dn, len, j) = [f[len].un EXCEPT ![j + len] = Sum(@, 0, f[len].carry)]
  BY DEF AddBack, AddBackTurn, x0
<1> HIDE DEF f
<1>10. f[0] = x0 /\ \A i \in 0 .. len - 1 : f[i + 1] = AddBackTurn(f[i], dn, j, i + 1)
  <2>1. f[0] = x0
    BY <1>0, <1>8
  <2>2. ASSUME NEW i \in 0 .. len - 1 PROVE f[i + 1] = AddBackTurn(f[i], dn, j, i + 1)
    <3>1. i + 1 \in 0 .. len /\ i + 1 # 0 /\ (i + 1) - 1 = i
      BY <1>0
    <3>2. f[i + 1] = AddBackTurn(f[(i + 1) - 1], dn, j, i + 1)
      BY <3>1, <1>8
    <3> QED BY <3>1, <3>2
  <2> QED BY <2>1, <2>2
<1> HIDE DEF Is
<1>11. AddBackInv(f[0], w, dn, j, 0)
  <2>1. f[0] \in [un : Num5, carry : Nat] /\ f[0].un = w /\ f[0].carry = 0
    BY <1>1, <1>10 DEF S, x0
  <2>2. Part(w, j, 0) = 0 /\ Part(dn, 0, 0) = 0
    BY DEF Part
  <2>3. Base(0) * 0 = 0
    BY Bases
  <2> QED BY <2>1, <2>2, <2>3 DEF AddBackInv, OnlyChanged
<1> DEFINE T == {i \in 0 .. len : AddBackInv(f[i], w, dn, j, i)}
<1>12. 0 \in T
  BY <1>0, <1>11
<1>13. ASSUME NEW i \in 0 .. len - 1, i \in T PROVE i + 1 \in T
  <2>1. AddBackInv(AddBackTurn(f[i], dn, j, i + 1), w, dn, j, i + 1)
    BY <1>13, AddBackKeeps
  <2>2. i + 1 \in 0 .. len
    BY <1>0
  <2> QED BY <1>10, <2>1, <2>2
<1>14. 0 .. len \subseteq T
  <2> HIDE DEF T
  <2> QED BY <1>0, <1>12, <1>13, IntervalInduction
<1>15. AddBackInv(f[len], w, dn, j, len)
  BY <1>0, <1>14
<1>16. PICK v \in Num5, c \in Nat : /\ v = f[len].un /\ c = f[len].carry /\ OnlyChanged(v, w, j, len)
                                    /\ Part(v, j, len) + Base(len) * c = Part(w, j, len) + Part(dn, 0, len)
  BY <1>15 DEF AddBackInv
<1>17. PICK k \in 0 .. 4 : k = j + len
  BY DEF StepArgs
<1>18. v[k] = w[k] /\ v[k] \in Nat
  <2>1. v[k] = w[k]
    BY <1>0, <1>16, <1>17 DEF OnlyChanged
  <2> QED BY <2>1, WordBase DEF Num5, Word
<1> DEFINE r == AddBack(w, dn, len, j)
<1>19. r = [v EXCEPT ![k] = Sum(v[k], 0, c)]
  BY <1>9, <1>16, <1>17
<1>20. Sum(v[k], 0, c) \in Word /\ Sum(v[k], 0, c) = (w[k] + c) % B
  <2>1. v[k] + 0 + c = w[k] + c
    BY <1>18
  <2> QED BY <2>1, <1>18, AddWord DEF Sum
<1> HIDE DEF r
<1>21. r \in Num5 /\ r[k] = (w[k] + c) % B /\ \A m \in 0 .. 4 : m # k => r[m] = v[m]
  BY <1>19, <1>20 DEF Num5
<1>22. Part(r, j, len) = Part(v, j, len)
  <2>1. \A m \in 0 .. 4 : m < j + len => r[m] = v[m]
    BY <1>17, <1>21
  <2>2. len \in 0 .. 5 /\ j + len <= 5
    BY <1>0, <1>17
  <2> QED BY <2>1, <2>2, <1>0, ChangeAbove
<1>23. OnlyChanged(r, w, j, len + 1)
  BY <1>0, <1>16, <1>17, <1>21 DEF OnlyChanged
<1>24. \E m \in Nat : /\ r \in Num5 /\ OnlyChanged(r, w, j, len + 1)
              /\ Part(r, j, len) + Base(len) * m = Part(w, j, len) + Part(dn, 0, len)
              /\ r[j + len] = (w[j + len] + m) % B
  BY <1>16, <1>17, <1>21, <1>22, <1>23
<1> QED BY <1>24 DEF r

-----------------------------------------------------------------------------
(* The estimate of a digit                                                  *)

\* An estimate of a digit.
Est == [q : Word, r : Word, tight : BOOLEAN]

\* e estimates the quotient of the three words in x and u by the two words top and
\* next: it is not too small, and if it is tight not too large.
EstInv(e, x, top, next, u) ==
  /\ e \in Est
  /\ x * B + u < (e.q + 1) * (top * B + next)
  /\ \E r \in Nat : /\ x = e.q * top + r
                    /\ e.tight => e.q * next <= r * B + u
                    /\ ~e.tight => e.r = r

\* Refine makes tight what need not be refined.
LEMMA RefineStops ==
  ASSUME NEW e \in Est, NEW top \in Word, NEW next \in Word, NEW u \in Word,
         e.tight \/ next = 0 \/ e.q * next <= e.r * B + u
  PROVE  Refine(e, top, next, u) = [e EXCEPT !.tight = TRUE] /\ Refine(e, top, next, u) \in Est
<1>1. Refine(e, top, next, u) = [e EXCEPT !.tight = TRUE]
  BY DEF Refine
<1>2. [e EXCEPT !.tight = TRUE] \in Est
  BY DEF Est
<1> QED BY <1>1, <1>2

\* Refine makes what is too large smaller by one.
LEMMA RefineGoesOn ==
  ASSUME NEW e \in Est, NEW top \in Word, NEW next \in Word, NEW u \in Word,
         ~(e.tight \/ next = 0 \/ e.q * next <= e.r * B + u)
  PROVE  /\ e.q * next > e.r * B + u /\ e.q >= 1 /\ ~e.tight
         /\ Refine(e, top, next, u) \in Est
         /\ Refine(e, top, next, u).q = e.q - 1
         /\ Refine(e, top, next, u).tight => e.r + top >= B
         /\ ~Refine(e, top, next, u).tight => e.r + top < B /\ Refine(e, top, next, u).r = e.r + top
<1>1. PICK q \in Nat, r \in Nat, t \in Nat, nx \in Nat, v \in Nat, bb \in Nat \ {0} :
        /\ q = e.q /\ r = e.r /\ t = top /\ nx = next /\ v = u /\ bb = B
        /\ q <= bb - 1 /\ r <= bb - 1 /\ t <= bb - 1
  BY WordBase DEF Est, Word
<1>2. Refine(e, top, next, u) = [q |-> e.q - 1, r |-> Sum(e.r, top, 0), tight |-> Carry(e.r, top, 0) # 0]
  BY DEF Refine
<1>3. PICK s \in Nat, c \in Nat : s = Sum(e.r, top, 0) /\ c = Carry(e.r, top, 0) /\ r + t + 0 = s + bb * c /\ s <= bb - 1
  <2>1. Sum(r, t, 0) \in Word /\ Carry(r, t, 0) \in Nat /\ r + t + 0 = Sum(r, t, 0) + B * Carry(r, t, 0)
    <3>1. PICK o \in Nat : o = 0
      OBVIOUS
    <3>2. Sum(r, t, o) \in Word /\ Carry(r, t, o) \in Nat /\ r + t + o = Sum(r, t, o) + B * Carry(r, t, o)
      BY AddWord
    <3> QED BY <3>1, <3>2
  <2>2. Sum(r, t, 0) \in Nat /\ Sum(r, t, 0) <= bb - 1
    BY <2>1, <1>1, WordBase DEF Word
  <2> QED BY <1>1, <2>1, <2>2
<1>4. q * nx > r * bb + v /\ q >= 1
  <2>1. q * nx \in Int /\ r * bb \in Nat
    BY Times
  <2>2. ~(q * nx <= r * bb + v)
    BY <1>1
  <2>3. q * nx > r * bb + v
    BY <2>1, <2>2
  <2>4. 0 * nx = 0 /\ q * nx > 0
    BY <2>1, <2>3
  <2>5. q # 0
    BY <2>4
  <2> QED BY <2>3, <2>5
<1>5. q - 1 \in Word /\ s \in Word
  BY <1>1, <1>3, <1>4 DEF Word
<1>6. Refine(e, top, next, u) \in Est
  BY <1>1, <1>2, <1>3, <1>5 DEF Est
<1>7. c # 0 => r + t >= bb
  <2> SUFFICES ASSUME c # 0 PROVE r + t >= bb
    OBVIOUS
  <2>1. bb * 1 <= bb * c /\ bb * 1 = bb /\ bb * c \in Int
    BY TimesMono, Times
  <2> QED BY <2>1, <1>3
<1>8. c = 0 => r + t = s
  BY <1>3
<1>9. c = 0 => r + t < bb
  BY <1>3, <1>8
<1> DEFINE ref == Refine(e, top, next, u)
<1>10. ref.q = e.q - 1 /\ ref.r = s /\ (ref.tight <=> c # 0)
  <2>1. ref.q = e.q - 1
    BY <1>2
  <2>2. ref.r = s
    BY <1>2, <1>3
  <2>3. ref.tight = (Carry(e.r, top, 0) # 0)
    <3> DEFINE z == Carry(e.r, top, 0) # 0
    <3>1. ref = [q |-> e.q - 1, r |-> Sum(e.r, top, 0), tight |-> z]
      BY <1>2, Zenon
    <3> HIDE DEF z
    <3>2. ref.tight = z
      BY <3>1
    <3> QED BY <3>2, Zenon DEF z
  <2> QED BY <1>3, <2>1, <2>2, <2>3
<1> HIDE DEF ref
<1>11. ref.tight => e.r + top >= B
  BY <1>1, <1>7, <1>10
<1>12. ~ref.tight => e.r + top < B /\ ref.r = e.r + top
  BY <1>1, <1>8, <1>9, <1>10
<1>13. e.q * next > e.r * B + u /\ e.q >= 1 /\ ~e.tight
  BY <1>1, <1>4
<1> QED BY <1>6, <1>10, <1>11, <1>12, <1>13 DEF ref

\* A turn of the refinement keeps the types.
LEMMA RefineTyped ==
  ASSUME NEW e \in Est, NEW top \in Word, NEW next \in Word, NEW u \in Word
  PROVE  /\ Refine(e, top, next, u) \in Est
         /\ ~Refine(e, top, next, u).tight =>
              ~e.tight /\ e.r + top < B /\ Refine(e, top, next, u).r = e.r + top
<1>1. CASE e.tight \/ next = 0 \/ e.q * next <= e.r * B + u
  <2>1. Refine(e, top, next, u) = [e EXCEPT !.tight = TRUE] /\ Refine(e, top, next, u) \in Est
    BY <1>1, RefineStops
  <2>2. [e EXCEPT !.tight = TRUE].tight = TRUE
    BY DEF Est
  <2> QED BY <2>1, <2>2
<1>2. CASE ~(e.tight \/ next = 0 \/ e.q * next <= e.r * B + u)
  BY <1>2, RefineGoesOn
<1> QED BY <1>1, <1>2

\* The estimate q is too large: its product with the two words top and next is.
LEMMA TooLarge ==
  ASSUME NEW q \in Nat, NEW t \in Nat, NEW r \in Nat, NEW nx \in Nat, NEW u \in Nat, NEW bb \in Nat
  PROVE  /\ (q * t + r) * bb \in Int /\ q * (t * bb + nx) \in Int
         /\ q * nx > r * bb + u => (q * t + r) * bb + u < q * (t * bb + nx)
         /\ q * nx <= r * bb + u => q * (t * bb + nx) <= (q * t + r) * bb + u
<1>1. q * t \in Int /\ r * bb \in Int /\ q * nx \in Int /\ t * bb \in Int
  BY Times
<1>2. (q * t + r) * bb = bb * (q * t + r) /\ bb * (q * t + r) = bb * (q * t) + bb * r /\ bb * r = r * bb
  BY <1>1, Times
<1>3. q * (t * bb + nx) = q * (t * bb) + q * nx /\ q * (t * bb) = (q * t) * bb /\ (q * t) * bb = bb * (q * t)
  BY <1>1, Times
<1>4. PICK qtb \in Int, rb \in Int, qn \in Int : qtb = bb * (q * t) /\ rb = r * bb /\ qn = q * nx
  BY <1>1, Times
<1>5. (q * t + r) * bb = qtb + rb /\ q * (t * bb + nx) = qtb + qn
  BY <1>2, <1>3, <1>4
<1> QED BY <1>4, <1>5

\* A turn of the refinement keeps EstInv.
LEMMA RefineKeeps ==
  ASSUME NEW e, NEW x \in Nat, NEW top \in Word, NEW next \in Word, NEW u \in Word,
         EstInv(e, x, top, next, u)
  PROVE  EstInv(Refine(e, top, next, u), x, top, next, u)
<1>0. e \in Est /\ x * B + u < (e.q + 1) * (top * B + next)
  BY DEF EstInv
<1>1. PICK r \in Nat : x = e.q * top + r /\ (e.tight => e.q * next <= r * B + u) /\ (~e.tight => e.r = r)
  BY DEF EstInv
<1>2. PICK q \in Nat, t \in Nat, nx \in Nat, v \in Nat, bb \in Nat \ {0} :
        /\ q = e.q /\ t = top /\ nx = next /\ v = u /\ bb = B
        /\ q <= bb - 1 /\ nx <= bb - 1
  BY <1>0, WordBase DEF Est, Word
<1> DEFINE ref == Refine(e, top, next, u)
<1>3. CASE e.tight \/ next = 0 \/ e.q * next <= e.r * B + u
  <2>1. ref = [e EXCEPT !.tight = TRUE] /\ ref \in Est
    BY <1>0, <1>3, RefineStops
  <2> HIDE DEF ref
  <2>2. ref.q = e.q /\ ref.tight = TRUE
    BY <1>0, <2>1 DEF Est
  <2>3. e.q * next <= r * B + u
    <3>1. CASE e.tight
      BY <3>1, <1>1
    <3>2. CASE ~e.tight /\ next = 0
      <4>1. q * 0 = 0 /\ r * bb \in Nat
        BY Times
      <4> QED BY <4>1, <3>2, <1>2
    <3>3. CASE ~e.tight /\ next # 0
      <4>1. e.q * next <= e.r * B + u
        BY <3>3, <1>3
      <4> QED BY <4>1, <3>3, <1>1
    <3> QED BY <3>1, <3>2, <3>3
  <2>4. \E s \in Nat : /\ x = ref.q * top + s
                       /\ ref.tight => ref.q * next <= s * B + u
                       /\ ~ref.tight => ref.r = s
    BY <1>1, <2>2, <2>3
  <2>5. x * B + u < (ref.q + 1) * (top * B + next)
    BY <1>0, <2>2
  <2> QED BY <2>1, <2>4, <2>5 DEF EstInv, ref
<1>4. CASE ~(e.tight \/ next = 0 \/ e.q * next <= e.r * B + u)
  <2>1. /\ e.q * next > e.r * B + u /\ e.q >= 1 /\ ~e.tight
        /\ ref \in Est /\ ref.q = e.q - 1
        /\ ref.tight => e.r + top >= B
        /\ ~ref.tight => e.r + top < B /\ ref.r = e.r + top
    BY <1>0, <1>4, RefineGoesOn
  <2> HIDE DEF ref
  <2>2. e.r = r
    BY <1>1, <2>1
  <2>3. q * nx > r * bb + v /\ q >= 1
    BY <1>2, <2>1, <2>2
  <2>4. x = q * t + r
    BY <1>1, <1>2
  <2>5. x * bb + v < q * (t * bb + nx)
    BY <2>3, <2>4, TooLarge
  <2>6. x * B + u < (ref.q + 1) * (top * B + next)
    <3>1. ref.q + 1 = q
      BY <1>2, <2>1
    <3> QED BY <3>1, <2>5, <1>2
  <2>7. x = (q - 1) * t + (r + t)
    <3>1. t * (q - 1) = t * q - t * 1 /\ t * (q - 1) = (q - 1) * t /\ t * q = q * t /\ t * 1 = t /\ q * t \in Int
      BY Times
    <3> QED BY <3>1, <2>4
  <2>8. r + t >= bb => (q - 1) * nx <= (r + t) * bb + v
    <3> SUFFICES ASSUME r + t >= bb PROVE (q - 1) * nx <= (r + t) * bb + v
      OBVIOUS
    <3>1. q - 1 \in Nat /\ q - 1 <= bb
      BY <1>2, <2>3
    <3>2. (q - 1) * nx <= (q - 1) * bb /\ (q - 1) * bb = bb * (q - 1) /\ bb * (q - 1) <= bb * bb
      BY <1>2, <3>1, TimesMono, Times
    <3>3. bb * bb <= bb * (r + t) /\ bb * (r + t) = (r + t) * bb
      BY TimesMono, Times
    <3>4. PICK p1 \in Int, p2 \in Int, p3 \in Int, p4 \in Int :
            p1 = (q - 1) * nx /\ p2 = bb * (q - 1) /\ p3 = bb * bb /\ p4 = (r + t) * bb
      BY <3>1, Times
    <3>5. p1 <= p2 /\ p2 <= p3 /\ p3 <= p4
      BY <3>2, <3>3, <3>4
    <3> QED BY <3>4, <3>5
  <2>9. \E s \in Nat : /\ x = ref.q * top + s
                       /\ ref.tight => ref.q * next <= s * B + u
                       /\ ~ref.tight => ref.r = s
    <3>1. r + t \in Nat /\ ref.q = q - 1
      BY <1>2, <2>1
    <3>2. x = ref.q * top + (r + t)
      BY <3>1, <1>2, <2>7
    <3>3. ref.tight => ref.q * next <= (r + t) * B + u
      BY <3>1, <1>2, <2>1, <2>2, <2>8
    <3>4. ~ref.tight => ref.r = r + t
      BY <1>2, <2>1, <2>2
    <3> QED BY <3>1, <3>2, <3>3, <3>4
  <2> QED BY <2>1, <2>6, <2>9 DEF EstInv, ref
<1> QED BY <1>3, <1>4

\* The first estimate.
LEMMA FirstEstimate ==
  ASSUME NEW x \in Nat, NEW top \in Word, NEW next \in Word, NEW u \in Word, top # 0, x < top * B
  PROVE  EstInv(EstimateOf(x \div top, x % top), x, top, next, u)
<1>1. PICK t \in Nat \ {0}, nx \in Nat, v \in Nat, bb \in Nat \ {0} :
        t = top /\ nx = next /\ v = u /\ bb = B /\ t <= bb - 1 /\ nx <= bb - 1 /\ v <= bb - 1
  BY WordBase DEF Word
<1>2. PICK q \in Nat, r \in Nat : q = x \div t /\ r = x % t /\ r < t /\ x = r + t * q
  BY DivModIs
<1>3. q <= bb - 1
  <2> SUFFICES ASSUME q >= bb PROVE FALSE
    OBVIOUS
  <2>1. t * bb <= t * q /\ t * bb \in Int /\ t * q \in Int
    BY TimesMono, Times
  <2> QED BY <2>1, <1>1, <1>2
<1> DEFINE e == EstimateOf(x \div top, x % top)
<1>4. e = [q |-> q, r |-> r, tight |-> FALSE]
  BY <1>1, <1>2 DEF EstimateOf
<1>5. q \in Word /\ r \in Word
  BY <1>1, <1>2, <1>3 DEF Word
<1> HIDE DEF e
<1>6. e \in Est /\ e.q = q /\ e.r = r /\ e.tight = FALSE
  <2>1. e \in Est
    BY <1>4, <1>5 DEF Est
  <2>2. e.q = q /\ e.r = r
    BY <1>4
  <2>3. e.tight = FALSE
    BY <1>4
  <2> QED BY <2>1, <2>2, <2>3
<1>7. x = q * t + r
  BY <1>2, Times
<1>8. x * bb + v < (q + 1) * (t * bb + nx)
  <2>1. x + 1 <= (q + 1) * t
    <3>1. t * (q + 1) = t * q + t * 1 /\ t * 1 = t /\ t * (q + 1) = (q + 1) * t /\ t * q \in Int
      BY Times
    <3> QED BY <3>1, <1>2
  <2>2. bb * (x + 1) <= bb * ((q + 1) * t)
    <3>1. (q + 1) * t \in Int
      BY Times
    <3> QED BY <2>1, <3>1, TimesMono
  <2>3. bb * (x + 1) = bb * x + bb * 1 /\ bb * 1 = bb /\ bb * x = x * bb
    BY Times
  <2>4. (q + 1) * (t * bb + nx) = (q + 1) * (t * bb) + (q + 1) * nx
    <3>1. t * bb \in Int
      BY Times
    <3> QED BY <3>1, Times
  <2>5. (q + 1) * (t * bb) = ((q + 1) * t) * bb /\ ((q + 1) * t) * bb = bb * ((q + 1) * t) /\ (q + 1) * nx \in Nat
    <3>1. (q + 1) * t \in Int
      BY Times
    <3> QED BY <3>1, Times
  <2>6. PICK p1 \in Int, p2 \in Int, p3 \in Nat : p1 = x * bb /\ p2 = bb * ((q + 1) * t) /\ p3 = (q + 1) * nx
    <3>1. (q + 1) * t \in Int
      BY Times
    <3> QED BY <3>1, <2>5, Times
  <2>7. p1 + bb <= p2 /\ (q + 1) * (t * bb + nx) = p2 + p3
    BY <2>2, <2>3, <2>4, <2>5, <2>6
  <2>8. p1 + v < p2 + p3
    BY <1>1, <2>7
  <2> QED BY <2>6, <2>7, <2>8
<1>9. EstInv(e, x, top, next, u)
  BY <1>1, <1>6, <1>7, <1>8 DEF EstInv
<1> QED BY <1>9 DEF e

\* Two turns are enough when top has its highest bit: the digit is the quotient of
\* the leading three words by the leading two.  It is a word in any case.
LEMMA DigitIs ==
  ASSUME NEW w, NEW dn, NEW len, NEW j, StepArgs(w, dn, len, j), B <= 2 * dn[len - 1]
  PROVE  LET q == Digit(w, dn, len, j)
             y == dn[len - 1] * B + dn[len - 2]
             x == (w[j + len] * B + w[j + len - 1]) * B + w[j + len - 2]
         IN /\ q \in Word
            /\ w[j + len] < dn[len - 1] => q * y <= x /\ x < (q + 1) * y
<1>1. /\ len - 1 \in 0 .. 3 /\ len - 2 \in 0 .. 3
      /\ j + len \in 0 .. 4 /\ j + len - 1 \in 0 .. 4 /\ j + len - 2 \in 0 .. 4
  BY DEF StepArgs
<1>2. PICK top \in Word, next \in Word, w2 \in Word, w1 \in Word, u \in Word :
        /\ top = dn[len - 1] /\ next = dn[len - 2]
        /\ w2 = w[j + len] /\ w1 = w[j + len - 1] /\ u = w[j + len - 2]
  BY <1>1 DEF StepArgs, Num5, U256
<1>3. /\ B \in Nat \ {0} /\ top \in Nat /\ next \in Nat /\ w2 \in Nat /\ w1 \in Nat /\ u \in Nat
      /\ top <= B - 1 /\ w2 <= B - 1 /\ w1 <= B - 1 /\ B <= 2 * top
  BY <1>2, WordBase DEF Word
<1>4. PICK x \in Nat : x = w2 * B + w1
  BY <1>3, Times
<1>5. top \in Nat \ {0} /\ top # 0
  BY <1>3
<1> DEFINE e == IF w2 >= top THEN EstimateOf(B - 1, 0) ELSE EstimateOf(x \div top, x % top)
           f == Refine(e, top, next, u)
           g == Refine(f, top, next, u)
<1>6. Digit(w, dn, len, j) = g.q
  BY <1>2, <1>4 DEF Digit
<1>7. w2 < top => x < top * B
  <2> SUFFICES ASSUME w2 < top PROVE x < top * B
    OBVIOUS
  <2>1. B * (w2 + 1) <= B * top /\ B * (w2 + 1) = B * w2 + B * 1 /\ B * 1 = B
    BY <1>3, TimesMono, Times
  <2>2. B * w2 = w2 * B /\ B * top = top * B /\ w2 * B \in Int /\ top * B \in Int
    BY <1>3, Times
  <2> QED BY <1>3, <1>4, <2>1, <2>2
<1>8. w2 < top => EstInv(e, x, top, next, u)
  <2> SUFFICES ASSUME w2 < top PROVE EstInv(e, x, top, next, u)
    OBVIOUS
  <2>1. e = EstimateOf(x \div top, x % top)
    BY <1>3
  <2> HIDE DEF e
  <2> QED BY <1>5, <1>7, <2>1, FirstEstimate
<1>9. e \in Est
  <2>1. CASE w2 < top
    BY <2>1, <1>8 DEF EstInv
  <2>2. CASE w2 >= top
    <3>1. e = EstimateOf(B - 1, 0)
      BY <2>2
    <3>2. B - 1 \in Word /\ 0 \in Word
      BY <1>3 DEF Word
    <3> QED BY <3>1, <3>2 DEF EstimateOf, Est
  <2> QED BY <2>1, <2>2, <1>3
<1> HIDE DEF e
<1>10. f \in Est /\ (~f.tight => ~e.tight /\ e.r + top < B /\ f.r = e.r + top)
  BY <1>9, RefineTyped
<1>11. w2 < top => EstInv(f, x, top, next, u)
  BY <1>8, RefineKeeps
<1> HIDE DEF f
<1>12. g \in Est /\ (~g.tight => ~f.tight /\ f.r + top < B /\ g.r = f.r + top)
  BY <1>10, RefineTyped
<1>13. w2 < top => EstInv(g, x, top, next, u)
  BY <1>11, RefineKeeps
<1> HIDE DEF g
<1>14. g.tight
  <2> SUFFICES ASSUME ~g.tight PROVE FALSE
    OBVIOUS
  <2>1. e.r \in Nat
    BY <1>9, WordBase DEF Est, Word
  <2>2. f.r = e.r + top /\ f.r + top < B
    BY <1>10, <1>12
  <2> QED BY <1>3, <2>1, <2>2
<1>15. g.q \in Word /\ g.q \in Nat
  BY <1>12, WordBase DEF Est, Word
<1>16. w2 < top => /\ g.q * (top * B + next) <= x * B + u
                   /\ x * B + u < (g.q + 1) * (top * B + next)
  <2> SUFFICES ASSUME w2 < top
               PROVE  /\ g.q * (top * B + next) <= x * B + u
                      /\ x * B + u < (g.q + 1) * (top * B + next)
    OBVIOUS
  <2>1. EstInv(g, x, top, next, u)
    BY <1>13
  <2>2. x * B + u < (g.q + 1) * (top * B + next)
    BY <2>1 DEF EstInv
  <2>3. PICK r \in Nat : x = g.q * top + r /\ g.q * next <= r * B + u
    BY <1>14, <2>1 DEF EstInv
  <2>4. g.q * (top * B + next) <= (g.q * top + r) * B + u
    BY <1>3, <1>15, <2>3, TooLarge
  <2> QED BY <2>2, <2>3, <2>4
<1> QED BY <1>2, <1>4, <1>6, <1>15, <1>16

-----------------------------------------------------------------------------
(* One digit of the quotient                                                *)

\* A quotient of leading words is the quotient or one too large.
LEMMA LeadingQuotient ==
  ASSUME NEW c \in Nat \ {0}, NEW x \in Nat, NEW y \in Nat, NEW dl \in Nat, NEW rl \in Nat,
         NEW q \in Nat, NEW bb \in Nat, dl < c, rl < c, q <= bb, bb <= y, q * y <= x, x < (q + 1) * y
  PROVE  /\ c * x + rl < (q + 1) * (c * y + dl)
         /\ (q - 1) * (c * y + dl) <= c * x + rl
<1>0. q * y \in Int /\ (q + 1) * y \in Int /\ c * x \in Int /\ c * y \in Int /\ q * c \in Int
  BY Times
<1>1. c * (x + 1) <= c * ((q + 1) * y) /\ c * (x + 1) = c * x + c * 1 /\ c * 1 = c
  BY <1>0, TimesMono, Times
<1>2. /\ c * ((q + 1) * y) = (c * (q + 1)) * y /\ c * (q + 1) = (q + 1) * c
      /\ ((q + 1) * c) * y = (q + 1) * (c * y)
  BY Times
<1>3. (q + 1) * (c * y + dl) = (q + 1) * (c * y) + (q + 1) * dl /\ (q + 1) * dl \in Nat
  BY <1>0, Times
<1>4. PICK cx \in Int, p \in Int, s \in Nat :
        cx = c * x /\ p = (q + 1) * (c * y) /\ s = (q + 1) * dl
  BY <1>0, <1>3, Times
<1>5. cx + c <= p /\ (q + 1) * (c * y + dl) = p + s
  BY <1>1, <1>2, <1>3, <1>4
<1>6. c * x + rl < (q + 1) * (c * y + dl)
  BY <1>4, <1>5
<1>7. c * (q * y) <= c * x /\ c * (q * y) = (c * q) * y /\ c * q = q * c /\ (q * c) * y = q * (c * y)
  BY <1>0, TimesMono, Times
<1>8. (q - 1) * (c * y + dl) = q * (c * y + dl) - (c * y + dl)
  <2>1. PICK z \in Int : z = c * y + dl
    BY <1>0
  <2>2. z * (q - 1) = z * q - z * 1 /\ z * 1 = z /\ z * q = q * z /\ z * (q - 1) = (q - 1) * z
    BY Times
  <2> QED BY <2>1, <2>2
<1>9. q * (c * y + dl) = q * (c * y) + q * dl
  BY <1>0, Times
<1>10. q * dl <= q * c /\ c * q <= c * bb /\ c * bb <= c * y /\ c * q = q * c
  BY TimesMono, Times
<1>11. PICK qcy \in Int, cy \in Int, qd \in Int, qc \in Int, cb \in Int :
         qcy = q * (c * y) /\ cy = c * y /\ qd = q * dl /\ qc = q * c /\ cb = c * bb
  BY <1>0, Times
<1>12. qcy <= cx /\ qd <= qc /\ qc <= cb /\ cb <= cy
  BY <1>4, <1>7, <1>10, <1>11
<1>13. (qcy + qd) - (cy + dl) <= cx + rl
  BY <1>12
<1>14. (q - 1) * (c * y + dl) <= c * x + rl
  BY <1>4, <1>8, <1>9, <1>11, <1>13
<1> QED BY <1>6, <1>14

\* x and y are the leading words of the numbers of a step, dl and rl the rest.
Leading(w, dn, len, j, c, dl, rl, x, y) ==
  /\ dl < c /\ rl < c
  /\ y = dn[len - 1] * B + dn[len - 2]
  /\ x = (w[j + len] * B + w[j + len - 1]) * B + w[j + len - 2]
  /\ Part(dn, 0, len) = c * y + dl
  /\ Part(w, j, len + 1) = c * x + rl

\* The leading words of the partial remainder and of the divisor, with what is below them.
LEMMA LeadingWords ==
  ASSUME NEW w, NEW dn, NEW len, NEW j, StepArgs(w, dn, len, j)
  PROVE  \E c \in Nat \ {0}, dl \in Nat, rl \in Nat, x \in Nat, y \in Nat :
           Leading(w, dn, len, j, c, dl, rl, x, y)
<1>1. /\ len \in Nat /\ j \in Nat /\ len - 2 \in Nat /\ len - 2 \in 0 .. 5 /\ j \in Int /\ 0 \in Int
      /\ len - 2 \in 0 .. len - 1 /\ len - 1 \in 0 .. len - 1 /\ len \in 0 .. 4
      /\ (len - 2) + 1 = len - 1 /\ (len - 1) + 1 = len
      /\ j + (len - 2) = j + len - 2 /\ j + (len - 1) = j + len - 1
  BY DEF StepArgs
<1>2. \A k \in 0 .. 4 : k < len - 2 => w[j + k] \in Word /\ dn[0 + k] \in Word
  <2> SUFFICES ASSUME NEW k \in 0 .. 4, k < len - 2 PROVE w[j + k] \in Word /\ dn[0 + k] \in Word
    OBVIOUS
  <2>1. j + k \in 0 .. 4 /\ 0 + k \in 0 .. 3
    BY DEF StepArgs
  <2> QED BY <2>1 DEF StepArgs, Num5, U256
<1>3. \A k \in 0 .. 4 : k <= len => w[j + k] \in Int
  <2> SUFFICES ASSUME NEW k \in 0 .. 4, k <= len PROVE w[j + k] \in Int
    OBVIOUS
  <2>1. j + k \in 0 .. 4
    BY DEF StepArgs
  <2> QED BY <2>1, WordBase DEF StepArgs, Num5, Word
<1>4. PICK c \in Nat \ {0} : c = Base(len - 2) /\ Base(len - 1) = c * B /\ Base(len) = (c * B) * B
  BY <1>1, BaseSucc
<1>5. PICK dl \in Nat, rl \in Nat : /\ dl = Part(dn, 0, len - 2) /\ rl = Part(w, j, len - 2) /\ dl < c /\ rl < c
  <2>1. Part(dn, 0, len - 2) \in Nat /\ Part(dn, 0, len - 2) < Base(len - 2)
    BY <1>1, <1>2, PartBound
  <2>2. Part(w, j, len - 2) \in Nat /\ Part(w, j, len - 2) < Base(len - 2)
    BY <1>1, <1>2, PartBound
  <2> QED BY <1>4, <2>1, <2>2
<1>6. /\ Part(w, j, len - 1) = rl + c * w[j + len - 2] /\ Part(dn, 0, len - 1) = dl + c * dn[len - 2]
      /\ w[j + len - 2] \in Word /\ dn[len - 2] \in Word
  BY <1>1, <1>4, <1>5, StepParts
<1>7. /\ Part(w, j, len) = Part(w, j, len - 1) + (c * B) * w[j + len - 1]
      /\ Part(dn, 0, len) = Part(dn, 0, len - 1) + (c * B) * dn[len - 1]
      /\ w[j + len - 1] \in Word /\ dn[len - 1] \in Word
  BY <1>1, <1>4, StepParts
<1>8. Part(w, j, len + 1) = Part(w, j, len) + ((c * B) * B) * w[j + len] /\ w[j + len] \in Word
  <2>1. Part(w, j, len + 1) = Part(w, j, len) + Base(len) * w[j + len]
    BY <1>1, <1>3, PartSucc
  <2>2. w[j + len] \in Word
    BY DEF StepArgs, Num5
  <2> QED BY <1>4, <2>1, <2>2
<1>9. PICK d1 \in Nat, d2 \in Nat, w0 \in Nat, w1 \in Nat, w2 \in Nat, bb \in Nat :
        /\ d1 = dn[len - 1] /\ d2 = dn[len - 2] /\ w0 = w[j + len] /\ w1 = w[j + len - 1] /\ w2 = w[j + len - 2]
        /\ bb = B
  <2>1. Word \subseteq Nat /\ B \in Nat
    BY WordBase DEF Word
  <2> QED BY <1>6, <1>7, <1>8, <2>1
<1>10. c * (d1 * bb + d2) + dl = (dl + c * d2) + (c * bb) * d1
  <2>1. d1 * bb \in Int /\ c * (d1 * bb + d2) = c * (d1 * bb) + c * d2
    BY Times
  <2>2. d1 * bb = bb * d1 /\ c * (bb * d1) = (c * bb) * d1
    BY Times
  <2>3. PICK p1 \in Int, p2 \in Int : p1 = c * d2 /\ p2 = (c * bb) * d1
    BY Times
  <2>4. c * (d1 * bb + d2) = p2 + p1
    BY <2>1, <2>2, <2>3
  <2> QED BY <2>3, <2>4
<1>11. c * ((w0 * bb + w1) * bb + w2) + rl = ((rl + c * w2) + (c * bb) * w1) + ((c * bb) * bb) * w0
  <2>1. w0 * bb \in Int /\ (w0 * bb + w1) * bb = bb * (w0 * bb + w1) /\ bb * (w0 * bb + w1) = bb * (w0 * bb) + bb * w1
    BY Times
  <2>2. bb * (w0 * bb) = (bb * w0) * bb /\ (bb * w0) * bb = bb * (bb * w0) /\ bb * (bb * w0) = (bb * bb) * w0
    BY Times
  <2>3. PICK s0 \in Int, s1 \in Int : s0 = (bb * bb) * w0 /\ s1 = bb * w1 /\ (w0 * bb + w1) * bb = s0 + s1
    BY <2>1, <2>2, Times
  <2>4. c * ((s0 + s1) + w2) = c * (s0 + s1) + c * w2 /\ c * (s0 + s1) = c * s0 + c * s1
    BY Times
  <2>5. c * s1 = (c * bb) * w1
    BY <2>3, Times
  <2>6. c * s0 = ((c * bb) * bb) * w0
    <3>1. bb * bb \in Int /\ c * ((bb * bb) * w0) = (c * (bb * bb)) * w0 /\ c * (bb * bb) = (c * bb) * bb
      BY Times
    <3> QED BY <2>3, <3>1
  <2>7. PICK p0 \in Int, p1 \in Int, p2 \in Int :
          p0 = ((c * bb) * bb) * w0 /\ p1 = (c * bb) * w1 /\ p2 = c * w2
    BY Times
  <2>8. c * ((w0 * bb + w1) * bb + w2) = (p0 + p1) + p2
    BY <2>3, <2>4, <2>5, <2>6, <2>7
  <2> QED BY <2>7, <2>8
<1>12. (w0 * bb + w1) * bb + w2 \in Nat /\ d1 * bb + d2 \in Nat
  <2>1. w0 * bb + w1 \in Nat /\ d1 * bb \in Nat
    BY Times
  <2>2. (w0 * bb + w1) * bb \in Nat
    BY <2>1, Times
  <2> QED BY <2>1, <2>2
<1>13. Part(dn, 0, len) = c * (d1 * bb + d2) + dl
  BY <1>6, <1>7, <1>9, <1>10
<1>14. Part(w, j, len + 1) = c * ((w0 * bb + w1) * bb + w2) + rl
  BY <1>6, <1>7, <1>8, <1>9, <1>11
<1>15. PICK y \in Nat, x \in Nat : y = d1 * bb + d2 /\ x = (w0 * bb + w1) * bb + w2
  BY <1>12
<1>16. y = dn[len - 1] * B + dn[len - 2] /\ x = (w[j + len] * B + w[j + len - 1]) * B + w[j + len - 2]
  BY <1>9, <1>15
<1>17. Part(dn, 0, len) = c * y + dl /\ Part(w, j, len + 1) = c * x + rl
  BY <1>13, <1>14, <1>15
<1>18. Leading(w, dn, len, j, c, dl, rl, x, y)
  BY <1>5, <1>16, <1>17 DEF Leading
<1> QED BY <1>18

\* The digit is the quotient or one too large.
LEMMA DigitBounds ==
  ASSUME NEW w, NEW dn, NEW len, NEW j, StepArgs(w, dn, len, j), B <= 2 * dn[len - 1], w[j + len] < dn[len - 1]
  PROVE  LET q == Digit(w, dn, len, j)
         IN /\ Part(w, j, len + 1) \in Nat /\ Part(dn, 0, len) \in Nat \ {0}
            /\ Part(w, j, len + 1) < (q + 1) * Part(dn, 0, len)
            /\ (q - 1) * Part(dn, 0, len) <= Part(w, j, len + 1)
<1>1. PICK c \in Nat \ {0}, dl \in Nat, rl \in Nat, x \in Nat, y \in Nat :
           Leading(w, dn, len, j, c, dl, rl, x, y)
  BY LeadingWords
<1>2. PICK q \in Nat : q = Digit(w, dn, len, j) /\ q <= B - 1 /\ q * y <= x /\ x < (q + 1) * y
  <2>1. /\ Digit(w, dn, len, j) \in Word
        /\ Digit(w, dn, len, j) * y <= x /\ x < (Digit(w, dn, len, j) + 1) * y
    BY <1>1, DigitIs DEF Leading
  <2> QED BY <2>1, WordBase DEF Word
<1>3. PICK bb \in Nat \ {0} : bb = B /\ q <= bb /\ bb <= y
  <2>1. len - 1 \in 0 .. 3 /\ len - 2 \in 0 .. 3
    BY DEF StepArgs
  <2>2. PICK t \in Nat, nx \in Nat : t = dn[len - 1] /\ nx = dn[len - 2]
    BY <2>1, WordBase DEF StepArgs, U256, Word
  <2>3. t >= 1
    BY <2>2, WordBase
  <2>4. B * 1 <= B * t /\ B * 1 = B /\ B * t = t * B /\ B * t \in Int /\ B \in Nat \ {0}
    BY <2>3, WordBase, TimesMono, Times
  <2> QED BY <1>1, <1>2, <2>2, <2>4 DEF Leading
<1>4. c * x + rl < (q + 1) * (c * y + dl) /\ (q - 1) * (c * y + dl) <= c * x + rl
  BY <1>1, <1>2, <1>3, LeadingQuotient DEF Leading
<1>5. c * x + rl \in Nat /\ c * y + dl \in Nat \ {0}
  <2>1. c * x \in Nat /\ c * y \in Nat \ {0}
    BY <1>3, Times, TimesPos
  <2> QED BY <2>1
<1> QED BY <1>1, <1>2, <1>4, <1>5 DEF Leading

\* What is left after the subtraction of q times the divisor.
Left(w, dn, len, j, q) ==
  LET m == MulSub(w, dn, len, j, q) IN [m.un EXCEPT ![j + len] = Diff(@, m.borrow, 0)]

\* The words of the divisor form a number below Base(len), those of the dividend one
\* word more.
LEMMA StepNumbers ==
  ASSUME NEW w, NEW dn, NEW len, NEW j, StepArgs(w, dn, len, j)
  PROVE  /\ Part(w, j, len) \in Nat /\ Part(w, j, len) < Base(len) /\ w[j + len] \in Word
         /\ Part(w, j, len + 1) = Part(w, j, len) + Base(len) * w[j + len] /\ Part(w, j, len + 1) \in Nat
         /\ Part(dn, 0, len) \in Nat /\ Part(dn, 0, len) < Base(len)
         /\ Base(len) \in Nat \ {0} /\ len \in 0 .. 4 /\ len \in 0 .. 5 /\ j \in Nat /\ j + len \in 0 .. 4
<1>1. len \in 0 .. 4 /\ len \in 0 .. 5 /\ j \in Nat /\ j + len \in 0 .. 4 /\ len + 1 \in 0 .. 5 /\ len \in Nat
      /\ len \in 2 .. 4
  BY DEF StepArgs
<1>2. \A k \in 0 .. 4 : k <= len => w[j + k] \in Word
  <2> SUFFICES ASSUME NEW k \in 0 .. 4, k <= len PROVE w[j + k] \in Word
    OBVIOUS
  <2>1. j + k \in 0 .. 4
    BY <1>1
  <2> QED BY <2>1 DEF StepArgs, Num5
<1>3. \A k \in 0 .. 4 : k < len => dn[0 + k] \in Word
  <2> SUFFICES ASSUME NEW k \in 0 .. 4, k < len PROVE dn[0 + k] \in Word
    OBVIOUS
  <2>1. 0 + k \in 0 .. 3
    BY <1>1
  <2> QED BY <2>1 DEF StepArgs, U256
<1>4. w[j + len] \in Word /\ Word \subseteq Int
  BY <1>1, <1>2, WordBase DEF Word
<1>5. Part(w, j, len + 1) = Part(w, j, len) + Base(len) * w[j + len]
  <2>1. \A k \in 0 .. 4 : k <= len => w[j + k] \in Int
    BY <1>2, <1>4
  <2>2. j \in Int
    BY <1>1
  <2> QED BY <1>1, <2>1, <2>2, PartSucc
<1>6. Part(w, j, len) \in Nat /\ Part(w, j, len) < Base(len)
  BY <1>1, <1>2, PartBound
<1>7. Part(w, j, len + 1) \in Nat
  BY <1>1, <1>2, PartBound
<1>8. Part(dn, 0, len) \in Nat /\ Part(dn, 0, len) < Base(len)
  BY <1>1, <1>3, PartBound
<1> QED BY <1>1, <1>4, <1>5, <1>6, <1>7, <1>8, BaseSucc

\* The number that the subtraction leaves.
LEMMA LeftIs ==
  ASSUME NEW w, NEW dn, NEW len, NEW j, StepArgs(w, dn, len, j), NEW q \in Word
  PROVE  LET m == MulSub(w, dn, len, j, q)
             v == Left(w, dn, len, j, q)
         IN /\ m.un[j + len] = w[j + len] /\ m.borrow \in Word
            /\ v \in Num5 /\ OnlyChanged(v, w, j, len + 1)
            /\ v[j + len] = (w[j + len] - m.borrow) % B
            /\ Part(v, j, len) = (Part(w, j, len + 1) - q * Part(dn, 0, len)) + Base(len) * (m.borrow - w[j + len])
<1> DEFINE m == MulSub(w, dn, len, j, q)
           v == Left(w, dn, len, j, q)
<1>1. MulSubInv(m, w, dn, j, q, len)
  BY MulSubIs
<1>2. v = [m.un EXCEPT ![j + len] = Diff(m.un[j + len], m.borrow, 0)]
  BY DEF Left
<1> HIDE DEF m, v
<1>3. /\ m.un \in Num5 /\ m.borrow \in Word /\ OnlyChanged(m.un, w, j, len)
      /\ Part(m.un, j, len) = (Part(w, j, len) - q * Part(dn, 0, len)) + Base(len) * m.borrow
  BY <1>1 DEF MulSubInv
<1>4. /\ Part(w, j, len) \in Nat /\ w[j + len] \in Word
      /\ Part(w, j, len + 1) = Part(w, j, len) + Base(len) * w[j + len]
      /\ Part(dn, 0, len) \in Nat /\ Base(len) \in Nat \ {0} /\ len \in 0 .. 5 /\ j \in Nat /\ j + len \in 0 .. 4
  BY StepNumbers
<1>5. PICK k \in 0 .. 4 : k = j + len
  BY <1>4
<1>6. PICK x \in Word, e \in Word : x = w[k] /\ e = m.borrow
  BY <1>3, <1>4, <1>5
<1>7. m.un[k] = x
  BY <1>3, <1>4, <1>5, <1>6 DEF OnlyChanged
<1>8. Diff(x, e, 0) \in Word /\ Diff(x, e, 0) = (x - e) % B
  <2>1. Diff(x, e, 0) \in Word
    BY SubWord
  <2>2. x - e - 0 = x - e
    BY WordBase DEF Word
  <2> QED BY <2>1, <2>2 DEF Diff
<1>9. v \in Num5 /\ v[k] = (x - e) % B /\ \A i \in 0 .. 4 : i # k => v[i] = m.un[i]
  BY <1>2, <1>3, <1>5, <1>6, <1>7, <1>8 DEF Num5
<1>10. OnlyChanged(v, w, j, len + 1)
  BY <1>3, <1>4, <1>5, <1>9 DEF OnlyChanged
<1>11. Part(v, j, len) = Part(m.un, j, len)
  <2>1. \A i \in 0 .. 4 : i < j + len => v[i] = m.un[i]
    BY <1>5, <1>9
  <2>2. j + len <= 5
    BY <1>4
  <2>3. len \in 0 .. 5 /\ j \in Nat
    BY <1>4
  <2> QED BY <2>1, <2>2, <2>3, ChangeAbove, ZenonT(40)
<1>12. PICK pw \in Int, pd \in Int, c \in Int, xi \in Int, ei \in Int, qi \in Int :
         /\ pw = Part(w, j, len) /\ pd = Part(dn, 0, len) /\ c = Base(len) /\ xi = x /\ ei = e /\ qi = q
  <2>1. Word \subseteq Int
    BY WordBase DEF Word
  <2> QED BY <1>4, <2>1
<1>13. ((pw + c * xi) - qi * pd) + c * (ei - xi) = (pw - qi * pd) + c * ei
  <2>1. c * (ei - xi) = c * ei - c * xi
    BY Times
  <2>2. PICK p1 \in Int, p2 \in Int, p3 \in Int : p1 = c * ei /\ p2 = c * xi /\ p3 = qi * pd
    BY Times
  <2>3. ((pw + p2) - p3) + (p1 - p2) = (pw - p3) + p1
    OBVIOUS
  <2> QED BY <2>1, <2>2, <2>3
<1>14. Part(v, j, len) = (Part(w, j, len + 1) - q * Part(dn, 0, len)) + Base(len) * (m.borrow - w[j + len])
  BY <1>3, <1>4, <1>5, <1>6, <1>11, <1>12, <1>13
<1> QED BY <1>3, <1>5, <1>6, <1>7, <1>9, <1>10, <1>14 DEF m, v

\* A subtraction that leaves nothing to take was right.
LEMMA NoBorrow ==
  ASSUME NEW r \in Nat, NEW d \in Nat \ {0}, NEW q \in Nat, NEW p \in Nat, NEW v \in Nat, NEW c \in Nat \ {0},
         d < c, p = (r - q * d) - c * v, r < (q + 1) * d
  PROVE  v = 0 /\ p < d /\ r = p + d * q
<1>1. (q + 1) * d = d * (q + 1) /\ d * (q + 1) = d * q + d * 1 /\ d * 1 = d /\ q * d = d * q
  BY Times
<1>2. PICK x \in Int, y \in Int : x = d * q /\ y = c * v
  BY Times
<1>3. r - x < d /\ p = (r - x) - y
  BY <1>1, <1>2
<1>4. v = 0
  <2> SUFFICES ASSUME v >= 1 PROVE FALSE
    OBVIOUS
  <2>1. c * 1 <= c * v /\ c * 1 = c
    BY TimesMono, Times
  <2> QED BY <1>2, <1>3, <2>1
<1>5. y = 0
  BY <1>2, <1>4, Times
<1> QED BY <1>2, <1>3, <1>4, <1>5

\* One that does was by a digit one too large.
LEMMA WithBorrow ==
  ASSUME NEW r \in Nat, NEW d \in Nat \ {0}, NEW q \in Nat, NEW p \in Nat, NEW k \in Nat \ {0}, NEW c \in Nat \ {0},
         NEW z \in Nat, NEW e \in Nat, d < c, p < c, z < c, p = (r - q * d) + c * k, z + c * e = p + d,
         (q - 1) * d <= r
  PROVE  e = k /\ z < d /\ r = z + d * (q - 1)
<1>1. (q - 1) * d = d * (q - 1) /\ d * (q - 1) = d * q - d * 1 /\ d * 1 = d /\ q * d = d * q
  BY Times
<1>2. PICK x \in Int, y \in Int, u \in Int : x = d * q /\ y = c * k /\ u = c * e
  BY Times
<1>3. p = (r - x) + y /\ z + u = p + d /\ x - d <= r
  BY <1>1, <1>2
<1>4. y >= c
  <2>1. c * 1 <= c * k /\ c * 1 = c
    BY TimesMono, Times
  <2> QED BY <1>2, <2>1
<1>5. r < x
  BY <1>2, <1>3, <1>4
<1>6. c * (e - k) = u - y
  BY <1>2, Times
<1>7. ~(e > k)
  <2> SUFFICES ASSUME e > k PROVE FALSE
    OBVIOUS
  <2>1. c * 1 <= c * (e - k) /\ c * 1 = c
    BY TimesMono, Times
  <2> QED BY <1>2, <1>3, <1>5, <1>6, <2>1
<1>8. ~(e < k)
  <2> SUFFICES ASSUME e < k PROVE FALSE
    OBVIOUS
  <2>1. c * 1 <= c * (k - e) /\ c * 1 = c /\ c * (k - e) = c * k - c * e
    BY TimesMono, Times
  <2> QED BY <1>2, <1>3, <2>1
<1>9. e = k
  BY <1>7, <1>8
<1>10. u = y
  BY <1>2, <1>9
<1>11. z = (r - x) + d
  BY <1>2, <1>3, <1>10
<1> QED BY <1>1, <1>2, <1>5, <1>9, <1>11

\* The two ways a step can go.
LEMMA StepCases ==
  ASSUME NEW s, NEW dn, NEW len, NEW j, StepArgs(s.un, dn, len, j)
  PROVE  LET q == Digit(s.un, dn, len, j)
             m == MulSub(s.un, dn, len, j, q)
             v == Left(s.un, dn, len, j, q)
         IN /\ m.un[j + len] >= m.borrow =>
                 DivideStep(s, dn, len, j) = [un |-> v, q |-> [s.q EXCEPT ![j] = q]]
            /\ ~(m.un[j + len] >= m.borrow) =>
                 DivideStep(s, dn, len, j) = [un |-> AddBack(v, dn, len, j), q |-> [s.q EXCEPT ![j] = q - 1]]
BY DEF DivideStep, Left

\* The numbers of a subtraction that leaves a borrow.
LEMMA Borrowed ==
  ASSUME NEW x \in Word, NEW e \in Word, ~(x >= e)
  PROVE  \E k \in Nat \ {0} : k = e - x /\ (x - e) % B = B - k /\ k <= B - 1
<1>1. PICK xx \in Nat, ee \in Nat, bb \in Nat \ {0} : xx = x /\ ee = e /\ bb = B /\ xx < ee /\ ee <= bb - 1
  BY WordBase DEF Word
<1>2. PICK k \in Nat \ {0} : k = ee - xx /\ k <= bb - 1
  BY <1>1
<1>3. xx - ee = (bb - k) + bb * (-1) /\ bb - k \in Nat /\ bb - k < bb /\ xx - ee \in Int /\ -1 \in Int
  <2>1. bb * (0 - 1) = bb * 0 - bb * 1 /\ bb * 0 = 0 /\ bb * 1 = bb
    BY Times
  <2> QED BY <1>2, <2>1
<1>4. (xx - ee) % bb = bb - k
  BY <1>3, DivModUnique
<1> QED BY <1>1, <1>2, <1>4

\* A step keeps the types, also where the estimate is capped.
LEMMA StepTyped ==
  ASSUME NEW s \in [un : Num5, q : U256], NEW dn, NEW len, NEW j, StepArgs(s.un, dn, len, j),
         B <= 2 * dn[len - 1]
  PROVE  DivideStep(s, dn, len, j) \in [un : Num5, q : U256]
<1> DEFINE w == s.un
           m == MulSub(w, dn, len, j, Digit(w, dn, len, j))
           v == Left(w, dn, len, j, Digit(w, dn, len, j))
           r == DivideStep(s, dn, len, j)
<1>1. PICK q \in Word : q = Digit(w, dn, len, j)
  BY DigitIs
<1>2. /\ m.un[j + len] = w[j + len] /\ m.borrow \in Word /\ v \in Num5
      /\ Part(v, j, len) = (Part(w, j, len + 1) - q * Part(dn, 0, len)) + Base(len) * (m.borrow - w[j + len])
  BY <1>1, LeftIs
<1>3. /\ m.un[j + len] >= m.borrow => r = [un |-> v, q |-> [s.q EXCEPT ![j] = q]]
      /\ ~(m.un[j + len] >= m.borrow) => r = [un |-> AddBack(v, dn, len, j), q |-> [s.q EXCEPT ![j] = q - 1]]
  BY <1>1, StepCases
<1>4. j \in 0 .. 3 /\ s.q \in [0 .. 3 -> Word] /\ s.q \in U256
  BY DEF StepArgs, U256
<1> HIDE DEF w, m, v, r
<1> SUFFICES r \in [un : Num5, q : U256]
  BY DEF r
<1>5. CASE m.un[j + len] >= m.borrow
  BY <1>2, <1>3, <1>4, <1>5 DEF U256
<1>6. CASE ~(m.un[j + len] >= m.borrow)
  <2>1. StepArgs(w, dn, len, j) /\ StepArgs(v, dn, len, j)
    BY <1>2 DEF StepArgs, w
  <2>2. AddBack(v, dn, len, j) \in Num5
    BY <2>1, AddBackIs
  <2>3. w[j + len] \in Word /\ Part(w, j, len + 1) \in Nat /\ Part(dn, 0, len) \in Nat /\ Base(len) \in Nat \ {0}
    BY <2>1, StepNumbers
  <2>4. PICK k \in Nat \ {0} : k = m.borrow - w[j + len]
    BY <1>2, <1>6, <2>3, Borrowed
  <2>5. Part(v, j, len) \in Nat /\ Part(v, j, len) < Base(len)
    BY <2>1, StepNumbers
  <2>6. q \in Nat /\ q <= B - 1
    BY WordBase DEF Word
  <2>7. q # 0
    <3> SUFFICES ASSUME q = 0 PROVE FALSE
      OBVIOUS
    <3>1. PICK p \in Nat, rr \in Nat, d \in Nat, c \in Nat \ {0} :
            p = Part(v, j, len) /\ rr = Part(w, j, len + 1) /\ d = Part(dn, 0, len) /\ c = Base(len) /\ p < c
      BY <2>3, <2>5
    <3>2. p = (rr - q * d) + c * k
      BY <1>2, <2>4, <3>1
    <3>3. q * d = 0
      BY <2>6
    <3>4. c * 1 <= c * k /\ c * 1 = c /\ c * k \in Int
      BY TimesMono, Times
    <3> QED BY <3>1, <3>2, <3>3, <3>4
  <2>8. q - 1 \in Word
    BY <2>6, <2>7, WordBase DEF Word
  <2>9. [s.q EXCEPT ![j] = q - 1] \in U256
    BY <1>4, <2>8 DEF U256
  <2> QED BY <1>3, <1>6, <2>2, <2>9
<1> QED BY <1>5, <1>6

\* What a step computes of the dividend w with the divisor dn.
StepResult(r, w, oldq, dn, len, j) ==
  /\ OnlyChanged(r.un, w, j, len + 1) /\ r.un[j + len] = 0
  /\ Part(r.un, j, len) = Part(w, j, len + 1) % Part(dn, 0, len)
  /\ r.q = [oldq EXCEPT ![j] = Part(w, j, len + 1) \div Part(dn, 0, len)]

\* A step finds the digit: the quotient of the partial remainder, which is left reduced.
LEMMA StepIs ==
  ASSUME NEW s \in [un : Num5, q : U256], NEW dn, NEW len, NEW j, StepArgs(s.un, dn, len, j),
         B <= 2 * dn[len - 1], s.un[j + len] < dn[len - 1]
  PROVE  StepResult(DivideStep(s, dn, len, j), s.un, s.q, dn, len, j)
<1> DEFINE w == s.un
           m == MulSub(w, dn, len, j, Digit(w, dn, len, j))
           v == Left(w, dn, len, j, Digit(w, dn, len, j))
           r == DivideStep(s, dn, len, j)
<1>1. PICK q \in Word : q = Digit(w, dn, len, j)
  BY DigitIs
<1>2. /\ m.un[j + len] = w[j + len] /\ m.borrow \in Word /\ v \in Num5 /\ OnlyChanged(v, w, j, len + 1)
      /\ v[j + len] = (w[j + len] - m.borrow) % B
      /\ Part(v, j, len) = (Part(w, j, len + 1) - q * Part(dn, 0, len)) + Base(len) * (m.borrow - w[j + len])
  BY <1>1, LeftIs
<1>3. /\ m.un[j + len] >= m.borrow => r = [un |-> v, q |-> [s.q EXCEPT ![j] = q]]
      /\ ~(m.un[j + len] >= m.borrow) => r = [un |-> AddBack(v, dn, len, j), q |-> [s.q EXCEPT ![j] = q - 1]]
  BY <1>1, StepCases
<1>4. /\ Part(w, j, len + 1) \in Nat /\ Part(dn, 0, len) \in Nat \ {0}
      /\ Part(w, j, len + 1) < (q + 1) * Part(dn, 0, len)
      /\ (q - 1) * Part(dn, 0, len) <= Part(w, j, len + 1)
  BY <1>1, DigitBounds
<1> HIDE DEF m, v, r
<1>5. StepArgs(w, dn, len, j) /\ StepArgs(v, dn, len, j)
  BY <1>2 DEF StepArgs
<1> SUFFICES StepResult(r, w, s.q, dn, len, j)
  BY DEF r, w
<1> HIDE DEF w
<1>6. /\ w[j + len] \in Word /\ Part(dn, 0, len) < Base(len) /\ Base(len) \in Nat \ {0}
      /\ Part(v, j, len) \in Nat /\ Part(v, j, len) < Base(len) /\ j \in Nat /\ len \in 0 .. 5 /\ j + len \in 0 .. 4
  BY <1>5, StepNumbers
<1>7. PICK p \in Nat, rr \in Nat, d \in Nat \ {0}, c \in Nat \ {0}, qq \in Nat, bb \in Nat \ {0} :
        /\ p = Part(v, j, len) /\ rr = Part(w, j, len + 1) /\ d = Part(dn, 0, len) /\ c = Base(len)
        /\ qq = q /\ bb = B /\ d < c /\ p < c
  <2>1. q \in Nat /\ B \in Nat \ {0}
    BY WordBase DEF Word
  <2> QED BY <1>4, <1>6, <2>1
<1>8. rr < (qq + 1) * d /\ (qq - 1) * d <= rr
  BY <1>4, <1>7
<1>9. CASE m.un[j + len] >= m.borrow
  <2>1. PICK x \in Nat, e \in Nat, u \in Nat : x = w[j + len] /\ e = m.borrow /\ u = x - e /\ u < bb
    <3>1. w[j + len] \in Nat /\ m.borrow \in Nat /\ w[j + len] <= B - 1
      BY <1>2, <1>6, WordBase DEF Word
    <3>2. w[j + len] >= m.borrow
      BY <1>2, <1>9
    <3> QED BY <3>1, <3>2, <1>7
  <2>2. p = (rr - qq * d) - c * u
    <3>1. p = (rr - qq * d) + c * (e - x)
      BY <1>2, <1>7, <2>1
    <3>2. c * (0 - u) = c * 0 - c * u /\ c * 0 = 0 /\ 0 - u = e - x /\ c * u \in Int /\ qq * d \in Int
      BY <2>1, Times
    <3> QED BY <3>1, <3>2
  <2>3. u = 0 /\ p < d /\ rr = p + d * qq
    BY <1>7, <1>8, <2>2, NoBorrow
  <2>4. rr % d = p /\ rr \div d = qq
    BY <2>3, DivModUnique
  <2>5. v[j + len] = 0
    <3>1. u % bb = u
      BY <2>1, SmallMod
    <3> QED BY <1>2, <1>7, <2>1, <2>3, <3>1
  <2>6. r.un = v /\ r.q = [s.q EXCEPT ![j] = q]
    BY <1>3, <1>9
  <2>7. Part(r.un, j, len) = rr % d /\ r.q = [s.q EXCEPT ![j] = rr \div d]
    BY <1>7, <2>4, <2>6
  <2> QED BY <1>2, <1>7, <2>5, <2>6, <2>7 DEF StepResult
<1>10. CASE ~(m.un[j + len] >= m.borrow)
  <2>1. PICK k \in Nat \ {0} : k = m.borrow - w[j + len] /\ (w[j + len] - m.borrow) % B = bb - k /\ k <= bb - 1
    BY <1>2, <1>6, <1>7, <1>10, Borrowed
  <2>2. PICK e \in Nat : /\ AddBack(v, dn, len, j) \in Num5 /\ OnlyChanged(AddBack(v, dn, len, j), v, j, len + 1)
                         /\ Part(AddBack(v, dn, len, j), j, len) + c * e = p + d
                         /\ AddBack(v, dn, len, j)[j + len] = (v[j + len] + e) % B
    BY <1>5, <1>7, AddBackIs
  <2>3. r.un = AddBack(v, dn, len, j) /\ r.q = [s.q EXCEPT ![j] = q - 1]
    BY <1>3, <1>10
  <2>4. StepArgs(r.un, dn, len, j)
    BY <1>5, <2>2, <2>3 DEF StepArgs
  <2>5. PICK z \in Nat : z = Part(r.un, j, len) /\ z < c
    BY <1>7, <2>4, StepNumbers
  <2>6. p = (rr - qq * d) + c * k /\ z + c * e = p + d
    BY <1>2, <1>7, <2>1, <2>2, <2>3, <2>5
  <2>7. e = k /\ z < d /\ rr = z + d * (qq - 1)
    <3>1. d < c /\ p < c /\ z < c /\ p = (rr - qq * d) + c * k /\ z + c * e = p + d /\ (qq - 1) * d <= rr
      BY <1>7, <1>8, <2>5, <2>6
    <3> QED BY <3>1, WithBorrow, SMTT(30)
  <2>8. rr % d = z /\ rr \div d = qq - 1
    BY <2>7, DivModUnique, SMTT(40)
  <2>9. r.un[j + len] = 0
    <3>1. r.un[j + len] = ((bb - k) + e) % bb
      BY <1>2, <1>7, <2>1, <2>2, <2>3
    <3>2. (bb - k) + e = bb
      BY <2>7
    <3>3. bb % bb = 0
      <4>1. bb = 0 + bb * 1
        BY Times
      <4> QED BY <4>1, DivModUnique
    <3> QED BY <3>1, <3>2, <3>3
  <2>10. OnlyChanged(r.un, w, j, len + 1)
    BY <1>2, <2>2, <2>3 DEF OnlyChanged
  <2>11. Part(r.un, j, len) = rr % d /\ r.q = [s.q EXCEPT ![j] = rr \div d]
    BY <1>7, <2>3, <2>5, <2>8
  <2> QED BY <1>7, <2>9, <2>10, <2>11 DEF StepResult
<1> QED BY <1>9, <1>10

-----------------------------------------------------------------------------
(* The loop over the digits                                                 *)

\* The words of a dividend from j on.
LEMMA WordsFrom ==
  ASSUME NEW w \in Num5
  PROVE  /\ Part(w, 0, 5) \in Nat
         /\ \A j \in 0 .. 5 : Part(w, 0, 5) \div Base(j) = Part(w, j, 5 - j) /\ Part(w, j, 5 - j) \in Nat
         /\ \A j \in 0 .. 4 : /\ w[j] \in Nat
                              /\ Part(w, 0, 5) \div Base(j) = w[j] + B * (Part(w, 0, 5) \div Base(j + 1))
<1>0. Word \subseteq Int /\ Word \subseteq Nat
  BY WordBase DEF Word
<1>1. \A j \in 0 .. 5, i \in 0 .. 5 : j + i <= 5 => \A k \in 0 .. 4 : k < i => w[j + k] \in Word
  <2> SUFFICES ASSUME NEW j \in 0 .. 5, NEW i \in 0 .. 5, j + i <= 5, NEW k \in 0 .. 4, k < i PROVE w[j + k] \in Word
    OBVIOUS
  <2>1. j + k \in 0 .. 4
    OBVIOUS
  <2> QED BY <2>1 DEF Num5
<1>2. \A j \in 0 .. 5, i \in 0 .. 5 : j + i <= 5 => Part(w, j, i) \in Nat /\ Part(w, j, i) < Base(i)
  BY <1>1, PartBound
<1>3. \A j \in 0 .. 4 : /\ w[j] \in Word
                        /\ Part(w, 0, j + 1) = Part(w, 0, j) + Base(j) * w[j]
                        /\ Part(w, j, 5 - j) = w[j] + B * Part(w, j + 1, 4 - j)
  <2> SUFFICES ASSUME NEW j \in 0 .. 4
               PROVE  /\ w[j] \in Word
                      /\ Part(w, 0, j + 1) = Part(w, 0, j) + Base(j) * w[j]
                      /\ Part(w, j, 5 - j) = w[j] + B * Part(w, j + 1, 4 - j)
    OBVIOUS
  <2>1. \A k \in 0 .. 4 : k <= j => w[0 + k] \in Int
    <3>1. \A k \in 0 .. 4 : w[k] \in Word
      BY DEF Num5
    <3>2. \A k \in 0 .. 4 : w[k] \in Int
      BY <1>0, <3>1
    <3>3. \A k \in 0 .. 4 : 0 + k = k
      OBVIOUS
    <3> QED BY <3>2, <3>3
  <2>2. Part(w, 0, j + 1) = Part(w, 0, j) + Base(j) * w[0 + j] /\ 0 + j = j
    BY <2>1, PartSucc
  <2>3. \A k \in 0 .. 4 : k <= 4 - j => w[j + k] \in Int
    <3> SUFFICES ASSUME NEW k \in 0 .. 4, k <= 4 - j PROVE w[j + k] \in Int
      OBVIOUS
    <3>1. j + k \in 0 .. 4
      OBVIOUS
    <3> QED BY <3>1, <1>0 DEF Num5
  <2>4. Part(w, j, (4 - j) + 1) = w[j] + B * Part(w, j + 1, 4 - j) /\ (4 - j) + 1 = 5 - j
    <3>1. 4 - j \in 0 .. 4 /\ j \in Int /\ (4 - j) + 1 = 5 - j
      OBVIOUS
    <3> QED BY <2>3, <3>1, PartLow
  <2> QED BY <2>2, <2>4 DEF Num5
<1> DEFINE P(j) == Part(w, 0, 5) = Part(w, 0, j) + Base(j) * Part(w, j, 5 - j)
<1>4. P(0)
  <2>1. Part(w, 0, 0) = 0 /\ 5 - 0 = 5
    BY DEF Part
  <2> QED BY <1>2, <2>1, Bases
<1>5. ASSUME NEW j \in 0 .. 4, P(j) PROVE P(j + 1)
  <2>1. PICK x \in Nat, y \in Int, t \in Nat, c \in Nat \ {0} :
          x = w[j] /\ y = Part(w, 0, j) /\ t = Part(w, j + 1, 4 - j) /\ c = Base(j) /\ Base(j + 1) = c * B
    <3>1. w[j] \in Nat /\ Part(w, 0, j) \in Int /\ Part(w, j + 1, 4 - j) \in Nat
      <4>1. w[j] \in Nat
        BY <1>0, <1>3
      <4>2. 0 \in 0 .. 5 /\ j \in 0 .. 5 /\ 0 + j <= 5 /\ j + 1 \in 0 .. 5 /\ 4 - j \in 0 .. 5 /\ (j + 1) + (4 - j) <= 5
        OBVIOUS
      <4>3. Part(w, 0, j) \in Nat /\ Part(w, j + 1, 4 - j) \in Nat
        BY <1>2, <4>2
      <4> QED BY <4>1, <4>3
    <3>2. Base(j) \in Nat \ {0} /\ Base(j + 1) = Base(j) * B
      BY BaseSucc
    <3> QED BY <3>1, <3>2
  <2>2. Part(w, 0, 5) = y + c * (x + B * t)
    BY <1>3, <1>5, <2>1
  <2>3. B * t \in Int /\ c * (x + B * t) = c * x + c * (B * t) /\ c * (B * t) = (c * B) * t /\ c * x \in Int
    <3>1. B * t \in Int
      BY WordBase, Times
    <3> QED BY <3>1, WordBase, Times
  <2>4. Part(w, 0, 5) = (y + c * x) + (c * B) * t
    <3>1. (c * B) * t \in Int
      BY WordBase, Times
    <3> QED BY <2>2, <2>3, <3>1
  <2>5. 5 - (j + 1) = 4 - j
    OBVIOUS
  <2>6. Part(w, 0, j + 1) = y + c * x
    BY <1>3, <2>1
  <2> QED BY <2>1, <2>4, <2>5, <2>6
<1>6. \A j \in 0 .. 5 : P(j)
  <2> HIDE DEF P
  <2>1. P(1)
    BY <1>4, <1>5
  <2>2. P(2)
    BY <2>1, <1>5
  <2>3. P(3)
    BY <2>2, <1>5
  <2>4. P(4)
    BY <2>3, <1>5
  <2>5. P(5)
    BY <2>4, <1>5
  <2> QED BY <1>4, <2>1, <2>2, <2>3, <2>4, <2>5
<1>7. Part(w, 0, 5) \in Nat
  BY <1>2
<1>8. ASSUME NEW j \in 0 .. 5 PROVE Part(w, 0, 5) \div Base(j) = Part(w, j, 5 - j) /\ Part(w, j, 5 - j) \in Nat
  <2>1. PICK v \in Nat, y \in Nat, t \in Nat, c \in Nat \ {0} :
          v = Part(w, 0, 5) /\ y = Part(w, 0, j) /\ t = Part(w, j, 5 - j) /\ c = Base(j) /\ y < c
    <3>1. Part(w, 0, j) \in Nat /\ Part(w, 0, j) < Base(j)
      BY <1>2
    <3>2. Part(w, j, 5 - j) \in Nat
      BY <1>2
    <3>3. Base(j) \in Nat \ {0}
      BY BaseSucc
    <3> QED BY <1>7, <3>1, <3>2, <3>3
  <2>2. v = y + c * t
    BY <1>6, <2>1
  <2>3. v \div c = t
    BY <2>1, <2>2, DivModUnique
  <2> QED BY <2>1, <2>3
<1>9. ASSUME NEW j \in 0 .. 4
      PROVE  w[j] \in Nat /\ Part(w, 0, 5) \div Base(j) = w[j] + B * (Part(w, 0, 5) \div Base(j + 1))
  <2>1. 5 - (j + 1) = 4 - j /\ j + 1 \in 0 .. 5 /\ j \in 0 .. 5
    OBVIOUS
  <2>2. Part(w, 0, 5) \div Base(j + 1) = Part(w, j + 1, 4 - j)
    BY <1>8, <2>1
  <2>3. Part(w, 0, 5) \div Base(j) = Part(w, j, 5 - j)
    BY <1>8, <2>1
  <2> QED BY <1>0, <1>3, <2>2, <2>3
<1> QED BY <1>7, <1>8, <1>9

\* The state of the long division when the digits from j on are known: the words of
\* the remainder from j on, and the quotient.
LongInv(s, w, dn, len, j) ==
  LET v == Part(w, 0, 5) \div Base(j)
      d == Part(dn, 0, len)
  IN /\ s \in [un : Num5, q : U256]
     /\ \A i \in 0 .. 4 : i < j => s.un[i] = w[i]
     /\ Part(s.un, j, len) = v % d
     /\ Part(s.q, j, 4 - j) = v \div d

\* The next digit.
LEMMA LongStep ==
  ASSUME NEW w, NEW dn, NEW len, NEW j, StepArgs(w, dn, len, j), B <= 2 * dn[len - 1],
         NEW s, LongInv(s, w, dn, len, j + 1), s.un[j + len] < dn[len - 1]
  PROVE  LongInv(DivideStep(s, dn, len, j), w, dn, len, j)
<1> DEFINE r == DivideStep(s, dn, len, j)
           v0 == Part(w, 0, 5) \div Base(j)
           v1 == Part(w, 0, 5) \div Base(j + 1)
<1>0. w \in Num5 /\ len \in 2 .. 4 /\ j \in Nat /\ j \in 0 .. 2 /\ j + len \in 0 .. 4 /\ j \in 0 .. 4 /\ j + 1 \in 0 .. 5
  BY DEF StepArgs
<1>1. /\ s \in [un : Num5, q : U256] /\ \A i \in 0 .. 4 : i < j + 1 => s.un[i] = w[i]
      /\ Part(s.un, j + 1, len) = v1 % Part(dn, 0, len)
      /\ Part(s.q, j + 1, 4 - (j + 1)) = v1 \div Part(dn, 0, len)
  BY DEF LongInv
<1>2. StepArgs(s.un, dn, len, j)
  BY <1>1 DEF StepArgs
<1>3. StepResult(r, s.un, s.q, dn, len, j) /\ r \in [un : Num5, q : U256]
  BY <1>1, <1>2, StepIs, StepTyped
<1>4. v0 \in Nat /\ v1 \in Nat /\ v0 = w[j] + B * v1 /\ w[j] \in Nat
  BY <1>0, WordsFrom
<1>5. Part(dn, 0, len) \in Nat \ {0}
  BY <1>2, DigitBounds
<1> HIDE DEF v0, v1, r
<1>6. PICK d \in Nat \ {0}, x \in Nat, h \in Nat, y \in Nat, z \in Nat :
        /\ d = Part(dn, 0, len) /\ x = w[j] /\ h = v1 /\ y = v1 % Part(dn, 0, len) /\ z = v1 \div Part(dn, 0, len)
        /\ h = y + d * z
  <2>1. v1 % Part(dn, 0, len) \in Nat /\ v1 \div Part(dn, 0, len) \in Nat
        /\ v1 = (v1 % Part(dn, 0, len)) + Part(dn, 0, len) * (v1 \div Part(dn, 0, len))
    <3>1. PICK h \in Nat, d \in Nat \ {0} : h = v1 /\ d = Part(dn, 0, len)
      BY <1>4, <1>5
    <3>2. h % d \in Nat /\ h \div d \in Nat /\ h = (h % d) + d * (h \div d)
      BY DivModIs
    <3> QED BY <3>1, <3>2
  <2> QED BY <1>4, <1>5, <2>1
<1>7. Part(s.un, j, len + 1) = x + B * y
  <2>1. \A k \in 0 .. 4 : k <= len => s.un[j + k] \in Int
    <3> SUFFICES ASSUME NEW k \in 0 .. 4, k <= len PROVE s.un[j + k] \in Int
      OBVIOUS
    <3>1. j + k \in 0 .. 4
      BY <1>0
    <3> QED BY <3>1, <1>1, WordBase DEF Num5, Word
  <2>2. len \in 0 .. 4 /\ j \in Int
    BY <1>0
  <2>3. Part(s.un, j, len + 1) = s.un[j] + B * Part(s.un, j + 1, len)
    BY <2>1, <2>2, PartLow
  <2>4. s.un[j] = w[j]
    BY <1>0, <1>1
  <2> QED BY <1>1, <1>6, <2>3, <2>4
<1>8. PICK p \in Int : p = x + B * y
  BY WordBase, Times
<1>9. v0 = p + d * (B * z)
  <2>1. B * (y + d * z) = B * y + B * (d * z) /\ d * z \in Int /\ B * y \in Int
    <3>1. d * z \in Int /\ B * y \in Int
      BY WordBase, Times
    <3> QED BY <3>1, WordBase, Times
  <2>2. B * (d * z) = (B * d) * z /\ B * d = d * B /\ (d * B) * z = d * (B * z) /\ B * (d * z) \in Int
    <3>1. B * (d * z) = (B * d) * z /\ B * d = d * B /\ (d * B) * z = d * (B * z)
      BY WordBase, Times
    <3> QED BY <2>1, <3>1, WordBase, Times
  <2>3. PICK s1 \in Int, s2 \in Int : s1 = B * y /\ s2 = d * (B * z) /\ B * h = s1 + s2
    BY <1>6, <2>1, <2>2
  <2>4. v0 = x + B * h /\ p = x + s1
    BY <1>4, <1>6, <1>8, <2>3
  <2>5. v0 = p + s2
    BY <2>3, <2>4
  <2> QED BY <2>3, <2>5
<1>10. v0 % d = p % d /\ v0 \div d = (p \div d) + B * z
  <2>1. B * z \in Int
    BY WordBase, Times
  <2> QED BY <1>8, <1>9, <2>1, AddMultiple
<1>11. /\ OnlyChanged(r.un, s.un, j, len + 1) /\ Part(r.un, j, len) = p % d
       /\ r.q = [s.q EXCEPT ![j] = p \div d]
  BY <1>3, <1>6, <1>7, <1>8 DEF StepResult
<1>12. \A i \in 0 .. 4 : i < j => r.un[i] = w[i]
  BY <1>0, <1>1, <1>11 DEF OnlyChanged
<1>13. Part(r.q, j, 4 - j) = (p \div d) + B * z
  <2>1. s.q \in [0 .. 3 -> Word] /\ r.q \in [0 .. 3 -> Word]
    BY <1>1, <1>3 DEF U256
  <2>2. r.q[j] = p \div d /\ \A i \in 0 .. 3 : i # j => r.q[i] = s.q[i]
    BY <1>0, <1>11, <2>1
  <2>3. \A k \in 0 .. 4 : k <= 3 - j => r.q[j + k] \in Int
    <3> SUFFICES ASSUME NEW k \in 0 .. 4, k <= 3 - j PROVE r.q[j + k] \in Int
      OBVIOUS
    <3>1. j + k \in 0 .. 3
      BY <1>0
    <3> QED BY <3>1, <2>1, WordBase DEF Word
  <2>4. 3 - j \in 0 .. 4 /\ j \in Int /\ (3 - j) + 1 = 4 - j /\ 4 - (j + 1) = 3 - j
    BY <1>0
  <2>5. Part(r.q, j, (3 - j) + 1) = r.q[j] + B * Part(r.q, j + 1, 3 - j)
    BY <2>3, <2>4, PartLow
  <2>6. Part(r.q, j + 1, 3 - j) = Part(s.q, j + 1, 3 - j)
    <3>1. \A k \in 0 .. 4 : k < 3 - j => r.q[(j + 1) + k] = s.q[(j + 1) + k]
      <4> SUFFICES ASSUME NEW k \in 0 .. 4, k < 3 - j PROVE r.q[(j + 1) + k] = s.q[(j + 1) + k]
        OBVIOUS
      <4>1. (j + 1) + k \in 0 .. 3 /\ (j + 1) + k # j
        BY <1>0
      <4> QED BY <2>2, <4>1
    <3> QED BY <3>1, PartSame
  <2> QED BY <1>1, <1>6, <2>2, <2>4, <2>5, <2>6
<1>14. LongInv(r, w, dn, len, j)
  BY <1>3, <1>6, <1>10, <1>11, <1>12, <1>13 DEF LongInv, v0
<1> QED BY <1>14 DEF r

-----------------------------------------------------------------------------
(* Normalization                                                            *)

\* bits.LeadingZeros64 of a word that is not zero.
LEMMA LeadingZerosIs ==
  ASSUME NEW x \in Nat \ {0}, x < B
  PROVE  LET s == LeadingZeros(x)
         IN s \in 0 .. W - 1 /\ B <= 2 * x * 2 ^ s /\ x * 2 ^ s < B
<1> DEFINE S == {s \in 0 .. W - 1 : x * 2 ^ s < B}
<1>0. W \in Nat \ {0} /\ W - 1 \in Nat /\ B \in Nat \ {0}
  BY WordBase
<1>1. 0 \in S
  <2>1. 2 ^ 0 = 1
    BY Bases, WordBase DEF Base
  <2> QED BY <1>0, <2>1
<1>2. PICK s \in S : \A k \in S : k <= s
  <2>1. S \in SUBSET (0 .. W - 1) /\ S # {}
    BY <1>1
  <2> HIDE DEF S
  <2> QED BY <1>0, <2>1, MaxNat
<1>3. s \in 0 .. W - 1 /\ x * 2 ^ s < B /\ s \in Nat
  BY <1>0, <1>2
<1>4. PICK t \in Nat : t = 2 ^ s /\ 2 ^ (s + 1) = t + t
  BY <1>3, PowPos, PowSucc
<1>5. (2 * x) * t = x * t + x * t /\ x * (t + t) = x * t + x * t /\ x * t \in Int /\ 2 * x * t = (2 * x) * t
  <2>1. x * (t + t) = x * t + x * t /\ x * t \in Int
    BY Times
  <2>2. (2 * x) * t = t * (2 * x) /\ 2 * x = x + x /\ t * (x + x) = t * x + t * x /\ t * x = x * t
    BY Times
  <2> QED BY <2>1, <2>2
<1>6. B <= x * (t + t)
  <2>1. CASE s = W - 1
    <3>1. s + 1 = W
      BY <1>0, <2>1
    <3>2. t + t = B
      BY <1>4, <3>1 DEF B
    <3>3. B * 1 <= B * x /\ B * 1 = B /\ B * x = x * B
      BY <1>0, TimesMono, Times
    <3> QED BY <3>2, <3>3
  <2>2. CASE s # W - 1
    <3>1. s + 1 \in 0 .. W - 1 /\ ~(s + 1 <= s)
      BY <1>0, <1>3, <2>2
    <3>2. ~(x * 2 ^ (s + 1) < B)
      BY <1>2, <3>1
    <3>3. x * (t + t) \in Int
      BY Times
    <3> QED BY <1>0, <1>4, <3>2, <3>3
  <2> QED BY <2>1, <2>2
<1>7. B <= 2 * x * 2 ^ s
  BY <1>4, <1>5, <1>6
<1> DEFINE P(k) == B <= 2 * x * 2 ^ k /\ x * 2 ^ k < B
<1>8. \E k \in 0 .. W - 1 : P(k)
  BY <1>3, <1>7
<1>9. LeadingZeros(x) = CHOOSE k \in 0 .. W - 1 : P(k)
  BY DEF LeadingZeros
<1> HIDE DEF P
<1>10. LeadingZeros(x) \in 0 .. W - 1 /\ P(LeadingZeros(x))
  BY <1>8, <1>9
<1> QED BY <1>10 DEF P

\* Four words shifted left, with the word that leaves them.
LEMMA ShiftAll ==
  ASSUME NEW x \in U256, NEW s \in 0 .. W, NEW r, \A i \in 0 .. 3 : r[i] = ShiftedLeft(x, s, i)
  PROVE  /\ \A i \in 0 .. 3 : r[i] \in Word
         /\ x[3] \div 2 ^ (W - s) \in Nat
         /\ Val(r) + 2 ^ Bits * (x[3] \div 2 ^ (W - s)) = Val(x) * 2 ^ s
<1> DEFINE t == 2 ^ s
           c(i) == At0(x, i) \div 2 ^ (W - s)
           z == [i \in 0 .. 3 |-> At0(x, i) * t]
<1>1. t \in Nat /\ \A i \in 0 .. 3 : x[i] \in Int /\ At0(x, i) = x[i]
  BY WordSplit, IntsOfWords DEF At0
<1>2. ASSUME NEW i \in 0 .. 3
      PROVE  /\ r[i] \in Word /\ c(i) \in Nat /\ c(i - 1) \in Nat
             /\ z[i] + c(i - 1) = r[i] + B * c(i)
  <2>1. /\ ShiftedLeft(x, s, i) \in Word /\ c(i) \in Nat /\ c(i - 1) \in Nat
        /\ At0(x, i) * 2 ^ s + c(i - 1) = ShiftedLeft(x, s, i) + B * c(i)
    BY ShiftedLeftIs
  <2>2. r[i] = ShiftedLeft(x, s, i) /\ z[i] = At0(x, i) * 2 ^ s
    OBVIOUS
  <2> HIDE DEF c, z
  <2> QED BY <2>1, <2>2
<1>3. c(-1) = 0
  <2>1. At0(x, -1) = 0
    BY DEF At0
  <2>2. PICK u \in Nat \ {0} : u = 2 ^ (W - s)
    BY WordSplit
  <2>3. 0 \div u = 0
    BY SmallMod
  <2> QED BY <2>1, <2>2, <2>3
<1>4. \A i \in 0 .. 3 : z[i] = x[i] * t
  BY <1>1
<1>5. c(3) = x[3] \div 2 ^ (W - s)
  BY <1>1
<1> HIDE DEF t, c, z
<1>6. Ints(z) /\ Val(z) = Val(x) * t
  <2> DEFINE y == [i \in 0 .. 3 |-> 0]
  <2>1. Ints(y) /\ Ints(x) /\ Val(x) \in Nat
    BY IntsOfWords DEF Ints
  <2>2. Val(y) = 0
    BY ValZero DEF LUint256Zero
  <2>3. \A i \in 0 .. 3 : z[i] = y[i] + t * x[i]
    <3> SUFFICES ASSUME NEW i \in 0 .. 3 PROVE z[i] = y[i] + t * x[i]
      OBVIOUS
    <3>1. z[i] = x[i] * t /\ x[i] \in Int /\ t \in Int /\ y[i] = 0
      BY <1>1, <1>4
    <3>2. x[i] * t = t * x[i] /\ t * x[i] \in Int
      BY <3>1, Times
    <3> HIDE DEF y
    <3> QED BY <3>1, <3>2
  <2> HIDE DEF y
  <2>4. Ints(z) /\ Val(z) = Val(y) + t * Val(x)
    <3>1. t \in Int
      BY <1>1
    <3> QED BY <2>1, <2>3, <3>1, ValLinear
  <2>5. t * Val(x) = Val(x) * t /\ t * Val(x) \in Int
    BY <1>1, <2>1, Times
  <2> QED BY <2>2, <2>4, <2>5
<1>7. Ints(r)
  <2>1. Word \subseteq Int
    BY WordBase DEF Word
  <2>2. r[0] \in Word /\ r[1] \in Word /\ r[2] \in Word /\ r[3] \in Word
    BY <1>2
  <2> QED BY <2>1, <2>2 DEF Ints
<1>8. /\ c(0) \in Int /\ c(1) \in Int /\ c(2) \in Int /\ c(3) \in Nat
      /\ Chain(z, r, c(0), c(1), c(2), c(3))
  <2>1. z[0] + c(0 - 1) = r[0] + B * c(0) /\ c(0) \in Nat
    BY <1>2
  <2>2. z[1] + c(1 - 1) = r[1] + B * c(1) /\ c(1) \in Nat
    BY <1>2
  <2>3. z[2] + c(2 - 1) = r[2] + B * c(2) /\ c(2) \in Nat
    BY <1>2
  <2>4. z[3] + c(3 - 1) = r[3] + B * c(3) /\ c(3) \in Nat
    BY <1>2
  <2>5. z[0] + 0 = z[0] /\ 0 - 1 = -1 /\ 1 - 1 = 0 /\ 2 - 1 = 1 /\ 3 - 1 = 2
    BY <1>6 DEF Ints
  <2>6. z[0] = r[0] + B * c(0)
    BY <1>3, <2>1, <2>5
  <2> QED BY <2>1, <2>2, <2>3, <2>4, <2>5, <2>6 DEF Chain
<1>9. Val(z) = Val(r) + 2 ^ Bits * c(3)
  BY <1>6, <1>7, <1>8, ChainSum
<1> QED BY <1>2, <1>5, <1>6, <1>8, <1>9 DEF t

\* A part from the lowest word on is a value.
LEMMA PartVal ==
  ASSUME NEW w, \A i \in 0 .. 3 : w[i] \in Word
  PROVE  /\ Part(w, 0, 4) = Val(w) /\ Val(w) \in Nat
         /\ w[3] = 0 => Part(w, 0, 3) = Val(w)
         /\ w[3] = 0 /\ w[2] = 0 => Part(w, 0, 2) = Val(w)
         /\ w[4] \in Word => Part(w, 0, 5) = Val(w) + 2 ^ Bits * w[4]
<1>1. \A i \in 0 .. 3 : w[i] \in Nat /\ w[i] \in Int
  BY WordBase DEF Word
<1>2. \A i \in 0 .. 3 : Base(i) \in Int
  BY BaseSucc
<1>3. PICK p0 \in Int, p1 \in Int, p2 \in Int, p3 \in Int :
        /\ p0 = w[0] /\ p1 = Base(1) * w[1] /\ p2 = Base(2) * w[2] /\ p3 = Base(3) * w[3]
        /\ w[2] = 0 => p2 = 0
        /\ w[3] = 0 => p3 = 0
  <2>1. Base(1) * w[1] \in Int /\ Base(2) * w[2] \in Int /\ Base(3) * w[3] \in Int
    BY <1>1, <1>2, Times
  <2>2. Base(2) * 0 = 0 /\ Base(3) * 0 = 0
    BY <1>2, Times
  <2> QED BY <1>1, <2>1, <2>2
<1>4. Val(w) = p0 + p1 + p2 + p3
  BY <1>3 DEF Val
<1>5. Base(0) * w[0] = p0
  BY <1>1, <1>3, Bases
<1>6. 0 + 0 = 0 /\ 0 + 1 = 1 /\ 0 + 2 = 2 /\ 0 + 3 = 3 /\ 0 + 4 = 4
  OBVIOUS
<1>7. /\ Part(w, 0, 2) = p0 + p1 + 0 + 0 + 0
      /\ Part(w, 0, 3) = p0 + p1 + p2 + 0 + 0
      /\ Part(w, 0, 4) = p0 + p1 + p2 + p3 + 0
  BY <1>3, <1>5, <1>6 DEF Part
<1>8. Part(w, 0, 5) = p0 + p1 + p2 + p3 + Base(4) * w[4]
  BY <1>3, <1>5, <1>6 DEF Part
<1>9. Part(w, 0, 4) \in Nat
  <2>1. \A k \in 0 .. 4 : k < 4 => w[0 + k] \in Word
    OBVIOUS
  <2> QED BY <2>1, PartBound
<1>10. w[4] \in Word => Part(w, 0, 5) = Val(w) + 2 ^ Bits * w[4]
  BY <1>4, <1>8, Bases
<1> QED BY <1>3, <1>4, <1>7, <1>9, <1>10

\* A divisor of more than one word: its leading word is not zero, the words above are.
LEMMA LongDivisor ==
  ASSUME NEW d \in U256, dLen(d) # 1
  PROVE  /\ dLen(d) \in 2 .. 4
         /\ d[dLen(d) - 1] \in Nat \ {0} /\ d[dLen(d) - 1] < B
         /\ \A i \in 0 .. 3 : i >= dLen(d) => d[i] = 0
<1> DEFINE S == {i \in 0 .. 3 : i = 0 \/ d[i] # 0}
<1>1. S \in SUBSET (0 .. 3) /\ S # {}
  <2>1. 0 \in S
    OBVIOUS
  <2> QED BY <2>1
<1>2. dLen(d) = 1 + Max(S)
  BY DEF dLen
<1> DEFINE m == Max(S)
<1> HIDE DEF S, m
<1>3. m \in S /\ \A k \in S : k <= m
  BY <1>1, MaxOfWords DEF m
<1>4. m \in 0 .. 3 /\ (m = 0 \/ d[m] # 0) /\ dLen(d) = 1 + m
  BY <1>2, <1>3 DEF S, m
<1>5. m \in 1 .. 3 /\ d[m] # 0 /\ dLen(d) \in 2 .. 4 /\ dLen(d) - 1 = m
  BY <1>4
<1>6. d[m] \in Nat /\ d[m] < B
  BY <1>4, Words
<1>7. ASSUME NEW i \in 0 .. 3, i >= dLen(d) PROVE d[i] = 0
  <2>1. ~(i <= m)
    BY <1>4, <1>7
  <2>2. i \notin S
    BY <1>3, <2>1
  <2> QED BY <2>2 DEF S
<1> QED BY <1>5, <1>6, <1>7

\* The words of d above and at the leading word leave no carry.
LEMMA NoCarryOut ==
  ASSUME NEW x \in Nat, NEW s \in 0 .. W, x * 2 ^ s < B
  PROVE  x \div 2 ^ (W - s) = 0 /\ (x * 2 ^ s) % B = x * 2 ^ s /\ x * 2 ^ s \in Nat
<1>1. PICK t \in Nat \ {0}, u \in Nat \ {0} : t = 2 ^ s /\ u = 2 ^ (W - s) /\ B = t * u
  BY WordSplit
<1>2. x * t = t * x /\ x * t \in Nat /\ t * x \in Int /\ t * u \in Int
  BY Times
<1>3. x < u
  <2> SUFFICES ASSUME u <= x PROVE FALSE
    OBVIOUS
  <2>1. t * u <= t * x
    BY TimesMono
  <2> QED BY <1>1, <1>2, <2>1
<1>4. x \div u = 0
  BY <1>3, SmallMod
<1>5. (x * t) % B = x * t
  <2>1. x * t < B /\ B \in Nat \ {0}
    BY <1>1, WordBase
  <2> QED BY <1>2, <2>1, SmallMod
<1> QED BY <1>1, <1>2, <1>4, <1>5

\* A normalized divisor: shifted until the leading word has its highest bit.
LEMMA Normalized ==
  ASSUME NEW d \in U256, NEW len \in 2 .. 4, NEW s \in 0 .. W - 1,
         \A i \in 0 .. 3 : i >= len => d[i] = 0,
         d[len - 1] # 0, B <= 2 * d[len - 1] * 2 ^ s, d[len - 1] * 2 ^ s < B,
         NEW dn, dn = [i \in 0 .. 3 |-> ShiftedLeft(d, s, i)]
  PROVE  /\ dn \in U256
         /\ B <= 2 * dn[len - 1] /\ 2 ^ s <= dn[len - 1]
         /\ Part(dn, 0, len) = Val(d) * 2 ^ s
<1>0. s \in 0 .. W /\ DOMAIN d = 0 .. 3 /\ W \in Nat \ {0} /\ B \in Nat \ {0} /\ len - 1 \in 0 .. 3 /\ len - 2 \in 0 .. 3
  BY WordBase DEF U256
<1>1. PICK x \in Nat \ {0} : x = d[len - 1]
  BY <1>0, Words
<1>2. x \div 2 ^ (W - s) = 0 /\ (x * 2 ^ s) % B = x * 2 ^ s /\ x * 2 ^ s \in Nat
  BY <1>0, <1>1, NoCarryOut
<1>3. PICK t \in Nat \ {0}, u \in Nat \ {0} : t = 2 ^ s /\ u = 2 ^ (W - s)
  BY <1>0, WordSplit
<1>4. 0 \div u = 0 /\ 0 * t = 0 /\ 0 % B = 0
  BY <1>0, SmallMod
<1>5. \A i \in 0 .. 3 : i >= len - 1 => d[i] \div u = 0
  <2> SUFFICES ASSUME NEW i \in 0 .. 3, i >= len - 1 PROVE d[i] \div u = 0
    OBVIOUS
  <2>1. i = len - 1 \/ i >= len
    OBVIOUS
  <2>2. CASE i = len - 1
    BY <1>1, <1>2, <1>3, <2>2
  <2>3. CASE i >= len
    BY <1>4, <2>3
  <2> QED BY <2>1, <2>2, <2>3
<1>6. \A i \in 0 .. 3 : i >= len => dn[i] = 0
  <2> SUFFICES ASSUME NEW i \in 0 .. 3, i >= len PROVE dn[i] = 0
    OBVIOUS
  <2>1. i - 1 \in 0 .. 3 /\ i - 1 >= len - 1
    OBVIOUS
  <2>2. d[i - 1] \div u = 0 /\ d[i] = 0
    BY <1>5, <2>1
  <2>3. ShiftedLeft(d, s, i) = ((d[i] * t) % B) + (d[i - 1] \div u)
    BY <1>0, <1>3, <2>1 DEF ShiftedLeft
  <2> QED BY <1>4, <2>2, <2>3
<1>7. /\ \A i \in 0 .. 3 : dn[i] \in Word
      /\ Val(dn) + 2 ^ Bits * (d[3] \div u) = Val(d) * t
  <2>1. \A i \in 0 .. 3 : dn[i] = ShiftedLeft(d, s, i)
    OBVIOUS
  <2> QED BY <1>0, <1>3, <2>1, ShiftAll
<1>8. dn \in U256
  BY <1>7 DEF U256
<1>9. Val(dn) = Val(d) * t
  <2>1. d[3] \div u = 0
    <3>1. 3 \in 0 .. 3 /\ 3 >= len - 1
      OBVIOUS
    <3> QED BY <1>5, <3>1
  <2>2. 2 ^ Bits * 0 = 0 /\ Val(dn) \in Int
    BY <1>8, Bases, IntsOfWords
  <2> QED BY <1>7, <2>1, <2>2
<1>10. Part(dn, 0, len) = Val(dn)
  <2>1. /\ Part(dn, 0, 4) = Val(dn)
        /\ dn[3] = 0 => Part(dn, 0, 3) = Val(dn)
        /\ dn[3] = 0 /\ dn[2] = 0 => Part(dn, 0, 2) = Val(dn)
    BY <1>7, PartVal
  <2>2. len = 2 \/ len = 3 \/ len = 4
    OBVIOUS
  <2>3. CASE len = 2
    BY <1>6, <2>1, <2>3
  <2>4. CASE len = 3
    BY <1>6, <2>1, <2>4
  <2>5. CASE len = 4
    BY <2>1, <2>5
  <2> QED BY <2>2, <2>3, <2>4, <2>5
<1>11. PICK c \in Nat : dn[len - 1] = x * t + c
  <2>1. (len - 1) - 1 = len - 2
    OBVIOUS
  <2>2. ShiftedLeft(d, s, len - 1) = ((d[len - 1] * t) % B) + (d[len - 2] \div u)
    BY <1>0, <1>3, <2>1 DEF ShiftedLeft
  <2>3. dn[len - 1] = ShiftedLeft(d, s, len - 1)
    BY <1>0
  <2>4. d[len - 2] \in Nat
    BY <1>0, Words
  <2>5. d[len - 2] \div u \in Nat
    BY <2>4, DivModIs
  <2> QED BY <1>1, <1>2, <1>3, <2>2, <2>3, <2>5
<1>12. PICK y \in Nat : y = x * t /\ t <= y /\ 2 * x * t = y + y
  <2>1. x * t \in Nat \ {0} /\ t <= x * t
    BY TimesPos
  <2>2. (x + x) * t = t * (x + x) /\ t * (x + x) = t * x + t * x /\ t * x = x * t
    BY Times
  <2>3. 2 * x = x + x
    OBVIOUS
  <2> QED BY <2>1, <2>2, <2>3
<1>13. B <= y + y
  BY <1>1, <1>3, <1>12
<1>14. B <= 2 * dn[len - 1] /\ 2 ^ s <= dn[len - 1]
  BY <1>0, <1>3, <1>11, <1>12, <1>13
<1> QED BY <1>3, <1>8, <1>9, <1>10, <1>14

\* The shifted dividend, in five words.
LEMMA ShiftedDividend ==
  ASSUME NEW x \in U256, NEW s \in 0 .. W - 1, NEW w, w = [i \in 0 .. 4 |-> ShiftedLeft(x, s, i)]
  PROVE  w \in Num5 /\ w[4] < 2 ^ s /\ Part(w, 0, 5) = Val(x) * 2 ^ s
<1>0. s \in 0 .. W /\ DOMAIN x = 0 .. 3 /\ W \in Nat \ {0} /\ B \in Nat \ {0}
  BY WordBase DEF U256
<1>1. PICK t \in Nat \ {0}, u \in Nat \ {0} : t = 2 ^ s /\ u = 2 ^ (W - s) /\ B = t * u
  BY <1>0, WordSplit
<1>2. PICK y \in Nat : y = x[3] /\ y < B
  BY Words
<1>3. PICK h \in Nat : h = y \div u
  BY DivModIs
<1>4. w[4] = h
  <2>1. ShiftedLeft(x, s, 4) = 0 + h
    <3>1. 4 - 1 = 3 /\ 4 \notin 0 .. 3 /\ 3 \in 0 .. 3
      OBVIOUS
    <3> QED BY <1>0, <1>1, <1>2, <1>3, <3>1 DEF ShiftedLeft
  <2>2. w[4] = ShiftedLeft(x, s, 4)
    OBVIOUS
  <2> QED BY <1>3, <2>1, <2>2
<1>5. h < t /\ t <= B
  <2>1. y % u \in Nat /\ y = (y % u) + u * (y \div u)
    BY DivModIs
  <2>2. h < t
    <3> SUFFICES ASSUME t <= h PROVE FALSE
      OBVIOUS
    <3>1. u * t <= u * h /\ u * t = t * u /\ u * t \in Int /\ u * h \in Int
      BY TimesMono, Times
    <3> QED BY <1>1, <1>2, <1>3, <2>1, <3>1
  <2>3. t <= t * u
    BY TimesPos
  <2> QED BY <1>1, <2>2, <2>3
<1>6. h \in Word
  BY <1>0, <1>5 DEF Word
<1>7. /\ \A i \in 0 .. 3 : w[i] \in Word
      /\ Val(w) + 2 ^ Bits * (x[3] \div 2 ^ (W - s)) = Val(x) * 2 ^ s
  <2>1. \A i \in 0 .. 3 : w[i] = ShiftedLeft(x, s, i)
    OBVIOUS
  <2> QED BY <1>0, <2>1, ShiftAll
<1>8. w \in Num5
  <2>1. \A i \in 0 .. 4 : w[i] \in Word
    <3> SUFFICES ASSUME NEW i \in 0 .. 4 PROVE w[i] \in Word
      OBVIOUS
    <3>1. i = 4 \/ i \in 0 .. 3
      OBVIOUS
    <3> QED BY <1>4, <1>6, <1>7, <3>1
  <2> QED BY <2>1 DEF Num5
<1>9. Part(w, 0, 5) = Val(w) + 2 ^ Bits * w[4]
  BY <1>4, <1>6, <1>7, PartVal
<1> QED BY <1>1, <1>2, <1>3, <1>4, <1>5, <1>7, <1>8, <1>9

-----------------------------------------------------------------------------
(* u256KnuthD                                                               *)

\* The loop of u256KnuthD: the state after each digit.
Long(w, dn, len) ==
  LET f[k \in 0 .. 5 - len] ==
        IF k = 0 THEN [un |-> w, q |-> LUint256Zero]
        ELSE DivideStep(f[k - 1], dn, len, 5 - len - k)
  IN f

\* The loop runs one step for each digit, and every state of it is typed.
LEMMA LongIs ==
  ASSUME NEW w \in Num5, NEW dn \in U256, NEW len \in 2 .. 4, B <= 2 * dn[len - 1]
  PROVE  LET f == Long(w, dn, len)
         IN /\ f[0] = [un |-> w, q |-> LUint256Zero]
            /\ \A k \in 0 .. 4 - len : f[k + 1] = DivideStep(f[k], dn, len, 4 - len - k)
            /\ \A k \in 0 .. 5 - len : f[k] \in [un : Num5, q : U256]
<1> DEFINE S == [un : Num5, q : U256]
           m == 5 - len
           x0 == [un |-> w, q |-> LUint256Zero]
           g == [z \in S \X (1 .. m) |-> DivideStep(z[1], dn, len, m - z[2])]
           Is(F) == F = [k \in 0 .. m |-> IF k = 0 THEN x0 ELSE DivideStep(F[k - 1], dn, len, m - k)]
<1>0. m \in 1 .. 3 /\ m \in Nat /\ m = 5 - len /\ 4 - len = m - 1
  OBVIOUS
<1>1. x0 \in S
  BY ValZero
<1>2. ASSUME NEW p \in S, NEW k \in 1 .. m PROVE DivideStep(p, dn, len, m - k) \in S
  <2>1. m - k \in 0 .. 4 - len
    OBVIOUS
  <2>2. StepArgs(p.un, dn, len, m - k)
    BY <2>1 DEF StepArgs
  <2> QED BY <2>2, StepTyped
<1>3. g \in [S \X (1 .. m) -> S]
  <2> HIDE DEF S, m
  <2> QED BY <1>2
<1>4. \A p \in S, k \in 1 .. m : g[<<p, k>>] = DivideStep(p, dn, len, m - k)
  <2> HIDE DEF S, m
  <2> QED OBVIOUS
<1> DEFINE f == CHOOSE G : Is(G)
<1>9. Long(w, dn, len) = f
  BY DEF Long
<1> HIDE DEF S, g, x0, m
<1>5. PICK F \in [0 .. m -> S] : Solves(F, m, x0, g)
  BY <1>0, <1>1, <1>3, Recursion
<1>6. \A k \in 0 .. m : F[k] = IF k = 0 THEN x0 ELSE DivideStep(F[k - 1], dn, len, m - k)
  <2> SUFFICES ASSUME NEW k \in 0 .. m, k # 0 PROVE F[k] = DivideStep(F[k - 1], dn, len, m - k)
    BY <1>5 DEF Solves
  <2>1. k - 1 \in 0 .. m /\ k \in 1 .. m
    BY <1>0
  <2>2. F[k] = g[<<F[k - 1], k>>] /\ F[k - 1] \in S
    BY <1>5, <2>1 DEF Solves
  <2> QED BY <1>4, <2>1, <2>2
<1>7. Is(F)
  BY <1>6
<1>8. Is(f)
  <2> HIDE DEF Is
  <2> QED BY <1>7
<1> HIDE DEF f
<1>10. f[0] = x0
  BY <1>0, <1>8
<1>11. ASSUME NEW k \in 0 .. m - 1 PROVE f[k + 1] = DivideStep(f[k], dn, len, m - (k + 1))
  <2>1. k + 1 \in 0 .. m /\ k + 1 # 0 /\ (k + 1) - 1 = k
    BY <1>0
  <2>2. f[k + 1] = DivideStep(f[(k + 1) - 1], dn, len, m - (k + 1))
    BY <1>8, <2>1
  <2> QED BY <2>1, <2>2
<1> HIDE DEF Is
<1> DEFINE T == {k \in 0 .. m : f[k] \in S}
<1>12. 0 \in T
  BY <1>0, <1>1, <1>10
<1>13. ASSUME NEW k \in 0 .. m - 1, k \in T PROVE k + 1 \in T
  <2>1. k + 1 \in 1 .. m /\ k + 1 \in 0 .. m
    BY <1>0
  <2>2. DivideStep(f[k], dn, len, m - (k + 1)) \in S
    BY <1>2, <1>13, <2>1
  <2> QED BY <1>11, <2>1, <2>2
<1>14. 0 .. m \subseteq T
  <2> HIDE DEF T
  <2> QED BY <1>0, <1>12, <1>13, IntervalInduction
<1>15. \A k \in 0 .. 4 - len : f[k + 1] = DivideStep(f[k], dn, len, 4 - len - k)
  <2> SUFFICES ASSUME NEW k \in 0 .. 4 - len PROVE f[k + 1] = DivideStep(f[k], dn, len, 4 - len - k)
    OBVIOUS
  <2>1. k \in 0 .. m - 1 /\ m - (k + 1) = 4 - len - k
    BY <1>0
  <2> QED BY <1>11, <2>1
<1>16. \A k \in 0 .. m : f[k] \in S
  BY <1>14
<1> QED BY <1>0, <1>9, <1>10, <1>15, <1>16 DEF x0, S

\* The leading word of a part.
LEMMA LeadingOfPart ==
  ASSUME NEW w, NEW j \in Int, NEW i \in 0 .. 4, \A k \in 0 .. 4 : k <= i => w[j + k] \in Word
  PROVE  Part(w, j, i + 1) \div Base(i) = w[j + i] /\ Part(w, j, i + 1) \in Nat
<1>1. \A k \in 0 .. 4 : k <= i => w[j + k] \in Int
  BY WordBase DEF Word
<1>2. Part(w, j, i + 1) = Part(w, j, i) + Base(i) * w[j + i] /\ w[j + i] \in Int
  BY <1>1, PartSucc
<1>3. Part(w, j, i) \in Nat /\ Part(w, j, i) < Base(i)
  <2>1. i \in 0 .. 5 /\ \A k \in 0 .. 4 : k < i => w[j + k] \in Word
    OBVIOUS
  <2> QED BY <2>1, PartBound
<1>4. Part(w, j, i + 1) \in Nat
  <2>1. i + 1 \in 0 .. 5 /\ \A k \in 0 .. 4 : k < i + 1 => w[j + k] \in Word
    OBVIOUS
  <2> QED BY <2>1, PartBound
<1>5. PICK c \in Nat \ {0}, x \in Int, p \in Nat, v \in Nat :
        c = Base(i) /\ x = w[j + i] /\ p = Part(w, j, i) /\ v = Part(w, j, i + 1) /\ p < c /\ v = p + c * x
  <2>1. Base(i) \in Nat \ {0}
    BY BaseSucc
  <2> QED BY <1>2, <1>3, <1>4, <2>1
<1>6. v \div c = x
  BY <1>5, DivModUnique, SMTT(40)
<1> QED BY <1>4, <1>5, <1>6

\* No leading word of a partial remainder reaches that of the divisor.
Below(w, dn, len) ==
  \A j \in 0 .. 4 - len :
    ((Part(w, 0, 5) \div Base(j + 1)) % Part(dn, 0, len)) \div Base(len - 1)
      < Part(dn, 0, len) \div Base(len - 1)

\* Then the digit at j can be estimated.
LEMMA LongEstimable ==
  ASSUME NEW w, NEW dn, NEW len, NEW j, StepArgs(w, dn, len, j), Below(w, dn, len),
         NEW s, LongInv(s, w, dn, len, j + 1)
  PROVE  s.un[j + len] < dn[len - 1]
<1>0. /\ len \in 2 .. 4 /\ j \in 0 .. 4 - len /\ dn \in U256 /\ len - 1 \in 0 .. 4 /\ (len - 1) + 1 = len
      /\ j + 1 \in Int /\ (j + 1) + (len - 1) = j + len /\ 0 \in Int /\ 0 + (len - 1) = len - 1
  BY DEF StepArgs
<1>1. Part(s.un, j + 1, len) = (Part(w, 0, 5) \div Base(j + 1)) % Part(dn, 0, len) /\ s.un \in Num5
  BY DEF LongInv
<1>2. Part(s.un, j + 1, len) \div Base(len - 1) < Part(dn, 0, len) \div Base(len - 1)
  BY <1>0, <1>1 DEF Below
<1>3. \A k \in 0 .. 4 : k <= len - 1 => s.un[(j + 1) + k] \in Word
  <2> SUFFICES ASSUME NEW k \in 0 .. 4, k <= len - 1 PROVE s.un[(j + 1) + k] \in Word
    OBVIOUS
  <2>1. (j + 1) + k \in 0 .. 4
    BY <1>0
  <2> QED BY <1>1, <2>1 DEF Num5
<1>4. \A k \in 0 .. 4 : k <= len - 1 => dn[0 + k] \in Word
  <2> SUFFICES ASSUME NEW k \in 0 .. 4, k <= len - 1 PROVE dn[0 + k] \in Word
    OBVIOUS
  <2>1. 0 + k \in 0 .. 3
    BY <1>0
  <2> QED BY <1>0, <2>1 DEF U256
<1>5. Part(s.un, j + 1, (len - 1) + 1) \div Base(len - 1) = s.un[(j + 1) + (len - 1)]
  BY <1>0, <1>3, LeadingOfPart
<1>6. Part(dn, 0, (len - 1) + 1) \div Base(len - 1) = dn[0 + (len - 1)]
  BY <1>0, <1>4, LeadingOfPart
<1> QED BY <1>0, <1>2, <1>5, <1>6

\* Before the first digit: the words above the dividend's first len are below the divisor.
LEMMA LongStart ==
  ASSUME NEW w \in Num5, NEW dn \in U256, NEW len \in 2 .. 4, w[4] < dn[len - 1]
  PROVE  LongInv([un |-> w, q |-> LUint256Zero], w, dn, len, 5 - len)
<1> DEFINE j == 5 - len
           s == [un |-> w, q |-> LUint256Zero]
           v == Part(w, 0, 5) \div Base(j)
           d == Part(dn, 0, len)
<1>0. j \in 1 .. 3 /\ j \in 0 .. 5 /\ 5 - j = len /\ len \in 1 .. 4 /\ len - 1 \in 0 .. 4 /\ len - 1 \in Nat /\ len \in 0 .. 5
      /\ 4 - j = len - 1 /\ j + (len - 1) = 4 /\ (len - 1) + 1 = len /\ 0 + (len - 1) = len - 1 /\ j \in Int /\ 0 \in Int
  OBVIOUS
<1>1. v = Part(w, j, len) /\ v \in Nat
  BY <1>0, WordsFrom
<1>2. \A k \in 0 .. 4 : k <= len - 1 => w[j + k] \in Word
  <2> SUFFICES ASSUME NEW k \in 0 .. 4, k <= len - 1 PROVE w[j + k] \in Word
    OBVIOUS
  <2>1. j + k \in 0 .. 4
    OBVIOUS
  <2> QED BY <2>1 DEF Num5
<1>3. \A k \in 0 .. 4 : k <= len - 1 => dn[0 + k] \in Word
  <2> SUFFICES ASSUME NEW k \in 0 .. 4, k <= len - 1 PROVE dn[0 + k] \in Word
    OBVIOUS
  <2>1. 0 + k \in 0 .. 3
    OBVIOUS
  <2> QED BY <2>1 DEF U256
<1> HIDE DEF j, s, v, d
<1>4. v \div Base(len - 1) = w[4] /\ w[4] \in Nat
  <2>1. Part(w, j, (len - 1) + 1) \div Base(len - 1) = w[j + (len - 1)]
    BY <1>0, <1>2, LeadingOfPart
  <2>2. w[4] \in Nat
    BY WordBase DEF Num5, Word
  <2> QED BY <1>0, <1>1, <2>1, <2>2
<1>5. d \div Base(len - 1) = dn[len - 1] /\ d \in Nat /\ dn[len - 1] \in Nat
  <2>1. Part(dn, 0, (len - 1) + 1) \div Base(len - 1) = dn[0 + (len - 1)] /\ Part(dn, 0, (len - 1) + 1) \in Nat
    BY <1>0, <1>3, LeadingOfPart
  <2>2. dn[len - 1] \in Nat
    BY <1>0, Words
  <2> QED BY <1>0, <2>1, <2>2 DEF d
<1>6. v < d
  <2>1. PICK c \in Nat \ {0}, x \in Nat, y \in Nat, vv \in Nat, dd \in Nat :
          c = Base(len - 1) /\ x = v \div c /\ y = d \div c /\ x < y /\ vv = v /\ dd = d
    BY <1>0, <1>1, <1>4, <1>5, BaseSucc
  <2>2. vv % c < c /\ vv = (vv % c) + c * x /\ dd = (dd % c) + c * y /\ dd % c \in Nat /\ vv % c \in Nat
    <3>1. x = vv \div c /\ y = dd \div c
      BY <2>1
    <3>2. vv % c < c /\ vv = (vv % c) + c * (vv \div c) /\ vv % c \in Nat
      BY DivModIs
    <3>3. dd = (dd % c) + c * (dd \div c) /\ dd % c \in Nat
      BY DivModIs
    <3> QED BY <3>1, <3>2, <3>3
  <2>3. c * (x + 1) <= c * y /\ c * (x + 1) = c * x + c * 1 /\ c * 1 = c /\ c * x \in Int /\ c * y \in Int
    BY <2>1, TimesMono, Times
  <2> QED BY <2>1, <2>2, <2>3
<1>7. v % d = v /\ v \div d = 0
  <2>1. d \in Nat \ {0}
    BY <1>1, <1>5, <1>6
  <2> QED BY <1>1, <1>6, <2>1, SmallMod
<1>8. Part(s.q, j, 4 - j) = 0
  <2>1. \A k \in 0 .. 4 : k < len - 1 => LUint256Zero[j + k] = 0
    <3> SUFFICES ASSUME NEW k \in 0 .. 4, k < len - 1 PROVE LUint256Zero[j + k] = 0
      OBVIOUS
    <3>1. j + k \in 0 .. 3
      BY <1>0 DEF j
    <3> QED BY <3>1 DEF LUint256Zero
  <2>2. \A k \in 0 .. 4 : Base(k) * 0 = 0
    <3> SUFFICES ASSUME NEW k \in 0 .. 4 PROVE Base(k) * 0 = 0
      OBVIOUS
    <3>1. Base(k) \in Int
      BY BaseSucc
    <3> QED BY <3>1, Times
  <2>3. \A k \in 0 .. 4 : k < len - 1 => Base(k) * LUint256Zero[j + k] = 0
    BY <2>1, <2>2
  <2>4. Part(LUint256Zero, j, len - 1) = 0
    BY <2>3 DEF Part
  <2>5. s.q = LUint256Zero
    BY DEF s
  <2> QED BY <1>0, <2>4, <2>5
<1>9. s \in [un : Num5, q : U256] /\ s.un = w
  BY ValZero DEF s
<1>10. LongInv(s, w, dn, len, j)
  BY <1>1, <1>7, <1>8, <1>9 DEF LongInv, v, d
<1> QED BY <1>10 DEF s, j

\* The whole loop, when every digit can be estimated.
LEMMA LongDivides ==
  ASSUME NEW w \in Num5, NEW dn \in U256, NEW len \in 2 .. 4, B <= 2 * dn[len - 1],
         w[4] < dn[len - 1], Below(w, dn, len)
  PROVE  LongInv(Long(w, dn, len)[5 - len], w, dn, len, 0)
<1> DEFINE f == Long(w, dn, len)
           m == 5 - len
           T == {k \in 0 .. m : LongInv(f[k], w, dn, len, m - k)}
<1>0. m \in 1 .. 3 /\ m \in Nat /\ m - 0 = m /\ 4 - len = m - 1 /\ m - m = 0
  OBVIOUS
<1>1. /\ f[0] = [un |-> w, q |-> LUint256Zero]
      /\ \A k \in 0 .. m - 1 : f[k + 1] = DivideStep(f[k], dn, len, m - 1 - k)
  BY <1>0, LongIs
<1>2. LongInv(f[0], w, dn, len, m)
  BY <1>1, LongStart
<1> HIDE DEF f
<1>3. 0 \in T
  BY <1>0, <1>2
<1>4. ASSUME NEW k \in 0 .. m - 1, k \in T PROVE k + 1 \in T
  <2>1. PICK j \in 0 .. 4 - len : j = m - 1 - k /\ j + 1 = m - k /\ j = m - (k + 1) /\ k + 1 \in 0 .. m
    OBVIOUS
  <2>2. StepArgs(w, dn, len, j)
    BY DEF StepArgs
  <2>3. LongInv(f[k], w, dn, len, j + 1)
    BY <1>4, <2>1
  <2>4. f[k].un[j + len] < dn[len - 1]
    BY <2>2, <2>3, LongEstimable
  <2>5. LongInv(DivideStep(f[k], dn, len, j), w, dn, len, j)
    BY <2>2, <2>3, <2>4, LongStep
  <2>6. f[k + 1] = DivideStep(f[k], dn, len, j)
    BY <1>1, <2>1
  <2> QED BY <2>1, <2>5, <2>6
<1>5. 0 .. m \subseteq T
  <2> HIDE DEF T, m
  <2> QED BY <1>0, <1>3, <1>4, IntervalInduction
<1>6. m \in T
  BY <1>0, <1>5
<1>7. LongInv(f[m], w, dn, len, 0)
  BY <1>0, <1>6
<1> QED BY <1>7 DEF f

\* The quotient and the remainder of two numbers that are shifted alike.
ShiftedAlike(x, d, t) ==
  /\ d * t \in Nat \ {0}
  /\ (x * t) \div (d * t) = x \div d
  /\ (x * t) % (d * t) = (x % d) * t

\* A shift leaves the quotient, and shifts the remainder.
LEMMA ShiftedDivision ==
  ASSUME NEW x \in Nat, NEW d \in Nat \ {0}, NEW t \in Nat \ {0}
  PROVE  ShiftedAlike(x, d, t)
<1>1. PICK r \in Nat, q \in Nat : r = x % d /\ q = x \div d /\ r < d /\ x = r + d * q
  <2>1. x % d \in Nat /\ x \div d \in Nat /\ x % d < d /\ x = (x % d) + d * (x \div d)
    BY DivModIs
  <2> QED BY <2>1
<1>2. PICK z \in Nat \ {0} : z = d * t
  BY TimesPos
<1>3. t * x = t * r + t * (d * q) /\ t * (d * q) = (t * d) * q /\ t * d = d * t /\ x * t = t * x /\ r * t = t * r /\ t * r \in Nat
  BY <1>1, Times
<1>4. x * t = r * t + z * q /\ x * t \in Int /\ r * t \in Nat
  BY <1>2, <1>3, Times
<1>5. r * t < z
  <2>1. t * (r + 1) <= t * d /\ t * (r + 1) = t * r + t * 1 /\ t * 1 = t /\ t * d \in Int
    BY <1>1, TimesMono, Times
  <2> QED BY <1>2, <1>3, <2>1
<1>6. (x * t) % z = r * t /\ (x * t) \div z = q
  BY <1>4, <1>5, DivModUnique
<1> QED BY <1>1, <1>2, <1>6 DEF ShiftedAlike

\* The lowest words of a number, shifted right.
LEMMA LeftShifted ==
  ASSUME NEW w \in Num5, NEW len \in 2 .. 4, NEW s \in 0 .. W - 1,
         NEW v, v = [i \in 0 .. len - 1 |-> w[i]],
         NEW r, r = [i \in 0 .. 3 |-> ShiftedRight(v, s, i)]
  PROVE  r \in U256 /\ Val(r) = Part(w, 0, len) \div 2 ^ s /\ Part(w, 0, len) \in Nat
<1> DEFINE x == [i \in 0 .. 3 |-> IF i < len THEN w[i] ELSE 0]
<1>0. W \in Nat \ {0} /\ 0 \in Word /\ B \in Nat \ {0} /\ s \in Nat /\ s < W /\ s \in 0 .. W /\ Bits \in Nat /\ s < Bits
  BY WordBase DEF Word
<1>1. \A i \in 0 .. 3 : w[i] \in Word
  BY DEF Num5
<1>2. x \in U256
  BY <1>0, <1>1 DEF U256
<1>3. s \div W = 0 /\ s % W = s
  BY <1>0, SmallMod
<1>4. PICK t \in Nat \ {0}, u \in Nat \ {0} : t = 2 ^ s /\ u = 2 ^ (W - s)
  BY <1>0, WordSplit
<1>5. 0 \div t = 0 /\ 0 * u = 0 /\ 0 % B = 0
  BY <1>0, SmallMod
<1>6. \A i \in 0 .. 3 : ShiftedRight(v, s, i) = ShiftedRight(x, s, i)
  <2> SUFFICES ASSUME NEW i \in 0 .. 3 PROVE ShiftedRight(v, s, i) = ShiftedRight(x, s, i)
    OBVIOUS
  <2> DEFINE p(y) == IF i \in DOMAIN y THEN y[i] \div 2 ^ s ELSE 0
             q(y) == IF i + 1 \in DOMAIN y THEN (y[i + 1] * 2 ^ (W - s)) % B ELSE 0
  <2>0. DOMAIN v = 0 .. len - 1 /\ DOMAIN x = 0 .. 3
    OBVIOUS
  <2>1. p(v) = p(x)
    <3>1. CASE i < len
      BY <2>0, <3>1
    <3>2. CASE ~(i < len)
      <4>1. i \notin 0 .. len - 1 /\ x[i] = 0
        BY <3>2
      <4> QED BY <1>4, <1>5, <2>0, <4>1
    <3> QED BY <3>1, <3>2
  <2>2. q(v) = q(x)
    <3>1. CASE i + 1 < len
      BY <2>0, <3>1
    <3>2. CASE ~(i + 1 < len) /\ i + 1 \in 0 .. 3
      <4>1. i + 1 \notin 0 .. len - 1 /\ x[i + 1] = 0
        BY <3>2
      <4> QED BY <1>4, <1>5, <2>0, <4>1
    <3>3. CASE i + 1 \notin 0 .. 3
      <4>1. i + 1 \notin 0 .. len - 1
        BY <3>3
      <4> QED BY <2>0, <3>3, <4>1
    <3> QED BY <3>1, <3>2, <3>3
  <2>3. ShiftedRight(v, s, i) = p(v) + q(v) /\ ShiftedRight(x, s, i) = p(x) + q(x)
    BY DEF ShiftedRight
  <2> HIDE DEF p, q
  <2> QED BY <2>1, <2>2, <2>3
<1>7. r = lu256Shr(x, s)
  <2>1. ~(s >= Bits) /\ \A i \in 0 .. 3 : i + s \div W = i
    BY <1>0, <1>3
  <2>2. lu256Shr(x, s) = [i \in 0 .. 3 |-> ShiftedRight(x, s, i)]
    <3> HIDE DEF x
    <3> QED BY <1>3, <2>1 DEF lu256Shr
  <2> HIDE DEF x
  <2> QED BY <1>6, <2>2
<1>8. Part(w, 0, len) = Val(x) /\ Val(x) \in Nat
  <2>0. \A i \in 0 .. 3 : x[i] \in Word
    BY <1>2 DEF U256
  <2>1. /\ Part(x, 0, 4) = Val(x) /\ Val(x) \in Nat
        /\ x[3] = 0 => Part(x, 0, 3) = Val(x)
        /\ x[3] = 0 /\ x[2] = 0 => Part(x, 0, 2) = Val(x)
    <3> HIDE DEF x
    <3> QED BY <2>0, PartVal
  <2>2. Part(x, 0, len) = Part(w, 0, len)
    <3>1. \A k \in 0 .. 4 : k < len => x[0 + k] = w[0 + k]
      OBVIOUS
    <3> HIDE DEF x
    <3> QED BY <3>1, PartSame
  <2>3. CASE len = 2
    <3>1. x[3] = 0 /\ x[2] = 0
      BY <2>3
    <3> HIDE DEF x
    <3> QED BY <2>1, <2>2, <2>3, <3>1
  <2>4. CASE len = 3
    <3>1. x[3] = 0
      BY <2>4
    <3> HIDE DEF x
    <3> QED BY <2>1, <2>2, <2>4, <3>1
  <2>5. CASE len = 4
    <3> HIDE DEF x
    <3> QED BY <2>1, <2>2, <2>5
  <2> QED BY <2>3, <2>4, <2>5
<1>9. lu256Shr(x, s) \in U256 /\ Val(lu256Shr(x, s)) = Val(x) \div 2 ^ s
  <2>1. s \in 0 .. Bits
    BY <1>0
  <2> HIDE DEF x
  <2> QED BY <1>2, <2>1, ShrIs
<1> HIDE DEF x
<1> QED BY <1>7, <1>8, <1>9

\* u256KnuthD returns numbers, and when every digit can be estimated they are the
\* quotient and the remainder.
LEMMA KnuthIs ==
  ASSUME NEW x \in U256, NEW d \in U256, dLen(d) # 1
  PROVE  LET r == u256KnuthD(x, d)
         IN /\ r[1] \in U256 /\ r[2] \in U256
            /\ Estimable(x, d) => Val(r[1]) = Val(x) \div Val(d) /\ Val(r[2]) = Val(x) % Val(d)
<1> DEFINE len == dLen(d)
           s == LeadingZeros(d[len - 1])
           dn == [i \in 0 .. 3 |-> ShiftedLeft(d, s, i)]
           w == [i \in 0 .. 4 |-> ShiftedLeft(x, s, i)]
           f == Long(w, dn, len)
           left == [i \in 0 .. len - 1 |-> f[5 - len].un[i]]
           rest == [i \in 0 .. 3 |-> ShiftedRight(left, s, i)]
<1>1. u256KnuthD(x, d) = <<f[5 - len].q, rest>>
  BY DEF u256KnuthD, Long
<1>2. /\ len \in 2 .. 4 /\ d[len - 1] \in Nat \ {0} /\ d[len - 1] < B
      /\ \A i \in 0 .. 3 : i >= len => d[i] = 0
  BY LongDivisor
<1>3. s \in 0 .. W - 1 /\ B <= 2 * d[len - 1] * 2 ^ s /\ d[len - 1] * 2 ^ s < B
  <2> HIDE DEF len
  <2> QED BY <1>2, LeadingZerosIs
<1> HIDE DEF len, s
<1>4. /\ dn \in U256 /\ B <= 2 * dn[len - 1] /\ 2 ^ s <= dn[len - 1]
      /\ Part(dn, 0, len) = Val(d) * 2 ^ s
  BY <1>2, <1>3, Normalized
<1>5. w \in Num5 /\ w[4] < 2 ^ s /\ Part(w, 0, 5) = Val(x) * 2 ^ s
  BY <1>3, ShiftedDividend
<1> HIDE DEF dn, w
<1>6. f[5 - len] \in [un : Num5, q : U256]
  <2>1. 5 - len \in 0 .. 5 - len
    BY <1>2
  <2> QED BY <1>2, <1>4, <1>5, <2>1, LongIs
<1> HIDE DEF f
<1>7. /\ rest \in U256 /\ Val(rest) = Part(f[5 - len].un, 0, len) \div 2 ^ s
      /\ Part(f[5 - len].un, 0, len) \in Nat
  <2>1. f[5 - len].un \in Num5
    BY <1>6
  <2> QED BY <1>2, <1>3, <2>1, LeftShifted
<1>8. f[5 - len].q \in U256
  BY <1>6
<1> HIDE DEF rest, left
<1>9. ASSUME Estimable(x, d) PROVE Val(f[5 - len].q) = Val(x) \div Val(d) /\ Val(rest) = Val(x) % Val(d)
  <2>1. \A j \in 0 .. 4 - len : (((Val(x) * 2 ^ s) \div Base(j + 1)) % (Val(d) * 2 ^ s)) \div Base(len - 1)
                                   < (Val(d) * 2 ^ s) \div Base(len - 1)
    BY <1>9 DEF Estimable, len, s
  <2>2. Below(w, dn, len)
    BY <1>4, <1>5, <2>1 DEF Below
  <2>3. w[4] < dn[len - 1]
    <3>1. PICK t \in Int, y \in Int, z \in Int : t = 2 ^ s /\ y = w[4] /\ z = dn[len - 1]
      <4>1. w[4] \in Int /\ s \in 0 .. W /\ len - 1 \in 0 .. 3
        BY <1>2, <1>3, <1>5, WordBase DEF Num5, Word
      <4>2. dn[len - 1] \in Int /\ 2 ^ s \in Int
        BY <1>4, <4>1, WordSplit, IntsOfWords
      <4> QED BY <4>1, <4>2
    <3>2. y < t /\ t <= z
      BY <1>4, <1>5, <3>1
    <3> QED BY <3>1, <3>2
  <2>4. LongInv(f[5 - len], w, dn, len, 0)
    BY <1>2, <1>4, <1>5, <2>2, <2>3, LongDivides DEF f
  <2> DEFINE v == Part(w, 0, 5) \div Base(0)
  <2>5. /\ Part(f[5 - len].un, 0, len) = v % Part(dn, 0, len)
        /\ Part(f[5 - len].q, 0, 4) = v \div Part(dn, 0, len)
    <3>1. 4 - 0 = 4
      OBVIOUS
    <3> QED BY <2>4, <3>1 DEF LongInv
  <2>6. PICK vx \in Nat, vd \in Nat \ {0}, t \in Nat \ {0} : vx = Val(x) /\ vd = Val(d) /\ t = 2 ^ s
    <3>1. Val(x) \in Nat /\ Val(d) \in Nat
      BY IntsOfWords
    <3>2. Val(d) # 0
      <4>1. d # LUint256Zero
        <5>1. len - 1 \in 0 .. 3
          BY <1>2
        <5> QED BY <1>2, <5>1 DEF LUint256Zero
      <4> QED BY <4>1, ValZero DEF lu256IsZero
    <3>3. s \in 0 .. W
      BY <1>3, WordBase
    <3>4. 2 ^ s \in Nat \ {0}
      BY <3>3, WordSplit
    <3> QED BY <3>1, <3>2, <3>4
  <2>7. v = vx * t /\ Part(dn, 0, len) = vd * t
    <3>1. vx * t \in Int /\ Base(0) = 1
      BY Times, Bases
    <3>2. (vx * t) \div 1 = vx * t
      BY <3>1
    <3> QED BY <1>4, <1>5, <2>6, <3>1, <3>2
  <2> HIDE DEF v
  <2>8. (vx * t) \div (vd * t) = vx \div vd /\ (vx * t) % (vd * t) = (vx % vd) * t
    <3>1. ShiftedAlike(vx, vd, t)
      BY ShiftedDivision
    <3> QED BY <3>1 DEF ShiftedAlike
  <2>9. Part(f[5 - len].q, 0, 4) = Val(f[5 - len].q)
    <3>1. \A i \in 0 .. 3 : f[5 - len].q[i] \in Word
      BY <1>8 DEF U256
    <3> QED BY <3>1, PartVal
  <2>10. Val(f[5 - len].q) = vx \div vd
    BY <2>5, <2>7, <2>8, <2>9
  <2>11. ((vx % vd) * t) \div t = vx % vd
    <3>1. PICK r \in Nat : r = vx % vd
      BY DivModIs
    <3>2. r * t = 0 + t * r /\ r * t \in Int
      BY Times
    <3>3. (r * t) \div t = r
      <4>1. 0 < t /\ 0 \in Nat
        OBVIOUS
      <4> QED BY <3>2, <4>1, DivModUnique
    <3> QED BY <3>1, <3>3
  <2>12. Val(rest) = vx % vd
    BY <1>7, <2>5, <2>6, <2>7, <2>8, <2>11
  <2> QED BY <2>6, <2>10, <2>12
<1>10. u256KnuthD(x, d)[1] = f[5 - len].q /\ u256KnuthD(x, d)[2] = rest
  BY <1>1
<1> QED BY <1>7, <1>8, <1>9, <1>10

\* One of the four divisions of two words by one.
LEMMA DivWord ==
  ASSUME NEW d \in Word, d # 0, NEW r \in Nat, r < d, NEW x \in Word
  PROVE  /\ (r * B + x) \div d \in Word /\ (r * B + x) % d \in Nat /\ (r * B + x) % d < d
         /\ r * B + x = ((r * B + x) % d) + d * ((r * B + x) \div d)
<1>1. PICK dd \in Nat \ {0}, y \in Nat, bb \in Nat \ {0} : dd = d /\ y = x /\ bb = B /\ dd < bb /\ y <= bb - 1
  BY WordBase DEF Word
<1>2. PICK v \in Nat : v = r * bb + y
  <2>1. r * bb \in Nat
    BY Times
  <2> QED BY <2>1
<1>3. v % dd \in Nat /\ v % dd < dd /\ v \div dd \in Nat /\ v = (v % dd) + dd * (v \div dd)
  BY DivModIs
<1>4. v \div dd < bb
  <2>1. PICK q \in Nat : q = v \div dd
    BY <1>3
  <2> SUFFICES ASSUME bb <= q PROVE FALSE
    BY <2>1
  <2>2. dd * bb <= dd * q /\ dd * bb \in Int /\ dd * q \in Int
    BY TimesMono, Times
  <2>3. bb * (r + 1) <= bb * dd /\ bb * (r + 1) = bb * r + bb * 1 /\ bb * 1 = bb /\ bb * r = r * bb /\ bb * dd = dd * bb /\ r * bb \in Int
    BY <1>1, TimesMono, Times
  <2> QED BY <1>1, <1>2, <1>3, <2>1, <2>2, <2>3
<1>5. v \div dd \in Word
  BY <1>1, <1>3, <1>4 DEF Word
<1> QED BY <1>1, <1>2, <1>3, <1>5

\* h divided by dd is ph, with remainder rh.
Divided(dd, h, rh, ph) == h \in Nat /\ rh \in Nat /\ ph \in Nat /\ h = rh + dd * ph

\* One division of the remainder rh and the next word x, in base bb.
NextWord(bb, dd, rh, x, r, q) == x \in Nat /\ r \in Nat /\ q \in Nat /\ rh * bb + x = r + dd * q

\* The next word of a division.
LEMMA HornerStep ==
  ASSUME NEW bb \in Nat, NEW dd \in Nat, NEW h, NEW rh, NEW ph, Divided(dd, h, rh, ph),
         NEW x, NEW r, NEW q, NextWord(bb, dd, rh, x, r, q)
  PROVE  Divided(dd, x + bb * h, r, q + bb * ph)
<1>0. /\ h \in Nat /\ rh \in Nat /\ ph \in Nat /\ h = rh + dd * ph
      /\ x \in Nat /\ r \in Nat /\ q \in Nat /\ rh * bb + x = r + dd * q
  BY DEF Divided, NextWord
<1>1. bb * (rh + dd * ph) = bb * rh + bb * (dd * ph) /\ bb * rh = rh * bb /\ rh * bb \in Int
  BY <1>0, Times
<1>2. bb * (dd * ph) = (bb * dd) * ph /\ bb * dd = dd * bb /\ (dd * bb) * ph = dd * (bb * ph)
  BY <1>0, Times
<1>3. dd * (q + bb * ph) = dd * q + dd * (bb * ph) /\ dd * q \in Int /\ dd * (bb * ph) \in Int
  BY <1>0, Times
<1>4. bb * h \in Nat /\ bb * ph \in Nat
  BY <1>0, Times
<1> QED BY <1>0, <1>1, <1>2, <1>3, <1>4 DEF Divided

\* DivModWord is exact.
LEMMA DivModWordIs ==
  ASSUME NEW x \in U256, NEW d \in Word, d # 0
  PROVE  LET r == DivModWord(x, d)
         IN /\ r[1] \in U256 /\ r[2] \in U256
            /\ Val(r[1]) = Val(x) \div d /\ Val(r[2]) = Val(x) % d
<1> DEFINE u(r, i) == r * B + x[i]
           r3 == u(0, 3) % d
           r2 == u(r3, 2) % d
           r1 == u(r2, 1) % d
           r0 == u(r1, 0) % d
           q == [i \in 0 .. 3 |-> <<u(r1, 0) \div d, u(r2, 1) \div d, u(r3, 2) \div d, u(0, 3) \div d>>[i + 1]]
           m == [i \in 0 .. 3 |-> IF i = 0 THEN r0 ELSE 0]
<1>0. /\ x[0] \in Word /\ x[1] \in Word /\ x[2] \in Word /\ x[3] \in Word
      /\ d \in Nat \ {0} /\ d < B /\ B \in Nat \ {0} /\ 0 \in Word
  BY WordBase DEF U256, Word
<1>1. /\ u(0, 3) \div d \in Word /\ r3 \in Nat /\ r3 < d
      /\ u(0, 3) = r3 + d * (u(0, 3) \div d)
  <2>1. 0 < d /\ 0 \in Nat
    BY <1>0
  <2> QED BY <1>0, <2>1, DivWord
<1> HIDE DEF r3
<1>2. /\ u(r3, 2) \div d \in Word /\ r2 \in Nat /\ r2 < d
      /\ u(r3, 2) = r2 + d * (u(r3, 2) \div d)
  BY <1>0, <1>1, DivWord
<1> HIDE DEF r2
<1>3. /\ u(r2, 1) \div d \in Word /\ r1 \in Nat /\ r1 < d
      /\ u(r2, 1) = r1 + d * (u(r2, 1) \div d)
  BY <1>0, <1>2, DivWord
<1> HIDE DEF r1
<1>4. /\ u(r1, 0) \div d \in Word /\ r0 \in Nat /\ r0 < d
      /\ u(r1, 0) = r0 + d * (u(r1, 0) \div d)
  BY <1>0, <1>3, DivWord
<1> HIDE DEF r0
<1>5. DivModWord(x, d) = <<q, m>>
  BY DEF DivModWord, r0, r1, r2, r3
<1>6. q[0] = u(r1, 0) \div d /\ q[1] = u(r2, 1) \div d /\ q[2] = u(r3, 2) \div d /\ q[3] = u(0, 3) \div d
      /\ q = [i \in 0 .. 3 |-> q[i]]
  OBVIOUS
<1>7. m[0] = r0 /\ m[1] = 0 /\ m[2] = 0 /\ m[3] = 0 /\ m = [i \in 0 .. 3 |-> m[i]]
  OBVIOUS
<1> HIDE DEF q, m
<1>8. q \in U256
  BY <1>1, <1>2, <1>3, <1>4, <1>6, FourWords
<1>9. m \in U256
  <2>1. r0 \in Word
    BY <1>0, <1>4 DEF Word
  <2> QED BY <1>0, <1>7, <2>1, FourWords
<1>10. /\ x[0] \in Nat /\ x[1] \in Nat /\ x[2] \in Nat /\ x[3] \in Nat
       /\ q[0] \in Nat /\ q[1] \in Nat /\ q[2] \in Nat /\ q[3] \in Nat
  <2>1. (\A i \in 0 .. 3 : x[i] \in Nat) /\ (\A i \in 0 .. 3 : q[i] \in Nat)
    BY <1>8, Words
  <2>2. 0 \in 0 .. 3 /\ 1 \in 0 .. 3 /\ 2 \in 0 .. 3 /\ 3 \in 0 .. 3
    OBVIOUS
  <2> QED BY <2>1, <2>2
<1> DEFINE x0 == x[0]
           x1 == x[1]
           x2 == x[2]
           x3 == x[3]
           q0 == q[0]
           q1 == q[1]
           q2 == q[2]
           q3 == q[3]
           bb == B
           dd == d
<1>11. /\ x0 \in Nat /\ x1 \in Nat /\ x2 \in Nat /\ x3 \in Nat
        /\ q0 \in Nat /\ q1 \in Nat /\ q2 \in Nat /\ q3 \in Nat
        /\ bb \in Nat \ {0} /\ dd \in Nat \ {0}
        /\ x0 = x[0] /\ x1 = x[1] /\ x2 = x[2] /\ x3 = x[3] /\ bb = B /\ dd = d
        /\ q0 = q[0] /\ q1 = q[1] /\ q2 = q[2] /\ q3 = q[3]
  BY <1>0, <1>10
<1> HIDE DEF x0, x1, x2, x3, q0, q1, q2, q3, bb, dd
<1>12. /\ x3 = r3 + dd * q3
       /\ r3 * bb + x2 = r2 + dd * q2
       /\ r2 * bb + x1 = r1 + dd * q1
       /\ r1 * bb + x0 = r0 + dd * q0
  <2>1. 0 * bb + x3 = x3
    BY <1>11
  <2> QED BY <1>1, <1>2, <1>3, <1>4, <1>6, <1>11, <2>1
<1>13. /\ Val(x) = x0 + bb * (x1 + bb * (x2 + bb * x3))
       /\ Val(q) = q0 + bb * (q1 + bb * (q2 + bb * q3))
  <2>1. Ints(x) /\ Ints(q) /\ 0 \in Int
    BY <1>8, IntsOfWords
  <2>2. 2 ^ Bits * 0 = 0 /\ B * 0 = 0 /\ Val(x) \in Int /\ Val(q) \in Int
    BY <1>0, <1>8, Bases, IntsOfWords
  <2>3. x[0] + B * (x[1] + B * (x[2] + B * (x[3] + B * 0))) = Val(x) + 2 ^ Bits * 0
    BY <2>1, Horner DEF Ints
  <2>4. q[0] + B * (q[1] + B * (q[2] + B * (q[3] + B * 0))) = Val(q) + 2 ^ Bits * 0
    BY <2>1, Horner DEF Ints
  <2> QED BY <1>11, <2>2, <2>3, <2>4
<1> DEFINE v2 == x2 + bb * x3
           p2 == q2 + bb * q3
           v1 == x1 + bb * v2
           p1 == q1 + bb * p2
           v0 == x0 + bb * v1
           p0 == q0 + bb * p1
<1>14. /\ bb \in Nat /\ dd \in Nat
        /\ Divided(dd, x3, r3, q3) /\ NextWord(bb, dd, r3, x2, r2, q2)
        /\ NextWord(bb, dd, r2, x1, r1, q1) /\ NextWord(bb, dd, r1, x0, r0, q0)
  BY <1>1, <1>2, <1>3, <1>4, <1>12, <1>11 DEF Divided, NextWord
<1>15. Divided(dd, v2, r2, p2)
  BY <1>14, HornerStep
<1>16. Val(x) = v0 /\ Val(q) = p0
  BY <1>13
<1> HIDE DEF v2, p2
<1>17. Divided(dd, v1, r1, p1)
  BY <1>15, <1>14, HornerStep
<1> HIDE DEF v1, p1
<1>18. Divided(dd, v0, r0, p0)
  BY <1>17, <1>14, HornerStep
<1> HIDE DEF v0, p0
<1>19. v0 % dd = r0 /\ v0 \div dd = p0
  <2>1. r0 < dd /\ v0 \in Int /\ p0 \in Int /\ v0 = r0 + dd * p0
    BY <1>4, <1>18, <1>11 DEF Divided
  <2> QED BY <1>4, <1>11, <2>1, DivModUnique
<1>20. Val(m) = r0
  <2>1. Base(1) * 0 = 0 /\ Base(2) * 0 = 0 /\ Base(3) * 0 = 0
    BY BaseSucc
  <2> QED BY <1>4, <1>7, <2>1 DEF Val
<1>21. DivModWord(x, d)[1] = q /\ DivModWord(x, d)[2] = m
  BY <1>5
<1> QED BY <1>8, <1>9, <1>16, <1>19, <1>20, <1>21 DEF dd

-----------------------------------------------------------------------------
(* lu256DivMod                                                              *)

\* The number one.
LEMMA OneIs ==
  LUint256One \in U256 /\ Val(LUint256One) = 1
<1>1. Base(1) * 0 = 0 /\ Base(2) * 0 = 0 /\ Base(3) * 0 = 0
  BY BaseSucc
<1>2. 0 \in Word /\ 1 \in Word
  BY WordBase DEF Word
<1>3. LUint256One[0] = 1 /\ LUint256One[1] = 0 /\ LUint256One[2] = 0 /\ LUint256One[3] = 0
  BY DEF LUint256One
<1>4. LUint256One \in U256
  BY <1>2 DEF LUint256One, U256
<1> QED BY <1>1, <1>3, <1>4 DEF Val

\* A division by a number that is not zero returns numbers: the quotient and the
\* remainder, if the divisor is one word or every digit can be estimated.
LEMMA DivModExactly ==
  ASSUME NEW x \in U256, NEW y \in U256, ~lu256IsZero(y)
  PROVE  /\ lu256DivMod(x, y)[1] \in U256 /\ lu256DivMod(x, y)[2] \in U256
         /\ dLen(y) = 1 \/ Estimable(x, y) => Divides(x, y)
<1>1. PICK vx \in Nat, vy \in Nat \ {0} : vx = Val(x) /\ vy = Val(y)
  <2>1. Val(x) \in Nat /\ Val(y) \in Nat /\ Val(y) # 0
    BY IntsOfWords, ValZero
  <2> QED BY <2>1
<1> DEFINE c == lu256Cmp(x, y)
           r == lu256DivMod(x, y)
<1>2. /\ c \in {-1, 0, 1} /\ (c = -1 <=> Val(x) < Val(y)) /\ (c = 0 <=> x = y)
  BY CmpIs
<1>3. /\ c = -1 => r = <<LUint256Zero, x>>
      /\ c = 0 => r = <<LUint256One, LUint256Zero>>
      /\ c = 1 => r = IF dLen(y) = 1 THEN DivModWord(x, y[0]) ELSE u256KnuthD(x, y)
  BY <1>2 DEF lu256DivMod
<1> HIDE DEF c, r
<1>4. LUint256Zero \in U256 /\ Val(LUint256Zero) = 0
  BY ValZero
<1>5. CASE c = -1
  <2>1. vx % vy = vx /\ vx \div vy = 0
    BY <1>1, <1>2, <1>5, SmallMod
  <2>2. r[1] = LUint256Zero /\ r[2] = x
    BY <1>3, <1>5
  <2> QED BY <1>1, <1>4, <2>1, <2>2 DEF r, Divides
<1>6. CASE c = 0
  <2>1. LUint256One \in U256 /\ Val(LUint256One) = 1
    BY OneIs
  <2>2. vx = vy /\ vx = 0 + vy * 1 /\ vx \in Int /\ 0 < vy /\ 0 \in Nat /\ 1 \in Int
    BY <1>1, <1>2, <1>6
  <2>3. vx % vy = 0 /\ vx \div vy = 1
    BY <2>2, DivModUnique
  <2>4. r[1] = LUint256One /\ r[2] = LUint256Zero
    BY <1>3, <1>6
  <2> QED BY <1>1, <1>4, <2>1, <2>3, <2>4 DEF r, Divides
<1>7. CASE c = 1
  <2>1. CASE dLen(y) = 1
    <3>1. y[1] = 0 /\ y[2] = 0 /\ y[3] = 0 /\ y[0] \in Word /\ y[0] \in Int
      BY <2>1, OneWord, IntsOfWords DEF U256
    <3>2. Val(y) = y[0]
      <4>1. Base(1) * 0 = 0 /\ Base(2) * 0 = 0 /\ Base(3) * 0 = 0
        BY BaseSucc
      <4> QED BY <3>1, <4>1 DEF Val
    <3>3. y[0] # 0
      BY <1>1, <3>2
    <3>4. r = DivModWord(x, y[0])
      BY <1>3, <1>7, <2>1
    <3>5. r[1] \in U256 /\ r[2] \in U256 /\ Val(r[1]) = Val(x) \div y[0] /\ Val(r[2]) = Val(x) % y[0]
      BY <3>1, <3>3, <3>4, DivModWordIs
    <3> QED BY <3>2, <3>5 DEF r, Divides
  <2>2. CASE dLen(y) # 1
    <3>1. r = u256KnuthD(x, y)
      BY <1>3, <1>7, <2>2
    <3>2. /\ r[1] \in U256 /\ r[2] \in U256
          /\ Estimable(x, y) => Val(r[1]) = Val(x) \div Val(y) /\ Val(r[2]) = Val(x) % Val(y)
      BY <2>2, <3>1, KnuthIs
    <3> QED BY <2>2, <3>2 DEF r, Divides
  <2> QED BY <2>1, <2>2
<1> QED BY <1>2, <1>5, <1>6, <1>7

\* Division is exact for words of every size, by a divisor of one word and wherever
\* no leading word of a partial remainder reaches that of the divisor: the estimate
\* of each digit is at most one too large after the refinement, the borrow of the
\* subtraction tells when it is, and adding the divisor back corrects it.
THEOREM DividingIsExact == Spec => []DividesExactly
<1>1. Inv => DividesExactly
  <2> SUFFICES ASSUME Inv, ~lu256IsZero(b), dLen(b) = 1 \/ Estimable(a, b) PROVE Divides(a, b)
    BY DEF DividesExactly
  <2>1. a \in U256 /\ b \in U256
    BY DEF Inv, Operand
  <2> QED BY <2>1, DivModExactly
<1> QED BY <1>1, Invariant, PTL

-----------------------------------------------------------------------------
(* lu256Bor                                                                 *)

\* The bits of a number add up to it.
LEMMA BitSplit ==
  ASSUME NEW x \in Nat, NEW k \in Nat
  PROVE  Bit(x, k) \in {0, 1} /\ x % 2 ^ (k + 1) = (x % 2 ^ k) + 2 ^ k * Bit(x, k)
<1>1. PICK m \in Nat \ {0} : m = 2 ^ k /\ 2 ^ (k + 1) = m + m
  BY PowPos, PowSucc
<1>2. m * 2 = m + m /\ m * 2 \in Nat \ {0}
  BY <1>1
<1>3. PICK c \in Nat : c = (x \div m) % 2 /\ c < 2
  <2>1. x \div m \in Nat
    BY DivModIs
  <2> QED BY <2>1, DivModIs
<1>4. (x % (m * 2)) \div m = c /\ (x % (m * 2)) % m = x % m
  <2>1. 2 \in Nat \ {0} /\ x \in Int
    OBVIOUS
  <2>2. (x % (m * 2)) \div m = (x \div m) % 2
    BY <2>1, ModDiv
  <2>3. (x % (m * 2)) % m = x % m
    BY <2>1, ModMod
  <2> QED BY <1>3, <2>2, <2>3
<1>5. x % (m * 2) \in Int
  BY <1>2, DivModIs
<1>6. x % (m * 2) = ((x % (m * 2)) % m) + m * ((x % (m * 2)) \div m)
  BY <1>5, DivModIs
<1>7. x % (m + m) = (x % m) + m * c
  BY <1>2, <1>4, <1>6
<1>8. Bit(x, k) = c
  BY <1>1, <1>3 DEF Bit
<1> QED BY <1>1, <1>3, <1>7, <1>8

\* The next bit of OrWord.
OrTurn(v, x, y, k) == v + 2 ^ (k - 1) * Max({Bit(x, k - 1), Bit(y, k - 1)})

\* The larger one of two bits.
LEMMA MaxBit ==
  ASSUME NEW c \in {0, 1}, NEW d \in {0, 1}
  PROVE  /\ Max({c, d}) \in {0, 1}
         /\ c = 0 \/ d = 0 => Max({c, d}) = c + d
<1>1. {c, d} \in SUBSET (0 .. 3) /\ {c, d} # {}
  OBVIOUS
<1>2. Max({c, d}) \in {c, d} /\ \A k \in {c, d} : k <= Max({c, d})
  BY <1>1, MaxOfWords
<1>3. PICK m : m = Max({c, d})
  OBVIOUS
<1>4. (m = c \/ m = d) /\ c <= m /\ d <= m
  BY <1>2, <1>3
<1> QED BY <1>3, <1>4

\* OrWord of two words without a common bit is their sum.
LEMMA OrIs ==
  ASSUME NEW x \in Word, NEW y \in Word, \A k \in 0 .. W - 1 : Bit(x, k) = 0 \/ Bit(y, k) = 0
  PROVE  OrWord(x, y) = x + y
<1>0. W \in Nat \ {0} /\ x \in Nat /\ y \in Nat /\ x < B /\ y < B /\ B \in Nat \ {0}
  BY WordBase DEF Word
<1> DEFINE g == [z \in Nat \X (1 .. W) |-> OrTurn(z[1], x, y, z[2])]
           Is(F) == F = [k \in 0 .. W |-> IF k = 0 THEN 0 ELSE OrTurn(F[k - 1], x, y, k)]
           f == CHOOSE F : Is(F)
<1>1. OrWord(x, y) = f[W]
  BY DEF OrWord, OrTurn
<1>2. ASSUME NEW v \in Nat, NEW k \in 1 .. W PROVE OrTurn(v, x, y, k) \in Nat
  <2>1. k - 1 \in Nat
    BY <1>0
  <2>2. Bit(x, k - 1) \in {0, 1} /\ Bit(y, k - 1) \in {0, 1}
    BY <1>0, <2>1, BitSplit
  <2>3. PICK m \in {0, 1} : m = Max({Bit(x, k - 1), Bit(y, k - 1)})
    BY <2>2, MaxBit
  <2>4. PICK t \in Nat : t = 2 ^ (k - 1)
    BY <2>1, PowPos
  <2>5. t * m \in Nat
    BY Times
  <2> QED BY <2>3, <2>4, <2>5 DEF OrTurn
<1>3. g \in [Nat \X (1 .. W) -> Nat]
  BY <1>2
<1>4. \A v \in Nat, k \in 1 .. W : g[<<v, k>>] = OrTurn(v, x, y, k)
  OBVIOUS
<1> HIDE DEF g
<1>5. PICK F \in [0 .. W -> Nat] : Solves(F, W, 0, g)
  <2>1. W \in Nat /\ 0 \in Nat
    BY <1>0
  <2> QED BY <2>1, <1>3, Recursion
<1>6. \A k \in 0 .. W : F[k] = IF k = 0 THEN 0 ELSE OrTurn(F[k - 1], x, y, k)
  <2> SUFFICES ASSUME NEW k \in 0 .. W, k # 0 PROVE F[k] = OrTurn(F[k - 1], x, y, k)
    BY <1>5 DEF Solves
  <2>1. k - 1 \in 0 .. W /\ k \in 1 .. W
    BY <1>0
  <2>2. F[k] = g[<<F[k - 1], k>>] /\ F[k - 1] \in Nat
    BY <1>5, <2>1 DEF Solves
  <2> QED BY <1>4, <2>1, <2>2
<1>7. Is(F)
  BY <1>6
<1>8. Is(f)
  <2> HIDE DEF Is
  <2> QED BY <1>7
<1> HIDE DEF f
<1>9. f[0] = 0 /\ \A k \in 0 .. W - 1 : f[k + 1] = OrTurn(f[k], x, y, k + 1)
  <2>1. f[0] = 0
    BY <1>0, <1>8
  <2>2. ASSUME NEW k \in 0 .. W - 1 PROVE f[k + 1] = OrTurn(f[k], x, y, k + 1)
    <3>1. k + 1 \in 0 .. W /\ k + 1 # 0 /\ (k + 1) - 1 = k
      BY <1>0
    <3>2. f[k + 1] = OrTurn(f[(k + 1) - 1], x, y, k + 1)
      BY <3>1, <1>8
    <3> QED BY <3>1, <3>2
  <2> QED BY <2>1, <2>2
<1> HIDE DEF Is
<1> DEFINE T == {k \in 0 .. W : f[k] = (x % 2 ^ k) + (y % 2 ^ k)}
<1>10. 0 \in T
  <2>1. 2 ^ 0 = 1
    BY Bases, WordBase DEF Base
  <2>2. x % 1 = 0 /\ y % 1 = 0
    BY <1>0
  <2> QED BY <1>0, <1>9, <2>1, <2>2
<1>11. ASSUME NEW k \in 0 .. W - 1, k \in T PROVE k + 1 \in T
  <2>1. k \in Nat /\ k + 1 \in 0 .. W /\ (k + 1) - 1 = k
    BY <1>0
  <2>2. /\ Bit(x, k) \in {0, 1} /\ x % 2 ^ (k + 1) = (x % 2 ^ k) + 2 ^ k * Bit(x, k)
        /\ Bit(y, k) \in {0, 1} /\ y % 2 ^ (k + 1) = (y % 2 ^ k) + 2 ^ k * Bit(y, k)
    BY <1>0, <2>1, BitSplit
  <2>3. PICK c \in {0, 1}, d \in {0, 1} : c = Bit(x, k) /\ d = Bit(y, k) /\ (c = 0 \/ d = 0)
    BY <2>2
  <2>4. Max({c, d}) = c + d
    BY <2>3, MaxBit
  <2>5. PICK t \in Nat \ {0} : t = 2 ^ k
    BY <2>1, PowPos
  <2>6. x % t \in Nat /\ y % t \in Nat
    BY <1>0, DivModIs
  <2>7. f[k + 1] = ((x % t) + (y % t)) + t * (c + d)
    BY <1>9, <1>11, <2>1, <2>3, <2>4, <2>5 DEF OrTurn
  <2>8. t * (c + d) = t * c + t * d /\ t * c \in Int /\ t * d \in Int
    BY Times
  <2>9. f[k + 1] = ((x % t) + t * c) + ((y % t) + t * d)
    BY <2>6, <2>7, <2>8
  <2>10. f[k + 1] = (x % 2 ^ (k + 1)) + (y % 2 ^ (k + 1))
    BY <2>2, <2>3, <2>5, <2>9
  <2> QED BY <2>1, <2>10
<1>12. 0 .. W \subseteq T
  <2> HIDE DEF T
  <2> QED BY <1>0, <1>10, <1>11, IntervalInduction
<1>13. f[W] = (x % B) + (y % B)
  BY <1>0, <1>12 DEF B
<1>14. x % B = x /\ y % B = y
  BY <1>0, SmallMod
<1> QED BY <1>1, <1>13, <1>14

\* The lowest m bits of one word and the others of another one.
LEMMA OrDisjoint ==
  ASSUME NEW m \in 0 .. W, NEW x \in Word, x < 2 ^ m, NEW h \in Nat, NEW y \in Word, y = 2 ^ m * h
  PROVE  OrWord(x, y) = x + y /\ x + y \in Word
<1>0. W \in Nat \ {0} /\ x \in Nat /\ y \in Nat /\ m \in Nat
  BY WordBase DEF Word
<1>1. ASSUME NEW k \in 0 .. W - 1, k < m PROVE Bit(y, k) = 0
  <2>1. k \in Nat /\ (m - k) - 1 \in Nat /\ m = k + (((m - k) - 1) + 1)
    BY <1>0, <1>1
  <2>2. PICK j \in Nat : j = (m - k) - 1 /\ m = k + (j + 1)
    BY <2>1
  <2>3. PICK t \in Nat \ {0}, u \in Nat \ {0} : t = 2 ^ k /\ u = 2 ^ j /\ 2 ^ (j + 1) = u + u
    BY <2>1, PowPos, PowSucc
  <2>4. 2 ^ m = t * (u + u)
    <3>1. j + 1 \in Nat
      OBVIOUS
    <3>2. 2 ^ (k + (j + 1)) = 2 ^ k * 2 ^ (j + 1)
      BY <2>1, <3>1, PowPlus
    <3> QED BY <2>2, <2>3, <3>2
  <2>5. PICK z \in Nat : z = (u + u) * h /\ z = 2 * (u * h) /\ u * h \in Nat
    <3>1. (u + u) * h = h * (u + u) /\ h * (u + u) = h * u + h * u /\ h * u = u * h /\ u * h \in Nat
      BY Times
    <3> QED BY <3>1
  <2>6. y = 0 + t * z /\ 0 \in Nat /\ 0 < t /\ y \in Int /\ z \in Int
    <3>1. (t * (u + u)) * h = t * ((u + u) * h) /\ t * z \in Int
      BY Times
    <3> QED BY <1>0, <2>4, <2>5, <3>1
  <2>7. y \div t = z
    BY <2>6, DivModUnique
  <2>8. z % 2 = 0
    <3>1. PICK e \in Nat : e = u * h
      BY <2>5
    <3>2. z = 2 * e
      BY <2>5, <3>1
    <3> QED BY <3>2
  <2> QED BY <2>3, <2>7, <2>8 DEF Bit
<1>2. ASSUME NEW k \in 0 .. W - 1, ~(k < m) PROVE Bit(x, k) = 0
  <2>1. k \in Nat /\ m <= k
    BY <1>0, <1>2
  <2>2. PICK t \in Nat \ {0}, u \in Nat : t = 2 ^ k /\ u = 2 ^ m /\ u <= t
    BY <1>0, <2>1, PowPos, PowMono
  <2>3. x < t
    BY <1>0, <2>2
  <2>4. x \div t = 0
    BY <1>0, <2>3, SmallMod
  <2> QED BY <2>2, <2>4 DEF Bit
<1>3. \A k \in 0 .. W - 1 : Bit(x, k) = 0 \/ Bit(y, k) = 0
  BY <1>1, <1>2
<1>4. x + y \in Word
  <2>1. PICK t \in Nat \ {0}, u \in Nat \ {0}, c \in Nat : t = 2 ^ m /\ u = 2 ^ (W - m) /\ B = c /\ c = t * u
    BY WordSplit, WordBase
  <2>2. y = t * h /\ x < t /\ y < c
    BY <1>0, <2>1 DEF Word
  <2>3. h < u
    <3> SUFFICES ASSUME u <= h PROVE FALSE
      OBVIOUS
    <3>1. t * u <= t * h
      BY TimesMono
    <3> QED BY <1>0, <2>1, <2>2, <3>1
  <2>4. t * (h + 1) <= t * u /\ t * (h + 1) = t * h + t * 1 /\ t * 1 = t
    BY <2>3, TimesMono, Times
  <2>5. x + y < c /\ x + y \in Nat
    BY <1>0, <2>1, <2>2, <2>4
  <2> QED BY <2>1, <2>5 DEF Word
<1> QED BY <1>3, <1>4, OrIs

\* No bit of y is among the lowest bits that x has.
Apart(x, y) == \E m \in 0 .. W, h \in Nat : x < 2 ^ m /\ y = 2 ^ m * h

\* OrWord of such words.
LEMMA OrApart ==
  ASSUME NEW x \in Word, NEW y \in Word, Apart(x, y)
  PROVE  OrWord(x, y) = x + y /\ x + y \in Word
<1>1. PICK m \in 0 .. W, h \in Nat : x < 2 ^ m /\ y = 2 ^ m * h
  BY DEF Apart
<1> QED BY <1>1, OrDisjoint

\* The words of the numbers with k bits.
LEMMA MaskedWord ==
  ASSUME NEW x \in U256, NEW k \in 0 .. Bits, NEW i \in 0 .. 3
  PROVE  LET y == lu256MaskN(x, k)
         IN /\ (i + 1) * W <= k => y[i] = x[i]
            /\ ~((i + 1) * W <= k) /\ i * W < k => k - i * W \in 1 .. W - 1 /\ y[i] = x[i] % 2 ^ (k - i * W)
            /\ ~((i + 1) * W <= k) /\ ~(i * W < k) => y[i] = 0
<1>1. PICK w \in Nat \ {0}, z \in Nat, j \in Nat : w = W /\ z = i * W /\ (i + 1) * W = z + w /\ j = k
  <2>1. W \in Nat \ {0} /\ Bits \in Nat /\ k \in Nat /\ i \in Nat
    BY WordBase
  <2>2. W * (i + 1) = W * i + W * 1 /\ W * 1 = W /\ W * i = i * W /\ W * (i + 1) = (i + 1) * W /\ W * i \in Nat
    BY <2>1, Times
  <2> QED BY <2>1, <2>2
<1>2. ~(z + w <= j) /\ z < j => j - z \in 1 .. w - 1
  BY <1>1
<1> QED BY <1>1, <1>2 DEF lu256MaskN

\* The bits beyond the lowest m of a word.
LEMMA HighBits ==
  ASSUME NEW m \in 0 .. W
  PROVE  \E h \in Nat : /\ (B - 1) % 2 ^ m = 2 ^ m - 1
                        /\ B - 1 - (2 ^ m - 1) = 2 ^ m * h
                        /\ 2 ^ m \in Nat \ {0} /\ 2 ^ m <= B
<1>1. PICK t \in Nat \ {0}, u \in Nat \ {0} : t = 2 ^ m /\ u = 2 ^ (W - m) /\ B = t * u
  BY WordSplit
<1>2. PICK h \in Nat : h = u - 1
  OBVIOUS
<1>3. t * h = t * u - t * 1 /\ t * 1 = t /\ t * h \in Int /\ t <= t * u
  BY <1>2, Times, TimesPos
<1>4. PICK bb \in Int : bb = B /\ bb = t * u
  BY <1>1, Times
<1>5. bb - 1 = (t - 1) + t * h /\ bb - 1 - (t - 1) = t * h /\ t - 1 \in Nat /\ t - 1 < t /\ bb - 1 \in Int /\ h \in Int
  BY <1>3, <1>4
<1>6. (bb - 1) % t = t - 1
  BY <1>5, DivModUnique
<1> QED BY <1>1, <1>3, <1>4, <1>5, <1>6

\* The number whose bits from k on are ones.
SignBits(k) == lu256Bnot(lu256MaskN(AllOnes, k))

\* Its words, next to those of a number with k bits.
LEMMA OrSignBits ==
  ASSUME NEW x \in U256, NEW k \in 0 .. Bits, Val(x) < 2 ^ k, NEW i \in 0 .. 3
  PROVE  /\ SignBits(k)[i] \in Word /\ SignBits(k)[i] = B - 1 - lu256MaskN(AllOnes, k)[i]
         /\ OrWord(x[i], SignBits(k)[i]) = x[i] + SignBits(k)[i] /\ x[i] + SignBits(k)[i] \in Word
<1> DEFINE y == lu256MaskN(AllOnes, k)
           c == SignBits(k)[i]
           m == k - i * W
<1>0. /\ AllOnes \in U256 /\ AllOnes[i] = B - 1 /\ x[i] \in Word /\ x[i] \in Nat /\ x[i] < B
      /\ B \in Nat \ {0} /\ W \in Nat \ {0} /\ 0 \in Word /\ B - 1 \in Word
  <2>1. B \in Nat \ {0} /\ W \in Nat \ {0} /\ 0 \in Word /\ B - 1 \in Word
    BY WordBase DEF Word
  <2> QED BY <2>1, Words DEF U256, AllOnes
<1>1. lu256MaskN(x, k) = x
  BY MaskIs
<1>2. c = B - 1 - y[i]
  BY DEF SignBits, lu256Bnot
<1>3. /\ (i + 1) * W <= k => y[i] = B - 1
      /\ ~((i + 1) * W <= k) /\ i * W < k => m \in 1 .. W - 1 /\ y[i] = (B - 1) % 2 ^ m
      /\ ~((i + 1) * W <= k) /\ ~(i * W < k) => y[i] = 0
  BY <1>0, MaskedWord
<1>4. /\ ~((i + 1) * W <= k) /\ i * W < k => x[i] = x[i] % 2 ^ m
      /\ ~((i + 1) * W <= k) /\ ~(i * W < k) => x[i] = 0
  BY <1>1, MaskedWord
<1> SUFFICES c \in Word /\ OrWord(x[i], c) = x[i] + c /\ x[i] + c \in Word
  BY <1>2
<1> HIDE DEF c, m, y
<1>5. CASE (i + 1) * W <= k
  <2>1. c = 0
    BY <1>0, <1>2, <1>3, <1>5
  <2>2. W \in 0 .. W /\ x[i] < 2 ^ W /\ 0 \in Nat /\ 0 = 2 ^ W * 0
    <3>1. B * 0 = 0
      BY <1>0
    <3> QED BY <1>0, <3>1 DEF B
  <2> QED BY <1>0, <2>1, <2>2, OrDisjoint
<1>6. CASE ~((i + 1) * W <= k) /\ i * W < k
  <2>1. m \in 0 .. W /\ y[i] = (B - 1) % 2 ^ m /\ x[i] = x[i] % 2 ^ m
    BY <1>0, <1>3, <1>4, <1>6
  <2>2. PICK h \in Nat, t \in Nat \ {0} :
          t = 2 ^ m /\ (B - 1) % t = t - 1 /\ B - 1 - (t - 1) = t * h /\ t <= B
    BY <2>1, HighBits
  <2>3. c = t * h
    BY <1>2, <2>1, <2>2
  <2>4. c \in Word
    <3>1. B - 1 - (t - 1) \in 0 .. B - 1
      BY <1>0, <2>2
    <3> QED BY <2>2, <2>3, <3>1 DEF Word
  <2>5. x[i] < t
    <3>1. x[i] % t < t
      BY <1>0, DivModIs
    <3> QED BY <2>1, <2>2, <3>1
  <2>6. x[i] < 2 ^ m /\ c = 2 ^ m * h
    BY <2>2, <2>3, <2>5
  <2>7. Apart(x[i], c)
    BY <2>1, <2>6 DEF Apart
  <2> QED BY <1>0, <2>4, <2>7, OrApart
<1>7. CASE ~((i + 1) * W <= k) /\ ~(i * W < k)
  <2>1. c = B - 1 /\ x[i] = 0
    BY <1>0, <1>2, <1>3, <1>4, <1>7
  <2>2. PICK h \in Nat : h = B - 1
    BY <1>0
  <2>3. 2 ^ 0 = 1 /\ 0 \in 0 .. W /\ 1 * h = h
    BY <1>0, Bases DEF Base
  <2>4. 0 \in 0 .. W /\ x[i] < 2 ^ 0 /\ c = 2 ^ 0 * h /\ c \in Word
    BY <1>0, <2>1, <2>2, <2>3
  <2>5. Apart(x[i], c)
    BY <2>2, <2>4 DEF Apart
  <2> QED BY <1>0, <2>4, <2>5, OrApart
<1> QED BY <1>5, <1>6, <1>7

\* All bits set.
LEMMA AllOnesIs ==
  AllOnes \in U256 /\ Val(AllOnes) = 2 ^ Bits - 1
<1>1. B \in Nat \ {0} /\ B - 1 \in Word
  BY WordBase DEF Word
<1>2. AllOnes \in U256
  BY <1>1 DEF AllOnes, U256
<1>4. AllOnes[0] = B - 1 /\ AllOnes[1] = B - 1 /\ AllOnes[2] = B - 1 /\ AllOnes[3] = B - 1
  BY DEF AllOnes
<1>5. PICK c \in Nat \ {0} : c = B
  BY <1>1
<1>6. PICK b2 \in Int, b3 \in Int, b4 \in Int :
        /\ b2 = c * c /\ b3 = b2 * c /\ b4 = b3 * c
        /\ Base(1) = c /\ Base(2) = b2 /\ Base(3) = b3 /\ 2 ^ Bits = b4
  <2>1. c * c \in Int /\ (c * c) * c \in Int /\ ((c * c) * c) * c \in Int
    BY Times
  <2> QED BY <1>5, <2>1, Bases
<1>7. /\ c * (c - 1) = c * c - c * 1 /\ c * 1 = c
      /\ b2 * (c - 1) = b2 * c - b2 * 1 /\ b2 * 1 = b2
      /\ b3 * (c - 1) = b3 * c - b3 * 1 /\ b3 * 1 = b3
  BY Times
<1>8. Val(AllOnes) = (c - 1) + c * (c - 1) + b2 * (c - 1) + b3 * (c - 1)
  BY <1>4, <1>5, <1>6 DEF Val
<1>9. Val(AllOnes) = b4 - 1
  BY <1>6, <1>7, <1>8
<1> QED BY <1>2, <1>6, <1>9

\* -1 has k ones.
LEMMA OnesIs ==
  ASSUME NEW k \in 0 .. Bits
  PROVE  /\ lu256MaskN(AllOnes, k) \in U256 /\ Val(lu256MaskN(AllOnes, k)) = 2 ^ k - 1
         /\ 2 ^ k \in Nat \ {0} /\ 2 ^ k <= 2 ^ Bits /\ 2 ^ Bits \in Nat \ {0}
<1>1. k \in Nat /\ Bits \in Nat /\ k <= Bits /\ Bits - k \in Nat /\ k + (Bits - k) = Bits
  BY WordBase
<1>2. PICK t \in Nat \ {0}, u \in Nat \ {0}, p \in Nat \ {0} : t = 2 ^ k /\ u = 2 ^ (Bits - k) /\ p = 2 ^ Bits /\ p = t * u
  <2>1. 2 ^ (k + (Bits - k)) = 2 ^ k * 2 ^ (Bits - k)
    BY <1>1, PowPlus
  <2>2. 2 ^ k \in Nat \ {0} /\ 2 ^ (Bits - k) \in Nat \ {0} /\ 2 ^ Bits \in Nat \ {0}
    BY <1>1, PowPos
  <2> QED BY <1>1, <2>1, <2>2
<1>3. t * (u - 1) = t * u - t * 1 /\ t * 1 = t /\ t <= t * u /\ t * (u - 1) \in Int
  BY Times, TimesPos
<1>4. p - 1 = (t - 1) + t * (u - 1) /\ t - 1 \in Nat /\ t - 1 < t /\ p - 1 \in Int /\ u - 1 \in Int
  BY <1>2, <1>3
<1>5. (p - 1) % t = t - 1
  BY <1>4, DivModUnique
<1>6. lu256MaskN(AllOnes, k) \in U256 /\ Val(lu256MaskN(AllOnes, k)) = Val(AllOnes) % 2 ^ k
  BY AllOnesIs, MaskIs
<1> QED BY <1>2, <1>3, <1>5, <1>6, AllOnesIs

\* A number with k bits and the sign bits.
LEMMA ExtendIs ==
  ASSUME NEW x \in U256, NEW k \in 0 .. Bits, Val(x) < 2 ^ k
  PROVE  LET r == lu256Bor(x, SignBits(k))
         IN r \in U256 /\ Val(r) = Val(x) + (2 ^ Bits - 2 ^ k)
<1> DEFINE r == lu256Bor(x, SignBits(k))
           c == SignBits(k)
           y == lu256MaskN(AllOnes, k)
<1>1. \A i \in 0 .. 3 : c[i] \in Word /\ c[i] = B - 1 - y[i] /\ OrWord(x[i], c[i]) = x[i] + c[i] /\ x[i] + c[i] \in Word
  BY OrSignBits
<1>2. \A i \in 0 .. 3 : r[i] = OrWord(x[i], c[i])
  BY DEF lu256Bor
<1>3. r = [i \in 0 .. 3 |-> r[i]]
  BY DEF lu256Bor
<1> HIDE DEF r, c
<1>4. Ints(x) /\ Val(x) \in Nat
  BY IntsOfWords
<1>5. Ints(AllOnes) /\ Val(AllOnes) = 2 ^ Bits - 1
  BY AllOnesIs, IntsOfWords
<1>6. Ints(y) /\ Val(y) = 2 ^ k - 1 /\ 2 ^ k \in Nat \ {0} /\ 2 ^ Bits \in Nat \ {0} /\ 2 ^ k <= 2 ^ Bits
  BY OnesIs, IntsOfWords
<1> HIDE DEF y
<1>7. PICK e \in Int : e = -1 /\ Ints(c) /\ Val(c) = Val(AllOnes) + e * Val(y)
  <2>0. PICK e \in Int : e = -1
    OBVIOUS
  <2>1. \A i \in 0 .. 3 : c[i] = AllOnes[i] + e * y[i]
    <3> SUFFICES ASSUME NEW i \in 0 .. 3 PROVE c[i] = AllOnes[i] + e * y[i]
      OBVIOUS
    <3>1. y[i] \in Int /\ B \in Int
      BY <1>6, WordBase DEF Ints
    <3>2. c[i] = B - 1 - y[i] /\ AllOnes[i] = B - 1
      BY <1>1 DEF AllOnes
    <3> QED BY <2>0, <3>1, <3>2
  <2>2. Ints(c) /\ Val(c) = Val(AllOnes) + e * Val(y)
    <3>1. Ints(AllOnes) /\ Ints(y) /\ e \in Int
      BY <1>5, <1>6
    <3> QED BY <2>1, <3>1, ValLinear
  <2> QED BY <2>0, <2>2
<1>8. Val(c) = 2 ^ Bits - 2 ^ k
  BY <1>5, <1>6, <1>7
<1>9. Ints(r) /\ Val(r) = Val(x) + 1 * Val(c)
  <2>1. \A i \in 0 .. 3 : r[i] = x[i] + 1 * c[i]
    <3> SUFFICES ASSUME NEW i \in 0 .. 3 PROVE r[i] = x[i] + 1 * c[i]
      OBVIOUS
    <3>1. c[i] \in Int
      BY <1>7 DEF Ints
    <3> QED BY <1>1, <1>2, <3>1
  <2> QED BY <1>4, <1>7, <2>1, ValLinear
<1>10. Val(r) = Val(x) + (2 ^ Bits - 2 ^ k)
  BY <1>6, <1>8, <1>9
<1>11. \A i \in 0 .. 3 : r[i] \in Word
  BY <1>1, <1>2
<1> QED BY <1>3, <1>10, <1>11, FourWords DEF r

-----------------------------------------------------------------------------
(* Signed numbers                                                           *)

\* An operand v as the number e, with half of the modulus and the modulus.
SignedNumber(v, e, h, p) ==
  /\ v \in U256 /\ e \in Nat /\ h \in Nat \ {0} /\ p \in Nat \ {0}
  /\ e = Val(v) /\ h = 2 ^ (n - 1) /\ p = 2 ^ n /\ p = h + h /\ 2 <= h /\ e < p
  /\ lu256BitN(v, n - 1) <=> e >= h
  /\ Signed(v) = IF e >= h THEN e - p ELSE e

\* Every operand is one.
LEMMA SignedIs ==
  ASSUME n \in 2 .. Bits, NEW v, Operand(v)
  PROVE  \E e, h, p : SignedNumber(v, e, h, p)
<1>1. /\ n \in 1 .. Bits /\ 2 ^ (n - 1) \in Nat \ {0} /\ 2 ^ n = 2 ^ (n - 1) + 2 ^ (n - 1)
      /\ 2 ^ n \in Nat \ {0} /\ n - 1 \in Nat
  BY Widths
<1>2. v \in U256 /\ Val(v) < 2 ^ n /\ Val(v) \in Nat
  BY IntsOfWords DEF Operand
<1>3. lu256BitN(v, n - 1) <=> Val(v) >= 2 ^ (n - 1)
  BY <1>1, <1>2, SignBit
<1>4. 2 <= 2 ^ (n - 1)
  <2>1. 2 ^ 0 = 1 /\ 0 + 1 = 1
    BY Bases DEF Base
  <2>2. 2 ^ (0 + 1) = 2 ^ 0 + 2 ^ 0
    BY PowSucc
  <2>3. 1 \in Nat /\ 1 <= n - 1
    BY <1>1
  <2>4. 2 ^ 1 <= 2 ^ (n - 1)
    BY <1>1, <2>3, PowMono
  <2> QED BY <2>1, <2>2, <2>4
<1>5. Signed(v) = IF Val(v) >= 2 ^ (n - 1) THEN Val(v) - 2 ^ n ELSE Val(v)
  BY DEF Signed
<1>6. SignedNumber(v, Val(v), 2 ^ (n - 1), 2 ^ n)
  BY <1>1, <1>2, <1>3, <1>4, <1>5 DEF SignedNumber
<1> QED BY <1>6

\* Negation.
LEMMA NegIs ==
  ASSUME n \in 2 .. Bits, NEW v \in U256
  PROVE  lu256NegN(v, n) \in U256 /\ Val(lu256NegN(v, n)) = (0 - Val(v)) % 2 ^ n
<1>1. lu256Sub(LUint256Zero, v) \in U256 /\ Val(lu256Sub(LUint256Zero, v)) = (0 - Val(v)) % 2 ^ Bits
  BY ValZero, SubIs
<1>2. n \in 0 .. Bits /\ Val(v) \in Nat
  BY Widths, IntsOfWords
<1>3. 0 - Val(v) \in Int
  BY <1>2
<1>4. ((0 - Val(v)) % 2 ^ Bits) % 2 ^ n = (0 - Val(v)) % 2 ^ n
  BY <1>2, <1>3, ModPow
<1>5. PICK r \in U256 : r = lu256Sub(LUint256Zero, v)
  BY <1>1
<1>6. lu256MaskN(r, n) \in U256 /\ Val(lu256MaskN(r, n)) = Val(r) % 2 ^ n
  BY <1>2, MaskIs
<1> QED BY <1>1, <1>4, <1>5, <1>6 DEF lu256NegN

\* The magnitude.
LEMMA AbsIs ==
  ASSUME n \in 2 .. Bits, NEW v, NEW e, NEW h, NEW p, SignedNumber(v, e, h, p)
  PROVE  /\ AbsN(v, n) \in U256 /\ Val(AbsN(v, n)) = Abs(Signed(v))
         /\ Abs(Signed(v)) = IF e >= h THEN p - e ELSE e
<1>1. /\ v \in U256 /\ e \in Nat /\ h \in Nat \ {0} /\ p \in Nat \ {0}
      /\ e = Val(v) /\ p = 2 ^ n /\ p = h + h /\ e < p
      /\ (lu256BitN(v, n - 1) <=> e >= h)
      /\ Signed(v) = IF e >= h THEN e - p ELSE e
  BY DEF SignedNumber
<1>2. Abs(Signed(v)) = IF e >= h THEN p - e ELSE e
  BY <1>1 DEF Abs
<1>3. CASE e >= h
  <2>1. AbsN(v, n) = lu256NegN(v, n)
    BY <1>1, <1>3 DEF AbsN
  <2>2. lu256NegN(v, n) \in U256 /\ Val(lu256NegN(v, n)) = (0 - e) % p
    BY <1>1, NegIs
  <2>3. PICK c \in Int, d \in Nat, f \in Int : c = 0 - e /\ d = p - e /\ f = -1 /\ d < p
    BY <1>1, <1>3
  <2>4. c = d + p * f
    <3>1. p * f = f * p /\ f * p = 0 - p
      BY <1>1, <2>3
    <3> QED BY <1>1, <2>3, <3>1
  <2>5. c % p = d
    <3>1. d < p /\ p \in Nat \ {0}
      BY <1>1, <2>3
    <3> QED BY <2>4, <3>1, DivModUnique
  <2> QED BY <1>2, <1>3, <2>1, <2>2, <2>3, <2>5
<1>4. CASE ~(e >= h)
  <2>1. AbsN(v, n) = v
    BY <1>1, <1>4 DEF AbsN
  <2> QED BY <1>1, <1>2, <1>4, <2>1
<1> QED BY <1>2, <1>3, <1>4

\* lu256SignedCmpN
LEMMA SignedCmpIs ==
  ASSUME Inv
  PROVE  (lu256SignedCmpN(a, b, n) < 0) <=> (Signed(a) < Signed(b))
<1>1. n \in 2 .. Bits /\ Operand(a) /\ Operand(b)
  BY DEF Inv
<1>2. PICK x, h, p : SignedNumber(a, x, h, p)
  BY <1>1, SignedIs
<1>3. PICK y, h2, p2 : SignedNumber(b, y, h2, p2)
  BY <1>1, SignedIs
<1>4. /\ a \in U256 /\ b \in U256 /\ x \in Nat /\ y \in Nat /\ h \in Nat /\ p \in Nat
      /\ x = Val(a) /\ y = Val(b) /\ x < p /\ y < p
      /\ (lu256BitN(a, n - 1) <=> x >= h) /\ (lu256BitN(b, n - 1) <=> y >= h)
      /\ Signed(a) = (IF x >= h THEN x - p ELSE x)
      /\ Signed(b) = (IF y >= h THEN y - p ELSE y)
  BY <1>2, <1>3 DEF SignedNumber
<1>5. lu256Cmp(a, b) \in {-1, 0, 1} /\ (lu256Cmp(a, b) = -1 <=> Val(a) < Val(b))
  BY <1>4, CmpIs
<1>6. (lu256Cmp(a, b) < 0) <=> x < y
  <2>1. lu256Cmp(a, b) < 0 <=> lu256Cmp(a, b) = -1
    BY <1>5
  <2> QED BY <1>4, <1>5, <2>1
<1>7. lu256BitN(a, n - 1) \in BOOLEAN /\ lu256BitN(b, n - 1) \in BOOLEAN
  BY DEF lu256BitN
<1>8. lu256SignedCmpN(a, b, n) = IF x >= h <=> y >= h THEN lu256Cmp(a, b) ELSE IF x >= h THEN -1 ELSE 1
  <2> DEFINE na == lu256BitN(a, n - 1)
             nb == lu256BitN(b, n - 1)
  <2>1. lu256SignedCmpN(a, b, n) = IF na = nb THEN lu256Cmp(a, b) ELSE IF na THEN -1 ELSE 1
    BY DEF lu256SignedCmpN
  <2>2. na \in BOOLEAN /\ nb \in BOOLEAN /\ (na <=> x >= h) /\ (nb <=> y >= h)
    BY <1>4, <1>7
  <2> HIDE DEF na, nb
  <2>3. (na = nb) <=> (x >= h <=> y >= h)
    BY <2>2
  <2> QED BY <2>1, <2>2, <2>3
<1>9. CASE x >= h <=> y >= h
  <2>1. lu256SignedCmpN(a, b, n) = lu256Cmp(a, b)
    BY <1>8, <1>9
  <2> QED BY <1>4, <1>6, <1>9, <2>1
<1>10. CASE ~(x >= h <=> y >= h)
  <2>1. lu256SignedCmpN(a, b, n) = IF x >= h THEN -1 ELSE 1
    BY <1>8, <1>10
  <2> QED BY <1>4, <1>10, <2>1
<1> QED BY <1>9, <1>10

\* lu256SignExtendN
LEMMA SignExtendIs ==
  ASSUME n \in 2 .. Bits, NEW v, NEW e, NEW h, NEW p, SignedNumber(v, e, h, p)
  PROVE  /\ lu256SignExtendN(v, n) \in U256
         /\ Val(lu256SignExtendN(v, n)) = IF e >= h THEN Signed(v) + 2 ^ Bits ELSE Signed(v)
         /\ lu256SignExtendN(v, n) = ToU(Signed(v), Bits)
<1>1. /\ v \in U256 /\ e \in Nat /\ h \in Nat \ {0} /\ p \in Nat \ {0}
      /\ e = Val(v) /\ p = 2 ^ n /\ p = h + h /\ e < p
      /\ (lu256BitN(v, n - 1) <=> e >= h)
      /\ Signed(v) = IF e >= h THEN e - p ELSE e
  BY DEF SignedNumber
<1>2. n \in 0 .. Bits /\ n <= Bits /\ n \in Nat /\ Bits \in Nat /\ 2 ^ n <= 2 ^ Bits
  BY Widths
<1>3. PICK m \in Nat \ {0} : m = 2 ^ Bits /\ e < m /\ p <= m
  BY <1>1, <1>2, Bases
<1> DEFINE r == lu256SignExtendN(v, n)
           i == Signed(v)
<1>4. r \in U256 /\ Val(r) = IF e >= h THEN i + m ELSE i
  <2>1. CASE ~(e >= h)
    <3>1. r = v
      BY <1>1, <2>1 DEF lu256SignExtendN
    <3> QED BY <1>1, <2>1, <3>1
  <2>2. CASE e >= h /\ n >= Bits
    <3>1. r = v /\ n = Bits
      BY <1>2, <2>2 DEF lu256SignExtendN
    <3>2. p = m
      BY <1>1, <1>3, <3>1
    <3> QED BY <1>1, <2>2, <3>1, <3>2
  <2>3. CASE e >= h /\ ~(n >= Bits)
    <3>1. r = lu256Bor(v, SignBits(n))
      BY <1>1, <2>3 DEF lu256SignExtendN, SignBits
    <3>2. lu256Bor(v, SignBits(n)) \in U256 /\ Val(lu256Bor(v, SignBits(n))) = Val(v) + (2 ^ Bits - 2 ^ n)
      BY <1>1, <1>2, ExtendIs
    <3>3. Val(r) = e + (m - p)
      BY <1>1, <1>3, <3>1, <3>2
    <3> QED BY <1>1, <1>3, <2>3, <3>1, <3>2, <3>3
  <2> QED BY <2>1, <2>2, <2>3
<1> HIDE DEF r
<1>5. i % m = Val(r)
  <2>1. CASE e >= h
    <3>1. PICK c \in Int, d \in Nat, f \in Int : c = i /\ d = i + m /\ f = -1 /\ d < m
      BY <1>1, <1>3, <2>1
    <3>2. c = d + m * f
      <4>1. m * f = f * m /\ f * m = 0 - m
        BY <3>1
      <4> QED BY <3>1, <4>1
    <3>3. c % m = d
      <4>1. d < m
        BY <3>1
      <4> QED BY <3>2, <4>1, DivModUnique
    <3> QED BY <1>4, <2>1, <3>1, <3>3
  <2>2. CASE ~(e >= h)
    <3>1. i = e
      BY <1>1, <2>2
    <3>2. e % m = e
      BY <1>1, <1>3, SmallMod
    <3> QED BY <1>4, <2>2, <3>1, <3>2
  <2> QED BY <2>1, <2>2
<1>6. r = ToU(i, Bits)
  BY <1>3, <1>4, <1>5, WordsOfVal DEF ToU
<1> QED BY <1>3, <1>4, <1>6 DEF r

\* A negative number that is smaller than its divisor.
LEMMA DivisionByMore ==
  ASSUME NEW x \in Int, x < 0, NEW t \in Nat \ {0}, 0 <= x + t
  PROVE  x \div t = -1
<1>1. PICK r \in Nat, f \in Int : r = x + t /\ f = -1 /\ r < t
  OBVIOUS
<1>2. x = r + t * f
  <2>1. t * f = f * t /\ f * t = 0 - t
    BY <1>1
  <2> QED BY <1>1, <2>1
<1>3. x \div t = f
  <2>1. r < t
    BY <1>1
  <2> QED BY <1>2, <2>1, DivModUnique
<1> QED BY <1>1, <1>3

\* lu256SarN, as far as there are sign bits.
LEMMA SarIs ==
  ASSUME Inv, NEW k \in 0 .. Bits, Signed(a) >= 0 \/ k >= n \/ k + n <= Bits
  PROVE  ShiftsSigned(k)
<1>1. n \in 2 .. Bits /\ Operand(a) /\ n \in 0 .. Bits /\ n \in Nat /\ k \in Nat /\ Bits \in Nat
  BY Widths DEF Inv
<1>2. PICK e, h, p : SignedNumber(a, e, h, p)
  BY <1>1, SignedIs
<1>3. /\ a \in U256 /\ e \in Nat /\ h \in Nat \ {0} /\ p \in Nat \ {0}
      /\ e = Val(a) /\ p = 2 ^ n /\ p = h + h /\ e < p
      /\ (lu256BitN(a, n - 1) <=> e >= h)
      /\ Signed(a) = IF e >= h THEN e - p ELSE e
  BY <1>2 DEF SignedNumber
<1>4. PICK t \in Nat \ {0} : t = 2 ^ k
  BY <1>1, PowPos
<1>5. PICK i \in Int : i = Signed(a) /\ (e >= h => i = e - p) /\ (~(e >= h) => i = e)
  BY <1>3
<1>6. i \div t \in Int
  BY DivModIs
<1> SUFFICES ASSUME TRUE PROVE lu256SarN(a, k, n) = ToU(i \div t, n)
  BY <1>4, <1>5 DEF ShiftsSigned
<1>7. CASE ~(e >= h)
  <2>1. lu256SarN(a, k, n) = lu256MaskN(lu256Shr(a, k), n)
    BY <1>3, <1>7 DEF lu256SarN
  <2>2. PICK s \in U256 : s = lu256Shr(a, k) /\ Val(s) = e \div t
    BY <1>3, <1>4, ShrIs
  <2>3. lu256MaskN(s, n) \in U256 /\ Val(lu256MaskN(s, n)) = Val(s) % 2 ^ n
    BY <1>1, MaskIs
  <2>4. Val(lu256MaskN(s, n)) = (i \div t) % 2 ^ n
    BY <1>5, <1>7, <2>2, <2>3
  <2> QED BY <1>1, <1>6, <2>1, <2>2, <2>3, <2>4, ReturnsIt
<1>8. CASE e >= h /\ k >= n
  <2>1. lu256SarN(a, k, n) = lu256MaskN(AllOnes, n)
    BY <1>3, <1>8 DEF lu256SarN
  <2>2. lu256MaskN(AllOnes, n) \in U256 /\ Val(lu256MaskN(AllOnes, n)) = p - 1
    BY <1>1, <1>3, OnesIs
  <2>3. p <= t
    BY <1>1, <1>3, <1>4, <1>8, PowMono
  <2>4. i \div t = -1
    <3>1. i < 0 /\ 0 <= i + t
      BY <1>3, <1>5, <1>8, <2>3
    <3> QED BY <3>1, DivisionByMore
  <2>5. (-1) % p = p - 1
    <3>1. PICK c \in Int, r \in Nat, f \in Int : c = -1 /\ r = p - 1 /\ f = -1 /\ r < p
      BY <1>3
    <3>2. c = r + p * f
      <4>1. p * f = f * p /\ f * p = 0 - p
        BY <1>3, <3>1
      <4> QED BY <1>3, <3>1, <4>1
    <3>3. c % p = r
      <4>1. r < p /\ p \in Nat \ {0}
        BY <1>3, <3>1
      <4> QED BY <3>2, <4>1, DivModUnique
    <3> QED BY <3>1, <3>3
  <2>6. Val(lu256MaskN(AllOnes, n)) = (i \div t) % 2 ^ n
    BY <1>3, <2>2, <2>4, <2>5
  <2> QED BY <1>1, <1>6, <2>1, <2>2, <2>6, ReturnsIt
<1>9. CASE e >= h /\ ~(k >= n)
  <2>1. k + n <= Bits
    BY <1>3, <1>5, <1>9
  <2>2. lu256SarN(a, k, n) = lu256MaskN(lu256Shr(lu256SignExtendN(a, n), k), n)
    BY <1>3, <1>9 DEF lu256SarN
  <2>3. PICK s \in U256, m \in Nat \ {0} : s = lu256SignExtendN(a, n) /\ m = 2 ^ Bits /\ Val(s) = i + m
    <3>1. /\ lu256SignExtendN(a, n) \in U256
          /\ Val(lu256SignExtendN(a, n)) = IF e >= h THEN Signed(a) + 2 ^ Bits ELSE Signed(a)
      BY <1>1, <1>2, SignExtendIs
    <3> QED BY <1>5, <1>9, <3>1, Bases
  <2>4. PICK j \in Nat, u \in Nat \ {0} : j = Bits - k - n /\ u = 2 ^ j /\ m = t * (p * u)
    <3>1. PICK j \in Nat : j = Bits - k - n /\ k + (n + j) = Bits /\ n + j \in Nat
      BY <1>1, <2>1
    <3>2. 2 ^ (k + (n + j)) = 2 ^ k * 2 ^ (n + j) /\ 2 ^ (n + j) = 2 ^ n * 2 ^ j
      BY <1>1, <3>1, PowPlus
    <3>3. 2 ^ j \in Nat \ {0}
      BY PowPos
    <3> QED BY <1>3, <1>4, <2>3, <3>1, <3>2, <3>3
  <2>5. (i + t * (p * u)) \div t = (i \div t) + p * u
    <3>1. p * u \in Int
      BY <1>3, Times
    <3> QED BY <3>1, AddMultiple
  <2>6. PICK r \in U256 : r = lu256Shr(s, k) /\ Val(r) = Val(s) \div t
    BY <1>4, ShrIs
  <2>7. Val(r) = (i \div t) + p * u
    BY <2>3, <2>4, <2>5, <2>6
  <2>8. lu256MaskN(r, n) \in U256 /\ Val(lu256MaskN(r, n)) = Val(r) % 2 ^ n
    BY <1>1, MaskIs
  <2>9. ((i \div t) + p * u) % p = (i \div t) % p
    <3>1. PICK z \in Int : z = i \div t
      BY <1>6
    <3>2. p \in Nat \ {0} /\ u \in Int
      BY <1>3
    <3>3. (z + p * u) % p = z % p
      BY <3>2, AddMultiple
    <3> QED BY <3>1, <3>3
  <2>10. Val(lu256MaskN(r, n)) = (i \div t) % 2 ^ n
    BY <1>3, <2>7, <2>8, <2>9
  <2> QED BY <1>1, <1>6, <2>2, <2>3, <2>6, <2>8, <2>10, ReturnsIt
<1> QED BY <1>7, <1>8, <1>9

\* The least number of n bits.
LEMMA MinSignedIs ==
  ASSUME n \in 2 .. Bits
  PROVE  MinSigned(n) \in U256 /\ Val(MinSigned(n)) = 2 ^ (n - 1)
<1>1. n - 1 \in 0 .. Bits /\ n - 1 \in Nat /\ 2 ^ (n - 1) \in Nat \ {0} /\ 2 ^ n = 2 ^ (n - 1) + 2 ^ (n - 1) /\ 2 ^ n <= 2 ^ Bits
      /\ 2 ^ Bits \in Nat \ {0}
  BY Widths
<1>2. LUint256One \in U256 /\ Val(LUint256One) = 1
  BY OneIs
<1>3. PICK s \in U256 : s = lu256Shl(LUint256One, n - 1) /\ Val(s) = (1 * 2 ^ (n - 1)) % 2 ^ Bits
  BY <1>1, <1>2, ShlIs
<1>4. Val(s) = 2 ^ (n - 1)
  <2>1. PICK t \in Nat, m \in Nat \ {0} : t = 2 ^ (n - 1) /\ m = 2 ^ Bits /\ t < m
    BY <1>1
  <2>2. t % m = t /\ 1 * t = t
    BY <2>1, SmallMod
  <2> QED BY <1>3, <2>1, <2>2
<1>5. \A i \in 0 .. 3 : OrWord(0, s[i]) = s[i]
  <2> SUFFICES ASSUME NEW i \in 0 .. 3 PROVE OrWord(0, s[i]) = s[i]
    OBVIOUS
  <2>1. s[i] \in Word /\ s[i] \in Nat /\ 0 \in Word /\ 0 \in 0 .. W
    BY Words, WordBase DEF U256, Word
  <2>2. 0 < 2 ^ 0 /\ s[i] = 2 ^ 0 * s[i]
    <3>1. 2 ^ 0 = 1
      BY Bases DEF Base
    <3> QED BY <2>1, <3>1
  <2>3. Apart(0, s[i])
    BY <2>1, <2>2 DEF Apart
  <2>4. OrWord(0, s[i]) = 0 + s[i]
    BY <2>1, <2>3, OrApart
  <2> QED BY <2>1, <2>4
<1>6. MinSigned(n) = s
  <2>1. MinSigned(n) = [i \in 0 .. 3 |-> OrWord(0, s[i])]
    BY <1>3 DEF MinSigned, lu256Bor, LUint256Zero
  <2>2. s = [i \in 0 .. 3 |-> s[i]]
    BY DEF U256
  <2> QED BY <1>5, <2>1, <2>2
<1> QED BY <1>4, <1>6

\* A quotient and a remainder are not larger than the dividend.
LEMMA QuotientBound ==
  ASSUME NEW x \in Nat, NEW y \in Nat \ {0}
  PROVE  /\ x \div y \in Nat /\ x % y \in Nat /\ x \div y <= x /\ x % y <= x
         /\ y >= 2 => (x \div y) + (x \div y) <= x
<1>1. x \div y \in Nat /\ x % y \in Nat /\ x = (x % y) + y * (x \div y)
  BY DivModIs
<1>2. PICK q \in Nat, r \in Nat : q = x \div y /\ r = x % y /\ x = r + y * q
  BY <1>1
<1>3. q * 1 <= q * y /\ q * 1 = q /\ q * y = y * q /\ y * q \in Nat
  BY TimesMono, Times
<1>4. ASSUME y >= 2 PROVE q + q <= x
  <2>1. q * 2 <= q * y /\ q * 2 = q + q
    BY <1>4, TimesMono
  <2> QED BY <1>2, <1>3, <2>1
<1> QED BY <1>2, <1>3, <1>4

\* The magnitudes of the operands and what the unsigned division makes of them.
Magnitudes(q, r, x, y) ==
  /\ q \in U256 /\ r \in U256 /\ x \in Nat /\ y \in Nat \ {0}
  /\ x = Abs(Signed(a)) /\ y = Abs(Signed(b))
  /\ q = lu256MaskN(lu256DivMod(AbsN(a, n), AbsN(b, n))[1], n) /\ Val(q) = x \div y /\ Val(q) < 2 ^ n
  /\ r = lu256MaskN(lu256DivMod(AbsN(a, n), AbsN(b, n))[2], n) /\ Val(r) = x % y /\ Val(r) < 2 ^ n

\* There are such numbers when the divisor is not zero.
LEMMA MagnitudesDivide ==
  ASSUME Inv, Signed(b) # 0, Divides(AbsN(a, n), AbsN(b, n))
  PROVE  \E q, r, x, y : Magnitudes(q, r, x, y)
<1>1. n \in 2 .. Bits /\ Operand(a) /\ Operand(b) /\ n \in 0 .. Bits
  BY Widths DEF Inv
<1>2. PICK e, h, p : SignedNumber(a, e, h, p)
  BY <1>1, SignedIs
<1>3. PICK f, h2, p2 : SignedNumber(b, f, h2, p2)
  BY <1>1, SignedIs
<1>4. /\ AbsN(a, n) \in U256 /\ Val(AbsN(a, n)) = Abs(Signed(a))
      /\ Abs(Signed(a)) = IF e >= h THEN p - e ELSE e
  BY <1>1, <1>2, AbsIs
<1>5. /\ AbsN(b, n) \in U256 /\ Val(AbsN(b, n)) = Abs(Signed(b))
      /\ Abs(Signed(b)) = IF f >= h2 THEN p2 - f ELSE f
  BY <1>1, <1>3, AbsIs
<1>6. PICK x \in Nat : x = Abs(Signed(a)) /\ x < 2 ^ n /\ 2 ^ n \in Nat
  BY <1>2, <1>4 DEF SignedNumber
<1>7. PICK y \in Nat \ {0} : y = Abs(Signed(b))
  <2>1. f \in Nat /\ p2 \in Nat /\ h2 \in Nat /\ f < p2 /\ Signed(b) = IF f >= h2 THEN f - p2 ELSE f
    BY <1>3 DEF SignedNumber
  <2> QED BY <1>5, <2>1
<1> DEFINE qq == lu256DivMod(AbsN(a, n), AbsN(b, n))[1]
           rr == lu256DivMod(AbsN(a, n), AbsN(b, n))[2]
<1>8. qq \in U256 /\ rr \in U256
  <2>1. ~lu256IsZero(AbsN(b, n))
    BY <1>5, <1>7, ValZero
  <2> QED BY <1>4, <1>5, <2>1, DivModExactly
<1>9. Val(qq) = x \div y /\ Val(rr) = x % y
  BY <1>4, <1>5, <1>6, <1>7 DEF Divides
<1> HIDE DEF qq, rr
<1>10. x \div y \in Nat /\ x % y \in Nat /\ x \div y <= x /\ x % y <= x
  BY QuotientBound
<1>11. Val(qq) < 2 ^ n /\ Val(rr) < 2 ^ n
  BY <1>6, <1>9, <1>10
<1>12. lu256MaskN(qq, n) = qq /\ lu256MaskN(rr, n) = rr
  BY <1>1, <1>8, <1>11, MaskIs
<1>13. Magnitudes(qq, rr, x, y)
  BY <1>6, <1>7, <1>8, <1>9, <1>11, <1>12 DEF Magnitudes, qq, rr
<1> QED BY <1>13

\* A number of less than n bits, and its negation.
LEMMA WithSign ==
  ASSUME n \in 2 .. Bits, NEW v \in U256, Val(v) < 2 ^ n
  PROVE  /\ Val(v) \in Int /\ Val(v) = Val(v) % 2 ^ n
         /\ 0 - Val(v) \in Int
         /\ lu256NegN(v, n) \in U256 /\ Val(lu256NegN(v, n)) = (0 - Val(v)) % 2 ^ n
<1>1. Val(v) \in Nat /\ 2 ^ n \in Nat \ {0}
  BY Widths, IntsOfWords
<1>2. PICK x \in Nat, p \in Nat \ {0} : x = Val(v) /\ p = 2 ^ n /\ x < p
  BY <1>1
<1>3. x % p = x
  BY <1>2, SmallMod
<1>4. lu256NegN(v, n) \in U256 /\ Val(lu256NegN(v, n)) = (0 - x) % p
  BY <1>2, NegIs
<1> QED BY <1>2, <1>3, <1>4

\* The signs of the operands.
LEMMA Signs ==
  ASSUME Inv
  PROVE  /\ lu256BitN(a, n - 1) \in BOOLEAN /\ lu256BitN(b, n - 1) \in BOOLEAN
         /\ Signed(a) \in Int /\ Signed(b) \in Int
         /\ lu256BitN(a, n - 1) <=> Signed(a) < 0
         /\ lu256BitN(b, n - 1) <=> Signed(b) < 0
<1>1. n \in 2 .. Bits /\ Operand(a) /\ Operand(b)
  BY DEF Inv
<1>2. PICK e, h, p : SignedNumber(a, e, h, p)
  BY <1>1, SignedIs
<1>3. PICK f, h2, p2 : SignedNumber(b, f, h2, p2)
  BY <1>1, SignedIs
<1>4. /\ e \in Nat /\ h \in Nat /\ p \in Nat /\ e < p
      /\ (lu256BitN(a, n - 1) <=> e >= h) /\ Signed(a) = IF e >= h THEN e - p ELSE e
  BY <1>2 DEF SignedNumber
<1>5. /\ f \in Nat /\ h2 \in Nat /\ p2 \in Nat /\ f < p2
      /\ (lu256BitN(b, n - 1) <=> f >= h2) /\ Signed(b) = IF f >= h2 THEN f - p2 ELSE f
  BY <1>3 DEF SignedNumber
<1>6. lu256BitN(a, n - 1) \in BOOLEAN /\ lu256BitN(b, n - 1) \in BOOLEAN
  BY DEF lu256BitN
<1>7. Signed(a) \in Int /\ (lu256BitN(a, n - 1) <=> Signed(a) < 0)
  BY <1>4
<1>8. Signed(b) \in Int /\ (lu256BitN(b, n - 1) <=> Signed(b) < 0)
  BY <1>5
<1> QED BY <1>6, <1>7, <1>8

\* Masking leaves an operand.
LEMMA MaskedOperand ==
  ASSUME Inv
  PROVE  /\ lu256MaskN(a, n) = a /\ lu256MaskN(b, n) = b /\ a \in U256 /\ b \in U256
         /\ lu256IsZero(b) <=> Signed(b) = 0
<1>1. n \in 2 .. Bits /\ Operand(a) /\ Operand(b) /\ n \in 0 .. Bits
  BY Widths DEF Inv
<1>2. PICK f, h, p : SignedNumber(b, f, h, p)
  BY <1>1, SignedIs
<1>3. /\ f \in Nat /\ h \in Nat \ {0} /\ p \in Nat /\ f < p /\ f = Val(b)
      /\ Signed(b) = IF f >= h THEN f - p ELSE f
  BY <1>2 DEF SignedNumber
<1>4. lu256MaskN(a, n) = a /\ lu256MaskN(b, n) = b /\ a \in U256 /\ b \in U256
  BY <1>1, MaskIs DEF Operand
<1>5. lu256IsZero(b) <=> f = 0
  BY <1>3, <1>4, ValZero
<1> QED BY <1>3, <1>4, <1>5

\* lu256SignedDivN
LEMMA SignedDivIs ==
  ASSUME Inv, NEW q, NEW r, NEW x, NEW y, Magnitudes(q, r, x, y)
  PROVE  LET d == lu256SignedDivN(a, b, n)
             i == IF Signed(a) < 0 <=> Signed(b) < 0 THEN x \div y ELSE 0 - (x \div y)
         IN d \in U256 /\ i \in Int /\ Val(d) = i % 2 ^ n
<1>1. /\ q \in U256 /\ q = lu256MaskN(lu256DivMod(AbsN(a, n), AbsN(b, n))[1], n) /\ Val(q) = x \div y
  BY DEF Magnitudes
<1>2. n \in 2 .. Bits
  BY DEF Inv
<1>3. Val(q) < 2 ^ n
  BY DEF Magnitudes
<1> DEFINE na == lu256BitN(a, n - 1)
           nb == lu256BitN(b, n - 1)
<1>4. lu256SignedDivN(a, b, n) = IF na # nb THEN lu256NegN(q, n) ELSE q
  BY <1>1 DEF lu256SignedDivN
<1>5. na \in BOOLEAN /\ nb \in BOOLEAN /\ (na <=> Signed(a) < 0) /\ (nb <=> Signed(b) < 0)
  BY Signs
<1> HIDE DEF na, nb
<1>6. CASE Signed(a) < 0 <=> Signed(b) < 0
  <2>1. ~(na # nb)
    BY <1>5, <1>6
  <2>2. q \in U256 /\ Val(q) \in Int /\ Val(q) = Val(q) % 2 ^ n
    BY <1>1, <1>2, <1>3, WithSign
  <2> QED BY <1>1, <1>4, <1>6, <2>1, <2>2
<1>7. CASE ~(Signed(a) < 0 <=> Signed(b) < 0)
  <2>1. na # nb
    BY <1>5, <1>7
  <2>2. lu256NegN(q, n) \in U256 /\ 0 - Val(q) \in Int /\ Val(lu256NegN(q, n)) = (0 - Val(q)) % 2 ^ n
    BY <1>1, <1>2, <1>3, WithSign
  <2> QED BY <1>1, <1>4, <1>7, <2>1, <2>2
<1> QED BY <1>6, <1>7

\* lu256SignedModN
LEMMA SignedModIs ==
  ASSUME Inv, NEW q, NEW r, NEW x, NEW y, Magnitudes(q, r, x, y)
  PROVE  LET d == lu256SignedModN(a, b, n)
             i == IF Signed(a) < 0 THEN 0 - (x % y) ELSE x % y
         IN d \in U256 /\ i \in Int /\ Val(d) = i % 2 ^ n
<1>1. /\ r \in U256 /\ r = lu256MaskN(lu256DivMod(AbsN(a, n), AbsN(b, n))[2], n) /\ Val(r) = x % y
  BY DEF Magnitudes
<1>2. n \in 2 .. Bits
  BY DEF Inv
<1>3. Val(r) < 2 ^ n
  BY DEF Magnitudes
<1>4. lu256SignedModN(a, b, n) = IF lu256BitN(a, n - 1) THEN lu256NegN(r, n) ELSE r
  BY <1>1 DEF lu256SignedModN
<1>5. lu256BitN(a, n - 1) <=> Signed(a) < 0
  BY Signs
<1>6. CASE Signed(a) < 0
  <2>1. lu256NegN(r, n) \in U256 /\ 0 - Val(r) \in Int /\ Val(lu256NegN(r, n)) = (0 - Val(r)) % 2 ^ n
    BY <1>1, <1>2, <1>3, WithSign
  <2> QED BY <1>1, <1>4, <1>5, <1>6, <2>1
<1>7. CASE ~(Signed(a) < 0)
  <2>1. r \in U256 /\ Val(r) \in Int /\ Val(r) = Val(r) % 2 ^ n
    BY <1>1, <1>2, <1>3, WithSign
  <2> QED BY <1>1, <1>4, <1>5, <1>7, <2>1
<1> QED BY <1>6, <1>7

\* The one quotient that does not fit.
LEMMA LeastByMinusOne ==
  ASSUME Inv
  PROVE  /\ a = MinSigned(n) <=> Signed(a) = -(2 ^ (n - 1))
         /\ b = MinusOne(n) <=> Signed(b) = -1
         /\ Abs(Signed(a)) <= 2 ^ (n - 1) /\ Signed(a) < 2 ^ (n - 1) /\ 2 ^ (n - 1) \in Nat /\ 2 <= 2 ^ (n - 1)
<1>1. n \in 2 .. Bits /\ Operand(a) /\ Operand(b) /\ n \in 0 .. Bits
  BY Widths DEF Inv
<1>2. PICK e, h, p : SignedNumber(a, e, h, p)
  BY <1>1, SignedIs
<1>3. PICK f, h2, p2 : SignedNumber(b, f, h2, p2)
  BY <1>1, SignedIs
<1>4. /\ a \in U256 /\ e \in Nat /\ h \in Nat /\ p \in Nat /\ e < p /\ e = Val(a) /\ p = h + h /\ h = 2 ^ (n - 1) /\ 2 <= h
      /\ Signed(a) = IF e >= h THEN e - p ELSE e
  BY <1>2 DEF SignedNumber
<1>5. /\ b \in U256 /\ f \in Nat /\ h2 \in Nat \ {0} /\ p2 \in Nat /\ f < p2 /\ f = Val(b) /\ p2 = h2 + h2 /\ p2 = 2 ^ n
      /\ Signed(b) = IF f >= h2 THEN f - p2 ELSE f
  BY <1>3 DEF SignedNumber
<1>6. MinSigned(n) \in U256 /\ Val(MinSigned(n)) = h
  BY <1>1, <1>4, MinSignedIs
<1>7. MinusOne(n) \in U256 /\ Val(MinusOne(n)) = p2 - 1
  BY <1>1, <1>5, OnesIs DEF MinusOne
<1>8. a = MinSigned(n) <=> e = h
  BY <1>4, <1>6, CmpIs
<1>9. b = MinusOne(n) <=> f = p2 - 1
  BY <1>5, <1>7, CmpIs
<1>10. e = h <=> Signed(a) = -h
  BY <1>4
<1>11. f = p2 - 1 <=> Signed(b) = -1
  BY <1>5
<1>12. Abs(Signed(a)) <= h /\ Signed(a) < h
  BY <1>4 DEF Abs
<1> QED BY <1>4, <1>8, <1>9, <1>10, <1>11, <1>12

\* A truncated quotient is in range, but for that one.
LEMMA QuotientFits ==
  ASSUME NEW x \in Int, NEW y \in Int, NEW h \in Nat, 2 <= h, -h <= x, x < h, y # 0, NEW q \in Nat,
         q <= Abs(x), Abs(y) >= 2 => q + q <= Abs(x), Abs(y) = 1 => q = Abs(x),
         NEW i, i = IF x < 0 <=> y < 0 THEN q ELSE 0 - q
  PROVE  i \in -h .. h - 1 <=> ~(x = -h /\ y = -1)
<1>1. Abs(x) = (IF x < 0 THEN -x ELSE x) /\ Abs(y) = IF y < 0 THEN -y ELSE y
  BY DEF Abs
<1>2. CASE x < 0 /\ y < 0
  BY <1>1, <1>2
<1>3. CASE ~(x < 0) /\ ~(y < 0)
  BY <1>1, <1>3
<1>4. CASE x < 0 /\ ~(y < 0)
  BY <1>1, <1>4
<1>5. CASE ~(x < 0) /\ y < 0
  BY <1>1, <1>5
<1> QED BY <1>2, <1>3, <1>4, <1>5

\* The reference for the sign of a result.
LEMMA SignProducts ==
  ASSUME NEW x \in Int, NEW y \in Int, NEW q \in Nat
  PROVE  /\ Sgn(x) * Sgn(y) * q = IF x < 0 <=> y < 0 THEN q ELSE 0 - q
         /\ Sgn(x) * q = IF x < 0 THEN 0 - q ELSE q
<1>1. Sgn(x) = (IF x < 0 THEN -1 ELSE 1) /\ Sgn(y) = IF y < 0 THEN -1 ELSE 1
  BY DEF Sgn
<1>2. (-1) * (-1) = 1 /\ (-1) * 1 = -1 /\ 1 * (-1) = -1 /\ 1 * 1 = 1
  OBVIOUS
<1>3. 1 * q = q /\ (-1) * q = 0 - q
  OBVIOUS
<1>4. CASE x < 0 /\ y < 0
  BY <1>1, <1>2, <1>3, <1>4
<1>5. CASE ~(x < 0) /\ ~(y < 0)
  BY <1>1, <1>2, <1>3, <1>5
<1>6. CASE x < 0 /\ ~(y < 0)
  BY <1>1, <1>2, <1>3, <1>6
<1>7. CASE ~(x < 0) /\ y < 0
  BY <1>1, <1>2, <1>3, <1>7
<1> QED BY <1>4, <1>5, <1>6, <1>7

\* cryptoSignedDiv
LEMMA SignedDivision ==
  ASSUME Inv, Signed(b) # 0, Divides(AbsN(a, n), AbsN(b, n))
  PROVE  cryptoSignedDiv(a, b, n)
           = In(SignedRange, Sgn(Signed(a)) * Sgn(Signed(b)) * (Abs(Signed(a)) \div Abs(Signed(b))))
<1>1. PICK q, r, x, y : Magnitudes(q, r, x, y)
  BY MagnitudesDivide
<1>2. x \in Nat /\ y \in Nat \ {0} /\ x = Abs(Signed(a)) /\ y = Abs(Signed(b))
  BY <1>1 DEF Magnitudes
<1>3. n \in 2 .. Bits
  BY DEF Inv
<1> DEFINE d == lu256SignedDivN(a, b, n)
           k == x \div y
           i == IF Signed(a) < 0 <=> Signed(b) < 0 THEN k ELSE 0 - k
           reverts == Signed(a) = -(2 ^ (n - 1)) /\ Signed(b) = -1
<1>4. d \in U256 /\ i \in Int /\ Val(d) = i % 2 ^ n
  BY <1>1, SignedDivIs
<1>5. cryptoSignedDiv(a, b, n) = IF reverts THEN Reverts ELSE {d}
  <2>1. lu256MaskN(a, n) = a /\ lu256MaskN(b, n) = b /\ ~lu256IsZero(b)
    BY MaskedOperand
  <2>2. a = MinSigned(n) /\ b = MinusOne(n) <=> reverts
    BY LeastByMinusOne
  <2> HIDE DEF d, reverts
  <2> QED BY <2>1, <2>2 DEF cryptoSignedDiv, d
<1>6. k \in Nat /\ k <= x /\ (y >= 2 => k + k <= x) /\ (y = 1 => k = x)
  <2>1. k \in Nat /\ k <= x /\ (y >= 2 => k + k <= x)
    BY <1>2, QuotientBound
  <2>2. x \div 1 = x
    BY <1>2
  <2> QED BY <2>1, <2>2
<1>7. Signed(a) \in Int /\ Signed(b) \in Int
  BY Signs
<1>8. Sgn(Signed(a)) * Sgn(Signed(b)) * k = i
  <2> HIDE DEF k
  <2> QED BY <1>6, <1>7, SignProducts
<1>9. i \in SignedRange <=> ~reverts
  <2>1. /\ Abs(Signed(a)) <= 2 ^ (n - 1) /\ Signed(a) < 2 ^ (n - 1) /\ 2 ^ (n - 1) \in Nat /\ 2 <= 2 ^ (n - 1)
    BY LeastByMinusOne
  <2>2. PICK h \in Nat, u \in Int, v \in Int :
          h = 2 ^ (n - 1) /\ 2 <= h /\ u = Signed(a) /\ v = Signed(b) /\ Abs(u) <= h /\ u < h /\ v # 0
    BY <1>7, <2>1
  <2>3. -h <= u
    BY <2>2 DEF Abs
  <2>4. k <= Abs(u) /\ (Abs(v) >= 2 => k + k <= Abs(u)) /\ (Abs(v) = 1 => k = Abs(u))
    BY <1>2, <1>6, <2>2
  <2>5. i = IF u < 0 <=> v < 0 THEN k ELSE 0 - k
    BY <2>2
  <2> HIDE DEF k, i
  <2>6. i \in -h .. h - 1 <=> ~(u = -h /\ v = -1)
    BY <1>6, <2>2, <2>3, <2>4, <2>5, QuotientFits
  <2> QED BY <2>2, <2>6 DEF SignedRange
<1>10. reverts \in BOOLEAN
  OBVIOUS
<1> HIDE DEF d, i, reverts
<1>11. (IF reverts THEN Reverts ELSE {d}) = In(SignedRange, i)
  BY <1>3, <1>4, <1>9, <1>10, ReturnsSigned
<1>12. Abs(Signed(a)) \div Abs(Signed(b)) = k
  BY <1>2
<1> HIDE DEF k
<1>13. cryptoSignedDiv(a, b, n) = In(SignedRange, i)
  BY <1>5, <1>11
<1>14. i = Sgn(Signed(a)) * Sgn(Signed(b)) * (Abs(Signed(a)) \div Abs(Signed(b)))
  BY <1>8, <1>12
<1> QED BY <1>13, <1>14, Zenon

\* cryptoSignedMod
LEMMA SignedRemainder ==
  ASSUME Inv, Signed(b) # 0, Divides(AbsN(a, n), AbsN(b, n))
  PROVE  cryptoSignedMod(a, b, n) = {ToU(Sgn(Signed(a)) * (Abs(Signed(a)) % Abs(Signed(b))), n)}
<1>1. PICK q, r, x, y : Magnitudes(q, r, x, y)
  BY MagnitudesDivide
<1>2. x \in Nat /\ y \in Nat \ {0} /\ x = Abs(Signed(a)) /\ y = Abs(Signed(b))
  BY <1>1 DEF Magnitudes
<1> DEFINE d == lu256SignedModN(a, b, n)
           k == x % y
           i == IF Signed(a) < 0 THEN 0 - k ELSE k
<1>3. d \in U256 /\ i \in Int /\ Val(d) = i % 2 ^ n /\ n \in 2 .. Bits
  BY <1>1, SignedModIs DEF Inv
<1>4. cryptoSignedMod(a, b, n) = {d}
  <2>1. lu256MaskN(b, n) = b /\ ~lu256IsZero(b)
    BY MaskedOperand
  <2> QED BY <2>1 DEF cryptoSignedMod
<1>5. k \in Nat
  BY <1>2, QuotientBound
<1>6. Signed(a) \in Int
  BY Signs
<1>7. Sgn(Signed(a)) * k = i
  <2> HIDE DEF k
  <2>1. 0 \in Int
    OBVIOUS
  <2> QED BY <1>5, <1>6, <2>1, SignProducts
<1> HIDE DEF d, i
<1>8. ToU(i, n) = d
  BY <1>3, ReturnsIt
<1> QED BY <1>2, <1>4, <1>7, <1>8

\* Signed operations in a state of the specification.
LEMMA Signing ==
  ASSUME Inv
  PROVE  SignedExactly
<1> DEFINE x == Signed(a)
           y == Signed(b)
           divides == y # 0 /\ Divides(AbsN(a, n), AbsN(b, n))
<1>1. divides => cryptoSignedDiv(a, b, n) = In(SignedRange, Sgn(x) * Sgn(y) * (Abs(x) \div Abs(y)))
  BY SignedDivision
<1>2. divides => cryptoSignedMod(a, b, n) = {ToU(Sgn(x) * (Abs(x) % Abs(y)), n)}
  BY SignedRemainder
<1>3. y = 0 => cryptoSignedDiv(a, b, n) = Reverts /\ cryptoSignedMod(a, b, n) = Reverts
  <2>1. lu256MaskN(b, n) = b /\ (lu256IsZero(b) <=> y = 0)
    BY MaskedOperand
  <2> QED BY <2>1 DEF cryptoSignedDiv, cryptoSignedMod
<1>4. (lu256SignedCmpN(a, b, n) < 0) <=> (x < y)
  BY SignedCmpIs
<1>5. lu256SignExtendN(a, n) = ToU(x, Bits)
  <2>1. n \in 2 .. Bits /\ Operand(a)
    BY DEF Inv
  <2>2. PICK e, h, p : SignedNumber(a, e, h, p)
    BY <2>1, SignedIs
  <2> QED BY <2>1, <2>2, SignExtendIs
<1>6. \A k \in 0 .. Bits : x >= 0 \/ k >= n \/ k + n <= Bits => ShiftsSigned(k)
  BY SarIs
<1> QED BY <1>1, <1>2, <1>3, <1>4, <1>5, <1>6 DEF SignedExactly

\* Signed operations are the truncating ones of the integers for words of every size
\* and types of every width, wherever the division of the magnitudes is exact:
\* a division reverts by zero and on the one quotient that does not fit.
THEOREM SigningIsExact == Spec => []SignedExactly
<1>1. Inv => SignedExactly
  BY Signing
<1> QED BY <1>1, Invariant, PTL

\* The magnitudes of the operands are numbers, and that of a divisor is not 0.
LEMMA MagnitudesAre ==
  ASSUME Inv, ~lu256IsZero(b)
  PROVE  AbsN(a, n) \in U256 /\ AbsN(b, n) \in U256 /\ ~lu256IsZero(AbsN(b, n))
<1>0. b \in U256 /\ n \in 2 .. Bits /\ Operand(a) /\ Operand(b)
  BY DEF Inv, Operand
<1>1. PICK e, h, p : SignedNumber(a, e, h, p)
  BY <1>0, SignedIs
<1>2. PICK f, h2, p2 : SignedNumber(b, f, h2, p2)
  BY <1>0, SignedIs
<1>3. AbsN(b, n) \in U256 /\ Val(AbsN(b, n)) = IF f >= h2 THEN p2 - f ELSE f
  BY <1>0, <1>2, AbsIs
<1>4. f \in Nat /\ p2 \in Nat /\ f < p2 /\ f # 0
  BY <1>0, <1>2, ValZero DEF SignedNumber
<1>5. Val(AbsN(b, n)) # 0
  BY <1>3, <1>4
<1>6. AbsN(a, n) \in U256
  BY <1>0, <1>1, AbsIs
<1> QED BY <1>3, <1>5, <1>6, ValZero

\* What cryptoSignedDiv and cryptoSignedMod promise, for the operands whose
\* magnitudes lu256DivMod divides without a capped estimate.
SignedDivides ==
  LET x == Signed(a)
      y == Signed(b)
  IN y # 0 /\ (dLen(AbsN(b, n)) = 1 \/ Estimable(AbsN(a, n), AbsN(b, n))) =>
       /\ cryptoSignedDiv(a, b, n) = In(SignedRange, Sgn(x) * Sgn(y) * (Abs(x) \div Abs(y)))
       /\ cryptoSignedMod(a, b, n) = {ToU(Sgn(x) * (Abs(x) % Abs(y)), n)}

\* From both theorems above: signed quotient and remainder are those of the integers,
\* rounded towards zero, with no hypothesis on what the division of the magnitudes
\* returns.
THEOREM SignedDivisionIsExact == Spec => []SignedDivides
<1>1. ASSUME Inv PROVE SignedDivides
  <2> SUFFICES ASSUME Signed(b) # 0, dLen(AbsN(b, n)) = 1 \/ Estimable(AbsN(a, n), AbsN(b, n))
               PROVE  /\ cryptoSignedDiv(a, b, n)
                           = In(SignedRange, Sgn(Signed(a)) * Sgn(Signed(b)) * (Abs(Signed(a)) \div Abs(Signed(b))))
                      /\ cryptoSignedMod(a, b, n) = {ToU(Sgn(Signed(a)) * (Abs(Signed(a)) % Abs(Signed(b))), n)}
    BY DEF SignedDivides
  <2>1. ~lu256IsZero(b)
    BY <1>1, MaskedOperand
  <2>2. Divides(AbsN(a, n), AbsN(b, n))
    BY <1>1, <2>1, MagnitudesAre, DivModExactly
  <2> QED BY <1>1, <2>2, SignedDivision, SignedRemainder
<1> QED BY <1>1, Invariant, PTL

\* A masked or negated number has no bit beyond the width.
LEMMA Bounded ==
  ASSUME n \in 2 .. Bits, NEW v \in U256
  PROVE  Val(lu256MaskN(v, n)) < 2 ^ n /\ Val(lu256NegN(v, n)) < 2 ^ n /\ lu256MaskN(v, n) \in U256
<1>1. PICK x \in Nat, p \in Nat \ {0} : x = Val(v) /\ p = 2 ^ n
  BY Widths, IntsOfWords
<1>2. n \in 0 .. Bits /\ 0 - x \in Int
  BY Widths
<1>3. x % p < p /\ (0 - x) % p < p
  BY <1>2, DivModIs
<1>4. Val(lu256MaskN(v, n)) = x % p /\ lu256MaskN(v, n) \in U256
  BY <1>1, <1>2, MaskIs
<1>5. Val(lu256NegN(v, n)) = (0 - x) % p
  BY <1>1, NegIs
<1> QED BY <1>1, <1>3, <1>4, <1>5

\* Results have four words, and those of n-bit operations no bit beyond n: for words
\* of every size, the division without an exact estimate included.
THEOREM TypesHold == Spec => []TypeOK
<1>1. ASSUME Inv PROVE TypeOK
  <2>0. a \in U256 /\ b \in U256 /\ n \in 2 .. Bits /\ n \in 0 .. Bits /\ Operand(a) /\ Operand(b)
    BY <1>1, Widths DEF Inv, Operand
  <2>1. \A v \in {lu256Add(a, b), lu256Sub(a, b), lu256Mul(a, b), lu256Bnot(a), lu256Shl(a, n), lu256Shr(a, n)} :
          v \in U256
    <3>1. lu256Add(a, b) \in U256 /\ lu256Sub(a, b) \in U256 /\ lu256Mul(a, b) \in U256
      BY <2>0, AddIs, SubIs, MulWords
    <3>2. lu256Shl(a, n) \in U256 /\ lu256Shr(a, n) \in U256
      BY <2>0, ShlIs, ShrIs
    <3>3. lu256Bnot(a) \in U256
      <4>1. \A i \in 0 .. 3 : B - 1 - a[i] \in Word
        <5> SUFFICES ASSUME NEW i \in 0 .. 3 PROVE B - 1 - a[i] \in Word
          OBVIOUS
        <5>1. a[i] \in Nat /\ a[i] <= B - 1 /\ B \in Nat
          BY <2>0, Words, WordBase
        <5> QED BY <5>1 DEF Word
      <4> QED BY <4>1 DEF lu256Bnot, U256
    <3> QED BY <3>1, <3>2, <3>3
  <2>2. \A v \in cryptoSignedCheckedAdd(a, b, n) \cup cryptoSignedCheckedSub(a, b, n) : Val(v) < 2 ^ n
    <3>1. Val(lu256MaskN(lu256Add(a, b), n)) < 2 ^ n /\ Val(lu256MaskN(lu256Sub(a, b), n)) < 2 ^ n
      BY <2>0, AddIs, SubIs, Bounded
    <3>2. cryptoSignedCheckedAdd(a, b, n) \subseteq {lu256MaskN(lu256Add(a, b), n)}
      BY DEF cryptoSignedCheckedAdd, Reverts
    <3>3. cryptoSignedCheckedSub(a, b, n) \subseteq {lu256MaskN(lu256Sub(a, b), n)}
      BY DEF cryptoSignedCheckedSub, Reverts
    <3> QED BY <3>1, <3>2, <3>3
  <2>3. ASSUME NEW v \in cryptoSignedDiv(a, b, n) \cup cryptoSignedMod(a, b, n) PROVE Val(v) < 2 ^ n
    <3>1. ~lu256IsZero(b)
      <4>1. ~lu256IsZero(lu256MaskN(b, n))
        BY <2>3 DEF cryptoSignedDiv, cryptoSignedMod, Reverts
      <4> QED BY <1>1, <4>1, MaskedOperand
    <3>2. AbsN(a, n) \in U256 /\ AbsN(b, n) \in U256 /\ ~lu256IsZero(AbsN(b, n))
      BY <1>1, <3>1, MagnitudesAre
    <3>3. PICK q \in U256, r \in U256 :
            q = lu256DivMod(AbsN(a, n), AbsN(b, n))[1] /\ r = lu256DivMod(AbsN(a, n), AbsN(b, n))[2]
      BY <3>2, DivModExactly
    <3>4. /\ Val(lu256MaskN(q, n)) < 2 ^ n /\ Val(lu256NegN(lu256MaskN(q, n), n)) < 2 ^ n
          /\ Val(lu256MaskN(r, n)) < 2 ^ n /\ Val(lu256NegN(lu256MaskN(r, n), n)) < 2 ^ n
      BY <2>0, Bounded
    <3>5. v = lu256SignedDivN(a, b, n) \/ v = lu256SignedModN(a, b, n)
      BY <2>3 DEF cryptoSignedDiv, cryptoSignedMod, Reverts
    <3>6. /\ lu256SignedDivN(a, b, n) \in {lu256MaskN(q, n), lu256NegN(lu256MaskN(q, n), n)}
          /\ lu256SignedModN(a, b, n) \in {lu256MaskN(r, n), lu256NegN(lu256MaskN(r, n), n)}
      BY <3>3 DEF lu256SignedDivN, lu256SignedModN
    <3> QED BY <3>4, <3>5, <3>6
  <2> QED BY <2>0, <2>1, <2>2, <2>3 DEF TypeOK
<1> QED BY <1>1, Invariant, PTL
===========================================================================
