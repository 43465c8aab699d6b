------------------------- MODULE CheckedArithProofs -------------------------
(***************************************************************************)
(* The arithmetic of contracts is exact for words of any size, those of 64 *)
(* bits included: the wrapping operations of uint256.go compute modulo     *)
(* 2^256, and the checked ones of cryptolib.go return what the integers    *)
(* give or revert.                                                         *)
(***************************************************************************)
EXTENDS CheckedArith, InductionLemmas

(* Powers of two.  The provers know nothing of ^ but its values for        *)
(* numerals; its laws come from the number of subsets of a finite set.     *)

\* 2^k is the number of subsets of 1 .. k.
LEMMA PowIs ==
  ASSUME NEW k \in Nat
  PROVE  /\ IsFiniteSet(SUBSET (1 .. k))
         /\ 2 ^ k = Cardinality(SUBSET (1 .. k)) /\ 2 ^ k \in Nat
<1>1. IsFiniteSet(1 .. k) /\ Cardinality(1 .. k) = k
  BY FS_Interval
<1>2. IsFiniteSet(SUBSET (1 .. k)) /\ Cardinality(SUBSET (1 .. k)) = 2 ^ k
  BY <1>1, FS_SUBSET
<1> QED BY <1>2, FS_CardinalityType

\* One more bit, twice as many numbers.
LEMMA PowSucc ==
  ASSUME NEW k \in Nat
  PROVE  2 ^ (k + 1) = 2 ^ k + 2 ^ k
<1> DEFINE S == SUBSET (1 .. k)
           T == {x \cup {k + 1} : x \in S}
           f == [x \in S |-> x \cup {k + 1}]
<1>1. IsFiniteSet(S) /\ Cardinality(S) = 2 ^ k /\ 2 ^ k \in Nat
  BY PowIs
<1>2. f \in Bijection(S, T)
  <2>1. \A x, y \in S : f[x] = f[y] => x = y
    <3> SUFFICES ASSUME NEW x \in S, NEW y \in S, f[x] = f[y] PROVE x = y
      OBVIOUS
    <3>1. k + 1 \notin x /\ k + 1 \notin y
      OBVIOUS
    <3> QED BY <3>1
  <2>2. f \in [S -> T]
    OBVIOUS
  <2>3. \A z \in T : \E x \in S : f[x] = z
    OBVIOUS
  <2> HIDE DEF S, T, f
  <2> QED BY <2>1, <2>2, <2>3 DEF Bijection, Injection, Surjection, IsInjective
<1>3. IsFiniteSet(T) /\ Cardinality(T) = 2 ^ k
  <2> HIDE DEF S, T, f
  <2> QED BY <1>1, <1>2, FS_Bijection DEF ExistsBijection
<1>4. S \cap T = {}
  OBVIOUS
<1>5. S \cup T = SUBSET (1 .. k + 1)
  <2>1. ASSUME NEW x \in SUBSET (1 .. k + 1) PROVE x \in S \cup T
    <3>1. CASE k + 1 \in x
      <4>1. x \ {k + 1} \in S /\ x = (x \ {k + 1}) \cup {k + 1}
        BY <3>1
      <4> QED BY <4>1
    <3>2. CASE k + 1 \notin x
      BY <3>2
    <3> QED BY <3>1, <3>2
  <2>2. ASSUME NEW x \in S \cup T PROVE x \in SUBSET (1 .. k + 1)
    OBVIOUS
  <2> QED BY <2>1, <2>2
<1>6. Cardinality(S \cup T) = 2 ^ k + 2 ^ k
  <2> HIDE DEF S, T
  <2>1. Cardinality(S \cup T) = Cardinality(S) + Cardinality(T) - Cardinality(S \cap T)
    BY <1>1, <1>3, FS_Union
  <2>2. Cardinality(S \cap T) = 0
    BY <1>4, FS_EmptySet
  <2> QED BY <1>1, <1>3, <2>1, <2>2
<1>7. 2 ^ (k + 1) = Cardinality(SUBSET (1 .. k + 1))
  BY PowIs
<1> QED BY <1>5, <1>6, <1>7

\* The law of exponents.
LEMMA PowPlus ==
  ASSUME NEW j \in Nat, NEW k \in Nat
  PROVE  2 ^ (j + k) = 2 ^ j * 2 ^ k
<1> DEFINE M == {i \in Nat : 2 ^ (j + i) = 2 ^ j * 2 ^ i}
<1>1. 0 \in M
  <2>1. 2 ^ j \in Nat
    BY PowIs
  <2>2. 2 ^ 0 = 1
    OBVIOUS
  <2>3. 2 ^ (j + 0) = 2 ^ j
    OBVIOUS
  <2>4. \A x \in Nat : x * 1 = x
    OBVIOUS
  <2> QED BY <2>1, <2>2, <2>3, <2>4
<1>2. ASSUME NEW i \in Nat, i \in M PROVE i + 1 \in M
  <2>1. 2 ^ (j + i) = 2 ^ j * 2 ^ i
    BY <1>2
  <2>2. 2 ^ (i + 1) = 2 ^ i + 2 ^ i /\ 2 ^ ((j + i) + 1) = 2 ^ (j + i) + 2 ^ (j + i)
    BY PowSucc
  <2>3. 2 ^ j \in Nat /\ 2 ^ i \in Nat
    BY PowIs
  <2>4. j + (i + 1) = (j + i) + 1
    OBVIOUS
  <2> DEFINE p == 2 ^ j
             q == 2 ^ i
  <2>5. \A x, y \in Nat : x * (y + y) = x * y + x * y
    OBVIOUS
  <2>6. p * (q + q) = p * q + p * q
    BY <2>3, <2>5
  <2> QED BY <2>1, <2>2, <2>3, <2>4, <2>6
<1>3. Nat \subseteq M
  <2> HIDE DEF M
  <2> QED BY <1>1, <1>2, Induction
<1> QED BY <1>3

\* Powers are positive, and do not decrease.
LEMMA PowPos ==
  ASSUME NEW k \in Nat
  PROVE  2 ^ k \in Nat /\ 2 ^ k >= 1 /\ 2 ^ k # 0
<1>1. {} \in SUBSET (1 .. k) /\ IsFiniteSet(SUBSET (1 .. k))
  BY PowIs
<1>2. Cardinality(SUBSET (1 .. k)) # 0
  BY <1>1, FS_EmptySet
<1>3. 2 ^ k \in Nat /\ 2 ^ k # 0
  BY <1>2, PowIs
<1> QED BY <1>3

\* A wider type has at least as many numbers.
LEMMA PowMono ==
  ASSUME NEW j \in Nat, NEW k \in Nat, j <= k
  PROVE  2 ^ j <= 2 ^ k
<1>1. k - j \in Nat /\ k = j + (k - j)
  OBVIOUS
<1>2. 2 ^ k = 2 ^ j * 2 ^ (k - j)
  BY <1>1, PowPlus
<1>3. 2 ^ j \in Nat /\ 2 ^ (k - j) \in Nat /\ 2 ^ (k - j) >= 1
  BY <1>1, PowPos
<1>4. \A x, y \in Nat : y >= 1 => x <= x * y
  OBVIOUS
<1> QED BY <1>2, <1>3, <1>4
-----------------------------------------------------------------------------
(* Quotients and remainders.                                               *)

\* Division with remainder.
LEMMA DivModIs ==
  ASSUME NEW x \in Int, NEW m \in Nat \ {0}
  PROVE  /\ x % m \in Nat /\ x % m < m /\ x \div m \in Int
         /\ x = (x % m) + m * (x \div m)
         /\ x \in Nat => x \div m \in Nat
OBVIOUS

\* There is only one.
LEMMA DivModUnique ==
  ASSUME NEW x \in Int, NEW m \in Nat \ {0}, NEW r \in Nat, r < m, NEW q \in Int, x = r + m * q
  PROVE  x % m = r /\ x \div m = q
OBVIOUS

\* Laws of products that the steps below cite one by one.
LEMMA Times ==
  ASSUME NEW x \in Int, NEW y \in Int, NEW z \in Int
  PROVE  /\ x * y \in Int /\ x * y = y * x
         /\ x * (y + z) = x * y + x * z
         /\ x * (y - z) = x * y - x * z
         /\ x * (y * z) = (x * y) * z
         /\ x \in Nat /\ y \in Nat => x * y \in Nat
         /\ x * 0 = 0 /\ x * 1 = x
OBVIOUS

\* Products keep the order.
LEMMA TimesMono ==
  ASSUME NEW x \in Nat, NEW y \in Int, NEW z \in Int, y <= z
  PROVE  x * y <= x * z
OBVIOUS

\* A product of positive numbers is positive.
LEMMA TimesPos ==
  ASSUME NEW x \in Nat \ {0}, NEW y \in Nat \ {0}
  PROVE  x * y \in Nat \ {0} /\ x <= x * y /\ y <= x * y
OBVIOUS

\* The quotient and the remainder of x by m * t, in two divisions.
LEMMA TwoDivisions ==
  ASSUME NEW x \in Int, NEW m \in Nat \ {0}, NEW t \in Nat \ {0}
  PROVE  /\ (x \div m) \div t = x \div (m * t)
         /\ (x % (m * t)) \div m = (x \div m) % t
         /\ (x % (m * t)) % m = x % m
<1> DEFINE u == x % m
           h == x \div m
           s == h % t
           q == h \div t
<1>1. /\ u \in Nat /\ u < m /\ h \in Int /\ x = u + m * h
      /\ s \in Nat /\ s < t /\ q \in Int /\ h = s + t * q
  <2>1. u \in Nat /\ u < m /\ h \in Int /\ x = u + m * h
    BY DivModIs
  <2> HIDE DEF u, h
  <2>2. s \in Nat /\ s < t /\ q \in Int /\ h = s + t * q
    BY <2>1, DivModIs
  <2> QED BY <2>1, <2>2
<1> HIDE DEF u, h, s, q
<1>2. m * h = m * s + (m * t) * q
  <2>1. m * (s + t * q) = m * s + m * (t * q) /\ m * (t * q) = (m * t) * q
    BY <1>1, Times
  <2> QED BY <1>1, <2>1
<1>3. m * t \in Nat \ {0} /\ m * s \in Nat
  BY <1>1, TimesPos, Times
<1> DEFINE r == u + m * s
<1>4. r \in Nat /\ r < m * t
  <2>1. s <= t - 1 /\ t - 1 \in Int
    BY <1>1
  <2>2. m * s <= m * (t - 1) /\ m * (t - 1) = m * t - m * 1 /\ m * 1 = m
    BY <1>1, <2>1, Times, TimesMono
  <2> QED BY <1>1, <1>3, <2>2
<1>5. x = r + (m * t) * q
  <2>1. (m * t) * q \in Int
    BY <1>1, <1>3, Times
  <2> QED BY <1>1, <1>2, <1>3, <2>1
<1>6. x % (m * t) = r /\ x \div (m * t) = q
  <2> HIDE DEF r
  <2> DEFINE mt == m * t
  <2>1. mt \in Nat \ {0} /\ r \in Nat /\ r < mt /\ x = r + mt * q
    BY <1>3, <1>4, <1>5
  <2> HIDE DEF mt
  <2>2. x % mt = r /\ x \div mt = q
    BY <1>1, <2>1, DivModUnique
  <2> QED BY <2>2 DEF mt
<1>7. r \div m = s /\ r % m = u
  <2> HIDE DEF r
  <2> SUFFICES r = u + m * s
    BY <1>1, <1>4, DivModUnique
  <2> QED BY DEF r
<1> HIDE DEF r
<1> QED BY <1>6, <1>7 DEF u, h, s, q

\* The parts of it.
LEMMA ModMod ==
  ASSUME NEW x \in Int, NEW m \in Nat \ {0}, NEW t \in Nat \ {0}
  PROVE  (x % (m * t)) % m = x % m
BY TwoDivisions

LEMMA ModDiv ==
  ASSUME NEW x \in Int, NEW m \in Nat \ {0}, NEW t \in Nat \ {0}
  PROVE  (x % (m * t)) \div m = (x \div m) % t
BY TwoDivisions

LEMMA DivDiv ==
  ASSUME NEW x \in Int, NEW m \in Nat \ {0}, NEW t \in Nat \ {0}
  PROVE  (x \div m) \div t = x \div (m * t)
BY TwoDivisions

\* A multiple of m added to x.
LEMMA AddMultiple ==
  ASSUME NEW x \in Int, NEW m \in Nat \ {0}, NEW k \in Int
  PROVE  (x + m * k) % m = x % m /\ (x + m * k) \div m = x \div m + k
<1> DEFINE u == x % m
           h == x \div m
<1>1. u \in Nat /\ u < m /\ h \in Int /\ x = u + m * h
  BY DivModIs
<1> HIDE DEF u, h
<1>2. m * (h + k) = m * h + m * k /\ m * h \in Int /\ m * k \in Int
  BY <1>1, Times
<1> DEFINE y == x + m * k
<1>3. y \in Int /\ y = u + m * (h + k) /\ h + k \in Int
  BY <1>1, <1>2
<1> HIDE DEF y
<1>4. y % m = u /\ y \div m = h + k
  BY <1>1, <1>3, DivModUnique
<1> QED BY <1>4 DEF y, u, h

\* A small number is its own remainder.
LEMMA SmallMod ==
  ASSUME NEW m \in Nat \ {0}, NEW x \in Nat, x < m
  PROVE  x % m = x /\ x \div m = 0
OBVIOUS
-----------------------------------------------------------------------------
(* Words and numbers.                                                      *)

\* A word has B values.
LEMMA WordBase ==
  /\ W \in Nat \ {0} /\ B \in Nat \ {0} /\ B >= 2 /\ Bits \in Nat \ {0} /\ Bits = 4 * W
<1>1. W \in Nat \ {0}
  BY WordAssumption
<1>2. B \in Nat
  BY <1>1, PowPos DEF B
<1>3. B >= 2
  <2>1. PICK k \in Nat : k + 1 = W
    BY <1>1
  <2>2. 2 ^ (k + 1) = 2 ^ k + 2 ^ k
    BY PowSucc
  <2>3. 2 ^ k \in Nat /\ 2 ^ k >= 1
    BY PowPos
  <2> QED BY <2>1, <2>2, <2>3 DEF B
<1> QED BY <1>1, <1>2, <1>3 DEF Bits

\* Each word stands for B times what the word below it stands for.
LEMMA BaseSucc ==
  ASSUME NEW i \in Nat
  PROVE  Base(i) \in Nat \ {0} /\ Base(i + 1) = Base(i) * B /\ Base(i + 1) \in Nat \ {0}
<1>1. W \in Nat /\ i * W \in Nat /\ (i + 1) * W \in Nat /\ (i + 1) * W = i * W + W
  BY WordBase
<1>2. 2 ^ (i * W + W) = 2 ^ (i * W) * 2 ^ W
  BY <1>1, PowPlus
<1>3. Base(i) \in Nat \ {0} /\ Base(i + 1) \in Nat \ {0}
  BY <1>1, PowPos DEF Base
<1> QED BY <1>1, <1>2, <1>3 DEF Base, B

\* The bases of the four words, and of the word beyond them.
LEMMA Bases ==
  /\ Base(0) = 1 /\ Base(1) = B /\ Base(2) = B * B /\ Base(3) = (B * B) * B
  /\ Base(4) = ((B * B) * B) * B /\ 2 ^ Bits = Base(4) /\ 2 ^ Bits \in Nat \ {0}
<1>1. Base(0) = 1
  <2>1. 0 * W = 0
    BY WordBase
  <2>2. 2 ^ 0 = 1
    OBVIOUS
  <2> QED BY <2>1, <2>2 DEF Base
<1>2. Base(1) = B
  <2>1. 1 * W = W
    BY WordBase
  <2> QED BY <2>1 DEF Base, B
<1>3. Base(2) = B * B /\ Base(3) = Base(2) * B /\ Base(4) = Base(3) * B /\ Base(4) \in Nat \ {0}
  <2>1. Base(1 + 1) = Base(1) * B /\ Base(2 + 1) = Base(2) * B /\ Base(3 + 1) = Base(3) * B /\ Base(3 + 1) \in Nat \ {0}
    BY BaseSucc
  <2>2. 1 + 1 = 2 /\ 2 + 1 = 3 /\ 3 + 1 = 4
    OBVIOUS
  <2> QED BY <1>2, <2>1, <2>2
<1>4. 2 ^ Bits = Base(4)
  BY DEF Base, Bits
<1> QED BY <1>1, <1>2, <1>3, <1>4

\* Val in Horner's form, with a carry e beyond the last word.
LEMMA Horner ==
  ASSUME NEW x, x[0] \in Int, x[1] \in Int, x[2] \in Int, x[3] \in Int, NEW e \in Int
  PROVE  /\ Val(x) \in Int
         /\ x[0] + B * (x[1] + B * (x[2] + B * (x[3] + B * e))) = Val(x) + 2 ^ Bits * e
<1> DEFINE x0 == x[0]
           x1 == x[1]
           x2 == x[2]
           x3 == x[3]
           c == B
<1>1. c \in Int /\ x0 \in Int /\ x1 \in Int /\ x2 \in Int /\ x3 \in Int
  BY WordBase
<1>2. Val(x) = x0 + c * x1 + (c * c) * x2 + ((c * c) * c) * x3 /\ 2 ^ Bits = ((c * c) * c) * c
  BY Bases DEF Val
<1> HIDE DEF x0, x1, x2, x3, c
<1>3. Val(x) \in Int
  BY <1>1, <1>2
<1>4. x0 + c * (x1 + c * (x2 + c * (x3 + c * e)))
        = x0 + c * x1 + (c * c) * x2 + ((c * c) * c) * x3 + (((c * c) * c) * c) * e
  BY <1>1
<1> QED BY <1>2, <1>3, <1>4 DEF x0, x1, x2, x3, c

\* The words of a number.
LEMMA Words ==
  ASSUME NEW x \in U256
  PROVE  \A i \in 0 .. 3 : x[i] \in Nat /\ x[i] < B /\ x[i] <= B - 1
<1>1. B \in Nat
  BY WordBase
<1> QED BY <1>1 DEF U256, Word

\* Four words make a number.
LEMMA FourWords ==
  ASSUME NEW x, x = [i \in 0 .. 3 |-> x[i]], x[0] \in Word, x[1] \in Word, x[2] \in Word, x[3] \in Word
  PROVE  x \in U256
<1>1. \A i \in 0 .. 3 : i = 0 \/ i = 1 \/ i = 2 \/ i = 3
  OBVIOUS
<1>2. \A i \in 0 .. 3 : x[i] \in Word
  BY <1>1
<1> QED BY <1>2 DEF U256

\* The lowest word of a number, and what is above it.
LEMMA Peel ==
  ASSUME NEW v \in Nat, NEW e \in Nat, NEW h \in Nat, e < B, v = e + B * h
  PROVE  v \div B = h /\ v % B = e
<1>1. PICK m \in Nat \ {0} : m = B
  BY WordBase
<1>2. v \in Int /\ h \in Int /\ e < m /\ v = e + m * h
  BY <1>1
<1>3. v \div m = h /\ v % m = e
  BY <1>2, DivModUnique
<1> QED BY <1>1, <1>3

\* What is left of a number above word i.
High(x, i) == Val(x) \div Base(i)

\* Word by word from the top: High(i) is word i, and B times what is above it.
LEMMA Highs ==
  ASSUME NEW x \in U256
  PROVE  /\ Val(x) \in Nat /\ Val(x) < 2 ^ Bits
         /\ High(x, 0) = Val(x) /\ High(x, 4) = 0
         /\ \A i \in 0 .. 3 : High(x, i) = x[i] + B * High(x, i + 1)
         /\ \A i \in 0 .. 4 : High(x, i) \in Nat
<1> DEFINE h3 == x[3]
           h2 == x[2] + B * h3
           h1 == x[1] + B * h2
           v == x[0] + B * h1
<1>0. B \in Nat \ {0} /\ \A i \in 0 .. 3 : x[i] \in Nat /\ x[i] < B /\ x[i] <= B - 1
  BY Words, WordBase
<1>1. h3 \in Nat /\ h2 \in Nat /\ h1 \in Nat /\ v \in Nat
  <2>1. h3 \in Nat
    BY <1>0
  <2> HIDE DEF h3
  <2>2. h2 \in Nat
    BY <1>0, <2>1
  <2> HIDE DEF h2
  <2>3. h1 \in Nat
    BY <1>0, <2>2
  <2> HIDE DEF h1
  <2>4. v \in Nat
    BY <1>0, <2>3
  <2> QED BY <2>1, <2>2, <2>3, <2>4
<1>2. Val(x) = v
  <2>1. /\ x[0] \in Int /\ x[1] \in Int /\ x[2] \in Int /\ x[3] \in Int
        /\ Val(x) + 2 ^ Bits * 0 = x[0] + B * (x[1] + B * (x[2] + B * (x[3] + B * 0)))
        /\ Val(x) \in Int
    BY <1>0, Horner
  <2>2. x[3] + B * 0 = x[3] /\ 2 ^ Bits * 0 = 0
    BY <1>0, Bases
  <2> QED BY <2>1, <2>2
<1>3. v \div B = h1 /\ h1 \div B = h2 /\ h2 \div B = h3 /\ h3 \div B = 0
  <2>1. x[0] \in Nat /\ x[0] < B /\ x[1] \in Nat /\ x[1] < B /\ x[2] \in Nat /\ x[2] < B
        /\ x[3] \in Nat /\ x[3] < B
    BY <1>0
  <2>2. v = x[0] + B * h1 /\ h1 = x[1] + B * h2 /\ h2 = x[2] + B * h3
    OBVIOUS
  <2>3. h3 \div B = 0
    BY <1>0, <2>1, SmallMod
  <2> HIDE DEF v, h1, h2, h3
  <2>4. v \div B = h1
    BY <1>1, <2>1, <2>2, Peel
  <2>5. h1 \div B = h2
    BY <1>1, <2>1, <2>2, Peel
  <2>6. h2 \div B = h3
    BY <1>1, <2>1, <2>2, Peel
  <2> QED BY <2>3, <2>4, <2>5, <2>6
<1> HIDE DEF v, h1, h2, h3
<1>4. /\ High(x, 0) = v /\ High(x, 1) = h1 /\ High(x, 2) = h2
      /\ High(x, 3) = h3 /\ High(x, 4) = 0
  <2>0. v \div 1 = v
    BY <1>1
  <2>1. High(x, 0) = v /\ High(x, 1) = v \div B
    BY <1>2, <2>0, Bases DEF High
  <2>2. ASSUME NEW i \in 0 .. 3 PROVE High(x, i + 1) = High(x, i) \div B
    <3>1. Base(i) \in Nat \ {0} /\ Base(i + 1) = Base(i) * B
      BY BaseSucc
    <3>2. (v \div Base(i)) \div B = v \div (Base(i) * B)
      <4>1. v \in Int
        BY <1>1
      <4> QED BY <1>0, <4>1, <3>1, TwoDivisions, Zenon
    <3> QED BY <1>2, <3>1, <3>2 DEF High
  <2>3. High(x, 1 + 1) = High(x, 1) \div B /\ High(x, 2 + 1) = High(x, 2) \div B /\ High(x, 3 + 1) = High(x, 3) \div B
    BY <2>2
  <2>4. High(x, 2) = High(x, 1) \div B /\ High(x, 3) = High(x, 2) \div B /\ High(x, 4) = High(x, 3) \div B
    BY <2>3
  <2> QED BY <1>3, <2>1, <2>4
<1>5. Val(x) < 2 ^ Bits
  <2>1. Base(4) \in Nat \ {0} /\ 2 ^ Bits = Base(4)
    BY Bases
  <2>2. v \div Base(4) = 0
    BY <1>2, <1>4 DEF High
  <2>3. v % Base(4) < Base(4) /\ v = (v % Base(4)) + Base(4) * (v \div Base(4)) /\ v % Base(4) \in Nat
    BY <1>1, <2>1, DivModIs
  <2> QED BY <1>2, <2>1, <2>2, <2>3
<1>6. \A i \in 0 .. 3 : High(x, i) = x[i] + B * High(x, i + 1)
  <2>1. h3 = x[3] + B * 0
    BY <1>0 DEF h3
  <2>2. /\ High(x, 0) = x[0] + B * High(x, 0 + 1) /\ High(x, 1) = x[1] + B * High(x, 1 + 1)
        /\ High(x, 2) = x[2] + B * High(x, 2 + 1) /\ High(x, 3) = x[3] + B * High(x, 3 + 1)
    BY <1>4, <2>1 DEF v, h1, h2
  <2>3. \A i \in 0 .. 3 : i = 0 \/ i = 1 \/ i = 2 \/ i = 3
    OBVIOUS
  <2> QED BY <2>2, <2>3, Zenon
<1>7. \A i \in 0 .. 4 : High(x, i) \in Nat
  <2>1. \A i \in 0 .. 4 : i = 0 \/ i = 1 \/ i = 2 \/ i = 3 \/ i = 4
    OBVIOUS
  <2> QED BY <1>1, <1>4, <2>1
<1> QED BY <1>1, <1>2, <1>4, <1>5, <1>6, <1>7

\* U takes a number apart into its words, and Val puts them together.
LEMMA WordsOfVal ==
  ASSUME NEW x \in U256
  PROVE  U(Val(x)) = x
<1>1. ASSUME NEW i \in 0 .. 3 PROVE (Val(x) \div Base(i)) % B = x[i]
  <2>1. High(x, i) = x[i] + B * High(x, i + 1) /\ High(x, i + 1) \in Nat /\ High(x, i) \in Nat
    <3>1. i + 1 \in 0 .. 4 /\ i \in 0 .. 4
      OBVIOUS
    <3> QED BY <3>1, Highs
  <2>2. x[i] \in Nat /\ x[i] < B /\ B \in Nat \ {0}
    BY Words, WordBase
  <2>3. PICK h \in Int, up \in Int, e \in Nat :
               h = High(x, i) /\ up = High(x, i + 1) /\ e = x[i] /\ e < B /\ h = e + B * up
    BY <2>1, <2>2
  <2>4. h % B = e
    <3>1. B \in Nat \ {0} /\ e < B /\ h = e + B * up
      BY <2>2, <2>3
    <3> QED BY <3>1, DivModUnique, Zenon
  <2> QED BY <2>3, <2>4 DEF High
<1>2. x = [i \in 0 .. 3 |-> x[i]]
  BY DEF U256
<1> QED BY <1>1, <1>2 DEF U

\* The other way round.
LEMMA ValOfWords ==
  ASSUME NEW v \in Nat, v < 2 ^ Bits
  PROVE  U(v) \in U256 /\ Val(U(v)) = v
<1> DEFINE x == U(v)
           h(i) == v \div Base(i)
<1>0. B \in Nat \ {0} /\ \A i \in Nat : Base(i) \in Nat \ {0}
  BY WordBase, BaseSucc
<1>1. \A i \in 0 .. 4 : h(i) \in Nat
  <2> SUFFICES ASSUME NEW i \in 0 .. 4 PROVE h(i) \in Nat
    OBVIOUS
  <2>1. i \in Nat /\ v \in Int
    OBVIOUS
  <2> QED BY <1>0, <2>1, DivModIs, Zenon
<1>2. \A i \in 0 .. 3 : x[i] \in Nat /\ x[i] < B /\ x[i] = h(i) % B
  <2>1. \A i \in 0 .. 3 : x[i] = h(i) % B
    BY DEF U
  <2> HIDE DEF x, h
  <2>2. \A i \in 0 .. 3 : h(i) \in Int
    BY <1>1
  <2> QED BY <1>0, <2>1, <2>2, DivModIs, Zenon
<1>3. x \in U256
  <2>1. \A i \in 0 .. 3 : (v \div Base(i)) % B \in Word
    BY <1>0, <1>1, <1>2 DEF Word, U
  <2> QED BY <2>1 DEF U, U256
<1>4. \A i \in 0 .. 3 : h(i) = x[i] + B * h(i + 1)
  <2> SUFFICES ASSUME NEW i \in 0 .. 3 PROVE h(i) = x[i] + B * h(i + 1)
    OBVIOUS
  <2>1. Base(i) \in Nat \ {0} /\ Base(i + 1) = Base(i) * B
    BY BaseSucc
  <2>2. h(i) \div B = h(i + 1)
    <3>1. v \in Int
      OBVIOUS
    <3>2. (v \div Base(i)) \div B = v \div (Base(i) * B)
      BY <1>0, <2>1, <3>1, TwoDivisions, Zenon
    <3> QED BY <2>1, <3>2
  <2>3. h(i) \in Int
    BY <1>1
  <2> HIDE DEF h, x
  <2>4. h(i) = (h(i) % B) + B * (h(i) \div B)
    BY <1>0, <2>3, DivModIs, Zenon
  <2> QED BY <1>2, <2>2, <2>4
<1>5. h(0) = v /\ h(4) = 0
  <2>1. Base(0) = 1 /\ Base(4) = 2 ^ Bits /\ Base(4) \in Nat \ {0}
    BY Bases
  <2>2. v \div 1 = v
    OBVIOUS
  <2>3. v \div Base(4) = 0
    BY <2>1, SmallMod
  <2> QED BY <2>1, <2>2, <2>3
<1> HIDE DEF h, x
<1>6. v = x[0] + B * (x[1] + B * (x[2] + B * (x[3] + B * 0)))
  <2>1. h(0) = x[0] + B * h(0 + 1) /\ h(1) = x[1] + B * h(1 + 1) /\ h(2) = x[2] + B * h(2 + 1) /\ h(3) = x[3] + B * h(3 + 1)
    BY <1>4
  <2>2. h(0) = x[0] + B * h(1) /\ h(1) = x[1] + B * h(2) /\ h(2) = x[2] + B * h(3) /\ h(3) = x[3] + B * h(4)
    BY <2>1
  <2> QED BY <1>5, <2>2
<1>7. Val(x) + 2 ^ Bits * 0 = v /\ Val(x) \in Int
  <2>1. x[0] \in Int /\ x[1] \in Int /\ x[2] \in Int /\ x[3] \in Int
    BY <1>2
  <2> QED BY <1>6, <2>1, Horner
<1>8. 2 ^ Bits * 0 = 0
  BY Bases
<1> QED BY <1>3, <1>7, <1>8 DEF x
-----------------------------------------------------------------------------
(* Addition, subtraction.                                                  *)

\* The four words of x are integers.
Ints(x) == x[0] \in Int /\ x[1] \in Int /\ x[2] \in Int /\ x[3] \in Int

\* A row of carries c: each word of z, with the carry from the word before it, is
\* the word of s, and B times the carry to the next.
Chain(z, s, c0, c1, c2, c3) ==
  /\ z[0] = s[0] + B * c0
  /\ z[1] + c0 = s[1] + B * c1
  /\ z[2] + c1 = s[2] + B * c2
  /\ z[3] + c2 = s[3] + B * c3

\* Words of U256 are integers.
LEMMA IntsOfWords ==
  ASSUME NEW x \in U256
  PROVE  Ints(x) /\ Val(x) \in Nat /\ Val(x) < 2 ^ Bits /\ \A i \in 0 .. 3 : x[i] \in Int
<1>1. \A i \in 0 .. 3 : x[i] \in Nat
  BY Words
<1>2. \A i \in 0 .. 3 : x[i] \in Int
  BY <1>1
<1>3. Ints(x)
  BY <1>2 DEF Ints
<1> QED BY <1>2, <1>3, Highs

\* What a row of carries adds up to.
LEMMA ChainSum ==
  ASSUME NEW z, Ints(z), NEW s, Ints(s),
         NEW c0 \in Int, NEW c1 \in Int, NEW c2 \in Int, NEW c3 \in Int,
         Chain(z, s, c0, c1, c2, c3)
  PROVE  Val(z) \in Int /\ Val(z) = Val(s) + 2 ^ Bits * c3
<1>1. B \in Int /\ 2 ^ Bits \in Int
  BY WordBase, Bases
<1>2. Val(z) \in Int /\ z[0] + B * (z[1] + B * (z[2] + B * (z[3] + B * 0))) = Val(z) + 2 ^ Bits * 0
  BY Horner DEF Ints
<1>3. s[0] + B * (s[1] + B * (s[2] + B * (s[3] + B * c3))) = Val(s) + 2 ^ Bits * c3
  BY Horner DEF Ints
<1>4. PICK m \in Int, z0 \in Int, z1 \in Int, z2 \in Int, z3 \in Int :
             m = B /\ z0 = z[0] /\ z1 = z[1] /\ z2 = z[2] /\ z3 = z[3]
  BY <1>1 DEF Ints
<1>5. PICK s0 \in Int, s1 \in Int, s2 \in Int, s3 \in Int :
             s0 = s[0] /\ s1 = s[1] /\ s2 = s[2] /\ s3 = s[3]
  BY DEF Ints
<1>6. z0 = s0 + m * c0 /\ z1 + c0 = s1 + m * c1 /\ z2 + c1 = s2 + m * c2 /\ z3 + c2 = s3 + m * c3
  BY <1>4, <1>5 DEF Chain
<1>7. s0 + m * (s1 + m * (s2 + m * (s3 + m * c3))) = z0 + m * (z1 + m * (z2 + m * z3))
  <2>1. m * c0 \in Int /\ m * c1 \in Int /\ m * c2 \in Int /\ m * c3 \in Int
    BY Times
  <2>2. s0 = z0 - m * c0 /\ s1 = z1 + c0 - m * c1 /\ s2 = z2 + c1 - m * c2 /\ s3 + m * c3 = z3 + c2
    BY <1>6, <2>1
  <2>3. (z2 + c1 - m * c2) + m * (z3 + c2) = (z2 + m * z3) + c1
    OBVIOUS
  <2>4. (z1 + c0 - m * c1) + m * ((z2 + m * z3) + c1) = (z1 + m * (z2 + m * z3)) + c0
    OBVIOUS
  <2>5. (z0 - m * c0) + m * ((z1 + m * (z2 + m * z3)) + c0) = z0 + m * (z1 + m * (z2 + m * z3))
    OBVIOUS
  <2> QED BY <2>2, <2>3, <2>4, <2>5
<1>8. B * 0 = 0 /\ z[3] + 0 = z[3] /\ 2 ^ Bits * 0 = 0
  BY <1>1 DEF Ints
<1> QED BY <1>2, <1>3, <1>4, <1>5, <1>7, <1>8

\* The words of s are z modulo 2^256.
LEMMA ChainWraps ==
  ASSUME NEW z, Ints(z), NEW s \in U256,
         NEW c0 \in Int, NEW c1 \in Int, NEW c2 \in Int, NEW c3 \in Int,
         Chain(z, s, c0, c1, c2, c3)
  PROVE  Val(z) \in Int /\ Val(s) = Val(z) % 2 ^ Bits
<1>1. Ints(s) /\ Val(s) \in Nat /\ Val(s) < 2 ^ Bits
  BY IntsOfWords
<1>2. Val(z) \in Int /\ Val(z) = Val(s) + 2 ^ Bits * c3
  BY <1>1, ChainSum
<1>3. 2 ^ Bits \in Nat \ {0}
  BY Bases
<1>4. Val(z) % 2 ^ Bits = Val(s)
  <2>1. PICK p \in Nat \ {0}, v \in Nat, t \in Int : p = 2 ^ Bits /\ v = Val(s) /\ t = Val(z)
    BY <1>1, <1>2, <1>3
  <2>2. v < p /\ t = v + p * c3
    BY <1>1, <1>2, <2>1
  <2>3. t % p = v
    BY <2>2, DivModUnique
  <2> QED BY <2>1, <2>3
<1> QED BY <1>2, <1>4

\* Val is linear.
LEMMA ValLinear ==
  ASSUME NEW z, NEW x, NEW y, NEW k \in Int, Ints(x), Ints(y),
         \A i \in 0 .. 3 : z[i] = x[i] + k * y[i]
  PROVE  Ints(z) /\ Val(z) = Val(x) + k * Val(y)
<1> DEFINE m1 == Base(1)
           m2 == Base(2)
           m3 == Base(3)
<1>1. m1 \in Int /\ m2 \in Int /\ m3 \in Int
  BY BaseSucc
<1>2. PICK x0 \in Int, x1 \in Int, x2 \in Int, x3 \in Int :
             x0 = x[0] /\ x1 = x[1] /\ x2 = x[2] /\ x3 = x[3]
  BY DEF Ints
<1>3. PICK y0 \in Int, y1 \in Int, y2 \in Int, y3 \in Int :
             y0 = y[0] /\ y1 = y[1] /\ y2 = y[2] /\ y3 = y[3]
  BY DEF Ints
<1>4. z[0] = x0 + k * y0 /\ z[1] = x1 + k * y1 /\ z[2] = x2 + k * y2 /\ z[3] = x3 + k * y3
  BY <1>2, <1>3
<1>5. /\ Val(x) = x0 + m1 * x1 + m2 * x2 + m3 * x3
      /\ Val(y) = y0 + m1 * y1 + m2 * y2 + m3 * y3
      /\ Val(z) = z[0] + m1 * z[1] + m2 * z[2] + m3 * z[3]
  BY <1>2, <1>3 DEF Val
<1> HIDE DEF m1, m2, m3
<1>6. (x0 + k * y0) + m1 * (x1 + k * y1) + m2 * (x2 + k * y2) + m3 * (x3 + k * y3)
        = (x0 + m1 * x1 + m2 * x2 + m3 * x3) + k * (y0 + m1 * y1 + m2 * y2 + m3 * y3)
  BY <1>1
<1>7. Ints(z)
  BY <1>4 DEF Ints
<1> QED BY <1>4, <1>5, <1>6, <1>7

\* bits.Add64
LEMMA AddWord ==
  ASSUME NEW p \in Nat, NEW q \in Nat, NEW c \in Nat
  PROVE  /\ Carry(p, q, c) \in Nat /\ Sum(p, q, c) \in Word
         /\ p + q + c = Sum(p, q, c) + B * Carry(p, q, c)
<1>1. PICK t \in Nat : t = p + q + c /\ t \in Int
  OBVIOUS
<1>2. B \in Nat \ {0}
  BY WordBase
<1>3. t % B \in Nat /\ t % B < B /\ t = (t % B) + B * (t \div B) /\ t \div B \in Nat
  BY <1>1, <1>2, DivModIs, Zenon
<1> QED BY <1>1, <1>2, <1>3 DEF Carry, Sum, Word

\* lu256Add is addition modulo 2^256.
LEMMA AddIs ==
  ASSUME NEW x \in U256, NEW y \in U256
  PROVE  lu256Add(x, y) \in U256 /\ Val(lu256Add(x, y)) = (Val(x) + Val(y)) % 2 ^ Bits
<1> DEFINE c0 == Carry(x[0], y[0], 0)
           c1 == Carry(x[1], y[1], c0)
           c2 == Carry(x[2], y[2], c1)
           c3 == Carry(x[3], y[3], c2)
           s == lu256Add(x, y)
           z == [i \in 0 .. 3 |-> x[i] + 1 * y[i]]
<1>1. /\ x[0] \in Nat /\ x[1] \in Nat /\ x[2] \in Nat /\ x[3] \in Nat
      /\ y[0] \in Nat /\ y[1] \in Nat /\ y[2] \in Nat /\ y[3] \in Nat
  BY Words
<1>2. /\ s[0] = Sum(x[0], y[0], 0) /\ s[1] = Sum(x[1], y[1], c0)
      /\ s[2] = Sum(x[2], y[2], c1) /\ s[3] = Sum(x[3], y[3], c2)
      /\ s = [i \in 0 .. 3 |-> s[i]]
  BY DEF lu256Add
<1> HIDE DEF s
<1>3. s[0] \in Word /\ x[0] + y[0] + 0 = s[0] + B * c0 /\ c0 \in Nat
  BY <1>1, <1>2, AddWord
<1> HIDE DEF c0
<1>4. s[1] \in Word /\ x[1] + y[1] + c0 = s[1] + B * c1 /\ c1 \in Nat
  BY <1>1, <1>2, <1>3, AddWord
<1> HIDE DEF c1
<1>5. s[2] \in Word /\ x[2] + y[2] + c1 = s[2] + B * c2 /\ c2 \in Nat
  BY <1>1, <1>2, <1>4, AddWord
<1> HIDE DEF c2
<1>6. s[3] \in Word /\ x[3] + y[3] + c2 = s[3] + B * c3 /\ c3 \in Nat
  BY <1>1, <1>2, <1>5, AddWord
<1> HIDE DEF c3
<1>7. s \in U256
  BY <1>2, <1>3, <1>4, <1>5, <1>6, FourWords
<1>8. z[0] = x[0] + y[0] /\ z[1] = x[1] + y[1] /\ z[2] = x[2] + y[2] /\ z[3] = x[3] + y[3]
  BY <1>1
<1>9. Ints(z) /\ Val(z) = Val(x) + Val(y)
  <2>1. \A i \in 0 .. 3 : z[i] = x[i] + 1 * y[i]
    OBVIOUS
  <2> HIDE DEF z
  <2>2. Ints(x) /\ Ints(y) /\ Val(y) \in Nat
    BY IntsOfWords
  <2>3. Ints(z) /\ Val(z) = Val(x) + 1 * Val(y)
    BY <2>1, <2>2, ValLinear
  <2> QED BY <2>2, <2>3
<1> HIDE DEF z
<1>10. Chain(z, s, c0, c1, c2, c3) /\ c0 \in Int /\ c1 \in Int /\ c2 \in Int /\ c3 \in Int
  BY <1>1, <1>3, <1>4, <1>5, <1>6, <1>8 DEF Chain
<1>11. Val(s) = Val(z) % 2 ^ Bits
  BY <1>7, <1>9, <1>10, ChainWraps
<1> QED BY <1>7, <1>9, <1>11 DEF s

\* bits.Sub64; the borrow is a carry of -1.
LEMMA SubWord ==
  ASSUME NEW p \in Word, NEW q \in Word, NEW e \in {0, 1}
  PROVE  /\ Borrow(p, q, e) \in {0, 1} /\ Diff(p, q, e) \in Word
         /\ (p - q) + (-e) = Diff(p, q, e) + B * (-Borrow(p, q, e))
<1>1. PICK t \in Int, m \in Nat \ {0} : t = p - q - e /\ m = B /\ p \in 0 .. m - 1 /\ q \in 0 .. m - 1
  BY WordBase DEF Word
<1>2. CASE p < q + e
  <2>1. t + m \in Nat /\ t + m < m /\ t = (t + m) + m * (-1)
    BY <1>1, <1>2
  <2>2. t % m = t + m
    BY <2>1, DivModUnique
  <2> QED BY <1>1, <1>2, <2>1, <2>2 DEF Borrow, Diff, Word
<1>3. CASE ~(p < q + e)
  <2>1. t \in Nat /\ t < m /\ t = t + m * (-0)
    BY <1>1, <1>3
  <2>2. t % m = t
    BY <2>1, SmallMod
  <2> QED BY <1>1, <1>3, <2>1, <2>2 DEF Borrow, Diff, Word
<1> QED BY <1>2, <1>3

\* lu256Sub is subtraction modulo 2^256.
LEMMA SubIs ==
  ASSUME NEW x \in U256, NEW y \in U256
  PROVE  lu256Sub(x, y) \in U256 /\ Val(lu256Sub(x, y)) = (Val(x) - Val(y)) % 2 ^ Bits
<1> DEFINE b0 == Borrow(x[0], y[0], 0)
           b1 == Borrow(x[1], y[1], b0)
           b2 == Borrow(x[2], y[2], b1)
           b3 == Borrow(x[3], y[3], b2)
           s == lu256Sub(x, y)
           z == [i \in 0 .. 3 |-> x[i] + (-1) * y[i]]
<1>1. /\ x[0] \in Word /\ x[1] \in Word /\ x[2] \in Word /\ x[3] \in Word
      /\ y[0] \in Word /\ y[1] \in Word /\ y[2] \in Word /\ y[3] \in Word
  BY DEF U256
<1>2. /\ s[0] = Diff(x[0], y[0], 0) /\ s[1] = Diff(x[1], y[1], b0)
      /\ s[2] = Diff(x[2], y[2], b1) /\ s[3] = Diff(x[3], y[3], b2)
      /\ s = [i \in 0 .. 3 |-> s[i]]
  BY DEF lu256Sub
<1> HIDE DEF s
<1>3. s[0] \in Word /\ (x[0] - y[0]) + (-0) = s[0] + B * (-b0) /\ b0 \in {0, 1}
  BY <1>1, <1>2, SubWord
<1> HIDE DEF b0
<1>4. s[1] \in Word /\ (x[1] - y[1]) + (-b0) = s[1] + B * (-b1) /\ b1 \in {0, 1}
  BY <1>1, <1>2, <1>3, SubWord
<1> HIDE DEF b1
<1>5. s[2] \in Word /\ (x[2] - y[2]) + (-b1) = s[2] + B * (-b2) /\ b2 \in {0, 1}
  BY <1>1, <1>2, <1>4, SubWord
<1> HIDE DEF b2
<1>6. s[3] \in Word /\ (x[3] - y[3]) + (-b2) = s[3] + B * (-b3) /\ b3 \in {0, 1}
  BY <1>1, <1>2, <1>5, SubWord
<1> HIDE DEF b3
<1>7. s \in U256
  BY <1>2, <1>3, <1>4, <1>5, <1>6, FourWords
<1>8. Ints(x) /\ Ints(y) /\ Val(y) \in Nat /\ Val(x) \in Nat
  BY IntsOfWords
<1>9. z[0] = x[0] - y[0] /\ z[1] = x[1] - y[1] /\ z[2] = x[2] - y[2] /\ z[3] = x[3] - y[3]
  BY <1>8 DEF Ints
<1>10. Ints(z) /\ Val(z) = Val(x) - Val(y)
  <2>1. \A i \in 0 .. 3 : z[i] = x[i] + (-1) * y[i]
    OBVIOUS
  <2> HIDE DEF z
  <2>2. Ints(z) /\ Val(z) = Val(x) + (-1) * Val(y)
    BY <1>8, <2>1, ValLinear
  <2> QED BY <1>8, <2>2
<1> HIDE DEF z
<1>11. /\ -b0 \in Int /\ -b1 \in Int /\ -b2 \in Int /\ -b3 \in Int
       /\ Chain(z, s, -b0, -b1, -b2, -b3)
  BY <1>3, <1>4, <1>5, <1>6, <1>8, <1>9 DEF Chain, Ints
<1>12. Val(s) = Val(z) % 2 ^ Bits
  BY <1>7, <1>10, <1>11, ChainWraps
<1> QED BY <1>7, <1>10, <1>12 DEF s
-----------------------------------------------------------------------------
(* Comparison.                                                             *)

\* A difference in a word outweighs the words below it.
LEMMA HighLess ==
  ASSUME NEW x \in U256, NEW y \in U256, NEW i \in 0 .. 3
  PROVE  /\ High(x, i + 1) < High(y, i + 1) => High(x, i) < High(y, i)
         /\ High(x, i + 1) = High(y, i + 1) /\ x[i] < y[i] => High(x, i) < High(y, i)
         /\ High(x, i + 1) = High(y, i + 1) /\ x[i] = y[i] => High(x, i) = High(y, i)
<1>1. PICK m \in Nat, hx \in Nat, hy \in Nat, p \in Nat, q \in Nat :
        /\ m = B /\ hx = High(x, i + 1) /\ hy = High(y, i + 1) /\ p = x[i] /\ q = y[i] /\ p < m /\ q < m
        /\ High(x, i) = p + m * hx /\ High(y, i) = q + m * hy
  <2>1. i + 1 \in 0 .. 4
    OBVIOUS
  <2>2. High(x, i + 1) \in Nat /\ High(y, i + 1) \in Nat
    BY <2>1, Highs
  <2>3. High(x, i) = x[i] + B * High(x, i + 1) /\ High(y, i) = y[i] + B * High(y, i + 1)
    BY Highs
  <2>4. x[i] \in Nat /\ y[i] \in Nat /\ x[i] < B /\ y[i] < B /\ B \in Nat
    BY Words, WordBase
  <2> QED BY <2>2, <2>3, <2>4
<1>2. ASSUME hx < hy PROVE p + m * hx < q + m * hy
  <2>1. m * (hx + 1) <= m * hy
    BY <1>2, TimesMono
  <2>2. m * (hx + 1) = m * hx + m /\ m * hx \in Int /\ m * hy \in Int
    BY Times
  <2> QED BY <1>1, <2>1, <2>2
<1>3. m * hx \in Int /\ m * hy \in Int
  BY Times
<1> QED BY <1>1, <1>2, <1>3

\* The highest word in which x and y differ decides.
LEMMA HighestWord ==
  ASSUME NEW x \in U256, NEW y \in U256, NEW i \in 0 .. 3, x[i] < y[i],
         \A k \in 0 .. 3 : k > i => x[k] = y[k]
  PROVE  Val(x) < Val(y)
<1>1. High(x, 4) = High(y, 4) /\ High(x, 0) = Val(x) /\ High(y, 0) = Val(y)
  BY Highs
<1>2. /\ High(x, 4) < High(y, 4) => High(x, 3) < High(y, 3)
      /\ High(x, 4) = High(y, 4) /\ x[3] < y[3] => High(x, 3) < High(y, 3)
      /\ High(x, 4) = High(y, 4) /\ x[3] = y[3] => High(x, 3) = High(y, 3)
  <2>1. 3 + 1 = 4 /\ 3 \in 0 .. 3
    OBVIOUS
  <2> QED BY <2>1, HighLess
<1>3. /\ High(x, 3) < High(y, 3) => High(x, 2) < High(y, 2)
      /\ High(x, 3) = High(y, 3) /\ x[2] < y[2] => High(x, 2) < High(y, 2)
      /\ High(x, 3) = High(y, 3) /\ x[2] = y[2] => High(x, 2) = High(y, 2)
  <2>1. 2 + 1 = 3 /\ 2 \in 0 .. 3
    OBVIOUS
  <2> QED BY <2>1, HighLess
<1>4. /\ High(x, 2) < High(y, 2) => High(x, 1) < High(y, 1)
      /\ High(x, 2) = High(y, 2) /\ x[1] < y[1] => High(x, 1) < High(y, 1)
      /\ High(x, 2) = High(y, 2) /\ x[1] = y[1] => High(x, 1) = High(y, 1)
  <2>1. 1 + 1 = 2 /\ 1 \in 0 .. 3
    OBVIOUS
  <2> QED BY <2>1, HighLess
<1>5. /\ High(x, 1) < High(y, 1) => High(x, 0) < High(y, 0)
      /\ High(x, 1) = High(y, 1) /\ x[0] < y[0] => High(x, 0) < High(y, 0)
  <2>1. 0 + 1 = 1 /\ 0 \in 0 .. 3
    OBVIOUS
  <2> QED BY <2>1, HighLess
<1>6. CASE i = 3
  BY <1>1, <1>2, <1>3, <1>4, <1>5, <1>6
<1>7. CASE i = 2
  <2>1. x[3] = y[3]
    BY <1>7
  <2> QED BY <1>1, <1>2, <1>3, <1>4, <1>5, <1>7, <2>1
<1>8. CASE i = 1
  <2>1. x[3] = y[3] /\ x[2] = y[2]
    BY <1>8
  <2> QED BY <1>1, <1>2, <1>3, <1>4, <1>5, <1>8, <2>1
<1>9. CASE i = 0
  <2>1. x[3] = y[3] /\ x[2] = y[2] /\ x[1] = y[1]
    BY <1>9
  <2> QED BY <1>1, <1>2, <1>3, <1>4, <1>5, <1>9, <2>1
<1> QED BY <1>6, <1>7, <1>8, <1>9

\* Max of a set of words.
LEMMA MaxOfWords ==
  ASSUME NEW S \in SUBSET (0 .. 3), S # {}
  PROVE  Max(S) \in S /\ \A k \in S : k <= Max(S)
<1>1. \E x \in S : \A y \in S : y <= x
  BY MaxNat
<1>2. \E x \in S : \A y \in S : x >= y
  <2>1. PICK x \in S : \A y \in S : y <= x
    BY <1>1
  <2> QED BY <2>1
<1>3. Max(S) \in S /\ \A y \in S : Max(S) >= y
  BY <1>2, Zenon DEF Max
<1> QED BY <1>3

\* lu256Cmp compares the numbers.
LEMMA CmpIs ==
  ASSUME NEW x \in U256, NEW y \in U256
  PROVE  /\ lu256Cmp(x, y) \in {-1, 0, 1}
         /\ lu256Cmp(x, y) = -1 <=> Val(x) < Val(y)
         /\ lu256Cmp(x, y) = 1 <=> Val(x) > Val(y)
         /\ lu256Cmp(x, y) = 0 <=> x = y
         /\ x = y <=> Val(x) = Val(y)
<1>1. Val(x) \in Nat /\ Val(y) \in Nat
  BY IntsOfWords
<1>2. CASE x = y
  BY <1>1, <1>2 DEF lu256Cmp
<1>3. CASE x # y
  <2> DEFINE S == {k \in 0 .. 3 : x[k] # y[k]}
             i == Max(S)
  <2>1. S # {}
    BY <1>3 DEF U256
  <2>2. i \in S /\ \A k \in S : k <= i
    <3>1. S \in SUBSET (0 .. 3)
      OBVIOUS
    <3> HIDE DEF S
    <3> QED BY <2>1, <3>1, MaxOfWords
  <2>3. lu256Cmp(x, y) = IF x[i] > y[i] THEN 1 ELSE -1
    BY <1>3 DEF lu256Cmp
  <2> HIDE DEF i
  <2>4. i \in 0 .. 3 /\ x[i] # y[i] /\ \A k \in 0 .. 3 : k > i => x[k] = y[k]
    BY <2>2
  <2>5. x[i] \in Nat /\ y[i] \in Nat
    BY <2>4, Words
  <2>6. CASE x[i] < y[i]
    <3>1. Val(x) < Val(y)
      BY <2>4, <2>6, HighestWord
    <3> QED BY <1>1, <1>3, <2>3, <2>5, <2>6, <3>1
  <2>7. CASE y[i] < x[i]
    <3>1. Val(y) < Val(x)
      BY <2>4, <2>7, HighestWord
    <3> QED BY <1>1, <1>3, <2>3, <2>5, <2>7, <3>1
  <2> QED BY <2>4, <2>5, <2>6, <2>7
<1> QED BY <1>2, <1>3
-----------------------------------------------------------------------------
(* Multiplication.                                                         *)

\* bits.Mul64: the high word leaves room for a carry.
LEMMA MulWord ==
  ASSUME NEW p \in Word, NEW q \in Word
  PROVE  /\ Lo(p, q) \in Word /\ Hi(p, q) \in Nat /\ Hi(p, q) <= B - 2
         /\ p * q = Lo(p, q) + B * Hi(p, q) /\ p * q \in Nat
<1>1. PICK m \in Nat \ {0} : m = B /\ m >= 2 /\ p \in 0 .. m - 1 /\ q \in 0 .. m - 1
  BY WordBase DEF Word
<1>2. PICK t \in Nat : t = p * q
  BY <1>1, Times
<1>3. t % m \in Nat /\ t % m < m /\ t \div m \in Nat /\ t = (t % m) + m * (t \div m)
  BY DivModIs
<1>4. PICK l \in Nat, h \in Nat : l = t % m /\ h = t \div m /\ t = l + m * h /\ l < m
  BY <1>3
<1>5. t <= (m - 1) * (m - 1)
  <2>1. p * q <= p * (m - 1)
    BY <1>1, TimesMono
  <2>2. (m - 1) * p <= (m - 1) * (m - 1) /\ (m - 1) * p = p * (m - 1)
    BY <1>1, TimesMono, Times
  <2>3. p * q \in Int /\ p * (m - 1) \in Int /\ (m - 1) * (m - 1) \in Int
    BY <1>1, Times
  <2> QED BY <1>2, <2>1, <2>2, <2>3
<1>6. h <= m - 2
  <2> SUFFICES ASSUME h >= m - 1 PROVE FALSE
    BY <1>1
  <2>1. m * (m - 1) <= m * h
    BY TimesMono
  <2>2. m * (m - 1) = (m - 1) * (m - 1) + (m - 1)
    OBVIOUS
  <2>3. m * h \in Int /\ m * (m - 1) \in Int /\ (m - 1) * (m - 1) \in Int
    BY Times
  <2> QED BY <1>1, <1>4, <1>5, <2>1, <2>2, <2>3
<1> QED BY <1>1, <1>2, <1>4, <1>6 DEF Lo, Hi, Word

\* A product with the word 0, and a sum with it.
LEMMA ZeroWord ==
  ASSUME NEW p \in Word
  PROVE  Lo(p, 0) = 0 /\ Hi(p, 0) = 0 /\ Sum(p, 0, 0) = p /\ Carry(p, 0, 0) = 0 /\ 0 \in Word
<1>1. PICK m \in Nat \ {0} : m = B /\ p \in 0 .. m - 1
  BY WordBase DEF Word
<1>2. p * 0 = 0 /\ p + 0 + 0 = p
  BY <1>1
<1>3. 0 % m = 0 /\ 0 \div m = 0 /\ p % m = p /\ p \div m = 0
  BY <1>1, SmallMod
<1> QED BY <1>1, <1>2, <1>3 DEF Lo, Hi, Sum, Carry, Word

\* One word of the product of a number and the word q, with the carry e from the
\* word before it: the sum of the high words does not overflow.
LEMMA MulStep ==
  ASSUME NEW p \in Word, NEW q \in Word, NEW e \in Word
  PROVE  LET c == Carry(e, Lo(p, q), 0)
         IN /\ Sum(e, Lo(p, q), 0) \in Word /\ Hi(p, q) + c \in Word
            /\ (Hi(p, q) + c) % B = Hi(p, q) + c
            /\ p * q + e = Sum(e, Lo(p, q), 0) + B * (Hi(p, q) + c)
<1>1. PICK m \in Nat \ {0}, h \in Nat, l \in Nat :
             m = B /\ m >= 2 /\ h = Hi(p, q) /\ h <= m - 2 /\ l = Lo(p, q) /\ l < m
             /\ p * q = l + m * h /\ e \in 0 .. m - 1 /\ p * q \in Nat
  <2>1. /\ Lo(p, q) \in Word /\ Hi(p, q) \in Nat /\ Hi(p, q) <= B - 2
        /\ p * q = Lo(p, q) + B * Hi(p, q) /\ p * q \in Nat
    BY MulWord
  <2>2. B \in Nat \ {0} /\ B >= 2 /\ Lo(p, q) \in Nat /\ Lo(p, q) < B /\ e \in 0 .. B - 1
    BY <2>1, WordBase DEF Word
  <2> QED BY <2>1, <2>2
<1>2. PICK c \in Nat, s \in Nat : /\ c = Carry(e, l, 0) /\ s = Sum(e, l, 0) /\ s < m
                                  /\ e + l + 0 = s + m * c
  <2>1. /\ Carry(e, l, 0) \in Nat /\ Sum(e, l, 0) \in Word
        /\ e + l + 0 = Sum(e, l, 0) + B * Carry(e, l, 0)
    <3>1. e \in Nat /\ 0 \in Nat
      BY <1>1
    <3> QED BY <3>1, AddWord
  <2>2. Sum(e, l, 0) \in Nat /\ Sum(e, l, 0) < m
    BY <1>1, <2>1 DEF Word
  <2> QED BY <1>1, <2>1, <2>2
<1>3. c <= 1
  <2> SUFFICES ASSUME c >= 2 PROVE FALSE
    OBVIOUS
  <2>1. m * 2 <= m * c /\ m * c \in Int
    BY TimesMono, Times
  <2> QED BY <1>1, <1>2, <2>1
<1>4. h + c \in Nat /\ h + c < m
  BY <1>1, <1>3
<1>5. (h + c) % m = h + c
  BY <1>4, SmallMod
<1>6. m * (h + c) = m * h + m * c /\ m * h \in Int /\ m * c \in Int
  BY Times
<1>7. p * q + e = s + m * (h + c)
  <2>1. PICK t \in Int, mh \in Int, mc \in Int : t = p * q /\ mh = m * h /\ mc = m * c
    BY <1>1, <1>6
  <2>2. t = l + mh /\ e + l = s + mc /\ e \in Int
    BY <1>1, <1>2, <2>1
  <2>3. t + e = s + (mh + mc)
    BY <2>2
  <2> QED BY <1>6, <2>1, <2>3
<1> QED BY <1>1, <1>2, <1>4, <1>5, <1>7 DEF Word

\* The product of two words sums three of them: the result of lu256Mul is a number.
LEMMA MulWords ==
  ASSUME NEW x \in U256, NEW y \in U256
  PROVE  lu256Mul(x, y) \in U256
<1> DEFINE r == lu256Mul(x, y)
<1>1. /\ x[0] \in Word /\ x[1] \in Word /\ x[2] \in Word /\ x[3] \in Word
      /\ y[0] \in Word /\ y[1] \in Word /\ y[2] \in Word /\ y[3] \in Word
  BY DEF U256
<1>2. ASSUME NEW p \in Nat PROVE p % B \in Word
  <2>1. PICK m \in Nat \ {0} : m = B
    BY WordBase
  <2>2. p % m \in Nat /\ p % m < m
    BY DivModIs
  <2> QED BY <2>1, <2>2 DEF Word
<1>3. \A p \in Word : p \in Nat
  BY WordBase DEF Word
<1>4. \A p, q, c \in Nat : Sum(p, q, c) \in Word /\ Carry(p, q, c) \in Nat
  BY AddWord
<1>5. \A p, q \in Word : Lo(p, q) \in Word /\ Hi(p, q) \in Nat /\ Lo(p, q) \in Nat
  BY <1>3, MulWord
<1> DEFINE h0 == Hi(x[0], y[0])
           p01 == Lo(x[0], y[1])
           p10 == Lo(x[1], y[0])
           s1 == Sum(h0, p01, 0)
           d1 == Carry(h0, p01, 0)
           carry1 == (Hi(x[0], y[1]) + Hi(x[1], y[0]) + Carry(s1, p10, d1)) % B
           p02 == Lo(x[0], y[2])
           p11 == Lo(x[1], y[1])
           p20 == Lo(x[2], y[0])
           s2 == Sum(carry1, p02, 0)
           d2 == Carry(carry1, p02, 0)
           s3 == Sum(s2, p11, d2)
           d3 == Carry(s2, p11, d2)
           carry2 == (Hi(x[0], y[2]) + Hi(x[1], y[1]) + Hi(x[2], y[0]) + Carry(s3, p20, d3)) % B
           t3 == carry2 + Lo(x[0], y[3]) + Lo(x[1], y[2]) + Lo(x[2], y[1]) + Lo(x[3], y[0])
<1>6. /\ r[0] = Lo(x[0], y[0]) /\ r[1] = Sum(s1, p10, d1) /\ r[2] = Sum(s3, p20, d3) /\ r[3] = t3 % B
      /\ r = [i \in 0 .. 3 |-> r[i]]
  <2>1. r = [i \in 0 .. 3 |-> <<Lo(x[0], y[0]), Sum(s1, p10, d1), Sum(s3, p20, d3), t3 % B>>[i + 1]]
    BY Zenon DEF lu256Mul
  <2> HIDE DEF r, s1, d1, s3, d3, t3, p10, p20
  <2> QED BY <2>1
<1> HIDE DEF r
<1>7. h0 \in Nat /\ p01 \in Nat /\ p10 \in Nat /\ p02 \in Nat /\ p11 \in Nat /\ p20 \in Nat
  BY <1>1, <1>5
<1> HIDE DEF h0, p01, p10, p02, p11, p20
<1>8. s1 \in Nat /\ d1 \in Nat
  BY <1>3, <1>4, <1>7
<1> HIDE DEF s1, d1
<1>9. carry1 \in Nat
  <2>1. Carry(s1, p10, d1) \in Nat /\ Hi(x[0], y[1]) \in Nat /\ Hi(x[1], y[0]) \in Nat
    BY <1>1, <1>4, <1>5, <1>7, <1>8
  <2>2. Hi(x[0], y[1]) + Hi(x[1], y[0]) + Carry(s1, p10, d1) \in Nat
    BY <2>1
  <2> QED BY <1>2, <1>3, <2>2
<1> HIDE DEF carry1
<1>10. s2 \in Nat /\ d2 \in Nat
  BY <1>3, <1>4, <1>7, <1>9
<1> HIDE DEF s2, d2
<1>11. s3 \in Nat /\ d3 \in Nat
  BY <1>3, <1>4, <1>7, <1>10
<1> HIDE DEF s3, d3
<1>12. carry2 \in Nat
  <2>1. Carry(s3, p20, d3) \in Nat /\ Hi(x[0], y[2]) \in Nat /\ Hi(x[1], y[1]) \in Nat /\ Hi(x[2], y[0]) \in Nat
    BY <1>1, <1>4, <1>5, <1>7, <1>11
  <2>2. Hi(x[0], y[2]) + Hi(x[1], y[1]) + Hi(x[2], y[0]) + Carry(s3, p20, d3) \in Nat
    BY <2>1
  <2> QED BY <1>2, <1>3, <2>2
<1> HIDE DEF carry2
<1>13. t3 \in Nat
  <2>1. Lo(x[0], y[3]) \in Nat /\ Lo(x[1], y[2]) \in Nat /\ Lo(x[2], y[1]) \in Nat /\ Lo(x[3], y[0]) \in Nat
    BY <1>1, <1>5
  <2> QED BY <1>12, <2>1
<1> HIDE DEF t3
<1>14. r[0] \in Word /\ r[1] \in Word /\ r[2] \in Word /\ r[3] \in Word
  BY <1>1, <1>2, <1>4, <1>5, <1>6, <1>7, <1>8, <1>11, <1>13
<1> QED BY <1>6, <1>14, FourWords DEF r

\* A divisor or factor of one word.
LEMMA OneWord ==
  ASSUME NEW d \in U256, dLen(d) = 1
  PROVE  d[1] = 0 /\ d[2] = 0 /\ d[3] = 0
<1> DEFINE S == {i \in 0 .. 3 : i = 0 \/ d[i] # 0}
<1>1. S \in SUBSET (0 .. 3) /\ 0 \in S
  OBVIOUS
<1>2. Max(S) \in S /\ \A k \in S : k <= Max(S)
  <2> HIDE DEF S
  <2> QED BY <1>1, MaxOfWords
<1>3. dLen(d) = 1 + Max(S)
  BY DEF dLen
<1>4. Max(S) \in Int
  <2>1. \A k \in S : k \in Int
    OBVIOUS
  <2> HIDE DEF S
  <2> QED BY <1>2, <2>1
<1>5. \A k \in S : k <= 0
  <2> HIDE DEF S
  <2> QED BY <1>2, <1>3, <1>4
<1> QED BY <1>5

\* lu256Mul is multiplication modulo 2^256 when one factor is one word.
LEMMA MulByWord ==
  ASSUME NEW x \in U256, NEW y \in U256, dLen(y) = 1
  PROVE  Multiplies(x, y)
<1> DEFINE r == lu256Mul(x, y)
           q == y[0]
<1>1. /\ x[0] \in Word /\ x[1] \in Word /\ x[2] \in Word /\ x[3] \in Word /\ q \in Word
      /\ y[1] = 0 /\ y[2] = 0 /\ y[3] = 0
  BY OneWord DEF U256
<1> DEFINE h0 == Hi(x[0], q)
           e1 == Hi(x[1], q) + Carry(h0, Lo(x[1], q), 0)
           e2 == Hi(x[2], q) + Carry(e1, Lo(x[2], q), 0)
           e3 == Hi(x[3], q) + Carry(e2, Lo(x[3], q), 0)
<1>2. /\ \A p \in Word : /\ Lo(p, 0) = 0 /\ Hi(p, 0) = 0 /\ Sum(p, 0, 0) = p
                         /\ Carry(p, 0, 0) = 0 /\ 0 \in Word
      /\ \A p \in Word : p \in Nat
  <2>1. \A p \in Word : p \in Nat
    BY WordBase DEF Word
  <2> QED BY <2>1, ZeroWord
<1>3. h0 \in Word /\ x[0] * q = Lo(x[0], q) + B * h0 /\ Lo(x[0], q) \in Word
  <2>1. h0 \in Nat /\ h0 <= B - 2 /\ x[0] * q = Lo(x[0], q) + B * h0 /\ Lo(x[0], q) \in Word
    BY <1>1, MulWord
  <2> QED BY <2>1, WordBase DEF Word
<1>4. /\ Sum(h0, Lo(x[1], q), 0) \in Word /\ e1 \in Word /\ e1 % B = e1
      /\ x[1] * q + h0 = Sum(h0, Lo(x[1], q), 0) + B * e1
  <2> HIDE DEF q, h0
  <2> QED BY <1>1, <1>3, MulStep
<1>5. /\ Sum(e1, Lo(x[2], q), 0) \in Word /\ e2 \in Word /\ e2 % B = e2
      /\ x[2] * q + e1 = Sum(e1, Lo(x[2], q), 0) + B * e2
  <2> HIDE DEF q, e1
  <2> QED BY <1>1, <1>4, MulStep
<1>6. /\ Sum(e2, Lo(x[3], q), 0) \in Word /\ e3 \in Word
      /\ x[3] * q + e2 = Sum(e2, Lo(x[3], q), 0) + B * e3
  <2> HIDE DEF q, e2
  <2> QED BY <1>1, <1>5, MulStep
<1>7. /\ r[0] = Lo(x[0], q) /\ r[1] = Sum(h0, Lo(x[1], q), 0)
      /\ r[2] = Sum(e1, Lo(x[2], q), 0) /\ r[3] = Sum(e2, Lo(x[3], q), 0)
  <2> DEFINE s1 == Sum(h0, Lo(x[0], y[1]), 0)
             d1 == Carry(h0, Lo(x[0], y[1]), 0)
             carry1 == (Hi(x[0], y[1]) + Hi(x[1], y[0]) + Carry(s1, Lo(x[1], y[0]), d1)) % B
             s2 == Sum(carry1, Lo(x[0], y[2]), 0)
             d2 == Carry(carry1, Lo(x[0], y[2]), 0)
             s3 == Sum(s2, Lo(x[1], y[1]), d2)
             d3 == Carry(s2, Lo(x[1], y[1]), d2)
             carry2 == (Hi(x[0], y[2]) + Hi(x[1], y[1]) + Hi(x[2], y[0])
                         + Carry(s3, Lo(x[2], y[0]), d3)) % B
             t3 == carry2 + Lo(x[0], y[3]) + Lo(x[1], y[2]) + Lo(x[2], y[1]) + Lo(x[3], y[0])
  <2>1. r = [i \in 0 .. 3 |->
               <<Lo(x[0], y[0]), Sum(s1, Lo(x[1], y[0]), d1), Sum(s3, Lo(x[2], y[0]), d3), t3 % B>>[i + 1]]
    BY Zenon DEF lu256Mul
  <2>2. s1 = h0 /\ d1 = 0
    <3> HIDE DEF h0
    <3> QED BY <1>1, <1>2, <1>3
  <2>3. carry1 = e1
    <3>1. Hi(x[0], y[1]) = 0
      BY <1>1, <1>2
    <3>2. carry1 = (0 + Hi(x[1], q) + Carry(h0, Lo(x[1], q), 0)) % B
      <4> HIDE DEF s1, d1, h0
      <4> QED BY <2>2, <3>1
    <3>3. Hi(x[1], q) \in Nat
      BY <1>1, MulWord
    <3> HIDE DEF carry1
    <3>4. 0 + Hi(x[1], q) + Carry(h0, Lo(x[1], q), 0) = e1
      BY <3>3
    <3> QED BY <3>2, <3>4, <1>4
  <2>4. s2 = e1 /\ d2 = 0
    <3> HIDE DEF carry1, e1
    <3> QED BY <1>1, <1>2, <1>4, <2>3
  <2>5. s3 = e1 /\ d3 = 0
    <3> HIDE DEF s2, d2, e1
    <3> QED BY <1>1, <1>2, <1>4, <2>4
  <2>6. carry2 = e2
    <3>1. Hi(x[0], y[2]) = 0 /\ Hi(x[1], y[1]) = 0
      BY <1>1, <1>2
    <3>2. carry2 = (0 + 0 + Hi(x[2], q) + Carry(e1, Lo(x[2], q), 0)) % B
      <4> HIDE DEF s3, d3, e1
      <4> QED BY <2>5, <3>1
    <3>3. Hi(x[2], q) \in Nat
      BY <1>1, MulWord
    <3> HIDE DEF carry2, e1
    <3>4. 0 + 0 + Hi(x[2], q) + Carry(e1, Lo(x[2], q), 0) = e2
      BY <3>3
    <3> QED BY <3>2, <3>4, <1>5
  <2>7. t3 % B = Sum(e2, Lo(x[3], q), 0)
    <3>1. Lo(x[0], y[3]) = 0 /\ Lo(x[1], y[2]) = 0 /\ Lo(x[2], y[1]) = 0
      BY <1>1, <1>2
    <3>2. Lo(x[3], q) \in Nat /\ e2 \in Nat
      <4> HIDE DEF e2
      <4> QED BY <1>1, <1>2, <1>5, MulWord
    <3>3. t3 = e2 + 0 + 0 + 0 + Lo(x[3], q)
      <4> HIDE DEF carry2, e2
      <4> QED BY <2>6, <3>1
    <3> HIDE DEF t3, e2
    <3>4. t3 = e2 + Lo(x[3], q) + 0
      BY <3>2, <3>3
    <3> QED BY <3>4 DEF Sum
  <2> HIDE DEF r, s1, d1, s3, d3, t3, h0, e1, e2
  <2>8. r[0] = Lo(x[0], y[0]) /\ r[1] = Sum(s1, Lo(x[1], y[0]), d1) /\ r[2] = Sum(s3, Lo(x[2], y[0]), d3) /\ r[3] = t3 % B
    BY <2>1
  <2> QED BY <2>2, <2>5, <2>7, <2>8
<1> DEFINE z == [i \in 0 .. 3 |-> x[i] * q]
           zero == [i \in 0 .. 3 |-> 0]
<1>8. q \in Int /\ Ints(x) /\ Val(x) \in Int /\ Val(y) = q
  <2>1. q \in Nat /\ Val(x) \in Nat
    BY <1>1, <1>2, IntsOfWords
  <2>2. Base(1) \in Int /\ Base(2) \in Int /\ Base(3) \in Int
    BY BaseSucc
  <2>3. Val(y) = q + Base(1) * 0 + Base(2) * 0 + Base(3) * 0
    BY <1>1 DEF Val
  <2>4. Val(y) = q
    BY <2>1, <2>2, <2>3
  <2> QED BY <2>1, <2>4, IntsOfWords
<1>9. Ints(z) /\ Val(z) = Val(x) * q
  <2>1. Ints(zero) /\ Val(zero) = 0
    <3>1. Base(1) \in Int /\ Base(2) \in Int /\ Base(3) \in Int
      BY BaseSucc
    <3> QED BY <3>1 DEF Ints, Val
  <2>2. \A i \in 0 .. 3 : z[i] = zero[i] + q * x[i]
    <3>1. \A i \in 0 .. 3 : x[i] \in Int
      BY IntsOfWords
    <3> QED BY <1>8, <3>1
  <2> HIDE DEF z, zero, q
  <2>3. Ints(z) /\ Val(z) = Val(zero) + q * Val(x)
    BY <1>8, <2>1, <2>2, ValLinear
  <2> QED BY <1>8, <2>1, <2>3
<1>10. z[0] = x[0] * q /\ z[1] = x[1] * q /\ z[2] = x[2] * q /\ z[3] = x[3] * q
  OBVIOUS
<1>11. h0 \in Int /\ e1 \in Int /\ e2 \in Int /\ e3 \in Int
  <2>1. \A p \in Word : p \in Int
    BY <1>2
  <2> HIDE DEF h0, e1, e2, e3
  <2> QED BY <1>3, <1>4, <1>5, <1>6, <2>1
<1> HIDE DEF r, q, h0, e1, e2, e3, z
<1>12. r \in U256
  BY MulWords DEF r
<1>13. Chain(z, r, h0, e1, e2, e3)
  BY <1>3, <1>4, <1>5, <1>6, <1>7, <1>10 DEF Chain
<1>14. Val(r) = Val(z) % 2 ^ Bits
  BY <1>9, <1>11, <1>12, <1>13, ChainWraps
<1> QED BY <1>8, <1>9, <1>14 DEF Multiplies, r
-----------------------------------------------------------------------------
(* Shifts.  A word of W bits is split into one factor 2^s and one 2^(W - s). *)

\* The number zero.
LEMMA ValZero ==
  LUint256Zero \in U256 /\ Val(LUint256Zero) = 0 /\ \A x \in U256 : lu256IsZero(x) <=> Val(x) = 0
<1>1. B \in Nat \ {0} /\ Base(1) \in Int /\ Base(2) \in Int /\ Base(3) \in Int
  BY WordBase, BaseSucc
<1>2. LUint256Zero \in U256 /\ Val(LUint256Zero) = 0
  BY <1>1 DEF LUint256Zero, U256, Word, Val
<1> QED BY <1>2, CmpIs DEF lu256IsZero

\* The two parts of a word.
LEMMA WordSplit ==
  ASSUME NEW s \in 0 .. W
  PROVE  2 ^ s \in Nat \ {0} /\ 2 ^ (W - s) \in Nat \ {0} /\ B = 2 ^ s * 2 ^ (W - s)
<1>1. s \in Nat /\ W - s \in Nat /\ s + (W - s) = W
  BY WordBase
<1>2. 2 ^ (s + (W - s)) = 2 ^ s * 2 ^ (W - s)
  BY <1>1, PowPlus
<1> QED BY <1>1, <1>2, PowPos DEF B

\* A distance of k bits is k \div W words and k % W bits.
LEMMA Distance ==
  ASSUME NEW k \in Nat, k < Bits
  PROVE  /\ k \div W \in 0 .. 3 /\ k % W \in 0 .. W - 1 /\ k = (k \div W) * W + (k % W)
         /\ 2 ^ k = Base(k \div W) * 2 ^ (k % W)
<1>1. PICK w \in Nat \ {0} : w = W /\ Bits = 4 * w
  BY WordBase
<1>2. k % w \in Nat /\ k % w < w /\ k \div w \in Nat /\ k = (k % w) + w * (k \div w)
  BY DivModIs
<1>3. PICK q \in Nat, s \in Nat : q = k \div w /\ s = k % w /\ s < w /\ k = s + w * q
  BY <1>2
<1>4. q <= 3
  <2> SUFFICES ASSUME q >= 4 PROVE FALSE
    OBVIOUS
  <2>1. w * 4 <= w * q /\ w * q \in Int
    BY TimesMono, Times
  <2> QED BY <1>1, <1>3, <2>1
<1>5. q * w = w * q /\ q * w \in Nat
  BY Times
<1>6. k = q * w + s
  BY <1>3, <1>5
<1>7. 2 ^ (q * w + s) = 2 ^ (q * w) * 2 ^ s
  BY <1>5, PowPlus
<1>8. k \div W = q /\ k % W = s
  BY <1>1, <1>3
<1>9. 2 ^ k = Base(q) * 2 ^ s
  BY <1>1, <1>6, <1>7 DEF Base
<1>10. q \in 0 .. 3 /\ s \in 0 .. W - 1 /\ k = q * W + s
  BY <1>1, <1>3, <1>4, <1>6
<1> QED BY <1>8, <1>9, <1>10

\* A word shifted left: what stays in the word, and what goes to the next one.
LEMMA ShlWord ==
  ASSUME NEW p \in Word, NEW t \in Nat \ {0}, NEW u \in Nat \ {0}, B = t * u
  PROVE  /\ p \div u \in Nat /\ p \div u < t
         /\ (p * t) % B \in Nat /\ (p * t) % B <= B - t
         /\ p * t = ((p * t) % B) + B * (p \div u)
<1>1. p \in Nat /\ p < t * u /\ B \in Nat \ {0}
  BY WordBase DEF Word
<1>2. p % u \in Nat /\ p % u < u /\ p \div u \in Nat /\ p = (p % u) + u * (p \div u)
  BY <1>1, DivModIs
<1>3. PICK l \in Nat, h \in Nat : l = p % u /\ h = p \div u /\ l < u /\ p = l + u * h
  BY <1>2
<1>4. h < t
  <2> SUFFICES ASSUME h >= t PROVE FALSE
    OBVIOUS
  <2>1. u * t <= u * h /\ u * t = t * u /\ u * h \in Int /\ t * u \in Int
    BY TimesMono, Times
  <2> QED BY <1>1, <1>3, <2>1
<1>5. PICK y \in Nat, r \in Nat : y = p * t /\ r = t * l
  BY <1>1, Times
<1>6. y = r + B * h
  <2>1. (l + u * h) * t = t * l + (t * u) * h
    OBVIOUS
  <2> QED BY <1>3, <1>5, <2>1
<1>7. r <= B - t
  <2>1. t * l <= t * (u - 1) /\ t * (u - 1) = t * u - t
    BY <1>3, TimesMono
  <2> QED BY <1>5, <2>1
<1>8. y % B = r
  <2>1. r < B
    BY <1>1, <1>7
  <2>2. PICK m \in Nat \ {0} : m = B
    BY <1>1
  <2>3. r < m /\ y = r + m * h
    BY <1>6, <2>1, <2>2
  <2>4. y % m = r
    BY <2>3, DivModUnique
  <2> QED BY <2>2, <2>4
<1> QED BY <1>3, <1>4, <1>5, <1>6, <1>7, <1>8

\* Word j of a number, 0 beyond its words.
At0(x, j) == IF j \in 0 .. 3 THEN x[j] ELSE 0

\* Words of At0.
LEMMA At0Word ==
  ASSUME NEW x \in U256, NEW j
  PROVE  At0(x, j) \in Word
<1>1. 0 \in Word
  BY WordBase DEF Word
<1> QED BY <1>1 DEF At0, U256

\* Word j of a number shifted left by s bits.
LEMMA ShiftedLeftIs ==
  ASSUME NEW x \in U256, NEW s \in 0 .. W, NEW j \in Int
  PROVE  LET c(i) == At0(x, i) \div 2 ^ (W - s)
         IN /\ ShiftedLeft(x, s, j) \in Word /\ c(j) \in Nat /\ c(j - 1) \in Nat
            /\ At0(x, j) * 2 ^ s + c(j - 1) = ShiftedLeft(x, s, j) + B * c(j)
<1>1. PICK t \in Nat \ {0}, u \in Nat \ {0} : t = 2 ^ s /\ u = 2 ^ (W - s) /\ B = t * u
  BY WordSplit
<1>2. PICK p \in Word, q \in Word : p = At0(x, j) /\ q = At0(x, j - 1)
  BY At0Word
<1>3. /\ p \div u \in Nat /\ (p * t) % B \in Nat /\ (p * t) % B <= B - t
      /\ p * t = ((p * t) % B) + B * (p \div u)
      /\ q \div u \in Nat /\ q \div u < t
  BY <1>1, ShlWord
<1>4. DOMAIN x = 0 .. 3
  BY DEF U256
<1>5. 0 \div u = 0 /\ (0 * t) % B = 0
  <2>1. PICK m \in Nat \ {0} : m = B
    BY WordBase
  <2>2. 0 % m = 0 /\ 0 \div u = 0 /\ 0 * t = 0
    BY SmallMod
  <2> QED BY <2>1, <2>2
<1>6. ShiftedLeft(x, s, j) = ((p * t) % B) + q \div u
  <2>1. (IF j \in DOMAIN x THEN (x[j] * 2 ^ s) % B ELSE 0) = (p * t) % B
    BY <1>1, <1>2, <1>4, <1>5 DEF At0
  <2>2. (IF j - 1 \in DOMAIN x THEN x[j - 1] \div 2 ^ (W - s) ELSE 0) = q \div u
    BY <1>1, <1>2, <1>4, <1>5 DEF At0
  <2> QED BY <2>1, <2>2 DEF ShiftedLeft
<1>7. PICK l \in Nat, h \in Nat, g \in Nat, bh \in Int, m \in Nat :
        l = (p * t) % B /\ h = p \div u /\ g = q \div u /\ bh = B * h /\ m = B
  BY <1>3, WordBase, Times
<1>8. ShiftedLeft(x, s, j) \in Word
  <2>1. ShiftedLeft(x, s, j) = l + g /\ l <= m - t /\ g < t
    BY <1>3, <1>6, <1>7
  <2>2. l + g \in 0 .. m - 1
    BY <2>1
  <2> QED BY <1>7, <2>1, <2>2 DEF Word
<1>9. p * t + g = (l + g) + bh
  BY <1>3, <1>7
<1> QED BY <1>1, <1>2, <1>3, <1>6, <1>7, <1>8, <1>9

\* A number whose words are t times those of x, q words higher.
LEMMA ValShifted ==
  ASSUME NEW x \in U256, NEW z, NEW t \in Nat, NEW q \in 0 .. 3,
         \A i \in 0 .. 3 : z[i] = At0(x, i - q) * t
  PROVE  Ints(z) /\ \E e \in Int : Val(x) * (Base(q) * t) = Val(z) + 2 ^ Bits * e
<1>1. PICK x0 \in Int, x1 \in Int, x2 \in Int, x3 \in Int, m \in Int :
             x0 = x[0] /\ x1 = x[1] /\ x2 = x[2] /\ x3 = x[3] /\ m = B
  BY IntsOfWords, WordBase DEF Ints
<1>2. /\ Base(0) = 1 /\ Base(1) = m /\ Base(2) = m * m /\ Base(3) = (m * m) * m
      /\ 2 ^ Bits = ((m * m) * m) * m
  BY <1>1, Bases
<1>3. /\ Val(x) = x0 + m * x1 + (m * m) * x2 + ((m * m) * m) * x3
      /\ Val(z) = z[0] + m * z[1] + (m * m) * z[2] + ((m * m) * m) * z[3]
  BY <1>1, <1>2 DEF Val
<1>4. CASE q = 0
  <2>1. z[0] = x0 * t /\ z[1] = x1 * t /\ z[2] = x2 * t /\ z[3] = x3 * t
    BY <1>1, <1>4 DEF At0
  <2>2. (x0 + m * x1 + (m * m) * x2 + ((m * m) * m) * x3) * (1 * t)
          = (x0 * t + m * (x1 * t) + (m * m) * (x2 * t) + ((m * m) * m) * (x3 * t)) + (((m * m) * m) * m) * 0
    OBVIOUS
  <2>3. Val(x) * (Base(q) * t) = Val(z) + 2 ^ Bits * 0
    BY <1>2, <1>3, <1>4, <2>1, <2>2
  <2> QED BY <2>1, <2>3 DEF Ints
<1>5. CASE q = 1
  <2>1. z[0] = 0 * t /\ z[1] = x0 * t /\ z[2] = x1 * t /\ z[3] = x2 * t
    BY <1>1, <1>5 DEF At0
  <2>2. (x0 + m * x1 + (m * m) * x2 + ((m * m) * m) * x3) * (m * t)
          = (0 * t + m * (x0 * t) + (m * m) * (x1 * t) + ((m * m) * m) * (x2 * t))
            + (((m * m) * m) * m) * (x3 * t)
    OBVIOUS
  <2>3. Val(x) * (Base(q) * t) = Val(z) + 2 ^ Bits * (x3 * t)
    BY <1>2, <1>3, <1>5, <2>1, <2>2
  <2> QED BY <2>1, <2>3 DEF Ints
<1>6. CASE q = 2
  <2>1. z[0] = 0 * t /\ z[1] = 0 * t /\ z[2] = x0 * t /\ z[3] = x1 * t
    BY <1>1, <1>6 DEF At0
  <2>2. (x0 + m * x1 + (m * m) * x2 + ((m * m) * m) * x3) * ((m * m) * t)
          = (0 * t + m * (0 * t) + (m * m) * (x0 * t) + ((m * m) * m) * (x1 * t))
            + (((m * m) * m) * m) * (x2 * t + m * (x3 * t))
    OBVIOUS
  <2>3. Val(x) * (Base(q) * t) = Val(z) + 2 ^ Bits * (x2 * t + m * (x3 * t))
    BY <1>2, <1>3, <1>6, <2>1, <2>2
  <2> QED BY <2>1, <2>3 DEF Ints
<1>7. CASE q = 3
  <2>1. z[0] = 0 * t /\ z[1] = 0 * t /\ z[2] = 0 * t /\ z[3] = x0 * t
    BY <1>1, <1>7 DEF At0
  <2>2. (x0 + m * x1 + (m * m) * x2 + ((m * m) * m) * x3) * (((m * m) * m) * t)
          = (0 * t + m * (0 * t) + (m * m) * (0 * t) + ((m * m) * m) * (x0 * t))
            + (((m * m) * m) * m) * (x1 * t + m * (x2 * t) + (m * m) * (x3 * t))
    OBVIOUS
  <2>3. Val(x) * (Base(q) * t) = Val(z) + 2 ^ Bits * (x1 * t + m * (x2 * t) + (m * m) * (x3 * t))
    BY <1>2, <1>3, <1>7, <2>1, <2>2
  <2> QED BY <2>1, <2>3 DEF Ints
<1> QED BY <1>4, <1>5, <1>6, <1>7

\* lu256Shl multiplies by a power of two modulo 2^256.
LEMMA ShlIs ==
  ASSUME NEW x \in U256, NEW k \in 0 .. Bits
  PROVE  lu256Shl(x, k) \in U256 /\ Val(lu256Shl(x, k)) = (Val(x) * 2 ^ k) % 2 ^ Bits
<1>0. k \in Nat /\ Bits \in Nat /\ 2 ^ Bits \in Nat \ {0} /\ Val(x) \in Nat
  BY WordBase, Bases, IntsOfWords
<1>1. CASE k >= Bits
  <2>1. lu256Shl(x, k) = LUint256Zero /\ k = Bits
    BY <1>0, <1>1 DEF lu256Shl
  <2>2. PICK p \in Nat \ {0}, v \in Nat, t \in Int : p = 2 ^ Bits /\ v = Val(x) /\ t = v * p
    BY <1>0, Times
  <2>3. 0 < p /\ t = 0 + p * v
    BY <2>2, Times
  <2>4. t % p = 0
    BY <2>3, DivModUnique
  <2> QED BY <2>1, <2>2, <2>4, ValZero
<1>2. CASE k < Bits
  <2> DEFINE q == k \div W
             s == k % W
             t == 2 ^ s
             c(i) == At0(x, i) \div 2 ^ (W - s)
             r == lu256Shl(x, k)
             z == [i \in 0 .. 3 |-> At0(x, i - q) * t]
  <2>1. q \in 0 .. 3 /\ s \in 0 .. W - 1 /\ 2 ^ k = Base(q) * t
    BY <1>0, <1>2, Distance
  <2>2. r = [i \in 0 .. 3 |-> ShiftedLeft(x, s, i - q)]
    BY <1>0, <1>2 DEF lu256Shl
  <2> HIDE DEF q, s
  <2>3. s \in 0 .. W /\ t \in Nat
    <3>1. s \in 0 .. W
      BY <2>1, WordBase
    <3> QED BY <3>1, WordSplit
  <2> HIDE DEF r, t
  <2>4. ASSUME NEW i \in 0 .. 3
        PROVE  /\ r[i] \in Word /\ c(i - q) \in Int
               /\ z[i] + c((i - q) - 1) = r[i] + B * c(i - q) /\ c((i - q) - 1) \in Int
    <3>1. i - q \in Int
      BY <2>1
    <3> DEFINE j == i - q
    <3> HIDE DEF j
    <3>2. /\ ShiftedLeft(x, s, j) \in Word /\ c(j) \in Nat /\ c(j - 1) \in Nat
          /\ At0(x, j) * 2 ^ s + c(j - 1) = ShiftedLeft(x, s, j) + B * c(j)
      BY <2>3, <3>1, ShiftedLeftIs DEF j
    <3>3. r[i] = ShiftedLeft(x, s, j) /\ z[i] = At0(x, j) * 2 ^ s
      BY <2>2 DEF j, t
    <3> HIDE DEF c, z
    <3>4. r[i] \in Word /\ c(j) \in Int /\ z[i] + c(j - 1) = r[i] + B * c(j) /\ c(j - 1) \in Int
      BY <3>2, <3>3
    <3> QED BY <3>4 DEF j
  <2>5. z = [i \in 0 .. 3 |-> z[i]] /\ \A i \in 0 .. 3 : z[i] = At0(x, i - q) * t
    OBVIOUS
  <2>6. c(-1 - q) = 0
    <3>1. At0(x, -1 - q) = 0
      BY <2>1 DEF At0
    <3>2. PICK u \in Nat \ {0} : u = 2 ^ (W - s)
      BY <2>3, WordSplit
    <3>3. 0 \div u = 0
      BY SmallMod
    <3> QED BY <3>1, <3>2, <3>3
  <2> HIDE DEF c, z
  <2>7. r \in U256
    <3>1. r = [i \in 0 .. 3 |-> r[i]]
      BY <2>2
    <3> QED BY <2>4, <3>1, FourWords
  <2>8. PICK e \in Int : Val(x) * (Base(q) * t) = Val(z) + 2 ^ Bits * e /\ Ints(z)
    <3>1. \A i \in 0 .. 3 : z[i] = At0(x, i - q) * t
      BY <2>5
    <3>2. Ints(z) /\ \E e \in Int : Val(x) * (Base(q) * t) = Val(z) + 2 ^ Bits * e
      BY <2>1, <2>3, <3>1, ValShifted
    <3> QED BY <3>2, Zenon
  <2>9. /\ c(0 - q) \in Int /\ c(1 - q) \in Int /\ c(2 - q) \in Int /\ c(3 - q) \in Int
        /\ Chain(z, r, c(0 - q), c(1 - q), c(2 - q), c(3 - q))
    <3>1. z[0] + c((0 - q) - 1) = r[0] + B * c(0 - q) /\ c(0 - q) \in Int
      BY <2>4
    <3>2. z[1] + c((1 - q) - 1) = r[1] + B * c(1 - q) /\ c(1 - q) \in Int
      BY <2>4
    <3>3. z[2] + c((2 - q) - 1) = r[2] + B * c(2 - q) /\ c(2 - q) \in Int
      BY <2>4
    <3>4. z[3] + c((3 - q) - 1) = r[3] + B * c(3 - q) /\ c(3 - q) \in Int
      BY <2>4
    <3>5. (0 - q) - 1 = -1 - q /\ (1 - q) - 1 = 0 - q /\ (2 - q) - 1 = 1 - q /\ (3 - q) - 1 = 2 - q
      BY <2>1
    <3>6. z[0] + 0 = z[0]
      BY <2>8 DEF Ints
    <3>7. z[0] = r[0] + B * c(0 - q)
      BY <3>1, <3>5, <3>6, <2>6
    <3> QED BY <3>1, <3>2, <3>3, <3>4, <3>5, <3>7 DEF Chain
  <2>10. Val(z) \in Int /\ Val(r) = Val(z) % 2 ^ Bits
    BY <2>7, <2>8, <2>9, ChainWraps
  <2>11. PICK p \in Nat \ {0}, v \in Int, y \in Int : p = 2 ^ Bits /\ v = Val(z) /\ y = Val(x) * 2 ^ k /\ y = v + p * e
    BY <1>0, <2>1, <2>8, <2>10
  <2>12. (v + p * e) % p = v % p
    BY AddMultiple
  <2>13. y % p = v % p
    BY <2>11, <2>12
  <2> QED BY <2>7, <2>10, <2>11, <2>13 DEF r
<1> QED BY <1>0, <1>1, <1>2

\* High for every word, the ones beyond the number included.
LEMMA HighAll ==
  ASSUME NEW x \in U256, NEW j \in Nat
  PROVE  /\ High(x, j) \in Nat /\ High(x, j + 1) \in Nat
         /\ High(x, j) = At0(x, j) + B * High(x, j + 1)
<1>1. ASSUME NEW i \in Nat, i >= 4 PROVE High(x, i) = 0
  <2>1. Val(x) \in Nat /\ Val(x) < 2 ^ Bits /\ Base(i) \in Nat \ {0} /\ 2 ^ Bits \in Nat
    BY IntsOfWords, BaseSucc, Bases
  <2>2. 2 ^ Bits <= Base(i)
    <3>1. 4 * W <= i * W /\ 4 * W \in Nat /\ i * W \in Nat
      <4>1. PICK w \in Nat : w = W
        BY WordBase
      <4>2. w * 4 <= w * i /\ w * 4 = 4 * w /\ w * i = i * w /\ i * w \in Nat
        BY <1>1, TimesMono, Times
      <4> QED BY <4>1, <4>2
    <3>2. 2 ^ (4 * W) <= 2 ^ (i * W)
      BY <3>1, PowMono
    <3> QED BY <3>2 DEF Base, Bits
  <2>3. PICK v \in Nat, m \in Nat \ {0} : v = Val(x) /\ m = Base(i) /\ v < m
    BY <2>1, <2>2
  <2>4. v \div m = 0
    BY <2>3, SmallMod
  <2> QED BY <2>3, <2>4 DEF High
<1>2. CASE j \in 0 .. 3
  <2>1. j \in 0 .. 4 /\ j + 1 \in 0 .. 4
    BY <1>2
  <2>2. High(x, j) \in Nat /\ High(x, j + 1) \in Nat
    BY <2>1, Highs
  <2>3. High(x, j) = x[j] + B * High(x, j + 1)
    BY <1>2, Highs
  <2> QED BY <1>2, <2>2, <2>3 DEF At0
<1>3. CASE j \notin 0 .. 3
  <2>1. High(x, j) = 0 /\ High(x, j + 1) = 0 /\ At0(x, j) = 0
    BY <1>1, <1>3 DEF At0
  <2>2. B * 0 = 0
    BY WordBase
  <2> QED BY <2>1, <2>2
<1> QED BY <1>2, <1>3

\* A word of a number shifted right: p is the word, w the one above it, and g what
\* is above both.
LEMMA ShrWord ==
  ASSUME NEW p \in Word, NEW w \in Word, NEW g \in Nat, NEW t \in Nat \ {0}, NEW u \in Nat \ {0}, B = t * u
  PROVE  ((p + B * (w + B * g)) \div t) % B = (p \div t) + ((w * u) % B)
<1>1. B = u * t
  BY Times
<1>2. p \div t \in Nat /\ p \div t < u
  BY <1>1, ShlWord
<1>3. /\ (w * u) % B \in Nat /\ (w * u) % B <= B - u
      /\ w * u = ((w * u) % B) + B * (w \div t) /\ w \div t \in Nat
  BY <1>1, ShlWord
<1>4. PICK m \in Nat \ {0} : m = B /\ p \in Nat /\ w \in Nat /\ m = t * u
  BY WordBase DEF Word
<1>5. p % t \in Nat /\ p % t < t /\ p = (p % t) + t * (p \div t)
  BY <1>4, DivModIs
<1>6. PICK l \in Nat, h \in Nat : l = p % t /\ h = p \div t /\ l < t /\ p = l + t * h /\ h < u
  BY <1>2, <1>5
<1>7. PICK r \in Nat, f \in Nat : r = (w * u) % B /\ f = w \div t /\ w * u = r + m * f /\ r <= m - u
  BY <1>3, <1>4
<1>8. PICK y \in Nat : y = p + m * (w + m * g)
  BY <1>4, Times
<1>9. PICK d \in Nat : d = (h + r) + m * (f + u * g)
  BY Times
<1>10. y = l + t * d
  <2>1. (l + t * h) + (t * u) * (w + (t * u) * g) = l + t * (h + (w * u) + (t * u) * (u * g))
    <3>1. PICK w0 \in Nat : w0 = w
      BY <1>4
    <3>2. (l + t * h) + (t * u) * (w0 + (t * u) * g) = l + t * (h + (w0 * u) + (t * u) * (u * g))
      OBVIOUS
    <3> QED BY <3>1, <3>2
  <2>2. y = l + t * (h + (w * u) + (t * u) * (u * g))
    BY <1>4, <1>6, <1>8, <2>1
  <2>3. h + (r + m * f) + m * (u * g) = (h + r) + m * (f + u * g)
    OBVIOUS
  <2> QED BY <1>4, <1>7, <1>9, <2>2, <2>3
<1>11. y \div t = d
  <2>1. y \in Int /\ d \in Int
    OBVIOUS
  <2> QED BY <1>6, <1>10, <2>1, DivModUnique
<1>12. d % m = h + r
  <2>1. h + r \in Nat /\ h + r < m
    BY <1>4, <1>6, <1>7
  <2>2. PICK e \in Nat, f1 \in Nat : e = h + r /\ f1 = f + u * g /\ e < m /\ d = e + m * f1
    BY <1>9, <2>1, Times
  <2>3. d \in Int /\ f1 \in Int
    OBVIOUS
  <2>4. d % m = e
    BY <2>2, <2>3, DivModUnique
  <2> QED BY <2>2, <2>4
<1> QED BY <1>4, <1>6, <1>7, <1>8, <1>11, <1>12

\* lu256Shr divides by a power of two.
LEMMA ShrIs ==
  ASSUME NEW x \in U256, NEW k \in 0 .. Bits
  PROVE  lu256Shr(x, k) \in U256 /\ Val(lu256Shr(x, k)) = Val(x) \div 2 ^ k
<1>0. k \in Nat /\ Bits \in Nat /\ 2 ^ Bits \in Nat \ {0} /\ Val(x) \in Nat /\ Val(x) < 2 ^ Bits
  BY WordBase, Bases, IntsOfWords
<1>1. CASE k >= Bits
  <2>1. lu256Shr(x, k) = LUint256Zero /\ k = Bits
    BY <1>0, <1>1 DEF lu256Shr
  <2>2. PICK p \in Nat \ {0}, v \in Nat : p = 2 ^ Bits /\ v = Val(x) /\ v < p
    BY <1>0
  <2>3. v \div p = 0
    BY <2>2, SmallMod
  <2> QED BY <2>1, <2>2, <2>3, ValZero
<1>2. CASE k < Bits
  <2> DEFINE q == k \div W
             s == k % W
             r == lu256Shr(x, k)
             v == Val(x) \div 2 ^ k
  <2>1. q \in 0 .. 3 /\ s \in 0 .. W - 1 /\ 2 ^ k = Base(q) * 2 ^ s
    BY <1>0, <1>2, Distance
  <2>2. r = [i \in 0 .. 3 |-> ShiftedRight(x, s, i + q)]
    BY <1>0, <1>2 DEF lu256Shr
  <2> HIDE DEF q, s, r
  <2>3. s \in 0 .. W
    BY <2>1, WordBase
  <2>4. PICK t \in Nat \ {0}, u \in Nat \ {0} : t = 2 ^ s /\ u = 2 ^ (W - s) /\ B = t * u
    BY <2>3, WordSplit
  <2>5. ASSUME NEW i \in 0 .. 3 PROVE ShiftedRight(x, s, i + q) = (v \div Base(i)) % B
    <3>1. PICK j \in Nat : j = i + q /\ Base(j) = Base(q) * Base(i)
      <4>1. i \in Nat /\ q \in Nat /\ W \in Nat
        BY <2>1, WordBase
      <4>2. i * W \in Nat /\ q * W \in Nat /\ (i + q) * W = q * W + i * W
        BY <4>1
      <4>3. 2 ^ (q * W + i * W) = 2 ^ (q * W) * 2 ^ (i * W)
        BY <4>2, PowPlus
      <4> QED BY <4>1, <4>2, <4>3 DEF Base
    <3>2. /\ High(x, j) \in Nat /\ High(x, j) = At0(x, j) + B * High(x, j + 1)
          /\ High(x, j + 1) = At0(x, j + 1) + B * High(x, (j + 1) + 1) /\ High(x, (j + 1) + 1) \in Nat
      BY HighAll
    <3>3. PICK p \in Word, w \in Word, g \in Nat :
                 p = At0(x, j) /\ w = At0(x, j + 1) /\ g = High(x, (j + 1) + 1)
      BY <3>2, At0Word
    <3>4. (High(x, j) \div t) % B = (p \div t) + ((w * u) % B)
      <4>1. High(x, j) = p + B * (w + B * g)
        BY <3>2, <3>3
      <4>2. ((p + B * (w + B * g)) \div t) % B = (p \div t) + ((w * u) % B)
        BY <2>4, ShrWord, SMTT(30)
      <4> QED BY <4>1, <4>2
    <3>5. v \div Base(i) = High(x, j) \div t
      <4>1. PICK n0 \in Int, bq \in Nat \ {0}, bi \in Nat \ {0} : n0 = Val(x) /\ bq = Base(q) /\ bi = Base(i)
        <5>1. q \in Nat /\ i \in Nat
          BY <2>1
        <5>2. Base(q) \in Nat \ {0} /\ Base(i) \in Nat \ {0}
          BY <5>1, BaseSucc
        <5> QED BY <1>0, <5>2
      <4>2. bq * t \in Nat \ {0} /\ bq * bi \in Nat \ {0}
        BY TimesPos
      <4>3. (n0 \div (bq * t)) \div bi = n0 \div ((bq * t) * bi)
        <5>1. PICK e \in Nat \ {0} : e = bq * t
          BY <4>2
        <5>2. (n0 \div e) \div bi = n0 \div (e * bi)
          BY DivDiv
        <5> QED BY <5>1, <5>2
      <4>4. (n0 \div (bq * bi)) \div t = n0 \div ((bq * bi) * t)
        <5>1. PICK e \in Nat \ {0} : e = bq * bi
          BY <4>2
        <5>2. (n0 \div e) \div t = n0 \div (e * t)
          BY DivDiv
        <5> QED BY <5>1, <5>2
      <4>5. (bq * t) * bi = (bq * bi) * t
        OBVIOUS
      <4>6. v \div Base(i) = (n0 \div (bq * t)) \div bi
        BY <2>1, <2>4, <4>1
      <4>7. High(x, j) \div t = (n0 \div (bq * bi)) \div t
        BY <3>1, <4>1 DEF High
      <4> HIDE DEF v
      <4> QED BY <4>3, <4>4, <4>5, <4>6, <4>7
    <3>6. DOMAIN x = 0 .. 3
      BY DEF U256
    <3>7. 0 \div t = 0 /\ (0 * u) % B = 0
      <4>1. PICK m \in Nat \ {0} : m = B
        BY WordBase
      <4>2. 0 % m = 0 /\ 0 \div t = 0 /\ 0 * u = 0
        BY SmallMod
      <4> QED BY <4>1, <4>2
    <3>8. ShiftedRight(x, s, j) = (p \div t) + ((w * u) % B)
      <4>1. (IF j \in DOMAIN x THEN x[j] \div 2 ^ s ELSE 0) = p \div t
        BY <2>4, <3>3, <3>6, <3>7 DEF At0
      <4>2. (IF j + 1 \in DOMAIN x THEN (x[j + 1] * 2 ^ (W - s)) % B ELSE 0) = (w * u) % B
        BY <2>4, <3>3, <3>6, <3>7 DEF At0
      <4> QED BY <4>1, <4>2 DEF ShiftedRight
    <3> HIDE DEF v
    <3> QED BY <3>1, <3>4, <3>5, <3>8
  <2>6. r = U(v)
    <3> HIDE DEF v
    <3> QED BY <2>2, <2>5 DEF U
  <2>7. v \in Nat /\ v < 2 ^ Bits
    <3>1. PICK n0 \in Nat, p \in Nat \ {0} : n0 = Val(x) /\ p = 2 ^ k
      BY <1>0, PowPos
    <3>2. n0 \div p \in Nat /\ n0 \div p <= n0
      OBVIOUS
    <3> QED BY <1>0, <3>1, <3>2
  <2> HIDE DEF v
  <2>8. r \in U256 /\ Val(r) = v
    BY <2>6, <2>7, ValOfWords
  <2> QED BY <2>8 DEF r, v
<1> QED BY <1>0, <1>1, <1>2
-----------------------------------------------------------------------------
(* N-bit numbers.                                                          *)

\* lu256MaskN keeps the low k bits.
LEMMA MaskIs ==
  ASSUME NEW x \in U256, NEW k \in 0 .. Bits
  PROVE  /\ lu256MaskN(x, k) \in U256 /\ Val(lu256MaskN(x, k)) = Val(x) % 2 ^ k
         /\ Val(x) < 2 ^ k => lu256MaskN(x, k) = x
<1>1. /\ k \in Nat /\ 2 ^ k \in Nat \ {0} /\ 2 ^ Bits \in Nat \ {0} /\ 2 ^ k <= 2 ^ Bits
      /\ Val(x) \in Nat /\ Val(x) < 2 ^ Bits
  <2>1. k \in Nat /\ Bits \in Nat /\ k <= Bits
    BY WordBase
  <2> QED BY <2>1, PowPos, PowMono, Bases, IntsOfWords
<1> DEFINE v == Val(x) % 2 ^ k
<1>2. v \in Nat /\ v < 2 ^ k
  <2>1. PICK y \in Nat, p \in Nat \ {0} : y = Val(x) /\ p = 2 ^ k
    BY <1>1
  <2>2. y % p \in Nat /\ y % p < p
    BY DivModIs
  <2> QED BY <2>1, <2>2
<1>3. ASSUME NEW i \in 0 .. 3
      PROVE  (v \div Base(i)) % B = IF (i + 1) * W <= k THEN x[i]
                                    ELSE IF i * W < k THEN x[i] % 2 ^ (k - i * W) ELSE 0
  <2>1. PICK o \in Nat, w \in Nat \ {0}, m \in Nat \ {0}, c \in Nat \ {0}, y \in Nat :
          o = i * W /\ w = W /\ m = B /\ c = Base(i) /\ y = Val(x) /\ (i + 1) * W = o + w
    <3>1. i * W \in Nat /\ (i + 1) * W = i * W + W
      BY WordBase
    <3>2. Base(i) \in Nat \ {0}
      BY BaseSucc
    <3> QED BY <1>1, <3>1, <3>2, WordBase
  <2>2. PICK h \in Nat, g \in Nat, e \in Nat : h = y \div c /\ e = x[i] /\ e < m /\ h = e + m * g
    <3>1. i + 1 \in 0 .. 4 /\ i \in 0 .. 4
      OBVIOUS
    <3>2. High(x, i) \in Nat /\ High(x, i + 1) \in Nat /\ High(x, i) = x[i] + B * High(x, i + 1)
      BY <3>1, Highs
    <3>3. x[i] \in Nat /\ x[i] < B
      BY Words
    <3> QED BY <2>1, <3>2, <3>3 DEF High
  <2>3. ASSUME o <= k
        PROVE  LET p == 2 ^ (k - o) IN p \in Nat \ {0} /\ v \div c = h % p
    <3>1. k - o \in Nat /\ o + (k - o) = k
      BY <2>3
    <3>2. 2 ^ (o + (k - o)) = 2 ^ o * 2 ^ (k - o) /\ 2 ^ (k - o) \in Nat \ {0}
      BY <3>1, PowPlus, PowPos
    <3>3. PICK p \in Nat \ {0} : p = 2 ^ (k - o) /\ 2 ^ k = c * p
      BY <2>1, <3>1, <3>2 DEF Base
    <3>4. (y % (c * p)) \div c = (y \div c) % p
      <4>1. y \in Int
        OBVIOUS
      <4> QED BY <4>1, ModDiv
    <3> QED BY <2>1, <2>2, <3>3, <3>4
  <2>4. CASE (i + 1) * W <= k
    <3>1. k - (o + w) \in Nat /\ o <= k /\ k - o = w + (k - (o + w))
      BY <2>1, <2>4
    <3>2. PICK p \in Nat \ {0} : p = 2 ^ (k - (o + w)) /\ 2 ^ (k - o) = m * p
      <4>1. 2 ^ (w + (k - (o + w))) = 2 ^ w * 2 ^ (k - (o + w)) /\ 2 ^ (k - (o + w)) \in Nat \ {0}
        BY <3>1, PowPlus, PowPos
      <4> QED BY <2>1, <3>1, <4>1 DEF B
    <3>3. (h % (m * p)) % m = h % m
      <4>1. h \in Int
        OBVIOUS
      <4> QED BY <4>1, ModMod
    <3>4. h % m = e
      <4>1. h \in Int /\ g \in Int
        OBVIOUS
      <4> QED BY <2>2, <4>1, DivModUnique
    <3>5. v \div c = h % (m * p)
      BY <2>3, <3>1, <3>2
    <3> HIDE DEF v
    <3> QED BY <2>1, <2>2, <2>4, <3>3, <3>4, <3>5
  <2>5. CASE ~((i + 1) * W <= k) /\ i * W < k
    <3>1. k - o \in 0 .. W /\ o <= k
      BY <2>1, <2>5
    <3>2. PICK p \in Nat \ {0}, u \in Nat \ {0} : p = 2 ^ (k - o) /\ m = p * u
      BY <2>1, <3>1, WordSplit
    <3>3. v \div c = h % p
      BY <2>3, <3>1, <3>2
    <3>4. h % p = e % p
      <4>1. PICK f \in Nat : f = u * g
        BY Times
      <4>2. h = e + p * f
        <5>1. (p * u) * g = p * (u * g)
          BY Times
        <5> QED BY <2>2, <3>2, <4>1, <5>1
      <4>3. (e + p * f) % p = e % p
        <5>1. e \in Int /\ f \in Int
          OBVIOUS
        <5> QED BY <5>1, AddMultiple
      <4> QED BY <4>2, <4>3
    <3>5. e % p \in Nat /\ e % p < m
      <4>1. e % p \in Nat /\ e % p < p
        BY DivModIs
      <4>2. p <= m
        BY <3>2, TimesPos
      <4> QED BY <4>1, <4>2
    <3>6. PICK f \in Nat : f = e % p /\ f < m
      BY <3>5
    <3>7. f % m = f
      BY <3>6, SmallMod
    <3> HIDE DEF v
    <3> QED BY <2>1, <2>2, <2>5, <3>2, <3>3, <3>4, <3>6, <3>7
  <2>6. CASE ~((i + 1) * W <= k) /\ ~(i * W < k)
    <3>1. k <= o
      BY <2>1, <2>6
    <3>2. 2 ^ k <= 2 ^ o
      BY <1>1, <3>1, PowMono
    <3>3. 2 ^ o = c
      BY <2>1 DEF Base
    <3> HIDE DEF v
    <3>4. v \in Nat /\ v < c
      BY <1>1, <1>2, <3>2, <3>3
    <3>5. v \div c = 0 /\ 0 % m = 0
      BY <3>4, SmallMod
    <3> QED BY <2>1, <2>6, <3>5
  <2> QED BY <2>4, <2>5, <2>6
<1> HIDE DEF v
<1>4. lu256MaskN(x, k) = U(v)
  BY <1>3 DEF lu256MaskN, U
<1>5. U(v) \in U256 /\ Val(U(v)) = v
  BY <1>1, <1>2, ValOfWords
<1>6. ASSUME Val(x) < 2 ^ k PROVE v = Val(x)
  <2>1. PICK y \in Nat, p \in Nat \ {0} : y = Val(x) /\ p = 2 ^ k /\ y < p
    BY <1>1, <1>6
  <2>2. y % p = y
    BY <2>1, SmallMod
  <2> QED BY <2>1, <2>2 DEF v
<1> QED BY <1>4, <1>5, <1>6, WordsOfVal DEF v

\* lu256BitN reads bit k.
LEMMA BitIs ==
  ASSUME NEW x \in U256, NEW k \in Nat, k < Bits
  PROVE  lu256BitN(x, k) <=> (Val(x) \div 2 ^ k) % 2 = 1
<1> DEFINE i == k \div W
           s == k % W
<1>1. i \in 0 .. 3 /\ s \in 0 .. W - 1 /\ 2 ^ k = Base(i) * 2 ^ s
  BY Distance
<1>2. lu256BitN(x, k) <=> (x[i] \div 2 ^ s) % 2 = 1
  BY DEF lu256BitN, Bit
<1> HIDE DEF i, s
<1>3. PICK t \in Nat \ {0}, u \in Nat \ {0} : t = 2 ^ s /\ B = t * (2 * u)
  <2>1. s \in 0 .. W /\ W - s \in Nat /\ (W - s) - 1 \in Nat /\ ((W - s) - 1) + 1 = W - s
    BY <1>1, WordBase
  <2>2. 2 ^ (((W - s) - 1) + 1) = 2 ^ ((W - s) - 1) + 2 ^ ((W - s) - 1) /\ 2 ^ ((W - s) - 1) \in Nat \ {0}
    BY <2>1, PowSucc, PowPos
  <2>3. PICK u \in Nat \ {0} : u = 2 ^ ((W - s) - 1) /\ 2 ^ (W - s) = 2 * u
    BY <2>1, <2>2
  <2> QED BY <2>1, <2>3, WordSplit
<1>4. PICK c \in Nat \ {0}, y \in Int, h \in Int, g \in Int, e \in Nat :
        /\ c = Base(i) /\ y = Val(x) /\ h = y \div c /\ e = x[i] /\ e < B /\ h = e + B * g
  <2>1. i \in Nat /\ i + 1 \in 0 .. 4 /\ i \in 0 .. 4
    BY <1>1
  <2>2. High(x, i) \in Nat /\ High(x, i + 1) \in Nat /\ High(x, i) = x[i] + B * High(x, i + 1)
    BY <1>1, <2>1, Highs
  <2>3. x[i] \in Nat /\ x[i] < B /\ Base(i) \in Nat \ {0} /\ Val(x) \in Nat
    BY <1>1, <2>1, Words, BaseSucc, IntsOfWords
  <2> QED BY <2>2, <2>3 DEF High
<1>5. y \div 2 ^ k = h \div t
  <2>1. (y \div c) \div t = y \div (c * t)
    BY DivDiv
  <2> QED BY <1>1, <1>3, <1>4, <2>1
<1>6. PICK v \in Nat \ {0}, m \in Nat \ {0} : v = 2 * u /\ m = B /\ m = t * v
  BY <1>3, WordBase
<1>7. h % m = e
  <2>1. e < m /\ h = e + m * g
    BY <1>4, <1>6
  <2> QED BY <2>1, DivModUnique
<1>8. (h % (t * v)) \div t = (h \div t) % v
  BY ModDiv
<1>9. e \div t = (h \div t) % (2 * u)
  BY <1>6, <1>7, <1>8
<1>10. PICK f \in Int : f = h \div t
  <2>1. h \div t \in Int
    BY DivModIs
  <2> QED BY <2>1
<1>11. (f % (2 * u)) % 2 = f % 2
  <2>1. 2 \in Nat \ {0}
    OBVIOUS
  <2> QED BY <2>1, ModMod
<1> QED BY <1>2, <1>3, <1>4, <1>5, <1>9, <1>10, <1>11

\* The highest bit of a number of k bits is its sign.
LEMMA SignBit ==
  ASSUME NEW x \in U256, NEW k \in 1 .. Bits, Val(x) < 2 ^ k
  PROVE  lu256BitN(x, k - 1) <=> Val(x) >= 2 ^ (k - 1)
<1>1. k - 1 \in Nat /\ k - 1 < Bits /\ (k - 1) + 1 = k
  BY WordBase
<1>2. lu256BitN(x, k - 1) <=> (Val(x) \div 2 ^ (k - 1)) % 2 = 1
  BY <1>1, BitIs
<1>3. 2 ^ ((k - 1) + 1) = 2 ^ (k - 1) + 2 ^ (k - 1) /\ 2 ^ (k - 1) \in Nat \ {0}
  BY <1>1, PowSucc, PowPos
<1>4. PICK v \in Nat, h \in Nat \ {0} : v = Val(x) /\ h = 2 ^ (k - 1) /\ v < h + h
  BY <1>1, <1>3, IntsOfWords
<1>5. ASSUME v < h PROVE (v \div h) % 2 = 0
  <2>1. v \div h = 0
    BY <1>5, SmallMod
  <2> QED BY <2>1
<1>6. ASSUME v >= h PROVE (v \div h) % 2 = 1
  <2>1. PICK y \in Int, r \in Nat : y = v /\ r = v - h /\ r < h /\ y = r + h * 1
    BY <1>4, <1>6
  <2>2. y \div h = 1
    BY <2>1, DivModUnique
  <2> QED BY <2>1, <2>2
<1> QED BY <1>2, <1>4, <1>5, <1>6

\* A remainder after a remainder.
LEMMA ModPow ==
  ASSUME NEW x \in Int, NEW k \in 0 .. Bits
  PROVE  (x % 2 ^ Bits) % 2 ^ k = x % 2 ^ k
<1>1. k \in Nat /\ Bits - k \in Nat /\ k + (Bits - k) = Bits
  BY WordBase
<1>2. 2 ^ (k + (Bits - k)) = 2 ^ k * 2 ^ (Bits - k)
  BY <1>1, PowPlus
<1>3. PICK p \in Nat \ {0}, q \in Nat \ {0} : p = 2 ^ k /\ q = 2 ^ (Bits - k) /\ 2 ^ Bits = p * q
  BY <1>1, <1>2, PowPos
<1>4. (x % (p * q)) % p = x % p
  BY ModMod
<1> QED BY <1>3, <1>4
-----------------------------------------------------------------------------
(* The specification.                                                      *)

\* The operands are numbers of n bits; the second one is zero until it is loaded.
Operand(v) == v \in U256 /\ Val(v) < 2 ^ n

Inv ==
  /\ n \in 2 .. Bits
  /\ Operand(a) /\ Operand(b)
  /\ operands < 2 => b = LUint256Zero
  /\ operands \in 0 .. 2

\* Bits of the width.
LEMMA Widths ==
  ASSUME n \in 2 .. Bits
  PROVE  /\ n \in Nat /\ n - 1 \in Nat /\ n <= Bits /\ n \in 1 .. Bits /\ n \in 0 .. Bits /\ Bits \in Nat
         /\ 2 ^ (n - 1) \in Nat \ {0} /\ 2 ^ n = 2 ^ (n - 1) + 2 ^ (n - 1)
         /\ 2 ^ n \in Nat \ {0} /\ 2 ^ n <= 2 ^ Bits /\ 2 ^ Bits \in Nat \ {0}
<1>1. /\ n \in Nat /\ n - 1 \in Nat /\ n <= Bits /\ n \in 1 .. Bits /\ n \in 0 .. Bits /\ Bits \in Nat
      /\ (n - 1) + 1 = n
  BY WordBase
<1>2. 2 ^ ((n - 1) + 1) = 2 ^ (n - 1) + 2 ^ (n - 1)
  BY <1>1, PowSucc
<1>3. 2 ^ (n - 1) \in Nat \ {0} /\ 2 ^ n \in Nat \ {0} /\ 2 ^ n <= 2 ^ Bits
  BY <1>1, PowPos, PowMono
<1> QED BY <1>1, <1>2, <1>3, Bases

\* The operands are what the types of the program say.
LEMMA Invariant == Spec => []Inv
<1>1. Init => Inv
  <2> SUFFICES ASSUME Init PROVE Inv
    OBVIOUS
  <2>1. Bits \in 2 .. Bits
    <3>1. W \in Nat /\ W >= 1 /\ Bits = 4 * W
      BY WordBase
    <3> QED BY <3>1
  <2>2. 2 ^ Bits \in Nat \ {0}
    BY Bases
  <2> QED BY <2>1, <2>2, ValZero DEF Init, Inv, Operand
<1>2. Inv /\ [Next]_vars => Inv'
  <2> SUFFICES ASSUME Inv, [Next]_vars PROVE Inv'
    OBVIOUS
  <2>1. CASE Load1
    <3>1. /\ operands' = 1 /\ n' \in Width /\ a' \in [0 .. 3 -> Digits] /\ Val(a') < 2 ^ n'
          /\ b' = b /\ b = LUint256Zero
      BY <2>1 DEF Load1, Operands, Inv
    <3>2. n' \in 2 .. Bits /\ a' \in U256
      BY <3>1, OperandAssumption DEF U256
    <3>3. 2 ^ n' \in Nat \ {0}
      <4>1. n' \in Nat
        BY <3>2, WordBase
      <4> QED BY <4>1, PowPos
    <3>4. Val(b') < 2 ^ n' /\ b' \in U256
      BY <3>1, <3>3, ValZero
    <3> QED BY <3>1, <3>2, <3>4 DEF Inv, Operand
  <2>2. CASE Load2
    <3>1. operands' = 2 /\ n' = n /\ a' = a /\ b' \in [0 .. 3 -> Digits] /\ Val(b') < 2 ^ n
      BY <2>2 DEF Load2, Operands
    <3>2. b' \in U256
      BY <3>1, OperandAssumption DEF U256
    <3> QED BY <3>1, <3>2 DEF Inv, Operand
  <2>3. CASE UNCHANGED vars
    BY <2>3 DEF vars, Inv, Operand
  <2> QED BY <2>1, <2>2, <2>3 DEF Next
<1> QED BY <1>1, <1>2, PTL DEF Spec

\* The wrapping operations in a state of the specification.
LEMMA Wrapping ==
  ASSUME Inv
  PROVE  WrapsExactly
<1>1. a \in U256 /\ b \in U256
  BY DEF Inv, Operand
<1>2. Val(lu256Add(a, b)) = (Val(a) + Val(b)) % 2 ^ Bits /\ Val(lu256Sub(a, b)) = (Val(a) - Val(b)) % 2 ^ Bits
  BY <1>1, AddIs, SubIs
<1>3. dLen(b) = 1 => Multiplies(a, b)
  BY <1>1, MulByWord
<1>4. \A k \in 0 .. Bits : /\ Val(lu256Shl(a, k)) = (Val(a) * 2 ^ k) % 2 ^ Bits
                           /\ Val(lu256Shr(a, k)) = Val(a) \div 2 ^ k
  BY <1>1, ShlIs, ShrIs
<1>5. (lu256Cmp(a, b) < 0) <=> (Val(a) < Val(b))
  <2>1. lu256Cmp(a, b) \in {-1, 0, 1} /\ (lu256Cmp(a, b) = -1 <=> Val(a) < Val(b))
    BY <1>1, CmpIs
  <2>2. lu256Cmp(a, b) < 0 <=> lu256Cmp(a, b) = -1
    BY <2>1
  <2> QED BY <2>1, <2>2
<1> QED BY <1>2, <1>3, <1>4, <1>5 DEF WrapsExactly

\* The operands, the modulus p and half of it, as plain numbers.
LEMMA OperandNumbers ==
  ASSUME Inv
  PROVE  \E x \in Nat, y \in Nat, h \in Nat \ {0}, p \in Nat \ {0}, q \in Nat \ {0} :
           /\ x = Val(a) /\ y = Val(b) /\ h = 2 ^ (n - 1) /\ p = 2 ^ n /\ q = 2 ^ Bits
           /\ x < p /\ y < p /\ p = h + h /\ p <= q
           /\ (lu256BitN(a, n - 1) <=> x >= h) /\ (lu256BitN(b, n - 1) <=> y >= h)
<1>1. a \in U256 /\ b \in U256 /\ Val(a) < 2 ^ n /\ Val(b) < 2 ^ n /\ n \in 2 .. Bits
  BY DEF Inv, Operand
<1>2. Val(a) \in Nat /\ Val(b) \in Nat
  BY <1>1, IntsOfWords
<1>3. /\ n \in 1 .. Bits /\ 2 ^ (n - 1) \in Nat \ {0} /\ 2 ^ n = 2 ^ (n - 1) + 2 ^ (n - 1)
      /\ 2 ^ n \in Nat \ {0} /\ 2 ^ n <= 2 ^ Bits /\ 2 ^ Bits \in Nat \ {0}
  BY <1>1, Widths
<1>4. (lu256BitN(a, n - 1) <=> Val(a) >= 2 ^ (n - 1)) /\ (lu256BitN(b, n - 1) <=> Val(b) >= 2 ^ (n - 1))
  BY <1>1, <1>3, SignBit
<1> QED BY <1>1, <1>2, <1>3, <1>4

\* A number of n bits is what In makes of it.
LEMMA ReturnsIt ==
  ASSUME n \in 2 .. Bits, NEW r \in U256, NEW i \in Int, Val(r) = i % 2 ^ n
  PROVE  ToU(i, n) = r
BY WordsOfVal DEF ToU

\* A result that is the integer i, checked against the width: r is returned if it
\* has no bit beyond it.
LEMMA ChecksWidth ==
  ASSUME n \in 2 .. Bits, NEW r \in U256, NEW i \in Nat, Val(r) = i
  PROVE  (IF lu256MaskN(r, n) # r THEN Reverts ELSE {r}) = In(UnsignedRange, i)
<1>1. n \in 0 .. Bits /\ 2 ^ n \in Nat \ {0}
  BY Widths
<1>2. /\ lu256MaskN(r, n) \in U256 /\ Val(lu256MaskN(r, n)) = Val(r) % 2 ^ n
      /\ Val(r) < 2 ^ n => lu256MaskN(r, n) = r
  BY <1>1, MaskIs
<1>3. PICK p \in Nat \ {0} : p = 2 ^ n
  BY <1>1
<1>4. i % p \in Nat /\ i % p < p
  <2>1. i \in Int
    OBVIOUS
  <2> QED BY <2>1, DivModIs
<1>5. CASE i < p
  <2>1. i % p = i
    BY <1>5, SmallMod
  <2>2. ToU(i, n) = r
    <3>1. i \in Int /\ Val(r) = i % 2 ^ n
      BY <1>3, <2>1
    <3> QED BY <3>1, ReturnsIt
  <2>3. i \in UnsignedRange
    BY <1>3, <1>5 DEF UnsignedRange
  <2> QED BY <1>2, <1>3, <1>5, <2>2, <2>3 DEF In
<1>6. CASE i >= p
  <2>1. lu256MaskN(r, n) # r
    BY <1>2, <1>3, <1>4, <1>6
  <2>2. i \notin UnsignedRange
    BY <1>3, <1>6 DEF UnsignedRange
  <2> QED BY <2>1, <2>2 DEF In
<1> QED BY <1>5, <1>6

\* cryptoUintCheckedAdd
LEMMA UintAdd ==
  ASSUME Inv
  PROVE  cryptoUintCheckedAdd(a, b, n) = In(UnsignedRange, Val(a) + Val(b))
<1>1. a \in U256 /\ b \in U256 /\ n \in 2 .. Bits /\ Bits \in Nat
  BY WordBase DEF Inv, Operand
<1>2. PICK x \in Nat, y \in Nat, p \in Nat \ {0}, q \in Nat \ {0} :
        x = Val(a) /\ y = Val(b) /\ p = 2 ^ n /\ q = 2 ^ Bits /\ x < p /\ y < p
  BY OperandNumbers
<1>3. PICK r \in U256 : r = lu256Add(a, b) /\ Val(r) = (x + y) % q
  BY <1>1, <1>2, AddIs
<1>4. CASE n = Bits
  <2>1. (lu256Cmp(r, a) < 0) <=> Val(r) < x
    <3>1. lu256Cmp(r, a) \in {-1, 0, 1} /\ (lu256Cmp(r, a) = -1 <=> Val(r) < Val(a))
      BY <1>1, CmpIs
    <3> QED BY <1>2, <3>1
  <2>2. q = p
    BY <1>2, <1>4
  <2>3. cryptoUintCheckedAdd(a, b, n) = IF Val(r) < x THEN Reverts ELSE {r}
    BY <1>3, <1>4, <2>1 DEF cryptoUintCheckedAdd
  <2>4. ToU(x + y, n) = r
    <3>1. x + y \in Int /\ Val(r) = (x + y) % 2 ^ n
      BY <1>2, <1>3, <2>2
    <3> QED BY <1>1, <3>1, ReturnsIt
  <2>5. CASE x + y < p
    <3>1. (x + y) % p = x + y
      BY <2>5, SmallMod
    <3>2. ~(Val(r) < x)
      BY <1>3, <2>2, <3>1
    <3>3. x + y \in UnsignedRange
      BY <1>2, <2>5 DEF UnsignedRange
    <3> QED BY <1>2, <2>3, <2>4, <3>2, <3>3 DEF In
  <2>6. CASE x + y >= p
    <3>1. PICK s \in Int, l \in Nat : s = x + y /\ l = x + y - p /\ l < p /\ s = l + p * 1
      BY <1>2, <2>6
    <3>2. s % p = l
      BY <3>1, DivModUnique
    <3>3. Val(r) < x
      BY <1>2, <1>3, <2>2, <3>1, <3>2
    <3>4. x + y \notin UnsignedRange
      BY <1>2, <2>6 DEF UnsignedRange
    <3> QED BY <1>2, <2>3, <3>3, <3>4 DEF In
  <2> QED BY <2>5, <2>6
<1>5. CASE n # Bits
  <2>1. p + p <= q
    <3>1. n \in Nat /\ n + 1 \in Nat /\ n + 1 <= Bits
      BY <1>1, <1>5
    <3>2. 2 ^ (n + 1) <= 2 ^ Bits /\ 2 ^ (n + 1) = 2 ^ n + 2 ^ n
      BY <1>1, <3>1, PowMono, PowSucc
    <3> QED BY <1>2, <3>2
  <2>2. Val(r) = x + y
    <3>1. x + y \in Nat /\ x + y < q
      BY <1>2, <2>1
    <3>2. (x + y) % q = x + y
      BY <3>1, SmallMod
    <3> QED BY <1>3, <3>2
  <2>3. cryptoUintCheckedAdd(a, b, n) = IF lu256MaskN(r, n) # r THEN Reverts ELSE {r}
    BY <1>3, <1>5 DEF cryptoUintCheckedAdd
  <2>4. x + y \in Nat
    OBVIOUS
  <2> QED BY <1>1, <1>2, <2>2, <2>3, <2>4, ChecksWidth
<1> QED BY <1>4, <1>5

\* cryptoUintCheckedSub
LEMMA UintSub ==
  ASSUME Inv
  PROVE  cryptoUintCheckedSub(a, b, n) = In(UnsignedRange, Val(a) - Val(b))
<1>1. a \in U256 /\ b \in U256 /\ n \in 2 .. Bits /\ n \in 0 .. Bits /\ Val(a) < 2 ^ n /\ Val(b) < 2 ^ n
  BY Widths DEF Inv, Operand
<1>2. PICK x \in Nat, y \in Nat, p \in Nat \ {0}, q \in Nat \ {0} :
        x = Val(a) /\ y = Val(b) /\ p = 2 ^ n /\ q = 2 ^ Bits /\ x < p /\ y < p /\ p <= q
  BY OperandNumbers
<1>3. PICK r \in U256 : r = lu256Sub(a, b) /\ Val(r) = (x - y) % q
  BY <1>1, <1>2, SubIs
<1>4. lu256MaskN(a, n) = a /\ lu256MaskN(b, n) = b
  BY <1>1, MaskIs
<1>5. (lu256Cmp(b, a) > 0) <=> y > x
  <2>1. lu256Cmp(b, a) \in {-1, 0, 1} /\ (lu256Cmp(b, a) = 1 <=> Val(b) > Val(a))
    BY <1>1, CmpIs
  <2> QED BY <1>2, <2>1
<1>6. cryptoUintCheckedSub(a, b, n) = IF y > x THEN Reverts ELSE {r}
  BY <1>3, <1>4, <1>5 DEF cryptoUintCheckedSub
<1>7. CASE y > x
  <2>1. x - y \notin UnsignedRange
    BY <1>2, <1>7 DEF UnsignedRange
  <2> QED BY <1>2, <1>6, <1>7, <2>1 DEF In
<1>8. CASE ~(y > x)
  <2>1. x - y \in Nat /\ x - y < p /\ x - y < q
    BY <1>2, <1>8
  <2>2. (x - y) % q = x - y /\ (x - y) % p = x - y
    BY <2>1, SmallMod
  <2>3. x - y \in Int /\ Val(r) = (x - y) % 2 ^ n
    BY <1>2, <1>3, <2>1, <2>2
  <2>4. ToU(x - y, n) = r
    BY <1>1, <2>3, ReturnsIt
  <2>5. x - y \in UnsignedRange
    BY <1>2, <2>1 DEF UnsignedRange
  <2> QED BY <1>2, <1>6, <1>8, <2>4, <2>5 DEF In
<1> QED BY <1>7, <1>8

\* A signed result of n bits: r is the remainder of i, and the operation reverts
\* exactly if i is out of range.
LEMMA ReturnsSigned ==
  ASSUME n \in 2 .. Bits, NEW r \in U256, NEW i \in Int, Val(r) = i % 2 ^ n, NEW reverts \in BOOLEAN,
         reverts <=> i \notin SignedRange
  PROVE  (IF reverts THEN Reverts ELSE {r}) = In(SignedRange, i)
<1>1. ToU(i, n) = r
  BY ReturnsIt
<1> QED BY <1>1 DEF In

\* cryptoSignedCheckedAdd
LEMMA SignedAdd ==
  ASSUME Inv
  PROVE  cryptoSignedCheckedAdd(a, b, n) = In(SignedRange, Signed(a) + Signed(b))
<1>1. a \in U256 /\ b \in U256 /\ n \in 2 .. Bits /\ n \in 0 .. Bits /\ n \in 1 .. Bits
  BY Widths DEF Inv, Operand
<1>2. PICK x \in Nat, y \in Nat, h \in Nat \ {0}, p \in Nat \ {0} :
        /\ x = Val(a) /\ y = Val(b) /\ h = 2 ^ (n - 1) /\ p = 2 ^ n /\ x < p /\ y < p /\ p = h + h
        /\ (lu256BitN(a, n - 1) <=> x >= h) /\ (lu256BitN(b, n - 1) <=> y >= h)
  BY OperandNumbers
<1> DEFINE s == lu256Add(a, b)
           r == lu256MaskN(s, n)
           i == Signed(a) + Signed(b)
           reverts == (x >= h <=> y >= h) /\ ~(lu256BitN(r, n - 1) <=> x >= h)
<1>3. r \in U256 /\ Val(r) = (x + y) % p
  <2>1. s \in U256 /\ Val(s) = (x + y) % 2 ^ Bits
    BY <1>1, <1>2, AddIs
  <2> HIDE DEF s
  <2>2. r \in U256 /\ Val(r) = Val(s) % 2 ^ n
    BY <1>1, <2>1, MaskIs
  <2>3. x + y \in Int
    OBVIOUS
  <2>4. ((x + y) % 2 ^ Bits) % 2 ^ n = (x + y) % 2 ^ n
    BY <1>1, <2>3, ModPow
  <2> QED BY <1>2, <2>1, <2>2, <2>4
<1>4. cryptoSignedCheckedAdd(a, b, n) = IF reverts THEN Reverts ELSE {r}
  <2> DEFINE na == lu256BitN(a, n - 1)
             nb == lu256BitN(b, n - 1)
             nr == lu256BitN(r, n - 1)
  <2>1. cryptoSignedCheckedAdd(a, b, n) = IF na = nb /\ nr # na THEN Reverts ELSE {r}
    BY Zenon DEF cryptoSignedCheckedAdd
  <2>2. na \in BOOLEAN /\ nb \in BOOLEAN /\ nr \in BOOLEAN
    BY DEF lu256BitN
  <2>3. (na <=> x >= h) /\ (nb <=> y >= h)
    BY <1>2
  <2> HIDE DEF na, nb, nr, r
  <2>4. (na = nb /\ nr # na) <=> reverts
    BY <2>2, <2>3 DEF nr
  <2> HIDE DEF reverts
  <2> QED BY <2>1, <2>4
<1> HIDE DEF s, r
<1>5. Val(r) = IF x + y < p THEN x + y ELSE x + y - p
  <2>1. CASE x + y < p
    <3>1. x + y \in Nat
      OBVIOUS
    <3>2. (x + y) % p = x + y
      BY <2>1, <3>1, SmallMod
    <3> QED BY <1>3, <2>1, <3>2
  <2>2. CASE x + y >= p
    <3>1. PICK v \in Int, l \in Nat : v = x + y /\ l = x + y - p /\ l < p /\ v = l + p * 1
      BY <1>2, <2>2
    <3>2. v % p = l
      BY <3>1, DivModUnique
    <3> QED BY <1>3, <2>2, <3>1, <3>2
  <2> QED BY <2>1, <2>2
<1>6. lu256BitN(r, n - 1) <=> Val(r) >= h
  <2>1. Val(r) < 2 ^ n
    BY <1>2, <1>5
  <2> QED BY <1>1, <1>2, <1>3, <2>1, SignBit
<1>7. i = (IF x >= h THEN x - p ELSE x) + (IF y >= h THEN y - p ELSE y)
  BY <1>2 DEF Signed
<1> HIDE DEF i
<1>8. i \in Int /\ SignedRange = -h .. h - 1
  BY <1>2, <1>7 DEF SignedRange
<1>9. reverts <=> i \notin SignedRange
  <2>1. PICK v \in Int : v = Val(r) /\ v = IF x + y < p THEN x + y ELSE x + y - p
    BY <1>2, <1>5
  <2>2. reverts <=> (x >= h <=> y >= h) /\ ~(v >= h <=> x >= h)
    BY <1>6, <2>1
  <2>3. i \notin SignedRange <=> i < -h \/ i >= h
    BY <1>8
  <2> HIDE DEF reverts
  <2>4. CASE x >= h /\ y >= h
    BY <1>2, <1>7, <2>1, <2>2, <2>3, <2>4
  <2>5. CASE x >= h /\ y < h
    BY <1>2, <1>7, <2>1, <2>2, <2>3, <2>5
  <2>6. CASE x < h /\ y >= h
    BY <1>2, <1>7, <2>1, <2>2, <2>3, <2>6
  <2>7. CASE x < h /\ y < h
    BY <1>2, <1>7, <2>1, <2>2, <2>3, <2>7
  <2> QED BY <2>4, <2>5, <2>6, <2>7
<1>10. Val(r) = i % 2 ^ n
  <2>1. PICK v \in Int, k \in Int : v = x + y /\ i = v + p * k
    <3>1. i = (x + y) + p * 0 \/ i = (x + y) + p * (-1) \/ i = (x + y) + p * (-2)
      BY <1>7
    <3>2. x + y \in Int /\ 0 \in Int /\ -1 \in Int /\ (-2) \in Int
      OBVIOUS
    <3> QED BY <3>1, <3>2, Zenon
  <2>2. (v + p * k) % p = v % p
    BY AddMultiple
  <2> QED BY <1>2, <1>3, <2>1, <2>2
<1>11. reverts \in BOOLEAN
  BY DEF lu256BitN
<1> HIDE DEF reverts
<1>12. (IF reverts THEN Reverts ELSE {r}) = In(SignedRange, i)
  BY <1>1, <1>3, <1>8, <1>9, <1>10, <1>11, ReturnsSigned
<1> QED BY <1>4, <1>12 DEF i

\* cryptoSignedCheckedSub
LEMMA SignedSub ==
  ASSUME Inv
  PROVE  cryptoSignedCheckedSub(a, b, n) = In(SignedRange, Signed(a) - Signed(b))
<1>1. a \in U256 /\ b \in U256 /\ n \in 2 .. Bits /\ n \in 0 .. Bits /\ n \in 1 .. Bits
  BY Widths DEF Inv, Operand
<1>2. PICK x \in Nat, y \in Nat, h \in Nat \ {0}, p \in Nat \ {0} :
        /\ x = Val(a) /\ y = Val(b) /\ h = 2 ^ (n - 1) /\ p = 2 ^ n /\ x < p /\ y < p /\ p = h + h
        /\ (lu256BitN(a, n - 1) <=> x >= h) /\ (lu256BitN(b, n - 1) <=> y >= h)
  BY OperandNumbers
<1> DEFINE s == lu256Sub(a, b)
           r == lu256MaskN(s, n)
           i == Signed(a) - Signed(b)
           reverts == ~(x >= h <=> y >= h) /\ ~(lu256BitN(r, n - 1) <=> x >= h)
<1>3. r \in U256 /\ Val(r) = (x - y) % p
  <2>1. s \in U256 /\ Val(s) = (x - y) % 2 ^ Bits
    BY <1>1, <1>2, SubIs
  <2> HIDE DEF s
  <2>2. r \in U256 /\ Val(r) = Val(s) % 2 ^ n
    BY <1>1, <2>1, MaskIs
  <2>3. x - y \in Int
    OBVIOUS
  <2>4. ((x - y) % 2 ^ Bits) % 2 ^ n = (x - y) % 2 ^ n
    BY <1>1, <2>3, ModPow
  <2> QED BY <1>2, <2>1, <2>2, <2>4
<1>4. cryptoSignedCheckedSub(a, b, n) = IF reverts THEN Reverts ELSE {r}
  <2> DEFINE na == lu256BitN(a, n - 1)
             nb == lu256BitN(b, n - 1)
             nr == lu256BitN(r, n - 1)
  <2>1. cryptoSignedCheckedSub(a, b, n) = IF na # nb /\ nr # na THEN Reverts ELSE {r}
    BY Zenon DEF cryptoSignedCheckedSub
  <2>2. na \in BOOLEAN /\ nb \in BOOLEAN /\ nr \in BOOLEAN
    BY DEF lu256BitN
  <2>3. (na <=> x >= h) /\ (nb <=> y >= h)
    BY <1>2
  <2> HIDE DEF na, nb, nr, r
  <2>4. (na # nb /\ nr # na) <=> reverts
    BY <2>2, <2>3 DEF nr
  <2> HIDE DEF reverts
  <2> QED BY <2>1, <2>4
<1> HIDE DEF s, r
<1>5. Val(r) = IF x >= y THEN x - y ELSE x - y + p
  <2>1. CASE x >= y
    <3>1. x - y \in Nat /\ x - y < p
      BY <1>2, <2>1
    <3>2. (x - y) % p = x - y
      BY <3>1, SmallMod
    <3> QED BY <1>3, <2>1, <3>2
  <2>2. CASE x < y
    <3>0. x - y \in Int /\ x - y + p \in Nat /\ x - y + p < p /\ x - y = (x - y + p) + p * (-1)
      BY <1>2, <2>2
    <3>1. PICK v \in Int, l \in Nat : v = x - y /\ l = x - y + p /\ l < p /\ v = l + p * (-1)
      BY <3>0, Zenon
    <3>2. v % p = l
      BY <3>1, DivModUnique
    <3> QED BY <1>3, <2>2, <3>1, <3>2
  <2> QED BY <2>1, <2>2
<1>6. lu256BitN(r, n - 1) <=> Val(r) >= h
  <2>1. Val(r) < 2 ^ n
    BY <1>2, <1>5
  <2> QED BY <1>1, <1>2, <1>3, <2>1, SignBit
<1>7. i = (IF x >= h THEN x - p ELSE x) - (IF y >= h THEN y - p ELSE y)
  BY <1>2 DEF Signed
<1> HIDE DEF i
<1>8. i \in Int /\ SignedRange = -h .. h - 1
  BY <1>2, <1>7 DEF SignedRange
<1>9. reverts <=> i \notin SignedRange
  <2>1. PICK v \in Int : v = Val(r) /\ v = IF x >= y THEN x - y ELSE x - y + p
    BY <1>2, <1>5
  <2>2. reverts <=> ~(x >= h <=> y >= h) /\ ~(v >= h <=> x >= h)
    BY <1>6, <2>1
  <2>3. i \notin SignedRange <=> i < -h \/ i >= h
    BY <1>8
  <2> HIDE DEF reverts
  <2>4. CASE x >= h /\ y >= h
    BY <1>2, <1>7, <2>1, <2>2, <2>3, <2>4
  <2>5. CASE x >= h /\ y < h
    BY <1>2, <1>7, <2>1, <2>2, <2>3, <2>5
  <2>6. CASE x < h /\ y >= h
    BY <1>2, <1>7, <2>1, <2>2, <2>3, <2>6
  <2>7. CASE x < h /\ y < h
    BY <1>2, <1>7, <2>1, <2>2, <2>3, <2>7
  <2> QED BY <2>4, <2>5, <2>6, <2>7
<1>10. Val(r) = i % 2 ^ n
  <2>1. PICK v \in Int, k \in Int : v = x - y /\ i = v + p * k
    <3>1. i = (x - y) + p * 0 \/ i = (x - y) + p * (-1) \/ i = (x - y) + p * 1
      BY <1>7
    <3>2. x - y \in Int /\ 0 \in Int /\ -1 \in Int /\ 1 \in Int
      OBVIOUS
    <3> QED BY <3>1, <3>2, Zenon
  <2>2. (v + p * k) % p = v % p
    BY AddMultiple
  <2> QED BY <1>2, <1>3, <2>1, <2>2
<1>11. reverts \in BOOLEAN
  BY DEF lu256BitN
<1> HIDE DEF reverts
<1>12. (IF reverts THEN Reverts ELSE {r}) = In(SignedRange, i)
  BY <1>1, <1>3, <1>8, <1>9, <1>10, <1>11, ReturnsSigned
<1> QED BY <1>4, <1>12 DEF i

\* cryptoUintCheckedMul, for widths whose products have at most 256 bits
LEMMA UintMul ==
  ASSUME Inv, 2 * n <= Bits, Multiplies(a, b)
  PROVE  cryptoUintCheckedMul(a, b, n) = In(UnsignedRange, Val(a) * Val(b))
<1>1. a \in U256 /\ b \in U256 /\ n \in 2 .. Bits /\ Bits \in Nat /\ n \in Nat
  BY WordBase, Widths DEF Inv, Operand
<1>2. PICK x \in Nat, y \in Nat, p \in Nat \ {0}, q \in Nat \ {0} :
        x = Val(a) /\ y = Val(b) /\ p = 2 ^ n /\ q = 2 ^ Bits /\ x < p /\ y < p
  BY OperandNumbers
<1>3. PICK r \in U256 : r = lu256Mul(a, b) /\ Val(r) = (x * y) % q
  BY <1>1, <1>2, MulWords DEF Multiplies
<1>4. PICK v \in Nat : v = x * y
  BY Times
<1>5. v < q
  <2>1. 2 ^ (n + n) = 2 ^ n * 2 ^ n /\ 2 ^ (n + n) <= 2 ^ Bits
    <3>1. n + n \in Nat /\ n + n <= Bits
      BY <1>1
    <3> QED BY <1>1, <3>1, PowPlus, PowMono
  <2>2. p * p <= q
    BY <1>2, <2>1
  <2>3. x * y <= x * p /\ x * p = p * x /\ p * x <= p * (p - 1) /\ p * (p - 1) = p * p - p
    BY <1>2, TimesMono, Times
  <2>4. x * p \in Int /\ p * p \in Int
    BY Times
  <2> QED BY <1>2, <1>4, <2>2, <2>3, <2>4
<1>6. v % q = v
  BY <1>5, SmallMod
<1>7. Val(r) = v /\ n < Bits
  BY <1>1, <1>3, <1>4, <1>6
<1>8. cryptoUintCheckedMul(a, b, n) = IF lu256MaskN(r, n) # r THEN Reverts ELSE {r}
  BY <1>3, <1>7 DEF cryptoUintCheckedMul
<1> QED BY <1>1, <1>2, <1>4, <1>7, <1>8, ChecksWidth

\* The checked operations in a state of the specification.
LEMMA Checking ==
  ASSUME Inv
  PROVE  ChecksExactly
BY UintAdd, UintSub, SignedAdd, SignedSub, UintMul DEF ChecksExactly
-----------------------------------------------------------------------------
\* uint256.go computes modulo 2^256, for words of every size: the addition, the
\* subtraction, the multiplication by one word and the shifts wrap, and lu256Cmp
\* compares the numbers.
THEOREM WrappingIsExact == Spec => []WrapsExactly
<1>1. Inv => WrapsExactly
  BY Wrapping
<1> QED BY <1>1, Invariant, PTL

\* The checked addition and subtraction of cryptolib.go, signed and unsigned, and the
\* unsigned multiplication where products fit, return the integer result or revert,
\* for every width.
THEOREM CheckingIsExact == Spec => []ChecksExactly
<1>1. Inv => ChecksExactly
  BY Checking
<1> QED BY <1>1, Invariant, PTL
=============================================================================
