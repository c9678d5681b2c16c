-------------------------- MODULE FixedPoint_proofs --------------------------
(***************************************************************************)
(* What the virtual machine relies on from its arithmetic, for every       *)
(* width: results stay in range, and an int32_t never wraps on the way to  *)
(* the clamp.                                                              *)
(***************************************************************************)
EXTENDS FixedPoint, WellFoundedInduction, TLAPS

\* store() leaves an SF23 whatever the arithmetic before it produced.
LEMMA SsatInRange == \A v \in Int : SSAT(v) \in SF23
  BY RangeAssumption DEF SSAT, SF23, MIN, MAX

\* storei() of a sign extended value does too.
LEMMA SxInRange == \A v \in Int : SX(v) \in SF23
  BY RangeAssumption DEF SX, SF23, MIN, MAX

\* The first n numbers are their own remainders: WrapIdentity divides one.
LEMMA RemainderOfSmall ==
  ASSUME NEW n \in Nat \ {0}, NEW x \in 0 .. n - 1
  PROVE  x % n = x
  OBVIOUS

\* What Wrap32 leaves of any integer is an int32_t.
LEMMA WrapIsInt == \A x \in Int : Wrap32(x) \in Int32
<1> SUFFICES ASSUME NEW x \in Int
             PROVE  Wrap32(x) \in Int32
  OBVIOUS
<1> DEFINE n == 512 * kIntRange
           y == x - INT32_MIN
<1>1. n \in Nat \ {0} /\ y \in Int
  BY RangeAssumption DEF INT32_MIN
<1> HIDE DEF n, y
<1>2. y % n \in 0 .. n - 1
  BY <1>1
<1> QED  BY <1>2, RangeAssumption DEF n, y, Wrap32, Int32, INT32_MIN, INT32_MAX

\* An int32_t keeps what fits.
LEMMA WrapIdentity == \A x \in Int32 : Wrap32(x) = x
<1> SUFFICES ASSUME NEW x \in Int32
             PROVE  Wrap32(x) = x
  OBVIOUS
<1> DEFINE n == 512 * kIntRange
           y == x - INT32_MIN
<1>1. n \in Nat \ {0} /\ y \in 0 .. n - 1
  BY RangeAssumption DEF Int32, INT32_MIN, INT32_MAX
<1> HIDE DEF n, y
<1>2. y % n = y
  BY <1>1, RemainderOfSmall
<1> QED  BY <1>2, RangeAssumption DEF n, y, Wrap32, Int32, INT32_MIN, INT32_MAX

\* A product is bounded by the product of the bounds, whatever the signs.
LEMMA ProductBound ==
  ASSUME NEW m \in Nat, NEW n \in Nat,
         NEW x \in -m .. m, NEW y \in -n .. n
  PROVE  x * y \in -(m * n) .. m * n
<1>1. /\ x \in Int /\ y \in Int /\ x * y \in Int /\ m * n \in Int
      /\ -m <= x /\ x <= m /\ -n <= y /\ y <= n
  OBVIOUS
<1>2. CASE x >= 0 /\ y >= 0
  <2>1. x * y <= m * y /\ m * y <= m * n /\ 0 <= x * y
    BY <1>1, <1>2
  <2> QED  BY <1>1, <2>1
<1>3. CASE x < 0 /\ y >= 0
  <2>1. (-x) * y <= m * y /\ m * y <= m * n /\ 0 <= (-x) * y
    BY <1>1, <1>3
  <2>2. (-x) * y = -(x * y)
    BY <1>1
  <2> QED  BY <1>1, <2>1, <2>2
<1>4. CASE x >= 0 /\ y < 0
  <2>1. x * (-y) <= m * (-y) /\ m * (-y) <= m * n /\ 0 <= x * (-y)
    BY <1>1, <1>4
  <2>2. x * (-y) = -(x * y)
    BY <1>1
  <2> QED  BY <1>1, <2>1, <2>2
<1>5. CASE x < 0 /\ y < 0
  <2>1. (-x) * (-y) <= m * (-y) /\ m * (-y) <= m * n /\ 0 <= (-x) * (-y)
    BY <1>1, <1>5
  <2>2. (-x) * (-y) = x * y
    BY <1>1
  <2> QED  BY <1>1, <2>1, <2>2
<1> QED  BY <1>1, <1>2, <1>3, <1>4, <1>5

\* A quotient rounded down is bounded like the exact one: the arithmetic
\* shift of operator* does not leave the range of the products.
LEMMA QuotientBound ==
  ASSUME NEW k \in Nat \ {0}, NEW m \in Nat, NEW x \in -(m * k) .. m * k
  PROVE  x \div k \in -m .. m
<1> DEFINE q == x \div k
           r == x % k
<1>1. q \in Int /\ r \in 0 .. k - 1 /\ x = k * q + r /\ x \in Int
  <2>1. m * k \in Int
    OBVIOUS
  <2>2. x \in Int
    BY <2>1
  <2> QED  BY <2>2
<1>2. -(m * k) <= x /\ x <= m * k /\ m * k \in Int
  OBVIOUS
<1> HIDE DEF q, r
<1>3. q <= m
  <2> SUFFICES ASSUME q >= m + 1
               PROVE  FALSE
    BY <1>1
  <2>1. k * q >= k * (m + 1) /\ k * (m + 1) = m * k + k
    BY <1>1
  <2> QED  BY <1>1, <1>2, <2>1
<1>4. -m <= q
  <2> SUFFICES ASSUME q <= -m - 1
               PROVE  FALSE
    BY <1>1
  <2>1. k * q <= k * (-m - 1) /\ k * (-m - 1) = -(m * k) - k
    BY <1>1
  <2> QED  BY <1>1, <1>2, <2>1
<1> QED  BY <1>1, <1>3, <1>4 DEF q

\* The three top bits of an SF23, as a signed number.
LEMMA TopBits ==
  ASSUME NEW u \in Nat \ {0}, kIntRange = 32 * u, NEW r \in SF23
  PROVE  r \div (kIntRange \div 4) \in -4 .. 3
<1> DEFINE k == kIntRange \div 4
<1>1. k = 8 * u /\ k \in Nat \ {0}
  OBVIOUS
<1> HIDE DEF k
<1>2. r \in -(4 * k) .. 4 * k /\ r < 4 * k /\ r \in Int
  BY <1>1 DEF SF23, MIN, MAX
<1>3. r \div k \in -4 .. 4
  BY <1>1, <1>2, QuotientBound
<1>4. r = k * (r \div k) + (r % k) /\ r % k \in 0 .. k - 1
  <2>1. r \in Int /\ k \in Nat \ {0}
    BY <1>1, <1>2
  <2> QED  BY <2>1
<1>5. r \div k # 4
  BY <1>1, <1>2, <1>4
<1> QED  BY <1>3, <1>5 DEF k

-----------------------------------------------------------------------------
\* The product of a coefficient of at most 2.0 and a value of at most 2.0 is
\* exact and at most 4.0: MacExact and BlendExact need no more.
LEMMA MulExact ==
  ASSUME NEW a \in -2 * kIntRange .. 2 * kIntRange,
         NEW c \in -2 * kIntRange .. 2 * kIntRange
  PROVE  /\ Mul(a, c) = (a * c) \div kIntRange
         /\ Mul(a, c) \in -4 * kIntRange .. 4 * kIntRange
<1> DEFINE k == kIntRange
           p == a * c
<1>1. k \in Nat \ {0} /\ 2 * k \in Nat /\ 4 * k \in Nat
      /\ a \in -(2 * k) .. 2 * k /\ c \in -(2 * k) .. 2 * k
  BY RangeAssumption
<1>2. p \in -((2 * k) * (2 * k)) .. (2 * k) * (2 * k)
  BY <1>1, ProductBound
<1>3. (2 * k) * (2 * k) = (4 * k) * k
  BY <1>1
<1>4. p \in -((4 * k) * k) .. (4 * k) * k
  BY <1>2, <1>3
<1> HIDE DEF p, k
<1>5. p \div k \in -(4 * k) .. 4 * k
  BY <1>1, <1>4, QuotientBound
<1>6. p \div k \in Int32
  BY <1>1, <1>5 DEF Int32, INT32_MIN, INT32_MAX, k
<1> QED  BY <1>5, <1>6, WrapIdentity DEF Mul, p, k

\* A multiply-accumulate reaches the clamp without wrapping: this is
\* RDA, RMPA, WRAP, RDAX, WRHX, SOF and CHO RDA.
THEOREM MacExact ==
  ASSUME NEW a \in SF23, NEW d \in SF23,
         NEW c \in -2 * kIntRange .. 2 * kIntRange - 1
  PROVE  Mac(a, c, d) = ((a * c) \div kIntRange) + d
<1>1. a \in -2 * kIntRange .. 2 * kIntRange
      /\ c \in -2 * kIntRange .. 2 * kIntRange
  BY RangeAssumption DEF SF23, MIN, MAX
<1>2. /\ Mul(a, c) = (a * c) \div kIntRange
      /\ Mul(a, c) \in -4 * kIntRange .. 4 * kIntRange
  BY <1>1, MulExact
<1>3. Mul(a, c) + d \in Int32
  BY <1>2, RangeAssumption DEF SF23, MIN, MAX, Int32, INT32_MIN, INT32_MAX
<1> QED  BY <1>2, <1>3, WrapIdentity DEF Mac, Add

\* So do the filters RDFX and WRLX, whose difference of two SF23 does not
\* fit an SF23.
THEOREM BlendExact ==
  ASSUME NEW a \in SF23, NEW r \in SF23,
         NEW c \in -2 * kIntRange .. 2 * kIntRange - 1
  PROVE  Mac(Sub(a, r), c, r) = (((a - r) * c) \div kIntRange) + r
<1>1. a - r \in -2 * kIntRange .. 2 * kIntRange
      /\ c \in -2 * kIntRange .. 2 * kIntRange
  BY RangeAssumption DEF SF23, MIN, MAX
<1>2. Sub(a, r) = a - r
  <2>1. a - r \in Int32
    BY <1>1, RangeAssumption DEF Int32, INT32_MIN, INT32_MAX
  <2> QED  BY <2>1, WrapIdentity DEF Sub
<1>3. /\ Mul(a - r, c) = ((a - r) * c) \div kIntRange
      /\ Mul(a - r, c) \in -4 * kIntRange .. 4 * kIntRange
  BY <1>1, MulExact
<1>4. Mul(a - r, c) + r \in Int32
  BY <1>3, RangeAssumption DEF SF23, MIN, MAX, Int32, INT32_MIN, INT32_MAX
<1> QED  BY <1>2, <1>3, <1>4, WrapIdentity DEF Mac, Add

-----------------------------------------------------------------------------
(***************************************************************************)
(* Single bits.  The library's induction theorems take an operator, which  *)
(* no prover here can instantiate; those on well-founded relations take    *)
(* sets, and an induction over a set of numbers follows from them.         *)
(***************************************************************************)

\* Every non-empty set of natural numbers has a least one.
LEMMA LeastNumber ==
  ASSUME NEW T, T \subseteq Nat, T # {}
  PROVE  \E x \in T : \A y \in T : x <= y
<1> DEFINE R == {ss \in Nat \X Nat : ss[1] < ss[2]}
<1>1. IsWellFoundedOn(R, Nat)
  BY NatLessThanWellFounded DEF OpToRel
<1> HIDE DEF R
<1>2. PICK x \in T : \A y \in T : ~ (<<y, x>> \in R)
  BY <1>1, WFMin
<1>3. \A y \in T : ~ (y < x)
  BY <1>2 DEF R
<1> QED  BY <1>2, <1>3

\* Induction: a set with 0 and the successors of its members has them all.
LEMMA SetInduction ==
  ASSUME NEW S, S \subseteq Nat, 0 \in S, \A n \in Nat : n \in S => n + 1 \in S
  PROVE  S = Nat
<1> SUFFICES ASSUME S # Nat PROVE FALSE
  OBVIOUS
<1>1. PICK x \in Nat \ S : \A y \in Nat \ S : x <= y
  BY LeastNumber
<1>2. x # 0 /\ x - 1 \in Nat /\ x - 1 \in S
  BY <1>1
<1> QED  BY <1>2, <1>1

\* The weights of the bits, up to the sign of an SF23: the provers compute a
\* power only where they know the exponent.
LEMMA Doubling ==
  /\ 2 ^ 0 = 1
  /\ \A i \in 0 .. 23 : 2 ^ (i + 1) = 2 * 2 ^ i /\ 2 ^ i \in Nat \ {0}
<1>1. 2 ^ 0 = 1
  OBVIOUS
<1>2. ASSUME NEW i \in 0 .. 23
      PROVE  2 ^ (i + 1) = 2 * 2 ^ i /\ 2 ^ i \in Nat \ {0}
  <2>0. CASE i = 0  BY <2>0
  <2>1. CASE i = 1  BY <2>1
  <2>2. CASE i = 2  BY <2>2
  <2>3. CASE i = 3  BY <2>3
  <2>4. CASE i = 4  BY <2>4
  <2>5. CASE i = 5  BY <2>5
  <2>6. CASE i = 6  BY <2>6
  <2>7. CASE i = 7  BY <2>7
  <2>8. CASE i = 8  BY <2>8
  <2>9. CASE i = 9  BY <2>9
  <2>10. CASE i = 10  BY <2>10
  <2>11. CASE i = 11  BY <2>11
  <2>12. CASE i = 12  BY <2>12
  <2>13. CASE i = 13  BY <2>13
  <2>14. CASE i = 14  BY <2>14
  <2>15. CASE i = 15  BY <2>15
  <2>16. CASE i = 16  BY <2>16
  <2>17. CASE i = 17  BY <2>17
  <2>18. CASE i = 18  BY <2>18
  <2>19. CASE i = 19  BY <2>19
  <2>20. CASE i = 20  BY <2>20
  <2>21. CASE i = 21  BY <2>21
  <2>22. CASE i = 22  BY <2>22
  <2>23. CASE i = 23  BY <2>23
  <2> QED
    BY <2>0, <2>1, <2>2, <2>3, <2>4, <2>5, <2>6, <2>7, <2>8, <2>9, <2>10, <2>11,
       <2>12, <2>13, <2>14, <2>15, <2>16, <2>17, <2>18, <2>19, <2>20, <2>21, <2>22, <2>23
<1> QED  BY <1>1, <1>2

\* Quotient and remainder are the only ones there are.
LEMMA QuotientUnique ==
  ASSUME NEW n \in Nat \ {0}, NEW q \in Int, NEW s \in 0 .. n - 1, NEW x \in Int,
         x = n * q + s
  PROVE  x \div n = q /\ x % n = s
<1> DEFINE p == x \div n
           t == x % n
<1>1. p \in Int /\ t \in 0 .. n - 1 /\ x = n * p + t
  OBVIOUS
<1> HIDE DEF p, t
<1>2. n * (p - q) = s - t
  BY <1>1
<1>3. CASE p >= q + 1
  <2>1. n * (p - q) >= n
    BY <1>1, <1>3
  <2> QED  BY <1>1, <1>2, <2>1
<1>4. CASE p =< q - 1
  <2>1. n * (q - p) >= n
    BY <1>1, <1>4
  <2>2. n * (q - p) = -(n * (p - q))
    BY <1>1
  <2> QED  BY <1>1, <1>2, <2>1, <2>2
<1>5. CASE p = q
  BY <1>1, <1>2, <1>5 DEF p, t
<1> QED  BY <1>1, <1>3, <1>4, <1>5

\* Halving twice is one quotient, rounded down: the bits of x \div 2 are those
\* of x, one position lower.
LEMMA HalfQuotient ==
  ASSUME NEW m \in Nat \ {0}, NEW x \in Int
  PROVE  (x \div 2) \div m = x \div (2 * m)
<1> DEFINE h == x \div 2
           q == h \div m
           r == h % m
<1>1. h \in Int /\ x % 2 \in 0 .. 1 /\ x = 2 * h + (x % 2)
  OBVIOUS
<1> HIDE DEF h
<1>2. q \in Int /\ r \in 0 .. m - 1 /\ h = m * q + r
  BY <1>1
<1> HIDE DEF q, r
<1> DEFINE s == 2 * r + (x % 2)
           n == 2 * m
<1>3. s \in 0 .. n - 1 /\ n \in Nat \ {0}
  BY <1>1, <1>2
<1>4. x = n * q + s
  BY <1>1, <1>2
<1> HIDE DEF s, n
<1>5. x \div n = q
  BY <1>2, <1>3, <1>4, QuotientUnique
<1> QED  BY <1>5 DEF n, q, h

\* The lowest bit is the remainder, the others are those of the half.
LEMMA BitByBit ==
  /\ \A x \in Int : Bit(x, 0) = x % 2
  /\ \A x \in Int, i \in 0 .. 23 : Bit(x \div 2, i) = Bit(x, i + 1)
  /\ \A x \in Int, i \in 0 .. 23 : Bit(x, i) \in 0 .. 1
<1>1. \A x \in Int : Bit(x, 0) = x % 2
  BY DEF Bit
<1>2. ASSUME NEW x \in Int, NEW i \in 0 .. 23
      PROVE  Bit(x \div 2, i) = Bit(x, i + 1) /\ Bit(x, i) \in 0 .. 1
  <2> DEFINE m == 2 ^ i
  <2>1. m \in Nat \ {0} /\ 2 ^ (i + 1) = 2 * m
    BY Doubling
  <2> HIDE DEF m
  <2>2. (x \div 2) \div m = x \div (2 * m)
    BY <2>1, HalfQuotient
  <2>3. (x \div m) % 2 \in 0 .. 1
    BY <2>1
  <2> QED  BY <2>1, <2>2, <2>3 DEF Bit, m
<1> QED  BY <1>1, <1>2

\* The half of a number of n + 1 bits and a sign has n bits and that sign.
LEMMA HalfRange ==
  ASSUME NEW m \in Nat \ {0}, NEW x \in -(2 * m) .. 2 * m - 1
  PROVE  /\ x \div 2 \in -m .. m - 1 /\ (x \div 2 < 0 <=> x < 0)
         /\ x \in Int /\ x % 2 \in 0 .. 1 /\ x = 2 * (x \div 2) + (x % 2)
  OBVIOUS

\* And back: a bit more below those of h.
LEMMA DoubleRange ==
  ASSUME NEW m \in Nat \ {0}, NEW h \in -m .. m - 1, NEW low \in 0 .. 1
  PROVE  /\ 2 * h + low \in -(2 * m) .. 2 * m - 1 /\ (2 * h + low < 0 <=> h < 0)
         /\ (2 * h + low) \div 2 = h /\ (2 * h + low) % 2 = low
  OBVIOUS

\* The integers of n bits and a sign.
Signed(n) == -(2 ^ n) .. 2 ^ n - 1

\* A number is known by its bits and its sign.
KnownByBits(n) ==
  \A a, b \in Signed(n) :
    (a < 0 <=> b < 0) /\ (\A i \in 0 .. n - 1 : Bit(a, i) = Bit(b, i)) => a = b

\* Any bits and any sign are those of a number.
HasEveryBits(n) ==
  \A bits \in SUBSET (0 .. n - 1), negative \in BOOLEAN :
    \E r \in Signed(n) :
      (r < 0 <=> negative) /\ \A i \in 0 .. n - 1 : Bit(r, i) = 1 <=> i \in bits

\* Each further bit doubles them.
LEMMA SignedRange ==
  /\ Signed(0) = -1 .. 0
  /\ \A n \in 0 .. 22 : \E m \in Nat \ {0} :
       Signed(n) = -m .. m - 1 /\ Signed(n + 1) = -(2 * m) .. 2 * m - 1
<1>1. Signed(0) = -1 .. 0
  <2>1. -1 = -(2 ^ 0) /\ 0 = 2 ^ 0 - 1
    OBVIOUS
  <2> QED  BY <2>1 DEF Signed
<1>2. ASSUME NEW n \in 0 .. 22
      PROVE  \E m \in Nat \ {0} :
               Signed(n) = -m .. m - 1 /\ Signed(n + 1) = -(2 * m) .. 2 * m - 1
  <2>1. n \in 0 .. 23
    OBVIOUS
  <2>2. 2 ^ (n + 1) = 2 * 2 ^ n /\ 2 ^ n \in Nat \ {0}
    BY <2>1, Doubling, Zenon
  <2> QED  BY <2>2 DEF Signed
<1> QED  BY <1>1, <1>2

\* A number of n bits is known by them and its sign.
LEMMA SameBits == \A n \in 0 .. 23 : KnownByBits(n)
<1>1. KnownByBits(0)
  <2>1. \A a, b \in -1 .. 0 : (a < 0 <=> b < 0) => a = b
    OBVIOUS
  <2> QED  BY <2>1, SignedRange, Zenon DEF KnownByBits
<1>2. ASSUME NEW n \in 0 .. 22, KnownByBits(n)
      PROVE  KnownByBits(n + 1)
  <2> SUFFICES ASSUME NEW a \in Signed(n + 1), NEW b \in Signed(n + 1),
                      a < 0 <=> b < 0,
                      \A i \in 0 .. n : Bit(a, i) = Bit(b, i)
               PROVE  a = b
    <3>1. (n + 1) - 1 = n
      OBVIOUS
    <3> QED  BY <3>1 DEF KnownByBits
  <2>1. PICK m \in Nat \ {0} :
          Signed(n) = -m .. m - 1 /\ Signed(n + 1) = -(2 * m) .. 2 * m - 1
    BY SignedRange
  <2>3. /\ a \div 2 \in Signed(n) /\ (a \div 2 < 0 <=> a < 0)
        /\ a \in Int /\ a = 2 * (a \div 2) + (a % 2)
    BY <2>1, HalfRange
  <2>4. /\ b \div 2 \in Signed(n) /\ (b \div 2 < 0 <=> b < 0)
        /\ b \in Int /\ b = 2 * (b \div 2) + (b % 2)
    BY <2>1, HalfRange
  <2>5. ASSUME NEW i \in 0 .. n - 1
        PROVE  Bit(a \div 2, i) = Bit(b \div 2, i)
    <3>1. i \in 0 .. 23 /\ i + 1 \in 0 .. n
      OBVIOUS
    <3> QED  BY <2>3, <2>4, <3>1, BitByBit
  <2>6. a \div 2 = b \div 2
    BY <1>2, <2>3, <2>4, <2>5 DEF KnownByBits
  <2>7. a % 2 = b % 2
    <3>1. Bit(a, 0) = Bit(b, 0)
      OBVIOUS
    <3> QED  BY <2>3, <2>4, <3>1, BitByBit
  <2> QED  BY <2>3, <2>4, <2>6, <2>7
<1> DEFINE S == {n \in Nat : n \in 0 .. 23 => KnownByBits(n)}
<1>3. S \subseteq Nat /\ 0 \in S
  BY <1>1
<1>4. \A n \in Nat : n \in S => n + 1 \in S
  BY <1>2
<1> HIDE DEF S
<1>5. S = Nat
  BY <1>3, <1>4, SetInduction
<1> QED  BY <1>5 DEF S

\* Any bits and any sign are those of a number.
LEMMA EveryBits == \A n \in 0 .. 23 : HasEveryBits(n)
<1>1. HasEveryBits(0)
  <2> SUFFICES ASSUME NEW bits \in SUBSET (0 .. 0 - 1), NEW negative \in BOOLEAN
               PROVE  \E r \in -1 .. 0 :
                        /\ r < 0 <=> negative
                        /\ \A i \in 0 .. 0 - 1 : Bit(r, i) = 1 <=> i \in bits
    BY SignedRange, Zenon DEF HasEveryBits
  <2>2. CASE negative
    <3> WITNESS -1 \in -1 .. 0
    <3> QED  BY <2>2
  <2>3. CASE ~negative
    <3> WITNESS 0 \in -1 .. 0
    <3> QED  BY <2>3
  <2> QED  BY <2>2, <2>3
<1>2. ASSUME NEW n \in 0 .. 22, HasEveryBits(n)
      PROVE  HasEveryBits(n + 1)
  <2> SUFFICES ASSUME NEW bits \in SUBSET (0 .. n), NEW negative \in BOOLEAN
               PROVE  \E r \in Signed(n + 1) :
                        /\ r < 0 <=> negative
                        /\ \A i \in 0 .. n : Bit(r, i) = 1 <=> i \in bits
    <3>1. (n + 1) - 1 = n
      OBVIOUS
    <3> QED  BY <3>1 DEF HasEveryBits
  <2> DEFINE higher == {i \in 0 .. n - 1 : i + 1 \in bits}
             low == IF 0 \in bits THEN 1 ELSE 0
  <2>1. PICK m \in Nat \ {0} :
          Signed(n) = -m .. m - 1 /\ Signed(n + 1) = -(2 * m) .. 2 * m - 1
    BY SignedRange
  <2>2. PICK h \in Signed(n) :
          (h < 0 <=> negative) /\ \A i \in 0 .. n - 1 : Bit(h, i) = 1 <=> i \in higher
    BY <1>2 DEF HasEveryBits
  <2> DEFINE r == 2 * h + low
  <2>5. low \in 0 .. 1 /\ (low = 1 <=> 0 \in bits)
    OBVIOUS
  <2> HIDE DEF low
  <2>3. /\ r \in Signed(n + 1) /\ (r < 0 <=> h < 0)
        /\ r \div 2 = h /\ r % 2 = low /\ r \in Int
    <3>1. h \in -m .. m - 1
      BY <2>1, <2>2
    <3>2. /\ r \in -(2 * m) .. 2 * m - 1 /\ (r < 0 <=> h < 0)
          /\ r \div 2 = h /\ r % 2 = low
      BY <2>5, <3>1, DoubleRange
    <3>3. \A x \in -(2 * m) .. 2 * m - 1 : x \in Int
      OBVIOUS
    <3> HIDE DEF r
    <3> QED  BY <2>1, <3>2, <3>3
  <2> HIDE DEF r
  <2>4. ASSUME NEW i \in 0 .. n
        PROVE  Bit(r, i) = 1 <=> i \in bits
    <3>1. CASE i = 0
      BY <2>3, <2>5, <3>1, BitByBit
    <3>2. CASE i # 0
      <4>1. i - 1 \in 0 .. n - 1 /\ i - 1 \in 0 .. 23 /\ (i - 1) + 1 = i
        BY <3>2
      <4>2. Bit(r, i) = Bit(h, i - 1)
        BY <2>3, <4>1, BitByBit
      <4> QED  BY <2>2, <4>1, <4>2
    <3> QED  BY <3>1, <3>2
  <2> QED  BY <2>2, <2>3, <2>4
<1> DEFINE S == {n \in Nat : n \in 0 .. 23 => HasEveryBits(n)}
<1>3. S \subseteq Nat /\ 0 \in S
  BY <1>1
<1>4. \A n \in Nat : n \in S => n + 1 \in S
  BY <1>2
<1> HIDE DEF S
<1>5. S = Nat
  BY <1>3, <1>4, SetInduction
<1> QED  BY <1>5 DEF S

\* The complement of a number has the complement of its bits.
LEMMA ComplementBits ==
  ASSUME NEW x \in Int, NEW i \in 0 .. 23
  PROVE  Bit(-x - 1, i) = 1 - Bit(x, i)
<1> DEFINE m == 2 ^ i
           p == x \div m
           r == x % m
<1>1. m \in Nat \ {0}
  BY Doubling
<1> HIDE DEF m
<1>2. p \in Int /\ r \in 0 .. m - 1 /\ x = m * p + r
  BY <1>1
<1> HIDE DEF p, r
<1>3. m - 1 - r \in 0 .. m - 1 /\ -p - 1 \in Int /\ -x - 1 \in Int
  BY <1>1, <1>2
<1>4. -x - 1 = m * (-p - 1) + (m - 1 - r)
  <2>1. m * (-p - 1) = -(m * p) - m
    BY <1>1, <1>2
  <2> QED  BY <1>1, <1>2, <2>1
<1>5. (-x - 1) \div m = -p - 1
  <2> DEFINE y == -x - 1
             q == -p - 1
             s == m - 1 - r
  <2>1. y \in Int /\ q \in Int /\ s \in 0 .. m - 1 /\ y = m * q + s
    BY <1>3, <1>4
  <2> HIDE DEF y, q, s
  <2>2. y \div m = q
    BY <1>1, <2>1, QuotientUnique
  <2> QED  BY <2>2 DEF y, q
<1>6. (-p - 1) % 2 = 1 - (p % 2)
  BY <1>2
<1> QED  BY <1>5, <1>6 DEF Bit, m, p

\* All bits of the greatest number of n bits are 1.
HasOnes(n) == \A i \in 0 .. n - 1 : Bit(2 ^ n - 1, i) = 1

\* This is so up to the width of a mask.
LEMMA OnesBelow == \A n \in 0 .. 24 : HasOnes(n)
<1>1. HasOnes(0)
  BY DEF HasOnes
<1>2. ASSUME NEW n \in 0 .. 23, HasOnes(n)
      PROVE  HasOnes(n + 1)
  <2> SUFFICES ASSUME NEW i \in 0 .. n
               PROVE  Bit(2 ^ (n + 1) - 1, i) = 1
    <3>1. (n + 1) - 1 = n
      OBVIOUS
    <3> QED  BY <3>1 DEF HasOnes
  <2> DEFINE m == 2 ^ n
             x == 2 * m - 1
  <2>1. 2 ^ (n + 1) = 2 * m /\ m \in Nat \ {0}
    BY Doubling, Zenon
  <2> HIDE DEF m
  <2>2. x \in Int /\ x % 2 = 1 /\ x \div 2 = m - 1
    BY <2>1
  <2> HIDE DEF x
  <2>3. CASE i = 0
    BY <2>1, <2>2, <2>3, BitByBit DEF x
  <2>4. CASE i # 0
    <3>1. i - 1 \in 0 .. n - 1 /\ i - 1 \in 0 .. 23 /\ (i - 1) + 1 = i
      BY <2>4
    <3>2. Bit(m - 1, i - 1) = 1
      BY <1>2, <3>1 DEF m, HasOnes
    <3>3. Bit(x, i) = Bit(m - 1, i - 1)
      BY <2>2, <3>1, BitByBit
    <3> QED  BY <2>1, <3>2, <3>3 DEF x
  <2> QED  BY <2>3, <2>4
<1> DEFINE S == {n \in Nat : n \in 0 .. 24 => HasOnes(n)}
<1>3. S \subseteq Nat /\ 0 \in S
  BY <1>1
<1>4. \A n \in Nat : n \in S => n + 1 \in S
  BY <1>2
<1> HIDE DEF S
<1>5. S = Nat
  BY <1>3, <1>4, SetInduction
<1> QED  BY <1>5 DEF S

-----------------------------------------------------------------------------
(***************************************************************************)
(* The logical operations.                                                 *)
(***************************************************************************)

\* The format of a value, as a range of powers.
LEMMA WidthIsPower ==
  /\ kFracBits \in 0 .. 23 /\ SF23 = Signed(kFracBits)
  /\ SF23 \subseteq Int /\ MASK \in Nat
<1>1. kFracBits \in 0 .. 23
  BY FracAssumption, WidestAssumption
<1> QED
  BY <1>1, FracAssumption, RangeAssumption DEF SF23, MIN, MAX, MASK, Signed

\* Whatever the bits, what has them is a value.
LEMMA WithBitsInRange ==
  ASSUME NEW bits, NEW negative, NEW r \in WithBits(bits, negative)
  PROVE  r \in SF23
  BY RangeAssumption DEF WithBits, SF23, MIN, MAX

\* A value is the only one with its bits and its sign.
LEMMA OwnBits ==
  ASSUME NEW r \in SF23, NEW bits, NEW negative \in BOOLEAN,
         LowBits(r) = bits, r < 0 <=> negative
  PROVE  WithBits(bits, negative) = {r}
<1>1. r \in WithBits(bits, negative)
  BY RangeAssumption DEF WithBits, SF23, MIN, MAX
<1>2. ASSUME NEW s \in WithBits(bits, negative)
      PROVE  s = r
  <2>1. s \in SF23 /\ LowBits(s) = LowBits(r) /\ (s < 0 <=> r < 0)
    BY <1>2, RangeAssumption DEF WithBits, SF23, MIN, MAX
  <2>2. \A i \in 0 .. kFracBits - 1 : Bit(s, i) = 1 <=> Bit(r, i) = 1
    BY <2>1 DEF LowBits
  <2>3. \A i \in 0 .. kFracBits - 1 : Bit(s, i) \in 0 .. 1 /\ Bit(r, i) \in 0 .. 1
    <3>1. s \in Int /\ r \in Int /\ \A i \in 0 .. kFracBits - 1 : i \in 0 .. 23
      BY <2>1, WidthIsPower
    <3> QED  BY <3>1, BitByBit
  <2>4. \A i \in 0 .. kFracBits - 1 : Bit(s, i) = Bit(r, i)
    BY <2>2, <2>3
  <2> QED  BY <2>1, <2>4, WidthIsPower, SameBits DEF KnownByBits
<1> QED  BY <1>1, <1>2

\* Any bits below the sign, and any sign, are those of exactly one value.
LEMMA OneWithBits ==
  ASSUME NEW bits \in SUBSET (0 .. kFracBits - 1), NEW negative \in BOOLEAN
  PROVE  \E r \in SF23 :
           WithBits(bits, negative) = {r} /\ LowBits(r) = bits /\ (r < 0 <=> negative)
<1>1. PICK r \in SF23 :
        (r < 0 <=> negative) /\ \A i \in 0 .. kFracBits - 1 : Bit(r, i) = 1 <=> i \in bits
  BY WidthIsPower, EveryBits DEF HasEveryBits
<1>2. LowBits(r) = bits
  BY <1>1 DEF LowBits
<1> QED  BY <1>1, <1>2, OwnBits

\* Every logical operation has exactly one result, whatever the mask: the
\* model of an instruction by the bits of its result leaves no choice, and no
\* accumulator without a successor.
THEOREM LogicHasOneResult ==
  \A a, m : /\ \E r \in SF23 : AND(a, m) = {r}
            /\ \E s \in SF23 : OR(a, m) = {s}
            /\ \E t \in SF23 : XOR(a, m) = {t}
<1> SUFFICES ASSUME NEW a, NEW m
             PROVE  /\ \E r \in SF23 : AND(a, m) = {r}
                    /\ \E s \in SF23 : OR(a, m) = {s}
                    /\ \E t \in SF23 : XOR(a, m) = {t}
  OBVIOUS
<1>1. /\ LowBits(a) \subseteq 0 .. kFracBits - 1
      /\ LowBits(m) \subseteq 0 .. kFracBits - 1
  BY DEF LowBits
<1>2. /\ (a < 0 /\ SignBit(m)) \in BOOLEAN
      /\ (a < 0 \/ SignBit(m)) \in BOOLEAN
  OBVIOUS
<1>3. \E r \in SF23 : AND(a, m) = {r}
  BY <1>1, <1>2, OneWithBits DEF AND
<1>4. \E s \in SF23 : OR(a, m) = {s}
  BY <1>1, <1>2, OneWithBits DEF OR
<1>5. \E t \in SF23 : XOR(a, m) = {t}
  BY <1>1, <1>2, OneWithBits DEF XOR
<1> QED  BY <1>3, <1>4, <1>5

\* An AND without a mask clears.
LEMMA AndOfNothing == \A a \in SF23 : AND(a, 0) = {0}
<1> SUFFICES ASSUME NEW a \in SF23
             PROVE  AND(a, 0) = {0}
  OBVIOUS
<1>1. 0 \in SF23 /\ ~SignBit(0)
  BY RangeAssumption DEF SF23, MIN, MAX, SignBit
<1>2. LowBits(0) = {}
  <2>1. ASSUME NEW i \in 0 .. kFracBits - 1
        PROVE  Bit(0, i) = 0
    <3>1. 2 ^ i \in Nat \ {0}
      <4>1. i \in 0 .. 23
        BY WidthIsPower
      <4> QED  BY <4>1, Doubling
    <3>2. \A m \in Nat \ {0} : (0 \div m) % 2 = 0
      OBVIOUS
    <3> QED  BY <3>1, <3>2 DEF Bit
  <2> QED  BY <2>1 DEF LowBits
<1>3. WithBits({}, FALSE) = {0}
  <2>1. FALSE \in BOOLEAN /\ (0 < 0 <=> FALSE)
    OBVIOUS
  <2> QED  BY <1>1, <1>2, <2>1, OwnBits, Zenon
<1> QED  BY <1>1, <1>2, <1>3 DEF AND

\* The complement of a value is a value, and sign extension leaves it alone.
LEMMA NotIsComplement == \A a \in SF23 : NOT(a) = -a - 1 /\ -a - 1 \in SF23
<1> SUFFICES ASSUME NEW a \in SF23
             PROVE  NOT(a) = -a - 1 /\ -a - 1 \in SF23
  OBVIOUS
<1> DEFINE v == -a - 1
<1>1. v \in SF23 /\ v \in Int /\ kIntRange \in Nat \ {0}
  BY RangeAssumption DEF SF23, MIN, MAX
<1> HIDE DEF v
<1>2. CASE v \in 0 .. MAX
  BY <1>1, <1>2 DEF NOT, SX, v
<1>3. CASE v \notin 0 .. MAX
  <2>1. v + kIntRange \in 0 .. kIntRange - 1 /\ v = kIntRange * (-1) + (v + kIntRange)
    BY <1>1, <1>3 DEF SF23, MIN, MAX
  <2>2. -1 \in Int
    OBVIOUS
  <2>3. v % kIntRange = v + kIntRange
    BY <1>1, <2>1, <2>2, QuotientUnique
  <2>4. SX(v) = v
    BY <1>1, <1>3, <2>3 DEF SX
  <2> QED  BY <1>1, <2>4 DEF NOT, v
<1> QED  BY <1>2, <1>3

\* It has the complement of the bits below the sign, and the other sign.
LEMMA NotBits ==
  ASSUME NEW a \in SF23
  PROVE  /\ LowBits(-a - 1) = (0 .. kFracBits - 1) \ LowBits(a)
         /\ -a - 1 < 0 <=> a >= 0
<1>1. a \in Int /\ \A i \in 0 .. kFracBits - 1 : i \in 0 .. 23
  BY WidthIsPower
<1>2. \A i \in 0 .. kFracBits - 1 : Bit(-a - 1, i) = 1 - Bit(a, i) /\ Bit(a, i) \in 0 .. 1
  BY <1>1, ComplementBits, BitByBit
<1>3. \A i \in 0 .. kFracBits - 1 : Bit(-a - 1, i) = 1 <=> Bit(a, i) # 1
  BY <1>2
<1> QED  BY <1>1, <1>3 DEF LowBits

\* A full mask has all bits, that of the sign among them.
LEMMA MaskBits == LowBits(MASK) = 0 .. kFracBits - 1 /\ SignBit(MASK)
<1>1. kFracBits \in 0 .. 23 /\ kFracBits + 1 \in 0 .. 24
  BY WidthIsPower
<1>2. MASK = 2 ^ (kFracBits + 1) - 1
  BY <1>1, Doubling, FracAssumption DEF MASK
<1>3. \A i \in 0 .. kFracBits - 1 : Bit(MASK, i) = 1
  <2> DEFINE n == kFracBits + 1
  <2>1. n \in 0 .. 24 /\ MASK = 2 ^ n - 1
    BY <1>1, <1>2
  <2>2. \A i \in 0 .. kFracBits - 1 : i \in 0 .. n - 1
    BY <1>1
  <2> HIDE DEF n
  <2> QED  BY <2>1, <2>2, OnesBelow, Zenon DEF HasOnes
<1>4. SignBit(MASK)
  BY RangeAssumption DEF SignBit, MASK
<1> QED  BY <1>3, <1>4 DEF LowBits

\* XOR with all bits is NOT exactly for the accumulators that are not negative:
\* the sign bits above those of the mask keep a negative one negative.
THEOREM XorAllBits == \A a \in SF23 : XOR(a, MASK) = {NOT(a)} <=> a >= 0
<1> SUFFICES ASSUME NEW a \in SF23
             PROVE  XOR(a, MASK) = {NOT(a)} <=> a >= 0
  OBVIOUS
<1> DEFINE v == -a - 1
<1>1. /\ NOT(a) = v /\ v \in SF23 /\ LowBits(v) = (0 .. kFracBits - 1) \ LowBits(a)
      /\ v < 0 <=> a >= 0
  BY NotIsComplement, NotBits
<1> HIDE DEF v
<1>2. XOR(a, MASK) = WithBits(LowBits(v), TRUE)
  <2>1. LowBits(a) \subseteq 0 .. kFracBits - 1
    BY DEF LowBits
  <2> QED  BY <1>1, <2>1, MaskBits DEF XOR
<1>3. CASE a >= 0
  BY <1>1, <1>2, <1>3, OwnBits
<1>4. CASE ~(a >= 0)
  <2>1. v >= 0 /\ \A r \in MIN .. -1 : r < 0
    BY <1>1, <1>4, WidthIsPower DEF MIN
  <2>2. v \notin WithBits(LowBits(v), TRUE)
    BY <2>1 DEF WithBits
  <2> QED  BY <1>1, <1>2, <1>4, <2>2
<1> QED  BY <1>3, <1>4

-----------------------------------------------------------------------------
\* A sum that wraps loses nothing: the difference wraps back.
LEMMA WrapUndone ==
  \A s \in Int32, m \in Int : Wrap32(Wrap32(s - m) + m) = s
<1> SUFFICES ASSUME NEW s \in Int32, NEW m \in Int
             PROVE  Wrap32(Wrap32(s - m) + m) = s
  OBVIOUS
<1> DEFINE n == 512 * kIntRange
           b == INT32_MIN
           y == (s - m) - b
           q == y \div n
           r == y % n
<1>1. n \in Nat \ {0} /\ b \in Int /\ s \in Int /\ s - b \in 0 .. n - 1
  BY RangeAssumption DEF Int32, INT32_MIN, INT32_MAX
<1>2. \A x : Wrap32(x) = ((x - b) % n) + b
  BY DEF Wrap32
<1> HIDE DEF n, b
<1>3. y \in Int
  BY <1>1
<1>4. q \in Int /\ r \in 0 .. n - 1 /\ y = n * q + r
  <2> HIDE DEF y
  <2> QED  BY <1>1, <1>3
<1>5. Wrap32(s - m) = r + b
  BY <1>2
<1> HIDE DEF q, r
<1>6. n * q \in Int /\ n * (-q) = -(n * q) /\ -q \in Int
  BY <1>1, <1>4
<1>7. ((r + b) + m) - b = n * (-q) + (s - b)
  BY <1>1, <1>4, <1>6
<1> DEFINE z == ((r + b) + m) - b
           t == s - b
<1>8. z \in Int /\ t \in 0 .. n - 1 /\ z = n * (-q) + t
  BY <1>1, <1>4, <1>7
<1>9. Wrap32((r + b) + m) = (z % n) + b
  BY <1>2
<1> HIDE DEF z
<1>10. z % n = t
  <2> DEFINE p == -q
  <2>1. p \in Int /\ z = n * p + t
    BY <1>6, <1>8
  <2> HIDE DEF t, p
  <2>2. n \in Nat \ {0} /\ z \in Int /\ t \in 0 .. n - 1
    BY <1>1, <1>8
  <2> QED  BY <2>1, <2>2, QuotientUnique, Zenon
<1>11. t + b = s
  BY <1>1
<1> HIDE DEF t
<1>12. Wrap32((r + b) + m) = s
  BY <1>9, <1>10, <1>11
<1> QED  BY <1>5, <1>12, Zenon

\* So Add and Sub undo each other, whatever is added.
LEMMA SumsUndone ==
  \A s \in Int32, m \in Int : Add(Sub(s, m), m) = s /\ Sub(Add(s, m), m) = s
<1> SUFFICES ASSUME NEW s \in Int32, NEW m \in Int
             PROVE  Add(Sub(s, m), m) = s /\ Sub(Add(s, m), m) = s
  OBVIOUS
<1>1. Add(Sub(s, m), m) = s
  BY WrapUndone DEF Add, Sub
<1>2. Sub(Add(s, m), m) = s
  <2>1. s \in Int /\ -m \in Int /\ s - (-m) = s + m
    BY RangeAssumption DEF Int32, INT32_MIN, INT32_MAX
  <2>2. Wrap32(Wrap32(s - (-m)) + (-m)) = s
    BY <2>1, WrapUndone
  <2>3. Wrap32(s + m) \in Int
    BY <2>1, WrapIsInt, RangeAssumption DEF Int32, INT32_MIN, INT32_MAX
  <2>4. Wrap32(s + m) + (-m) = Wrap32(s + m) - m
    BY <2>3
  <2> DEFINE w == Wrap32(s + m)
  <2>5. Wrap32(w + (-m)) = s
    BY <2>1, <2>2
  <2>6. Wrap32(w - m) = s
    BY <2>4, <2>5
  <2> QED  BY <2>6 DEF Add, Sub
<1> QED  BY <1>1, <1>2

\* Nothing times anything is nothing.
LEMMA ZeroTimes == \A c \in Int : Mul(0, c) = 0
<1> SUFFICES ASSUME NEW c \in Int PROVE Mul(0, c) = 0
  OBVIOUS
<1>1. (0 * c) \div kIntRange = 0
  BY RangeAssumption
<1>2. 0 \in Int32
  BY RangeAssumption DEF Int32, INT32_MIN, INT32_MAX
<1> QED  BY <1>1, <1>2, WrapIdentity DEF Mul
=============================================================================
