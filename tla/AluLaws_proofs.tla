---------------------------- MODULE AluLaws_proofs -----------------------------
(* The laws of the commands of Alu, for every width of words and every two *)
(* of them.                                                                *)
EXTENDS AluLaws, Alu_proofs

WordsKept == acc \in Word /\ operand \in Word

LEMMA WordsAlways == Spec => []WordsKept
<1>1. Init => WordsKept
  BY HalfPositive DEF Init, WordsKept, Word
<1>2. WordsKept /\ [Next]_<<acc, operand>> => WordsKept'
  <2> SUFFICES ASSUME WordsKept, [Next]_<<acc, operand>> PROVE WordsKept'
    OBVIOUS
  <2>1. CASE Compute
    BY <2>1, BinaryWords DEF Compute, WordsKept
  <2>2. CASE Complement
    BY <2>2, UnaryWords DEF Complement, WordsKept
  <2>3. CASE Load
    BY <2>3 DEF Load, WordsKept
  <2>4. CASE UNCHANGED <<acc, operand>>
    BY <2>4 DEF WordsKept
  <2> QED
    BY <2>1, <2>2, <2>3, <2>4 DEF Next
<1> QED
  BY <1>1, <1>2, PTL DEF Spec

(* Every command has words for results, and only a division by zero or of  *)
(* INT32_MIN by -1 has none.                                               *)
THEOREM CommandsAreClosed == Spec => []Closed
<1>1. WordsKept => Closed
  BY BinaryDefined DEF WordsKept, Closed
<1> QED
  BY <1>1, WordsAlways, PTL

-----------------------------------------------------------------------------
(* Division. *)

LEMMA QuotientOfNats ==
  ASSUME NEW a \in Nat, NEW b \in Nat \ {0}, NEW q \in Int, NEW r \in Int,
         q = a \div b, r = a % b
  PROVE  r \in 0 .. b - 1 /\ a = b * q + r /\ q \in 0 .. a /\ (b > 1 /\ a > 0 => q < a)
<1>1. r \in 0 .. b - 1 /\ a = b * q + r
  BY DivMod
<1>2. q \in Nat
  BY DivNat
<1>3. \A k \in Nat : b * k >= k /\ (b > 1 => b * k >= 2 * k)
  OBVIOUS
<1>4. b * q >= q /\ (b > 1 => b * q >= 2 * q) /\ b * q \in Int
  BY <1>2, <1>3
<1>5. b * q <= a
  BY <1>1, <1>4
<1> QED
  BY <1>1, <1>2, <1>4, <1>5

(* C's quotient and remainder need no wrapping where C defines them.       *)
LEMMA Divided ==
  ASSUME NEW a \in Word, NEW b \in Word, ~Traps(a, b)
  PROVE  /\ Quotients(a, b) = {CQuot(a, b)} /\ Remainders(a, b) = {CRem(a, b)}
         /\ CQuot(a, b) * b + CRem(a, b) = a
         /\ Abs(CRem(a, b)) < Abs(b)
         /\ CRem(a, b) # 0 => (CRem(a, b) < 0) = (a < 0)
<1> DEFINE x == Abs(a)
           y == Abs(b)
<1>1. /\ Half \in Nat \ {0, 1} /\ a \in Int /\ b \in Int /\ b # 0
      /\ a >= -Half /\ a < Half /\ b >= -Half /\ b < Half /\ ~(a = -Half /\ b = -1)
  BY HalfPositive DEF Traps, Word
<1>2. /\ x \in Nat /\ y \in Nat \ {0}
      /\ x = (IF a < 0 THEN -a ELSE a) /\ y = (IF b < 0 THEN -b ELSE b)
  BY <1>1 DEF Abs
<1> HIDE DEF x, y
<1>3. PICK q \in Int, r \in Int : q = x \div y /\ r = x % y
  <2>1. x \in Int /\ y \in Nat \ {0}
    BY <1>2
  <2>2. x \div y \in Int /\ x % y \in 0 .. y - 1
    BY <2>1, DivMod
  <2> QED
    BY <2>1, <2>2
<1>4. r \in 0 .. y - 1 /\ x = y * q + r /\ q \in 0 .. x /\ (y > 1 /\ x > 0 => q < x)
  <2>1. x \in Nat /\ y \in Nat \ {0}
    BY <1>2
  <2> QED
    BY <1>3, <2>1, QuotientOfNats
<1>5. CQuot(a, b) = IF (a < 0) = (b < 0) THEN q ELSE -q
  BY <1>3 DEF CQuot, x, y
<1>6. CQuot(a, b) \in Word
  BY <1>1, <1>2, <1>4, <1>5 DEF Word
<1>7. b * CQuot(a, b) = IF a < 0 THEN -(y * q) ELSE y * q
  <2>1. \A u, v \in Int : u * (-v) = -(u * v) /\ (-u) * v = -(u * v) /\ (-u) * (-v) = u * v
    OBVIOUS
  <2>2. CASE b < 0
    <3>1. y = -b
      BY <1>2, <2>2
    <3> QED
      BY <1>1, <1>3, <1>5, <2>1, <2>2, <3>1
  <2>3. CASE ~(b < 0)
    <3>1. y = b
      BY <1>2, <2>3
    <3> QED
      BY <1>1, <1>3, <1>5, <2>1, <2>3, <3>1
  <2> QED
    BY <2>2, <2>3
<1>8. y * q \in Int
  BY <1>2, <1>3
<1>9. CRem(a, b) = IF a < 0 THEN -r ELSE r
  <2>1. CRem(a, b) = a - b * CQuot(a, b)
    BY DEF CRem
  <2>2. CASE a < 0
    <3>1. -a = y * q + r /\ CRem(a, b) = a - (-(y * q))
      BY <1>2, <1>4, <1>7, <2>1, <2>2
    <3> QED
      BY <1>1, <1>3, <1>8, <2>2, <3>1
  <2>3. CASE ~(a < 0)
    <3>1. a = y * q + r /\ CRem(a, b) = a - y * q
      BY <1>2, <1>4, <1>7, <2>1, <2>3
    <3> QED
      BY <1>1, <1>3, <1>8, <2>3, <3>1
  <2> QED
    BY <2>2, <2>3
<1>10. CRem(a, b) \in Word
  BY <1>1, <1>2, <1>4, <1>9 DEF Word
<1>11. Quotients(a, b) = {CQuot(a, b)} /\ Remainders(a, b) = {CRem(a, b)}
  BY <1>6, <1>10, WrapSmall DEF Quotients, Remainders
<1>12. CQuot(a, b) * b + CRem(a, b) = a
  <2>1. CQuot(a, b) \in Int /\ b * CQuot(a, b) \in Int
    BY <1>1, <1>3, <1>5
  <2>2. CQuot(a, b) * b = b * CQuot(a, b)
    BY <1>1, <2>1
  <2> QED
    BY <1>1, <2>1, <2>2 DEF CRem
<1>13. Abs(CRem(a, b)) < Abs(b)
  BY <1>1, <1>2, <1>4, <1>9 DEF Abs
<1>14. CRem(a, b) # 0 => (CRem(a, b) < 0) = (a < 0)
  BY <1>1, <1>4, <1>9
<1> QED
  BY <1>11, <1>12, <1>13, <1>14

(* div and mod belong together, as C's truncating division has them.       *)
THEOREM DivisionIsTruncating == Spec => []DivisionLaw
<1>1. WordsKept => DivisionLaw
  <2> SUFFICES ASSUME WordsKept,
                      NEW q \in Quotients(acc, operand), NEW r \in Remainders(acc, operand)
               PROVE  /\ q * operand + r = acc
                      /\ Abs(r) < Abs(operand)
                      /\ r # 0 => (r < 0) = (acc < 0)
    BY DEF DivisionLaw
  <2>1. ~Traps(acc, operand)
    BY DEF Quotients
  <2> QED
    BY <2>1, Divided DEF WordsKept
<1> QED
  BY <1>1, WordsAlways, PTL

-----------------------------------------------------------------------------
(* Rotation. *)

LEMMA BitOfShl ==
  ASSUME NEW a \in Int, NEW n \in 0 .. Width, NEW j \in BitIndex
  PROVE  Bit(Shl(a, n), j) <=> (j >= n /\ BitAt(a, j - n))
<1>1. /\ j \in 0 .. Width /\ 2^n \in Nat \ {0} /\ 2^j \in Nat \ {0}
  BY PowerPositive, WidthAssumption DEF BitIndex
<1>a. a * 2^n \in Int
  BY <1>1
<1>2. Bit(Shl(a, n), j) <=> BitAt(a * 2^n, j)
  BY <1>a, BitOfWrap DEF Shl
<1>3. CASE j >= n
  <2> DEFINE k == j - n
  <2>1. k \in 0 .. Width /\ n + k = j /\ n + k <= Width
    BY <1>1, <1>3, WidthAssumption
  <2> HIDE DEF k
  <2>2. 2^j = 2^n * 2^k /\ 2^k \in Nat \ {0}
    BY <2>1, PowerSum, PowerPositive
  <2>3. (a * 2^n) \div 2^n = a
    <3>1. a * 2^n = 2^n * a
      BY <1>1
    <3> QED
      BY <1>1, <3>1, Multiple
  <2>4. (a * 2^n) \div 2^j = a \div 2^k
    <3>1. ((a * 2^n) \div 2^n) \div 2^k = (a * 2^n) \div (2^n * 2^k)
      BY <1>a, <1>1, <2>2, DivDiv
    <3> QED
      BY <2>2, <2>3, <3>1
  <2> QED
    BY <1>2, <1>3, <2>4 DEF BitAt, k
<1>4. CASE ~(j >= n)
  <2> DEFINE k == n - j - 1
  <2>1. /\ k \in 0 .. Width - 1 /\ k + 1 \in 0 .. Width /\ k \in 0 .. Width
        /\ j + (k + 1) = n /\ j + (k + 1) <= Width
    BY <1>1, <1>4, WidthAssumption
  <2> HIDE DEF k
  <2>2. 2^n = 2^j * 2^(k + 1) /\ 2^(k + 1) = 2 * 2^k /\ 2^k \in Nat \ {0}
    BY <1>1, <2>1, PowerSum, PowerNext, PowerPositive
  <2>3. a * 2^n = 2^j * (2 * (2^k * a))
    <3>1. \A u, v, w \in Int : u * (v * (2 * w)) = v * (2 * (w * u))
      OBVIOUS
    <3> QED
      BY <1>1, <2>2, <3>1
  <2>4. 2^k * a \in Int /\ 2 * (2^k * a) \in Int /\ 2 \in Nat \ {0}
    BY <2>2
  <2>5. (a * 2^n) \div 2^j = 2 * (2^k * a)
    BY <1>1, <2>3, <2>4, Multiple
  <2>6. (2 * (2^k * a)) % 2 = 0
    BY <2>4, Multiple
  <2> QED
    BY <1>2, <1>4, <2>5, <2>6 DEF BitAt
<1> QED
  BY <1>3, <1>4

LEMMA BitOfLogicalShr ==
  ASSUME NEW a \in Int, NEW n \in 0 .. Width, NEW j \in BitIndex
  PROVE  Bit(LogicalShr(a, n), j) <=> (j + n < Width /\ BitAt(a, j + n))
<1> DEFINE u == Unsigned(a)
           x == u \div 2^n
<1>1. /\ j \in 0 .. Width - 1 /\ j \in 0 .. Width
      /\ 2^n \in Nat \ {0} /\ 2^j \in Nat \ {0} /\ u \in 0 .. 2^Width - 1
  BY PowerPositive, WidthAssumption, UnsignedRange, WholeRange DEF BitIndex
<1>2. u \in Int /\ x \in Nat /\ u \in Nat
  BY <1>1, DivNat
<1>3. Bit(LogicalShr(a, n), j) <=> BitAt(x, j)
  <2>1. LogicalShr(a, n) = x
    BY DEF LogicalShr
  <2> QED
    BY <1>2, <2>1, BitIsBitAt
<1>4. CASE j + n < Width
  <2>1. j + n \in BitIndex /\ n + j = j + n /\ n + j <= Width
    BY <1>1, <1>4, WidthAssumption DEF BitIndex
  <2>2. 2^(j + n) = 2^n * 2^j
    BY <1>1, <2>1, PowerSum
  <2>3. x \div 2^j = u \div 2^(j + n)
    <3>1. (u \div 2^n) \div 2^j = u \div (2^n * 2^j)
      BY <1>1, <1>2, DivDiv
    <3> QED
      BY <2>2, <3>1
  <2>4. BitAt(x, j) <=> BitAt(u, j + n)
    BY <2>3 DEF BitAt
  <2>5. BitAt(u, j + n) <=> BitAt(a, j + n)
    BY <2>1, BitOfRest DEF Unsigned
  <2> QED
    BY <1>3, <1>4, <2>4, <2>5
<1>5. CASE ~(j + n < Width)
  <2> DEFINE k == Width - n
             i == j - (Width - n)
  <2>1. /\ k \in 0 .. Width /\ n + k = Width /\ n + k <= Width
        /\ i \in 0 .. Width /\ k + i = j /\ k + i <= Width
    BY <1>1, <1>5, WidthAssumption
  <2> HIDE DEF k, i
  <2>2. /\ 2^Width = 2^n * 2^k /\ 2^j = 2^k * 2^i
        /\ 2^k \in Nat \ {0} /\ 2^i \in Nat \ {0}
    BY <2>1, PowerSum, PowerPositive
  <2>3. x \div 2^k = 0
    <3>1. x \div 2^k = u \div 2^Width
      BY <1>1, <1>2, <2>2, DivDiv
    <3>2. 2^Width \in Nat \ {0}
      BY WholeRange, HalfPositive
    <3> QED
      BY <1>1, <3>1, <3>2, ModSmall
  <2>4. x \div 2^j = 0 \div 2^i
    BY <1>2, <2>2, <2>3, DivDiv
  <2>5. 0 \div 2^i = 0
    BY <2>2, ModSmall
  <2>6. ~BitAt(x, j)
    BY <2>4, <2>5 DEF BitAt
  <2> QED
    BY <1>3, <1>5, <2>6
<1> QED
  BY <1>4, <1>5

(* A word is wider than its shift counts are large. *)
LEMMA CountsFit == Width < 2 * Half /\ Width - 1 < Half
<1> DEFINE bad == {m \in 0 .. Width : 2^m <= m}
<1>1. bad = {}
  <2>1. SUFFICES ASSUME bad # {} PROVE FALSE
    OBVIOUS
  <2>2. bad \in SUBSET Nat
    OBVIOUS
  <2>3. PICK m \in bad : \A k \in bad : m <= k
    <3> HIDE DEF bad
    <3> QED
      BY <2>1, <2>2, Smallest
  <2>4. m # 0
    <3>1. ~(2^0 <= 0)
      BY WidthAssumption
    <3> QED
      BY <2>3, <3>1
  <2> DEFINE p == m - 1
  <2>5. p \in 0 .. Width - 1 /\ p \in 0 .. Width /\ p + 1 = m /\ ~(m <= p)
    BY <2>3, <2>4, WidthAssumption
  <2> HIDE DEF p
  <2>6. ~(2^p <= p) /\ 2^m = 2 * 2^p /\ 2^p \in Nat
    <3>1. 2^(p + 1) = 2 * 2^p
      BY <2>5, PowerNext
    <3> QED
      BY <2>3, <2>5, <3>1, PowerPositive
  <2> QED
    BY <2>3, <2>5, <2>6
<1>2. Width \in 0 .. Width /\ Width - 1 \in 0 .. Width
  BY WidthAssumption
<1>3. ~(2^Width <= Width) /\ ~(2^(Width - 1) <= Width - 1)
  BY <1>1, <1>2
<1>4. 2^Width = 2 * Half /\ 2^(Width - 1) = Half /\ Half \in Nat
  BY WholeRange, HalfPositive DEF Half
<1> QED
  BY <1>2, <1>3, <1>4

LEMMA Rotated ==
  ASSUME NEW a \in Word, NEW n \in 1 .. Width - 1, NEW w \in Rotations(a, n), NEW i \in BitIndex
  PROVE  Bit(w, (i + n) % Width) <=> Bit(a, i)
<1>1. Width \in Nat \ {0, 1} /\ Half \in Nat \ {0, 1} /\ a \in Int /\ i \in 0 .. Width - 1
  BY WidthAssumption, HalfPositive DEF Word, BitIndex
<1> DEFINE m == Width - n
<1>2. m \in 0 .. Width /\ n \in 0 .. Width /\ n \in BitIndex /\ m \in BitIndex
      /\ n \in 0 .. 2 * Half - 1 /\ m \in 0 .. 2 * Half - 1 /\ 2 * Half \in Nat \ {0}
  BY <1>1, CountsFit DEF BitIndex
<1>3. ShiftCounts(Unsigned(n)) = {n} /\ ShiftCounts((Width - Unsigned(n)) % (2 * Half)) = {m}
  <2>1. n % (2 * Half) = n /\ m % (2 * Half) = m
    BY <1>2, ModSmall
  <2> QED
    BY <1>2, <2>1 DEF Unsigned, ShiftCounts
<1> HIDE DEF m
<1>4. w \in WordsWithBits(BitsOf(Shl(a, n)) \cup BitsOf(LogicalShr(a, m)))
  BY <1>3 DEF Rotations
<1>5. ASSUME NEW k \in BitIndex
      PROVE  Bit(w, k) <=> \/ k >= n /\ BitAt(a, k - n)
                           \/ k + m < Width /\ BitAt(a, k + m)
  <2>1. Bit(w, k) <=> Bit(Shl(a, n), k) \/ Bit(LogicalShr(a, m), k)
    BY <1>4 DEF WordsWithBits, BitsOf
  <2>2. Bit(Shl(a, n), k) <=> (k >= n /\ BitAt(a, k - n))
    BY <1>1, <1>2, BitOfShl
  <2>3. Bit(LogicalShr(a, m), k) <=> (k + m < Width /\ BitAt(a, k + m))
    BY <1>1, <1>2, BitOfLogicalShr
  <2> QED
    BY <2>1, <2>2, <2>3
<1>6. Bit(a, i) <=> BitAt(a, i)
  BY <1>1, BitIsBitAt
<1>7. CASE i + n < Width
  <2>1. i + n \in BitIndex /\ (i + n) % Width = i + n /\ i + n >= n /\ (i + n) - n = i
        /\ ~((i + n) + m < Width)
    <3>1. i + n \in 0 .. Width - 1
      BY <1>1, <1>7
    <3> QED
      BY <1>1, <1>7, <3>1, ModSmall DEF BitIndex, m
  <2> QED
    BY <1>5, <1>6, <2>1
<1>8. CASE ~(i + n < Width)
  <2> DEFINE k == i + n - Width
  <2>1. k \in BitIndex /\ ~(k >= n) /\ k + m < Width /\ k + m = i
    BY <1>1, <1>8 DEF BitIndex, m
  <2>2. (i + n) % Width = k
    <3>1. k \in 0 .. Width - 1 /\ i + n = Width * 1 + k /\ i + n \in Int
      BY <1>1, <1>8
    <3> HIDE DEF k
    <3> QED
      BY <1>1, <3>1, DivUnique
  <2> HIDE DEF k
  <2> QED
    BY <1>5, <1>6, <2>1, <2>2
<1> QED
  BY <1>7, <1>8

(* rol carries every bit around the end of the word.                       *)
THEOREM RolIsRotation == Spec => []RolRotatesLeft
<1>1. WordsKept => RolRotatesLeft
  <2>1. Binary("rol", acc, operand) = Rotations(acc, operand)
    BY DEF Binary
  <2> QED
    BY <2>1, Rotated DEF WordsKept, RolRotatesLeft
<1> QED
  BY <1>1, WordsAlways, PTL
=============================================================================
