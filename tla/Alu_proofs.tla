------------------------------ MODULE Alu_proofs ------------------------------
(* The words of the machine for every width: powers of two, quotients and  *)
(* bits, and what the commands of Alu make of words.                       *)
EXTENDS Alu, WellFoundedInduction, TLAPS

LEMMA Smallest ==
  ASSUME NEW S \in SUBSET Nat, S # {}
  PROVE  \E m \in S : \A k \in S : m <= k
<1>1. PICK m \in S : \A k \in S : <<k, m>> \notin OpToRel(<, Nat)
  BY NatLessThanWellFounded, WFMin
<1>2. \A k \in S : ~(k < m)
  BY <1>1 DEF OpToRel
<1> QED
  BY <1>2

-----------------------------------------------------------------------------
(* Powers of two up to the width. *)

LEMMA PowerPositive ==
  ASSUME NEW n \in 0 .. Width
  PROVE  2^n \in Nat \ {0}
<1> DEFINE bad == {m \in 0 .. Width : 2^m \notin Nat \ {0}}
<1>1. SUFFICES ASSUME bad # {} PROVE FALSE
  OBVIOUS
<1>2. bad \in SUBSET Nat
  OBVIOUS
<1>3. PICK m \in bad : \A k \in bad : m <= k
  <2> HIDE DEF bad
  <2> QED
    BY <1>1, <1>2, Smallest
<1>4. m # 0
  <2>1. 2^0 \in Nat \ {0}
    BY WidthAssumption
  <2> QED
    BY <1>3, <2>1
<1>5. m - 1 \in 0 .. Width - 1 /\ m - 1 \notin bad /\ m - 1 \in 0 .. Width
  BY <1>3, <1>4, WidthAssumption
<1>6. 2^(m - 1) \in Nat \ {0}
  BY <1>5
<1>7. 2^((m - 1) + 1) = 2 * 2^(m - 1)
  BY <1>5, WidthAssumption
<1>8. (m - 1) + 1 = m
  BY <1>3
<1>9. 2^m = 2 * 2^(m - 1)
  BY <1>7, <1>8
<1> QED
  BY <1>3, <1>6, <1>9

LEMMA PowerNext ==
  ASSUME NEW n \in 0 .. Width - 1
  PROVE  2^(n + 1) = 2 * 2^n /\ n \in 0 .. Width /\ n + 1 \in 0 .. Width
BY WidthAssumption

LEMMA PowerSum ==
  ASSUME NEW i \in 0 .. Width, NEW j \in 0 .. Width, i + j <= Width
  PROVE  2^(i + j) = 2^i * 2^j
<1> DEFINE bad == {m \in 0 .. Width : i + m <= Width /\ 2^(i + m) # 2^i * 2^m}
<1>1. SUFFICES ASSUME bad # {} PROVE FALSE
  OBVIOUS
<1>2. bad \in SUBSET Nat
  OBVIOUS
<1>3. PICK m \in bad : \A k \in bad : m <= k
  <2> HIDE DEF bad
  <2> QED
    BY <1>1, <1>2, Smallest
<1>4. m # 0
  <2>1. 2^i \in Nat /\ i + 0 = i /\ 2^0 = 1
    BY PowerPositive, WidthAssumption
  <2>2. 2^(i + 0) = 2^i * 2^0
    BY <2>1
  <2> QED
    BY <1>3, <2>2
<1> DEFINE p == m - 1
<1>5. p \in 0 .. Width - 1 /\ p \in 0 .. Width /\ p \notin bad /\ p + 1 = m /\ i + p \in 0 .. Width - 1
      /\ (i + p) + 1 = i + m /\ i + p <= Width
  BY <1>3, <1>4, WidthAssumption
<1> HIDE DEF p
<1>6. 2^(i + p) = 2^i * 2^p
  BY <1>5
<1>7. 2^m = 2 * 2^p /\ 2^(i + m) = 2 * 2^(i + p)
  <2>1. 2^(p + 1) = 2 * 2^p /\ 2^((i + p) + 1) = 2 * 2^(i + p)
    BY <1>5, PowerNext
  <2> QED
    BY <1>5, <2>1
<1>8. 2^p \in Nat /\ 2^i \in Nat
  BY <1>5, PowerPositive
<1>9. \A a, b \in Nat : 2 * (a * b) = a * (2 * b)
  OBVIOUS
<1>10. 2^(i + m) = 2^i * 2^m
  BY <1>6, <1>7, <1>8, <1>9
<1> QED
  BY <1>3, <1>10

-----------------------------------------------------------------------------
(* Quotients and remainders. *)

LEMMA DivMod ==
  ASSUME NEW a \in Int, NEW d \in Nat \ {0}
  PROVE  /\ a \div d \in Int /\ a % d \in 0 .. d - 1
         /\ a = d * (a \div d) + (a % d)
OBVIOUS

LEMMA DivUnique ==
  ASSUME NEW a \in Int, NEW d \in Nat \ {0}, NEW q \in Int, NEW r \in 0 .. d - 1,
         a = d * q + r
  PROVE  a \div d = q /\ a % d = r
<1>1. PICK x \in Int, y \in Int : x = a \div d /\ y = a % d /\ y \in 0 .. d - 1 /\ a = d * x + y
  BY DivMod
<1>2. d * (q - x) = y - r
  BY <1>1
<1>3. \A k \in Int : k >= 1 => d * k >= d
  OBVIOUS
<1>4. \A k \in Int : k <= -1 => d * k <= -d
  OBVIOUS
<1>5. q - x \in Int /\ y - r > -d /\ y - r < d
  BY <1>1
<1>6. q - x = 0
  BY <1>2, <1>3, <1>4, <1>5
<1> QED
  BY <1>1, <1>6

LEMMA DivNat ==
  ASSUME NEW a \in Nat, NEW d \in Nat \ {0}
  PROVE  a \div d \in Nat
<1>1. PICK q \in Int, r \in 0 .. d - 1 : q = a \div d /\ r = a % d /\ a = d * q + r
  BY DivMod
<1>2. q <= -1 => d * q <= -d
  OBVIOUS
<1> QED
  BY <1>1, <1>2

LEMMA DivDiv ==
  ASSUME NEW a \in Int, NEW c \in Nat \ {0}, NEW d \in Nat \ {0}
  PROVE  (a \div c) \div d = a \div (c * d)
<1>1. PICK q \in Int, r \in 0 .. c - 1 : q = a \div c /\ r = a % c /\ a = c * q + r
  BY DivMod
<1>2. PICK p \in Int, s \in 0 .. d - 1 : p = q \div d /\ s = q % d /\ q = d * p + s
  BY DivMod
<1>3. c * d \in Nat \ {0}
  OBVIOUS
<1>4. a = (c * d) * p + (c * s + r)
  <2>1. \A x, y, z, u \in Int : x * (y * z + u) = (x * y) * z + x * u
    OBVIOUS
  <2>2. c \in Int /\ d \in Int /\ s \in Int /\ q = d * p + s
    BY <1>2
  <2>3. c * (d * p + s) = (c * d) * p + c * s
    BY <2>1, <2>2
  <2>4. c * q = (c * d) * p + c * s
    BY <2>2, <2>3
  <2> QED
    BY <1>1, <2>4
<1>5. c * s + r \in 0 .. c * d - 1
  <2>1. c * s >= 0 /\ c * s \in Int
    OBVIOUS
  <2>2. c * (d - 1 - s) >= 0
    OBVIOUS
  <2>3. c * s <= c * d - c
    BY <2>2
  <2> QED
    BY <1>3, <2>1, <2>3
<1>6. a \div (c * d) = p
  BY <1>3, <1>4, <1>5, DivUnique
<1> QED
  BY <1>1, <1>2, <1>6

(* Whole multiples of the divisor do not count. *)
LEMMA ModShift ==
  ASSUME NEW a \in Int, NEW d \in Nat \ {0}, NEW k \in Int
  PROVE  (a + d * k) % d = a % d /\ (a + d * k) \div d = a \div d + k
<1>1. PICK q \in Int, r \in 0 .. d - 1 : q = a \div d /\ r = a % d /\ a = d * q + r
  BY DivMod
<1>2. d * (q + k) = d * q + d * k
  OBVIOUS
<1>3. a + d * k \in Int /\ q + k \in Int /\ a + d * k = d * (q + k) + r
  BY <1>1, <1>2
<1>4. (a + d * k) \div d = q + k /\ (a + d * k) % d = r
  BY <1>3, DivUnique
<1> QED
  BY <1>1, <1>4

LEMMA ModSmall ==
  ASSUME NEW d \in Nat \ {0}, NEW a \in 0 .. d - 1
  PROVE  a % d = a /\ a \div d = 0
<1>1. a = d * 0 + a
  OBVIOUS
<1> QED
  BY <1>1, DivUnique

LEMMA Multiple ==
  ASSUME NEW d \in Nat \ {0}, NEW k \in Int
  PROVE  (d * k) % d = 0 /\ (d * k) \div d = k
<1>1. 0 % d = 0 /\ 0 \div d = 0
  BY ModSmall
<1>2. 0 + d * k = d * k /\ 0 + k = k
  OBVIOUS
<1> QED
  BY <1>1, <1>2, ModShift

-----------------------------------------------------------------------------
(* Words and their wrapping. *)

(* Half a range of words is a positive number. *)
LEMMA HalfPositive == Half \in Nat \ {0, 1}
<1>1. Width - 2 \in 0 .. Width - 1 /\ (Width - 2) + 1 = Width - 1
  BY WidthAssumption
<1>2. 2^(Width - 1) = 2 * 2^(Width - 2) /\ 2^(Width - 2) \in Nat \ {0}
  BY <1>1, PowerNext, PowerPositive
<1> QED
  BY <1>2 DEF Half

LEMMA WholeRange == 2^Width = 2 * Half
<1>1. Width - 1 \in 0 .. Width - 1 /\ (Width - 1) + 1 = Width
  BY WidthAssumption
<1> QED
  BY <1>1, PowerNext DEF Half

(* Wrapping an integer, the two's complement of chip32.c's int32_t, gives  *)
(* a word. *)
LEMMA WrapWord == ASSUME NEW x \in Int PROVE Wrap(x) \in Word
  BY HalfPositive DEF Wrap, Word

(* A word that needs no wrapping is left alone. *)
LEMMA WrapSmall == ASSUME NEW x \in Word PROVE Wrap(x) = x
  <1>1. x + Half \in 0 .. 2 * Half - 1
    BY HalfPositive DEF Word
  <1>2. (x + Half) % (2 * Half) = x + Half
    BY <1>1, HalfPositive
  <1> QED
    BY <1>2, HalfPositive DEF Wrap, Word

(* Reading a word as uint32_t gives a number below 2^Width. *)
LEMMA UnsignedRange == ASSUME NEW x \in Int PROVE Unsigned(x) \in 0 .. 2 * Half - 1
  BY HalfPositive DEF Unsigned

(* Wrapped or not, a number is read as the same uint32_t. *)
LEMMA UnsignedWrap == ASSUME NEW x \in Int PROVE Unsigned(Wrap(x)) = x % (2 * Half)
<1> DEFINE m == 2 * Half
<1>1. m \in Nat \ {0} /\ x + Half \in Int /\ Half \in Int
  BY HalfPositive
<1> HIDE DEF m
<1>2. PICK q \in Int, y \in 0 .. m - 1 : y = (x + Half) % m /\ x + Half = m * q + y
  BY <1>1, DivMod
<1>3. -q \in Int /\ y - Half = x + m * (-q)
  BY <1>1, <1>2
<1>4. (x + m * (-q)) % m = x % m
  BY <1>1, <1>3, ModShift
<1>5. Wrap(x) = y - Half
  BY <1>2 DEF Wrap, m
<1> QED
  BY <1>3, <1>4, <1>5 DEF Unsigned, m

-----------------------------------------------------------------------------
(* The bits of an integer, of which a word has the first Width. *)

BitAt(x, i) == (x \div 2^i) % 2 = 1

LEMMA BitOfRest ==
  ASSUME NEW x \in Int, NEW j \in BitIndex
  PROVE  BitAt(x % (2 * Half), j) <=> BitAt(x, j)
<1> DEFINE m == 2 * Half
           d == 2^j
           h == 2^(Width - 1 - j)
<1>1. j \in 0 .. Width /\ j \in 0 .. Width - 1 /\ Width - 1 - j \in 0 .. Width - 1
      /\ j + (Width - 1 - j) = Width - 1 /\ Width - 1 <= Width /\ Width - 1 - j \in 0 .. Width
  BY WidthAssumption DEF BitIndex
<1>2. d \in Nat \ {0} /\ h \in Nat \ {0} /\ Half = d * h /\ m \in Nat \ {0}
  BY <1>1, PowerPositive, PowerSum, HalfPositive DEF Half
<1> HIDE DEF d, h
<1>3. m = d * (2 * h)
  BY <1>2
<1> HIDE DEF m
<1>4. PICK q \in Int, r \in 0 .. m - 1 : r = x % m /\ x = m * q + r
  BY <1>2, DivMod
<1>5. x = r + d * (2 * (h * q))
  <2>1. \A u, v, w \in Int : (u * (2 * v)) * w = u * (2 * (v * w))
    OBVIOUS
  <2>2. m * q = d * (2 * (h * q))
    BY <1>2, <1>3, <2>1
  <2> QED
    BY <1>2, <1>4, <2>2
<1>6. 2 * (h * q) \in Int /\ h * q \in Int /\ r \in Int /\ r \div d \in Int
  BY <1>2, <1>4
<1>7. x \div d = r \div d + 2 * (h * q)
  BY <1>2, <1>5, <1>6, ModShift
<1>8. (r \div d + 2 * (h * q)) % 2 = (r \div d) % 2
  <2>1. 2 \in Nat \ {0}
    OBVIOUS
  <2> QED
    BY <1>6, <2>1, ModShift
<1> QED
  BY <1>4, <1>7, <1>8 DEF BitAt, d, m

LEMMA BitIsBitAt ==
  ASSUME NEW x \in Int, NEW j \in BitIndex
  PROVE  Bit(x, j) <=> BitAt(x, j)
BY BitOfRest DEF Bit, Unsigned, BitAt

LEMMA BitOfWrap ==
  ASSUME NEW x \in Int, NEW j \in BitIndex
  PROVE  Bit(Wrap(x), j) <=> BitAt(x, j)
BY UnsignedWrap, BitOfRest DEF Bit, BitAt

(* Every set of n bits is that of a number below 2^n. *)
LEMMA BitsExist ==
  ASSUME NEW n \in 0 .. Width, NEW set \in SUBSET (0 .. n - 1)
  PROVE  \E u \in 0 .. 2^n - 1 : \A i \in 0 .. n - 1 : BitAt(u, i) <=> i \in set
<1> DEFINE Spelt(k, s, u) == \A i \in 0 .. k - 1 : BitAt(u, i) <=> i \in s
           bad == {k \in 0 .. Width :
                     \E s \in SUBSET (0 .. k - 1) : \A u \in 0 .. 2^k - 1 : ~Spelt(k, s, u)}
<1>1. SUFFICES ASSUME bad # {} PROVE FALSE
  OBVIOUS
<1>2. bad \in SUBSET Nat
  OBVIOUS
<1>3. PICK m \in bad : \A k \in bad : m <= k
  <2> HIDE DEF bad
  <2> QED
    BY <1>1, <1>2, Smallest
<1>4. m \in 0 .. Width /\ \E s \in SUBSET (0 .. m - 1) : \A u \in 0 .. 2^m - 1 : ~Spelt(m, s, u)
  BY <1>3
<1>5. PICK s \in SUBSET (0 .. m - 1) : \A u \in 0 .. 2^m - 1 : ~Spelt(m, s, u)
  BY <1>4
<1>6. m # 0
  <2>1. SUFFICES ASSUME m = 0 PROVE FALSE
    OBVIOUS
  <2>2. 0 \in 0 .. 2^m - 1
    BY <2>1, WidthAssumption
  <2>3. Spelt(m, s, 0)
    BY <2>1
  <2> HIDE DEF Spelt
  <2> QED
    BY <1>5, <2>2, <2>3
<1> DEFINE p == m - 1
           t == {i \in 0 .. p - 1 : i + 1 \in s}
           b == IF 0 \in s THEN 1 ELSE 0
<1>7. p \in 0 .. Width - 1 /\ p \in 0 .. Width /\ m = p + 1 /\ ~(m <= p) /\ p \in Nat
  BY <1>4, <1>6, WidthAssumption
<1>8. PICK v \in 0 .. 2^p - 1 : Spelt(p, t, v)
  <2>1. p \notin bad
    BY <1>3, <1>7
  <2>2. t \in SUBSET (0 .. p - 1)
    OBVIOUS
  <2> HIDE DEF t, Spelt, p
  <2> QED
    BY <1>7, <2>1, <2>2
<1> DEFINE u == 2 * v + b
<1>9. 2^m = 2 * 2^p /\ 2^p \in Nat \ {0}
  <2> HIDE DEF p
  <2> QED
    BY <1>7, PowerNext, PowerPositive
<1>10. v \in Nat /\ b \in 0 .. 1 /\ u \in 0 .. 2^m - 1 /\ u \in Int /\ u % 2 = b /\ u \div 2 = v
  <2>1. b \in 0 .. 1 /\ v \in 0 .. 2^p - 1
    BY <1>8
  <2> HIDE DEF b, p
  <2>2. 2 \in Nat \ {0} /\ b \in 0 .. 2 - 1 /\ v \in Int /\ u \in Int
    BY <1>9, <2>1
  <2>3. u = 2 * v + b
    OBVIOUS
  <2> HIDE DEF u
  <2>4. u % 2 = b /\ u \div 2 = v
    BY <2>2, <2>3, DivUnique
  <2>5. 2 * v + b \in 0 .. 2^m - 1 /\ v \in Nat
    BY <1>9, <2>1
  <2> QED
    BY <2>1, <2>2, <2>3, <2>4, <2>5
<1>11. BitAt(u, 0) <=> 0 \in s
  <2>1. u \div 1 = u
    <3> HIDE DEF u
    <3>1. u = 1 * u + 0
      BY <1>10
    <3> QED
      BY <1>10, <3>1, DivUnique
  <2> HIDE DEF u
  <2>2. BitAt(u, 0) <=> b = 1
    BY <1>10, <2>1, WidthAssumption DEF BitAt
  <2> QED
    BY <2>2
<1>12. ASSUME NEW i \in 1 .. m - 1 PROVE BitAt(u, i) <=> i \in s
  <2> DEFINE j == i - 1
  <2>1. j \in 0 .. p - 1 /\ j \in 0 .. Width - 1 /\ j + 1 = i /\ j \in 0 .. Width
    BY <1>7, WidthAssumption
  <2> HIDE DEF j, u, p, b, t
  <2>2. 2^i = 2 * 2^j /\ 2^j \in Nat \ {0}
    BY <2>1, PowerNext, PowerPositive
  <2>3. (u \div 2) \div 2^j = u \div (2 * 2^j)
    BY <1>10, <2>2, DivDiv
  <2>4. BitAt(u, i) <=> BitAt(v, j)
    BY <1>10, <2>2, <2>3 DEF BitAt
  <2>5. BitAt(v, j) <=> j \in t
    BY <1>8, <2>1
  <2> QED
    BY <2>1, <2>4, <2>5 DEF t
<1>13. Spelt(m, s, u)
  <2>1. \A i \in 0 .. m - 1 : i = 0 \/ i \in 1 .. m - 1
    BY <1>7
  <2> HIDE DEF u, p
  <2> QED
    BY <1>11, <1>12, <2>1
<1> HIDE DEF u, Spelt
<1> QED
  BY <1>5, <1>10, <1>13

(* Every set of bits is that of a word: or, and, xor, not, rol and ror     *)
(* have a result, whatever the width of the word.                          *)
LEMMA BitsComplete ==
  ASSUME NEW set \in SUBSET BitIndex
  PROVE  WordsWithBits(set) # {}
<1>1. Width \in 0 .. Width /\ set \in SUBSET (0 .. Width - 1)
  BY WidthAssumption DEF BitIndex
<1>2. PICK u \in 0 .. 2^Width - 1 : \A i \in 0 .. Width - 1 : BitAt(u, i) <=> i \in set
  BY <1>1, BitsExist
<1>3. u \in Int /\ Wrap(u) \in Word
  BY WholeRange, HalfPositive, WrapWord
<1>4. \A i \in BitIndex : Bit(Wrap(u), i) <=> i \in set
  BY <1>2, <1>3, BitOfWrap DEF BitIndex
<1> QED
  BY <1>3, <1>4 DEF WordsWithBits
-----------------------------------------------------------------------------
(* The commands of Alu. *)

(* Every shift count the processor may use is at most the width. *)
LEMMA ShiftCountsRange == ASSUME NEW n \in Int PROVE ShiftCounts(n) \subseteq 0 .. Width
  BY WidthAssumption DEF ShiftCounts, BitIndex

(* Every command of the ALU produces words from words. *)
LEMMA BinaryWords ==
  ASSUME NEW op \in BinaryOps, NEW a \in Word, NEW b \in Word
  PROVE  Binary(op, a, b) \subseteq Word
  <1>1. ASSUME NEW n \in ShiftCounts(b) PROVE Shl(a, n) \in Word /\ Shr(a, n) \in Word
    <2>1. n \in 0 .. Width /\ a \in Int
      BY ShiftCountsRange, HalfPositive DEF Word
    <2>2. 2^n \in Nat \ {0}
      BY <2>1, PowerPositive
    <2> QED
      BY <2>1, <2>2, WrapWord DEF Shl, Shr
  <1>2. Rotations(a, b) \subseteq Word
    BY DEF Rotations
  <1>3. Quotients(a, b) \subseteq Word /\ Remainders(a, b) \subseteq Word
    <2>1. CASE Traps(a, b)
      BY <2>1 DEF Quotients, Remainders
    <2>2. CASE ~Traps(a, b)
      <3>1. CQuot(a, b) \in Int
        BY <2>2, HalfPositive DEF Traps, CQuot, Abs, Word
      <3>2. CRem(a, b) \in Int
        BY <3>1, HalfPositive DEF CRem, Word
      <3> QED
        BY <2>2, <3>1, <3>2, WrapWord DEF Quotients, Remainders
    <2> QED
      BY <2>1, <2>2
  <1>4. a + b \in Int /\ a - b \in Int /\ a * b \in Int
    BY HalfPositive DEF Word
  <1>5. 0 \in Word /\ 1 \in Word
    BY HalfPositive DEF Word
  <1> QED
    BY <1>1, <1>2, <1>3, <1>4, <1>5, WrapWord
    DEF Binary, BinaryOps, WordsWithBits, Truth

(* So does every unary command. *)
LEMMA UnaryWords ==
  ASSUME NEW op \in UnaryOps, NEW a \in Word
  PROVE  Unary(op, a) \subseteq Word
  <1>1. a + 1 \in Int /\ a - 1 \in Int /\ 0 \in Word /\ 1 \in Word
    BY HalfPositive DEF Word
  <1> QED
    BY <1>1, WrapWord DEF Unary, UnaryOps, WordsWithBits, Truth

(* Only a division can fail to have a result, and only where it traps. *)
LEMMA BinaryDefined ==
  ASSUME NEW op \in BinaryOps, NEW a \in Word, NEW b \in Word,
         op \in {"div", "mod"} => ~Traps(a, b)
  PROVE  Binary(op, a, b) # {}
  <1>1. \A n : n \in ShiftCounts(n) \/ (n % Width) \in ShiftCounts(n)
    BY DEF ShiftCounts
  <1>2. Rotations(a, b) # {}
    <2>1. PICK l \in ShiftCounts(Unsigned(b)), r \in ShiftCounts((Width - Unsigned(b)) % (2 * Half)) : TRUE
      BY <1>1
    <2>2. BitsOf(Shl(a, l)) \cup BitsOf(LogicalShr(a, r)) \in SUBSET BitIndex
      BY DEF BitsOf
    <2>3. WordsWithBits(BitsOf(Shl(a, l)) \cup BitsOf(LogicalShr(a, r))) # {}
      BY <2>2, BitsComplete
    <2> QED
      BY <2>1, <2>3 DEF Rotations, WordsWithBits
  <1>3. /\ BitsOf(a) \cup BitsOf(b) \in SUBSET BitIndex
        /\ BitsOf(a) \cap BitsOf(b) \in SUBSET BitIndex
        /\ (BitsOf(a) \cup BitsOf(b)) \ (BitsOf(a) \cap BitsOf(b)) \in SUBSET BitIndex
    BY DEF BitsOf
  <1>4. op \in {"div", "mod"} => Quotients(a, b) # {} /\ Remainders(a, b) # {}
    BY DEF Quotients, Remainders
  <1>5. \A set \in SUBSET BitIndex : WordsWithBits(set) # {}
    BY BitsComplete
  <1>6. \A n : {Shl(a, x) : x \in ShiftCounts(n)} # {} /\ {Shr(a, x) : x \in ShiftCounts(n)} # {}
    BY <1>1
  <1> QED
    BY <1>2, <1>3, <1>4, <1>5, <1>6 DEF Binary, BinaryOps

(* Every unary command has a result. *)
LEMMA UnaryDefined ==
  ASSUME NEW op \in UnaryOps, NEW a \in Word
  PROVE  Unary(op, a) # {}
  <1>1. BitIndex \ BitsOf(a) \in SUBSET BitIndex
    OBVIOUS
  <1>2. WordsWithBits(BitIndex \ BitsOf(a)) # {}
    BY <1>1, BitsComplete
  <1> QED
    BY <1>2 DEF Unary, UnaryOps
=============================================================================
