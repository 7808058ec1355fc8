--------------------------------- MODULE Alu ---------------------------------
(***************************************************************************)
(* The 32-bit words of the chip32 machine and the arithmetic its commands  *)
(* 0x02-0x13 perform on them (core/chip32.c, lines 67-175).                *)
(*                                                                         *)
(* A word is an int32_t; Width stands for 32.  Every operator returns the  *)
(* SET of words the C expression can produce: one word where C defines the *)
(* result, no word where the processor traps (division), and several where *)
(* C leaves the result open (a shift by the width of the word or more:     *)
(* processors either mask the count or shift every bit out).               *)
(***************************************************************************)
EXTENDS Integers

CONSTANT Width   (* bits of a word: 32 in the program *)

(* The last conjunct is arithmetic, spelt out for the provers.             *)
ASSUME WidthAssumption ==
  /\ Width \in Nat \ {0, 1}
  /\ 2^0 = 1 /\ \A n \in 0 .. Width - 1 : 2^(n + 1) = 2 * 2^n

Half == 2^(Width - 1)

Word == -Half .. Half - 1

(* Signed arithmetic wraps: the build has no -ftrapv. *)
Wrap(x) == ((x + Half) % (2 * Half)) - Half

Unsigned(w) == w % (2 * Half)

BitIndex == 0 .. Width - 1

Bit(w, i) == (Unsigned(w) \div 2^i) % 2 = 1

(* The word with exactly the bits of the predicate's graph set. *)
WordsWithBits(set) == {w \in Word : \A i \in BitIndex : Bit(w, i) <=> i \in set}

BitsOf(w) == {i \in BitIndex : Bit(w, i)}

-----------------------------------------------------------------------------
(* Division: C truncates towards zero; x/0 and INT32_MIN/-1 trap. *)

Abs(x) == IF x < 0 THEN -x ELSE x

CQuot(a, b) ==
  LET q == Abs(a) \div Abs(b) IN IF (a < 0) = (b < 0) THEN q ELSE -q

CRem(a, b) == a - b * CQuot(a, b)

Traps(a, b) == b = 0 \/ (a = -Half /\ b = -1)

MutQuotients(a, b) == IF b = 0 THEN {} ELSE {CQuot(a, b)}

Quotients(a, b) == IF Traps(a, b) THEN {} ELSE {Wrap(CQuot(a, b))}

MutRemainders(a, b) == IF Traps(a, b) THEN {} ELSE {Wrap(a % Abs(b))}

Remainders(a, b) == IF Traps(a, b) THEN {} ELSE {Wrap(CRem(a, b))}

-----------------------------------------------------------------------------
(* Shifts and rotations. *)

ShiftCounts(n) == IF n \in BitIndex THEN {n} ELSE {n % Width, Width}

Shl(w, n) == Wrap(w * 2^n)

Shr(w, n) == Wrap(w \div 2^n)              (* int32_t >> : sign filled *)

LogicalShr(w, n) == Unsigned(w) \div 2^n   (* uint32_t >> : zero filled *)

MutRotations(a, b) ==
  {w \in Word : \E l \in ShiftCounts(Unsigned(b)),
                   r \in ShiftCounts((Width - Unsigned(b)) % (2 * Half)) :
       w \in WordsWithBits(BitsOf(Shl(a, l)) \cup BitsOf(Shr(a, r)))}

(* (v << r) | (v >> (32 - r)): the body of chip32_cmd_rol and, as well, of *)
(* chip32_cmd_ror.                                                         *)
Rotations(a, b) ==
  {w \in Word : \E l \in ShiftCounts(Unsigned(b)),
                   r \in ShiftCounts((Width - Unsigned(b)) % (2 * Half)) :
       w \in WordsWithBits(BitsOf(Shl(a, l)) \cup BitsOf(LogicalShr(a, r)))}

Truth(p) == IF p THEN 1 ELSE 0

-----------------------------------------------------------------------------
BinaryOps == {"sum", "dif", "mul", "div", "mod", "or", "xor", "and",
              "shl", "shr", "rol", "ror", "bor", "band"}

UnaryOps == {"inc", "dec", "not", "bnot"}

(* The words `a op b' may leave in the destination. *)
Binary(op, a, b) ==
  CASE op = "sum"  -> {Wrap(a + b)}
    [] op = "dif"  -> {Wrap(a - b)}
    [] op = "mul"  -> {Wrap(a * b)}
    [] op = "div"  -> Quotients(a, b)
    [] op = "mod"  -> Remainders(a, b)
    [] op = "or"   -> WordsWithBits(BitsOf(a) \cup BitsOf(b))
    [] op = "and"  -> WordsWithBits(BitsOf(a) \cap BitsOf(b))
    [] op = "xor"  -> WordsWithBits((BitsOf(a) \cup BitsOf(b)) \ (BitsOf(a) \cap BitsOf(b)))
    [] op = "shl"  -> {Shl(a, n) : n \in ShiftCounts(b)}
    [] op = "shr"  -> {Shr(a, n) : n \in ShiftCounts(b)}
    [] op \in {"rol", "ror"} -> Rotations(a, b)
    [] op = "bor"  -> {Truth(a # 0 \/ b # 0)}
    [] op = "band" -> {Truth(a # 0 /\ b # 0)}

Unary(op, a) ==
  CASE op = "inc"  -> {Wrap(a + 1)}
    [] op = "dec"  -> {Wrap(a - 1)}
    [] op = "not"  -> WordsWithBits(BitIndex \ BitsOf(a))
    [] op = "bnot" -> {Truth(a = 0)}
=============================================================================
