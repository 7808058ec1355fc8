------------------------------- MODULE AluLaws --------------------------------
(* An accumulator: `acc' takes every value the commands of Alu can give it *)
(* from every operand, so that its states are all pairs of words.          *)
EXTENDS Alu

VARIABLES acc, operand

Init == acc = 0 /\ operand = 0

Compute ==
  \E op \in BinaryOps : acc' \in Binary(op, acc, operand) /\ operand' = operand

Complement == \E op \in UnaryOps : acc' \in Unary(op, acc) /\ operand' = operand

Load == operand' \in Word /\ acc' = acc

Next == Compute \/ Complement \/ Load

Spec == Init /\ [][Next]_<<acc, operand>>

-----------------------------------------------------------------------------
(* Every command leaves a word, and only a division can trap.              *)
Closed ==
  /\ acc \in Word /\ operand \in Word
  /\ \A op \in BinaryOps :
       Binary(op, acc, operand) = {} => op \in {"div", "mod"} /\ Traps(acc, operand)

(* div and mod belong together: the quotient times the divisor plus the    *)
(* remainder is the dividend, the remainder is smaller than the divisor    *)
(* and has the sign of the dividend (C's truncating division).             *)
DivisionLaw ==
  \A q \in Quotients(acc, operand), r \in Remainders(acc, operand) :
    /\ q * operand + r = acc
    /\ Abs(r) < Abs(operand)
    /\ r # 0 => (r < 0) = (acc < 0)

(* rol moves bit i to bit i + r, around the end of the word.               *)
RolRotatesLeft ==
  operand \in 1 .. Width - 1 =>
    \A w \in Binary("rol", acc, operand), i \in BitIndex :
      Bit(w, (i + operand) % Width) <=> Bit(acc, i)
=============================================================================
