---------------------------- MODULE MCChip32Calls -----------------------------
(* Programs of up to four commands that call, return, use the stack, and   *)
(* break the convention, on 5-bit words and a RAM of 9 cells: the stack    *)
(* has room for two frames and a word.                                     *)
EXTENDS Chip32Calls, FiniteSets

Cmd(c, t0, a0) == [cmd |-> c, t0 |-> t0, t1 |-> "literal", a0 |-> a0, a1 |-> 8]

StackCommands ==
  {Cmd("call", "literal", a) : a \in {2, 3, 4}}
  \cup {Cmd("ret", "literal", 0), Cmd("push", "ram", 0), Cmd("push", "ram", 2),
        Cmd("pop", "ram", 0), Cmd("inc", "ram", 0), Cmd("jmp", "literal", 4),
        Cmd("iff", "ram", 0), Cmd("move", "ram", 2), Cmd("move", "ptr", 2)}

Boot == Cmd("initr", "literal", 9)

CallImages == {<<Boot>> \o t : t \in UNION {[1 .. k -> StackCommands] : k \in 0 .. 4}}
=============================================================================
