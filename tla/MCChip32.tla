------------------------------- MODULE MCChip32 -------------------------------
(* Small machines for TLC: 4-bit words, registers in cells 1 to 3, a RAM   *)
(* of 4 to 7 cells (0 and 4.. are left to the program), pages of 5         *)
(* commands.                                                               *)
EXTENDS Chip32Programs, FiniteSets

Operand(t, a) == <<t, a>>

Cmd(c, x, y) == [cmd |-> c, t0 |-> x[1], a0 |-> x[2], t1 |-> y[1], a1 |-> y[2]]

None == Operand("literal", 0)

Lit(a) == Operand("literal", a)
Ram(a) == Operand("ram", a)
Ptr(a) == Operand("ptr", a)
Dat(a) == Operand("data", a)

OneArg(ops, args) == {Cmd(c, x, None) : c \in ops, x \in args}

TwoArgs(ops, dsts, srcs) == {Cmd(c, x, y) : c \in ops, x \in dsts, y \in srcs}

Boot(n) == Cmd("initr", Lit(n), None)

Tails(alphabet, n) == UNION {[1 .. k -> alphabet] : k \in 0 .. n}

-----------------------------------------------------------------------------
(* Every command, with operands of every type, in and out of range, on a   *)
(* RAM that an earlier command prepared.                                   *)
Prepare == {Cmd("move", Ram(4), Lit(5)), Cmd("push", Lit(3), None),
            Cmd("call", Lit(2), None)}

Anything ==
  TwoArgs({"move", "strcpy", "ift", "iff"} \cup BinaryOps,
          {Ram(4), Ptr(4), Lit(0)},
          {Ram(5), Ptr(4), Lit(3), Dat(1), Dat(6), Ram(-1)})
  \cup OneArg({"jmp", "call", "ret", "push", "pop", "initr", "nop", "logi", "logu",
               "logc", "logs", "logln"} \cup UnaryOps,
              {Ram(4), Ptr(4), Lit(2), Dat(1), Dat(6), Ram(2)})

CommandImages ==
  {<<>>, <<Cmd("nop", None, None)>>, <<Boot(0)>>, <<Boot(3)>>, <<Boot(-7)>>}
  \cup {<<Boot(7), c, d>> : c \in Prepare, d \in Anything}

(* Programs that fill, and that overflow, a page, with jumps out of it.    *)
Leaps == {Cmd("nop", None, None), Cmd("jmp", Lit(5), None), Cmd("inc", Ram(1), None)}

Steps == Leaps \cup {Cmd("jmp", Lit(4), None), Cmd("jmp", Lit(-4), None), Cmd("logs", Lit(7), None)}

PagedImages ==
  {<<Boot(4)>> \o t : t \in Tails(Steps, 3) \cup Tails(Leaps, 5)}

-----------------------------------------------------------------------------
(* Safe programs of up to three commands after initr, and longer and       *)
(* unsafe neighbours of them, on a RAM of 5 cells.                         *)
Branches ==
  {Cmd("jmp", Lit(a), None) : a \in {0, 1, 4}} \cup TwoArgs({"ift", "iff"}, {Ram(4)}, {Lit(1), Lit(4)})

SafeCommands ==
  {Cmd("move", Ram(4), Ram(0)), Cmd("dif", Ram(0), Lit(3)), Cmd("div", Ram(4), Lit(2)),
   Cmd("bnot", Ram(4), None), Cmd("logln", None, None)} \cup Branches

OtherCommands ==
  TwoArgs(BinaryOps, {Ram(4)}, {Lit(3)}) \cup TwoArgs(BinaryOps \ Divides, {Ram(4)}, {Ram(0)})
  \cup OneArg(UnaryOps \cup {"logi", "logu", "logc"}, {Ram(0)})

UnsafeCommands ==
  {Cmd("div", Ram(4), Ram(0)), Cmd("move", Ram(1), Lit(7)), Cmd("inc", Ptr(4), None)}

DefinedImages ==
  {<<Boot(5)>> \o t : t \in Tails(SafeCommands, 3)}
  \cup {<<Boot(5), c, d>> : c \in UnsafeCommands \cup OtherCommands, d \in SafeCommands}

-----------------------------------------------------------------------------
AllImages == CommandImages \cup PagedImages \cup DefinedImages

SomeJunk == {0, -7}

TwoPageImages == {i \in PagedImages : Len(i) > PageSize}

LoopImages == {<<Boot(4), Cmd("logs", Lit(7), None), Cmd("jmp", Lit(1), None)>>}
=============================================================================
