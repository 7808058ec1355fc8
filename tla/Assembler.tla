------------------------------ MODULE Assembler -------------------------------
(***************************************************************************)
(* The second pass of the compiler (core/c32asmpars.c): a32_parse takes    *)
(* the commands the lexer left in vcmd[] one by one, enters the names they *)
(* declare, and appends machine commands to mc[]. One action is one        *)
(* iteration of a32_parse.                                                 *)
(*                                                                         *)
(* A token is its type and what its text stands for: the number of a       *)
(* literal or of a character, the name of a name or label, the characters  *)
(* of a string up to the first quote inside it.  Where the code goes on    *)
(* with a null or an uninitialised pointer, ctl becomes "undef". What a    *)
(* build that fails leaves in mc[] and in the table is freed unread, and   *)
(* not modelled; nor is c->error, which nobody reads after a return of 0.  *)
(***************************************************************************)
EXTENDS Integers, Sequences

CONSTANTS
  Sources,         \* the contents of vcmd[] to parse
  Names,           \* the names programs use, commands included
  TooLong,         \* names longer than A32_RBH_KEY
  A32_START_ADDR,  \* the first cell after the registers: 35
  MallocFails      \* may allocation fail?

TokenTypes == {"NUM", "CHAR", "STR", "AUTO", "RAM", "ADDR", "PTR", "DATA", "NAME", "LABEL"}

Token == [type : TokenTypes, num : Int, name : Names, text : Seq(Int)]

(* What the lexer leaves are commands with a token at least.               *)
ASSUME SourceAssumption ==
  /\ Sources \subseteq Seq(Seq(Token) \ {<<>>})
  /\ A32_START_ADDR \in Nat /\ TooLong \subseteq Names /\ MallocFails \in BOOLEAN

VARIABLES
  code,      \* vcmd[]
  line,      \* how many of its commands are parsed: i in a32_parse
  mc,        \* the machine commands
  declared,  \* c->declare, the table of names: whether a label, and dec->addr
  avaddr,    \* the next address given out
  ctl        \* "parse", or how the build ended

vars == <<code, line, mc, declared, avaddr, ctl>>

-----------------------------------------------------------------------------
(* Tokens of a command l, counted from 0 as in the code.                   *)
Tok(l, j) == l[j + 1]

Is(l, j, types) == j < Len(l) /\ Tok(l, j).type \in types

Labelled(l) == Tok(l, 0).type = "LABEL"

Action(l) == Tok(l, IF Labelled(l) THEN 1 ELSE 0).name

First(l) == IF Labelled(l) THEN 2 ELSE 1      \* the first operand

-----------------------------------------------------------------------------
(* Operands: parse_lvalue and parse_rvalue from token ic on give the one   *)
(* operand found and the token it ends at, or none.                        *)

OperandTypes == [RAM |-> "ram", PTR |-> "ptr", ADDR |-> "literal", DATA |-> "data"]

Known(l, v, names) ==
  Is(l, v, {"NUM"}) \/ (Is(l, v, {"NAME"}) /\ Tok(l, v).name \in DOMAIN names)

Meaning(l, v, names) ==
  IF Tok(l, v).type = "NUM" THEN Tok(l, v).num ELSE names[Tok(l, v).name].addr

Rvalue(l, ic, names) ==
  LET prefix == Is(l, ic, DOMAIN OperandTypes)
      v == IF prefix THEN ic + 1 ELSE ic
  IN  IF Known(l, v, names)
      THEN {[type |-> IF prefix THEN OperandTypes[Tok(l, ic).type] ELSE "literal",
             arg |-> Meaning(l, v, names), at |-> v]}
      ELSE {}

Lvalue(l, ic, names) == IF Is(l, ic, {"RAM", "PTR"}) THEN Rvalue(l, ic, names) ELSE {}

(* parse_lvalue reads dec->addr also when the name was not found.          *)
NullLvalue(l, ic, names) ==
  Is(l, ic, {"RAM", "PTR"}) /\ Is(l, ic + 1, {"NAME"}) /\ ~Known(l, ic + 1, names)

-----------------------------------------------------------------------------
(* The commands that a line stands for, when n commands come before it.    *)

Cmd(c, o, p) == [cmd |-> c, t0 |-> o.type, a0 |-> o.arg, t1 |-> p.type, a1 |-> p.arg]

NoOperand == [type |-> "literal", arg |-> 0]

NoArgs == {"nop", "ret", "logln"}

OneArgs == {"inc", "dec", "bnot", "jmp", "call", "pop", "logi", "logu", "logc", "logs"}

TwoArgs == {"move", "sum", "dif", "mul", "div", "mod", "or", "xor", "and", "not", "shl",
            "shr", "rol", "ror", "bor", "band", "push", "strcpy"}

MutFrom(n, o) == [o EXCEPT !.arg = n + @]

(* Addresses of jmpi, ift and iff count from the command after them.       *)
From(n, o) == [o EXCEPT !.arg = n + 1 + @]

Commands(l, names, n) ==
  CASE Action(l) \in NoArgs -> {<<Cmd(Action(l), NoOperand, NoOperand)>>}
    [] Action(l) = "initr" ->
         {<<Cmd("initr", o, NoOperand)>> :
            o \in IF Is(l, First(l), {"NUM"}) THEN Rvalue(l, First(l), names) ELSE {}}
    [] Action(l) \in OneArgs ->
         {<<Cmd(Action(l), o, NoOperand)>> : o \in Rvalue(l, First(l), names)}
    [] Action(l) = "jmpi" ->
         {<<Cmd("jmp", From(n, o), NoOperand)>> : o \in Rvalue(l, First(l), names)}
    [] Action(l) \in TwoArgs ->
         UNION {{<<Cmd(Action(l), o, p)>> : p \in Rvalue(l, o.at + 1, names)} :
                  o \in Lvalue(l, First(l), names)}
    [] Action(l) \in {"ift", "iff"} ->
         UNION {{<<Cmd(Action(l), o, From(n, p))>> : p \in Rvalue(l, o.at + 1, names)} :
                  o \in Lvalue(l, First(l), names)}
    [] OTHER -> {}

-----------------------------------------------------------------------------
(* declare <name>, <address>, <size>, <values>: the tokens 1 to 4 and on.  *)

Sized(l) == Is(l, 3, {"NUM", "AUTO"})

AutoAddress(l) == Is(l, 2, {"AUTO"})

(* strtoul of the token after the size: 0 unless it is a number; and 0     *)
(* stands for as many as there are tokens.                                 *)
ListSize(l) ==
  IF Is(l, 3, {"NUM"}) /\ Is(l, 4, {"NUM"}) /\ Tok(l, 4).num # 0
  THEN Tok(l, 4).num
  ELSE Len(l) - 4

(* What is moved to the cells of the variable.                             *)
Values(l) ==
  IF Is(l, 4, {"STR"}) THEN Tok(l, 4).text \o <<0>>
  ELSE IF Len(l) = 3 THEN <<>> ELSE [j \in 1 .. ListSize(l) |-> Tok(l, 3 + j).num]

MutSpan(l) ==
  IF Len(l) = 3 THEN 1 ELSE IF Is(l, 4, {"STR"}) THEN Len(Tok(l, 4).text) ELSE ListSize(l)

(* How far an automatic address moves on.                                  *)
Span(l) ==
  IF Len(l) = 3 THEN 1 ELSE IF Is(l, 4, {"STR"}) THEN Len(Tok(l, 4).text) + 1 ELSE ListSize(l)

(* The loop over a list asks for one more token than it has used.          *)
WellDeclared(l) ==
  /\ Is(l, 1, {"NAME"}) /\ Is(l, 2, {"NUM", "AUTO"})
  /\ \/ Len(l) = 3
     \/ Sized(l) /\ Is(l, 4, {"STR"})
     \/ /\ Sized(l) /\ Is(l, 4, {"NUM", "CHAR"})
        /\ ListSize(l) + 4 < Len(l)
        /\ \A j \in 4 .. ListSize(l) + 3 : Is(l, j, {"NUM", "CHAR"})

(* A size that is the last token: the one after it was never written.      *)
SizeUnread(l) ==
  Is(l, 1, {"NAME"}) /\ Is(l, 2, {"NUM", "AUTO"}) /\ Is(l, 3, {"NUM"}) /\ Len(l) = 4

(* The address that is asked for is read from the text of the name: 0.     *)
DeclaredAt(l) == IF AutoAddress(l) THEN avaddr ELSE 0

MutMoves(addr, values) ==
  [j \in 1 .. Len(values) |->
     Cmd("move", [type |-> "ram", arg |-> addr + j], [type |-> "literal", arg |-> values[j]])]

Moves(addr, values) ==
  [j \in 1 .. Len(values) |->
     Cmd("move", [type |-> "ram", arg |-> addr + j - 1], [type |-> "literal", arg |-> values[j]])]

-----------------------------------------------------------------------------
MutTaken(x) == x \in TooLong

(* rbhash_add_unique fails.                                                *)
Taken(x) == x \in DOMAIN declared \cup TooLong

Enter(x, label, addr) ==
  [y \in DOMAIN declared \cup {x} |->
     IF y = x THEN [label |-> label, addr |-> addr] ELSE declared[y]]

Line == code[line + 1]

LabelTaken == Labelled(Line) /\ Taken(Tok(Line, 0).name)

(* parse_label: a label is at the end of the program, wherever it stands.  *)
WithLabel ==
  IF Labelled(Line) /\ ~LabelTaken
  THEN Enter(Tok(Line, 0).name, TRUE, Len(code))
  ELSE declared

Init ==
  /\ code \in Sources
  /\ line = 0 /\ mc = <<>> /\ declared = <<>>
  /\ avaddr = A32_START_ADDR
  /\ ctl = "parse"

Parsing(actions) == ctl = "parse" /\ line < Len(code) /\ Action(Line) \in actions

Accept == line' = line + 1 /\ UNCHANGED <<code, ctl>>

Stop(how) == ctl' = how /\ UNCHANGED <<code, line, mc, declared, avaddr>>

(* The commands of the line, read with these names.                        *)
EmitWith(names) ==
  /\ \E cs \in Commands(Line, names, Len(mc)) : mc' = mc \o cs
  /\ declared' = names
  /\ Accept /\ UNCHANGED avaddr

(* An action without operands does not look at what parse_label returns.   *)
Emit == (LabelTaken => Action(Line) \in NoArgs) /\ EmitWith(WithLabel)

NoArg == Parsing(NoArgs) /\ Emit

Initr == Parsing({"initr"}) /\ Emit

OneArg == Parsing(OneArgs) /\ Emit

Jmpi == Parsing({"jmpi"}) /\ Emit

TwoArg == Parsing(TwoArgs) /\ Emit

Branch == Parsing({"ift", "iff"}) /\ Emit

Declare ==
  /\ Parsing({"declare"}) /\ WellDeclared(Line) /\ ~Taken(Tok(Line, 1).name)
  /\ mc' = mc \o Moves(DeclaredAt(Line), Values(Line))
  /\ declared' = Enter(Tok(Line, 1).name, FALSE, DeclaredAt(Line))
  /\ avaddr' = IF AutoAddress(Line) THEN avaddr + Span(Line) ELSE avaddr
  /\ Accept

(* A token that nobody wrote is read as a number, or - of a declare        *)
(* without operands - as the place of the error, which main then prints.   *)
DeclareUndefined ==
  Parsing({"declare"}) /\ (SizeUnread(Line) \/ Len(Line) = 1) /\ Stop("undef")

(* An operand is missing or unknown, or the name is declared.              *)
DeclareRefused ==
  /\ Parsing({"declare"}) /\ ~SizeUnread(Line)
  /\ WellDeclared(Line) => Taken(Tok(Line, 1).name)
  /\ Stop("error")

(* The commands of the machine, and jmpi, which becomes a jmp.             *)
Operations == NoArgs \cup OneArgs \cup TwoArgs \cup {"initr", "ift", "iff"}

Instructions == Operations \cup {"jmpi"}

NullName ==
  /\ Parsing(TwoArgs \cup {"ift", "iff"}) /\ ~LabelTaken
  /\ NullLvalue(Line, First(Line), WithLabel)
  /\ Stop("undef")

Refused ==
  /\ Parsing(Instructions)
  /\ \/ LabelTaken /\ Action(Line) \notin NoArgs
     \/ /\ Commands(Line, WithLabel, Len(mc)) = {}
        /\ Action(Line) \in OneArgs \cup {"initr", "jmpi"}
             \/ ~NullLvalue(Line, First(Line), WithLabel)
  /\ Stop("error")

Unknown == Parsing(Names \ (Instructions \cup {"declare"})) /\ Stop("error")

(* Without memory for the name or the command of a line the code writes    *)
(* through NULL; and a name whose table cannot grow stays there, as an     *)
(* entry that is freed (undefined from then on, not only when it is read). *)
MemoryUndefined ==
  MallocFails /\ Parsing(Instructions \cup {"declare"}) /\ Stop("undef")

(* Without memory for the element of the table it reports a redeclaration, *)
NameRefused ==
  /\ MallocFails /\ Parsing(Instructions \cup {"declare"})
  /\ Action(Line) = "declare" \/ (Labelled(Line) /\ Action(Line) \notin NoArgs)
  /\ Stop("error")

(* except where it does not look at what parse_label returns: then the     *)
(* build goes on without the label.                                        *)
LabelLost == MallocFails /\ Parsing(NoArgs) /\ Labelled(Line) /\ EmitWith(declared)

Done == ctl = "parse" /\ line = Len(code) /\ Stop("done")

Next ==
  \/ NoArg \/ Initr \/ OneArg \/ Jmpi \/ TwoArg \/ Branch
  \/ Declare \/ DeclareUndefined \/ DeclareRefused
  \/ NullName \/ Refused \/ Unknown
  \/ MemoryUndefined \/ NameRefused \/ LabelLost \/ Done

Spec == Init /\ [][Next]_vars

-----------------------------------------------------------------------------
Entry == [label : BOOLEAN, addr : Int]

(* The parser is at a command of its input, and every name it knows has an *)
(* entry and fits the table.                                               *)
TypeOK ==
  /\ code \in Seq(Seq(Token) \ {<<>>}) /\ line \in 0 .. Len(code)
  /\ mc \in Seq([cmd : Operations, t0 : {"literal", "ram", "ptr", "data"}, a0 : Int,
                 t1 : {"literal", "ram", "ptr", "data"}, a1 : Int])
  /\ DOMAIN declared \subseteq Names \ TooLong /\ \A x \in DOMAIN declared : declared[x] \in Entry
  /\ avaddr \in Int
  /\ ctl \in {"parse", "done", "error", "undef"}

(* What a line of the source stands for when all names are known.          *)
Reading(l, names, n) ==
  IF Action(l) = "declare"
  THEN {Moves(names[Tok(l, 1).name].addr, Values(l))}
  ELSE Commands(l, names, n)

(* How many commands the first k lines of the source stand for.            *)
Before(k) ==
  LET size[j \in 0 .. k] ==
        IF j = 0 THEN 0
        ELSE size[j - 1] + (IF Action(code[j]) = "declare" THEN Len(Values(code[j])) ELSE 1)
  IN  size[k]

(* The compiler is one pass over the source and loses nothing by it: read  *)
(* again with the names of the whole program, every line stands for the    *)
(* same commands, at the place that the lines before it give them. So no   *)
(* later line changes what a name in an earlier one means, and an address  *)
(* relative to a command stays right.                                      *)
OnePassSuffices ==
  ctl \in {"parse", "done"} =>
    /\ Len(mc) = Before(line)
    /\ \A k \in 1 .. line :
         SubSeq(mc, Before(k - 1) + 1, Before(k)) \in Reading(code[k], declared, Before(k - 1))

(* The cells a declaration with an automatic address is given.             *)
Cells(l) ==
  LET a == declared[Tok(l, 1).name].addr
  IN  a .. a + (IF Len(l) = 3 THEN 1 ELSE Len(Values(l))) - 1

Automatic == {k \in 1 .. line : Action(code[k]) = "declare" /\ AutoAddress(code[k])}

(* Variables with automatic addresses share no cell, whatever they are     *)
(* initialised with, and none of them lies on a register - provided that   *)
(* no list starts with a negative number, which the code takes for a size. *)
AutoApart ==
  ctl = "parse" /\ (\A k \in Automatic : Span(code[k]) >= 0) =>
    /\ \A k \in Automatic : Cells(code[k]) \subseteq A32_START_ADDR .. avaddr - 1
    /\ \A j, k \in Automatic : j # k => Cells(code[j]) \cap Cells(code[k]) = {}

(* README.md: declare creates a "symbol <NAME> with address ADDR".         *)
DeclaredWhereAsked ==
  [][Declare /\ Is(Line, 2, {"NUM"})
       => declared'[Tok(Line, 1).name].addr = Tok(Line, 2).num]_vars
=============================================================================
