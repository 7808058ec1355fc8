--------------------------- MODULE Assembler_proofs ---------------------------
(* The second pass of the compiler is well typed, gives variables with     *)
(* automatic addresses cells of their own, and needs no third, for every   *)
(* source it is given.                                                     *)
EXTENDS Assembler, SequenceTheorems, WellFoundedInduction, TLAPS

MachineCommand ==
  [cmd : Operations, t0 : {"literal", "ram", "ptr", "data"}, a0 : Int,
   t1 : {"literal", "ram", "ptr", "data"}, a1 : Int]

(* A table of names that a32_parse may hold. *)
Table(names) == \A x \in DOMAIN names : names[x] \in Entry

(* What parse_rvalue returns. *)
Found(o) == o.type \in {"literal", "ram", "ptr", "data"} /\ o.arg \in Int /\ o.at \in Nat

-----------------------------------------------------------------------------
LEMMA TokenTyped ==
  ASSUME NEW l \in Seq(Token), NEW j \in Nat, j < Len(l)
  PROVE  /\ Tok(l, j) \in Token
         /\ Tok(l, j).num \in Int /\ Tok(l, j).name \in Names /\ Tok(l, j).text \in Seq(Int)
<1>1. j + 1 \in 1 .. Len(l)
  OBVIOUS
<1>2. l[j + 1] \in Token
  BY <1>1, ElementOfSeq
<1> QED
  BY <1>2 DEF Tok, Token

LEMMA MeaningTyped ==
  ASSUME NEW l \in Seq(Token), NEW v \in Nat, NEW names, Table(names), Known(l, v, names)
  PROVE  Meaning(l, v, names) \in Int
<1>1. CASE Is(l, v, {"NUM"})
  BY <1>1, TokenTyped DEF Is, Meaning
<1>2. CASE Is(l, v, {"NAME"}) /\ Tok(l, v).name \in DOMAIN names
  BY <1>2 DEF Is, Meaning, Table, Entry
<1> QED
  BY <1>1, <1>2 DEF Known

LEMMA RvalueTyped ==
  ASSUME NEW l \in Seq(Token), NEW ic \in Nat, NEW names, Table(names),
         NEW o \in Rvalue(l, ic, names)
  PROVE  Found(o)
<1>1. PICK v \in {ic, ic + 1} :
        /\ Known(l, v, names) /\ o.arg = Meaning(l, v, names) /\ o.at = v
        /\ \/ o.type = "literal"
           \/ Is(l, ic, DOMAIN OperandTypes) /\ o.type = OperandTypes[Tok(l, ic).type]
  BY DEF Rvalue
<1>2. o.arg \in Int
  <2>1. v \in Nat
    OBVIOUS
  <2> QED
    BY <1>1, <2>1, MeaningTyped
<1>3. \A t \in DOMAIN OperandTypes : OperandTypes[t] \in {"literal", "ram", "ptr", "data"}
  BY DEF OperandTypes
<1>4. o.type \in {"literal", "ram", "ptr", "data"}
  BY <1>1, <1>3 DEF Is
<1> QED
  BY <1>1, <1>2, <1>4 DEF Found

LEMMA LvalueTyped ==
  ASSUME NEW l \in Seq(Token), NEW ic \in Nat, NEW names, Table(names),
         NEW o \in Lvalue(l, ic, names)
  PROVE  Found(o)
BY RvalueTyped DEF Lvalue

LEMMA CommandTyped ==
  ASSUME NEW c \in Operations, NEW o, NEW p,
         o.type \in {"literal", "ram", "ptr", "data"}, o.arg \in Int,
         p.type \in {"literal", "ram", "ptr", "data"}, p.arg \in Int
  PROVE  <<Cmd(c, o, p)>> \in Seq(MachineCommand)
BY DEF Cmd, MachineCommand

LEMMA FromTyped ==
  ASSUME NEW n \in Nat, NEW l \in Seq(Token), NEW ic \in Nat, NEW names, Table(names),
         NEW o \in Rvalue(l, ic, names)
  PROVE  From(n, o).type \in {"literal", "ram", "ptr", "data"} /\ From(n, o).arg \in Int
<1>1. Found(o)
  BY RvalueTyped
<1>2. o.arg \in Int /\ "arg" \in DOMAIN o /\ "type" \in DOMAIN o
  BY <1>1 DEF Found, Rvalue
<1> QED
  BY <1>1, <1>2 DEF From, Found

LEMMA CommandsTyped ==
  ASSUME NEW l \in Seq(Token), NEW n \in Nat, NEW names, Table(names),
         NEW cs \in Commands(l, names, n)
  PROVE  cs \in Seq(MachineCommand)
<1> DEFINE first == First(l)
<1>1. first \in Nat
  BY DEF First
<1>2. \A o : Found(o) => o.at + 1 \in Nat
  BY DEF Found
<1>3. NoOperand.type \in {"literal", "ram", "ptr", "data"} /\ NoOperand.arg \in Int
  BY DEF NoOperand
<1> HIDE DEF first
<1>4. CASE Action(l) \in NoArgs
  <2>1. cs = <<Cmd(Action(l), NoOperand, NoOperand)>>
    BY <1>4 DEF Commands, NoArgs, OneArgs, TwoArgs
  <2> QED
    BY <1>3, <1>4, <2>1, CommandTyped DEF Operations
<1>5. CASE Action(l) = "initr"
  <2>1. PICK o \in Rvalue(l, first, names) : cs = <<Cmd("initr", o, NoOperand)>>
    BY <1>5 DEF Commands, NoArgs, OneArgs, TwoArgs, first
  <2>2. "initr" \in Operations
    BY DEF Operations
  <2>3. Found(o)
    BY <1>1, RvalueTyped
  <2> QED
    BY <1>3, <2>1, <2>2, <2>3, CommandTyped DEF Found
<1>6. CASE Action(l) \in OneArgs
  <2>1. PICK o \in Rvalue(l, first, names) : cs = <<Cmd(Action(l), o, NoOperand)>>
    BY <1>6 DEF Commands, NoArgs, OneArgs, TwoArgs, first
  <2> QED
    BY <1>1, <1>3, <1>6, <2>1, RvalueTyped, CommandTyped DEF Operations, Found
<1>7. CASE Action(l) = "jmpi"
  <2>1. PICK o \in Rvalue(l, first, names) : cs = <<Cmd("jmp", From(n, o), NoOperand)>>
    BY <1>7 DEF Commands, NoArgs, OneArgs, TwoArgs, first
  <2>2. "jmp" \in Operations
    BY DEF Operations, OneArgs
  <2> QED
    BY <1>1, <1>3, <2>1, <2>2, FromTyped, CommandTyped
<1>8. CASE Action(l) \in TwoArgs
  <2>1. PICK o \in Lvalue(l, first, names) :
          \E p \in Rvalue(l, o.at + 1, names) : cs = <<Cmd(Action(l), o, p)>>
    BY <1>8 DEF Commands, NoArgs, OneArgs, TwoArgs, first
  <2>2. PICK p \in Rvalue(l, o.at + 1, names) : cs = <<Cmd(Action(l), o, p)>>
    BY <2>1
  <2>3. Found(o) /\ o.at + 1 \in Nat
    BY <1>1, <1>2, LvalueTyped
  <2>4. Found(p)
    BY <2>3, RvalueTyped
  <2> QED
    BY <1>8, <2>2, <2>3, <2>4, CommandTyped DEF Operations, Found
<1>9. CASE Action(l) \in {"ift", "iff"}
  <2>1. PICK o \in Lvalue(l, first, names) :
          \E p \in Rvalue(l, o.at + 1, names) : cs = <<Cmd(Action(l), o, From(n, p))>>
    BY <1>9 DEF Commands, NoArgs, OneArgs, TwoArgs, first
  <2>2. PICK p \in Rvalue(l, o.at + 1, names) : cs = <<Cmd(Action(l), o, From(n, p))>>
    BY <2>1
  <2>3. Found(o) /\ o.at + 1 \in Nat
    BY <1>1, <1>2, LvalueTyped
  <2>4. From(n, p).type \in {"literal", "ram", "ptr", "data"} /\ From(n, p).arg \in Int
    BY <2>3, FromTyped
  <2>5. Action(l) \in Operations
    BY <1>9 DEF Operations
  <2> QED
    BY <2>2, <2>3, <2>4, <2>5, CommandTyped DEF Found
<1> QED
  BY <1>4, <1>5, <1>6, <1>7, <1>8, <1>9 DEF Commands

LEMMA FunctionIsSeq ==
  ASSUME NEW S, NEW n \in Nat, NEW f \in [1 .. n -> S]
  PROVE  f \in Seq(S) /\ Len(f) = n
OBVIOUS

(* The tokens of a list that a declaration goes through are there. *)
LEMMA ListTyped ==
  ASSUME NEW l \in Seq(Token), WellDeclared(l), Len(l) # 3, ~Is(l, 4, {"STR"})
  PROVE  /\ Is(l, 4, {"NUM", "CHAR"}) /\ ListSize(l) \in Int /\ ListSize(l) + 4 < Len(l)
         /\ Values(l) \in Seq(Int)
         /\ Len(Values(l)) = IF ListSize(l) >= 0 THEN ListSize(l) ELSE 0
<1>1. Is(l, 4, {"NUM", "CHAR"}) /\ ListSize(l) + 4 < Len(l)
  BY DEF WellDeclared, Is
<1>2. Len(l) \in Nat
  OBVIOUS
<1>3. ListSize(l) \in Int
  BY <1>2, TokenTyped DEF ListSize, Is
<1> DEFINE n == IF ListSize(l) >= 0 THEN ListSize(l) ELSE 0
<1>4. n \in Nat /\ 1 .. ListSize(l) = 1 .. n
  BY <1>3
<1>5. Values(l) = [j \in 1 .. n |-> Tok(l, 3 + j).num]
  BY <1>4 DEF Values, Is
<1>6. \A j \in 1 .. n : Tok(l, 3 + j).num \in Int
  BY <1>1, <1>2, <1>3, TokenTyped
<1>7. Values(l) \in [1 .. n -> Int]
  BY <1>5, <1>6
<1> QED
  BY <1>1, <1>3, <1>4, <1>7, FunctionIsSeq

(* What a declaration moves to its cells are numbers, and an automatic     *)
(* address moves on by at least as many cells as they take.                *)
LEMMA ValuesTyped ==
  ASSUME NEW l \in Seq(Token), WellDeclared(l)
  PROVE  /\ Values(l) \in Seq(Int) /\ Span(l) \in Int
         /\ Span(l) >= 0 => (IF Len(l) = 3 THEN 1 ELSE Len(Values(l))) = Span(l)
<1>1. CASE Len(l) = 3
  <2>1. ~Is(l, 4, {"STR"})
    BY <1>1 DEF Is
  <2> QED
    BY <1>1, <2>1 DEF Values, Span
<1>2. CASE Len(l) # 3 /\ Is(l, 4, {"STR"})
  <2>1. Tok(l, 4).text \in Seq(Int)
    BY <1>2, TokenTyped DEF Is
  <2>2. Values(l) = Tok(l, 4).text \o <<0>> /\ Span(l) = Len(Tok(l, 4).text) + 1
    BY <1>2 DEF Values, Span
  <2>3. <<0>> \in Seq(Int) /\ Len(<<0>>) = 1
    OBVIOUS
  <2>4. Values(l) \in Seq(Int) /\ Len(Values(l)) = Len(Tok(l, 4).text) + 1
    BY <2>1, <2>2, <2>3, ConcatProperties
  <2> QED
    BY <1>2, <2>1, <2>2, <2>4
<1>3. CASE Len(l) # 3 /\ ~Is(l, 4, {"STR"})
  <2>1. Span(l) = ListSize(l)
    BY <1>3 DEF Span
  <2> QED
    BY <1>3, <2>1, ListTyped
<1> QED
  BY <1>1, <1>2, <1>3

LEMMA MovesTyped ==
  ASSUME NEW addr \in Int, NEW values \in Seq(Int)
  PROVE  Moves(addr, values) \in Seq(MachineCommand)
<1> DEFINE move(j) == Cmd("move", [type |-> "ram", arg |-> addr + j - 1],
                                  [type |-> "literal", arg |-> values[j]])
<1>1. Len(values) \in Nat
  OBVIOUS
<1>2. "move" \in Operations
  BY DEF Operations, TwoArgs
<1>3. \A j \in 1 .. Len(values) : move(j) \in MachineCommand
  BY <1>1, <1>2 DEF Cmd, MachineCommand
<1>4. Moves(addr, values) = [j \in 1 .. Len(values) |-> move(j)]
  BY DEF Moves
<1> HIDE DEF move
<1>5. Moves(addr, values) \in [1 .. Len(values) -> MachineCommand]
  BY <1>3, <1>4
<1> QED
  BY <1>1, <1>5, FunctionIsSeq

-----------------------------------------------------------------------------
LEMMA LineTyped ==
  ASSUME TypeOK, line < Len(code)
  PROVE  /\ line + 1 \in 1 .. Len(code) /\ Line \in Seq(Token) /\ Line # <<>>
         /\ Tok(Line, 0) \in Token /\ Tok(Line, 0).name \in Names
<1>1. line + 1 \in 1 .. Len(code) /\ code \in Seq(Seq(Token) \ {<<>>})
  BY DEF TypeOK
<1>2. Line \in Seq(Token) \ {<<>>}
  BY <1>1, ElementOfSeq DEF Line
<1>3. 0 < Len(Line)
  BY <1>2, EmptySeq
<1> QED
  BY <1>1, <1>2, <1>3, TokenTyped

(* A name that is free can be entered, and the others keep their meaning.  *)
LEMMA Entered ==
  ASSUME TypeOK, NEW x \in Names, ~Taken(x), NEW label \in BOOLEAN, NEW addr \in Int
  PROVE  /\ DOMAIN Enter(x, label, addr) = DOMAIN declared \cup {x}
         /\ DOMAIN Enter(x, label, addr) \subseteq Names \ TooLong
         /\ Table(Enter(x, label, addr))
         /\ Enter(x, label, addr)[x].addr = addr
         /\ \A y \in DOMAIN declared : Enter(x, label, addr)[y] = declared[y]
<1>1. DOMAIN declared \subseteq Names \ TooLong /\ \A y \in DOMAIN declared : declared[y] \in Entry
  BY DEF TypeOK
<1>2. x \notin DOMAIN declared /\ x \notin TooLong
  BY DEF Taken
<1>3. [label |-> label, addr |-> addr] \in Entry
  BY DEF Entry
<1> QED
  BY <1>1, <1>2, <1>3 DEF Enter, Table

LEMMA Labelling ==
  ASSUME TypeOK, line < Len(code)
  PROVE  /\ DOMAIN WithLabel \subseteq Names \ TooLong /\ Table(WithLabel)
         /\ DOMAIN declared \subseteq DOMAIN WithLabel
         /\ \A y \in DOMAIN declared : WithLabel[y] = declared[y]
<1>1. CASE Labelled(Line) /\ ~LabelTaken
  <2>1. ~Taken(Tok(Line, 0).name) /\ Tok(Line, 0).name \in Names /\ Len(code) \in Int
    BY <1>1, LineTyped DEF LabelTaken, TypeOK
  <2>2. WithLabel = Enter(Tok(Line, 0).name, TRUE, Len(code))
    BY <1>1 DEF WithLabel
  <2> DEFINE x == Tok(Line, 0).name
             all == Enter(x, TRUE, Len(code))
  <2>3. TRUE \in BOOLEAN
    OBVIOUS
  <2> HIDE DEF x
  <2>4. x \in Names /\ ~Taken(x) /\ Len(code) \in Int
    BY <2>1 DEF x
  <2>5. /\ DOMAIN all = DOMAIN declared \cup {x} /\ DOMAIN all \subseteq Names \ TooLong
        /\ Table(all) /\ \A y \in DOMAIN declared : all[y] = declared[y]
    BY <2>3, <2>4, Entered
  <2>6. WithLabel = all
    BY <2>2 DEF x
  <2> QED
    BY <2>5, <2>6
<1>2. CASE ~(Labelled(Line) /\ ~LabelTaken)
  BY <1>2 DEF WithLabel, TypeOK, Table
<1> QED
  BY <1>1, <1>2

(* With or without the label of its line.                                  *)
LEMMA NamesTyped ==
  ASSUME TypeOK, line < Len(code), NEW names \in {WithLabel, declared}
  PROVE  /\ DOMAIN names \subseteq Names \ TooLong /\ Table(names)
         /\ DOMAIN declared \subseteq DOMAIN names
         /\ \A y \in DOMAIN declared : names[y] = declared[y]
<1>1. CASE names = WithLabel
  BY <1>1, Labelling
<1>2. CASE names = declared
  BY <1>2 DEF TypeOK, Table
<1> QED
  BY <1>1, <1>2

LEMMA EmitTyped ==
  ASSUME TypeOK, line < Len(code), NEW names \in {WithLabel, declared}, EmitWith(names),
         ctl = "parse"
  PROVE  TypeOK'
<1>1. PICK cs \in Commands(Line, names, Len(mc)) : mc' = mc \o cs
  BY DEF EmitWith
<1>2. mc \in Seq(MachineCommand)
  BY DEF TypeOK, MachineCommand
<1>3. Len(mc) \in Nat
  BY <1>2
<1>4. cs \in Seq(MachineCommand)
  BY <1>3, LineTyped, NamesTyped, CommandsTyped
<1>5. mc' \in Seq(MachineCommand)
  BY <1>1, <1>2, <1>4, ConcatProperties
<1>6. DOMAIN declared' \subseteq Names \ TooLong /\ \A x \in DOMAIN declared' : declared'[x] \in Entry
  BY NamesTyped DEF EmitWith, Table
<1>7. line' \in 0 .. Len(code')
  BY LineTyped DEF EmitWith, Accept, TypeOK
<1> QED
  BY <1>5, <1>6, <1>7 DEF EmitWith, Accept, TypeOK, MachineCommand

LEMMA DeclareTyped ==
  ASSUME TypeOK, Declare
  PROVE  TypeOK'
<1>1. line < Len(code) /\ WellDeclared(Line) /\ ~Taken(Tok(Line, 1).name)
  BY DEF Declare, Parsing
<1>2. Line \in Seq(Token) /\ Tok(Line, 1).name \in Names
  BY <1>1, LineTyped, TokenTyped DEF WellDeclared, Is
<1>3. DeclaredAt(Line) \in Int
  BY DEF DeclaredAt, TypeOK
<1>4. Values(Line) \in Seq(Int) /\ Span(Line) \in Int
  BY <1>1, <1>2, ValuesTyped
<1>5. mc' \in Seq(MachineCommand)
  <2>1. Moves(DeclaredAt(Line), Values(Line)) \in Seq(MachineCommand)
    BY <1>3, <1>4, MovesTyped
  <2>2. mc \in Seq(MachineCommand)
    BY DEF TypeOK, MachineCommand
  <2> QED
    BY <2>1, <2>2, ConcatProperties DEF Declare
<1>6. DOMAIN declared' \subseteq Names \ TooLong /\ \A x \in DOMAIN declared' : declared'[x] \in Entry
  BY <1>1, <1>2, <1>3, Entered DEF Declare, Table
<1>7. avaddr' \in Int
  BY <1>4 DEF Declare, TypeOK
<1>8. line' \in 0 .. Len(code')
  BY <1>1, LineTyped DEF Declare, Accept, TypeOK
<1> QED
  BY <1>5, <1>6, <1>7, <1>8 DEF Declare, Accept, TypeOK, MachineCommand

LEMMA TypeKept ==
  ASSUME TypeOK, [Next]_vars
  PROVE  TypeOK'
<1>1. ASSUME NEW actions, Parsing(actions), Emit PROVE TypeOK'
  BY <1>1, EmitTyped DEF Parsing, Emit
<1>2. CASE NoArg
  BY <1>1, <1>2 DEF NoArg
<1>3. CASE Initr
  BY <1>1, <1>3 DEF Initr
<1>4. CASE OneArg
  BY <1>1, <1>4 DEF OneArg
<1>5. CASE Jmpi
  BY <1>1, <1>5 DEF Jmpi
<1>6. CASE TwoArg
  BY <1>1, <1>6 DEF TwoArg
<1>7. CASE Branch
  BY <1>1, <1>7 DEF Branch
<1>8. CASE Declare
  BY <1>8, DeclareTyped
<1>9. ASSUME NEW how \in {"undef", "error", "done"}, Stop(how) PROVE TypeOK'
  BY <1>9 DEF Stop, TypeOK
<1>10. CASE DeclareUndefined \/ DeclareRefused \/ NullName
  BY <1>9, <1>10 DEF DeclareUndefined, DeclareRefused, NullName
<1>11. CASE Refused \/ Unknown
  BY <1>9, <1>11 DEF Refused, Unknown
<1>12. CASE MemoryUndefined \/ NameRefused \/ Done
  BY <1>9, <1>12 DEF MemoryUndefined, NameRefused, Done
<1>13. CASE LabelLost
  BY <1>13, EmitTyped DEF LabelLost, Parsing
<1>14. CASE UNCHANGED vars
  BY <1>14 DEF vars, TypeOK
<1> QED
  BY <1>2, <1>3, <1>4, <1>5, <1>6, <1>7, <1>8, <1>10, <1>11, <1>12, <1>13, <1>14 DEF Next

(* The table of names, the commands and the place in the source stay what  *)
(* the parser takes them for, at every line of every source.               *)
THEOREM TypeCorrect == Spec => []TypeOK
<1>1. Init => TypeOK
  BY SourceAssumption DEF Init, TypeOK
<1>2. TypeOK /\ [Next]_vars => TypeOK'
  BY TypeKept
<1> QED
  BY <1>1, <1>2, PTL DEF Spec

-----------------------------------------------------------------------------
(* AutoApart is not inductive: it needs that a variable keeps the name and *)
(* the shape it was declared with, and that cells are given out upwards.   *)

CellsIn(names, l) ==
  LET a == names[Tok(l, 1).name].addr
  IN  a .. a + (IF Len(l) = 3 THEN 1 ELSE Len(Values(l))) - 1

Apart(names, next, autos) ==
  /\ next >= A32_START_ADDR
  /\ \A k \in autos : CellsIn(names, code[k]) \subseteq A32_START_ADDR .. next - 1
  /\ \A j, k \in autos : j # k => CellsIn(names, code[j]) \cap CellsIn(names, code[k]) = {}

AutoInv ==
  /\ \A k \in Automatic : WellDeclared(code[k]) /\ Tok(code[k], 1).name \in DOMAIN declared
  /\ (\A k \in Automatic : Span(code[k]) >= 0) => Apart(declared, avaddr, Automatic)

LEMMA AutosPassed ==
  ASSUME TypeOK, line < Len(code), Accept
  PROVE  /\ \A k \in Automatic : k \in 1 .. Len(code) /\ k # line + 1
         /\ code' = code
         /\ Automatic' = IF Action(Line) = "declare" /\ AutoAddress(Line)
                         THEN Automatic \cup {line + 1} ELSE Automatic
<1>1. line \in Nat /\ Len(code) \in Nat /\ line + 1 \in 1 .. Len(code)
  BY LineTyped DEF TypeOK
<1>2. 1 .. line' = (1 .. line) \cup {line + 1} /\ code' = code
  BY <1>1 DEF Accept
<1>3. Automatic' = {k \in (1 .. line) \cup {line + 1} :
                      Action(code[k]) = "declare" /\ AutoAddress(code[k])}
  BY <1>2 DEF Automatic
<1> QED
  BY <1>1, <1>2, <1>3 DEF Automatic, Line

(* Names entered in the table move no variable that has its cells.         *)
LEMMA ApartKept ==
  ASSUME NEW names, NEW more, NEW next, NEW autos, Apart(names, next, autos),
         \A k \in autos : more[Tok(code[k], 1).name] = names[Tok(code[k], 1).name]
  PROVE  Apart(more, next, autos)
<1>1. \A k \in autos : CellsIn(more, code[k]) = CellsIn(names, code[k])
  BY DEF CellsIn
<1> QED
  BY <1>1 DEF Apart

(* A variable whose cells begin where the others end.                      *)
LEMMA ApartGrows ==
  ASSUME NEW names, NEW next \in Int, NEW autos, NEW new, new \notin autos,
         NEW span \in Nat, Apart(names, next, autos),
         CellsIn(names, code[new]) = next .. next + span - 1
  PROVE  Apart(names, next + span, autos \cup {new})
<1>1. A32_START_ADDR \in Int /\ next >= A32_START_ADDR /\ next + span >= A32_START_ADDR
  BY SourceAssumption DEF Apart
<1>2. \A k \in autos : CellsIn(names, code[k]) \subseteq A32_START_ADDR .. next - 1
  BY DEF Apart
<1>3. CellsIn(names, code[new]) \subseteq A32_START_ADDR .. (next + span) - 1
  BY <1>1
<1>4. \A k \in autos : CellsIn(names, code[k]) \subseteq A32_START_ADDR .. (next + span) - 1
  BY <1>1, <1>2
<1>5. \A k \in autos : CellsIn(names, code[k]) \cap CellsIn(names, code[new]) = {}
  BY <1>1, <1>2
<1> QED
  BY <1>1, <1>3, <1>4, <1>5 DEF Apart

LEMMA EmitApart ==
  ASSUME TypeOK, AutoInv, line < Len(code), NEW names \in {WithLabel, declared},
         EmitWith(names), Action(Line) # "declare"
  PROVE  AutoInv'
<1>1. Automatic' = Automatic /\ code' = code /\ avaddr' = avaddr /\ declared' = names
  BY AutosPassed DEF EmitWith
<1>2. /\ DOMAIN declared \subseteq DOMAIN declared'
      /\ \A y \in DOMAIN declared : declared'[y] = declared[y]
  BY <1>1, NamesTyped
<1>3. \A k \in Automatic : /\ WellDeclared(code[k])
                           /\ Tok(code[k], 1).name \in DOMAIN declared'
                           /\ declared'[Tok(code[k], 1).name] = declared[Tok(code[k], 1).name]
  BY <1>2 DEF AutoInv
<1>4. ASSUME \A k \in Automatic : Span(code[k]) >= 0
      PROVE  Apart(declared', avaddr, Automatic)
  BY <1>3, <1>4, ApartKept DEF AutoInv
<1>5. Apart(declared, avaddr, Automatic)' <=> Apart(declared', avaddr, Automatic)
  BY <1>1 DEF Apart
<1> QED
  BY <1>1, <1>3, <1>4, <1>5 DEF AutoInv

(* A declaration enters its name, and no other.                            *)
LEMMA DeclareEnters ==
  ASSUME TypeOK, Declare
  PROVE  /\ DOMAIN declared' = DOMAIN declared \cup {Tok(Line, 1).name}
         /\ declared'[Tok(Line, 1).name].addr = DeclaredAt(Line)
         /\ \A y \in DOMAIN declared : declared'[y] = declared[y]
<1> DEFINE x == Tok(Line, 1).name
           all == Enter(x, FALSE, DeclaredAt(Line))
<1>1. line < Len(code) /\ WellDeclared(Line) /\ ~Taken(x) /\ declared' = all
  BY DEF Declare, Parsing
<1>2. Line \in Seq(Token) /\ x \in Names
  BY <1>1, LineTyped, TokenTyped DEF WellDeclared, Is
<1>3. DeclaredAt(Line) \in Int /\ FALSE \in BOOLEAN
  BY DEF DeclaredAt, TypeOK
<1> HIDE DEF x
<1>4. /\ DOMAIN all = DOMAIN declared \cup {x} /\ all[x].addr = DeclaredAt(Line)
      /\ \A y \in DOMAIN declared : all[y] = declared[y]
  BY <1>1, <1>2, <1>3, Entered
<1> HIDE DEF all
<1> QED
  BY <1>1, <1>4 DEF x

LEMMA DeclareApart ==
  ASSUME TypeOK, AutoInv, Declare
  PROVE  AutoInv'
<1> DEFINE x == Tok(Line, 1).name
           k0 == line + 1
<1>1. /\ line < Len(code) /\ Action(Line) = "declare" /\ WellDeclared(Line) /\ ~Taken(x)
      /\ Accept /\ Line = code[k0]
  BY DEF Declare, Parsing, Line
<1>2. Line \in Seq(Token) /\ x \in Names
  BY <1>1, LineTyped, TokenTyped DEF WellDeclared, Is
<1>3. DeclaredAt(Line) \in Int /\ Span(Line) \in Int /\ FALSE \in BOOLEAN
  BY <1>1, <1>2, ValuesTyped DEF DeclaredAt, TypeOK
<1>4. /\ code' = code /\ k0 \notin Automatic
      /\ Automatic' = IF AutoAddress(Line) THEN Automatic \cup {k0} ELSE Automatic
  BY <1>1, AutosPassed
<1>5. /\ DOMAIN declared' = DOMAIN declared \cup {x}
      /\ declared'[x].addr = DeclaredAt(Line)
      /\ \A y \in DOMAIN declared : declared'[y] = declared[y]
  BY DeclareEnters
<1>6. \A k \in Automatic : /\ WellDeclared(code[k])
                           /\ Tok(code[k], 1).name \in DOMAIN declared'
                           /\ declared'[Tok(code[k], 1).name] = declared[Tok(code[k], 1).name]
  BY <1>5 DEF AutoInv
<1>7. \A k \in Automatic' : WellDeclared(code'[k]) /\ Tok(code'[k], 1).name \in DOMAIN declared'
  BY <1>1, <1>4, <1>5, <1>6
<1>8. ASSUME \A k \in Automatic' : Span(code'[k]) >= 0
      PROVE  Apart(declared', avaddr', Automatic')
  <2>1. Apart(declared', avaddr, Automatic)
    BY <1>4, <1>6, <1>8, ApartKept DEF AutoInv
  <2>2. CASE ~AutoAddress(Line)
    BY <1>4, <2>1, <2>2 DEF Declare
  <2>3. CASE AutoAddress(Line)
    <3>1. Span(Line) >= 0 /\ avaddr' = avaddr + Span(Line)
      BY <1>1, <1>4, <1>8, <2>3 DEF Declare
    <3>2. CellsIn(declared', code[k0]) = avaddr .. avaddr + Span(Line) - 1
      BY <1>1, <1>2, <1>5, <2>3, <3>1, ValuesTyped DEF CellsIn, DeclaredAt
    <3>3. avaddr \in Int /\ Span(Line) \in Nat
      BY <1>3, <3>1 DEF TypeOK
    <3> QED
      BY <1>4, <2>1, <2>3, <3>1, <3>2, <3>3, ApartGrows
  <2> QED
    BY <2>2, <2>3
<1>9. Apart(declared', avaddr', Automatic') => Apart(declared, avaddr, Automatic)'
  BY <1>4 DEF Apart
<1> QED
  BY <1>7, <1>8, <1>9 DEF AutoInv

LEMMA AutoKept ==
  ASSUME TypeOK, AutoInv, [Next]_vars
  PROVE  AutoInv'
<1>1. "declare" \notin Instructions
  BY DEF Instructions, Operations, NoArgs, OneArgs, TwoArgs
<1>2. ASSUME NEW actions, actions \subseteq Instructions, Parsing(actions), Emit PROVE AutoInv'
  BY <1>1, <1>2, EmitApart DEF Parsing, Emit
<1>3. CASE NoArg \/ Initr \/ OneArg
  BY <1>2, <1>3 DEF NoArg, Initr, OneArg, Instructions, Operations
<1>4. CASE Jmpi \/ TwoArg \/ Branch
  BY <1>2, <1>4 DEF Jmpi, TwoArg, Branch, Instructions, Operations
<1>5. CASE Declare
  BY <1>5, DeclareApart
<1>6. ASSUME UNCHANGED <<code, line, mc, declared, avaddr>> PROVE AutoInv'
  BY <1>6 DEF AutoInv, Apart, Automatic
<1>7. CASE DeclareUndefined \/ DeclareRefused \/ NullName \/ Refused \/ Unknown
  BY <1>6, <1>7 DEF DeclareUndefined, DeclareRefused, NullName, Refused, Unknown, Stop
<1>8. CASE MemoryUndefined \/ NameRefused \/ Done \/ UNCHANGED vars
  BY <1>6, <1>8 DEF MemoryUndefined, NameRefused, Done, Stop, vars
<1>9. CASE LabelLost
  BY <1>1, <1>9, EmitApart DEF LabelLost, Parsing, Instructions, Operations
<1> QED
  BY <1>3, <1>4, <1>5, <1>7, <1>8, <1>9 DEF Next

LEMMA AutoSuffices == AutoInv => AutoApart
BY DEF AutoInv, Apart, AutoApart, CellsIn, Cells

(* Variables with automatic addresses share no cell and lie on no          *)
(* register, in every program the parser accepts.                          *)
THEOREM VariablesApart == Spec => []AutoApart
<1>1. Init => AutoInv
  BY SourceAssumption DEF Init, AutoInv, Apart, Automatic
<1>2. TypeOK /\ AutoInv /\ [Next]_vars => AutoInv'
  BY AutoKept
<1> QED
  BY <1>1, <1>2, AutoSuffices, TypeCorrect, PTL DEF Spec
-----------------------------------------------------------------------------
(* A declaration that was accepted is well formed, its name stays known,   *)
(* and without an automatic address it is at 0.                            *)
DeclaredWell(l, names) ==
  Action(l) = "declare" =>
    /\ WellDeclared(l) /\ Tok(l, 1).name \in DOMAIN names
    /\ ~AutoAddress(l) => names[Tok(l, 1).name].addr = 0

DeclaredInv == \A k \in 1 .. line : DeclaredWell(code[k], declared)

LEMMA DeclaredGrows ==
  ASSUME TypeOK, DeclaredInv, line < Len(code), Accept, DOMAIN declared \subseteq DOMAIN declared',
         \A y \in DOMAIN declared : declared'[y] = declared[y], DeclaredWell(Line, declared')
  PROVE  DeclaredInv'
<1>1. line \in Nat /\ line' = line + 1 /\ code' = code /\ Line = code[line + 1]
  BY DEF Accept, TypeOK, Line
<1>2. \A k \in 1 .. line + 1 : k \in 1 .. line \/ k = line + 1
  BY <1>1
<1>3. \A k \in 1 .. line : DeclaredWell(code[k], declared')
  BY DEF DeclaredInv, DeclaredWell
<1>4. \A k \in 1 .. line + 1 : DeclaredWell(code[k], declared')
  BY <1>1, <1>2, <1>3
<1> QED
  BY <1>1, <1>4 DEF DeclaredInv, DeclaredWell

LEMMA DeclaredKept ==
  ASSUME TypeOK, DeclaredInv, [Next]_vars
  PROVE  DeclaredInv'
<1>1. "declare" \notin Instructions
  BY DEF Instructions, Operations, NoArgs, OneArgs, TwoArgs
<1>2. ASSUME NEW actions, actions \subseteq Instructions, Parsing(actions), Emit PROVE DeclaredInv'
  <2>1. declared' = WithLabel /\ Accept /\ line < Len(code) /\ Action(Line) # "declare"
    BY <1>1, <1>2 DEF Emit, EmitWith, Parsing
  <2> QED
    BY <2>1, Labelling, DeclaredGrows DEF DeclaredWell
<1>3. CASE NoArg \/ Initr \/ OneArg
  BY <1>2, <1>3 DEF NoArg, Initr, OneArg, Instructions, Operations
<1>4. CASE Jmpi \/ TwoArg \/ Branch
  BY <1>2, <1>4 DEF Jmpi, TwoArg, Branch, Instructions, Operations
<1>5. CASE Declare
  <2>1. line < Len(code) /\ Accept /\ WellDeclared(Line)
    BY <1>5 DEF Declare, Parsing
  <2>2. DeclaredWell(Line, declared')
    BY <1>5, <2>1, DeclareEnters DEF DeclaredWell, DeclaredAt
  <2> QED
    BY <1>5, <2>1, <2>2, DeclareEnters, DeclaredGrows
<1>6. ASSUME UNCHANGED <<code, line, mc, declared, avaddr>> PROVE DeclaredInv'
  BY <1>6 DEF DeclaredInv, DeclaredWell
<1>7. CASE DeclareUndefined \/ DeclareRefused \/ NullName \/ Refused \/ Unknown
  BY <1>6, <1>7 DEF DeclareUndefined, DeclareRefused, NullName, Refused, Unknown, Stop
<1>8. CASE MemoryUndefined \/ NameRefused \/ Done \/ UNCHANGED vars
  BY <1>6, <1>8 DEF MemoryUndefined, NameRefused, Done, Stop, vars
<1>9. CASE LabelLost
  <2>1. declared' = declared /\ Accept /\ line < Len(code) /\ Action(Line) # "declare"
    BY <1>1, <1>9 DEF LabelLost, EmitWith, Parsing, Instructions, Operations
  <2> QED
    BY <2>1, DeclaredGrows DEF DeclaredWell
<1> QED
  BY <1>3, <1>4, <1>5, <1>7, <1>8, <1>9 DEF Next

-----------------------------------------------------------------------------
(* How many commands a line stands for, and the running total of them as   *)
(* the function that Before computes: one for each bound k, all of which   *)
(* agree.                                                                  *)

Cost(l) == IF Action(l) = "declare" THEN Len(Values(l)) ELSE 1

Total(c, f, k) == f = [j \in 0 .. k |-> IF j = 0 THEN 0 ELSE f[j - 1] + Cost(c[j])]

LEMMA Smallest ==
  ASSUME NEW S \in SUBSET Nat, S # {}
  PROVE  \E m \in S : \A k \in S : m <= k
<1>1. PICK m \in S : \A k \in S : <<k, m>> \notin OpToRel(<, Nat)
  BY NatLessThanWellFounded, WFMin
<1>2. \A k \in S : ~(k < m)
  BY <1>1 DEF OpToRel
<1> QED
  BY <1>2

LEMMA BeforeIsTotal ==
  \A k : /\ Before(k) = (CHOOSE f : Total(code, f, k))[k]
         /\ Before(k)' = (CHOOSE f : Total(code', f, k))[k]
BY DEF Before, Total, Cost

LEMMA TotalAt ==
  ASSUME NEW c, NEW k \in Nat, NEW f, Total(c, f, k)
  PROVE  /\ f[0] = 0
         /\ \A j \in 1 .. k : f[j] = f[j - 1] + Cost(c[j])
<1> HIDE DEF Cost
<1>1. \A j \in 0 .. k : f[j] = IF j = 0 THEN 0 ELSE f[j - 1] + Cost(c[j])
  BY DEF Total
<1> QED
  BY <1>1

LEMMA TotalExists ==
  ASSUME NEW c, NEW k \in Nat
  PROVE  \E f : Total(c, f, k)
<1> DEFINE without == {n \in Nat : ~(\E f : Total(c, f, n))}
<1>1. SUFFICES ASSUME without # {} PROVE FALSE
  OBVIOUS
<1>2. PICK n \in without : \A m \in without : n <= m
  BY <1>1, Smallest
<1>3. n # 0
  <2>1. Total(c, [j \in 0 .. 0 |-> 0], 0)
    BY DEF Total
  <2> QED
    BY <2>1
<1>4. n \in Nat /\ n - 1 \in Nat /\ ~(n <= n - 1)
  BY <1>3
<1>5. PICK f : Total(c, f, n - 1)
  BY <1>2, <1>4
<1> DEFINE g == [j \in 0 .. n |-> IF j = n THEN f[n - 1] + Cost(c[n]) ELSE f[j]]
<1>6. \A j \in 0 .. n : g[j] = IF j = 0 THEN 0 ELSE g[j - 1] + Cost(c[j])
  <2>1. g[0] = 0
    BY <1>4, <1>5, TotalAt
  <2>2. g[n] = g[n - 1] + Cost(c[n])
    BY <1>4
  <2>3. \A j \in 1 .. n - 1 : g[j] = g[j - 1] + Cost(c[j])
    <3>1. \A j \in 1 .. n - 1 : f[j] = f[j - 1] + Cost(c[j])
      BY <1>4, <1>5, TotalAt
    <3>2. \A j \in 0 .. n - 1 : g[j] = f[j]
      BY <1>4
    <3>3. \A j \in 1 .. n - 1 : j - 1 \in 0 .. n - 1 /\ j \in 0 .. n - 1
      BY <1>4
    <3> HIDE DEF g
    <3> QED
      BY <3>1, <3>2, <3>3
  <2>4. \A j \in 0 .. n : j = 0 \/ j = n \/ j \in 1 .. n - 1
    BY <1>4
  <2> HIDE DEF g
  <2> QED
    BY <1>3, <2>1, <2>2, <2>3, <2>4
<1>7. g = [j \in 0 .. n |-> g[j]]
  OBVIOUS
<1> HIDE DEF g
<1>8. Total(c, g, n)
  BY <1>6, <1>7 DEF Total
<1> QED
  BY <1>8

LEMMA TotalsAgree ==
  ASSUME NEW c, NEW k \in Nat, NEW f, Total(c, f, k), NEW g, Total(c, g, k + 1)
  PROVE  \A j \in 0 .. k : f[j] = g[j]
<1> DEFINE differ == {j \in 0 .. k : f[j] # g[j]}
<1>1. SUFFICES ASSUME differ # {} PROVE FALSE
  OBVIOUS
<1>2. PICK n \in differ : \A m \in differ : n <= m
  <2>1. differ \in SUBSET Nat
    OBVIOUS
  <2> HIDE DEF differ
  <2> QED
    BY <1>1, <2>1, Smallest
<1>3. n # 0 /\ n \in 0 .. k
  <2> HIDE DEF differ
  <2>1. k + 1 \in Nat
    OBVIOUS
  <2>2. f[0] = 0
    BY TotalAt
  <2>3. g[0] = 0
    BY <2>1, TotalAt
  <2> USE DEF differ
  <2> QED
    BY <1>2, <2>2, <2>3
<1>4. n - 1 \in 0 .. k /\ ~(n <= n - 1) /\ n \in 1 .. k /\ n \in 1 .. k + 1
  BY <1>3
<1>5. f[n - 1] = g[n - 1]
  BY <1>2, <1>4
<1>6. f[n] = f[n - 1] + Cost(c[n]) /\ g[n] = g[n - 1] + Cost(c[n])
  BY <1>4, TotalAt
<1> QED
  BY <1>2, <1>5, <1>6

LEMMA BeforeFirst == Before(0) = 0 /\ Before(0)' = 0
<1>1. ASSUME NEW c PROVE (CHOOSE f : Total(c, f, 0))[0] = 0
  <2>1. \E f : Total(c, f, 0)
    BY TotalExists
  <2>2. Total(c, CHOOSE f : Total(c, f, 0), 0)
    BY <2>1
  <2> QED
    BY <2>2, TotalAt
<1> QED
  BY <1>1, BeforeIsTotal

LEMMA BeforeNext ==
  ASSUME NEW k \in Nat
  PROVE  Before(k + 1) = Before(k) + Cost(code[k + 1])
<1> DEFINE f == CHOOSE f : Total(code, f, k)
           g == CHOOSE g : Total(code, g, k + 1)
<1>1. Total(code, f, k)
  BY TotalExists
<1>2. Total(code, g, k + 1)
  <2>1. \E h : Total(code, h, k + 1)
    BY TotalExists
  <2> QED
    BY <2>1
<1>3. Before(k) = f[k] /\ Before(k + 1) = g[k + 1]
  BY BeforeIsTotal
<1> HIDE DEF f, g
<1>4. f[k] = g[k]
  BY <1>1, <1>2, TotalsAgree
<1>5. g[k + 1] = g[(k + 1) - 1] + Cost(code[k + 1])
  <2>1. k + 1 \in Nat /\ k + 1 \in 1 .. k + 1
    OBVIOUS
  <2> QED
    BY <1>2, <2>1, TotalAt
<1>6. (k + 1) - 1 = k
  OBVIOUS
<1> QED
  BY <1>3, <1>4, <1>5, <1>6
-----------------------------------------------------------------------------
(* Names that are entered later change nothing that was known before.      *)
More(names, more) ==
  DOMAIN names \subseteq DOMAIN more /\ \A y \in DOMAIN names : more[y] = names[y]

LEMMA RvalueKept ==
  ASSUME NEW l, NEW ic, NEW names, NEW more, More(names, more), NEW o \in Rvalue(l, ic, names)
  PROVE  o \in Rvalue(l, ic, more)
<1>1. \A v : Known(l, v, names) =>
        Known(l, v, more) /\ Meaning(l, v, more) = Meaning(l, v, names)
  BY DEF Known, Meaning, More, Is
<1> QED
  BY <1>1 DEF Rvalue

LEMMA LvalueKept ==
  ASSUME NEW l, NEW ic, NEW names, NEW more, More(names, more), NEW o \in Lvalue(l, ic, names)
  PROVE  o \in Lvalue(l, ic, more)
BY RvalueKept DEF Lvalue

(* A line that is no declaration stands for one command, and for the same  *)
(* one when more names are known.                                          *)
LEMMA CommandKept ==
  ASSUME NEW l, NEW n, NEW names, NEW more, More(names, more), NEW cs \in Commands(l, names, n)
  PROVE  Len(cs) = 1 /\ cs \in Commands(l, more, n)
<1> DEFINE first == First(l)
<1>1. \A c, o, p : Len(<<Cmd(c, o, p)>>) = 1
  OBVIOUS
<1> HIDE DEF first
<1>2. CASE Action(l) \in NoArgs
  <2>1. cs = <<Cmd(Action(l), NoOperand, NoOperand)>>
    BY <1>2 DEF Commands, NoArgs, OneArgs, TwoArgs
  <2> QED
    BY <1>1, <1>2, <2>1 DEF Commands, NoArgs, OneArgs, TwoArgs
<1>3. CASE Action(l) = "initr"
  <2>1. PICK o \in Rvalue(l, first, names) :
          cs = <<Cmd("initr", o, NoOperand)>> /\ Is(l, first, {"NUM"})
    BY <1>3 DEF Commands, NoArgs, OneArgs, TwoArgs, first
  <2>2. o \in Rvalue(l, first, more)
    BY RvalueKept
  <2> QED
    BY <1>1, <1>3, <2>1, <2>2 DEF Commands, NoArgs, OneArgs, TwoArgs, first
<1>4. CASE Action(l) \in OneArgs
  <2>1. PICK o \in Rvalue(l, first, names) : cs = <<Cmd(Action(l), o, NoOperand)>>
    BY <1>4 DEF Commands, NoArgs, OneArgs, TwoArgs, first
  <2>2. o \in Rvalue(l, first, more)
    BY RvalueKept
  <2> QED
    BY <1>1, <1>4, <2>1, <2>2 DEF Commands, NoArgs, OneArgs, TwoArgs, first
<1>5. CASE Action(l) = "jmpi"
  <2>1. PICK o \in Rvalue(l, first, names) : cs = <<Cmd("jmp", From(n, o), NoOperand)>>
    BY <1>5 DEF Commands, NoArgs, OneArgs, TwoArgs, first
  <2>2. o \in Rvalue(l, first, more)
    BY RvalueKept
  <2> QED
    BY <1>1, <1>5, <2>1, <2>2 DEF Commands, NoArgs, OneArgs, TwoArgs, first
<1>6. CASE Action(l) \in TwoArgs
  <2>1. PICK o \in Lvalue(l, first, names) :
          \E p \in Rvalue(l, o.at + 1, names) : cs = <<Cmd(Action(l), o, p)>>
    BY <1>6 DEF Commands, NoArgs, OneArgs, TwoArgs, first
  <2>2. PICK p \in Rvalue(l, o.at + 1, names) : cs = <<Cmd(Action(l), o, p)>>
    BY <2>1
  <2>3. o \in Lvalue(l, first, more) /\ p \in Rvalue(l, o.at + 1, more)
    BY LvalueKept, RvalueKept
  <2>4. Commands(l, more, n) =
          UNION {{<<Cmd(Action(l), a, b)>> : b \in Rvalue(l, a.at + 1, more)} :
                   a \in Lvalue(l, first, more)}
    BY <1>6 DEF Commands, NoArgs, OneArgs, TwoArgs, first
  <2> QED
    BY <1>1, <2>2, <2>3, <2>4
<1>7. CASE Action(l) \in {"ift", "iff"}
  <2>1. PICK o \in Lvalue(l, first, names) :
          \E p \in Rvalue(l, o.at + 1, names) : cs = <<Cmd(Action(l), o, From(n, p))>>
    BY <1>7 DEF Commands, NoArgs, OneArgs, TwoArgs, first
  <2>2. PICK p \in Rvalue(l, o.at + 1, names) : cs = <<Cmd(Action(l), o, From(n, p))>>
    BY <2>1
  <2>3. o \in Lvalue(l, first, more) /\ p \in Rvalue(l, o.at + 1, more)
    BY LvalueKept, RvalueKept
  <2>4. Commands(l, more, n) =
          UNION {{<<Cmd(Action(l), a, From(n, b))>> : b \in Rvalue(l, a.at + 1, more)} :
                   a \in Lvalue(l, first, more)}
    BY <1>7 DEF Commands, NoArgs, OneArgs, TwoArgs, first
  <2> QED
    BY <1>1, <2>2, <2>3, <2>4
<1> QED
  BY <1>2, <1>3, <1>4, <1>5, <1>6, <1>7 DEF Commands

LEMMA ReadingKept ==
  ASSUME NEW l, NEW n, NEW names, NEW more, More(names, more), NEW cs \in Reading(l, names, n),
         Action(l) = "declare" => Tok(l, 1).name \in DOMAIN names
  PROVE  cs \in Reading(l, more, n)
BY CommandKept DEF Reading, More

(* What is appended to the commands leaves those before it where they are, *)
(* and is found after them.                                                *)
LEMMA PartBefore ==
  ASSUME NEW S, NEW s \in Seq(S), NEW t \in Seq(S), NEW m \in 0 .. Len(s), NEW n \in 0 .. Len(s)
  PROVE  SubSeq(s \o t, m + 1, n) = SubSeq(s, m + 1, n)
<1>1. CASE m = Len(s) \/ n = 0
  <2>1. m + 1 > n /\ m + 1 \in Int /\ n \in Int /\ s \o t \in Seq(S)
    BY <1>1
  <2>2. \A u \in Seq(S) : SubSeq(u, m + 1, n) = <<>>
    BY <2>1
  <2> QED
    BY <2>1, <2>2
<1>2. CASE m + 1 \in 1 .. Len(s) /\ n \in 1 .. Len(s)
  BY <1>2, SubSeqOfConcat1
<1> QED
  BY <1>1, <1>2

LEMMA PartAfter ==
  ASSUME NEW S, NEW s \in Seq(S), NEW t \in Seq(S)
  PROVE  SubSeq(s \o t, Len(s) + 1, Len(s) + Len(t)) = t
<1>1. Len(s) \in Nat /\ Len(t) \in Nat /\ s \o t \in Seq(S)
  OBVIOUS
<1>2. CASE Len(t) = 0
  <2>1. t = <<>>
    BY <1>2, EmptySeq
  <2>2. \A u \in Seq(S), k \in Nat : SubSeq(u, k + 1, k) = <<>>
    OBVIOUS
  <2> QED
    BY <1>1, <1>2, <2>1, <2>2
<1>3. CASE Len(t) # 0
  <2>1. SubSeq(s \o t, Len(s) + 1, Len(s) + Len(t)) =
          SubSeq(t, Len(s) + 1 - Len(s), Len(s) + Len(t) - Len(s))
    BY <1>1, <1>3, SubSeqOfConcat2
  <2>2. Len(s) + 1 - Len(s) = 1 /\ Len(s) + Len(t) - Len(s) = Len(t)
    BY <1>1
  <2> QED
    BY <2>1, <2>2, SubSeqFull
<1> QED
  BY <1>2, <1>3

-----------------------------------------------------------------------------
(* OnePassSuffices with what it needs: where the commands of each line end *)
(* lies within mc[], and a declared name is known from its line on.        *)
PassInv ==
  /\ Len(mc) = Before(line)
  /\ \A k \in 0 .. line : Before(k) \in 0 .. Len(mc)
  /\ \A k \in 1 .. line :
       /\ SubSeq(mc, Before(k - 1) + 1, Before(k)) \in Reading(code[k], declared, Before(k - 1))
       /\ Action(code[k]) = "declare" => Tok(code[k], 1).name \in DOMAIN declared

(* A line that is accepted, for cs and with the names then known.          *)
LEMMA PassGrows ==
  ASSUME TypeOK, PassInv, line < Len(code), Accept,
         NEW cs \in Seq(MachineCommand), mc' = mc \o cs, Len(cs) = Cost(Line),
         More(declared, declared'), cs \in Reading(Line, declared', Len(mc)),
         Action(Line) = "declare" => Tok(Line, 1).name \in DOMAIN declared'
  PROVE  PassInv'
<1> HIDE DEF Cost
<1>1. line \in Nat /\ line' = line + 1 /\ code' = code /\ Line = code[line + 1]
  BY DEF Accept, TypeOK, Line
<1>2. mc \in Seq(MachineCommand) /\ Len(mc) \in Nat /\ Len(cs) \in Nat
  BY DEF TypeOK, MachineCommand
<1>3. Len(mc') = Len(mc) + Len(cs)
  BY <1>2, ConcatProperties
<1>4. Before(line) = Len(mc) /\ Before(line + 1) = Len(mc) + Len(cs)
  BY <1>1, BeforeNext DEF PassInv
<1>5. \A k : Before(k)' = Before(k)
  BY <1>1 DEF Before
<1>6. \A k \in 0 .. line + 1 : Before(k) \in 0 .. Len(mc')
  <2>1. \A k \in 0 .. line : Before(k) \in 0 .. Len(mc)
    BY DEF PassInv
  <2>2. \A k \in 0 .. line + 1 : k \in 0 .. line \/ k = line + 1
    BY <1>1
  <2> QED
    BY <1>2, <1>3, <1>4, <2>1, <2>2
<1>7. ASSUME NEW k \in 1 .. line + 1
      PROVE  /\ SubSeq(mc', Before(k - 1) + 1, Before(k))
                  \in Reading(code[k], declared', Before(k - 1))
             /\ Action(code[k]) = "declare" => Tok(code[k], 1).name \in DOMAIN declared'
  <2>1. CASE k = line + 1
    <3>1. k - 1 = line
      BY <1>1, <2>1
    <3>2. SubSeq(mc', Len(mc) + 1, Len(mc) + Len(cs)) = cs
      BY <1>2, PartAfter
    <3> QED
      BY <1>1, <1>4, <2>1, <3>1, <3>2
  <2>2. CASE k \in 1 .. line
    <3>1. k - 1 \in 0 .. line /\ k \in 0 .. line
      BY <1>1, <2>2
    <3>2. Before(k - 1) \in 0 .. Len(mc) /\ Before(k) \in 0 .. Len(mc)
      BY <3>1 DEF PassInv
    <3>3. SubSeq(mc', Before(k - 1) + 1, Before(k)) = SubSeq(mc, Before(k - 1) + 1, Before(k))
      BY <1>2, <3>2, PartBefore
    <3>4. /\ SubSeq(mc, Before(k - 1) + 1, Before(k)) \in Reading(code[k], declared, Before(k - 1))
          /\ Action(code[k]) = "declare" => Tok(code[k], 1).name \in DOMAIN declared
      BY <2>2 DEF PassInv
    <3>5. SubSeq(mc, Before(k - 1) + 1, Before(k)) \in Reading(code[k], declared', Before(k - 1))
      BY <3>4, ReadingKept
    <3> QED
      BY <3>3, <3>4, <3>5 DEF More
  <2> QED
    BY <1>1, <2>1, <2>2
<1> QED
  BY <1>1, <1>3, <1>4, <1>5, <1>6, <1>7 DEF PassInv

LEMMA EmitPass ==
  ASSUME TypeOK, PassInv, line < Len(code), NEW names \in {WithLabel, declared},
         EmitWith(names), Action(Line) # "declare"
  PROVE  PassInv'
<1>1. PICK cs \in Commands(Line, names, Len(mc)) : mc' = mc \o cs
  BY DEF EmitWith
<1>2. mc \in Seq(MachineCommand) /\ Len(mc) \in Nat
  BY DEF TypeOK, MachineCommand
<1>3. cs \in Seq(MachineCommand)
  BY <1>2, LineTyped, NamesTyped, CommandsTyped
<1>4. declared' = names /\ Accept /\ More(declared, declared')
  BY NamesTyped DEF EmitWith, More
<1>5. Len(cs) = Cost(Line)
  <2>1. More(names, names)
    BY DEF More
  <2> QED
    BY <2>1, CommandKept DEF Cost
<1>6. cs \in Reading(Line, declared', Len(mc))
  BY <1>4 DEF Reading
<1> QED
  BY <1>1, <1>3, <1>4, <1>5, <1>6, PassGrows

LEMMA DeclarePass ==
  ASSUME TypeOK, PassInv, Declare
  PROVE  PassInv'
<1> DEFINE x == Tok(Line, 1).name
           cs == Moves(DeclaredAt(Line), Values(Line))
<1>1. /\ line < Len(code) /\ Action(Line) = "declare" /\ WellDeclared(Line) /\ ~Taken(x)
      /\ Accept /\ mc' = mc \o cs /\ declared' = Enter(x, FALSE, DeclaredAt(Line))
  BY DEF Declare, Parsing
<1>2. Line \in Seq(Token) /\ x \in Names
  BY <1>1, LineTyped, TokenTyped DEF WellDeclared, Is
<1>3. DeclaredAt(Line) \in Int /\ Values(Line) \in Seq(Int) /\ FALSE \in BOOLEAN
  BY <1>1, <1>2, ValuesTyped DEF DeclaredAt, TypeOK
<1>4. cs \in Seq(MachineCommand) /\ Len(cs) = Cost(Line)
  <2>1. Len(Values(Line)) \in Nat
    BY <1>3
  <2>2. Len(cs) = Len(Values(Line))
    BY <2>1 DEF Moves
  <2> QED
    BY <1>1, <1>3, <2>2, MovesTyped DEF Cost
<1>5. /\ DOMAIN declared' = DOMAIN declared \cup {x}
      /\ declared'[x].addr = DeclaredAt(Line)
      /\ \A y \in DOMAIN declared : declared'[y] = declared[y]
  BY DeclareEnters
<1>6. More(declared, declared') /\ x \in DOMAIN declared'
  BY <1>5 DEF More
<1>7. cs \in Reading(Line, declared', Len(mc))
  BY <1>1, <1>5 DEF Reading
<1> HIDE DEF cs
<1> QED
  BY <1>1, <1>4, <1>6, <1>7, PassGrows

LEMMA PassKept ==
  ASSUME TypeOK, PassInv, [Next]_vars
  PROVE  PassInv'
<1>1. "declare" \notin Instructions
  BY DEF Instructions, Operations, NoArgs, OneArgs, TwoArgs
<1>2. ASSUME NEW actions, actions \subseteq Instructions, Parsing(actions), Emit PROVE PassInv'
  BY <1>1, <1>2, EmitPass DEF Parsing, Emit
<1>3. CASE NoArg \/ Initr \/ OneArg
  BY <1>2, <1>3 DEF NoArg, Initr, OneArg, Instructions, Operations
<1>4. CASE Jmpi \/ TwoArg \/ Branch
  BY <1>2, <1>4 DEF Jmpi, TwoArg, Branch, Instructions, Operations
<1>5. CASE Declare
  BY <1>5, DeclarePass
<1>6. ASSUME UNCHANGED <<code, line, mc, declared, avaddr>> PROVE PassInv'
  <2>1. \A k : Before(k)' = Before(k)
    BY <1>6 DEF Before
  <2> QED
    BY <1>6, <2>1 DEF PassInv
<1>7. CASE DeclareUndefined \/ DeclareRefused \/ NullName \/ Refused \/ Unknown
  BY <1>6, <1>7 DEF DeclareUndefined, DeclareRefused, NullName, Refused, Unknown, Stop
<1>8. CASE MemoryUndefined \/ NameRefused \/ Done \/ UNCHANGED vars
  BY <1>6, <1>8 DEF MemoryUndefined, NameRefused, Done, Stop, vars
<1>9. CASE LabelLost
  BY <1>1, <1>9, EmitPass DEF LabelLost, Parsing, Instructions, Operations
<1> QED
  BY <1>3, <1>4, <1>5, <1>7, <1>8, <1>9 DEF Next

(* One pass over the source is enough: every line of an accepted program   *)
(* stands for the commands it would with all names known, at the place the *)
(* lines before it give them.                                              *)
THEOREM OnePassIsEnough == Spec => []OnePassSuffices
<1>1. Init => PassInv
  <2>1. ASSUME Init PROVE line = 0 /\ mc = <<>> /\ Len(mc) = 0
    BY <2>1 DEF Init
  <2> QED
    BY <2>1, BeforeFirst DEF PassInv
<1>2. TypeOK /\ PassInv /\ [Next]_vars => PassInv'
  BY PassKept
<1>3. PassInv => OnePassSuffices
  BY DEF PassInv, OnePassSuffices
<1> QED
  BY <1>1, <1>2, <1>3, TypeCorrect, PTL DEF Spec

-----------------------------------------------------------------------------
(* How the lines lie in the program: each takes as many places as it has   *)
(* commands, after the lines before it.                                    *)
LEMMA CostNat ==
  ASSUME TypeOK, DeclaredInv, NEW k \in 1 .. line
  PROVE  /\ code[k] \in Seq(Token) /\ Cost(code[k]) \in Nat
         /\ Action(code[k]) = "declare" => Values(code[k]) \in Seq(Int) /\ Len(Values(code[k])) \in Nat
<1>1. code[k] \in Seq(Token)
  BY DEF TypeOK
<1>2. Action(code[k]) = "declare" => Values(code[k]) \in Seq(Int)
  BY <1>1, ValuesTyped DEF DeclaredInv, DeclaredWell
<1>3. Action(code[k]) = "declare" => Len(Values(code[k])) \in Nat
  BY <1>2
<1> QED
  BY <1>1, <1>2, <1>3 DEF Cost

LEMMA BeforeStep ==
  ASSUME TypeOK, DeclaredInv, PassInv, NEW k \in 1 .. line
  PROVE  /\ Before(k) = Before(k - 1) + Cost(code[k]) /\ Before(k - 1) \in Nat /\ Before(k) \in Nat
         /\ Before(k) <= Len(mc)
<1> HIDE DEF Cost
<1>1. line \in Nat /\ k - 1 \in Nat /\ (k - 1) + 1 = k /\ k - 1 \in 0 .. line /\ k \in 0 .. line
  BY DEF TypeOK
<1>2. Before((k - 1) + 1) = Before(k - 1) + Cost(code[(k - 1) + 1])
  BY <1>1, BeforeNext
<1>3. Before(k - 1) \in 0 .. Len(mc) /\ Before(k) \in 0 .. Len(mc)
  BY <1>1 DEF PassInv
<1>4. Len(mc) \in Nat
  BY DEF TypeOK
<1> QED
  BY <1>1, <1>2, <1>3, <1>4

LEMMA BeforeGrows ==
  ASSUME TypeOK, DeclaredInv, PassInv, NEW k \in 0 .. line, NEW n \in k .. line
  PROVE  Before(k) <= Before(n)
<1>1. line \in Nat
  BY DEF TypeOK
<1> DEFINE less == {j \in Nat : j \in k .. line /\ ~(Before(k) <= Before(j))}
<1>2. SUFFICES ASSUME less # {} PROVE FALSE
  BY <1>1
<1>3. PICK j \in less : \A i \in less : j <= i
  <2>1. less \in SUBSET Nat
    OBVIOUS
  <2> HIDE DEF less
  <2> QED
    BY <1>2, <2>1, Smallest
<1>4. j \in k .. line /\ ~(Before(k) <= Before(j))
  OBVIOUS
<1>5. Before(k) \in Nat
  BY <1>1 DEF PassInv, TypeOK
<1>6. j # k
  BY <1>4, <1>5
<1>7. j \in 1 .. line /\ j - 1 \in k .. line /\ j - 1 \in Nat /\ ~(j <= j - 1)
  BY <1>1, <1>4, <1>6
<1>8. Before(k) <= Before(j - 1)
  BY <1>3, <1>7
<1> HIDE DEF less
<1>9. Before(j) = Before(j - 1) + Cost(code[j]) /\ Cost(code[j]) \in Nat /\ Before(j - 1) \in Nat
  BY <1>7, BeforeStep, CostNat
<1> HIDE DEF Cost
<1> QED
  BY <1>4, <1>5, <1>8, <1>9

(* Every command of the first n lines belongs to one of them.              *)
LEMMA LineOf ==
  ASSUME TypeOK, DeclaredInv, PassInv, NEW n \in 0 .. line, NEW c \in Nat, c < Before(n)
  PROVE  \E m \in 1 .. n : Before(m - 1) <= c /\ c < Before(m)
<1>1. line \in Nat
  BY DEF TypeOK
<1> DEFINE after == {m \in Nat : m <= n /\ c < Before(m)}
<1>2. PICK m \in after : \A i \in after : m <= i
  <2>1. after \in SUBSET Nat
    OBVIOUS
  <2>2. n \in after
    BY <1>1
  <2> HIDE DEF after
  <2> QED
    BY <2>1, <2>2, Smallest
<1>3. m \in Nat /\ m <= n /\ c < Before(m)
  OBVIOUS
<1>4. m # 0
  BY <1>3, BeforeFirst
<1>5. m \in 1 .. n /\ m - 1 \in Nat /\ m - 1 <= n /\ ~(m <= m - 1) /\ m - 1 \in 0 .. line
  BY <1>1, <1>3, <1>4
<1>6. ~(c < Before(m - 1))
  BY <1>2, <1>5
<1>7. Before(m - 1) \in Int
  BY <1>5 DEF PassInv
<1> QED
  BY <1>3, <1>5, <1>6, <1>7

(* The command that sets a cell of a variable.                             *)
LEMMA ValueAt ==
  ASSUME TypeOK, DeclaredInv, PassInv, NEW k \in 1 .. line, Action(code[k]) = "declare",
         NEW i \in 1 .. Len(Values(code[k]))
  PROVE  /\ Before(k - 1) + i \in 1 .. Len(mc) /\ Before(k - 1) + i <= Before(k)
         /\ mc[Before(k - 1) + i] =
              Cmd("move", [type |-> "ram", arg |-> declared[Tok(code[k], 1).name].addr + i - 1],
                          [type |-> "literal", arg |-> Values(code[k])[i]])
<1> DEFINE b == Before(k - 1)
           size == Len(Values(code[k]))
           moves == Moves(declared[Tok(code[k], 1).name].addr, Values(code[k]))
<1>1. size \in Nat /\ i \in 1 .. size
  BY CostNat
<1>2. b \in Nat /\ Before(k) = b + size /\ b + size <= Len(mc) /\ Len(mc) \in Nat
  <2>1. Cost(code[k]) = size
    BY DEF Cost
  <2>2. Len(mc) \in Nat
    BY DEF TypeOK
  <2> QED
    BY <2>1, <2>2, BeforeStep
<1>3. SubSeq(mc, b + 1, b + size) = moves
  BY <1>2 DEF PassInv, Reading
<1>4. moves[i] = Cmd("move", [type |-> "ram", arg |-> declared[Tok(code[k], 1).name].addr + i - 1],
                             [type |-> "literal", arg |-> Values(code[k])[i]])
  BY DEF Moves
<1> HIDE DEF b, size, moves
<1>5. SubSeq(mc, b + 1, b + size)[i] = mc[b + i]
  <2>1. \A j \in b + 1 .. b + size : mc[j] \in MachineCommand
    <3>1. mc \in Seq(MachineCommand)
      BY DEF TypeOK, MachineCommand
    <3>2. \A j \in b + 1 .. b + size : j \in 1 .. Len(mc)
      BY <1>1, <1>2
    <3> QED
      BY <3>1, <3>2, ElementOfSeq
  <2>2. b + 1 \in Int /\ b + size \in Int
    BY <1>1, <1>2
  <2>3. \A j \in 1 .. (b + size) - (b + 1) + 1 : SubSeq(mc, b + 1, b + size)[j] = mc[(b + 1) + j - 1]
    BY <2>1, <2>2, SubSeqProperties
  <2>4. i \in 1 .. (b + size) - (b + 1) + 1 /\ (b + 1) + i - 1 = b + i
    BY <1>1, <1>2
  <2> QED
    BY <2>3, <2>4
<1>6. b + i \in 1 .. Len(mc) /\ b + i <= Before(k)
  BY <1>1, <1>2
<1> QED
  BY <1>3, <1>4, <1>5, <1>6 DEF b

LEMMA InitrCommand ==
  ASSUME NEW l, NEW names, NEW n, NEW cs \in Commands(l, names, n), Action(l) = "initr"
  PROVE  cs[1].cmd = "initr"
<1>1. PICK o \in Rvalue(l, First(l), names) : cs = <<Cmd("initr", o, NoOperand)>>
  BY DEF Commands, NoArgs, OneArgs, TwoArgs
<1> QED
  BY <1>1 DEF Cmd

(* A line that is no declaration is one command.                           *)
LEMMA CommandAt ==
  ASSUME TypeOK, DeclaredInv, PassInv, NEW k \in 1 .. line, Action(code[k]) # "declare"
  PROVE  /\ Before(k) = Before(k - 1) + 1
         /\ \E cs \in Commands(code[k], declared, Before(k - 1)) : mc[Before(k - 1) + 1] = cs[1]
<1> DEFINE b == Before(k - 1)
<1>1. b \in Nat /\ Before(k) = b + 1 /\ b + 1 <= Len(mc) /\ Len(mc) \in Nat
  <2>1. Cost(code[k]) = 1
    BY DEF Cost
  <2>2. Len(mc) \in Nat
    BY DEF TypeOK
  <2> QED
    BY <2>1, <2>2, BeforeStep
<1>2. SubSeq(mc, b + 1, b + 1) \in Commands(code[k], declared, b)
  BY <1>1 DEF PassInv, Reading
<1> HIDE DEF b
<1>3. SubSeq(mc, b + 1, b + 1)[1] = mc[b + 1]
  <2>1. \A i \in b + 1 .. b + 1 : mc[i] \in MachineCommand
    <3>1. mc \in Seq(MachineCommand) /\ b + 1 \in 1 .. Len(mc)
      BY <1>1 DEF TypeOK, MachineCommand
    <3>2. mc[b + 1] \in MachineCommand
      BY <3>1, ElementOfSeq
    <3> QED
      BY <1>1, <3>2
  <2>2. \A i \in 1 .. (b + 1) - (b + 1) + 1 : SubSeq(mc, b + 1, b + 1)[i] = mc[b + 1 + i - 1]
    BY <1>1, <2>1, SubSeqProperties
  <2>3. 1 \in 1 .. (b + 1) - (b + 1) + 1 /\ b + 1 + 1 - 1 = b + 1
    BY <1>1
  <2> QED
    BY <2>2, <2>3
<1> QED
  BY <1>1, <1>2, <1>3 DEF b

=============================================================================
