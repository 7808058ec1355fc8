-------------------------------- MODULE Lexer ---------------------------------
(***************************************************************************)
(* The first pass of the compiler: load_code (core/main.c) reads the source *)
(* in chunks, a32_lexer (core/c32asmlex.c) cuts it into lines, and each     *)
(* line into the tokens of a command. One action is one fread, or one       *)
(* iteration of the loops of a32_lexer and a32_lexer_line.                  *)
(*                                                                          *)
(* A character is a value of a small alphabet; what the lexer does with it  *)
(* depends on the class it is in. A token is its type, the number of its    *)
(* line, and where it starts and ends in the text. The place of an error is *)
(* for the message only and left out.                                       *)
(***************************************************************************)
EXTENDS Integers, SequencesExt, FiniteSetsExt

CONSTANTS
  Files,          \* the source files
  FaultyFiles,    \* those of which a read may fail
  CHUNK,          \* how much the buffer of load_code grows by: 4096
  Letters,        \* a-z, A-Z and _
  Digits,         \* 0-9
  Others,         \* what no token may start with
  A32_START_CMD_SIZE,  \* 1024
  A32_MAX_TOKEN,       \* 64
  MallocFails     \* may realloc fail?

Nul == "NUL"

Semicolon == ";"

Comma == ","

PrefixType == [c \in {"$", "&", "*", "@"} |->
               CASE c = "$" -> "RAM" [] c = "&" -> "ADDR" [] c = "*" -> "PTR" [] c = "@" -> "DATA"]

QuoteType == [c \in {"'", "\""} |-> IF c = "'" THEN "CHAR" ELSE "STR"]

Blanks == {" ", "\t"}

Marks ==
  DOMAIN PrefixType \cup DOMAIN QuoteType \cup Blanks
    \cup {"\n", Semicolon, Comma, ":", "?", "-", "\\", Nul}

Characters == Letters \cup Digits \cup Others \cup Marks

ASSUME LexerAssumption ==
  /\ Letters \cap (Digits \cup Marks) = {} /\ Digits \cap Marks = {}
  /\ Files \subseteq Seq(Characters) /\ FaultyFiles \subseteq Files
  /\ CHUNK \in Nat \ {0, 1}
  /\ A32_START_CMD_SIZE \in Nat \ {0} /\ A32_MAX_TOKEN \in Nat \ {0}
  /\ MallocFails \in BOOLEAN

VARIABLES
  file,      \* the source file
  code,      \* what load_code has read of it
  codeSize,  \* the size of its buffer
  at,        \* c->parse, an index of code
  line,      \* c->line
  vcmd,      \* the commands of the lines that are done
  cmdsize,   \* how many have room in c->vcmd
  tokens,    \* those of the line that is being read
  ctl        \* the loop the lexer is in, or how it ended

lvars == <<at, line, vcmd, cmdsize, tokens>>
vars == <<file, code, codeSize, lvars, ctl>>

Init ==
  /\ file \in Files
  /\ code = <<>> /\ codeSize = CHUNK
  /\ at = 1 /\ line = 1 /\ vcmd = <<>> /\ cmdsize = A32_START_CMD_SIZE /\ tokens = <<>>
  /\ ctl = "load"

-----------------------------------------------------------------------------
(* load_code. fread returns less than it is asked for at the end of the    *)
(* file or after an error, which nobody asks about.                        *)

Request == codeSize - Len(code) - 1

Unread == Len(file) - Len(code)

MutFilled(n) == n >= codeSize

Filled(n) == n >= codeSize - 1

Read(n) ==
  /\ code' = SubSeq(file, 1, Len(code) + n)
  /\ codeSize' = IF Filled(Len(code')) THEN codeSize + CHUNK ELSE codeSize
  /\ UNCHANGED <<file, lvars, ctl>>

ReadChunk ==
  /\ ctl = "load" /\ Request > 0 /\ Unread > 0
  /\ LET most == Min({Request, Unread})
     IN  \E n \in IF file \in FaultyFiles THEN 1 .. most ELSE {most} : Read(n)

Loaded ==
  /\ ctl = "load"
  /\ Request = 0 \/ Unread = 0 \/ file \in FaultyFiles
  /\ code' = Append(code, Nul) /\ ctl' = "line"
  /\ UNCHANGED <<file, codeSize, lvars>>

-----------------------------------------------------------------------------
(* Where the characters of a set end that stand at j and on.               *)
Past(set, j) == Min({k \in j .. Len(code) : code[k] \notin set})

SkipSpace(j) == Past(Blanks, j)

(* a32_endl at j: is this the end of a line, and where does the next begin *)
EndsLine(j) == code[j] \in {Nul, "\n", Semicolon}

MutNextLine(j) ==
  LET e == IF code[j] = Semicolon THEN Past(Characters \ {"\n", Semicolon, Nul}, j + 1) ELSE j
  IN  IF code[e] = Nul THEN e ELSE e + 1

NextLine(j) ==
  LET e == IF code[j] = Semicolon THEN Past(Characters \ {"\n", Nul}, j) ELSE j
  IN  IF code[e] = Nul THEN e ELSE e + 1

NameEnd(j) == Past(Letters \cup Digits, j)

MutQuoteEnd(j) ==
  LET end[k \in j + 1 .. Len(code)] ==
        IF code[k] \in {Nul, "'", "\""} THEN k
        ELSE IF code[k] = "\\" /\ code[k + 1] # Nul THEN end[k + 2] ELSE end[k + 1]
  IN  end[j + 1]

(* The quote that closes the one at j, or the end of the text.             *)
QuoteEnd(j) ==
  LET end[k \in j + 1 .. Len(code)] ==
        IF code[k] \in {Nul, code[j]} THEN k
        ELSE IF code[k] = "\\" /\ code[k + 1] # Nul THEN end[k + 2] ELSE end[k + 1]
  IN  end[j + 1]

Tk(type, start, end) == [type |-> type, line |-> line, start |-> start, end |-> end]

(* The prefixes of an operand at j, each a token, and what follows them.   *)
OperandAt(j) == Past(DOMAIN PrefixType, j)

PrefixTokens(j) ==
  [n \in 1 .. OperandAt(j) - j |-> Tk(PrefixType[code[j + n - 1]], j + n - 1, j + n)]

(* The token at j that ends an operand, if there is one.                   *)
Closer(j) ==
  CASE code[j] = "?" -> {Tk("AUTO", j, j + 1)}
    [] code[j] \in Digits \cup {"-"} -> {Tk("NUM", j, Past(Digits \cup {"-"}, j))}
    [] code[j] \in DOMAIN QuoteType ->
         {Tk(QuoteType[code[j]], j, k + 1) : k \in {e \in {QuoteEnd(j)} : code[e] # Nul}}
    [] code[j] \in Letters -> {Tk("NAME", j, NameEnd(j))}
    [] OTHER -> {}

(* Is there a character that makes the lexer write a token at j?           *)
WritesToken(j) == code[j] \in Letters \cup Digits \cup DOMAIN QuoteType \cup {"?", "-"}

Stop(how) == ctl' = how /\ UNCHANGED <<file, code, codeSize, lvars>>

-----------------------------------------------------------------------------
(* a32_lexer, and a32_lexer_line up to its loops.                          *)

AtLine == ctl = "line" /\ code[at] # Nul

Finish == ctl = "line" /\ code[at] = Nul /\ Stop("done")

MutLineStays(j) == at' = j /\ line' = line /\ ctl' = "line"

MutLineDone(j) == at' = NextLine(j) /\ line' = line /\ ctl' = "line"

LineDone(j) == at' = NextLine(j) /\ line' = line + 1 /\ ctl' = "line"

EmptyLine ==
  /\ AtLine /\ EndsLine(SkipSpace(at))
  /\ LineDone(SkipSpace(at))
  /\ UNCHANGED <<file, code, codeSize, vcmd, cmdsize, tokens>>

(* a32_lexcmd_new                                                          *)
NewCommand ==
  /\ AtLine /\ ~EndsLine(SkipSpace(at))
  /\ at' = SkipSpace(at) /\ ctl' = "head"
  /\ cmdsize' = IF Len(vcmd) = cmdsize THEN 2 * cmdsize ELSE cmdsize
  /\ UNCHANGED <<file, code, codeSize, line, vcmd, tokens>>

NoMemory ==
  /\ AtLine /\ ~EndsLine(SkipSpace(at))
  /\ MallocFails /\ Len(vcmd) = cmdsize
  /\ Stop("error")

-----------------------------------------------------------------------------
(* The loop over labels, which ends with the name of the command.          *)

HeadName == ctl = "head" /\ Len(tokens) < A32_MAX_TOKEN /\ code[at] \in Letters

MutLabel ==
  /\ HeadName /\ code[NameEnd(at)] = ":"
  /\ tokens' = Append(tokens, Tk("LABEL", at, NameEnd(at)))
  /\ at' = SkipSpace(NameEnd(at) + 1) /\ ctl' = "operands"
  /\ UNCHANGED <<file, code, codeSize, line, vcmd, cmdsize>>

Label ==
  /\ HeadName /\ code[NameEnd(at)] = ":"
  /\ tokens' = Append(tokens, Tk("LABEL", at, NameEnd(at)))
  /\ at' = SkipSpace(NameEnd(at) + 1)
  /\ UNCHANGED <<file, code, codeSize, line, vcmd, cmdsize, ctl>>

Separators == Blanks \cup {"\n", Semicolon}

Name ==
  /\ HeadName /\ code[NameEnd(at)] \in Separators
  /\ tokens' = Append(tokens, Tk("NAME", at, NameEnd(at)))
  /\ at' = NameEnd(at) /\ ctl' = "operands"
  /\ UNCHANGED <<file, code, codeSize, line, vcmd, cmdsize>>

(* Nothing that starts a name, or a name at the end of the text.           *)
HeadRefused ==
  /\ ctl = "head" /\ Len(tokens) < A32_MAX_TOKEN
  /\ code[at] \in Letters => code[NameEnd(at)] \notin Separators \cup {":"}
  /\ Stop("error")

HeadOverflow == ctl = "head" /\ Len(tokens) = A32_MAX_TOKEN /\ Stop("undef")

-----------------------------------------------------------------------------
(* The loop over operands: a32_arg_next at j reads the tokens Operand(j).  *)

Operand(j) == {PrefixTokens(j) \o <<t>> : t \in Closer(OperandAt(j))}

Ending(o) == o[Len(o)].end

AtOperand(j) == ctl = "operands" /\ j = SkipSpace(at) /\ ~EndsLine(j)

MutFits(n) == n <= A32_MAX_TOKEN + 1

Fits(n) == n <= A32_MAX_TOKEN

Written(j) == OperandAt(j) - j + (IF WritesToken(OperandAt(j)) THEN 1 ELSE 0)

Overflows(j) == ~Fits(Len(tokens) + Written(j))

CommandDone(ts, j) ==
  /\ LineDone(j)
  /\ vcmd' = Append(vcmd, ts) /\ tokens' = <<>>
  /\ UNCHANGED <<file, code, codeSize, cmdsize>>

NoMoreOperands ==
  /\ ctl = "operands" /\ EndsLine(SkipSpace(at))
  /\ CommandDone(tokens, SkipSpace(at))

LastOperand ==
  \E j \in 1 .. Len(code) :
    /\ AtOperand(j) /\ ~Overflows(j)
    /\ \E o \in Operand(j) : EndsLine(Ending(o)) /\ CommandDone(tokens \o o, Ending(o))

(* Only a comma right after the operand leads to the next one.             *)
NextOperand ==
  \E j \in 1 .. Len(code) :
    /\ AtOperand(j) /\ ~Overflows(j)
    /\ \E o \in Operand(j) :
         code[Ending(o)] = Comma /\ tokens' = tokens \o o /\ at' = Ending(o) + 1
    /\ UNCHANGED <<file, code, codeSize, line, vcmd, cmdsize, ctl>>

OperandRefused ==
  \E j \in 1 .. Len(code) :
    /\ AtOperand(j) /\ ~Overflows(j)
    /\ \A o \in Operand(j) : ~EndsLine(Ending(o)) /\ code[Ending(o)] # Comma
    /\ Stop("error")

OperandOverflow == \E j \in 1 .. Len(code) : AtOperand(j) /\ Overflows(j) /\ Stop("undef")

Next ==
  \/ ReadChunk \/ Loaded
  \/ EmptyLine \/ NewCommand \/ NoMemory \/ Finish
  \/ Label \/ Name \/ HeadRefused \/ HeadOverflow
  \/ NoMoreOperands \/ LastOperand \/ NextOperand \/ OperandRefused \/ OperandOverflow

Spec == Init /\ [][Next]_vars /\ WF_vars(Next)

-----------------------------------------------------------------------------
Token ==
  [type : {"NAME", "LABEL", "NUM", "CHAR", "STR", "AUTO", "RAM", "ADDR", "PTR", "DATA"},
   line : Nat, start : Nat, end : Nat]

TypeOK ==
  /\ file \in Seq(Characters) /\ code \in Seq(Characters) /\ codeSize > Len(code)
  /\ ctl \in {"load", "line", "head", "operands", "done", "error", "undef"}
  /\ ctl # "load" => at \in 1 .. Len(code)
  /\ line \in Nat /\ cmdsize \in Nat
  /\ vcmd \in Seq(Seq(Token)) /\ Len(vcmd) + (IF ctl = "head" THEN 1 ELSE 0) <= cmdsize
  /\ tokens \in Seq(Token) /\ \A c \in ToSet(vcmd) \cup {tokens} : Len(c) <= A32_MAX_TOKEN

Tokens == UNION {ToSet(c) : c \in ToSet(vcmd)}

Inside(p) == \E t \in Tokens : p \in t.start .. t.end - 1

(* The characters from a semicolon to the end of its line.                 *)
Comments ==
  {p \in 1 .. at - 1 :
     \E s \in 1 .. p : code[s] = Semicolon /\ ~Inside(s) /\ \A q \in s .. p : code[q] # "\n"}

(* Chunks, grown buffers and the end of the file leave nothing out: when    *)
(* load_code and a32_lexer are done they have read the file to its end, if  *)
(* no read failed and there is no zero byte in it.                          *)
WholeText ==
  ctl = "done" /\ file \notin FaultyFiles /\ Nul \notin ToSet(file) =>
    at = Len(file) + 1 /\ SubSeq(code, 1, Len(file)) = file

(* The lexer goes over nothing in silence: a character of the lines it has  *)
(* accepted belongs to a token, or is a blank, a separator, the end of a    *)
(* line or part of a comment; and no token comes out of a comment.          *)
NothingLost ==
  ctl \in {"line", "done"} =>
    /\ \A p \in 1 .. at - 1 :
         Inside(p) \/ code[p] \in Blanks \cup {"\n", Comma, ":"} \/ p \in Comments
    /\ \A t \in Tokens : t.start \notin Comments

(* A line is a command, and a token knows its line: the tokens of a command *)
(* lie on one line and no other command is on it, counting the line ends    *)
(* that are not inside a quote.                                             *)
LinesAreCommands ==
  ctl \in {"line", "done"} =>
    /\ \A t \in Tokens :
         t.line = 1 + Cardinality({p \in 1 .. t.start - 1 : code[p] = "\n" /\ ~Inside(p)})
    /\ \A a, b \in DOMAIN vcmd : a # b => vcmd[a][1].line # vcmd[b][1].line
    /\ \A a \in DOMAIN vcmd : \A t \in ToSet(vcmd[a]) : t.line = vcmd[a][1].line

(* What the parser relies on without asking: a command has a name, behind   *)
(* its labels and nothing else, a label has a command, and a prefix has an  *)
(* operand (Action and Labelled of Assembler read the first two tokens).    *)
FitsParser ==
  \A c \in ToSet(vcmd) :
    \E n \in DOMAIN c :
      /\ c[n].type = "NAME" /\ \A m \in 1 .. n - 1 : c[m].type = "LABEL"
      /\ \A m \in n + 1 .. Len(c) :
           /\ c[m].type # "LABEL"
           /\ c[m].type \in {"RAM", "ADDR", "PTR", "DATA"} => m < Len(c) /\ c[m + 1].start = c[m].end

(* Lexer and parser look for the end of a string each in its own way: the   *)
(* parser takes the first quote like the one it starts with (strchr in      *)
(* action_declare). It never leaves the token, and finds the lexer's end    *)
(* if nothing in the string is escaped.                                     *)
QuotesAgree ==
  \A t \in {u \in Tokens : u.type \in {"STR", "CHAR"}} :
    \E first \in t.start + 1 .. t.end - 1 :
      /\ code[first] = code[t.start]
      /\ \A k \in t.start + 1 .. first - 1 : code[k] # code[t.start]
      /\ (\A k \in t.start .. t.end - 1 : code[k] # "\\") => first = t.end - 1

(* The lexer comes to an end on every text.                                 *)
Ends == <>(ctl \in {"done", "error", "undef"})

(* README.md: "declare zero, ?           ; create variable named zero". A   *)
(* comment after blanks ends a line: it is not refused after an operand.    *)
CommentsEndLines ==
  [][\A j \in DOMAIN code : AtOperand(j) =>
       \A o \in Operand(j) : code[SkipSpace(Ending(o))] = Semicolon => ctl' # "error"]_vars
=============================================================================
