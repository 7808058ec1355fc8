----------------------------- MODULE Lexer_proofs ------------------------------
(* The lexer reads the whole of every text, makes a command of each line   *)
(* that has one, passes over nothing but separators and comments, and      *)
(* gives the parser commands of the shape it relies on: for every file,    *)
(* chunk size and limit on the tokens of a command.                        *)
EXTENDS Lexer, FiniteSetTheorems, WellFoundedInduction, TLAPS

(* A set of numbers has a smallest element, a bounded one a largest. With  *)
(* these the proofs below argue by a least or last counterexample where    *)
(* the code loops over the text.                                           *)
LEMMA Smallest ==
  ASSUME NEW S \in SUBSET Nat, S # {}
  PROVE  \E m \in S : \A k \in S : m <= k
<1>1. PICK m \in S : \A k \in S : <<k, m>> \notin OpToRel(<, Nat)
  BY NatLessThanWellFounded, WFMin
<1>2. \A k \in S : ~(k < m)
  BY <1>1 DEF OpToRel
<1> QED
  BY <1>2

LEMMA Largest ==
  ASSUME NEW n \in Nat, NEW S \in SUBSET (0 .. n), S # {}
  PROVE  \E m \in S : \A k \in S : k <= m
<1> DEFINE T == {n - k : k \in S}
<1>1. \A k \in S : n - k \in Nat
  OBVIOUS
<1> T \subseteq Nat /\ T # {}
  BY <1>1
<1>2. PICK m \in T : \A k \in T : m <= k
  BY Smallest
<1>3. PICK s \in S : m = n - s
  OBVIOUS
<1>4. \A k \in S : n - s <= n - k
  BY <1>2, <1>3
<1> QED
  BY <1>4

-----------------------------------------------------------------------------
(* The inductive invariant, in parts.                                      *)

Modes == {"RAM", "ADDR", "PTR", "DATA"}

Values == {"NAME", "NUM", "CHAR", "STR", "AUTO"}

(* A text that has been loaded ends with a NUL character.                  *)
Text == code \in Seq(Characters) /\ Len(code) > 0 /\ code[Len(code)] = Nul

(* load_code leaves room for the NUL; the text is what it has read.        *)
Loading ==
  /\ codeSize \in Nat
  /\ ctl = "load" =>
       /\ Len(code) + 1 < codeSize /\ Len(code) <= Len(file) /\ code = SubSeq(file, 1, Len(code))
       /\ at = 1 /\ line = 1 /\ vcmd = <<>>
  /\ ctl # "load" =>
       \E n \in 0 .. Len(file) :
         code = Append(SubSeq(file, 1, n), Nul) /\ (file \notin FaultyFiles => n = Len(file))
  /\ ctl = "done" => code[at] = Nul

(* A command is written where a32_lexcmd_new has made room.                *)
Roomy ==
  /\ cmdsize > 0 /\ (ctl \in {"head", "operands"} => Len(vcmd) < cmdsize)
  /\ ctl \in {"load", "line", "done"} => tokens = <<>>

Typed == TypeOK /\ Loading /\ Roomy

WellFormed(c) ==
  \E n \in DOMAIN c :
    /\ c[n].type = "NAME" /\ \A m \in 1 .. n - 1 : c[m].type = "LABEL"
    /\ \A m \in n + 1 .. Len(c) :
         /\ c[m].type # "LABEL"
         /\ c[m].type \in Modes => m < Len(c) /\ c[m + 1].start = c[m].end

Shaped ==
  /\ \A c \in ToSet(vcmd) : WellFormed(c)
  /\ ctl = "head" => \A m \in DOMAIN tokens : tokens[m].type = "LABEL"
  /\ ctl = "operands" => WellFormed(tokens)

(* The tokens of the commands that are done, and of the current line.      *)
AllTokens == Tokens \cup ToSet(tokens)

Covers(T, p) == \E t \in T : p \in t.start .. t.end - 1

(* Is the lexer on a line of which it will make a command, or nothing?     *)
OnLine == ctl \in {"head", "operands"} \/ (ctl = "line" /\ code[at] # Nul)

(* The line ends before j and the comments, where the tokens are T.        *)
LineEnds(T, j) == {p \in 1 .. j - 1 : code[p] = "\n" /\ ~Covers(T, p)}

InComment(T, p) ==
  \E s \in 1 .. p : code[s] = Semicolon /\ ~Covers(T, s) /\ \A q \in s .. p : code[q] # "\n"

Behind == \A t \in AllTokens : 0 < t.start /\ t.start < t.end /\ t.end <= at

Numbered ==
  /\ OnLine => line = 1 + Cardinality(LineEnds(AllTokens, at))
  /\ \A t \in AllTokens : t.line = 1 + Cardinality(LineEnds(AllTokens, t.start))

Accounted ==
  /\ \A p \in 1 .. at - 1 :
       Covers(AllTokens, p) \/ code[p] \in Blanks \cup {"\n", Comma, ":"} \/ InComment(AllTokens, p)
  /\ OnLine => \A s \in 1 .. at - 1 :
       code[s] = Semicolon /\ ~Covers(AllTokens, s) => \E q \in s .. at - 1 : code[q] = "\n"
  /\ \A t \in AllTokens : ~InComment(AllTokens, t.start)

(* The commands have lines of their own.                                   *)
Distinct ==
  /\ \A t \in ToSet(tokens) : t.line = line
  /\ \A a \in DOMAIN vcmd : \A t \in ToSet(vcmd[a]) : t.line = vcmd[a][1].line /\ t.line < line
  /\ \A a, b \in DOMAIN vcmd : a # b => vcmd[a][1].line # vcmd[b][1].line

Quoted(t) ==
  \E first \in t.start + 1 .. t.end - 1 :
    /\ code[first] = code[t.start]
    /\ \A k \in t.start + 1 .. first - 1 : code[k] # code[t.start]
    /\ (\A k \in t.start .. t.end - 1 : code[k] # "\\") => first = t.end - 1

QuotesInv == \A t \in AllTokens : t.type \in {"STR", "CHAR"} => Quoted(t)

-----------------------------------------------------------------------------
LEMMA PastEnds ==
  ASSUME Text, NEW set, Nul \notin set, NEW j \in 1 .. Len(code)
  PROVE  /\ Past(set, j) \in j .. Len(code) /\ code[Past(set, j)] \notin set
         /\ \A k \in j .. Past(set, j) - 1 : code[k] \in set
<1> DEFINE S == {k \in j .. Len(code) : code[k] \notin set}
<1>1. S \in SUBSET Nat /\ Len(code) \in S /\ S \subseteq j .. Len(code)
  BY DEF Text
<1>2. \E m \in S : \A k \in S : m <= k
  BY <1>1, Smallest
<1>3. Past(set, j) \in S /\ \A k \in S : Past(set, j) <= k
  BY <1>2 DEF Past, Min
<1> QED
  BY <1>1, <1>3

-----------------------------------------------------------------------------
(* The recursive function of QuoteEnd, for the text from n on.             *)
Closing(end, k, q) ==
  IF code[k] \in {Nul, q} THEN k
  ELSE IF code[k] = "\\" /\ code[k + 1] # Nul THEN end[k + 2] ELSE end[k + 1]

Closes(end, n, q) == end = [k \in n .. Len(code) |-> Closing(end, k, q)]

LEMMA ClosesExtends ==
  ASSUME Text, NEW q, NEW n \in 1 .. Len(code) - 1, NEW g, Closes(g, n + 1, q)
  PROVE  \E end : Closes(end, n, q)
<1> DEFINE h == [k \in n .. Len(code) |-> IF k = n THEN Closing(g, n, q) ELSE g[k]]
<1>1. n \in Nat /\ Len(code) \in Nat /\ n < Len(code)
  BY DEF Text
<1>2. \A k \in n + 1 .. Len(code) : g[k] = Closing(g, k, q)
  BY DEF Closes
<1>3. \A k \in n + 1 .. Len(code) : h[k] = g[k]
  BY <1>1
<1>4. ASSUME NEW k \in n .. Len(code)
      PROVE  Closing(h, k, q) = Closing(g, k, q)
  <2>1. CASE code[k] \in {Nul, q}
    BY <2>1 DEF Closing
  <2>2. CASE code[k] \notin {Nul, q}
    <3>1. k + 1 \in n + 1 .. Len(code)
      BY <1>1, <2>2 DEF Text
    <3>2. code[k + 1] # Nul => k + 2 \in n + 1 .. Len(code)
      BY <1>1, <3>1 DEF Text
    <3> QED
      BY <1>3, <2>2, <3>1, <3>2 DEF Closing
  <2> QED
    BY <2>1, <2>2
<1>5. \A k \in n .. Len(code) : h[k] = Closing(g, k, q)
  BY <1>1, <1>2
<1>6. h = [k \in n .. Len(code) |-> Closing(h, k, q)]
  BY <1>4, <1>5
<1> QED
  BY <1>6 DEF Closes

LEMMA ClosesExists ==
  ASSUME Text, NEW q, NEW n \in 1 .. Len(code)
  PROVE  \E end : Closes(end, n, q)
<1> DEFINE S == {m \in 0 .. Len(code) : m > 0 /\ ~\E end : Closes(end, m, q)}
<1>1. Len(code) \in Nat \ {0} /\ code[Len(code)] = Nul
  BY DEF Text
<1>2. \E end : Closes(end, Len(code), q)
  <2>1. WITNESS [k \in Len(code) .. Len(code) |-> k]
  <2> QED
    BY <1>1 DEF Closes, Closing
<1>3. S = {}
  <2> SUFFICES ASSUME S # {} PROVE FALSE
    OBVIOUS
  <2>1. PICK m \in S : \A k \in S : k <= m
    BY <1>1, Largest
  <2>2. m \in 1 .. Len(code) - 1
    BY <1>1, <1>2, <2>1
  <2>3. m + 1 \notin S /\ m + 1 \in 0 .. Len(code)
    BY <2>1, <2>2
  <2>4. PICK g : Closes(g, m + 1, q)
    BY <2>2, <2>3
  <2> QED
    BY <2>1, <2>2, <2>4, ClosesExtends
<1> QED
  BY <1>1, <1>3

LEMMA QuoteEndCloses ==
  ASSUME Text, NEW j \in 1 .. Len(code) - 1
  PROVE  \E end : Closes(end, j + 1, code[j]) /\ QuoteEnd(j) = end[j + 1]
<1>1. \E end : Closes(end, j + 1, code[j])
  <2>1. j + 1 \in 1 .. Len(code)
    BY DEF Text
  <2> QED
    BY <2>1, ClosesExists
<1>2. Closes(CHOOSE end : Closes(end, j + 1, code[j]), j + 1, code[j])
  BY <1>1
<1>3. QuoteEnd(j) = (CHOOSE end : Closes(end, j + 1, code[j]))[j + 1]
  BY DEF QuoteEnd, Closes, Closing
<1> QED
  BY <1>2, <1>3

LEMMA ClosedWhere ==
  ASSUME Text, NEW q, NEW n \in 1 .. Len(code), NEW end, Closes(end, n, q)
  PROVE  /\ end[n] \in n .. Len(code) /\ code[end[n]] \in {Nul, q}
         /\ (\A i \in n .. end[n] - 1 : code[i] # "\\") => \A i \in n .. end[n] - 1 : code[i] \notin {Nul, q}
<1> DEFINE Good(k) == /\ end[k] \in k .. Len(code) /\ code[end[k]] \in {Nul, q}
                      /\ \/ \E i \in k .. end[k] - 1 : code[i] = "\\"
                         \/ \A i \in k .. end[k] - 1 : code[i] \notin {Nul, q}
<1> DEFINE S == {k \in 0 .. Len(code) : k >= n /\ ~Good(k)}
<1>1. Len(code) \in Nat \ {0} /\ code[Len(code)] = Nul
  BY DEF Text
<1>2. \A k \in n .. Len(code) : end[k] = Closing(end, k, q)
  BY DEF Closes
<1>3. S = {}
  <2> SUFFICES ASSUME S # {} PROVE FALSE
    OBVIOUS
  <2>1. PICK m \in S : \A k \in S : k <= m
    BY <1>1, Largest
  <2>2. m \in n .. Len(code) /\ end[m] = Closing(end, m, q) /\ ~Good(m)
    BY <1>1, <1>2, <2>1
  <2>3. \A k \in m + 1 .. Len(code) : Good(k)
    BY <1>1, <2>1, <2>2
  <2>4. code[m] \notin {Nul, q}
    BY <1>1, <2>2 DEF Closing
  <2>5. m + 1 \in m + 1 .. Len(code) /\ (code[m + 1] # Nul => m + 2 \in m + 1 .. Len(code))
    BY <1>1, <2>2, <2>4
  <2>6. CASE code[m] = "\\" /\ code[m + 1] # Nul
    <3>1. end[m] = end[m + 2] /\ Good(m + 2)
      BY <2>2, <2>3, <2>4, <2>5, <2>6 DEF Closing
    <3>2. m \in m .. end[m] - 1 /\ end[m] \in m .. Len(code)
      BY <1>1, <2>2, <3>1
    <3> QED
      BY <2>2, <2>6, <3>1, <3>2
  <2>7. CASE ~(code[m] = "\\" /\ code[m + 1] # Nul)
    <3>1. end[m] = end[m + 1] /\ Good(m + 1)
      BY <2>2, <2>3, <2>4, <2>5, <2>7 DEF Closing
    <3>2. m .. end[m] - 1 = {m} \cup (m + 1 .. end[m] - 1) /\ end[m] \in m .. Len(code)
      BY <1>1, <2>2, <3>1
    <3> QED
      BY <2>2, <2>4, <3>1, <3>2
  <2> QED
    BY <2>6, <2>7
<1>4. Good(n)
  BY <1>1, <1>3
<1> QED
  BY <1>4

(* What the scan for the closing quote finds.                              *)
LEMMA QuoteEnds ==
  ASSUME Text, NEW j \in 1 .. Len(code) - 1
  PROVE  /\ QuoteEnd(j) \in j + 1 .. Len(code) /\ code[QuoteEnd(j)] \in {Nul, code[j]}
         /\ (\A i \in j + 1 .. QuoteEnd(j) - 1 : code[i] # "\\")
               => \A i \in j + 1 .. QuoteEnd(j) - 1 : code[i] \notin {Nul, code[j]}
<1>1. j + 1 \in 1 .. Len(code)
  BY DEF Text
<1>2. PICK end : Closes(end, j + 1, code[j]) /\ QuoteEnd(j) = end[j + 1]
  BY QuoteEndCloses
<1>3. /\ end[j + 1] \in j + 1 .. Len(code) /\ code[end[j + 1]] \in {Nul, code[j]}
      /\ (\A i \in j + 1 .. end[j + 1] - 1 : code[i] # "\\")
            => \A i \in j + 1 .. end[j + 1] - 1 : code[i] \notin {Nul, code[j]}
  BY <1>1, <1>2, ClosedWhere
<1> QED
  BY <1>2, <1>3

-----------------------------------------------------------------------------
(* The tokens of an operand.                                               *)

LEMMA Alphabets ==
  /\ Nul \notin Blanks /\ Nul \notin Letters \cup Digits /\ Nul \notin DOMAIN PrefixType
  /\ Nul \notin Digits \cup {"-"} /\ Nul \notin DOMAIN QuoteType
  /\ (Letters \cup Digits) \cap (DOMAIN PrefixType \cup DOMAIN QuoteType \cup {"?", "\n", Semicolon}) = {}
  /\ Letters \cap (Digits \cup {"-"}) = {} /\ "?" \notin DOMAIN QuoteType \cup Digits
  /\ DOMAIN QuoteType \cap (Digits \cup {"-"}) = {}
  /\ Comma # Nul /\ Semicolon \notin Blanks \cup DOMAIN PrefixType \cup DOMAIN QuoteType \cup {Nul, "\n", Comma, ":"}
  /\ "\n" \notin Blanks \cup DOMAIN PrefixType \cup DOMAIN QuoteType /\ "\n" \notin {Nul, Comma}
  /\ \A c \in DOMAIN PrefixType : PrefixType[c] \in Modes
  /\ \A c \in DOMAIN QuoteType : QuoteType[c] \in {"STR", "CHAR"}
BY LexerAssumption DEF Nul, Semicolon, Comma, Blanks, PrefixType, QuoteType, Marks, Modes

LEMMA SpaceEnds ==
  ASSUME Text, NEW j \in 1 .. Len(code)
  PROVE  /\ SkipSpace(j) \in j .. Len(code) /\ code[SkipSpace(j)] \notin Blanks
         /\ \A k \in j .. SkipSpace(j) - 1 : code[k] \in Blanks
BY PastEnds, Alphabets DEF SkipSpace

LEMMA NameEnds ==
  ASSUME Text, NEW j \in 1 .. Len(code), code[j] \in Letters
  PROVE  NameEnd(j) \in j + 1 .. Len(code)
<1>1. NameEnd(j) \in j .. Len(code) /\ code[NameEnd(j)] \notin Letters \cup Digits
  BY PastEnds, Alphabets DEF NameEnd
<1>2. NameEnd(j) # j
  BY <1>1
<1> QED
  BY <1>1, <1>2 DEF Text

LEMMA OperandStarts ==
  ASSUME Text, NEW j \in 1 .. Len(code)
  PROVE  /\ OperandAt(j) \in j .. Len(code) /\ code[OperandAt(j)] \notin DOMAIN PrefixType
         /\ \A k \in j .. OperandAt(j) - 1 : code[k] \in DOMAIN PrefixType
BY PastEnds, Alphabets DEF OperandAt

(* The token that ends an operand, by the case of a32_arg_next.            *)
LEMMA CloserToken ==
  ASSUME Text, line \in Nat, NEW i \in 1 .. Len(code), NEW t \in Closer(i)
  PROVE  /\ t \in Token /\ t.type \in Values /\ t.line = line /\ t.start = i
         /\ t.end \in i + 1 .. Len(code) /\ WritesToken(i)
         /\ t.type \in {"STR", "CHAR"} =>
              /\ i < Len(code) /\ t.end = QuoteEnd(i) + 1
              /\ code[QuoteEnd(i)] # Nul /\ code[i] # Nul
<1>1. Len(code) \in Nat /\ i \in Nat /\ line \in Nat
  BY DEF Text
<1>2. CASE code[i] = "?"
  <2>0. code[i] \notin Digits \cup {"-"} /\ code[i] \notin DOMAIN QuoteType /\ code[i] \notin Letters
    BY <1>2, Alphabets
  <2>1. Closer(i) = {Tk("AUTO", i, i + 1)}
    BY <1>2, <2>0, Zenon DEF Closer
  <2>2. i # Len(code)
    BY <1>2 DEF Text, Nul
  <2> QED
    BY <1>1, <1>2, <2>1, <2>2 DEF Tk, Token, Values, WritesToken
<1>3. CASE code[i] \in Digits \cup {"-"}
  <2>1. code[i] # "?" /\ code[i] \notin DOMAIN QuoteType /\ code[i] \notin Letters
    BY <1>3, Alphabets
  <2>2. Closer(i) = {Tk("NUM", i, Past(Digits \cup {"-"}, i))}
    BY <1>3, <2>1, Zenon DEF Closer
  <2>3. Past(Digits \cup {"-"}, i) \in i .. Len(code) /\ code[Past(Digits \cup {"-"}, i)] \notin Digits \cup {"-"}
    BY PastEnds, Alphabets
  <2>4. Past(Digits \cup {"-"}, i) \in i + 1 .. Len(code)
    BY <1>1, <1>3, <2>3
  <2> QED
    BY <1>1, <1>3, <2>2, <2>4 DEF Tk, Token, Values, WritesToken
<1>4. CASE code[i] \in DOMAIN QuoteType
  <2>1. code[i] # "?" /\ code[i] \notin Digits \cup {"-"} /\ code[i] \notin Letters /\ code[i] # Nul
    BY <1>4, Alphabets
  <2>2. Closer(i) = {Tk(QuoteType[code[i]], i, k + 1) : k \in {e \in {QuoteEnd(i)} : code[e] # Nul}}
    BY <1>4, <2>1, Zenon DEF Closer
  <2>3. t = Tk(QuoteType[code[i]], i, QuoteEnd(i) + 1) /\ code[QuoteEnd(i)] # Nul
    BY <2>2
  <2>4. i \in 1 .. Len(code) - 1
    BY <1>1, <2>1 DEF Text
  <2>5. QuoteEnd(i) \in i + 1 .. Len(code) /\ QuoteEnd(i) # Len(code)
    BY <2>3, <2>4, QuoteEnds DEF Text
  <2>6. QuoteType[code[i]] \in {"STR", "CHAR"}
    BY <1>4, Alphabets
  <2>7. QuoteEnd(i) + 1 \in i + 1 .. Len(code) /\ QuoteEnd(i) + 1 \in Nat
    BY <1>1, <2>5
  <2> QED
    BY <1>1, <1>4, <2>1, <2>3, <2>4, <2>6, <2>7 DEF Tk, Token, Values, WritesToken
<1>5. CASE code[i] \in Letters
  <2>1. code[i] # "?" /\ code[i] \notin Digits \cup {"-"} /\ code[i] \notin DOMAIN QuoteType
    BY <1>5, Alphabets
  <2>2. t = Tk("NAME", i, NameEnd(i))
    BY <1>5, <2>1, Zenon DEF Closer
  <2>3. NameEnd(i) \in i + 1 .. Len(code)
    BY <1>5, NameEnds
  <2> QED
    BY <1>1, <1>5, <2>2, <2>3 DEF Tk, Token, Values, WritesToken
<1> QED
  BY <1>2, <1>3, <1>4, <1>5 DEF Closer

(* An operand: prefixes and a value, side by side, from j to its end.      *)
LEMMA OperandTokens ==
  ASSUME Text, line \in Nat, NEW j \in 1 .. Len(code), NEW o \in Operand(j)
  PROVE  /\ o \in Seq(Token) /\ Len(o) = Written(j) /\ Len(o) \in Nat \ {0}
         /\ Ending(o) \in j + 1 .. Len(code)
         /\ \A m \in 1 .. Len(o) - 1 : /\ o[m].type \in Modes /\ o[m].line = line
                                       /\ o[m].start = j + m - 1 /\ o[m].end = j + m
         /\ o[Len(o)].start = j + Len(o) - 1
         /\ o[Len(o)] \in Closer(j + Len(o) - 1) /\ j + Len(o) - 1 \in 1 .. Len(code)
<1> DEFINE n == OperandAt(j) - j
<1>1. /\ n \in Nat /\ OperandAt(j) = j + n /\ j + n \in 1 .. Len(code) /\ j \in Nat
      /\ Len(code) \in Nat /\ line \in Nat
  BY OperandStarts DEF Text
<1>2. PICK t \in Closer(j + n) : o = PrefixTokens(j) \o <<t>>
  BY <1>1 DEF Operand
<1>3. t \in Token /\ t.start = j + n /\ t.end \in j + n + 1 .. Len(code) /\ WritesToken(j + n)
  BY <1>1, <1>2, CloserToken
<1>4. \A m \in 1 .. n : PrefixType[code[j + m - 1]] \in Modes
  <2>1. \A m \in 1 .. n : j + m - 1 \in j .. OperandAt(j) - 1
    BY <1>1
  <2> QED
    BY <2>1, OperandStarts, Alphabets
<1>5. PrefixTokens(j) = [m \in 1 .. n |-> Tk(PrefixType[code[j + m - 1]], j + m - 1, j + m)]
  BY DEF PrefixTokens
<1> HIDE DEF n
<1>6. \A m \in 1 .. n : Tk(PrefixType[code[j + m - 1]], j + m - 1, j + m) \in Token
  <2> SUFFICES ASSUME NEW m \in 1 .. n
               PROVE  Tk(PrefixType[code[j + m - 1]], j + m - 1, j + m) \in Token
    OBVIOUS
  <2>1. j + m - 1 \in Nat /\ j + m \in Nat
    BY <1>1
  <2>2. PrefixType[code[j + m - 1]] \in Modes
    BY <1>4
  <2> QED
    BY <1>1, <2>1, <2>2 DEF Tk, Token, Modes
<1>7. PrefixTokens(j) \in Seq(Token) /\ Len(PrefixTokens(j)) = n
  <2> DEFINE f == [m \in 1 .. n |-> Tk(PrefixType[code[j + m - 1]], j + m - 1, j + m)]
  <2>1. f \in [1 .. n -> Token]
    BY <1>6
  <2> HIDE DEF f
  <2>2. f \in Seq(Token) /\ Len(f) = n
    BY <1>1, <2>1
  <2> USE DEF f
  <2> QED
    BY <1>5, <2>2
<1>8. /\ o \in Seq(Token) /\ Len(o) = n + 1 /\ o[n + 1] = t
      /\ \A m \in 1 .. n : o[m] = Tk(PrefixType[code[j + m - 1]], j + m - 1, j + m)
  BY <1>1, <1>2, <1>3, <1>5, <1>7
<1>9. Written(j) = n + 1
  BY <1>1, <1>3 DEF Written
<1>10. \A m \in 1 .. Len(o) - 1 : /\ o[m].type \in Modes /\ o[m].line = line
                                  /\ o[m].start = j + m - 1 /\ o[m].end = j + m
  <2> SUFFICES ASSUME NEW m \in 1 .. n
               PROVE  /\ o[m].type \in Modes /\ o[m].line = line
                      /\ o[m].start = j + m - 1 /\ o[m].end = j + m
    BY <1>1, <1>8
  <2>1. o[m] = Tk(PrefixType[code[j + m - 1]], j + m - 1, j + m) /\ PrefixType[code[j + m - 1]] \in Modes
    BY <1>4, <1>8
  <2> QED
    BY <2>1 DEF Tk
<1>11. Ending(o) \in j + 1 .. Len(code)
  BY <1>1, <1>3, <1>8 DEF Ending
<1>12. Len(o) = n + 1 /\ j + Len(o) - 1 = j + n /\ o[Len(o)] = t /\ Len(o) \in Nat \ {0}
  BY <1>1, <1>8
<1> QED
  BY <1>1, <1>3, <1>8, <1>9, <1>10, <1>11, <1>12

LEMMA QuotedToken ==
  ASSUME Text, line \in Nat, NEW i \in 1 .. Len(code), NEW t \in Closer(i), t.type \in {"STR", "CHAR"}
  PROVE  Quoted(t)
<1> DEFINE e == QuoteEnd(i)
<1>1. i \in 1 .. Len(code) - 1 /\ Len(code) \in Nat /\ t.start = i /\ t.end = e + 1 /\ code[e] # Nul
  BY CloserToken DEF Text
<1>2. e \in i + 1 .. Len(code) /\ code[e] = code[i]
  BY <1>1, QuoteEnds
<1>3. (\A k \in i + 1 .. e - 1 : code[k] # "\\") => \A k \in i + 1 .. e - 1 : code[k] # code[i]
  BY <1>1, QuoteEnds
<1> DEFINE S == {k \in i + 1 .. e : code[k] = code[i]}
<1> HIDE DEF e
<1>4. S \in SUBSET Nat /\ e \in S
  BY <1>1, <1>2
<1>5. PICK first \in S : \A k \in S : first <= k
  BY <1>4, Smallest
<1>6. first \in i + 1 .. e /\ code[first] = code[i]
  BY <1>5
<1>7. \A k \in i + 1 .. first - 1 : code[k] # code[i]
  BY <1>1, <1>2, <1>5, <1>6
<1>8. (\A k \in i .. e : code[k] # "\\") => first = e
  BY <1>1, <1>2, <1>3, <1>6
<1>9. t.start + 1 = i + 1 /\ t.end - 1 = e /\ t.start .. t.end - 1 = i .. e
  BY <1>1, <1>2
<1> QED
  BY <1>1, <1>6, <1>7, <1>8, <1>9, Zenon DEF Quoted

(* A line that ends at j: the next begins after its "\n", if there is one. *)
LEMMA NextLineStarts ==
  ASSUME Text, NEW j \in 1 .. Len(code), EndsLine(j)
  PROVE  /\ NextLine(j) \in j .. Len(code)
         /\ \A p \in j .. NextLine(j) - 2 : code[p] # "\n"
         /\ code[NextLine(j)] # Nul => NextLine(j) > j /\ code[NextLine(j) - 1] = "\n"
         /\ NextLine(j) > j /\ code[j] # Semicolon => NextLine(j) = j + 1 /\ code[j] = "\n"
<1> DEFINE e == IF code[j] = Semicolon THEN Past(Characters \ {"\n", Nul}, j) ELSE j
<1>1. /\ e \in j .. Len(code) /\ code[e] \in {"\n", Nul} /\ \A p \in j .. e - 1 : code[p] # "\n"
      /\ e > j => code[j] = Semicolon
  <2>1. CASE code[j] = Semicolon
    <3>1. /\ e \in j .. Len(code) /\ code[e] \notin Characters \ {"\n", Nul}
          /\ \A p \in j .. e - 1 : code[p] \in Characters \ {"\n", Nul}
      BY <2>1, PastEnds
    <3>2. code[e] \in Characters
      BY <3>1 DEF Text
    <3> QED
      BY <2>1, <3>1, <3>2
  <2>2. CASE code[j] # Semicolon
    BY <2>2 DEF EndsLine, Text
  <2> QED
    BY <2>1, <2>2
<1>2. NextLine(j) = IF code[e] = Nul THEN e ELSE e + 1
  BY DEF NextLine
<1> HIDE DEF e
<1>3. Len(code) \in Nat /\ code[Len(code)] = Nul /\ Nul # "\n"
  BY DEF Text, Nul
<1>4. CASE code[e] = Nul
  BY <1>1, <1>2, <1>3, <1>4
<1>5. CASE code[e] # Nul
  <2>1. NextLine(j) = e + 1 /\ code[e] = "\n" /\ e # Len(code)
    BY <1>1, <1>2, <1>3, <1>5
  <2>2. e + 1 - 1 = e /\ e + 1 - 2 = e - 1
    BY <1>1
  <2>3. e + 1 \in j .. Len(code) /\ e + 1 > j
    BY <1>1, <1>3, <2>1
  <2>4. code[j] # Semicolon => e = j
    BY <1>1
  <2> QED
    BY <1>1, <2>1, <2>2, <2>3, <2>4
<1> QED
  BY <1>4, <1>5

-----------------------------------------------------------------------------
(* What the steps of the lexer on a line have in common: they read the     *)
(* tokens o from the text up to e, with nothing but blanks, commas and      *)
(* colons between them.                                                     *)

OperandShaped(o) ==
  /\ o # <<>> /\ o[Len(o)].type \in Values
  /\ \A m \in 1 .. Len(o) - 1 : o[m].type \in Modes /\ o[m + 1].start = o[m].end

Reads(o, e) ==
  /\ OnLine
  /\ o \in Seq(Token) /\ Len(tokens) + Len(o) <= A32_MAX_TOKEN
  /\ e \in at .. Len(code)
  /\ \A t \in ToSet(o) : /\ t.line = line /\ at <= t.start /\ t.start < t.end /\ t.end <= e
                         /\ t.type \in {"STR", "CHAR"} => Quoted(t)
  /\ \A p \in at .. e - 1 : Covers(ToSet(o), p) \/ code[p] \in Blanks \cup {Comma, ":"}

Within(o) ==
  /\ Reads(o, at') /\ UNCHANGED <<file, code, codeSize>>
  /\ tokens' = tokens \o o /\ UNCHANGED <<line, vcmd>>
  /\ \/ /\ ctl = "line" /\ ctl' = "head" /\ o = <<>>
        /\ cmdsize' = IF Len(vcmd) = cmdsize THEN 2 * cmdsize ELSE cmdsize
     \/ ctl = "head" /\ ctl' = "head" /\ (\E x \in Token : o = <<x>> /\ x.type = "LABEL") /\ UNCHANGED cmdsize
     \/ ctl = "head" /\ ctl' = "operands" /\ (\E x \in Token : o = <<x>> /\ x.type = "NAME") /\ UNCHANGED cmdsize
     \/ ctl = "operands" /\ ctl' = "operands" /\ OperandShaped(o) /\ UNCHANGED cmdsize

Across(o, e) ==
  /\ Reads(o, e) /\ EndsLine(e) /\ LineDone(e) /\ tokens' = <<>>
  /\ UNCHANGED <<file, code, codeSize, cmdsize>>
  /\ \/ ctl = "line" /\ o = <<>> /\ UNCHANGED vcmd
     \/ ctl = "operands" /\ (o = <<>> \/ OperandShaped(o)) /\ vcmd' = Append(vcmd, tokens \o o)

Stops ==
  /\ ctl' \in {"done", "error", "undef"} /\ (ctl' = "done" => ctl = "line" /\ code[at] = Nul)
  /\ ctl # "load" /\ UNCHANGED <<file, code, codeSize, lvars>>

LEMMA TypedText ==
  ASSUME Typed, ctl # "load"
  PROVE  /\ Text /\ at \in 1 .. Len(code) /\ line \in Nat /\ cmdsize \in Nat /\ Len(code) \in Nat
         /\ tokens \in Seq(Token) /\ Len(tokens) <= A32_MAX_TOKEN /\ Len(tokens) \in Nat
         /\ vcmd \in Seq(Seq(Token))
<1>1. code \in Seq(Characters) /\ file \in Seq(Characters)
  BY DEF Typed, TypeOK
<1>2. PICK n \in 0 .. Len(file) : code = Append(SubSeq(file, 1, n), Nul)
  BY DEF Typed, Loading
<1>3. SubSeq(file, 1, n) \in Seq(Characters) /\ Len(SubSeq(file, 1, n)) = n
  BY <1>1
<1>4. Len(code) = n + 1 /\ code[n + 1] = Nul
  BY <1>2, <1>3
<1> QED
  BY <1>1, <1>4 DEF Typed, TypeOK, Text

LEMMA NewCommandWithin ==
  ASSUME Typed, NewCommand
  PROVE  Within(<<>>)
<1>1. ctl = "line" /\ OnLine /\ Text /\ at \in 1 .. Len(code) /\ at' = SkipSpace(at)
  BY TypedText DEF NewCommand, AtLine, OnLine
<1>2. /\ at' \in at .. Len(code) /\ \A p \in at .. at' - 1 : code[p] \in Blanks
  BY <1>1, SpaceEnds
<1>3. tokens = <<>> /\ tokens \o <<>> = tokens /\ Len(tokens) + Len(<<>>) <= A32_MAX_TOKEN
  BY <1>1, LexerAssumption DEF Typed, Roomy
<1>4. ToSet(<<>>) = {} /\ <<>> \in Seq(Token)
  BY DEF ToSet
<1> QED
  BY <1>1, <1>2, <1>3, <1>4 DEF NewCommand, Within, Reads

LEMMA EmptyLineAcross ==
  ASSUME Typed, EmptyLine
  PROVE  Across(<<>>, SkipSpace(at))
<1>1. ctl = "line" /\ OnLine /\ Text /\ at \in 1 .. Len(code)
  BY TypedText DEF EmptyLine, AtLine, OnLine
<1>2. /\ SkipSpace(at) \in at .. Len(code) /\ \A p \in at .. SkipSpace(at) - 1 : code[p] \in Blanks
  BY <1>1, SpaceEnds
<1>3. tokens = <<>> /\ Len(tokens) + Len(<<>>) <= A32_MAX_TOKEN
  BY <1>1, LexerAssumption DEF Typed, Roomy
<1>4. ToSet(<<>>) = {} /\ <<>> \in Seq(Token)
  BY DEF ToSet
<1> QED
  BY <1>1, <1>2, <1>3, <1>4 DEF EmptyLine, Across, Reads

(* The token of a label or of a name, with what follows it up to e.        *)
LEMMA HeadReads ==
  ASSUME Typed, HeadName, NEW type \in {"LABEL", "NAME"}, NEW e \in NameEnd(at) .. Len(code),
         \A p \in NameEnd(at) .. e - 1 : code[p] \in Blanks \cup {":"}
  PROVE  Reads(<<Tk(type, at, NameEnd(at))>>, e)
<1>1. /\ ctl = "head" /\ OnLine /\ Text /\ at \in 1 .. Len(code) /\ line \in Nat /\ Len(code) \in Nat
      /\ Len(tokens) \in Nat /\ Len(tokens) < A32_MAX_TOKEN /\ code[at] \in Letters
  BY TypedText DEF HeadName, OnLine
<1>2. NameEnd(at) \in at + 1 .. Len(code)
  BY <1>1, NameEnds
<1> DEFINE tk == Tk(type, at, NameEnd(at))
<1>3. /\ tk \in Token /\ tk.type = type /\ tk.start = at /\ tk.end = NameEnd(at) /\ tk.line = line
  BY <1>1, <1>2 DEF Tk, Token
<1> HIDE DEF tk
<1>4. ToSet(<<tk>>) = {tk} /\ <<tk>> \in Seq(Token) /\ Len(<<tk>>) = 1
  BY <1>3 DEF ToSet
<1>5. \A p \in at .. e - 1 : p \in at .. NameEnd(at) - 1 \/ p \in NameEnd(at) .. e - 1
  BY <1>1, <1>2
<1>6. \A p \in at .. e - 1 : Covers({tk}, p) \/ code[p] \in Blanks \cup {Comma, ":"}
  BY <1>3, <1>5 DEF Covers
<1>7. e \in at .. Len(code) /\ at < NameEnd(at) /\ NameEnd(at) <= e /\ Len(tokens) + 1 <= A32_MAX_TOKEN
  BY <1>1, <1>2, LexerAssumption
<1>8. \A u \in ToSet(<<tk>>) : /\ u.line = line /\ at <= u.start /\ u.start < u.end /\ u.end <= e
                               /\ u.type \in {"STR", "CHAR"} => Quoted(u)
  BY <1>1, <1>3, <1>4, <1>7
<1>9. \A p \in at .. e - 1 : Covers(ToSet(<<tk>>), p) \/ code[p] \in Blanks \cup {Comma, ":"}
  BY <1>4, <1>6
<1>10. Len(tokens) + Len(<<tk>>) <= A32_MAX_TOKEN
  BY <1>4, <1>7
<1>11. \A o : o = <<tk>> => Reads(o, e)
  BY <1>1, <1>4, <1>7, <1>8, <1>9, <1>10 DEF Reads
<1> QED
  BY <1>11 DEF tk

LEMMA LabelWithin ==
  ASSUME Typed, Label
  PROVE  Within(<<Tk("LABEL", at, NameEnd(at))>>)
<1>1. /\ ctl = "head" /\ Text /\ at \in 1 .. Len(code) /\ HeadName /\ code[NameEnd(at)] = ":"
      /\ code[at] \in Letters /\ at' = SkipSpace(NameEnd(at) + 1)
  BY TypedText DEF Label, HeadName
<1>2. NameEnd(at) \in at + 1 .. Len(code) /\ NameEnd(at) # Len(code) /\ Len(code) \in Nat
  BY <1>1, NameEnds DEF Text, Nul
<1>3. NameEnd(at) + 1 \in 1 .. Len(code)
  BY <1>1, <1>2
<1>4. /\ at' \in NameEnd(at) + 1 .. Len(code)
      /\ \A p \in NameEnd(at) + 1 .. at' - 1 : code[p] \in Blanks
  BY <1>1, <1>3, SpaceEnds
<1>5. /\ at' \in NameEnd(at) .. Len(code)
      /\ \A p \in NameEnd(at) .. at' - 1 : p = NameEnd(at) \/ p \in NameEnd(at) + 1 .. at' - 1
  BY <1>1, <1>2, <1>4
<1>6. Reads(<<Tk("LABEL", at, NameEnd(at))>>, at')
  BY <1>1, <1>4, <1>5, HeadReads
<1> QED
  <2>1. Tk("LABEL", at, NameEnd(at)) \in Token /\ Tk("LABEL", at, NameEnd(at)).type = "LABEL"
    BY <1>1, <1>2, TypedText DEF Tk, Token
  <2> QED
    BY <1>1, <1>6, <2>1 DEF Label, Within

LEMMA NameWithin ==
  ASSUME Typed, Name
  PROVE  Within(<<Tk("NAME", at, NameEnd(at))>>)
<1>1. /\ ctl = "head" /\ Text /\ at \in 1 .. Len(code) /\ HeadName /\ at' = NameEnd(at)
      /\ code[at] \in Letters
  BY TypedText DEF Name, HeadName
<1>2. NameEnd(at) \in at + 1 .. Len(code)
  BY <1>1, NameEnds
<1>3. NameEnd(at) \in NameEnd(at) .. Len(code) /\ NameEnd(at) .. NameEnd(at) - 1 = {}
  BY <1>1, <1>2
<1>4. Reads(<<Tk("NAME", at, NameEnd(at))>>, at')
  BY <1>1, <1>3, HeadReads
<1> QED
  <2>1. Tk("NAME", at, NameEnd(at)) \in Token /\ Tk("NAME", at, NameEnd(at)).type = "NAME"
    BY <1>1, <1>2, TypedText DEF Tk, Token
  <2> QED
    BY <1>1, <1>4, <2>1 DEF Name, Within

(* What a32_arg_next reads at j, which is where the next argument starts.  *)
LEMMA ElementIn ==
  ASSUME NEW s, NEW m \in DOMAIN s
  PROVE  s[m] \in ToSet(s)
BY DEF ToSet

LEMMA OperandReads ==
  ASSUME Typed, NEW j \in 1 .. Len(code), AtOperand(j), ~Overflows(j), NEW o \in Operand(j)
  PROVE  /\ Reads(o, Ending(o)) /\ OperandShaped(o) /\ Ending(o) \in at + 1 .. Len(code)
<1>1. /\ ctl = "operands" /\ OnLine /\ Text /\ at \in 1 .. Len(code) /\ line \in Nat
      /\ Len(code) \in Nat /\ Len(tokens) \in Nat /\ j = SkipSpace(at)
  BY TypedText DEF AtOperand, OnLine
<1>2. j \in at .. Len(code) /\ \A p \in at .. j - 1 : code[p] \in Blanks
  BY <1>1, SpaceEnds
<1> DEFINE n == Len(o)
           i == j + Len(o) - 1
<1>3. /\ o \in Seq(Token) /\ n = Written(j) /\ n \in Nat \ {0}
      /\ Ending(o) \in j + 1 .. Len(code)
      /\ \A m \in 1 .. n - 1 : /\ o[m].type \in Modes /\ o[m].line = line
                               /\ o[m].start = j + m - 1 /\ o[m].end = j + m
      /\ o[n].start = i /\ o[n] \in Closer(i) /\ i \in 1 .. Len(code)
  BY <1>1, OperandTokens
<1>4. /\ o[n].type \in Values /\ o[n].line = line /\ o[n].end = Ending(o) /\ i < o[n].end
      /\ o[n].type \in {"STR", "CHAR"} => Quoted(o[n])
  BY <1>1, <1>3, CloserToken, QuotedToken DEF Ending
<1>5. i = j + n - 1
  OBVIOUS
<1> HIDE DEF n, i
<1>0. /\ j \in Nat \ {0} /\ at \in Nat \ {0} /\ at <= j /\ n \in Nat \ {0} /\ i \in Nat
      /\ Ending(o) \in Nat /\ i < Ending(o) /\ i = j + n - 1
  BY <1>1, <1>2, <1>3, <1>4, <1>5
<1>6. OperandShaped(o)
  <2>1. ASSUME NEW m \in 1 .. n - 1
        PROVE  o[m].type \in Modes /\ o[m + 1].start = o[m].end
    <3>1. (m + 1 = n \/ m + 1 \in 1 .. n - 1) /\ m \in Nat
      BY <1>0
    <3>2. o[m + 1].start = j + (m + 1) - 1
      BY <1>0, <1>3, <3>1
    <3>3. j + (m + 1) - 1 = j + m
      BY <1>0, <3>1
    <3> QED
      BY <1>3, <3>2, <3>3
  <2>2. n = Len(o) /\ o # <<>>
    BY <1>3 DEF n
  <2> QED
    BY <1>4, <2>1, <2>2 DEF OperandShaped
<1>7. n = Len(o)
  BY DEF n
<1>8. \A t \in ToSet(o) : \E m \in 1 .. n : t = o[m]
  BY <1>3, <1>7 DEF ToSet
<1>9. ASSUME NEW m \in 1 .. n
      PROVE  /\ o[m].line = line /\ at <= o[m].start /\ o[m].start < o[m].end /\ o[m].end <= Ending(o)
             /\ o[m].type \in {"STR", "CHAR"} => Quoted(o[m])
             /\ o[m].start = j + m - 1
  <2>1. CASE m = n
    BY <1>1, <1>2, <1>3, <1>4, <1>5, <2>1
  <2>2. CASE m \in 1 .. n - 1
    <3>1. /\ o[m].type \in Modes /\ o[m].line = line /\ o[m].start = j + m - 1 /\ o[m].end = j + m
      BY <1>3, <2>2
    <3>2. at <= j + m - 1 /\ j + m - 1 < j + m /\ j + m <= Ending(o)
      BY <1>0, <2>2
    <3> QED
      BY <3>1, <3>2 DEF Modes
  <2> QED
    BY <1>3, <2>1, <2>2
<1>10. ASSUME NEW p \in at .. Ending(o) - 1
       PROVE  Covers(ToSet(o), p) \/ code[p] \in Blanks \cup {Comma, ":"}
  <2>1. CASE p \in at .. j - 1
    BY <1>2, <2>1
  <2>2. CASE p \in j .. i - 1
    <3>1. p - j + 1 \in 1 .. n - 1 /\ p \in Nat
      BY <1>0, <2>2
    <3>2. o[p - j + 1].start = j + (p - j + 1) - 1 /\ o[p - j + 1].end = j + (p - j + 1)
      BY <1>3, <3>1
    <3>3. o[p - j + 1] \in ToSet(o)
      <4>1. p - j + 1 \in DOMAIN o
        BY <1>3, <1>7, <3>1
      <4> QED
        BY <4>1, ElementIn
    <3>4. p \in j + (p - j + 1) - 1 .. j + (p - j + 1) - 1
      BY <1>0, <3>1
    <3>5. p \in o[p - j + 1].start .. o[p - j + 1].end - 1
      BY <3>2, <3>4
    <3> QED
      BY <3>3, <3>5, Zenon DEF Covers
  <2>3. CASE p \in i .. Ending(o) - 1
    <3>1. o[n] \in ToSet(o)
      BY <1>3, <1>7 DEF ToSet
    <3> QED
      BY <1>3, <1>4, <2>3, <3>1 DEF Covers
  <2> QED
    <3>1. p \in at .. j - 1 \/ p \in j .. i - 1 \/ p \in i .. Ending(o) - 1
      BY <1>0
    <3> QED
      BY <3>1, <2>1, <2>2, <2>3
<1>11. Len(tokens) + Len(o) <= A32_MAX_TOKEN
  BY <1>3, <1>7 DEF Overflows, Fits
<1>12. Ending(o) \in at + 1 .. Len(code) /\ Ending(o) \in at .. Len(code)
  BY <1>1, <1>2, <1>3
<1>13. \A t \in ToSet(o) : /\ t.line = line /\ at <= t.start /\ t.start < t.end /\ t.end <= Ending(o)
                           /\ t.type \in {"STR", "CHAR"} => Quoted(t)
  BY <1>8, <1>9
<1> QED
  BY <1>1, <1>3, <1>6, <1>10, <1>11, <1>12, <1>13 DEF Reads

LEMMA NoMoreOperandsAcross ==
  ASSUME Typed, NoMoreOperands
  PROVE  Across(<<>>, SkipSpace(at))
<1>1. /\ ctl = "operands" /\ OnLine /\ Text /\ at \in 1 .. Len(code) /\ tokens \in Seq(Token)
      /\ Len(tokens) <= A32_MAX_TOKEN /\ Len(tokens) \in Nat
  BY TypedText DEF NoMoreOperands, OnLine
<1>2. /\ SkipSpace(at) \in at .. Len(code) /\ \A p \in at .. SkipSpace(at) - 1 : code[p] \in Blanks
  BY <1>1, SpaceEnds
<1>3. tokens \o <<>> = tokens /\ Len(tokens) + Len(<<>>) <= A32_MAX_TOKEN
  BY <1>1
<1>4. ToSet(<<>>) = {} /\ <<>> \in Seq(Token)
  BY DEF ToSet
<1> QED
  BY <1>1, <1>2, <1>3, <1>4 DEF NoMoreOperands, CommandDone, Across, Reads

LEMMA LastOperandAcross ==
  ASSUME Typed, LastOperand
  PROVE  \E o, e : Across(o, e)
<1>1. PICK j \in 1 .. Len(code) :
        /\ AtOperand(j) /\ ~Overflows(j)
        /\ \E o \in Operand(j) : EndsLine(Ending(o)) /\ CommandDone(tokens \o o, Ending(o))
  BY DEF LastOperand
<1>2. PICK o \in Operand(j) : EndsLine(Ending(o)) /\ CommandDone(tokens \o o, Ending(o))
  BY <1>1
<1>3. Reads(o, Ending(o)) /\ OperandShaped(o) /\ ctl = "operands"
  BY <1>1, OperandReads DEF AtOperand
<1>4. Across(o, Ending(o))
  BY <1>2, <1>3 DEF CommandDone, Across
<1> QED
  BY <1>4

LEMMA NextOperandWithin ==
  ASSUME Typed, NextOperand
  PROVE  \E o : Within(o)
<1>1. PICK j \in 1 .. Len(code) :
        /\ AtOperand(j) /\ ~Overflows(j)
        /\ \E o \in Operand(j) :
             code[Ending(o)] = Comma /\ tokens' = tokens \o o /\ at' = Ending(o) + 1
        /\ UNCHANGED <<file, code, codeSize, line, vcmd, cmdsize, ctl>>
  BY DEF NextOperand
<1>2. PICK o \in Operand(j) :
        code[Ending(o)] = Comma /\ tokens' = tokens \o o /\ at' = Ending(o) + 1
  BY <1>1
<1>3. /\ Reads(o, Ending(o)) /\ OperandShaped(o) /\ ctl = "operands"
      /\ Ending(o) \in at + 1 .. Len(code)
  BY <1>1, OperandReads DEF AtOperand
<1>4. at \in Nat \ {0} /\ Len(code) \in Nat /\ Ending(o) # Len(code)
  <2>1. Text /\ at \in 1 .. Len(code)
    BY <1>3, TypedText
  <2>2. code[Ending(o)] # Nul
    BY <1>2, Alphabets
  <2> QED
    BY <2>1, <2>2 DEF Text
<1> DEFINE e == Ending(o)
<1> HIDE DEF e
<1>5. e \in at + 1 .. Len(code) /\ e # Len(code) /\ at' = e + 1 /\ code[e] = Comma /\ Reads(o, e)
  BY <1>2, <1>3, <1>4 DEF e
<1>6. at' \in at .. Len(code) /\ \A p \in at .. at' - 1 : p = e \/ p \in at .. e - 1
  <2>1. e \in at + 1 .. Len(code) /\ e # Len(code) /\ at' = e + 1
    BY <1>5
  <2> QED
    BY <1>4, <2>1
<1>7. \A t \in ToSet(o) : t \in Token /\ t.end <= at'
  <2>1. \A t \in ToSet(o) : t \in Token /\ t.end <= e
    BY <1>5 DEF Reads, ToSet
  <2>2. \A t \in Token : t.end \in Nat
    BY DEF Token
  <2> QED
    BY <1>4, <1>5, <2>1, <2>2
<1>8. Reads(o, at')
  BY <1>5, <1>6, <1>7 DEF Reads
<1>9. Within(o)
  BY <1>1, <1>2, <1>3, <1>8 DEF Within
<1> QED
  BY <1>9

(* Every step of the lexer is one of these.                                *)
LEMMA StepKinds ==
  ASSUME Typed, Next
  PROVE  ReadChunk \/ Loaded \/ Stops \/ (\E o : Within(o)) \/ (\E o, e : Across(o, e))
<1>1. CASE EmptyLine \/ NoMoreOperands
  BY <1>1, EmptyLineAcross, NoMoreOperandsAcross
<1>2. CASE NewCommand \/ Label \/ Name
  BY <1>2, NewCommandWithin, LabelWithin, NameWithin
<1>3. CASE NoMemory \/ Finish
  BY <1>3 DEF NoMemory, Finish, AtLine, Stop, Stops
<1>4. CASE HeadRefused \/ HeadOverflow
  BY <1>4 DEF HeadRefused, HeadOverflow, Stop, Stops
<1>5. CASE OperandRefused \/ OperandOverflow
  BY <1>5 DEF OperandRefused, OperandOverflow, AtOperand, Stop, Stops
<1> QED
  BY <1>1, <1>2, <1>3, <1>4, <1>5, LastOperandAcross, NextOperandWithin DEF Next

-----------------------------------------------------------------------------
(* Typing.                                                                 *)

LEMMA ToSetAppend ==
  ASSUME NEW S, NEW s \in Seq(S), NEW x \in S
  PROVE  ToSet(Append(s, x)) = ToSet(s) \cup {x}
<1>1. /\ Append(s, x) \in Seq(S) /\ DOMAIN s = 1 .. Len(s) /\ Len(s) \in Nat
      /\ DOMAIN Append(s, x) = 1 .. Len(s) + 1
      /\ \A i \in 1 .. Len(s) : Append(s, x)[i] = s[i]
      /\ Append(s, x)[Len(s) + 1] = x
  OBVIOUS
<1> DEFINE a == Append(s, x)
           n == Len(s)
<1> HIDE DEF a, n
<1>2. DOMAIN s = 1 .. n /\ n \in Nat /\ DOMAIN a = 1 .. n + 1 /\ (\A i \in 1 .. n : a[i] = s[i]) /\ a[n + 1] = x
  BY <1>1 DEF a, n
<1>3. 1 .. n + 1 = (1 .. n) \cup {n + 1}
  BY <1>2
<1>4. ToSet(a) = ToSet(s) \cup {x}
  BY <1>2, <1>3 DEF ToSet
<1> QED
  BY <1>4 DEF a

LEMMA ConcatAt ==
  ASSUME NEW S, NEW s \in Seq(S), NEW t \in Seq(S), NEW d, d = s \o t
  PROVE  /\ Len(s) \in Nat /\ Len(t) \in Nat /\ Len(d) = Len(s) + Len(t) /\ d \in Seq(S)
         /\ DOMAIN s = 1 .. Len(s) /\ DOMAIN t = 1 .. Len(t) /\ DOMAIN d = 1 .. Len(s) + Len(t)
         /\ \A i \in 1 .. Len(s) : d[i] = s[i]
         /\ \A i \in 1 .. Len(t) : d[Len(s) + i] = t[i]
<1> DEFINE n == Len(s)
           k == Len(t)
<1>1. /\ n \in Nat /\ k \in Nat /\ Len(d) = n + k /\ DOMAIN s = 1 .. n /\ DOMAIN d = 1 .. n + k
      /\ \A i \in 1 .. n : d[i] = s[i]
      /\ \A i \in n + 1 .. n + k : d[i] = t[i - n]
      /\ DOMAIN t = 1 .. k /\ d \in Seq(S)
  OBVIOUS
<1> HIDE DEF n, k
<1>2. ASSUME NEW i \in 1 .. k
      PROVE  d[n + i] = t[i]
  <2>1. n + i \in n + 1 .. n + k /\ n + i - n = i
    BY <1>1
  <2> QED
    BY <1>1, <2>1
<1> QED
  BY <1>1, <1>2 DEF n, k

LEMMA ConcatOne ==
  ASSUME NEW S, NEW s \in Seq(S), NEW x \in S, NEW d, d = s \o <<x>>
  PROVE  /\ Len(s) \in Nat /\ Len(d) = Len(s) + 1 /\ d[Len(s) + 1] = x
         /\ DOMAIN s = 1 .. Len(s) /\ DOMAIN d = 1 .. Len(s) + 1
         /\ \A i \in 1 .. Len(s) : d[i] = s[i]
OBVIOUS

LEMMA ToSetConcat ==
  ASSUME NEW S, NEW s \in Seq(S), NEW t \in Seq(S)
  PROVE  ToSet(s \o t) = ToSet(s) \cup ToSet(t)
<1> DEFINE c == s \o t
           n == Len(s)
           k == Len(t)
<1>1. /\ DOMAIN c = 1 .. n + k /\ n \in Nat /\ k \in Nat /\ DOMAIN s = 1 .. n /\ DOMAIN t = 1 .. k
      /\ \A i \in 1 .. n : c[i] = s[i]
      /\ \A i \in n + 1 .. n + k : c[i] = t[i - n]
  OBVIOUS
<1> HIDE DEF c, n, k
<1>2. ASSUME NEW i \in 1 .. k
      PROVE  n + i \in 1 .. n + k /\ c[n + i] = t[i]
  <2>1. n + i \in n + 1 .. n + k /\ n + i - n = i
    BY <1>1
  <2> QED
    BY <1>1, <2>1
<1>3. ToSet(t) \subseteq ToSet(c)
  BY <1>1, <1>2 DEF ToSet
<1>4. \A i \in 1 .. n : i \in 1 .. n + k
  BY <1>1
<1>5. ToSet(s) \subseteq ToSet(c)
  BY <1>1, <1>4 DEF ToSet
<1>6. \A i \in 1 .. n + k : i \in 1 .. n \/ (i \in n + 1 .. n + k /\ i - n \in 1 .. k)
  BY <1>1
<1>7. ToSet(c) \subseteq ToSet(s) \cup ToSet(t)
  BY <1>1, <1>6 DEF ToSet
<1>8. ToSet(c) = ToSet(s) \cup ToSet(t)
  BY <1>3, <1>5, <1>7
<1> QED
  BY <1>8 DEF c

LEMMA InitTyped == Init => Typed
<1> SUFFICES ASSUME Init PROVE Typed
  OBVIOUS
<1>1. file \in Seq(Characters) /\ CHUNK \in Nat /\ CHUNK > 1 /\ A32_START_CMD_SIZE \in Nat /\ A32_START_CMD_SIZE > 0
      /\ A32_MAX_TOKEN \in Nat
  BY LexerAssumption DEF Init
<1>2. TypeOK
  BY <1>1 DEF Init, TypeOK, ToSet
<1>3. Loading
  BY <1>1 DEF Init, Loading
<1>4. Roomy
  BY <1>1 DEF Init, Roomy
<1> QED
  BY <1>2, <1>3, <1>4 DEF Typed

LEMMA ReadChunkTyped ==
  ASSUME Typed, ReadChunk
  PROVE  Typed'
<1>1. /\ ctl = "load" /\ ctl' = ctl /\ UNCHANGED <<file, lvars>> /\ code \in Seq(Characters)
      /\ file \in Seq(Characters) /\ codeSize \in Nat /\ Len(code) + 1 < codeSize /\ Len(code) <= Len(file)
  BY DEF Typed, TypeOK, Loading, ReadChunk, Read
<1>2. Len(code) \in Nat /\ Len(file) \in Nat /\ CHUNK \in Nat /\ CHUNK > 1 /\ Request \in Nat \ {0} /\ Unread \in Nat \ {0}
  BY <1>1, LexerAssumption DEF ReadChunk, Request, Unread
<1> DEFINE most == Min({Request, Unread})
<1>3. most \in {Request, Unread} /\ most <= Request /\ most <= Unread
  <2>1. \E m \in {Request, Unread} : \A k \in {Request, Unread} : m <= k
    BY <1>2
  <2> QED
    BY <2>1 DEF Min
<1> HIDE DEF most
<1>4. PICK n \in 1 .. most : Read(n)
  <2>1. \E n \in IF file \in FaultyFiles THEN 1 .. most ELSE {most} : Read(n)
    BY DEF ReadChunk, most
  <2>2. most \in 1 .. most
    BY <1>2, <1>3
  <2> QED
    BY <2>1, <2>2
<1> DEFINE k == Len(code) + n
<1>5. k \in Nat /\ k <= Len(file) /\ k + 1 <= codeSize
  BY <1>1, <1>2, <1>3, <1>4 DEF Request, Unread
<1> HIDE DEF k
<1>6. code' = SubSeq(file, 1, k) /\ code' \in Seq(Characters) /\ Len(code') = k
  BY <1>1, <1>2, <1>4, <1>5 DEF Read, k
<1>7. codeSize' = IF k >= codeSize - 1 THEN codeSize + CHUNK ELSE codeSize
  BY <1>4, <1>6 DEF Read, Filled
<1>8. codeSize' \in Nat /\ k + 1 < codeSize'
  BY <1>1, <1>2, <1>5, <1>7
<1>9. code' = SubSeq(file', 1, Len(code')) /\ k < codeSize'
  BY <1>1, <1>5, <1>6, <1>8
<1>10. Loading'
  BY <1>1, <1>5, <1>6, <1>8, <1>9 DEF Typed, Loading, lvars
<1>11. TypeOK'
  BY <1>1, <1>5, <1>6, <1>8, <1>9 DEF Typed, TypeOK, lvars
<1>12. Roomy'
  BY <1>1 DEF Typed, Roomy, lvars
<1> QED
  BY <1>10, <1>11, <1>12 DEF Typed

LEMMA LoadedTyped ==
  ASSUME Typed, Loaded
  PROVE  Typed'
<1>1. /\ ctl = "load" /\ ctl' = "line" /\ UNCHANGED <<file, codeSize, lvars>> /\ code \in Seq(Characters)
      /\ file \in Seq(Characters) /\ codeSize \in Nat /\ Len(code) + 1 < codeSize /\ Len(code) <= Len(file)
      /\ code = SubSeq(file, 1, Len(code)) /\ code' = Append(code, Nul) /\ at = 1 /\ line = 1 /\ vcmd = <<>>
      /\ Request = 0 \/ Unread = 0 \/ file \in FaultyFiles
  BY DEF Typed, TypeOK, Loading, Loaded
<1>2. Nul \in Characters /\ Len(code) \in Nat /\ Len(file) \in Nat
  BY <1>1 DEF Characters, Marks
<1>3. code' \in Seq(Characters) /\ Len(code') = Len(code) + 1
  BY <1>1, <1>2
<1>4. Len(code) \in 0 .. Len(file) /\ (file \notin FaultyFiles => Len(code) = Len(file))
  BY <1>1, <1>2 DEF Request, Unread
<1>5. Loading'
  BY <1>1, <1>4 DEF Loading
<1>6. TypeOK'
  BY <1>1, <1>2, <1>3 DEF Typed, TypeOK, lvars
<1>7. Roomy'
  BY <1>1 DEF Typed, Roomy, lvars
<1> QED
  BY <1>5, <1>6, <1>7 DEF Typed

LEMMA StopsTyped ==
  ASSUME Typed, Stops
  PROVE  Typed'
<1>1. TypeOK'
  BY DEF Typed, TypeOK, Stops, lvars
<1>2. Loading'
  BY DEF Typed, Loading, Stops, lvars
<1>3. Roomy'
  BY DEF Typed, Roomy, Stops, lvars
<1> QED
  BY <1>1, <1>2, <1>3 DEF Typed

LEMMA WithinTyped ==
  ASSUME Typed, NEW o, Within(o)
  PROVE  Typed'
<1>1. /\ ctl # "load" /\ o \in Seq(Token) /\ Len(tokens) + Len(o) <= A32_MAX_TOKEN
      /\ at' \in at .. Len(code) /\ tokens' = tokens \o o /\ UNCHANGED <<file, code, codeSize, line, vcmd>>
      /\ ctl' \in {"head", "operands"}
  BY DEF Within, Reads, OnLine
<1>2. /\ at \in 1 .. Len(code) /\ Len(code) \in Nat /\ tokens \in Seq(Token)
      /\ vcmd \in Seq(Seq(Token)) /\ cmdsize \in Nat
  BY <1>1, TypedText
<1>3. tokens' \in Seq(Token) /\ Len(tokens') = Len(tokens) + Len(o)
  BY <1>1, <1>2
<1>4. Roomy'
  <2>1. cmdsize > 0 /\ Len(vcmd) <= cmdsize /\ Len(vcmd) \in Nat /\ cmdsize \in Nat
    BY <1>2 DEF Typed, TypeOK, Roomy
  <2>2. cmdsize' > 0 /\ Len(vcmd) < cmdsize'
    BY <2>1 DEF Within, Typed, Roomy
  <2> QED
    BY <1>1, <2>2 DEF Roomy
<1>5. cmdsize' \in Nat
  BY <1>2 DEF Within
<1>6. at' \in 1 .. Len(code')
  BY <1>1, <1>2
<1>7. Len(vcmd') + 1 <= cmdsize'
  BY <1>1, <1>2, <1>4, <1>5 DEF Roomy
<1>8. TypeOK'
  BY <1>1, <1>2, <1>3, <1>5, <1>6, <1>7 DEF Typed, TypeOK
<1>9. Loading'
  BY <1>1 DEF Typed, Loading
<1> QED
  BY <1>4, <1>8, <1>9 DEF Typed

LEMMA AcrossTyped ==
  ASSUME Typed, NEW o, NEW e, Across(o, e)
  PROVE  Typed'
<1>1. /\ ctl # "load" /\ o \in Seq(Token) /\ Len(tokens) + Len(o) <= A32_MAX_TOKEN
      /\ e \in at .. Len(code) /\ at' = NextLine(e) /\ tokens' = <<>> /\ line' = line + 1 /\ ctl' = "line"
      /\ UNCHANGED <<file, code, codeSize, cmdsize>> /\ EndsLine(e)
  BY DEF Across, Reads, OnLine, LineDone
<1>2. /\ at \in 1 .. Len(code) /\ Len(code) \in Nat /\ tokens \in Seq(Token) /\ line \in Nat
      /\ vcmd \in Seq(Seq(Token)) /\ cmdsize \in Nat /\ Text
  BY <1>1, TypedText
<1>3. at' \in 1 .. Len(code)
  BY <1>1, <1>2, NextLineStarts
<1>4. tokens \o o \in Seq(Token) /\ Len(tokens \o o) <= A32_MAX_TOKEN
  BY <1>1, <1>2
<1>5. vcmd' = vcmd \/ (vcmd' = Append(vcmd, tokens \o o) /\ ctl = "operands")
  BY DEF Across
<1>6. vcmd' \in Seq(Seq(Token)) /\ Len(vcmd') <= cmdsize /\ \A c \in ToSet(vcmd') : Len(c) <= A32_MAX_TOKEN
  <2>1. Len(vcmd) <= cmdsize /\ (\A c \in ToSet(vcmd) : Len(c) <= A32_MAX_TOKEN) /\ Len(vcmd) \in Nat
    BY <1>2 DEF Typed, TypeOK
  <2>2. CASE vcmd' = vcmd
    BY <1>2, <2>1, <2>2
  <2>3. CASE vcmd' = Append(vcmd, tokens \o o) /\ ctl = "operands"
    <3>1. Len(vcmd) < cmdsize
      BY <2>3 DEF Typed, Roomy
    <3> DEFINE c == tokens \o o
    <3>2. c \in Seq(Token) /\ Len(c) <= A32_MAX_TOKEN /\ vcmd' = Append(vcmd, c)
      BY <1>4, <2>3
    <3> HIDE DEF c
    <3>3. ToSet(Append(vcmd, c)) = ToSet(vcmd) \cup {c}
      BY <1>2, <3>2, ToSetAppend
    <3>4. vcmd' \in Seq(Seq(Token)) /\ Len(vcmd') = Len(vcmd) + 1
      BY <1>2, <3>2
    <3>5. Len(vcmd') <= cmdsize
      BY <1>2, <2>1, <3>1, <3>4
    <3> QED
      BY <2>1, <3>2, <3>3, <3>4, <3>5
  <2> QED
    BY <1>5, <2>2, <2>3
<1>7. Len(tokens') <= A32_MAX_TOKEN /\ tokens' \in Seq(Token)
  BY <1>1, LexerAssumption
<1>8. TypeOK'
  BY <1>1, <1>2, <1>3, <1>6, <1>7 DEF Typed, TypeOK
<1>9. Loading' /\ Roomy'
  BY <1>1 DEF Typed, Loading, Roomy
<1> QED
  BY <1>8, <1>9 DEF Typed

LEMMA TypedStep ==
  ASSUME Typed, [Next]_vars
  PROVE  Typed'
<1>1. CASE Next
  BY <1>1, StepKinds, ReadChunkTyped, LoadedTyped, StopsTyped, WithinTyped, AcrossTyped
<1>2. CASE UNCHANGED vars
  BY <1>2 DEF vars, lvars, Typed, TypeOK, Loading, Roomy
<1> QED
  BY <1>1, <1>2

(* The index of the lexer stays in the text, whatever the text; the tokens *)
(* of a line fit the array of a command, and the commands theirs.          *)
THEOREM TypeCorrect == Spec => []TypeOK
<1>1. Typed => TypeOK
  BY DEF Typed
<1> QED
  BY <1>1, InitTyped, TypedStep, PTL DEF Spec

(* Chunks, grown buffers and the end of the file leave nothing out: what   *)
(* load_code and a32_lexer have gone through when they are done is the      *)
(* file, whatever its length and the size of a chunk.                       *)
THEOREM WholeTextRead == Spec => []WholeText
<1>1. ASSUME Typed PROVE WholeText
  <2> SUFFICES ASSUME ctl = "done", file \notin FaultyFiles, Nul \notin ToSet(file)
               PROVE  at = Len(file) + 1 /\ SubSeq(code, 1, Len(file)) = file
    BY DEF WholeText
  <2>1. file \in Seq(Characters) /\ at \in 1 .. Len(code) /\ code[at] = Nul
    BY <1>1 DEF Typed, TypeOK, Loading
  <2>2. code = Append(SubSeq(file, 1, Len(file)), Nul)
    BY <1>1 DEF Typed, Loading
  <2>3. SubSeq(file, 1, Len(file)) = file
    BY <2>1
  <2>4. /\ Len(code) = Len(file) + 1 /\ Len(file) \in Nat /\ \A p \in 1 .. Len(file) : code[p] = file[p]
    BY <2>1, <2>2, <2>3
  <2>5. at \notin 1 .. Len(file)
    BY <2>1, <2>4 DEF ToSet
  <2>6. SubSeq(code, 1, Len(file)) = file
    BY <2>1, <2>2, <2>3, <2>4
  <2> QED
    BY <2>1, <2>4, <2>5, <2>6
<1> QED
  BY <1>1, InitTyped, TypedStep, PTL DEF Spec

-----------------------------------------------------------------------------
(* The shape of a command.                                                 *)

LEMMA NameCompletes ==
  ASSUME NEW c \in Seq(Token), NEW x \in Token, x.type = "NAME",
         \A m \in DOMAIN c : c[m].type = "LABEL"
  PROVE  WellFormed(c \o <<x>>)
<1> DEFINE n == Len(c)
<1>0. PICK d : d = c \o <<x>>
  OBVIOUS
<1>1. /\ n \in Nat /\ Len(d) = n + 1 /\ d[n + 1] = x
      /\ DOMAIN c = 1 .. n /\ DOMAIN d = 1 .. n + 1
      /\ \A m \in 1 .. n : d[m] = c[m]
  BY <1>0, ConcatOne
<1> HIDE DEF n
<1>2. n + 1 \in DOMAIN d /\ n + 1 - 1 = n /\ n + 2 > Len(d)
  BY <1>1
<1>3. d[n + 1].type = "NAME" /\ \A m \in 1 .. n + 1 - 1 : d[m].type = "LABEL"
  BY <1>1, <1>2
<1>4. (n + 1) + 1 .. Len(d) = {}
  BY <1>1
<1> DEFINE y == n + 1
<1> HIDE DEF y
<1>5. /\ y \in DOMAIN d /\ d[y].type = "NAME" /\ (\A m \in 1 .. y - 1 : d[m].type = "LABEL")
      /\ y + 1 .. Len(d) = {}
  <2>1. y - 1 = n /\ y = n + 1 /\ n + 1 - 1 = n
    BY <1>1 DEF y
  <2> QED
    BY <1>2, <1>3, <1>4, <2>1
<1>6. WellFormed(d)
  BY <1>5 DEF WellFormed
<1> QED
  BY <1>0, <1>6

LEMMA OperandKeeps ==
  ASSUME NEW c \in Seq(Token), NEW o \in Seq(Token), WellFormed(c), OperandShaped(o)
  PROVE  WellFormed(c \o o)
<1> DEFINE d == c \o o
           n == Len(c)
           k == Len(o)
<1>1. /\ DOMAIN d = 1 .. n + k /\ n \in Nat /\ k \in Nat /\ Len(d) = n + k /\ DOMAIN c = 1 .. n
      /\ \A m \in 1 .. n : d[m] = c[m]
      /\ \A m \in n + 1 .. n + k : d[m] = o[m - n]
  OBVIOUS
<1>2. /\ o[k].type \in Values
      /\ \A m \in 1 .. k - 1 : o[m].type \in Modes /\ o[m + 1].start = o[m].end
  BY DEF OperandShaped
<1>3. n = Len(c)
  OBVIOUS
<1> HIDE DEF d, n, k
<1>4. PICK x \in 1 .. n :
        /\ c[x].type = "NAME" /\ \A m \in 1 .. x - 1 : c[m].type = "LABEL"
        /\ \A m \in x + 1 .. n :
             /\ c[m].type # "LABEL"
             /\ c[m].type \in Modes => m < n /\ c[m + 1].start = c[m].end
  BY <1>1, <1>3 DEF WellFormed
<1>5. /\ x \in DOMAIN d /\ d[x].type = "NAME" /\ \A m \in 1 .. x - 1 : d[m].type = "LABEL"
  BY <1>1, <1>4
<1>6. ASSUME NEW m \in x + 1 .. n + k
      PROVE  /\ d[m].type # "LABEL"
             /\ d[m].type \in Modes => m < n + k /\ d[m + 1].start = d[m].end
  <2>1. CASE m \in x + 1 .. n
    <3>1. d[m] = c[m] /\ c[m].type # "LABEL" /\ (c[m].type \in Modes => m < n /\ c[m + 1].start = c[m].end)
      BY <1>1, <1>4, <2>1
    <3>2. m < n => d[m + 1] = c[m + 1]
      BY <1>1, <2>1
    <3>3. m < n => m < n + k
      BY <1>1, <2>1
    <3> QED
      BY <3>1, <3>2, <3>3
  <2>2. CASE m \in n + 1 .. n + k - 1
    <3>1. m - n \in 1 .. k - 1 /\ d[m] = o[m - n] /\ d[m + 1] = o[m + 1 - n] /\ m + 1 - n = (m - n) + 1 /\ m < n + k
      BY <1>1, <2>2
    <3> QED
      BY <1>2, <3>1 DEF Modes
  <2>3. CASE m = n + k /\ m > n
    <3>1. d[m] = o[m - n] /\ m - n = k
      BY <1>1, <2>3
    <3> QED
      BY <1>2, <3>1 DEF Modes, Values
  <2> QED
    BY <1>1, <2>1, <2>2, <2>3
<1>7. WellFormed(d)
  BY <1>1, <1>5, <1>6 DEF WellFormed
<1> QED
  BY <1>7 DEF d

LEMMA InitShaped == Init => Shaped
BY DEF Init, Shaped, ToSet

LEMMA WithinShaped ==
  ASSUME Typed, Shaped, NEW o, Within(o)
  PROVE  Shaped'
<1>1. /\ ctl # "load" /\ o \in Seq(Token) /\ tokens' = tokens \o o /\ vcmd' = vcmd
  BY DEF Within, Reads, OnLine
<1>2. tokens \in Seq(Token)
  BY <1>1, TypedText
<1>3. CASE ctl = "line"
  <2>1. o = <<>> /\ tokens = <<>> /\ ctl' = "head"
    BY <1>3 DEF Within, Typed, Roomy
  <2>2. tokens' = <<>>
    BY <1>1, <2>1
  <2> QED
    BY <1>1, <2>1, <2>2 DEF Shaped
<1>4. CASE ctl = "head" /\ ctl' = "head"
  <2>1. PICK x \in Token : o = <<x>> /\ x.type = "LABEL"
    BY <1>4 DEF Within
  <2>2. PICK d : d = tokens \o <<x>>
    OBVIOUS
  <2>3. /\ Len(tokens) \in Nat /\ d[Len(tokens) + 1] = x
        /\ DOMAIN tokens = 1 .. Len(tokens) /\ DOMAIN d = 1 .. Len(tokens) + 1
        /\ \A m \in 1 .. Len(tokens) : d[m] = tokens[m]
    BY <1>2, <2>2, ConcatOne
  <2>4. \A m \in DOMAIN d : d[m].type = "LABEL"
    BY <1>4, <2>1, <2>3 DEF Shaped
  <2> QED
    BY <1>1, <1>4, <2>1, <2>2, <2>4 DEF Shaped
<1>5. CASE ctl = "head" /\ ctl' = "operands"
  <2>1. PICK x \in Token : o = <<x>> /\ x.type = "NAME"
    BY <1>5 DEF Within
  <2>2. WellFormed(tokens \o <<x>>)
    BY <1>2, <1>5, <2>1, NameCompletes DEF Shaped
  <2> QED
    BY <1>1, <1>5, <2>1, <2>2 DEF Shaped
<1>6. CASE ctl = "operands"
  <2>1. OperandShaped(o) /\ WellFormed(tokens) /\ ctl' = "operands"
    BY <1>6 DEF Within, Shaped
  <2>2. WellFormed(tokens')
    BY <1>1, <1>2, <2>1, OperandKeeps
  <2> QED
    BY <1>1, <2>1, <2>2 DEF Shaped
<1> QED
  BY <1>3, <1>4, <1>5, <1>6 DEF Within

LEMMA AcrossShaped ==
  ASSUME Typed, Shaped, NEW o, NEW e, Across(o, e)
  PROVE  Shaped'
<1>1. /\ ctl # "load" /\ o \in Seq(Token) /\ ctl' = "line" /\ tokens' = <<>>
  BY DEF Across, Reads, OnLine, LineDone
<1>2. tokens \in Seq(Token) /\ vcmd \in Seq(Seq(Token))
  BY <1>1, TypedText
<1> DEFINE c == tokens \o o
<1>3. CASE vcmd' = vcmd
  BY <1>1, <1>3 DEF Shaped
<1>4. CASE ctl = "operands" /\ (o = <<>> \/ OperandShaped(o)) /\ vcmd' = Append(vcmd, c)
  <2>1. c \in Seq(Token) /\ (o = <<>> => c = tokens)
    BY <1>1, <1>2
  <2>2. WellFormed(c)
    BY <1>1, <1>2, <1>4, <2>1, OperandKeeps DEF Shaped
  <2> HIDE DEF c
  <2>3. ToSet(vcmd') = ToSet(vcmd) \cup {c}
    BY <1>2, <1>4, <2>1, ToSetAppend
  <2> QED
    BY <1>1, <2>2, <2>3 DEF Shaped
<1> QED
  BY <1>3, <1>4 DEF Across

LEMMA ShapedStep ==
  ASSUME Typed, Shaped, [Next]_vars
  PROVE  Shaped'
<1>1. CASE ReadChunk \/ Loaded
  BY <1>1 DEF ReadChunk, Read, Loaded, lvars, Shaped
<1>2. CASE Stops
  BY <1>2 DEF Stops, lvars, Shaped
<1>3. CASE UNCHANGED vars
  BY <1>3 DEF vars, lvars, Shaped
<1> QED
  BY <1>1, <1>2, <1>3, StepKinds, WithinShaped, AcrossShaped

(* The parser reads the first two tokens of a command and what follows a   *)
(* prefix without asking: the lexer gives it commands of that shape only.  *)
THEOREM FitsTheParser == Spec => []FitsParser
<1>1. Shaped => FitsParser
  BY DEF Shaped, FitsParser, WellFormed, Modes
<1> QED
  BY <1>1, InitTyped, TypedStep, InitShaped, ShapedStep, PTL DEF Spec

-----------------------------------------------------------------------------
(* Where the tokens are.                                                   *)

LEMMA TokensTyped ==
  ASSUME Typed
  PROVE  AllTokens \subseteq Token
BY DEF Typed, TypeOK, AllTokens, Tokens, ToSet

LEMMA TokenFields ==
  \A t \in Token : t.line \in Nat /\ t.start \in Nat /\ t.end \in Nat
BY DEF Token

LEMMA WithinTokens ==
  ASSUME Typed, NEW o, Within(o)
  PROVE  AllTokens' = AllTokens \cup ToSet(o)
<1>1. ctl # "load" /\ o \in Seq(Token) /\ tokens' = tokens \o o /\ vcmd' = vcmd
  BY DEF Within, Reads, OnLine
<1>2. ToSet(tokens') = ToSet(tokens) \cup ToSet(o)
  BY <1>1, TypedText, ToSetConcat
<1> QED
  BY <1>1, <1>2 DEF AllTokens, Tokens

LEMMA AcrossTokens ==
  ASSUME Typed, NEW o, NEW e, Across(o, e)
  PROVE  AllTokens' = AllTokens \cup ToSet(o)
<1>1. ctl # "load" /\ o \in Seq(Token) /\ tokens' = <<>>
  BY DEF Across, Reads, OnLine
<1>2. tokens \in Seq(Token) /\ vcmd \in Seq(Seq(Token)) /\ ToSet(<<>>) = {}
  BY <1>1, TypedText DEF ToSet
<1>3. CASE ctl = "line"
  <2>1. tokens = <<>> /\ o = <<>> /\ vcmd' = vcmd
    BY <1>3 DEF Across, Typed, Roomy
  <2> QED
    BY <1>1, <1>2, <2>1 DEF AllTokens, Tokens
<1>4. CASE ctl # "line"
  <2> DEFINE c == tokens \o o
  <2>1. vcmd' = Append(vcmd, c)
    BY <1>4 DEF Across
  <2>2. c \in Seq(Token) /\ ToSet(c) = ToSet(tokens) \cup ToSet(o)
    BY <1>1, <1>2, ToSetConcat
  <2> HIDE DEF c
  <2>3. ToSet(vcmd') = ToSet(vcmd) \cup {c}
    BY <1>2, <2>1, <2>2, ToSetAppend
  <2>4. Tokens' = Tokens \cup ToSet(c)
    BY <2>3 DEF Tokens
  <2> QED
    BY <1>1, <1>2, <2>2, <2>4 DEF AllTokens
<1> QED
  BY <1>3, <1>4

LEMMA NoTokensYet ==
  ASSUME Typed, ctl = "load"
  PROVE  AllTokens = {} /\ (UNCHANGED <<vcmd, tokens>> => AllTokens' = {})
<1>1. vcmd = <<>> /\ tokens = <<>> /\ ToSet(<<>>) = {}
  BY DEF Typed, Loading, Roomy, ToSet
<1> QED
  BY <1>1 DEF AllTokens, Tokens

(* The quotes of a token.                                                  *)
LEMMA QuotesStep ==
  ASSUME Typed, QuotesInv, [Next]_vars
  PROVE  QuotesInv'
<1>1. CASE ReadChunk \/ Loaded
  <2>1. ctl = "load" /\ UNCHANGED <<vcmd, tokens>>
    BY <1>1 DEF ReadChunk, Read, Loaded, lvars
  <2> QED
    BY <2>1, NoTokensYet DEF QuotesInv
<1>2. CASE Stops
  BY <1>2 DEF Stops, lvars, QuotesInv, AllTokens, Tokens, Quoted
<1>3. CASE UNCHANGED vars
  BY <1>3 DEF vars, lvars, QuotesInv, AllTokens, Tokens, Quoted
<1>4. ASSUME NEW o, Within(o) PROVE QuotesInv'
  <2>1. AllTokens' = AllTokens \cup ToSet(o)
    BY <1>4, WithinTokens
  <2>2. code' = code /\ \A t \in ToSet(o) : t.type \in {"STR", "CHAR"} => Quoted(t)
    BY <1>4 DEF Within, Reads
  <2> QED
    BY <2>1, <2>2 DEF QuotesInv, Quoted
<1>5. ASSUME NEW o, NEW e, Across(o, e) PROVE QuotesInv'
  <2>1. AllTokens' = AllTokens \cup ToSet(o)
    BY <1>5, AcrossTokens
  <2>2. code' = code /\ \A t \in ToSet(o) : t.type \in {"STR", "CHAR"} => Quoted(t)
    BY <1>5 DEF Across, Reads
  <2> QED
    BY <2>1, <2>2 DEF QuotesInv, Quoted
<1> QED
  BY <1>1, <1>2, <1>3, <1>4, <1>5, StepKinds

LEMMA InitQuotes == Init => QuotesInv
BY DEF Init, QuotesInv, AllTokens, Tokens, ToSet

(* The parser looks for the end of a string with strchr, which knows no    *)
(* escapes: it never leaves the token, and it finds the quote that the      *)
(* lexer has found if nothing in the string is escaped.                     *)
THEOREM ParserFindsQuote == Spec => []QuotesAgree
<1>1. QuotesInv => QuotesAgree
  BY DEF QuotesInv, QuotesAgree, Quoted, AllTokens
<1> QED
  BY <1>1, InitTyped, TypedStep, InitQuotes, QuotesStep, PTL DEF Spec

-----------------------------------------------------------------------------
(* Lines and comments.                                                     *)

(* What is in the tokens T, and how the text before at depends on T alone  *)
(* when the tokens U are added, all of them at at and behind.              *)
Splits(T, U) ==
  /\ \A t \in T : t.start \in Nat /\ t.end \in Nat /\ 0 < t.start /\ t.start < t.end /\ t.end <= at
  /\ \A u \in U : u.start \in Nat /\ u.end \in Nat /\ at <= u.start /\ u.start < u.end

LEMMA CoversSplit ==
  ASSUME at \in Nat, NEW T, NEW U, Splits(T, U)
  PROVE  /\ \A p \in Int : p < at => (Covers(T \cup U, p) <=> Covers(T, p))
         /\ \A p \in Int : p >= at => (Covers(T \cup U, p) <=> Covers(U, p))
<1>1. ASSUME NEW p \in Int, p < at, NEW t \in U, p \in t.start .. t.end - 1
      PROVE  FALSE
  BY <1>1 DEF Splits
<1>2. ASSUME NEW p \in Int, p >= at, NEW t \in T, p \in t.start .. t.end - 1
      PROVE  FALSE
  BY <1>2 DEF Splits
<1> QED
  BY <1>1, <1>2 DEF Covers

LEMMA BehindSplit ==
  ASSUME at \in Nat, NEW T, NEW U, Splits(T, U)
  PROVE  /\ \A j \in 1 .. at : LineEnds(T \cup U, j) = LineEnds(T, j)
         /\ \A p \in 1 .. at - 1 : InComment(T \cup U, p) <=> InComment(T, p)
<1>1. ASSUME NEW j \in 1 .. at
      PROVE  LineEnds(T \cup U, j) = LineEnds(T, j)
  <2>1. \A p \in 1 .. j - 1 : Covers(T \cup U, p) <=> Covers(T, p)
    BY CoversSplit
  <2> QED
    BY <2>1 DEF LineEnds
<1>2. ASSUME NEW p \in 1 .. at - 1
      PROVE  InComment(T \cup U, p) <=> InComment(T, p)
  <2>1. \A s \in 1 .. p : Covers(T \cup U, s) <=> Covers(T, s)
    BY CoversSplit
  <2> QED
    BY <2>1 DEF InComment
<1> QED
  BY <1>1, <1>2

(* The tokens o that a step reads up to e, and those read before.          *)
LEMMA ReadsSplit ==
  ASSUME Typed, Behind, Accounted, Numbered, NEW o, NEW e, Reads(o, e)
  PROVE  LET T == AllTokens \cup ToSet(o)
         IN  /\ at \in 1 .. e /\ e \in 1 .. Len(code) /\ Len(code) \in Nat
             /\ \A t \in ToSet(o) : t.start \in at .. e /\ t.end \in at .. e /\ t.start < t.end
             /\ \A t \in AllTokens : t.start \in 1 .. at - 1 /\ t.end \in 1 .. at
             /\ \A j \in 1 .. at : LineEnds(T, j) = LineEnds(AllTokens, j)
             /\ \A j \in at .. e : LineEnds(T, j) = LineEnds(AllTokens, at)
             /\ \A p \in 1 .. at - 1 : /\ Covers(T, p) <=> Covers(AllTokens, p)
                                       /\ InComment(T, p) <=> InComment(AllTokens, p)
             /\ \A p \in at .. e - 1 : Covers(T, p) \/ code[p] \in Blanks \cup {Comma, ":"}
             /\ \A p \in e .. Len(code) : ~Covers(T, p)
             /\ \A t \in T : ~InComment(T, t.start)
             /\ \A t \in T : t.line = 1 + Cardinality(LineEnds(T, t.start))
<1> DEFINE T == AllTokens \cup ToSet(o)
           U == ToSet(o)
<1>1. /\ ctl # "load" /\ OnLine /\ o \in Seq(Token) /\ e \in at .. Len(code)
      /\ \A t \in U : t.line = line /\ at <= t.start /\ t.start < t.end /\ t.end <= e
      /\ \A p \in at .. e - 1 : Covers(U, p) \/ code[p] \in Blanks \cup {Comma, ":"}
  BY DEF Reads, OnLine
<1>2. at \in 1 .. Len(code) /\ Len(code) \in Nat /\ Text
  BY <1>1, TypedText
<1>3. \A t \in U : t.start \in Nat /\ t.end \in Nat
  BY <1>1, TokenFields DEF ToSet
<1>4. \A t \in AllTokens : /\ t.start \in Nat /\ t.end \in Nat
                           /\ 0 < t.start /\ t.start < t.end /\ t.end <= at
  BY TokensTyped, TokenFields DEF Behind
<1>5. Splits(AllTokens, U)
  BY <1>1, <1>3, <1>4 DEF Splits
<1> HIDE DEF U
<1>6. T = AllTokens \cup U
  BY DEF U
<1> HIDE DEF T
<1>7. /\ \A p \in Int : p < at => (Covers(T, p) <=> Covers(AllTokens, p))
      /\ \A p \in Int : p >= at => (Covers(T, p) <=> Covers(U, p))
  BY <1>2, <1>5, <1>6, CoversSplit
<1>8. /\ \A j \in 1 .. at : LineEnds(T, j) = LineEnds(AllTokens, j)
      /\ \A p \in 1 .. at - 1 : InComment(T, p) <=> InComment(AllTokens, p)
  <2>1. /\ \A j \in 1 .. at : LineEnds(AllTokens \cup U, j) = LineEnds(AllTokens, j)
        /\ \A p \in 1 .. at - 1 : InComment(AllTokens \cup U, p) <=> InComment(AllTokens, p)
    <3>1. at \in Nat
      BY <1>2
    <3> QED
      BY <1>5, <3>1, BehindSplit
  <2> QED
    BY <1>6, <2>1
<1>9. \A p \in at .. e - 1 : Covers(T, p) \/ code[p] \in Blanks \cup {Comma, ":"}
  BY <1>1, <1>2, <1>7
<1>10. \A p \in at .. e - 1 : code[p] \in {"\n", Semicolon} => Covers(T, p)
  BY <1>9, Alphabets
<1>11. ASSUME NEW j \in at .. e
       PROVE  LineEnds(T, j) = LineEnds(T, at)
  <2>1. \A p \in 1 .. j - 1 : p \in 1 .. at - 1 \/ p \in at .. e - 1
    BY <1>1, <1>2
  <2>2. \A p \in 1 .. at - 1 : p \in 1 .. j - 1
    BY <1>1, <1>2
  <2> QED
    BY <1>10, <2>1, <2>2 DEF LineEnds
<1>12. \A p \in e .. Len(code) : ~Covers(T, p)
  <2>1. \A t \in U : t.end <= e /\ t.end \in Nat /\ t.start \in Nat
    BY <1>1, <1>3
  <2>2. \A p \in e .. Len(code) : ~Covers(U, p)
    BY <1>1, <1>2, <2>1 DEF Covers
  <2> QED
    BY <1>1, <1>2, <1>7, <2>2
<1>13. ASSUME NEW t \in U, InComment(T, t.start)
       PROVE  FALSE
  <2>1. t.start \in at .. e - 1 /\ t.start \in Nat
    BY <1>1, <1>2, <1>3
  <2>2. PICK s \in 1 .. t.start :
          code[s] = Semicolon /\ ~Covers(T, s) /\ \A q \in s .. t.start : code[q] # "\n"
    BY <1>13 DEF InComment
  <2>3. s \notin at .. e - 1
    BY <1>10, <2>2
  <2>4. s \in 1 .. at - 1 /\ \A q \in s .. at - 1 : q \in s .. t.start
    BY <1>1, <1>2, <2>1, <2>2, <2>3
  <2>5. ~Covers(AllTokens, s)
    BY <1>2, <1>7, <2>2, <2>4
  <2>6. \E q \in s .. at - 1 : code[q] = "\n"
    BY <1>1, <2>2, <2>4, <2>5 DEF Accounted
  <2> QED
    BY <2>2, <2>4, <2>6
<1>14. \A t \in AllTokens : t.start \in 1 .. at - 1 /\ t.end \in 1 .. at
  BY <1>2, <1>4
<1>15. \A t \in T : ~InComment(T, t.start)
  BY <1>6, <1>8, <1>13, <1>14 DEF Accounted
<1>16. \A t \in U : t.start \in at .. e /\ t.end \in at .. e /\ t.start < t.end
  BY <1>1, <1>2, <1>3
<1>17. \A j \in at .. e : LineEnds(T, j) = LineEnds(AllTokens, at)
  BY <1>2, <1>8, <1>11
<1>18. \A t \in U : t.line = 1 + Cardinality(LineEnds(T, t.start))
  BY <1>1, <1>16, <1>17 DEF Numbered
<1>19. \A t \in AllTokens : t.line = 1 + Cardinality(LineEnds(T, t.start))
  BY <1>2, <1>8, <1>14 DEF Numbered
<1>20. \A t \in T : t.line = 1 + Cardinality(LineEnds(T, t.start))
  BY <1>6, <1>18, <1>19
<1>21. \A p \in 1 .. at - 1 : Covers(T, p) <=> Covers(AllTokens, p)
  BY <1>2, <1>7
<1>22. at \in 1 .. e /\ e \in 1 .. Len(code)
  BY <1>1, <1>2
<1> QED
  BY <1>2, <1>8, <1>9, <1>12, <1>14, <1>15, <1>16, <1>17, <1>20, <1>21, <1>22 DEF T, U

LEMMA LineEndsFinite ==
  ASSUME NEW T, NEW j \in Nat
  PROVE  IsFiniteSet(LineEnds(T, j)) /\ Cardinality(LineEnds(T, j)) \in Nat
<1>1. IsFiniteSet(1 .. j - 1)
  BY FS_Interval
<1>2. LineEnds(T, j) \subseteq 1 .. j - 1
  BY DEF LineEnds
<1>3. IsFiniteSet(LineEnds(T, j))
  BY <1>1, <1>2, FS_Subset
<1> QED
  BY <1>3, FS_CardinalityType

Positions == Behind /\ Numbered /\ Accounted

LEMMA WithinPositions ==
  ASSUME Typed, Positions, NEW o, Within(o)
  PROVE  Positions'
<1> DEFINE T == AllTokens \cup ToSet(o)
<1>0. PICK b : b = at'
  OBVIOUS
<1>1. AllTokens' = T
  BY WithinTokens
<1>2. Reads(o, at') /\ OnLine /\ code' = code /\ line' = line
  BY DEF Within, Reads
<1>3. /\ at \in 1 .. b /\ b \in 1 .. Len(code) /\ Len(code) \in Nat
      /\ \A t \in ToSet(o) : t.start \in at .. b /\ t.end \in at .. b /\ t.start < t.end
      /\ \A t \in AllTokens : t.start \in 1 .. at - 1 /\ t.end \in 1 .. at
      /\ \A j \in at .. b : LineEnds(T, j) = LineEnds(AllTokens, at)
      /\ \A p \in 1 .. at - 1 : /\ Covers(T, p) <=> Covers(AllTokens, p)
                                /\ InComment(T, p) <=> InComment(AllTokens, p)
      /\ \A p \in at .. b - 1 : Covers(T, p) \/ code[p] \in Blanks \cup {Comma, ":"}
      /\ \A t \in T : ~InComment(T, t.start)
      /\ \A t \in T : t.line = 1 + Cardinality(LineEnds(T, t.start))
  BY <1>0, <1>2, ReadsSplit DEF Positions
<1>4. T = AllTokens \cup ToSet(o)
  OBVIOUS
<1> HIDE DEF T
<1>5. Behind'
  <2>1. ASSUME NEW t \in T
        PROVE  0 < t.start /\ t.start < t.end /\ t.end <= b
    <3>1. CASE t \in ToSet(o)
      BY <1>3, <3>1
    <3>2. CASE t \in AllTokens
      BY <1>3, <3>2 DEF Positions, Behind
    <3> QED
      BY <1>4, <3>1, <3>2
  <2> QED
    BY <1>0, <1>1, <2>1 DEF Behind
<1>6. Numbered'
  <2>1. line = 1 + Cardinality(LineEnds(T, b))
    <3>1. b \in at .. b
      BY <1>3
    <3> QED
      BY <1>2, <1>3, <3>1 DEF Positions, Numbered
  <2>2. /\ LineEnds(AllTokens, at)' = LineEnds(T, b)
        /\ \A t \in T : LineEnds(AllTokens, t.start)' = LineEnds(T, t.start)
    BY <1>0, <1>1, <1>2 DEF LineEnds, Covers
  <2> QED
    BY <1>1, <1>2, <1>3, <2>1, <2>2 DEF Numbered
<1>7. ASSUME NEW p \in 1 .. b - 1
      PROVE  Covers(T, p) \/ code[p] \in Blanks \cup {"\n", Comma, ":"} \/ InComment(T, p)
  <2>1. CASE p \in 1 .. at - 1
    BY <1>3, <2>1 DEF Positions, Accounted
  <2>2. CASE p \in at .. b - 1
    BY <1>3, <2>2
  <2> QED
    <3>1. p \in 1 .. at - 1 \/ p \in at .. b - 1
      BY <1>3
    <3> QED
      BY <2>1, <2>2, <3>1
<1>8. ASSUME NEW s \in 1 .. b - 1, code[s] = Semicolon, ~Covers(T, s)
      PROVE  \E q \in s .. b - 1 : code[q] = "\n"
  <2>1. s \notin at .. b - 1
    BY <1>3, <1>8, Alphabets
  <2>2. s \in 1 .. at - 1 /\ \A q \in s .. at - 1 : q \in s .. b - 1
    BY <1>3, <2>1
  <2>3. ~Covers(AllTokens, s)
    BY <1>3, <1>8, <2>2
  <2> QED
    BY <1>2, <1>8, <2>2, <2>3 DEF Positions, Accounted
<1>9. Accounted'
  <2>1. \A p \in 1 .. b - 1 :
          Covers(T, p) \/ code[p] \in Blanks \cup {"\n", Comma, ":"} \/ InComment(T, p)
    BY <1>7
  <2>2. \A s \in 1 .. b - 1 : code[s] = Semicolon /\ ~Covers(T, s) => \E q \in s .. b - 1 : code[q] = "\n"
    BY <1>8
  <2>3. \A t \in T : ~InComment(T, t.start)
    BY <1>3
  <2>4. at' = b /\ AllTokens' = T /\ code' = code
    BY <1>0, <1>1, <1>2
  <2> QED
    BY <2>1, <2>2, <2>3, <2>4 DEF Accounted, InComment, Covers
<1> QED
  BY <1>5, <1>6, <1>9 DEF Positions

LEMMA AcrossPositions ==
  ASSUME Typed, Positions, NEW o, NEW e, Across(o, e)
  PROVE  Positions'
<1> DEFINE T == AllTokens \cup ToSet(o)
           n == NextLine(e)
<1>1. AllTokens' = T
  BY AcrossTokens
<1>2. /\ Reads(o, e) /\ OnLine /\ code' = code /\ line' = line + 1 /\ at' = n /\ EndsLine(e)
      /\ ctl' = "line" /\ ctl # "load"
  BY DEF Across, Reads, LineDone, OnLine
<1>3. /\ at \in 1 .. e /\ e \in 1 .. Len(code) /\ Len(code) \in Nat
      /\ \A t \in ToSet(o) : t.start \in at .. e /\ t.end \in at .. e /\ t.start < t.end
      /\ \A t \in AllTokens : t.start \in 1 .. at - 1 /\ t.end \in 1 .. at
      /\ \A j \in at .. e : LineEnds(T, j) = LineEnds(AllTokens, at)
      /\ \A p \in 1 .. at - 1 : /\ Covers(T, p) <=> Covers(AllTokens, p)
                                /\ InComment(T, p) <=> InComment(AllTokens, p)
      /\ \A p \in at .. e - 1 : Covers(T, p) \/ code[p] \in Blanks \cup {Comma, ":"}
      /\ \A p \in e .. Len(code) : ~Covers(T, p)
      /\ \A t \in T : ~InComment(T, t.start)
      /\ \A t \in T : t.line = 1 + Cardinality(LineEnds(T, t.start))
  BY <1>2, ReadsSplit DEF Positions
<1>4. /\ n \in e .. Len(code)
      /\ \A p \in e .. n - 2 : code[p] # "\n"
      /\ code[n] # Nul => n > e /\ code[n - 1] = "\n"
      /\ n > e /\ code[e] # Semicolon => n = e + 1 /\ code[e] = "\n"
  BY <1>2, <1>3, TypedText, NextLineStarts
<1>5. T = AllTokens \cup ToSet(o)
  OBVIOUS
<1> HIDE DEF T, n
<1>6. Behind'
  <2>1. ASSUME NEW t \in T
        PROVE  0 < t.start /\ t.start < t.end /\ t.end <= n
    <3>1. CASE t \in ToSet(o)
      BY <1>3, <1>4, <3>1
    <3>2. CASE t \in AllTokens
      BY <1>3, <1>4, <3>2 DEF Positions, Behind
    <3> QED
      BY <1>5, <3>1, <3>2
  <2> QED
    BY <1>1, <1>2, <2>1 DEF Behind
<1>7. ASSUME code[n] # Nul
      PROVE  line + 1 = 1 + Cardinality(LineEnds(T, n))
  <2>1. line = 1 + Cardinality(LineEnds(AllTokens, at)) /\ LineEnds(T, e) = LineEnds(AllTokens, at)
    <3>1. e \in at .. e
      BY <1>3
    <3> QED
      BY <1>2, <1>3, <3>1 DEF Positions, Numbered
  <2>2. n - 1 \in e .. Len(code) /\ code[n - 1] = "\n" /\ n - 1 \in Nat /\ n - 1 \in 1 .. n - 1
    BY <1>3, <1>4, <1>7
  <2>3. \A p \in 1 .. n - 1 : p \in 1 .. e - 1 \/ p = n - 1 \/ p \in e .. n - 2
    BY <1>3, <1>4
  <2>4. \A p \in 1 .. e - 1 : p \in 1 .. n - 1
    BY <1>3, <1>4
  <2>5. LineEnds(T, n) = LineEnds(T, e) \cup {n - 1}
    BY <1>3, <1>4, <2>2, <2>3, <2>4 DEF LineEnds
  <2>6. n - 1 \notin LineEnds(T, e)
    BY <1>3, <2>2 DEF LineEnds
  <2>7. IsFiniteSet(LineEnds(T, e)) /\ Cardinality(LineEnds(T, e)) \in Nat
    BY <1>3, LineEndsFinite
  <2>8. Cardinality(LineEnds(T, n)) = Cardinality(LineEnds(T, e)) + 1
    BY <2>5, <2>6, <2>7, FS_AddElement
  <2> QED
    BY <2>1, <2>7, <2>8
<1>8. Numbered'
  <2>1. /\ LineEnds(AllTokens, at)' = LineEnds(T, n)
        /\ \A t \in T : LineEnds(AllTokens, t.start)' = LineEnds(T, t.start)
    BY <1>1, <1>2 DEF LineEnds, Covers
  <2>2. OnLine' => code[n] # Nul
    BY <1>2 DEF OnLine
  <2> QED
    BY <1>1, <1>2, <1>3, <1>7, <2>1, <2>2 DEF Numbered
<1>9. ASSUME NEW p \in 1 .. n - 1
      PROVE  Covers(T, p) \/ code[p] \in Blanks \cup {"\n", Comma, ":"} \/ InComment(T, p)
  <2>1. CASE p \in 1 .. at - 1
    BY <1>3, <2>1 DEF Positions, Accounted
  <2>2. CASE p \in at .. e - 1
    BY <1>3, <2>2
  <2>3. CASE p \in e .. n - 1 /\ code[p] # "\n"
    <3>1. n > e /\ e \in 1 .. p /\ \A q \in e .. p : q \in e .. n - 2 \/ q = p
      BY <1>3, <1>4, <2>3
    <3>2. code[e] = Semicolon
      BY <1>3, <1>4, <2>3, <3>1
    <3>3. ~Covers(T, e)
      BY <1>3
    <3> QED
      BY <1>4, <2>3, <3>1, <3>2, <3>3 DEF InComment
  <2>4. CASE code[p] = "\n"
    BY <2>4
  <2>5. p \in 1 .. at - 1 \/ p \in at .. e - 1 \/ p \in e .. n - 1
    BY <1>3, <1>4
  <2> QED
    BY <2>1, <2>2, <2>3, <2>4, <2>5
<1>10. ASSUME code[n] # Nul, NEW s \in 1 .. n - 1
       PROVE  \E q \in s .. n - 1 : code[q] = "\n"
  <2>1. n - 1 \in s .. n - 1
    BY <1>3, <1>4
  <2> QED
    BY <1>4, <1>10, <2>1
<1>11. Accounted'
  <2>1. OnLine' => code[n] # Nul
    BY <1>2 DEF OnLine
  <2> QED
    BY <1>1, <1>2, <1>3, <1>9, <1>10, <2>1 DEF Accounted, InComment, Covers
<1> QED
  BY <1>6, <1>8, <1>11 DEF Positions

LEMMA InitPositions == Init => Positions
<1>1. ASSUME Init PROVE AllTokens = {} /\ at = 1 /\ ~OnLine
  BY <1>1 DEF Init, AllTokens, Tokens, ToSet, OnLine
<1> QED
  BY <1>1 DEF Positions, Behind, Numbered, Accounted

LEMMA PositionsStep ==
  ASSUME Typed, Positions, [Next]_vars
  PROVE  Positions'
<1>1. CASE ReadChunk \/ Loaded
  <2>1. /\ ctl = "load" /\ UNCHANGED <<vcmd, tokens, at, line>> /\ at = 1 /\ line = 1 /\ ctl' \in {"load", "line"}
    BY <1>1 DEF ReadChunk, Read, Loaded, lvars, Typed, Loading
  <2>2. AllTokens' = {}
    BY <2>1, NoTokensYet
  <2>3. LineEnds(AllTokens, at)' = {}
    BY <2>1 DEF LineEnds
  <2>4. Cardinality({}) = 0
    BY FS_EmptySet
  <2> QED
    BY <2>1, <2>2, <2>3, <2>4 DEF Positions, Behind, Numbered, Accounted
<1>2. CASE Stops
  <2>1. AllTokens' = AllTokens /\ UNCHANGED <<code, at, line>> /\ ~OnLine'
    BY <1>2 DEF Stops, lvars, AllTokens, Tokens, OnLine
  <2> QED
    BY <2>1 DEF Positions, Behind, Numbered, Accounted, LineEnds, InComment, Covers
<1>3. CASE UNCHANGED vars
  <2>1. AllTokens' = AllTokens /\ UNCHANGED <<code, at, line>> /\ (OnLine' <=> OnLine)
    BY <1>3 DEF vars, lvars, AllTokens, Tokens, OnLine
  <2> QED
    BY <2>1 DEF Positions, Behind, Numbered, Accounted, LineEnds, InComment, Covers
<1> QED
  BY <1>1, <1>2, <1>3, StepKinds, WithinPositions, AcrossPositions

-----------------------------------------------------------------------------
(* The lines of the commands.                                              *)

LEMMA InitDistinct == Init => Distinct
BY DEF Init, Distinct, ToSet

LEMMA WithinDistinct ==
  ASSUME Typed, Distinct, NEW o, Within(o)
  PROVE  Distinct'
<1>1. /\ ctl # "load" /\ o \in Seq(Token) /\ tokens' = tokens \o o /\ UNCHANGED <<vcmd, line>>
      /\ \A t \in ToSet(o) : t.line = line
  BY DEF Within, Reads, OnLine
<1>2. ToSet(tokens') = ToSet(tokens) \cup ToSet(o)
  BY <1>1, TypedText, ToSetConcat
<1>3. \A t \in ToSet(tokens') : t.line = line
  BY <1>1, <1>2 DEF Distinct
<1> QED
  BY <1>1, <1>3 DEF Distinct

LEMMA AcrossDistinct ==
  ASSUME Typed, Shaped, Distinct, NEW o, NEW e, Across(o, e)
  PROVE  Distinct'
<1>1. /\ ctl # "load" /\ o \in Seq(Token) /\ tokens' = <<>> /\ line' = line + 1
      /\ \A t \in ToSet(o) : t.line = line
  BY DEF Across, Reads, OnLine, LineDone
<1>2. tokens \in Seq(Token) /\ vcmd \in Seq(Seq(Token)) /\ line \in Nat
  BY <1>1, TypedText
<1>3. ToSet(tokens') = {}
  BY <1>1 DEF ToSet
<1>4. \A a \in DOMAIN vcmd : vcmd[a] \in Seq(Token) /\ \A t \in ToSet(vcmd[a]) : t \in Token
  BY <1>2 DEF ToSet
<1>5. \A a \in DOMAIN vcmd : \A t \in ToSet(vcmd[a]) : t.line = vcmd[a][1].line /\ t.line < line + 1
  BY <1>2, <1>4, TokenFields DEF Distinct
<1>6. CASE vcmd' = vcmd
  BY <1>1, <1>3, <1>5, <1>6 DEF Distinct
<1>7. CASE vcmd' # vcmd
  <2> DEFINE c == tokens \o o
             n == Len(vcmd)
  <2>1. /\ c \in Seq(Token) /\ ToSet(c) = ToSet(tokens) \cup ToSet(o) /\ vcmd' = Append(vcmd, c)
    BY <1>1, <1>2, <1>7, ToSetConcat DEF Across
  <2> HIDE DEF c
  <2>2. /\ n \in Nat /\ DOMAIN vcmd = 1 .. n /\ DOMAIN vcmd' = 1 .. n + 1 /\ vcmd'[n + 1] = c
        /\ \A a \in 1 .. n : vcmd'[a] = vcmd[a]
    BY <1>2, <2>1
  <2> HIDE DEF n
  <2>3. \A a \in DOMAIN vcmd' : WellFormed(vcmd'[a])
    <3>1. Shaped'
      BY AcrossShaped
    <3>2. \A a \in DOMAIN vcmd' : vcmd'[a] \in ToSet(vcmd')
      BY DEF ToSet
    <3> QED
      BY <3>1, <3>2 DEF Shaped, WellFormed
  <2>4. \A t \in ToSet(c) : t.line = line
    BY <1>1, <2>1 DEF Distinct
  <2>5. c[1] \in ToSet(c)
    <3>1. WellFormed(c) /\ DOMAIN c = 1 .. Len(c) /\ Len(c) \in Nat
      BY <2>1, <2>2, <2>3
    <3>2. 1 \in DOMAIN c
      BY <3>1 DEF WellFormed
    <3> QED
      BY <3>2 DEF ToSet
  <2>6. ASSUME NEW a \in 1 .. n
        PROVE  vcmd[a][1].line < line /\ vcmd[a][1].line \in Nat
    <3>1. WellFormed(vcmd[a]) /\ vcmd[a] \in Seq(Token)
      BY <1>4, <2>2, <2>3
    <3>2. DOMAIN vcmd[a] = 1 .. Len(vcmd[a]) /\ Len(vcmd[a]) \in Nat
      BY <3>1
    <3>3. 1 \in DOMAIN vcmd[a]
      BY <3>1, <3>2 DEF WellFormed
    <3>4. vcmd[a][1] \in ToSet(vcmd[a]) /\ vcmd[a][1] \in Token
      BY <1>4, <2>2, <3>3 DEF ToSet
    <3> QED
      BY <2>2, <3>4, TokenFields DEF Distinct
  <2>7. \A a \in 1 .. n + 1 : a \in 1 .. n \/ a = n + 1
    BY <2>2
  <2>8. \A a \in 1 .. n + 1 : \A t \in ToSet(vcmd'[a]) : t.line = vcmd'[a][1].line /\ t.line < line + 1
    <3>1. SUFFICES ASSUME NEW a \in 1 .. n + 1, NEW t \in ToSet(vcmd'[a])
                   PROVE  t.line = vcmd'[a][1].line /\ t.line < line + 1
      OBVIOUS
    <3>2. CASE a \in 1 .. n
      BY <1>5, <2>2, <3>1, <3>2
    <3>3. CASE a = n + 1
      <4>1. t \in ToSet(c) /\ vcmd'[a][1] = c[1]
        BY <2>2, <3>1, <3>3
      <4>2. t.line = line /\ c[1].line = line
        BY <2>4, <2>5, <4>1
      <4> QED
        BY <1>2, <4>1, <4>2
    <3> QED
      BY <2>7, <3>1, <3>2, <3>3
  <2>9. \A a, b \in 1 .. n + 1 : a # b => vcmd'[a][1].line # vcmd'[b][1].line
    <3>1. SUFFICES ASSUME NEW a \in 1 .. n + 1, NEW b \in 1 .. n + 1, a # b
                   PROVE  vcmd'[a][1].line # vcmd'[b][1].line
      OBVIOUS
    <3>2. CASE a \in 1 .. n /\ b \in 1 .. n
      BY <2>2, <3>1, <3>2 DEF Distinct
    <3>3. CASE a \in 1 .. n /\ b = n + 1
      BY <1>2, <2>2, <2>4, <2>5, <2>6, <3>3
    <3>4. CASE b \in 1 .. n /\ a = n + 1
      BY <1>2, <2>2, <2>4, <2>5, <2>6, <3>4
    <3> QED
      BY <2>7, <3>1, <3>2, <3>3, <3>4
  <2> QED
    BY <1>1, <1>3, <2>2, <2>8, <2>9 DEF Distinct
<1> QED
  BY <1>6, <1>7

LEMMA DistinctStep ==
  ASSUME Typed, Shaped, Distinct, [Next]_vars
  PROVE  Distinct'
<1>1. CASE ReadChunk \/ Loaded \/ Stops
  BY <1>1 DEF ReadChunk, Read, Loaded, Stops, lvars, Distinct
<1>2. CASE UNCHANGED vars
  BY <1>2 DEF vars, lvars, Distinct
<1> QED
  BY <1>1, <1>2, StepKinds, WithinDistinct, AcrossDistinct

(* Between lines the tokens are those of the commands.                     *)
LEMMA BetweenLines ==
  ASSUME Typed, ctl \in {"line", "done"}
  PROVE  /\ AllTokens = Tokens /\ \A p : Inside(p) <=> Covers(AllTokens, p)
<1>1. tokens = <<>> /\ ToSet(<<>>) = {}
  BY DEF Typed, Roomy, ToSet
<1> QED
  BY <1>1 DEF AllTokens, Inside, Covers

(* A line is a command, and a token knows its line, for every text: quotes *)
(* that go over a line end, comments and empty lines included.              *)
THEOREM CommandsHaveLines == Spec => []LinesAreCommands
<1>1. ASSUME Typed, Positions, Distinct PROVE LinesAreCommands
  <2> SUFFICES ASSUME ctl \in {"line", "done"} PROVE LinesAreCommands
    BY DEF LinesAreCommands
  <2>1. \A t \in Tokens :
          LineEnds(AllTokens, t.start) = {p \in 1 .. t.start - 1 : code[p] = "\n" /\ ~Inside(p)}
    BY <1>1, BetweenLines DEF LineEnds
  <2>2. \A t \in Tokens : t.line = 1 + Cardinality(LineEnds(AllTokens, t.start))
    BY <1>1, BetweenLines DEF Positions, Numbered
  <2> QED
    BY <1>1, <2>1, <2>2 DEF LinesAreCommands, Distinct
<1> QED
  BY <1>1, InitTyped, TypedStep, InitShaped, ShapedStep, InitPositions, PositionsStep,
     InitDistinct, DistinctStep, PTL DEF Spec

(* The lexer goes over nothing in silence, and takes nothing from a comment*)
(* for a token.                                                             *)
THEOREM NothingIsLost == Spec => []NothingLost
<1>1. ASSUME Typed, Positions PROVE NothingLost
  <2> SUFFICES ASSUME ctl \in {"line", "done"} PROVE NothingLost
    BY DEF NothingLost
  <2>1. at \in Nat /\ \A t \in Tokens : t.start \in 1 .. at - 1
    <3>1. at \in Nat
      BY <1>1, TypedText
    <3> QED
      BY <1>1, <3>1, BetweenLines, TokensTyped, TokenFields DEF Positions, Behind
  <2>2. \A p \in 1 .. at - 1 : p \in Comments <=> InComment(AllTokens, p)
    BY <1>1, BetweenLines DEF Comments, InComment
  <2> QED
    BY <1>1, <2>1, <2>2, BetweenLines DEF NothingLost, Positions, Accounted
<1> QED
  BY <1>1, InitTyped, TypedStep, InitPositions, PositionsStep, PTL DEF Spec

=============================================================================
