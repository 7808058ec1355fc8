----------------------------- MODULE MCAssembler ------------------------------
(* Sources of up to two lines from an alphabet with each kind of line,     *)
(* accepted and refused, on the names x and y, a label and a long name; and *)
(* of three lines from the part of it where one line meets another.        *)
EXTENDS Assembler, FiniteSets

Tk(t) == [type |-> t, num |-> 0, name |-> "x", text |-> <<>>]

Num(n) == [Tk("NUM") EXCEPT !.num = n]
Nam(x) == [Tk("NAME") EXCEPT !.name = x]
Lab(x) == [Tk("LABEL") EXCEPT !.name = x]
Chr(c) == [Tk("CHAR") EXCEPT !.num = c]
Str(t) == [Tk("STR") EXCEPT !.text = t]

AllNames == {"x", "y", "end", "long", "what", "declare"} \cup Instructions

Var(x, rest) == <<Nam("declare"), Nam(x)>> \o rest

Declares ==
  {Var("x", <<Tk("AUTO")>>), Var("y", <<Tk("AUTO")>>), Var("y", <<Num(7)>>),
   Var("x", <<Tk("AUTO"), Tk("AUTO"), Str(<<65, 66>>)>>),
   Var("y", <<Tk("AUTO"), Num(9), Str(<<67>>)>>),
   Var("y", <<Tk("AUTO"), Num(1), Num(1), Num(5)>>),
   Var("y", <<Tk("AUTO"), Num(2), Num(2), Chr(5), Num(6)>>),
   Var("x", <<Tk("AUTO"), Num(1), Num(-1), Num(5)>>),
   Var("x", <<Tk("AUTO"), Tk("AUTO"), Num(1), Num(2)>>),
   Var("x", <<Tk("AUTO"), Num(4)>>), Var("x", <<Tk("AUTO"), Tk("AUTO")>>),
   Var("x", <<Tk("RAM")>>), Var("long", <<Tk("AUTO")>>), <<Nam("declare")>>}

Lines ==
  {<<Nam("initr"), Num(9)>>, <<Nam("initr")>>, <<Nam("what")>>,
   <<Nam("nop")>>, <<Lab("end"), Nam("ret")>>, <<Lab("x"), Nam("logln")>>,
   <<Nam("jmp"), Nam("end")>>, <<Lab("end"), Nam("inc"), Tk("RAM"), Nam("x")>>,
   <<Nam("jmpi"), Num(-2)>>, <<Nam("jmpi"), Tk("RAM"), Nam("y")>>,
   <<Nam("logs"), Tk("PTR"), Nam("x")>>, <<Nam("push"), Tk("RAM"), Num(0)>>,
   <<Nam("move"), Tk("RAM"), Nam("x"), Tk("ADDR"), Nam("y")>>,
   <<Nam("move"), Tk("PTR"), Num(1), Num(1)>>,
   <<Nam("sum"), Num(1), Num(1)>>,
   <<Lab("x"), Nam("ift"), Tk("RAM"), Num(0), Nam("y")>>,
   <<Nam("iff"), Tk("RAM"), Nam("y"), Tk("DATA"), Num(2)>>}

Alphabet == Declares \cup Lines

Meeting ==
  {Var("x", <<Tk("AUTO"), Tk("AUTO"), Str(<<65, 66>>)>>), Var("y", <<Tk("AUTO")>>),
   Var("y", <<Tk("AUTO"), Num(2), Num(2), Chr(5), Num(6)>>),
   Var("x", <<Tk("AUTO"), Num(1), Num(-1), Num(5)>>), <<Lab("end"), Nam("ret")>>,
   <<Nam("jmp"), Nam("end")>>, <<Lab("end"), Nam("inc"), Tk("RAM"), Nam("x")>>,
   <<Nam("jmpi"), Num(-2)>>, <<Nam("move"), Tk("RAM"), Nam("x"), Tk("ADDR"), Nam("y")>>,
   <<Lab("x"), Nam("ift"), Tk("RAM"), Num(0), Nam("y")>>}

Programs == [1 .. 1 -> Alphabet] \cup [1 .. 2 -> Alphabet] \cup [1 .. 3 -> Meeting]

FixedAddresses == {<<Var("x", <<Num(7)>>)>>}
=============================================================================
