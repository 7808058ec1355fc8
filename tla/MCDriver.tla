------------------------------- MODULE MCDriver -------------------------------
(* A working directory /d with a file for the sources of MCAssembler, one  *)
(* for programs that run, one that does not lex, and an include directory. *)
(* Sessions of up to two command lines over them. Words of 8 bits, the     *)
(* registers in cells 1 to 3, variables from cell 4 on.                    *)
EXTENDS Driver, MCAssembler

Dir == <<"/", "d">>

W(letter, path) == <<Option(letter), path>>

(* Programs to run: variables of each shape, a loop on a relative branch   *)
(* that ends, one that does not, a RAM that is too small, no RAM at all.   *)
Boot(n) == <<Nam("initr"), Num(n)>>

Runnable ==
  {<<Boot(9), Var("x", <<Tk("AUTO"), Tk("AUTO"), Str(<<65, 66>>)>>),
     Var("y", <<Tk("AUTO"), Num(2), Num(2), Chr(5), Num(6)>>),
     <<Nam("inc"), Tk("RAM"), Nam("x")>>>>,
   <<Boot(9), Var("x", <<Tk("AUTO")>>),
     Var("y", <<Tk("AUTO"), Num(1), Num(1), Num(2)>>),
     <<Nam("dec"), Tk("RAM"), Nam("y")>>, <<Nam("iff"), Tk("RAM"), Nam("y"), Num(-2)>>,
     <<Nam("jmpi"), Num(1)>>, <<Nam("logi"), Num(3)>>>>,
   <<Boot(9), <<Nam("jmpi"), Num(-1)>>>>,
   <<Boot(5), Var("x", <<Tk("AUTO"), Num(2), Num(2), Num(8), Num(9)>>)>>,
   <<<<Nam("move"), Tk("RAM"), Num(0), Num(1)>>, Boot(9)>>}

Unlexed == <<<<Tk("PTR")>>>>

Short == {<<Boot(9), <<Nam("nop")>>>>, <<Boot(9), <<Nam("what")>>>>}

In(f) == <<<<"d">>>> \o f

NoHome == <<>>

OneJunk == {7}

NotLexed == {Unlexed}

Folders == {In(<<>>), In(<<<<"i">>>>)}

Texts == [f \in {In(<<>>), In(<<<<"g">>>>), In(<<<<"s">>>>), In(<<<<"m">>>>),
                 In(<<<<"i">>>>), In(<<<<"i">>, <<"t">>>>)} |->
            CASE f = In(<<<<"g">>>>) -> Programs
              [] f = In(<<<<"s">>>>) -> Runnable
              [] f = In(<<<<"m">>>>) -> {Unlexed}
              [] f = In(<<<<"i">>, <<"t">>>>) -> Short
              [] OTHER -> {<<>>}]

Heads(s) == {SubSeq(s, 1, k) : k \in 0 .. Len(s)}

AllSources == UNION {Heads(s) : s \in Programs \cup Runnable \cup Short \cup {Unlexed}}

(* Command lines.                                                          *)
BuildAny == W("f", <<"g">>) \o W("o", <<"o">>)

BuildAndRun == W("f", <<"s">>) \o W("o", <<".", "/", "o">>) \o <<Option("r")>>

RunOld == <<Option("r"), Option("v")>> \o W("o", <<"o">>)

BuildIncluded == W("i", <<".", "/", "i">>) \o W("f", <<"t">>) \o W("o", <<"o">>)

BuildDirectory == W("f", <<"i">>) \o W("o", <<".", ".", "/", "d", "/", "p">>)

Mistakes ==
  {<<Option("o")>>, W("f", <<"s">>), <<Option("x")>>, W("o", <<"o">>) \o W("o", <<"o">>),
   W("i", <<"i">>) \o W("i", <<"i">>), W("o", <<"~", "/", "o">>),
   W("f", <<"n">>) \o W("o", <<"o">>), W("f", <<"m">>) \o W("o", <<"o">>),
   W("f", <<"s">>) \o W("o", <<".">>)}

CommandLines == {BuildAndRun, RunOld, BuildIncluded, BuildDirectory} \cup Mistakes

AllSessions == {<<BuildAny>>} \cup [1 .. 2 -> CommandLines]

(* What the theorems on main ask of its command lines.                     *)
ASSUME WordsAssumption == OperandsApart /\ PathsTyped /\ NamesKept
=============================================================================
