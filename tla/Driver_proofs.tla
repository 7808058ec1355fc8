----------------------------- MODULE Driver_proofs -----------------------------
(* What the program does for every command line, source and image: what it *)
(* leaves on the disk, what its status says, and that parser, file and     *)
(* machine agree about branches and variables.                             *)
EXTENDS Driver, Assembler_proofs, FiniteSetTheorems

LEMMA StoredTyped ==
  ASSUME NEW S, NEW program \in Seq(S)
  PROVE  \E R : Stored(program) \in Seq(R) /\ Len(Stored(program)) = Len(program)
<1> DEFINE command(n) == [program[n] EXCEPT !.a0 = V!Wrap(@), !.a1 = V!Wrap(@)]
           R == {command(n) : n \in 1 .. Len(program)}
<1>1. Len(program) \in Nat /\ DOMAIN program = 1 .. Len(program)
  OBVIOUS
<1>2. Stored(program) = [n \in 1 .. Len(program) |-> command(n)]
  BY <1>1 DEF Stored
<1>3. Stored(program) \in [1 .. Len(program) -> R]
  BY <1>2
<1> HIDE DEF R, command
<1> QED
  BY <1>1, <1>3, FunctionIsSeq

LEMMA PrefixOfSelf ==
  ASSUME NEW S, NEW s \in Seq(S), NEW n \in 0 .. Len(s)
  PROVE  IsPrefix(SubSeq(s, 1, n), s)
<1>1. Len(s) \in Nat /\ \A i \in 1 .. n : s[i] \in S
  BY ElementOfSeq
<1>2. SubSeq(s, 1, n) \in Seq(S) /\ Len(SubSeq(s, 1, n)) = n
  BY <1>1, SubSeqProperties
<1>3. SubSeq(SubSeq(s, 1, n), 1, n) = SubSeq(s, 1, n)
  BY <1>2, SubSeqFull
<1> QED
  BY <1>1, <1>2, <1>3 DEF IsPrefix

(* Over a file that was emptied, n commands written are n commands.        *)
LEMMA FlushedOver ==
  ASSUME NEW S, NEW s \in Seq(S), NEW n \in 0 .. Len(s)
  PROVE  IsPrefix(SubSeq(s, 1, n) \o SubSeq(<<>>, n + 1, Len(<<>>)), s)
<1>1. Len(<<>>) = 0 /\ Len(s) \in Nat /\ \A i \in 1 .. n : s[i] \in S
  BY ElementOfSeq
<1>2. SubSeq(<<>>, n + 1, Len(<<>>)) = <<>>
  BY <1>1, SubSeqEmpty
<1>3. SubSeq(s, 1, n) \in Seq(S)
  BY <1>1, SubSeqProperties
<1>4. SubSeq(s, 1, n) \o <<>> = SubSeq(s, 1, n)
  BY <1>3, ConcatEmptySeq
<1> QED
  BY <1>2, <1>4, PrefixOfSelf

LEMMA CutTyped ==
  ASSUME NEW text \in Sources, NEW k \in 0 .. Len(text)
  PROVE  SubSeq(text, 1, k) \in Seq(Seq(Token) \ {<<>>})
<1>1. text \in Seq(Seq(Token) \ {<<>>})
  BY SourceAssumption
<1>2. \A i \in 1 .. k : text[i] \in Seq(Token) \ {<<>>}
  BY <1>1, ElementOfSeq
<1> QED
  BY <1>2, SubSeqProperties

-----------------------------------------------------------------------------
Fresh == step \in {"args", "load"} => line = 0 /\ avaddr = A32_START_ADDR

Parser == TypeOK /\ Fresh

LEMMA ParserKept ==
  ASSUME Parser, [DNext]_dvars
  PROVE  Parser'
<1>1. CASE Invoke
  BY <1>1, SourceAssumption DEF Invoke, NoCompiler, Parser, Fresh, TypeOK
<1>2. CASE Load
  <2>1. PICK f \in DOMAIN Files : \E text \in Files[f] :
          \E k \in 0 .. Len(text) : code' = SubSeq(text, 1, k)
    BY <1>2 DEF Load, Source
  <2>2. code' \in Seq(Seq(Token) \ {<<>>})
    BY <2>1, DriverAssumption, CutTyped
  <2>3. line = 0 /\ UNCHANGED <<line, mc, declared, avaddr, ctl>> /\ step' = "build"
    BY <1>2 DEF Load, Goto, Parser, Fresh
  <2>4. TypeOK /\ 0 \in 0 .. Len(code')
    BY <2>2 DEF Parser
  <2> QED
    BY <2>2, <2>3, <2>4 DEF Parser, Fresh, TypeOK
<1>3. CASE Build
  <2>1. TypeOK'
    BY <1>3, TypeKept DEF Build, Parser
  <2> QED
    BY <1>3, <2>1 DEF Build, Parser, Fresh
<1>4. ASSUME UNCHANGED builder, step' \in {"args", "load"} => step \in {"args", "load"}
      PROVE  Parser'
  BY <1>4 DEF builder, Parser, Fresh, TypeOK
<1>5. CASE TakePath \/ TakeFlag \/ ArgsRefused
  BY <1>4, <1>5 DEF TakePath, TakeFlag, ArgsRefused, Exit
<1>6. CASE ArgsDone
  BY <1>4, <1>6 DEF ArgsDone, Goto, Exit
<1>7. CASE LoadFails \/ CompilerUndefined \/ LexerRefuses \/ BuildFails \/ BuildUndefined
  BY <1>4, <1>7 DEF LoadFails, CompilerUndefined, LexerRefuses, BuildFails, BuildUndefined, Exit, Goto
<1>8. CASE OpenOutput \/ OpenFails \/ SaveCommand \/ SaveFails \/ CloseOutput
  BY <1>4, <1>8 DEF OpenOutput, OpenFails, SaveCommand, SaveFails, CloseOutput, Exit, Goto
<1>9. CASE Start \/ StartFails \/ NoMachine \/ RunEnds \/ RunUndefined \/ Killed
  BY <1>4, <1>9 DEF Start, StartFails, NoMachine, RunEnds, RunUndefined, Killed, Exit, Goto
<1>10. CASE Run
  BY <1>4, <1>10 DEF Run
<1>11. CASE UNCHANGED dvars
  BY <1>4, <1>11 DEF dvars
<1> QED
  BY <1>1, <1>2, <1>3, <1>5, <1>6, <1>7, <1>8, <1>9, <1>10, <1>11 DEF DNext, Process

-----------------------------------------------------------------------------
LEMMA ParserApart ==
  ASSUME Parser, AutoInv, [DNext]_dvars
  PROVE  AutoInv'
<1>1. ASSUME line' = 0, avaddr' = A32_START_ADDR PROVE AutoInv'
  <2>1. Automatic' = {} /\ A32_START_ADDR >= A32_START_ADDR
    BY <1>1, SourceAssumption DEF Automatic
  <2> QED
    BY <1>1, <2>1 DEF AutoInv, Apart
<1>2. CASE Invoke
  BY <1>1, <1>2 DEF Invoke, NoCompiler
<1>3. CASE Load
  BY <1>1, <1>3 DEF Load, Parser, Fresh
<1>4. CASE Build
  BY <1>4, AutoKept DEF Build, Parser
<1>5. ASSUME UNCHANGED builder PROVE AutoInv'
  BY <1>5 DEF builder, AutoInv, Apart, Automatic
<1>6. CASE TakePath \/ TakeFlag \/ ArgsRefused \/ ArgsDone \/ LoadFails \/ CompilerUndefined
  BY <1>5, <1>6 DEF TakePath, TakeFlag, ArgsRefused, ArgsDone, LoadFails, CompilerUndefined
<1>7. CASE LexerRefuses \/ BuildFails \/ BuildUndefined \/ OpenOutput \/ OpenFails \/ SaveCommand
  BY <1>5, <1>7 DEF LexerRefuses, BuildFails, BuildUndefined, OpenOutput, OpenFails, SaveCommand
<1>8. CASE SaveFails \/ CloseOutput \/ Start \/ StartFails \/ NoMachine
  BY <1>5, <1>8 DEF SaveFails, CloseOutput, Start, StartFails, NoMachine
<1>9. CASE Run \/ RunEnds \/ RunUndefined \/ Killed \/ UNCHANGED dvars
  BY <1>5, <1>9 DEF Run, RunEnds, RunUndefined, Killed, dvars
<1> QED
  BY <1>2, <1>3, <1>4, <1>6, <1>7, <1>8, <1>9 DEF DNext, Process

LEMMA ParserDeclares ==
  ASSUME Parser, DeclaredInv, [DNext]_dvars
  PROVE  DeclaredInv'
<1>1. ASSUME line' = 0 PROVE DeclaredInv'
  BY <1>1 DEF DeclaredInv
<1>2. CASE Invoke
  BY <1>1, <1>2 DEF Invoke, NoCompiler
<1>3. CASE Load
  BY <1>1, <1>3 DEF Load, Parser, Fresh
<1>4. CASE Build
  BY <1>4, DeclaredKept DEF Build, Parser
<1>5. ASSUME UNCHANGED builder PROVE DeclaredInv'
  BY <1>5 DEF builder, DeclaredInv, DeclaredWell
<1>6. CASE TakePath \/ TakeFlag \/ ArgsRefused \/ ArgsDone \/ LoadFails \/ CompilerUndefined
  BY <1>5, <1>6 DEF TakePath, TakeFlag, ArgsRefused, ArgsDone, LoadFails, CompilerUndefined
<1>7. CASE LexerRefuses \/ BuildFails \/ BuildUndefined \/ OpenOutput \/ OpenFails \/ SaveCommand
  BY <1>5, <1>7 DEF LexerRefuses, BuildFails, BuildUndefined, OpenOutput, OpenFails, SaveCommand
<1>8. CASE SaveFails \/ CloseOutput \/ Start \/ StartFails \/ NoMachine
  BY <1>5, <1>8 DEF SaveFails, CloseOutput, Start, StartFails, NoMachine
<1>9. CASE Run \/ RunEnds \/ RunUndefined \/ Killed \/ UNCHANGED dvars
  BY <1>5, <1>9 DEF Run, RunEnds, RunUndefined, Killed, dvars
<1> QED
  BY <1>2, <1>3, <1>4, <1>6, <1>7, <1>8, <1>9 DEF DNext, Process

LEMMA DriverTyped == DSpec => []Parser
<1>1. DInit => Parser
  BY SourceAssumption DEF DInit, Parser, Fresh, TypeOK
<1>2. Parser /\ [DNext]_dvars => Parser'
  BY ParserKept
<1> QED
  BY <1>1, <1>2, PTL DEF DSpec

(* Variables share no cell in whatever the program compiles, one source    *)
(* after the other, cut off or not.                                        *)
THEOREM CompiledVariablesApart == DSpec => []AutoApart
<1>1. DInit => AutoInv
  BY SourceAssumption DEF DInit, AutoInv, Apart, Automatic
<1>2. Parser /\ AutoInv /\ [DNext]_dvars => AutoInv'
  BY ParserApart
<1> QED
  BY <1>1, <1>2, AutoSuffices, DriverTyped, PTL DEF DSpec

LEMMA ParserInOnePass ==
  ASSUME Parser, PassInv, [DNext]_dvars
  PROVE  PassInv'
<1>1. ASSUME line' = 0, Len(mc') = 0 PROVE PassInv'
  BY <1>1, BeforeFirst DEF PassInv
<1>2. CASE Invoke
  BY <1>1, <1>2 DEF Invoke, NoCompiler
<1>3. CASE Load
  <2>1. line' = 0 /\ mc' = mc /\ Len(mc) = Before(0)
    BY <1>3 DEF Load, Parser, Fresh, PassInv
  <2> QED
    BY <1>1, <2>1, BeforeFirst
<1>4. CASE Build
  BY <1>4, PassKept DEF Build, Parser
<1>5. ASSUME UNCHANGED builder PROVE PassInv'
  <2>1. \A k : Before(k)' = Before(k)
    BY <1>5 DEF builder, Before
  <2> QED
    BY <1>5, <2>1 DEF builder, PassInv
<1>6. CASE TakePath \/ TakeFlag \/ ArgsRefused \/ ArgsDone \/ LoadFails \/ CompilerUndefined
  BY <1>5, <1>6 DEF TakePath, TakeFlag, ArgsRefused, ArgsDone, LoadFails, CompilerUndefined
<1>7. CASE LexerRefuses \/ BuildFails \/ BuildUndefined \/ OpenOutput \/ OpenFails \/ SaveCommand
  BY <1>5, <1>7 DEF LexerRefuses, BuildFails, BuildUndefined, OpenOutput, OpenFails, SaveCommand
<1>8. CASE SaveFails \/ CloseOutput \/ Start \/ StartFails \/ NoMachine
  BY <1>5, <1>8 DEF SaveFails, CloseOutput, Start, StartFails, NoMachine
<1>9. CASE Run \/ RunEnds \/ RunUndefined \/ Killed \/ UNCHANGED dvars
  BY <1>5, <1>9 DEF Run, RunEnds, RunUndefined, Killed, dvars
<1> QED
  BY <1>2, <1>3, <1>4, <1>6, <1>7, <1>8, <1>9 DEF DNext, Process

(* In whatever the program compiles, one source after the other, cut off   *)
(* or not, a line stands for what it does with all names known.            *)
THEOREM CompiledInOnePass == DSpec => []OnePassSuffices
<1>1. DInit => PassInv
  <2>1. ASSUME DInit PROVE line = 0 /\ mc = <<>> /\ Len(mc) = 0
    BY <2>1 DEF DInit
  <2> QED
    BY <2>1, BeforeFirst DEF PassInv
<1>2. Parser /\ PassInv /\ [DNext]_dvars => PassInv'
  BY ParserInOnePass
<1>3. PassInv => OnePassSuffices
  BY DEF PassInv, OnePassSuffices
<1> QED
  BY <1>1, <1>2, <1>3, DriverTyped, PTL DEF DSpec

(* Until the parser is done, no step of main has touched the disk; and     *)
(* main leaves the steps before the save only with the disk as it was.     *)
Untouched ==
  /\ step \in {"args", "load", "build"} => disk = before
  /\ step = "save" => ctl = "done"
  /\ ctl = "done" \/ disk = before

LEMMA UntouchedKept ==
  ASSUME Untouched, [DNext]_dvars
  PROVE  Untouched'
<1>1. CASE Invoke
  BY <1>1 DEF Invoke, Untouched
<1>2. CASE OpenOutput
  BY <1>2 DEF OpenOutput, Built, Goto, builder, Untouched
<1>3. CASE Load \/ Build
  BY <1>3 DEF Load, Build, Goto, shell, files, Untouched
<1>4. CASE SaveCommand \/ SaveFails \/ CloseOutput
  BY <1>4 DEF SaveCommand, SaveFails, CloseOutput, Exit, Goto, shell, builder, Untouched
<1>5. CASE Killed
  BY <1>5 DEF Killed, Exit, shell, builder, Untouched
<1>6. CASE TakePath \/ TakeFlag \/ ArgsRefused \/ ArgsDone
  BY <1>6 DEF TakePath, TakeFlag, ArgsRefused, ArgsDone, Exit, Goto, shell, files, builder, Untouched
<1>7. CASE LoadFails \/ CompilerUndefined \/ LexerRefuses
  BY <1>7 DEF LoadFails, CompilerUndefined, LexerRefuses, Exit, Goto, shell, files, builder, Untouched
<1>8. CASE BuildFails \/ BuildUndefined \/ OpenFails
  BY <1>8 DEF BuildFails, BuildUndefined, OpenFails, Exit, Goto, shell, files, builder, Untouched
<1>9. CASE Start \/ StartFails \/ NoMachine
  BY <1>9 DEF Start, StartFails, NoMachine, Exit, Goto, shell, files, builder, Untouched
<1>10. CASE RunEnds \/ RunUndefined
  BY <1>10 DEF RunEnds, RunUndefined, Exit, Goto, shell, files, builder, Untouched
<1>11. CASE Run \/ UNCHANGED dvars
  BY <1>11 DEF Run, dvars, shell, files, builder, Untouched
<1> QED
  BY <1>1, <1>2, <1>3, <1>4, <1>5, <1>6, <1>7, <1>8, <1>9, <1>10, <1>11 DEF DNext, Process

(* A program that does not compile costs nobody an image, for every        *)
(* command line, every source and every failure of the system.             *)
THEOREM FailedBuildsAreHarmless == DSpec => []FailedBuildKeepsImages
<1>1. DInit => Untouched
  BY DEF DInit, Untouched
<1>2. Untouched /\ [DNext]_dvars => Untouched'
  BY UntouchedKept
<1>3. Untouched => FailedBuildKeepsImages
  BY DEF Untouched, FailedBuildKeepsImages
<1> QED
  BY <1>1, <1>2, <1>3, PTL DEF DSpec

-----------------------------------------------------------------------------
(* While an image is written, nothing of the program before it is left in  *)
(* the file, and at most the commands that were saved can get there.       *)
Saving ==
  /\ step \in {"args", "load", "build"} => saved = 0
  /\ step = "save" =>
       /\ Target \in DOMAIN disk /\ disk[Target] = <<>> /\ wrote[Target] = Stored(mc)
       /\ saved \in 0 .. Len(mc)

OneProgram == DOMAIN wrote = DOMAIN disk /\ ImageOfOneProgram /\ Saving

LEMMA FlushKeeps ==
  ASSUME Parser, OneProgram, step = "save", NEW n \in 0 .. saved, Flushed(n), UNCHANGED wrote
  PROVE  DOMAIN wrote' = DOMAIN disk' /\ ImageOfOneProgram'
<1>1. /\ Target \in DOMAIN disk /\ disk[Target] = <<>> /\ wrote[Target] = Stored(mc)
      /\ n \in 0 .. Len(mc)
  BY DEF OneProgram, Saving, Parser, TypeOK
<1> DEFINE new == SubSeq(Stored(mc), 1, n) \o SubSeq(<<>>, n + 1, Len(<<>>))
<1>2. DOMAIN disk' = DOMAIN disk /\ disk'[Target] = new
      /\ \A f \in DOMAIN disk \ {Target} : disk'[f] = disk[f]
  BY <1>1 DEF Flushed, Put
<1>3. IsPrefix(new, Stored(mc))
  <2>1. PICK R : Stored(mc) \in Seq(R) /\ Len(Stored(mc)) = Len(mc)
    BY StoredTyped DEF Parser, TypeOK
  <2> QED
    BY <1>1, <2>1, FlushedOver
<1> HIDE DEF new
<1>4. \A f \in DOMAIN disk' : IsPrefix(disk'[f], wrote'[f])
  BY <1>1, <1>2, <1>3 DEF OneProgram, ImageOfOneProgram
<1> QED
  BY <1>2, <1>4 DEF OneProgram, ImageOfOneProgram

LEMMA OneProgramKept ==
  ASSUME Parser, OneProgram, [DNext]_dvars
  PROVE  OneProgram'
<1>1. CASE Invoke
  BY <1>1 DEF Invoke, OneProgram, ImageOfOneProgram, Saving
<1>2. CASE OpenOutput
  <2>1. PICK R : Stored(mc) \in Seq(R) /\ Len(Stored(mc)) = Len(mc)
    BY StoredTyped DEF Parser, TypeOK
  <2>2. IsPrefix(<<>>, Stored(mc))
    BY <2>1, SubSeqEmpty DEF IsPrefix
  <2>3. /\ disk' = Put(Target, <<>>, disk) /\ wrote' = Put(Target, Stored(mc), wrote)
        /\ step' = "save" /\ saved' = 0 /\ mc' = mc /\ opt' = opt
    BY <1>2 DEF OpenOutput, Built, Truncated, Goto, builder, OneProgram, Saving
  <2>4. /\ DOMAIN disk' = DOMAIN disk \cup {Target} /\ DOMAIN wrote' = DOMAIN disk'
        /\ disk'[Target] = <<>> /\ wrote'[Target] = Stored(mc)
        /\ \A f \in DOMAIN disk \ {Target} : disk'[f] = disk[f] /\ wrote'[f] = wrote[f]
    BY <2>3 DEF Put, OneProgram
  <2>5. \A f \in DOMAIN disk' : IsPrefix(disk'[f], wrote'[f])
    BY <2>2, <2>4 DEF OneProgram, ImageOfOneProgram
  <2>6. Target' = Target /\ Stored(mc)' = Stored(mc)
    BY <2>3 DEF Target, Stored
  <2>7. 0 \in 0 .. Len(mc)
    BY DEF Parser, TypeOK
  <2> QED
    BY <2>3, <2>4, <2>5, <2>6, <2>7 DEF OneProgram, ImageOfOneProgram, Saving
<1>3. CASE SaveCommand
  <2>1. /\ step = "save" /\ step' = "save" /\ saved < Len(mc) /\ saved' = saved + 1
        /\ UNCHANGED <<disk, wrote, mc, opt>>
    BY <1>3 DEF SaveCommand, AllSaved, Saved, builder, OneProgram, Saving, Parser, TypeOK
  <2>2. Target' = Target /\ Stored(mc)' = Stored(mc)
    BY <2>1 DEF Target, Stored
  <2>3. Len(mc) \in Nat
    BY DEF Parser, TypeOK
  <2> QED
    BY <2>1, <2>2, <2>3 DEF OneProgram, ImageOfOneProgram, Saving
<1>4. ASSUME step = "save", NEW n \in 0 .. saved, Flushed(n), UNCHANGED wrote,
             step' \in {"shell", "start"}
      PROVE  OneProgram'
  <2>1. DOMAIN wrote' = DOMAIN disk' /\ ImageOfOneProgram'
    BY <1>4, FlushKeeps
  <2> QED
    BY <1>4, <2>1 DEF OneProgram, Saving
<1>5. CASE SaveFails
  BY <1>4, <1>5 DEF SaveFails, Exit
<1>6. CASE CloseOutput
  <2>1. saved \in Nat /\ step = "save"
    BY <1>6 DEF CloseOutput, OneProgram, Saving
  <2>2. \E n \in 0 .. saved : Flushed(n)
    BY <1>6, <2>1 DEF CloseOutput, Closed
  <2> QED
    BY <1>4, <1>6, <2>1, <2>2 DEF CloseOutput, Exit, Goto
<1>7. CASE Killed /\ step = "save"
  BY <1>4, <1>7 DEF Killed, Exit
<1>8. ASSUME UNCHANGED <<disk, wrote, saved>>, step # "save", step' # "save",
             step' \in {"args", "load", "build"} => step \in {"args", "load", "build"}
      PROVE  OneProgram'
  BY <1>8 DEF OneProgram, ImageOfOneProgram, Saving
<1>9. CASE Killed /\ step # "save"
  BY <1>8, <1>9 DEF Killed, Exit
<1>10. CASE TakePath \/ TakeFlag \/ ArgsRefused \/ ArgsDone \/ Load \/ LoadFails
  BY <1>8, <1>10 DEF TakePath, TakeFlag, ArgsRefused, ArgsDone, Load, LoadFails, Exit, Goto, files
<1>11. CASE CompilerUndefined \/ LexerRefuses \/ Build \/ BuildFails \/ BuildUndefined \/ OpenFails
  BY <1>8, <1>11 DEF CompilerUndefined, LexerRefuses, Build, BuildFails, BuildUndefined,
     OpenFails, Built, Exit, Goto, files
<1>12. CASE Start \/ StartFails \/ NoMachine \/ Run \/ RunEnds \/ RunUndefined
  BY <1>8, <1>12 DEF Start, StartFails, NoMachine, Run, RunEnds, RunUndefined, Exit, Goto, files
<1>13. CASE UNCHANGED dvars
  <2>1. Target' = Target /\ Stored(mc)' = Stored(mc)
    BY <1>13 DEF dvars, builder, Target, Stored
  <2> QED
    BY <1>13, <2>1 DEF dvars, files, builder, OneProgram, ImageOfOneProgram, Saving
<1> QED
  BY <1>1, <1>2, <1>3, <1>5, <1>6, <1>7, <1>9, <1>10, <1>11, <1>12, <1>13 DEF DNext, Process

(* An image is the beginning of one program, whatever was compiled into    *)
(* its file before and whenever processes failed or were killed.           *)
THEOREM ImagesAreOfOneProgram == DSpec => []ImageOfOneProgram
<1>1. DInit => OneProgram
  BY DEF DInit, OneProgram, ImageOfOneProgram, Saving
<1>2. Parser /\ OneProgram /\ [DNext]_dvars => OneProgram'
  BY OneProgramKept
<1>3. OneProgram => ImageOfOneProgram
  BY DEF OneProgram
<1> QED
  BY <1>1, <1>2, <1>3, DriverTyped, PTL DEF DSpec

-----------------------------------------------------------------------------
(* What main has made of the words it has read, here the first r of them:  *)
(* an option that was seen has left its mark, and that of -o is the path   *)
(* of the word after it.                                                   *)
Options ==
  /\ opt = [dirs |-> opt.dirs, src |-> opt.src, out |-> opt.out, run |-> opt.run]
  /\ opt.src = <<>> \/ \E p : opt.src = <<p>>
  /\ opt.out = <<>> \/ \E p : opt.out = <<p>>
  /\ opt.run \in BOOLEAN

Marked(n, r) ==
  /\ given[n] = Option("f") => opt.src # <<>>
  /\ given[n] = Option("r") => opt.run
  /\ given[n] = Option("o") =>
       n < r /\ Resolvable(given[n + 1]) /\ opt.out = <<PathResolve(given[n + 1])>>

ReadTo(r) ==
  /\ Len(args) = Len(given) - r /\ \A i \in 1 .. Len(args) : args[i] = given[r + i]
  /\ \A n \in 1 .. r : Marked(n, r)
  /\ opt.src # <<>> => Has("f")

CommandLine ==
  /\ todo \in Seq(Typed) /\ (given \in Typed \/ given = <<>>) /\ given \in Seq(Seq(STRING))
  /\ args \in Seq(Seq(STRING))
  /\ Options
  /\ step = "args" => \E r \in 0 .. Len(given) : ReadTo(r)

LEMMA TypedWords ==
  /\ Typed \subseteq Seq(Seq(STRING))
  /\ \A s \in Sessions : s \in Seq(Typed)
<1>1. ASSUME NEW s \in Sessions PROVE s \in Seq(Typed) /\ \A k \in DOMAIN s : s[k] \in Seq(Seq(STRING))
  <2>1. s \in Seq(Seq(Seq(STRING)))
    BY DriverAssumption
  <2>2. Len(s) \in Nat /\ DOMAIN s = 1 .. Len(s) /\ \A k \in 1 .. Len(s) : s[k] \in Seq(Seq(STRING))
    BY <2>1, ElementOfSeq
  <2>3. s \in [1 .. Len(s) -> Seq(Seq(STRING))]
    BY <2>1
  <2>4. \A k \in DOMAIN s : s[k] \in Typed
    BY DEF Typed
  <2>5. s \in [1 .. Len(s) -> Typed]
    BY <2>2, <2>3, <2>4
  <2>6. s \in Seq(Typed)
    BY <2>2, <2>5, FunctionIsSeq
  <2> QED
    BY <2>2, <2>6
<1>2. ASSUME NEW l \in Typed PROVE l \in Seq(Seq(STRING))
  <2>1. PICK s \in Sessions : \E k \in DOMAIN s : l = s[k]
    BY DEF Typed
  <2> QED
    BY <1>1, <2>1
<1> QED
  BY <1>1, <1>2

LEMMA FirstOne == ASSUME NEW x PROVE Append(<<>>, x) = <<x>>
  OBVIOUS

LEMMA TwoTaken ==
  ASSUME NEW S, NEW s \in Seq(S), Len(s) > 1
  PROVE  /\ Tail(Tail(s)) \in Seq(S) /\ Len(Tail(Tail(s))) = Len(s) - 2
         /\ \A i \in 1 .. Len(s) - 2 : Tail(Tail(s))[i] = s[i + 2]
<1> DEFINE t == Tail(s)
<1>1. Len(s) \in Nat /\ s # <<>>
  OBVIOUS
<1>2. t \in Seq(S) /\ Len(t) = Len(s) - 1 /\ \A i \in 1 .. Len(s) - 1 : t[i] = s[i + 1]
  BY <1>1
<1> HIDE DEF t
<1>3. t # <<>> /\ Len(t) \in Nat \ {0} /\ Len(s) - 1 - 1 = Len(s) - 2
  BY <1>1, <1>2
<1>4. Tail(t) \in Seq(S) /\ Len(Tail(t)) = Len(t) - 1 /\ \A i \in 1 .. Len(t) - 1 : Tail(t)[i] = t[i + 1]
  BY <1>2, <1>3
<1>5. \A i \in 1 .. Len(s) - 2 : t[i + 1] = s[i + 2]
  <2>1. TAKE i \in 1 .. Len(s) - 2
  <2>2. i + 1 \in 1 .. Len(s) - 1 /\ (i + 1) + 1 = i + 2
    BY <1>1
  <2> QED
    BY <1>2, <2>2
<1> QED
  BY <1>1, <1>2, <1>3, <1>4, <1>5 DEF t

LEMMA PathTaken ==
  ASSUME CommandLine, OperandsApart, TakePath
  PROVE  CommandLine'
<1>1. PICK r \in 0 .. Len(given) : ReadTo(r)
  BY DEF TakePath, CommandLine
<1>2. /\ step = "args" /\ Len(args) > 1 /\ args[1] \in WithPath /\ Room(Field(args[1]))
      /\ Resolvable(args[2]) /\ args' = Tail(Tail(args))
      /\ opt' = [opt EXCEPT ![Field(args[1])] = Append(@, PathResolve(args[2]))]
      /\ UNCHANGED <<todo, given, step>>
  BY DEF TakePath, PathFollows, shell
<1>3. Len(args) \in Nat /\ Len(given) \in Nat /\ args \in Seq(Seq(STRING)) /\ Len(args) = Len(given) - r
  BY <1>1 DEF CommandLine, ReadTo
<1>4. /\ args' \in Seq(Seq(STRING)) /\ Len(args') = Len(args) - 2
      /\ \A i \in 1 .. Len(args) - 2 : args'[i] = args[i + 2]
  BY <1>2, <1>3, TwoTaken
<1>5. given[r + 1] = args[1] /\ given[r + 2] = args[2]
  <2>1. 1 \in 1 .. Len(args) /\ 2 \in 1 .. Len(args)
    BY <1>2, <1>3
  <2> QED
    BY <1>1, <2>1 DEF ReadTo
<1>6. given[r + 2] \notin WithPath \cup Flags
  <2>1. given \in Typed
    BY <1>2, <1>3 DEF CommandLine
  <2>2. r + 1 \in 1 .. Len(given) - 1 /\ (r + 1) + 1 = r + 2
    BY <1>2, <1>3
  <2> QED
    BY <1>2, <1>5, <2>1, <2>2 DEF OperandsApart
<1> DEFINE p == PathResolve(args[2])
<1>7. /\ opt' = [dirs |-> opt'.dirs, src |-> opt'.src, out |-> opt'.out, run |-> opt'.run]
      /\ opt'.run = opt.run
      /\ args[1] = Option("f") => opt'.src = <<p>> /\ opt'.out = opt.out
      /\ args[1] = Option("o") => opt.out = <<>> /\ opt'.out = <<p>> /\ opt'.src = opt.src
      /\ args[1] = Option("i") => opt'.src = opt.src /\ opt'.out = opt.out
  <2> HIDE DEF p
  <2>1. opt = [dirs |-> opt.dirs, src |-> opt.src, out |-> opt.out, run |-> opt.run]
    BY DEF CommandLine, Options
  <2>2. CASE args[1] = Option("i")
    <3>1. Field(args[1]) = "dirs" /\ args[1] # Option("f") /\ args[1] # Option("o")
      BY <2>2 DEF Field, Option
    <3>2. opt' = [dirs |-> Append(opt.dirs, p), src |-> opt.src, out |-> opt.out, run |-> opt.run]
      BY <1>2, <2>1, <3>1 DEF p
    <3> QED
      BY <3>1, <3>2
  <2>3. CASE args[1] = Option("f")
    <3>1. Field(args[1]) = "src" /\ args[1] # Option("i") /\ args[1] # Option("o")
      BY <2>3 DEF Field, Option
    <3>2. opt.src = <<>>
      BY <1>2, <3>1 DEF Room, CommandLine, Options
    <3>3. opt' = [dirs |-> opt.dirs, src |-> Append(opt.src, p), out |-> opt.out, run |-> opt.run]
      BY <1>2, <2>1, <3>1 DEF p
    <3> QED
      BY <3>1, <3>2, <3>3, FirstOne
  <2>4. CASE args[1] = Option("o")
    <3>1. Field(args[1]) = "out" /\ args[1] # Option("i") /\ args[1] # Option("f")
      BY <2>4 DEF Field, Option
    <3>2. opt.out = <<>>
      BY <1>2, <3>1 DEF Room, CommandLine, Options
    <3>3. opt' = [dirs |-> opt.dirs, src |-> opt.src, out |-> Append(opt.out, p), run |-> opt.run]
      BY <1>2, <2>1, <3>1 DEF p
    <3> QED
      BY <3>1, <3>2, <3>3, FirstOne
  <2> QED
    BY <1>2, <2>2, <2>3, <2>4 DEF WithPath
<1> HIDE DEF p
<1>8. args[1] \in {Option("i"), Option("f"), Option("o")}
  BY <1>2 DEF WithPath
<1>9. Options'
  BY <1>7, <1>8 DEF Options, CommandLine
<1>10. <<p>> # <<>>
  OBVIOUS
<1>11. ASSUME NEW n \in 1 .. r PROVE Marked(n, r + 2)'
  <2>1. Marked(n, r) /\ n < r + 2
    BY <1>1, <1>3 DEF ReadTo
  <2>2. given[n] = Option("f") => opt'.src # <<>>
    BY <1>7, <1>8, <1>10, <2>1 DEF Marked
  <2>3. given[n] = Option("o") =>
          n < r + 2 /\ Resolvable(given[n + 1]) /\ opt'.out = <<PathResolve(given[n + 1])>>
    BY <1>7, <1>8, <2>1 DEF Marked
  <2> QED
    BY <1>2, <1>7, <2>1, <2>2, <2>3 DEF Marked
<1>12. Marked(r + 1, r + 2)'
  <2>1. args[1] # Option("r")
    BY <1>8 DEF Option
  <2>2. r + 1 < r + 2 /\ (r + 1) + 1 = r + 2
    BY <1>3
  <2> QED
    BY <1>2, <1>5, <1>7, <1>10, <2>1, <2>2 DEF Marked, p
<1>13. Marked(r + 2, r + 2)'
  BY <1>2, <1>6 DEF Marked, WithPath, Flags
<1>14. opt'.src # <<>> => Has("f")'
  <2>1. CASE args[1] = Option("f")
    <3>1. r + 1 \in DOMAIN given
      BY <1>2, <1>3 DEF CommandLine
    <3> QED
      BY <1>2, <1>5, <2>1, <3>1 DEF Has
  <2>2. CASE args[1] # Option("f")
    BY <1>1, <1>2, <1>7, <1>8, <2>2 DEF ReadTo, Has
  <2> QED
    BY <2>1, <2>2
<1>15. ReadTo(r + 2)'
  <2>1. Len(args') = Len(given') - (r + 2)
    BY <1>2, <1>3, <1>4
  <2>2. \A i \in 1 .. Len(args') : args'[i] = given'[(r + 2) + i]
    <3>1. TAKE i \in 1 .. Len(args')
    <3>2. i + 2 \in 1 .. Len(args) /\ r + (i + 2) = (r + 2) + i /\ i \in 1 .. Len(args) - 2
      BY <1>3, <1>4
    <3> QED
      BY <1>1, <1>2, <1>4, <3>2 DEF ReadTo
  <2>3. \A n \in 1 .. r + 2 : n \in 1 .. r \/ n = r + 1 \/ n = r + 2
    OBVIOUS
  <2> QED
    BY <1>11, <1>12, <1>13, <1>14, <2>1, <2>2, <2>3 DEF ReadTo
<1>16. r + 2 \in 0 .. Len(given')
  BY <1>2, <1>3
<1> QED
  BY <1>2, <1>4, <1>9, <1>15, <1>16 DEF CommandLine

LEMMA FlagTaken ==
  ASSUME CommandLine, TakeFlag
  PROVE  CommandLine'
<1>1. PICK r \in 0 .. Len(given) : ReadTo(r)
  BY DEF TakeFlag, CommandLine
<1>2. /\ step = "args" /\ args # <<>> /\ args[1] \in Flags /\ args' = Tail(args)
      /\ opt' = [opt EXCEPT !.run = @ \/ args[1] = Option("r")]
      /\ UNCHANGED <<todo, given, step>>
  BY DEF TakeFlag, shell
<1>3. /\ Len(args) \in Nat /\ Len(given) \in Nat /\ args \in Seq(Seq(STRING))
      /\ Len(args) = Len(given) - r /\ Len(args) > 0
  BY <1>1, <1>2 DEF CommandLine, ReadTo
<1>4. /\ args' \in Seq(Seq(STRING)) /\ Len(args') = Len(args) - 1
      /\ \A i \in 1 .. Len(args) - 1 : args'[i] = args[i + 1]
  BY <1>2, <1>3
<1>5. given[r + 1] = args[1]
  BY <1>1, <1>3 DEF ReadTo
<1>6. /\ opt' = [dirs |-> opt.dirs, src |-> opt.src, out |-> opt.out,
                 run |-> opt.run \/ args[1] = Option("r")]
      /\ opt.run \in BOOLEAN
  BY <1>2 DEF CommandLine, Options
<1>7. opt'.src = opt.src /\ opt'.out = opt.out /\ (opt.run \/ args[1] = Option("r") => opt'.run)
  BY <1>6
<1>8. Options'
  BY <1>6 DEF Options, CommandLine
<1>9. ASSUME NEW n \in 1 .. r PROVE Marked(n, r + 1)'
  <2>1. Marked(n, r) /\ n < r + 1
    BY <1>1, <1>3 DEF ReadTo
  <2> QED
    BY <1>2, <1>7, <2>1 DEF Marked
<1>10. Marked(r + 1, r + 1)'
  <2>1. args[1] # Option("f") /\ args[1] # Option("o")
    BY <1>2 DEF Flags, Option
  <2> QED
    BY <1>2, <1>5, <1>7, <2>1 DEF Marked
<1>11. ReadTo(r + 1)'
  <2>1. Len(args') = Len(given') - (r + 1)
    BY <1>2, <1>3, <1>4
  <2>2. \A i \in 1 .. Len(args') : args'[i] = given'[(r + 1) + i]
    <3>1. TAKE i \in 1 .. Len(args')
    <3>2. i + 1 \in 1 .. Len(args) /\ r + (i + 1) = (r + 1) + i /\ i \in 1 .. Len(args) - 1
      BY <1>3, <1>4
    <3> QED
      BY <1>1, <1>2, <1>4, <3>2 DEF ReadTo
  <2>3. \A n \in 1 .. r + 1 : n \in 1 .. r \/ n = r + 1
    OBVIOUS
  <2>4. opt'.src # <<>> => Has("f")'
    BY <1>1, <1>2, <1>7 DEF ReadTo, Has
  <2> QED
    BY <1>9, <1>10, <2>1, <2>2, <2>3, <2>4 DEF ReadTo
<1>12. r + 1 \in 0 .. Len(given')
  BY <1>2, <1>3
<1> QED
  BY <1>2, <1>4, <1>8, <1>11, <1>12 DEF CommandLine

LEMMA LineKept ==
  ASSUME CommandLine, OperandsApart, [DNext]_dvars
  PROVE  CommandLine'
<1>1. CASE Invoke
  <2>1. todo \in Seq(Typed) /\ todo # <<>> /\ todo' = Tail(todo) /\ given' = Head(todo)
        /\ args' = Head(todo) /\ opt' = NoOptions
    BY <1>1 DEF Invoke, CommandLine
  <2>2. todo' \in Seq(Typed) /\ given' \in Typed
    BY <2>1
  <2>3. given' \in Seq(Seq(STRING)) /\ args' = given' /\ Len(given') \in Nat
    BY <2>1, <2>2, TypedWords
  <2>4. Options' /\ opt'.src = <<>>
    BY <2>1 DEF Options, NoOptions
  <2>5. ReadTo(0)'
    BY <2>3, <2>4 DEF ReadTo
  <2>6. 0 \in 0 .. Len(given')
    BY <2>3
  <2> QED
    BY <2>2, <2>3, <2>4, <2>5, <2>6 DEF CommandLine
<1>2. ASSUME UNCHANGED <<shell, args>>, Options', step' # "args" PROVE CommandLine'
  BY <1>2 DEF shell, CommandLine
<1>3. ASSUME UNCHANGED <<shell, args, opt>>, step' # "args" PROVE CommandLine'
  BY <1>2, <1>3 DEF CommandLine, Options
<1>4. CASE ArgsDone
  <2>1. /\ opt' = [opt EXCEPT !.out = <<PathResolve(@[1])>>] /\ step' # "args"
        /\ UNCHANGED <<shell, args>>
    BY <1>4 DEF ArgsDone, Exit, Goto
  <2>2. opt' = [dirs |-> opt.dirs, src |-> opt.src, out |-> <<PathResolve(opt.out[1])>>, run |-> opt.run]
    BY <2>1 DEF CommandLine, Options
  <2>3. Options'
    BY <2>2 DEF CommandLine, Options
  <2> QED
    BY <1>2, <2>1, <2>3
<1>5. CASE ArgsRefused \/ Load \/ LoadFails \/ CompilerUndefined \/ LexerRefuses
  BY <1>3, <1>5 DEF ArgsRefused, Load, LoadFails, CompilerUndefined, LexerRefuses, Exit, Goto
<1>6. CASE Build \/ BuildFails \/ BuildUndefined \/ OpenOutput \/ OpenFails \/ SaveCommand
  BY <1>3, <1>6 DEF Build, BuildFails, BuildUndefined, OpenOutput, OpenFails, SaveCommand, Built, Exit, Goto
<1>7. CASE SaveFails \/ CloseOutput \/ Start \/ StartFails \/ NoMachine
  BY <1>3, <1>7 DEF SaveFails, CloseOutput, Start, StartFails, NoMachine, Exit, Goto
<1>8. CASE Run \/ RunEnds \/ RunUndefined \/ Killed
  BY <1>3, <1>8 DEF Run, RunEnds, RunUndefined, Killed, Exit, Goto
<1>9. CASE UNCHANGED dvars
  <2>1. UNCHANGED <<todo, given, args, opt, step>>
    BY <1>9 DEF dvars, shell
  <2> QED
    BY <2>1 DEF CommandLine, Options, ReadTo, Marked, Has
<1> QED
  BY <1>1, <1>4, <1>5, <1>6, <1>7, <1>8, <1>9, PathTaken, FlagTaken DEF DNext, Process

-----------------------------------------------------------------------------
(* When the command line is read, the output is the file that it names.    *)
Obeying == step \in {"load", "build", "save", "start", "run"} \/ (step = "shell" /\ status = "0")

Settled ==
  Obeying => Named("o") \subseteq {Target} /\ (Has("f") <=> opt.src # <<>>) /\ (Has("r") => opt.run)

LEMMA SettledAtLast ==
  ASSUME CommandLine, NamesKept, ArgsDone
  PROVE  Settled'
<1>1. PICK r \in 0 .. Len(given) : ReadTo(r)
  BY DEF ArgsDone, CommandLine
<1>2. /\ args = <<>> /\ opt.out # <<>> /\ Resolvable(opt.out[1]) /\ given' = given
      /\ opt' = [opt EXCEPT !.out = <<PathResolve(@[1])>>]
  BY DEF ArgsDone, shell
<1>3. r = Len(given) /\ Len(given) \in Nat /\ DOMAIN given = 1 .. Len(given)
  BY <1>1, <1>2 DEF ReadTo, CommandLine
<1>4. opt' = [dirs |-> opt.dirs, src |-> opt.src, out |-> <<PathResolve(opt.out[1])>>, run |-> opt.run]
  BY <1>2 DEF CommandLine, Options
<1>5. opt'.src = opt.src /\ opt'.run = opt.run /\ Target' = Components(PathResolve(opt.out[1]))
  BY <1>4 DEF Target
<1>6. ASSUME NEW f \in Named("o")' PROVE f = Target'
  <2>1. PICK n \in 1 .. Len(given) - 1 :
          given[n] = Option("o") /\ Plain(given[n + 1]) /\ f = Components(given[n + 1])
    BY <1>2 DEF Named
  <2>2. n \in 1 .. r /\ n + 1 \in DOMAIN given
    BY <1>3
  <2>3. Resolvable(given[n + 1]) /\ opt.out = <<PathResolve(given[n + 1])>>
    BY <1>1, <2>1, <2>2 DEF ReadTo, Marked
  <2>4. opt.out[1] = PathResolve(given[n + 1])
    BY <2>3
  <2>5. given \in Typed
    BY <1>3, <2>2 DEF CommandLine
  <2>6. Components(PathResolve(PathResolve(given[n + 1]))) = Components(given[n + 1])
    BY <1>2, <2>1, <2>2, <2>3, <2>4, <2>5 DEF NamesKept
  <2> QED
    BY <1>5, <2>1, <2>4, <2>6
<1>7. Has("f")' = Has("f") /\ Has("r")' = Has("r")
  BY <1>2 DEF Has
<1>8. (Has("f") => opt.src # <<>>) /\ (Has("r") => opt.run)
  <2>1. \A n \in DOMAIN given : Marked(n, r)
    BY <1>1, <1>3 DEF ReadTo
  <2> QED
    BY <2>1 DEF Marked, Has
<1>9. opt.src # <<>> => Has("f")
  BY <1>1 DEF ReadTo
<1> QED
  BY <1>5, <1>6, <1>7, <1>8, <1>9 DEF Settled

LEMMA SettledKept ==
  ASSUME CommandLine, Settled, NamesKept, [DNext]_dvars
  PROVE  Settled'
<1>1. ASSUME ~Obeying' PROVE Settled'
  BY <1>1 DEF Settled
<1>2. ASSUME UNCHANGED <<given, opt>>, Obeying' => Obeying PROVE Settled'
  BY <1>2 DEF Settled, Named, Has, Target
<1>3. CASE Invoke \/ TakePath \/ TakeFlag \/ ArgsRefused \/ LoadFails \/ CompilerUndefined
  BY <1>1, <1>3 DEF Invoke, TakePath, TakeFlag, ArgsRefused, LoadFails, CompilerUndefined, Exit, Goto, Obeying
<1>4. CASE LexerRefuses \/ BuildFails \/ BuildUndefined \/ OpenFails \/ SaveFails
  BY <1>1, <1>4 DEF LexerRefuses, BuildFails, BuildUndefined, OpenFails, SaveFails, Exit, Goto, Obeying
<1>5. CASE StartFails \/ NoMachine \/ RunUndefined \/ Killed
  BY <1>1, <1>5 DEF StartFails, NoMachine, RunUndefined, Killed, Exit, Goto, Obeying
<1>6. CASE Load \/ Build \/ OpenOutput \/ SaveCommand \/ CloseOutput
  BY <1>2, <1>6 DEF Load, Build, OpenOutput, SaveCommand, CloseOutput, Built, Exit, Goto, shell, Obeying
<1>7. CASE Start \/ Run \/ RunEnds
  BY <1>2, <1>7 DEF Start, Run, RunEnds, Exit, Goto, shell, Obeying
<1>8. CASE UNCHANGED dvars
  BY <1>2, <1>8 DEF dvars, shell, Obeying
<1> QED
  BY <1>3, <1>4, <1>5, <1>6, <1>7, <1>8, SettledAtLast DEF DNext, Process

-----------------------------------------------------------------------------
(* What main has done when it is at a step. The machine, that nobody else  *)
(* stops, is where it was created or where Run has left it.                *)
Compiling ==
  /\ step \in {"args", "load"} => ctl = "parse"
  /\ step \in {"load", "build", "save"} => opt.src # <<>>
  /\ step \in {"args", "load", "build"} => disk = before
  /\ step = "save" => ctl = "done" /\ disk = Put(Target, <<>>, before)
  /\ ctl = "done" => line = Len(code)

Delivered ==
  step \in {"start", "run"} \/ (step = "shell" /\ status = "0") =>
    IF opt.src # <<>>
    THEN ctl = "done" /\ (~lost => disk = Put(Target, Stored(mc), before))
    ELSE disk = before

Executed ==
  /\ state \in {"run", "fail"}
  /\ step \in {"start", "run"} => opt.run
  /\ step = "shell" /\ status = "0" /\ opt.run => vctl = "stopped" /\ state = "run"

LEMMA PutTwice ==
  ASSUME NEW f, NEW a, NEW b, NEW d
  PROVE  Put(f, b, Put(f, a, d)) = Put(f, b, d)
BY DEF Put

(* With all its commands flushed, the file is the program.                 *)
LEMMA AllFlushed ==
  ASSUME Parser, CommandLine, disk = Put(Target, <<>>, before), Flushed(Len(mc))
  PROVE  disk' = Put(Target, Stored(mc), before)
<1>1. PICK R : Stored(mc) \in Seq(R) /\ Len(Stored(mc)) = Len(mc)
  BY StoredTyped DEF Parser, TypeOK
<1>2. disk[Target] = <<>>
  BY DEF Put
<1>3. SubSeq(Stored(mc), 1, Len(mc)) = Stored(mc)
  BY <1>1, SubSeqFull
<1>4. SubSeq(<<>>, Len(mc) + 1, Len(<<>>)) = <<>>
  <2>1. Len(mc) + 1 \in Int /\ Len(<<>>) = 0 /\ Len(mc) + 1 > 0
    BY <1>1
  <2> QED
    BY <2>1, SubSeqEmpty
<1>5. Stored(mc) \o <<>> = Stored(mc)
  BY <1>1, ConcatEmptySeq
<1>6. disk' = Put(Target, Stored(mc), disk)
  BY <1>2, <1>3, <1>4, <1>5 DEF Flushed
<1> QED
  BY <1>6, PutTwice

LEMMA BuildKept ==
  ASSUME Compiling, Next
  PROVE  ctl' = "done" => line' = Len(code')
BY DEF Compiling, Next, NoArg, Initr, OneArg, Jmpi, TwoArg, Branch, Declare, DeclareUndefined,
   DeclareRefused, NullName, Refused, Unknown, MemoryUndefined, NameRefused, LabelLost, Done, Parsing,
   Emit, EmitWith, Accept, Stop

LEMMA CompilingKept ==
  ASSUME Compiling, CommandLine, [DNext]_dvars
  PROVE  Compiling'
<1>1. CASE Invoke
  BY <1>1 DEF Invoke, NoCompiler, Compiling
<1>2. ASSUME UNCHANGED <<builder, disk, before>>, step = "args", step' \in {"args", "shell"}
      PROVE  Compiling'
  BY <1>2 DEF builder, Compiling
<1>3. CASE TakePath \/ TakeFlag \/ ArgsRefused
  BY <1>2, <1>3 DEF TakePath, TakeFlag, ArgsRefused, Exit, shell, files
<1>4. CASE ArgsDone
  <2>1. /\ UNCHANGED <<builder, disk, before>> /\ step = "args"
        /\ opt' = [opt EXCEPT !.out = <<PathResolve(@[1])>>]
        /\ step' = "load" => opt.src # <<>>
        /\ step' \in {"load", "start", "shell"}
    BY <1>4 DEF ArgsDone, Exit, Goto, shell, files
  <2>2. opt'.src = opt.src
    BY <2>1 DEF CommandLine, Options
  <2> QED
    BY <2>1, <2>2 DEF builder, Compiling
<1>5. CASE Load
  BY <1>5 DEF Load, Goto, shell, files, Compiling
<1>6. CASE Build
  BY <1>6, BuildKept DEF Build, shell, files, Compiling
<1>7. ASSUME UNCHANGED builder, step' \notin {"args", "load", "build", "save"}
      PROVE  Compiling'
  BY <1>7 DEF builder, Compiling
<1>8. CASE LoadFails \/ CompilerUndefined \/ LexerRefuses \/ BuildFails \/ BuildUndefined \/ OpenFails
  BY <1>7, <1>8 DEF LoadFails, CompilerUndefined, LexerRefuses, BuildFails, BuildUndefined, OpenFails,
     Exit, Goto
<1>9. CASE SaveFails \/ CloseOutput \/ Start \/ StartFails \/ NoMachine
  BY <1>7, <1>9 DEF SaveFails, CloseOutput, Start, StartFails, NoMachine, Exit, Goto
<1>10. CASE Run \/ RunEnds \/ RunUndefined \/ Killed
  BY <1>7, <1>10 DEF Run, RunEnds, RunUndefined, Killed, Exit, Goto
<1>11. CASE OpenOutput
  <2>1. /\ ctl = "done" /\ step = "build" /\ disk' = Put(Target, <<>>, disk) /\ step' = "save"
        /\ UNCHANGED <<shell, opt, builder>>
    BY <1>11 DEF OpenOutput, Built, Truncated, Goto
  <2>2. Target' = Target
    BY <2>1 DEF Target
  <2> QED
    BY <2>1, <2>2 DEF shell, builder, Compiling
<1>12. CASE SaveCommand \/ UNCHANGED dvars
  <2>1. UNCHANGED <<opt, builder, disk, before, step>>
    BY <1>12 DEF SaveCommand, dvars, shell, files
  <2>2. Target' = Target
    BY <2>1 DEF Target
  <2> QED
    BY <2>1, <2>2 DEF builder, Compiling
<1> QED
  BY <1>1, <1>3, <1>4, <1>5, <1>6, <1>8, <1>9, <1>10, <1>11, <1>12 DEF DNext, Process

LEMMA DeliveredKept ==
  ASSUME Parser, OneProgram, CommandLine, Compiling, Delivered, [DNext]_dvars
  PROVE  Delivered'
<1> DEFINE Due == step \in {"start", "run"} \/ (step = "shell" /\ status = "0")
<1>1. ASSUME ~Due' PROVE Delivered'
  BY <1>1 DEF Delivered
<1>2. ASSUME UNCHANGED <<opt, builder, files, before>>, Due' => Due PROVE Delivered'
  BY <1>2 DEF Delivered, Target, Stored, builder, files
<1>3. CASE Invoke \/ TakePath \/ TakeFlag \/ ArgsRefused \/ Load \/ LoadFails \/ CompilerUndefined
  BY <1>1, <1>3 DEF Invoke, TakePath, TakeFlag, ArgsRefused, Load, LoadFails, CompilerUndefined, Exit, Goto
<1>4. CASE LexerRefuses \/ Build \/ BuildFails \/ BuildUndefined \/ OpenOutput \/ OpenFails
  BY <1>1, <1>4 DEF LexerRefuses, Build, BuildFails, BuildUndefined, OpenOutput, OpenFails, Built, Exit, Goto
<1>5. CASE SaveCommand \/ SaveFails \/ StartFails \/ NoMachine \/ RunUndefined \/ Killed
  BY <1>1, <1>5 DEF SaveCommand, SaveFails, StartFails, NoMachine, RunUndefined, Killed, Exit, Goto
<1>6. CASE Start \/ Run \/ RunEnds
  BY <1>2, <1>6 DEF Start, Run, RunEnds, Exit, Goto, shell
<1>7. CASE UNCHANGED dvars
  BY <1>2, <1>7 DEF dvars, shell
<1>8. CASE ArgsDone
  <2>1. CASE opt.src # <<>>
    BY <1>1, <1>8, <2>1 DEF ArgsDone, Goto
  <2>2. CASE opt.src = <<>>
    <3>1. opt' = [opt EXCEPT !.out = <<PathResolve(@[1])>>] /\ disk = before /\ UNCHANGED <<disk, before>>
      BY <1>8 DEF ArgsDone, shell, files, Compiling
    <3>2. opt'.src = opt.src
      BY <3>1 DEF CommandLine, Options
    <3> QED
      BY <2>2, <3>1, <3>2 DEF Delivered
  <2> QED
    BY <2>1, <2>2
<1>9. CASE CloseOutput
  <2>1. /\ step = "save" /\ saved >= Len(mc) /\ UNCHANGED <<opt, builder, before>>
        /\ saved \in 0 .. Len(mc) /\ Len(mc) \in Nat
    BY <1>9 DEF CloseOutput, AllSaved, shell, OneProgram, Saving, Parser, TypeOK
  <2>2. PICK n \in 0 .. saved : Flushed(n) /\ lost' = (n < saved)
    BY <1>9, <2>1 DEF CloseOutput, Closed
  <2>3. ASSUME ~lost' PROVE disk' = Put(Target, Stored(mc), before)
    <3>1. saved = Len(mc) /\ n <= saved /\ n \in Nat /\ saved \in Nat
      BY <2>1, <2>2
    <3>2. ~(n < saved)
      BY <2>2, <2>3
    <3>3. n = Len(mc)
      BY <3>1, <3>2
    <3> QED
      BY <2>1, <2>2, <3>3, AllFlushed DEF Compiling
  <2>4. Target' = Target /\ Stored(mc)' = Stored(mc)
    BY <2>1 DEF Target, Stored, builder
  <2> QED
    BY <2>1, <2>3, <2>4 DEF Delivered, Compiling, builder
<1> QED
  BY <1>3, <1>4, <1>5, <1>6, <1>7, <1>8, <1>9 DEF DNext, Process

LEMMA MachineState ==
  ASSUME state \in {"run", "fail"}, V!Next
  PROVE  state' \in {"run", "fail"}
<1>1. ASSUME NEW outcomes, V!Finish(outcomes) PROVE state' \in {"run", "fail"}
  BY <1>1 DEF V!Finish, V!Undefined, V!Retire
<1>2. CASE V!BootLoadFails \/ V!BootRefused \/ V!BootInitr \/ V!ReloadFails \/ V!Fetch
  BY <1>2 DEF V!BootLoadFails, V!BootRefused, V!BootInitr, V!ReloadFails, V!Fetch, V!Fail, V!Undefined
<1>3. CASE V!Nop \/ V!Move \/ V!UnaryCmd \/ V!BinaryCmd \/ V!LogicCmd \/ V!Jmp \/ V!If
  BY <1>1, <1>3 DEF V!Nop, V!Move, V!UnaryCmd, V!BinaryCmd, V!LogicCmd, V!Jmp, V!If
<1>4. CASE V!Call \/ V!Ret \/ V!Push \/ V!Pop \/ V!Initr \/ V!LogWord
  BY <1>1, <1>4 DEF V!Call, V!Ret, V!Push, V!Pop, V!Initr, V!LogWord
<1>5. CASE V!Logs \/ V!Strcpy
  BY <1>5 DEF V!Logs, V!Strcpy, V!Character, V!Retire, V!Continue, V!Undefined
<1> QED
  BY <1>2, <1>3, <1>4, <1>5 DEF V!Next

LEMMA ExecutedKept ==
  ASSUME CommandLine, Executed, [DNext]_dvars
  PROVE  Executed'
<1>1. CASE Invoke
  BY <1>1 DEF Invoke, NewMachine, Executed
<1>2. ASSUME UNCHANGED machine, step' \notin {"start", "run"}, step' = "shell" => status' # "0"
      PROVE  Executed'
  BY <1>2 DEF machine, Executed
<1>3. CASE TakePath \/ TakeFlag \/ ArgsRefused \/ Load \/ LoadFails \/ CompilerUndefined
  BY <1>2, <1>3 DEF TakePath, TakeFlag, ArgsRefused, Load, LoadFails, CompilerUndefined, Exit, Goto
<1>4. CASE LexerRefuses \/ Build \/ BuildFails \/ BuildUndefined \/ OpenOutput \/ OpenFails
  BY <1>2, <1>4 DEF LexerRefuses, Build, BuildFails, BuildUndefined, OpenOutput, OpenFails, Built, Exit, Goto
<1>5. CASE SaveCommand \/ SaveFails \/ StartFails \/ NoMachine \/ RunUndefined \/ Killed
  BY <1>2, <1>5 DEF SaveCommand, SaveFails, StartFails, NoMachine, RunUndefined, Killed, Exit, Goto
<1>6. CASE ArgsDone
  <2>1. /\ opt' = [opt EXCEPT !.out = <<PathResolve(@[1])>>] /\ UNCHANGED machine
        /\ step' \in {"load", "start", "shell"}
        /\ step' = "start" => opt.run
        /\ step' = "shell" => ~opt.run
    BY <1>6 DEF ArgsDone, Exit, Goto
  <2>2. opt'.run = opt.run
    BY <2>1 DEF CommandLine, Options
  <2> QED
    BY <2>1, <2>2 DEF machine, Executed
<1>7. CASE CloseOutput
  BY <1>7 DEF CloseOutput, Exit, Goto, machine, Executed
<1>8. CASE Start
  BY <1>8 DEF Start, Goto, machine, Executed
<1>9. CASE Run
  <2>1. state' \in {"run", "fail"} /\ step' = "run" /\ opt' = opt /\ step = "run"
    BY <1>9, MachineState DEF Run, Executed
  <2> QED
    BY <2>1 DEF Executed
<1>10. CASE RunEnds
  BY <1>10 DEF RunEnds, Exit, machine, Executed
<1>11. CASE UNCHANGED dvars
  BY <1>11 DEF dvars, machine, Executed
<1> QED
  BY <1>1, <1>3, <1>4, <1>5, <1>6, <1>7, <1>8, <1>9, <1>10, <1>11 DEF DNext, Process

(* The status 0 says what happened, for every command line, source, image  *)
(* and failure of the system: the file of -o holds the whole program and   *)
(* chip32_run returned 0. Two things are asked of the command lines:       *)
(* that no option is typed where the path of another belongs, and that     *)
(* main resolves their plain words to the files that they are.             *)
THEOREM StatusIsTrue ==
  ASSUME OperandsApart, NamesKept
  PROVE  DSpec => []ZeroMeansDone
<1> DEFINE I == CommandLine /\ Settled /\ Compiling /\ Delivered /\ Executed
<1>1. DInit => OneProgram
  BY DEF DInit, OneProgram, ImageOfOneProgram, Saving
<1>2. Parser /\ OneProgram /\ [DNext]_dvars => OneProgram'
  BY OneProgramKept
<1>3. DInit => I
  <2>1. DInit => CommandLine
    BY TypedWords DEF DInit, CommandLine, Options, NoOptions
  <2> QED
    BY <2>1 DEF DInit, Settled, Obeying, Compiling, Delivered, Executed
<1>4. Parser /\ OneProgram /\ I /\ [DNext]_dvars => I'
  BY LineKept, SettledKept, CompilingKept, DeliveredKept, ExecutedKept
<1>5. I => ZeroMeansDone
  <2>1. SUFFICES ASSUME I, step = "shell", status = "0", ~lost
        PROVE  /\ \A f \in Named("o") : disk = IF Has("f") THEN Put(f, Stored(mc), before) ELSE before
               /\ Has("f") => ctl = "done" /\ line = Len(code)
               /\ Has("r") => vctl = "stopped" /\ state = "run"
    BY DEF ZeroMeansDone
  <2>2. Named("o") \subseteq {Target} /\ (Has("f") <=> opt.src # <<>>) /\ (Has("r") => opt.run)
    BY <2>1 DEF Settled, Obeying
  <2>3. IF opt.src # <<>> THEN ctl = "done" /\ disk = Put(Target, Stored(mc), before)
                          ELSE disk = before
    BY <2>1 DEF Delivered
  <2> QED
    BY <2>1, <2>2, <2>3 DEF Compiling, Executed
<1> HIDE DEF I
<1> QED
  BY <1>1, <1>2, <1>3, <1>4, <1>5, DriverTyped, PTL DEF DSpec
-----------------------------------------------------------------------------
(* The machine that main runs, with the lemmas that were proved of it.     *)
P == INSTANCE Chip32_proofs WITH image <- Image, ctl <- vctl, Images <- Seq(V!Command)

LEMMA WrapTyped == ASSUME NEW x \in Int PROVE V!Wrap(x) \in V!Word
BY MachineAssumption, P!WrapWord DEF V!Wrap, V!Word, V!Half, P!Wrap, P!Word, P!Half

(* What is saved are commands of the machine.                              *)
LEMMA StoredCommands ==
  ASSUME NEW program \in Seq(MachineCommand)
  PROVE  Stored(program) \in Seq(V!Command) /\ Len(Stored(program)) = Len(program)
<1> DEFINE command(n) == [program[n] EXCEPT !.a0 = V!Wrap(@), !.a1 = V!Wrap(@)]
<1>1. Len(program) \in Nat /\ DOMAIN program = 1 .. Len(program)
  OBVIOUS
<1>2. ASSUME NEW n \in 1 .. Len(program) PROVE command(n) \in V!Command
  <2>1. PICK c \in MachineCommand : c = program[n]
    BY ElementOfSeq
  <2>2. /\ c = [cmd |-> c.cmd, t0 |-> c.t0, a0 |-> c.a0, t1 |-> c.t1, a1 |-> c.a1]
        /\ c.cmd \in Operations /\ c.t0 \in V!Types /\ c.t1 \in V!Types /\ c.a0 \in Int /\ c.a1 \in Int
    BY DEF MachineCommand, V!Types
  <2>3. command(n) = [cmd |-> c.cmd, t0 |-> c.t0, a0 |-> V!Wrap(c.a0), t1 |-> c.t1, a1 |-> V!Wrap(c.a1)]
    <3>1. command(n) = [c EXCEPT !.a0 = V!Wrap(@), !.a1 = V!Wrap(@)]
      BY <2>1
    <3>2. DOMAIN c = {"cmd", "t0", "a0", "t1", "a1"}
      BY DEF MachineCommand
    <3> HIDE DEF command
    <3> QED
      BY <2>2, <3>1, <3>2
  <2>4. c.cmd \in V!CommandNames
    BY <2>2 DEF Operations, NoArgs, OneArgs, TwoArgs, V!CommandNames, V!BinaryOps, V!UnaryOps
  <2>5. V!Wrap(c.a0) \in V!Word /\ V!Wrap(c.a1) \in V!Word
    BY <2>2, WrapTyped
  <2> QED
    BY <2>2, <2>3, <2>4, <2>5 DEF V!Command
<1>3. Stored(program) = [n \in 1 .. Len(program) |-> command(n)]
  BY <1>1 DEF Stored
<1> HIDE DEF command
<1>4. Stored(program) \in [1 .. Len(program) -> V!Command]
  BY <1>2, <1>3
<1> QED
  BY <1>1, <1>4, FunctionIsSeq

(* The rest of the words, here those after the first r.                    *)
Rest(r) == Len(args) = Len(given) - r /\ \A i \in 1 .. Len(args) : args[i] = given[r + i]

Words ==
  /\ todo \in Seq(Typed) /\ (given \in Typed \/ given = <<>>) /\ given \in Seq(Seq(STRING))
  /\ args \in Seq(Seq(STRING))
  /\ \E r \in 0 .. Len(given) : Rest(r)

LEMMA SuffixOfRest ==
  ASSUME Words
  PROVE  IsSuffix(args, given)
<1>1. PICK r \in 0 .. Len(given) : Rest(r)
  BY DEF Words
<1>2. args \in Seq(Seq(STRING)) /\ given \in Seq(Seq(STRING)) /\ Len(args) \in Nat /\ Len(given) \in Nat
      /\ Len(args) = Len(given) - r /\ Len(args) <= Len(given)
  <2>1. args \in Seq(Seq(STRING)) /\ given \in Seq(Seq(STRING)) /\ Len(args) = Len(given) - r
    BY <1>1 DEF Words, Rest
  <2>2. Len(args) \in Nat /\ Len(given) \in Nat
    BY <2>1
  <2> QED
    BY <2>1, <2>2
<1> DEFINE a == Reverse(args)
           g == Reverse(given)
<1>3. a \in Seq(Seq(STRING)) /\ Len(a) = Len(args)
      /\ \A i \in 1 .. Len(args) : a[i] = args[(Len(args) - i) + 1]
  <2>1. \A i \in 1 .. Len(args) : args[(Len(args) - i) + 1] \in Seq(STRING)
    BY <1>2, ElementOfSeq
  <2>2. a = [i \in 1 .. Len(args) |-> args[(Len(args) - i) + 1]]
    BY DEF Reverse
  <2> HIDE DEF a
  <2>3. a \in [1 .. Len(args) -> Seq(STRING)]
    BY <2>1, <2>2
  <2> QED
    BY <1>2, <2>2, <2>3, FunctionIsSeq
<1>4. g \in Seq(Seq(STRING)) /\ Len(g) = Len(given)
      /\ \A i \in 1 .. Len(given) : g[i] = given[(Len(given) - i) + 1]
  <2>1. \A i \in 1 .. Len(given) : given[(Len(given) - i) + 1] \in Seq(STRING)
    BY <1>2, ElementOfSeq
  <2>2. g = [i \in 1 .. Len(given) |-> given[(Len(given) - i) + 1]]
    BY DEF Reverse
  <2> HIDE DEF g
  <2>3. g \in [1 .. Len(given) -> Seq(STRING)]
    BY <2>1, <2>2
  <2> QED
    BY <1>2, <2>2, <2>3, FunctionIsSeq
<1>5. ASSUME NEW i \in 1 .. Len(args) PROVE a[i] = g[i]
  <2>1. (Len(args) - i) + 1 \in 1 .. Len(args) /\ r + ((Len(args) - i) + 1) = (Len(given) - i) + 1
        /\ i \in 1 .. Len(given)
    BY <1>2
  <2>2. args[(Len(args) - i) + 1] = given[r + ((Len(args) - i) + 1)]
    BY <1>1, <2>1 DEF Rest
  <2> QED
    BY <1>3, <1>4, <2>1, <2>2
<1> HIDE DEF a, g
<1>6. SubSeq(a, 1, Len(a)) = SubSeq(g, 1, Len(a))
  <2>1. SubSeq(a, 1, Len(a)) = a
    BY <1>2, <1>3, SubSeqFull
  <2>2. SubSeq(g, 1, Len(a)) \in Seq(Seq(STRING)) /\ Len(SubSeq(g, 1, Len(a))) = Len(a)
        /\ \A i \in 1 .. Len(a) : SubSeq(g, 1, Len(a))[i] = g[i]
    <3>1. Len(a) \in Nat /\ Len(g) \in Nat /\ Len(a) <= Len(g)
      BY <1>2, <1>3, <1>4
    <3>2. \A i \in 1 .. Len(a) : g[i] \in Seq(STRING)
      BY <1>4, <3>1, ElementOfSeq
    <3> QED
      BY <1>4, <3>1, <3>2
  <2> QED
    BY <1>2, <1>3, <1>5, <2>1, <2>2
<1>7. IsPrefix(a, g)
  BY <1>2, <1>3, <1>4, <1>6 DEF IsPrefix
<1> QED
  BY <1>7 DEF IsSuffix, a, g

(* The options have room for their paths, and the output can be resolved   *)
(* once more.                                                              *)
Paths ==
  /\ opt \in [dirs : Seq(Seq(STRING)), src : Seq(Seq(STRING)), out : Seq(Seq(STRING)), run : BOOLEAN]
  /\ Len(opt.dirs) <= MAX_DIR_INCLUDE /\ Len(opt.src) <= 1 /\ Len(opt.out) <= 1
  /\ step = "args" /\ opt.out # <<>> => PathResolve(opt.out[1]) \in Seq(STRING)

LEMMA TypedPath ==
  ASSUME Words, PathsTyped, TakePath
  PROVE  Words' /\ PathResolve(args[2]) \in Seq(STRING) /\ PathResolve(PathResolve(args[2])) \in Seq(STRING)
<1>1. PICK r \in 0 .. Len(given) : Rest(r)
  BY DEF Words
<1>2. Len(args) > 1 /\ args' = Tail(Tail(args)) /\ UNCHANGED <<todo, given>>
  BY DEF TakePath, PathFollows, shell
<1>3. args \in Seq(Seq(STRING)) /\ Len(args) = Len(given) - r
  BY <1>1 DEF Words, Rest
<1>4. Len(args) \in Nat /\ Len(given) \in Nat
  BY <1>3 DEF Words
<1>5. /\ args' \in Seq(Seq(STRING)) /\ Len(args') = Len(args) - 2
      /\ \A i \in 1 .. Len(args) - 2 : args'[i] = args[i + 2]
  BY <1>2, <1>3, TwoTaken
<1>6. \A i \in 1 .. Len(args') : args'[i] = given'[(r + 2) + i]
  <2>1. TAKE i \in 1 .. Len(args')
  <2>2. i + 2 \in 1 .. Len(args) /\ r + (i + 2) = (r + 2) + i /\ i \in 1 .. Len(args) - 2
    BY <1>4, <1>5
  <2> QED
    BY <1>1, <1>2, <1>5, <2>2 DEF Rest
<1>7. r + 2 \in 0 .. Len(given') /\ Len(args') = Len(given') - (r + 2)
  BY <1>2, <1>3, <1>4, <1>5
<1>8. Words'
  BY <1>2, <1>5, <1>6, <1>7 DEF Words, Rest
<1>9. args[2] = given[r + 2] /\ r + 2 \in DOMAIN given /\ given \in Typed
  <2>1. 2 \in 1 .. Len(args) /\ r + 2 \in 1 .. Len(given) /\ given # <<>>
    BY <1>2, <1>3, <1>4
  <2> QED
    BY <1>1, <1>4, <2>1 DEF Words, Rest
<1> QED
  BY <1>8, <1>9 DEF PathsTyped

LEMMA WordsKept ==
  ASSUME Words, PathsTyped, [DNext]_dvars
  PROVE  Words'
<1>1. CASE Invoke
  <2>1. todo \in Seq(Typed) /\ todo # <<>> /\ todo' = Tail(todo) /\ given' = Head(todo)
        /\ args' = Head(todo)
    BY <1>1 DEF Invoke, Words
  <2>2. todo' \in Seq(Typed) /\ given' \in Typed
    BY <2>1
  <2>3. given' \in Seq(Seq(STRING)) /\ args' = given' /\ Len(given') \in Nat
    BY <2>1, <2>2, TypedWords
  <2>4. Rest(0)' /\ 0 \in 0 .. Len(given')
    BY <2>3 DEF Rest
  <2> QED
    BY <2>2, <2>3, <2>4 DEF Words
<1>2. CASE TakeFlag
  <2>1. PICK r \in 0 .. Len(given) : Rest(r)
    BY DEF Words
  <2>2. args # <<>> /\ args' = Tail(args) /\ UNCHANGED <<todo, given>>
    BY <1>2 DEF TakeFlag, shell
  <2>3. args \in Seq(Seq(STRING)) /\ Len(args) = Len(given) - r
    BY <2>1 DEF Words, Rest
  <2>4. Len(args) \in Nat /\ Len(given) \in Nat /\ Len(args) > 0
    BY <2>2, <2>3 DEF Words
  <2>5. /\ args' \in Seq(Seq(STRING)) /\ Len(args') = Len(args) - 1
        /\ \A i \in 1 .. Len(args) - 1 : args'[i] = args[i + 1]
    BY <2>2, <2>3
  <2>6. \A i \in 1 .. Len(args') : args'[i] = given'[(r + 1) + i]
    <3>1. TAKE i \in 1 .. Len(args')
    <3>2. i + 1 \in 1 .. Len(args) /\ r + (i + 1) = (r + 1) + i /\ i \in 1 .. Len(args) - 1
      BY <2>4, <2>5
    <3> QED
      BY <2>1, <2>2, <2>5, <3>2 DEF Rest
  <2>7. r + 1 \in 0 .. Len(given') /\ Len(args') = Len(given') - (r + 1)
    BY <2>2, <2>3, <2>4, <2>5
  <2> QED
    BY <2>2, <2>5, <2>6, <2>7 DEF Words, Rest
<1>3. ASSUME UNCHANGED <<shell, args>> PROVE Words'
  BY <1>3 DEF shell, Words, Rest
<1>4. CASE ArgsRefused \/ ArgsDone \/ Load \/ LoadFails \/ CompilerUndefined \/ LexerRefuses
  BY <1>3, <1>4 DEF ArgsRefused, ArgsDone, Load, LoadFails, CompilerUndefined, LexerRefuses
<1>5. CASE Build \/ BuildFails \/ BuildUndefined \/ OpenOutput \/ OpenFails \/ SaveCommand
  BY <1>3, <1>5 DEF Build, BuildFails, BuildUndefined, OpenOutput, OpenFails, SaveCommand
<1>6. CASE SaveFails \/ CloseOutput \/ Start \/ StartFails \/ NoMachine
  BY <1>3, <1>6 DEF SaveFails, CloseOutput, Start, StartFails, NoMachine
<1>7. CASE Run \/ RunEnds \/ RunUndefined \/ Killed \/ UNCHANGED dvars
  BY <1>3, <1>7 DEF Run, RunEnds, RunUndefined, Killed, dvars
<1> QED
  BY <1>1, <1>2, <1>4, <1>5, <1>6, <1>7, TypedPath DEF DNext, Process

LEMMA PathsKept ==
  ASSUME Words, Paths, PathsTyped, [DNext]_dvars
  PROVE  Paths'
<1> DEFINE OptionsOf == [dirs : Seq(Seq(STRING)), src : Seq(Seq(STRING)), out : Seq(Seq(STRING)), run : BOOLEAN]
<1>1. CASE Invoke
  <2>1. opt' = NoOptions
    BY <1>1 DEF Invoke
  <2>2. Len(<<>>) = 0 /\ <<>> \in Seq(Seq(STRING)) /\ 0 <= MAX_DIR_INCLUDE
    BY DriverAssumption
  <2> QED
    BY <2>1, <2>2 DEF NoOptions, Paths
<1>2. ASSUME UNCHANGED opt, step' = "args" => step = "args" PROVE Paths'
  BY <1>2 DEF Paths
<1>3. CASE TakePath
  <2> DEFINE p == PathResolve(args[2])
  <2>1. /\ step = "args" /\ args[1] \in WithPath /\ Room(Field(args[1])) /\ step' = step
        /\ opt' = [opt EXCEPT ![Field(args[1])] = Append(@, p)]
    BY <1>3 DEF TakePath, PathFollows
  <2>2. p \in Seq(STRING) /\ PathResolve(p) \in Seq(STRING)
    BY <1>3, TypedPath
  <2> HIDE DEF p
  <2>3. /\ opt = [dirs |-> opt.dirs, src |-> opt.src, out |-> opt.out, run |-> opt.run]
        /\ opt.dirs \in Seq(Seq(STRING)) /\ opt.src \in Seq(Seq(STRING)) /\ opt.out \in Seq(Seq(STRING))
        /\ opt.run \in BOOLEAN
    BY DEF Paths
  <2>4. ASSUME NEW s \in Seq(Seq(STRING))
        PROVE  Append(s, p) \in Seq(Seq(STRING)) /\ Len(Append(s, p)) = Len(s) + 1 /\ Len(s) \in Nat
               /\ (Len(s) = 0 => Append(s, p)[1] = p)
    BY <2>2
  <2>5. CASE Field(args[1]) = "dirs"
    <3>1. opt' = [dirs |-> Append(opt.dirs, p), src |-> opt.src, out |-> opt.out, run |-> opt.run]
      BY <2>1, <2>3, <2>5
    <3>2. Len(opt.dirs) < MAX_DIR_INCLUDE
      BY <2>1, <2>5 DEF Room
    <3>3. Append(opt.dirs, p) \in Seq(Seq(STRING)) /\ Len(Append(opt.dirs, p)) <= MAX_DIR_INCLUDE
      BY <2>3, <2>4, <3>2, DriverAssumption
    <3>4. opt' \in OptionsOf /\ opt'.dirs = Append(opt.dirs, p) /\ opt'.src = opt.src /\ opt'.out = opt.out
      BY <2>3, <3>1, <3>3
    <3> QED
      BY <2>1, <3>3, <3>4 DEF Paths
  <2>6. CASE Field(args[1]) = "src"
    <3>1. opt' = [dirs |-> opt.dirs, src |-> Append(opt.src, p), out |-> opt.out, run |-> opt.run]
      BY <2>1, <2>3, <2>6
    <3>2. Len(opt.src) < 1
      BY <2>1, <2>6 DEF Room
    <3>3. Append(opt.src, p) \in Seq(Seq(STRING)) /\ Len(Append(opt.src, p)) <= 1
      BY <2>3, <2>4, <3>2
    <3> QED
      BY <2>1, <2>3, <3>1, <3>3 DEF Paths
  <2>7. CASE Field(args[1]) = "out"
    <3>1. opt' = [dirs |-> opt.dirs, src |-> opt.src, out |-> Append(opt.out, p), run |-> opt.run]
      BY <2>1, <2>3, <2>7
    <3>2. Len(opt.out) < 1
      BY <2>1, <2>7 DEF Room
    <3>3. /\ Append(opt.out, p) \in Seq(Seq(STRING)) /\ Len(Append(opt.out, p)) <= 1
          /\ Append(opt.out, p)[1] = p
      BY <2>3, <2>4, <3>2
    <3> QED
      BY <2>1, <2>2, <2>3, <3>1, <3>3 DEF Paths
  <2>8. Field(args[1]) \in {"dirs", "src", "out"}
    BY DEF Field
  <2> QED
    BY <2>5, <2>6, <2>7, <2>8
<1>4. CASE TakeFlag
  <2>1. opt' = [opt EXCEPT !.run = @ \/ args[1] = Option("r")] /\ step' = step
    BY <1>4 DEF TakeFlag
  <2>2. opt \in OptionsOf
    BY DEF Paths
  <2>3. opt' = [dirs |-> opt.dirs, src |-> opt.src, out |-> opt.out,
                run |-> opt.run \/ args[1] = Option("r")]
    BY <2>1, <2>2
  <2>4. (opt.run \/ args[1] = Option("r")) \in BOOLEAN
    OBVIOUS
  <2> QED
    BY <2>1, <2>2, <2>3, <2>4 DEF Paths
<1>5. CASE ArgsDone
  <2>1. /\ step = "args" /\ opt.out # <<>> /\ opt' = [opt EXCEPT !.out = <<PathResolve(@[1])>>]
        /\ step' # "args"
    BY <1>5 DEF ArgsDone, Exit, Goto
  <2>2. opt \in OptionsOf
    BY DEF Paths
  <2>3. opt' = [dirs |-> opt.dirs, src |-> opt.src, out |-> <<PathResolve(opt.out[1])>>, run |-> opt.run]
    BY <2>1, <2>2
  <2>4. PathResolve(opt.out[1]) \in Seq(STRING)
    BY <2>1 DEF Paths
  <2>5. <<PathResolve(opt.out[1])>> \in Seq(Seq(STRING)) /\ Len(<<PathResolve(opt.out[1])>>) = 1
    BY <2>4
  <2> QED
    BY <2>1, <2>2, <2>3, <2>5 DEF Paths
<1>6. CASE ArgsRefused \/ Load \/ LoadFails \/ CompilerUndefined \/ LexerRefuses
  BY <1>2, <1>6 DEF ArgsRefused, Load, LoadFails, CompilerUndefined, LexerRefuses, Exit, Goto
<1>7. CASE Build \/ BuildFails \/ BuildUndefined \/ OpenOutput \/ OpenFails \/ SaveCommand
  BY <1>2, <1>7 DEF Build, BuildFails, BuildUndefined, OpenOutput, OpenFails, SaveCommand, Exit, Goto
<1>8. CASE SaveFails \/ CloseOutput \/ Start \/ StartFails \/ NoMachine
  BY <1>2, <1>8 DEF SaveFails, CloseOutput, Start, StartFails, NoMachine, Exit, Goto
<1>9. CASE Run \/ RunEnds \/ RunUndefined \/ Killed \/ UNCHANGED dvars
  BY <1>2, <1>9 DEF Run, RunEnds, RunUndefined, Killed, dvars, Exit, Goto
<1> QED
  BY <1>1, <1>3, <1>4, <1>5, <1>6, <1>7, <1>8, <1>9 DEF DNext, Process

Images ==
  /\ \A f \in DOMAIN disk : disk[f] \in Seq(V!Command)
  /\ DOMAIN before \subseteq DOMAIN disk /\ saved \in 0 .. Len(mc)

Steps ==
  /\ step \in {"shell", "args", "load", "build", "save", "start", "run", "undef"}
  /\ status \in {"none", "0", "1", "killed"}
  /\ lost \in BOOLEAN /\ jumped \in BOOLEAN

(* What is flushed are commands that were saved.                           *)
LEMMA FlushTyped ==
  ASSUME Parser, OneProgram, Images, step = "save", NEW n \in 0 .. saved, Flushed(n)
  PROVE  DOMAIN disk' = DOMAIN disk /\ \A f \in DOMAIN disk' : disk'[f] \in Seq(V!Command)
<1>1. Target \in DOMAIN disk /\ disk[Target] = <<>> /\ saved \in 0 .. Len(mc)
  BY DEF OneProgram, Saving
<1>2. mc \in Seq(MachineCommand) /\ Len(mc) \in Nat
  BY DEF Parser, TypeOK, MachineCommand
<1>3. Stored(mc) \in Seq(V!Command) /\ Len(Stored(mc)) = Len(mc)
  BY <1>2, StoredCommands
<1> DEFINE new == SubSeq(Stored(mc), 1, n)
<1>4. new \in Seq(V!Command)
  <2>1. \A k \in 1 .. n : Stored(mc)[k] \in V!Command
    BY <1>1, <1>2, <1>3, ElementOfSeq
  <2> QED
    BY <1>1, <1>2, <1>3, <2>1, SubSeqProperties
<1>5. SubSeq(<<>>, n + 1, Len(<<>>)) = <<>>
  <2>1. n + 1 \in Int /\ Len(<<>>) = 0 /\ n + 1 > 0
    BY <1>1, <1>2
  <2> QED
    BY <2>1, SubSeqEmpty
<1>6. new \o <<>> \in Seq(V!Command)
  BY <1>4
<1>7. disk' = Put(Target, new \o <<>>, disk)
  BY <1>1, <1>5 DEF Flushed
<1> HIDE DEF new
<1> QED
  BY <1>1, <1>6, <1>7 DEF Put, Images

LEMMA BuildGrows == ASSUME TypeOK, Next, saved = 0 PROVE saved \in 0 .. Len(mc')
<1>1. TypeOK'
  BY TypeKept
<1> QED
  BY <1>1 DEF TypeOK

LEMMA ImagesKept ==
  ASSUME Parser, OneProgram, Images, [DNext]_dvars
  PROVE  Images'
<1>1. CASE Invoke
  BY <1>1 DEF Invoke, NoCompiler, Images
<1>2. ASSUME UNCHANGED <<disk, before, saved, mc>> PROVE Images'
  BY <1>2 DEF Images
<1>3. CASE TakePath \/ TakeFlag \/ ArgsRefused \/ ArgsDone \/ Load \/ LoadFails
  BY <1>2, <1>3 DEF TakePath, TakeFlag, ArgsRefused, ArgsDone, Load, LoadFails, shell, files, builder
<1>4. CASE CompilerUndefined \/ LexerRefuses \/ BuildFails \/ BuildUndefined \/ OpenFails
  BY <1>2, <1>4 DEF CompilerUndefined, LexerRefuses, BuildFails, BuildUndefined, OpenFails, shell, files, builder
<1>5. CASE Start \/ StartFails \/ NoMachine \/ Run \/ RunEnds \/ RunUndefined
  BY <1>2, <1>5 DEF Start, StartFails, NoMachine, Run, RunEnds, RunUndefined, shell, files, builder
<1>6. CASE Killed /\ step # "save"
  BY <1>2, <1>6 DEF Killed, shell, builder
<1>7. CASE UNCHANGED dvars
  BY <1>2, <1>7 DEF dvars, shell, files, builder
<1>8. CASE Build
  <2>1. saved = 0 /\ UNCHANGED <<disk, before, saved>> /\ Next /\ TypeOK
    BY <1>8 DEF Build, OneProgram, Saving, shell, files, Parser
  <2>2. saved \in 0 .. Len(mc')
    BY <2>1, BuildGrows
  <2> QED
    BY <2>1, <2>2 DEF Images
<1>9. CASE OpenOutput
  <2>1. disk' = Put(Target, <<>>, disk) /\ UNCHANGED <<before, saved, mc>>
    BY <1>9 DEF OpenOutput, Truncated, shell, builder
  <2>2. <<>> \in Seq(V!Command)
    OBVIOUS
  <2> QED
    BY <2>1, <2>2 DEF Put, Images
<1>10. CASE SaveCommand
  <2>1. saved' = saved + 1 /\ ~(saved >= Len(mc)) /\ UNCHANGED <<disk, before, mc>>
    BY <1>10 DEF SaveCommand, Saved, AllSaved, shell, builder
  <2>2. Len(mc) \in Nat
    BY DEF Parser, TypeOK
  <2> QED
    BY <2>1, <2>2 DEF Images
<1>11. ASSUME step = "save", NEW n \in 0 .. saved, Flushed(n), UNCHANGED <<before, saved, mc>>
       PROVE  Images'
  BY <1>11, FlushTyped DEF Images
<1>12. CASE SaveFails
  BY <1>11, <1>12 DEF SaveFails, shell, builder
<1>13. CASE CloseOutput
  <2>1. saved \in Nat
    BY DEF Images
  <2>2. \E n \in 0 .. saved : Flushed(n)
    BY <1>13, <2>1 DEF CloseOutput, Closed
  <2> QED
    BY <1>11, <1>13, <2>2 DEF CloseOutput, shell, builder
<1>14. CASE Killed /\ step = "save"
  BY <1>11, <1>14 DEF Killed, shell, builder
<1> QED
  BY <1>1, <1>3, <1>4, <1>5, <1>6, <1>7, <1>8, <1>9, <1>10, <1>12, <1>13, <1>14 DEF DNext, Process

LEMMA StepsKept ==
  ASSUME Steps, [DNext]_dvars
  PROVE  Steps'
<1>1. CASE Invoke
  BY <1>1 DEF Invoke, NewMachine, Steps
<1>2. ASSUME UNCHANGED <<lost, jumped>>,
             \/ UNCHANGED <<step, status>>
             \/ \E s \in {"load", "build", "save", "start", "run", "undef"} : Goto(s)
             \/ \E s \in {"0", "1", "killed"} : Exit(s)
      PROVE  Steps'
  BY <1>2 DEF Steps, Goto, Exit
<1>3. CASE TakePath \/ TakeFlag \/ ArgsRefused \/ ArgsDone \/ Load \/ LoadFails
  BY <1>2, <1>3 DEF TakePath, TakeFlag, ArgsRefused, ArgsDone, Load, LoadFails, files, machine
<1>4. CASE CompilerUndefined \/ LexerRefuses \/ Build \/ BuildFails \/ BuildUndefined \/ OpenFails
  BY <1>2, <1>4 DEF CompilerUndefined, LexerRefuses, Build, BuildFails, BuildUndefined, OpenFails, files, machine
<1>5. CASE OpenOutput \/ SaveCommand \/ SaveFails \/ Killed
  BY <1>2, <1>5 DEF OpenOutput, SaveCommand, SaveFails, Killed, machine
<1>6. CASE Start \/ StartFails \/ NoMachine \/ RunEnds \/ RunUndefined
  BY <1>2, <1>6 DEF Start, StartFails, NoMachine, RunEnds, RunUndefined, files, machine
<1>7. CASE CloseOutput
  <2>1. PICK n : lost' = (n < saved)
    BY <1>7 DEF CloseOutput
  <2>2. lost' \in BOOLEAN
    BY <2>1
  <2>3. Goto("start") \/ Exit("0")
    BY <1>7 DEF CloseOutput
  <2> QED
    BY <1>7, <2>2, <2>3 DEF CloseOutput, machine, Goto, Exit, Steps
<1>8. CASE Run
  <2>1. UNCHANGED <<step, status, lost>> /\ jumped' = (jumped \/ (vctl = "exec" /\ V!pc' # V!pc + 1))
    BY <1>8 DEF Run, files
  <2>2. jumped' \in BOOLEAN
    BY <2>1
  <2> QED
    BY <2>1, <2>2 DEF Steps
<1>9. CASE UNCHANGED dvars
  BY <1>9 DEF dvars, files, machine, Steps
<1> QED
  BY <1>1, <1>3, <1>4, <1>5, <1>6, <1>7, <1>8, <1>9 DEF DNext, Process

(* Whatever is typed, fails or is killed, main keeps its options within    *)
(* their arrays, and every image on the disk, also one that was cut short, *)
(* holds commands of the machine and nothing else.                         *)
THEOREM SessionTyped ==
  ASSUME PathsTyped
  PROVE  DSpec => []DTypeOK
<1> DEFINE I == Words /\ Paths /\ Images /\ Steps
<1>1. DInit => OneProgram
  BY DEF DInit, OneProgram, ImageOfOneProgram, Saving
<1>2. Parser /\ OneProgram /\ [DNext]_dvars => OneProgram'
  BY OneProgramKept
<1>3. DInit => I
  <2>1. ASSUME DInit PROVE Words
    <3>1. given = <<>> /\ args = <<>> /\ todo \in Sessions /\ Len(<<>>) = 0
      BY <2>1 DEF DInit
    <3>2. Rest(0) /\ 0 \in 0 .. Len(given) /\ <<>> \in Seq(Seq(STRING))
      BY <3>1 DEF Rest
    <3> QED
      BY <3>1, <3>2, TypedWords DEF Words
  <2>2. ASSUME DInit PROVE Paths
    <3>1. Len(<<>>) = 0 /\ <<>> \in Seq(Seq(STRING)) /\ 0 <= MAX_DIR_INCLUDE
      BY DriverAssumption
    <3> QED
      BY <2>2, <3>1 DEF DInit, NoOptions, Paths
  <2>3. ASSUME DInit PROVE Images /\ Steps
    <3>1. Len(<<>>) = 0 /\ DOMAIN <<>> = {}
      OBVIOUS
    <3>2. disk = <<>> /\ before = <<>> /\ saved = 0 /\ mc = <<>>
      BY <2>3 DEF DInit
    <3>3. Images
      BY <3>1, <3>2 DEF Images
    <3>4. Steps
      BY <2>3 DEF DInit, Steps
    <3> QED
      BY <3>3, <3>4
  <2> QED
    BY <2>1, <2>2, <2>3
<1>4. Parser /\ OneProgram /\ I /\ [DNext]_dvars => I'
  BY WordsKept, PathsKept, ImagesKept, StepsKept
<1>5. Parser /\ OneProgram /\ I => DTypeOK
  <2>1. SUFFICES ASSUME Parser, OneProgram, I PROVE DTypeOK
    OBVIOUS
  <2>2. IsSuffix(args, given)
    BY <2>1, SuffixOfRest
  <2>3. opt.dirs \in Seq(Seq(STRING)) /\ opt.src \in Seq(Seq(STRING)) /\ opt.out \in Seq(Seq(STRING))
        /\ opt.run \in BOOLEAN
    BY <2>1 DEF Paths
  <2> QED
    BY <2>1, <2>2, <2>3 DEF DTypeOK, Parser, OneProgram, Words, Paths, Images, Steps
<1> HIDE DEF I
<1> QED
  BY <1>1, <1>2, <1>3, <1>4, <1>5, DriverTyped, PTL DEF DSpec

-----------------------------------------------------------------------------
(* From the source to the running machine. The theorems about module       *)
(* Chip32 hold of the machine that main starts: what the module assumes is *)
(* so, and its definitions are the same under both names.                  *)
LEMMA MachineFits ==
  /\ Width \in Nat \ {0, 1}
  /\ 2^0 = 1 /\ \A n \in 0 .. Width - 1 : 2^(n + 1) = 2 * 2^n
  /\ REG_PC \in Nat /\ REG_STK = REG_PC + 1 /\ REG_FRM = REG_PC + 2
  /\ REG_FRM < P!Half
  /\ PageSize \in Nat \ {0} /\ PageSize < P!Half
  /\ Seq(V!Command) \subseteq Seq(P!Command)
  /\ Junk \subseteq P!Word /\ Junk # {} /\ EnvFails \in BOOLEAN
<1>1. V!Half = P!Half
  BY DEF V!Half, P!Half
<1>2. V!Word = P!Word
  BY <1>1 DEF V!Word, P!Word
<1>3. V!Command = P!Command
  BY <1>2 DEF V!Command, P!Command, V!CommandNames, P!CommandNames, V!Types, P!Types,
     V!BinaryOps, P!BinaryOps, V!UnaryOps, P!UnaryOps
<1> QED
  BY <1>1, <1>2, <1>3, MachineAssumption, DriverAssumption

LEMMA SameMachine == V!Next = P!Next
BY DEF V!Next, P!Next, V!BootLoadFails, P!BootLoadFails, V!BootRefused, P!BootRefused, V!BootInitr,
       P!BootInitr, V!ReloadFails, P!ReloadFails, V!Fetch, P!Fetch, V!Nop, P!Nop, V!Move, P!Move,
       V!UnaryCmd, P!UnaryCmd, V!BinaryCmd, P!BinaryCmd, V!LogicCmd, P!LogicCmd, V!Jmp, P!Jmp,
       V!If, P!If, V!Call, P!Call, V!Ret, P!Ret, V!Push, P!Push, V!Pop, P!Pop, V!Initr, P!Initr,
       V!LogWord, P!LogWord, V!Logs, P!Logs, V!Strcpy, P!Strcpy, V!Half, P!Half, V!Word, P!Word,
       V!Wrap, P!Wrap, V!Unsigned, P!Unsigned, V!BitIndex, P!BitIndex, V!Bit, P!Bit,
       V!WordsWithBits, P!WordsWithBits, V!BitsOf, P!BitsOf, V!Abs, P!Abs, V!CQuot, P!CQuot,
       V!CRem, P!CRem, V!Traps, P!Traps, V!Quotients, P!Quotients, V!Remainders, P!Remainders,
       V!ShiftCounts, P!ShiftCounts, V!Shl, P!Shl, V!Shr, P!Shr, V!LogicalShr, P!LogicalShr,
       V!Rotations, P!Rotations, V!Truth, P!Truth, V!BinaryOps, P!BinaryOps, V!UnaryOps,
       P!UnaryOps, V!Binary, P!Binary, V!Unary, P!Unary, V!Available, P!Available, V!Counts,
       P!Counts, V!PageLoad, P!PageLoad, V!Load, P!Load, V!DataWords, P!DataWords, V!Cells, P!Cells, V!Value, P!Value, V!Outcome, P!Outcome, V!GetWord, P!GetWord,
       V!SetWord, P!SetWord, V!Store, P!Store, V!UnaryValues, P!UnaryValues, V!BinaryValues,
       P!BinaryValues, V!Decides, P!Decides, V!ShortCircuit, P!ShortCircuit, V!PushWord,
       P!PushWord, V!Popped, P!Popped, V!Top, P!Top, V!Called, P!Called, V!Returned, P!Returned,
       V!Fail, P!Fail, V!Undefined, P!Undefined, V!LoadFirstPage, P!LoadFirstPage, V!pc, P!pc,
       V!Page, P!Page, V!Reload, P!Reload, V!PastEnd, P!PastEnd, V!pcmd, P!pcmd, V!Arg0, P!Arg0,
       V!Arg1, P!Arg1, V!Executing, P!Executing, V!Retire, P!Retire, V!Finish, P!Finish, V!Jump,
       P!Jump, V!Falls, P!Falls, V!Branch, P!Branch, V!Continue, P!Continue, V!Character,
       P!Character

Sound == P!MachineInv /\ P!PageInv /\ P!CounterInv

LEMMA BornSound == (P!Init => Sound) /\ (P!Init => Sound)'
<1>1. P!Init => P!MachineInv
  BY P!InitMachine, MachineFits
<1>2. P!Init => P!PageInv /\ P!CounterInv
  BY DEF P!Init, P!PageInv, P!CounterInv
<1>3. P!Init => Sound
  BY <1>1, <1>2 DEF Sound
<1> QED
  BY <1>3, PTL

LEMMA StaysSound ==
  ASSUME Sound, V!Next
  PROVE  Sound'
<1>1. P!Next
  BY SameMachine
<1>2. P!MachineInv'
  BY <1>1, MachineFits, P!NextMachine DEF Sound
<1>3. P!PageInv'
  BY <1>1, MachineFits, P!NextPage DEF Sound
<1>4. P!CounterInv'
  BY <1>1, MachineFits, P!NextCounter DEF Sound
<1> QED
  BY <1>2, <1>3, <1>4 DEF Sound

(* The machine is as chip32_new made it until it is started.               *)
Born ==
  /\ ram = <<>> /\ data = NoData /\ ncmds = 0 /\ pagecurrent = 0
  /\ state = "run" /\ vctl = "boot" /\ cur = 0 /\ jumped = FALSE

MachineKnown ==
  /\ step \in {"args", "load", "build", "save", "start"} => Born
  /\ step = "run" => Sound /\ Target \in DOMAIN disk

LEMMA MachineKnownKept ==
  ASSUME Images, MachineKnown, [DNext]_dvars
  PROVE  MachineKnown'
<1>1. CASE Invoke
  BY <1>1 DEF Invoke, NewMachine, MachineKnown, Born
<1>2. ASSUME UNCHANGED machine, step' # "run",
             \/ step' \notin {"args", "load", "build", "save", "start"}
             \/ step \in {"args", "load", "build", "save", "start"}
      PROVE  MachineKnown'
  BY <1>2 DEF machine, MachineKnown, Born
<1>3. CASE TakePath \/ TakeFlag \/ ArgsRefused \/ ArgsDone \/ Load \/ LoadFails
  BY <1>2, <1>3 DEF TakePath, TakeFlag, ArgsRefused, ArgsDone, Load, LoadFails, Exit, Goto
<1>4. CASE CompilerUndefined \/ LexerRefuses \/ Build \/ BuildFails \/ BuildUndefined \/ OpenFails
  BY <1>2, <1>4 DEF CompilerUndefined, LexerRefuses, Build, BuildFails, BuildUndefined, OpenFails, Exit, Goto
<1>5. CASE OpenOutput \/ SaveCommand \/ SaveFails \/ CloseOutput
  BY <1>2, <1>5 DEF OpenOutput, Built, SaveCommand, SaveFails, CloseOutput, Exit, Goto
<1>6. CASE StartFails \/ NoMachine \/ RunEnds \/ RunUndefined \/ Killed
  BY <1>2, <1>6 DEF StartFails, NoMachine, RunEnds, RunUndefined, Killed, Exit, Goto
<1>7. CASE Start
  <2>1. /\ step = "start" /\ Target \in DOMAIN disk /\ step' = "run"
        /\ UNCHANGED <<opt, disk, machine>>
    BY <1>7 DEF Start, Goto, files
  <2>2. Target' = Target
    BY <2>1 DEF Target
  <2>3. Image' \in Seq(V!Command)
    BY <2>1, <2>2 DEF Image, Images
  <2>4. V!Command' = V!Command
    BY DEF V!Command, V!Word, V!Half, V!Types, V!CommandNames, V!BinaryOps, V!UnaryOps
  <2>5. (P!Init)'
    BY <2>1, <2>3, <2>4 DEF P!Init, machine, MachineKnown, Born, NoData
  <2>6. Sound'
    BY <2>5, BornSound
  <2> QED
    BY <2>1, <2>2, <2>6 DEF MachineKnown
<1>8. CASE Run
  <2>1. step = "run" /\ step' = "run" /\ V!Next /\ UNCHANGED <<opt, disk>>
    BY <1>8 DEF Run, files
  <2>2. Target' = Target
    BY <2>1 DEF Target
  <2>3. Sound'
    BY <2>1, StaysSound DEF MachineKnown
  <2> QED
    BY <2>1, <2>2, <2>3 DEF MachineKnown
<1>9. CASE UNCHANGED dvars
  <2>1. UNCHANGED <<step, opt, disk, machine>>
    BY <1>9 DEF dvars, files
  <2>2. Target' = Target /\ Image' = Image
    BY <2>1 DEF Target, Image
  <2>3. Sound' = Sound
    BY <2>1, <2>2 DEF machine, Sound, P!MachineInv, P!PageInv, P!CounterInv, P!TypeOK, P!Running,
       P!pcmd, P!pc, P!Available
  <2> QED
    BY <2>1, <2>2, <2>3 DEF machine, MachineKnown, Born
<1> QED
  BY <1>1, <1>3, <1>4, <1>5, <1>6, <1>7, <1>8, <1>9 DEF DNext, Process

(* A program that main starts was parsed to its end, or there is none.     *)
Parsed ==
  /\ step \in {"args", "load"} => code = <<>> /\ ctl = "parse"
  /\ step = "save" => ctl = "done"
  /\ step \in {"start", "run"} /\ code # <<>> => ctl = "done"
  /\ ctl = "done" => line = Len(code)

LEMMA ParsedKept ==
  ASSUME Parsed, [DNext]_dvars
  PROVE  Parsed'
<1>1. CASE Invoke
  BY <1>1 DEF Invoke, NoCompiler, Parsed
<1>2. CASE Load
  BY <1>2 DEF Load, Goto, Parsed
<1>3. CASE Build
  <2>1. ctl' = "done" => line' = Len(code')
    BY <1>3 DEF Build, Parsed, Next, NoArg, Initr, OneArg, Jmpi, TwoArg, Branch, Declare, DeclareUndefined,
       DeclareRefused, NullName, Refused, Unknown, MemoryUndefined, NameRefused, LabelLost, Done, Parsing,
   Emit, EmitWith, Accept, Stop
  <2> QED
    BY <1>3, <2>1 DEF Build, Parsed
<1>4. ASSUME UNCHANGED builder,
             \/ step' \in {"build", "shell", "undef"}
             \/ step' = "save" /\ ctl = "done"
             \/ step' = step
             \/ step' \in {"load", "start"} /\ step = "args"
             \/ step' \in {"start", "run"} /\ step \in {"save", "start"}
      PROVE  Parsed'
  BY <1>4 DEF builder, Parsed
<1>5. CASE TakePath \/ TakeFlag \/ ArgsRefused \/ ArgsDone \/ LoadFails
  BY <1>4, <1>5 DEF TakePath, TakeFlag, ArgsRefused, ArgsDone, LoadFails, Exit, Goto
<1>6. CASE CompilerUndefined \/ LexerRefuses \/ BuildFails \/ BuildUndefined \/ OpenFails
  BY <1>4, <1>6 DEF CompilerUndefined, LexerRefuses, BuildFails, BuildUndefined, OpenFails, Exit, Goto
<1>7. CASE OpenOutput \/ SaveCommand \/ SaveFails \/ CloseOutput
  BY <1>4, <1>7 DEF OpenOutput, Built, SaveCommand, SaveFails, CloseOutput, Exit, Goto
<1>8. CASE Start \/ StartFails \/ NoMachine \/ Run \/ RunEnds \/ RunUndefined \/ Killed
  BY <1>4, <1>8 DEF Start, StartFails, NoMachine, Run, RunEnds, RunUndefined, Killed, Exit, Goto
<1>9. CASE UNCHANGED dvars
  BY <1>4, <1>9 DEF dvars
<1> QED
  BY <1>1, <1>2, <1>3, <1>5, <1>6, <1>7, <1>8, <1>9 DEF DNext, Process

(* A number where an operand is wanted is the operand.                     *)
LEMMA NumberRead ==
  ASSUME NEW l, NEW j, NEW names, Is(l, j, {"NUM"})
  PROVE  Rvalue(l, j, names) = {[type |-> "literal", arg |-> Tok(l, j).num, at |-> j]}
<1>1. ~Is(l, j, DOMAIN OperandTypes) /\ Tok(l, j).type = "NUM" /\ Known(l, j, names)
  BY DEF Is, OperandTypes, Known
<1> QED
  BY <1>1 DEF Rvalue, Meaning

LEMMA LvalueEnd ==
  ASSUME NEW l, NEW j \in Nat, NEW names, NEW o \in Lvalue(l, j, names)
  PROVE  o.at = j + 1
<1>1. Is(l, j, {"RAM", "PTR"}) /\ o \in Rvalue(l, j, names)
  BY DEF Lvalue
<1>2. Is(l, j, DOMAIN OperandTypes)
  BY <1>1 DEF Is, OperandTypes
<1> QED
  BY <1>1, <1>2 DEF Rvalue

(* The commands of a relative branch.                                      *)
LEMMA BranchCommands ==
  ASSUME NEW l, NEW names, NEW n, NEW cs \in Commands(l, names, n), Is(l, Way(l), {"NUM"})
  PROVE  /\ Action(l) = "jmpi" =>
              \E p : cs = <<Cmd("jmp", [type |-> "literal", arg |-> n + 1 + Tok(l, Way(l)).num, at |-> Way(l)], p)>>
         /\ Action(l) \in {"ift", "iff"} =>
              \E o : cs = <<Cmd(Action(l), o, [type |-> "literal", arg |-> n + 1 + Tok(l, Way(l)).num, at |-> Way(l)])>>
<1> DEFINE number == [type |-> "literal", arg |-> Tok(l, Way(l)).num, at |-> Way(l)]
           way == [type |-> "literal", arg |-> n + 1 + Tok(l, Way(l)).num, at |-> Way(l)]
<1>1. From(n, number) = way
  BY DEF From
<1>2. First(l) \in Nat
  BY DEF First
<1>3. Rvalue(l, Way(l), names) = {number}
  BY NumberRead
<1> HIDE DEF number, way
<1>4. ASSUME Action(l) = "jmpi" PROVE cs = <<Cmd("jmp", way, NoOperand)>>
  <2>1. Way(l) = First(l)
    BY <1>2, <1>4 DEF Way
  <2>2. PICK o \in Rvalue(l, First(l), names) : cs = <<Cmd("jmp", From(n, o), NoOperand)>>
    BY <1>4 DEF Commands, NoArgs, OneArgs, TwoArgs
  <2> QED
    BY <1>1, <1>3, <2>1, <2>2
<1>5. ASSUME Action(l) \in {"ift", "iff"} PROVE \E o : cs = <<Cmd(Action(l), o, way)>>
  <2>1. Way(l) = First(l) + 2
    BY <1>5 DEF Way
  <2>2. PICK o \in Lvalue(l, First(l), names) :
          \E p \in Rvalue(l, o.at + 1, names) : cs = <<Cmd(Action(l), o, From(n, p))>>
    BY <1>5 DEF Commands, NoArgs, OneArgs, TwoArgs
  <2>3. PICK p \in Rvalue(l, o.at + 1, names) : cs = <<Cmd(Action(l), o, From(n, p))>>
    BY <2>2
  <2>4. o.at = First(l) + 1
    BY <1>2, LvalueEnd
  <2>5. o.at + 1 = Way(l)
    BY <1>2, <2>1, <2>4
  <2> QED
    BY <1>1, <1>3, <2>3, <2>5
<1> QED
  BY <1>4, <1>5 DEF way

(* The command that the machine executes is the one that was compiled.     *)
LEMMA ExecutesCompiled ==
  ASSUME Parser, MachineKnown, Compiled, vctl = "exec", NEW c \in MachineCommand, mc[cur + 1] = c,
         c.cmd \notin P!Scans
  PROVE  data[cur] = [c EXCEPT !.a0 = V!Wrap(@), !.a1 = V!Wrap(@)] /\ cur + 1 \in 1 .. Len(mc)
<1>1. Sound /\ Image = Stored(mc)
  BY DEF MachineKnown, Compiled
<1>2. mc \in Seq(MachineCommand) /\ Len(mc) \in Nat /\ DOMAIN mc = 1 .. Len(mc)
  BY DEF Parser, TypeOK, MachineCommand
<1>3. Len(Stored(mc)) = Len(mc)
  BY <1>2, StoredCommands
<1>4. cur \in Nat /\ cur < Len(Image) /\ P!Agrees(data[cur], Image[cur + 1])
  <2>1. P!TypeOK /\ P!PageInv
    BY <1>1 DEF Sound, P!MachineInv
  <2>2. cur \in 0 .. PageSize - 1 /\ PageSize \in Nat
    BY <2>1, MachineAssumption DEF P!TypeOK
  <2>3. P!Available(0) \in 0 .. PageSize /\ P!Available(0) <= Len(Image)
    BY <2>1, MachineFits, P!FirstCount
  <2>4. ncmds \in 0 .. P!Available(0) /\ cur < ncmds /\ \A i \in 0 .. ncmds - 1 : P!Agrees(data[i], Image[i + 1])
    BY <2>1 DEF P!PageInv
  <2>5. Len(Image) \in Nat
    BY <1>1, <1>2, <1>3
  <2> QED
    BY <2>2, <2>3, <2>4, <2>5
<1>5. cur + 1 \in 1 .. Len(mc)
  BY <1>1, <1>2, <1>3, <1>4
<1>6. Image[cur + 1] = [c EXCEPT !.a0 = V!Wrap(@), !.a1 = V!Wrap(@)]
  BY <1>1, <1>2, <1>5 DEF Stored
<1>7. Image[cur + 1].cmd = c.cmd
  BY <1>6 DEF MachineCommand
<1> QED
  BY <1>4, <1>5, <1>6, <1>7 DEF P!Agrees

LEMMA BranchStep ==
  ASSUME Parser, DeclaredInv, PassInv, Parsed, MachineKnown, V!Next, Compiled, vctl = "exec",
         vctl' = "fetch", NEW k \in DOMAIN code, Before(k - 1) = cur,
         Action(code[k]) \in {"jmpi", "ift", "iff"}, Is(code[k], Way(code[k]), {"NUM"})
  PROVE  V!pc' \in Ways(code[k])
<1> DEFINE l == code[k]
           to == cur + 1 + Tok(l, Way(l)).num
<1>1. TypeOK /\ k \in 1 .. line /\ l \in Seq(Token)
  <2>1. code # <<>> /\ step = "run"
    BY DEF Compiled
  <2>2. line = Len(code) /\ k \in 1 .. Len(code) /\ Len(code) \in Nat
    BY <2>1 DEF Parsed, Parser, TypeOK
  <2>3. l \in Seq(Token)
    BY <2>2 DEF Parser, TypeOK
  <2> QED
    BY <2>2, <2>3 DEF Parser
<1>2. Tok(l, Way(l)).num \in Int
  <2>1. Way(l) \in Nat
    BY DEF Way, First
  <2> QED
    BY <1>1, <2>1, TokenTyped DEF Is
<1>3. mc \in Seq(MachineCommand) /\ Len(mc) \in Nat
  BY DEF Parser, TypeOK, MachineCommand
<1>4. cur + 1 \in 1 .. Len(mc)
  <2>1. Before(k) = Before(k - 1) + 1 /\ Before(k - 1) \in Nat /\ Before(k) <= Len(mc)
    BY <1>1, BeforeStep, CommandAt
  <2> QED
    BY <1>3, <2>1
<1>5. PICK cs \in Commands(l, declared, cur) : mc[cur + 1] = cs[1]
  BY <1>1, CommandAt
<1>6. PICK c \in MachineCommand : c = mc[cur + 1]
  BY <1>3, <1>4, ElementOfSeq
<1>7. Sound
  BY DEF MachineKnown, Compiled
<1>8. P!Next /\ V!pc' = P!pc' /\ V!pc = P!pc
  BY SameMachine DEF V!pc, P!pc
<1> HIDE DEF l
<1>9. CASE Action(l) = "jmpi"
  <2>1. c.cmd = "jmp" /\ c.t0 = "literal" /\ c.a0 = to
    BY <1>5, <1>6, <1>9, BranchCommands DEF l, Cmd
  <2>2. data[cur] = [c EXCEPT !.a0 = V!Wrap(@), !.a1 = V!Wrap(@)]
    BY <1>6, <2>1, ExecutesCompiled DEF P!Scans
  <2>3. P!pcmd.cmd = "jmp" /\ P!pcmd.t0 = "literal" /\ P!pcmd.a0 = V!Wrap(to)
    BY <2>1, <2>2 DEF P!pcmd, MachineCommand
  <2>4. P!Jmp
    BY <1>7, <1>8, <2>3, MachineFits, P!Dispatched
  <2>5. P!pc' = P!pcmd.a0
    BY <1>7, <2>3, <2>4, MachineFits, P!JumpGoes DEF Sound
  <2> QED
    BY <1>8, <2>3, <2>5 DEF Ways, Origin, l
<1>10. CASE Action(l) \in {"ift", "iff"}
  <2>1. c.cmd \in {"ift", "iff"} /\ c.t1 = "literal" /\ c.a1 = to
    BY <1>5, <1>6, <1>10, BranchCommands DEF l, Cmd
  <2>2. data[cur] = [c EXCEPT !.a0 = V!Wrap(@), !.a1 = V!Wrap(@)]
    BY <1>6, <2>1, ExecutesCompiled DEF P!Scans
  <2>3. P!pcmd.cmd \in {"ift", "iff"} /\ P!pcmd.t1 = "literal" /\ P!pcmd.a1 = V!Wrap(to)
    BY <2>1, <2>2 DEF P!pcmd, MachineCommand
  <2>4. P!If
    BY <1>7, <1>8, <2>3, MachineFits, P!Dispatched
  <2>5. P!pc' \in {P!pcmd.a1, P!Wrap(P!pc + 1)}
    BY <1>7, <2>3, <2>4, MachineFits, P!BranchGoes DEF Sound
  <2>6. P!Wrap(P!pc + 1) = cur + 1
    <3>1. cur = P!pc
      BY <1>7, <2>3 DEF Sound, P!CounterInv, P!Scans
    <3>2. cur \in 0 .. PageSize - 1
      BY <1>7 DEF Sound, P!MachineInv, P!TypeOK
    <3>3. cur + 1 \in P!Word
      BY <3>2, MachineFits, P!HalfPositive DEF P!Word
    <3> QED
      BY <3>1, <3>3, MachineFits, P!WrapSmall
  <2> QED
    BY <1>8, <1>10, <2>3, <2>5, <2>6 DEF Ways, Origin, l
<1> QED
  BY <1>9, <1>10 DEF l

(* A branch by n leads n commands on from the one after it - not from the  *)
(* branch, as the documents have it -, through the compiler, the file and  *)
(* the machine, for every program that fits its page or not.               *)
THEOREM BranchesAreRelative == DSpec => BranchesRelative
<1> DEFINE I == Images /\ MachineKnown /\ Parsed /\ PassInv /\ DeclaredInv
<1>1. DInit => OneProgram
  BY DEF DInit, OneProgram, ImageOfOneProgram, Saving
<1>2. Parser /\ OneProgram /\ [DNext]_dvars => OneProgram'
  BY OneProgramKept
<1>3. DInit => I
  <2>1. ASSUME DInit PROVE Images /\ Parsed /\ MachineKnown
    <3>1. Len(<<>>) = 0 /\ DOMAIN <<>> = {}
      OBVIOUS
    <3> QED
      BY <2>1, <3>1 DEF DInit, Images, Parsed, MachineKnown
  <2>2. ASSUME DInit PROVE PassInv /\ DeclaredInv
    <3>1. line = 0 /\ mc = <<>> /\ Len(mc) = 0
      BY <2>2 DEF DInit
    <3> QED
      BY <3>1, BeforeFirst DEF PassInv, DeclaredInv
  <2> QED
    BY <2>1, <2>2
<1>4. Parser /\ OneProgram /\ I /\ [DNext]_dvars => I'
  BY ImagesKept, MachineKnownKept, ParsedKept, ParserInOnePass, ParserDeclares
<1>5. Parser /\ I /\ [DNext]_dvars
        => [Compiled /\ vctl = "exec" /\ vctl' = "fetch" =>
              \A k \in DOMAIN code :
                /\ Before(k - 1) = cur /\ Action(code[k]) \in {"jmpi", "ift", "iff"}
                /\ Is(code[k], Way(code[k]), {"NUM"})
                => V!pc' \in Ways(code[k])]_dvars
  <2>1. SUFFICES ASSUME Parser, I, DNext, Compiled, vctl = "exec", vctl' = "fetch",
                        NEW k \in DOMAIN code, Before(k - 1) = cur,
                        Action(code[k]) \in {"jmpi", "ift", "iff"}, Is(code[k], Way(code[k]), {"NUM"})
                 PROVE  V!pc' \in Ways(code[k])
    BY Zenon
  <2>2. step = "run" /\ vctl' # vctl /\ vctl' # "boot"
    BY <2>1 DEF Compiled
  <2>3. V!Next
    BY <2>1, <2>2 DEF DNext, Process, Invoke, NewMachine, TakePath, TakeFlag, ArgsRefused, ArgsDone, Load,
       LoadFails, CompilerUndefined, LexerRefuses, Build, BuildFails, BuildUndefined, OpenOutput, Built,
       OpenFails, SaveCommand, SaveFails, CloseOutput, Start, StartFails, NoMachine, Run, RunEnds,
       RunUndefined, Killed, machine
  <2> QED
    BY <2>1, <2>3, BranchStep
<1> HIDE DEF I
<1> QED
  BY <1>1, <1>2, <1>3, <1>4, <1>5, DriverTyped, PTL DEF DSpec, BranchesRelative

-----------------------------------------------------------------------------
(* The declarations are the first lines of the program.                    *)
LEMMA DeclarationsFirst ==
  ASSUME TypeOK
  PROVE  \E n \in 0 .. Len(code) : Declarations = 1 .. n /\ Cardinality(Declarations) = n
<1>1. Len(code) \in Nat /\ DOMAIN code = 1 .. Len(code)
  BY DEF TypeOK
<1>2. \A k \in Declarations : k \in 1 .. Len(code) /\ \A j \in 1 .. k : j \in Declarations
  <2>1. SUFFICES ASSUME NEW k \in Declarations, NEW j \in 1 .. k PROVE j \in Declarations
    BY <1>1 DEF Declarations
  <2>2. k \in 1 .. Len(code) /\ \A i \in 1 .. k : Action(code[i]) \in {"initr", "declare"}
    BY <1>1 DEF Declarations
  <2>3. j \in DOMAIN code /\ \A i \in 1 .. j : i \in 1 .. k
    BY <1>1, <2>2
  <2> QED
    BY <2>2, <2>3 DEF Declarations
<1> DEFINE ends == {n \in Nat : n + 1 \notin Declarations}
<1>3. PICK n \in ends : \A m \in ends : n <= m
  <2>1. ends \in SUBSET Nat
    OBVIOUS
  <2>2. Len(code) \in ends
    BY <1>1, <1>2
  <2> HIDE DEF ends
  <2> QED
    BY <2>1, <2>2, Smallest
<1>4. n \in Nat /\ n + 1 \notin Declarations /\ n <= Len(code)
  <2>1. Len(code) \in ends
    BY <1>1, <1>2
  <2> QED
    BY <1>3, <2>1
<1>5. \A j \in 1 .. n : j \in Declarations
  <2>1. TAKE j \in 1 .. n
  <2>2. j - 1 \in Nat /\ ~(n <= j - 1) /\ (j - 1) + 1 = j
    BY <1>4
  <2> QED
    BY <1>3, <2>2
<1>6. \A k \in Declarations : k \in 1 .. n
  <2>1. SUFFICES ASSUME NEW k \in Declarations, k \notin 1 .. n PROVE FALSE
    OBVIOUS
  <2>2. n + 1 \in 1 .. k
    BY <1>2, <1>4, <2>1
  <2> QED
    BY <1>2, <1>4, <2>2
<1>7. Declarations = 1 .. n
  BY <1>5, <1>6
<1>8. Cardinality(1 .. n) = n
  <2>1. 1 \in Int /\ n \in Int
    BY <1>4
  <2>2. Cardinality(1 .. n) = IF 1 > n THEN 0 ELSE n - 1 + 1
    BY <2>1, FS_Interval
  <2> QED
    BY <1>4, <2>2
<1> QED
  BY <1>1, <1>4, <1>7, <1>8

(* What VariablesReady asks of the program.                                *)
WellPlaced ==
  /\ avaddr <= V!Half /\ \A k \in Automatic : Span(code[k]) >= 0
  /\ \A k \in Declarations \ Automatic :
       Action(code[k]) = "declare" => Len(Values(code[k])) <= REG_PC

Cell(k, i) == declared[Tok(code[k], 1).name].addr + i - 1

(* What the commands before p move to automatic addresses is there.        *)
Filling(m, p) ==
  \A k \in Automatic \cap Declarations : \A i \in 1 .. Len(Values(code[k])) :
    Before(k - 1) + i - 1 < p =>
      Cell(k, i) \in DOMAIN m /\ m[Cell(k, i)] = V!Wrap(Values(code[k])[i])

(* VariablesReady at every command of the declarations, and that the       *)
(* machine is at no command beyond its counter, which only a loop of       *)
(* strcpy that writes to the counter could bring about.                    *)
Filled ==
  /\ Compiled /\ ~jumped /\ vctl \in {"fetch", "exec"} /\ WellPlaced
     /\ V!pc <= Before(Cardinality(Declarations)) => Filling(ram, V!pc)
  /\ step = "run" /\ vctl = "exec" /\ ~jumped => cur <= V!pc

LEMMA CellTyped ==
  ASSUME TypeOK, DeclaredInv, NEW k \in 1 .. line, Action(code[k]) = "declare",
         NEW i \in 1 .. Len(Values(code[k]))
  PROVE  Cell(k, i) \in Int /\ Cell(k, i) \in CellsIn(declared, code[k]) /\ Values(code[k])[i] \in Int
<1> DEFINE a == declared[Tok(code[k], 1).name].addr
<1>1. a \in Int
  BY DEF DeclaredInv, DeclaredWell, TypeOK, Entry
<1>2. Values(code[k]) \in Seq(Int) /\ Len(Values(code[k])) \in Nat /\ Len(code[k]) \in Nat
  BY CostNat
<1>3. Len(code[k]) # 3
  <2>1. SUFFICES ASSUME Len(code[k]) = 3 PROVE FALSE
    OBVIOUS
  <2>2. Values(code[k]) = <<>>
    BY <2>1 DEF Values, Is
  <2>3. Len(<<>>) = 0
    OBVIOUS
  <2> QED
    BY <2>2, <2>3
<1>4. CellsIn(declared, code[k]) = a .. a + Len(Values(code[k])) - 1
  BY <1>3 DEF CellsIn
<1> HIDE DEF a
<1>5. a + i - 1 \in a .. a + Len(Values(code[k])) - 1
  BY <1>1, <1>2
<1>6. Values(code[k])[i] \in Int
  BY <1>2, ElementOfSeq
<1> QED
  BY <1>1, <1>4, <1>5, <1>6 DEF Cell, a

(* The cells of an automatic variable are words and beyond the registers.  *)
LEMMA AutoCell ==
  ASSUME TypeOK, DeclaredInv, AutoInv, WellPlaced, NEW k \in Automatic, NEW i \in 1 .. Len(Values(code[k]))
  PROVE  /\ Cell(k, i) \in Int /\ Cell(k, i) > REG_PC /\ V!Wrap(Cell(k, i)) = Cell(k, i)
         /\ \A m \in Automatic \ {k} : \A j \in 1 .. Len(Values(code[m])) : Cell(m, j) # Cell(k, i)
<1>1. Apart(declared, avaddr, Automatic)
  BY DEF AutoInv, WellPlaced
<1>2. \A m \in Automatic : m \in 1 .. line /\ Action(code[m]) = "declare"
  BY DEF Automatic
<1>3. \A m \in Automatic : \A j \in 1 .. Len(Values(code[m])) : Cell(m, j) \in CellsIn(declared, code[m])
  BY <1>2, CellTyped
<1>4. Cell(k, i) \in Int /\ Cell(k, i) >= A32_START_ADDR /\ Cell(k, i) < V!Half
  <2>1. Cell(k, i) \in A32_START_ADDR .. avaddr - 1
    BY <1>1, <1>3 DEF Apart
  <2>2. avaddr \in Int /\ A32_START_ADDR \in Int /\ avaddr <= V!Half /\ V!Half \in Int
    BY MachineFits, P!HalfPositive, SourceAssumption DEF TypeOK, WellPlaced, V!Half, P!Half
  <2> QED
    BY <2>1, <2>2
<1>5. REG_PC \in Nat /\ A32_START_ADDR = REG_PC + 3
  BY MachineAssumption
<1>6. V!Wrap(Cell(k, i)) = Cell(k, i)
  <2>1. Cell(k, i) \in P!Word /\ V!Half = P!Half
    BY <1>4, <1>5, MachineFits, P!HalfPositive DEF P!Word, V!Half, P!Half
  <2>2. P!Wrap(Cell(k, i)) = Cell(k, i)
    BY <2>1, MachineFits, P!WrapSmall
  <2> QED
    BY <2>1, <2>2 DEF P!Wrap, V!Wrap
<1>7. \A m \in Automatic \ {k} : \A j \in 1 .. Len(Values(code[m])) : Cell(m, j) # Cell(k, i)
  BY <1>1, <1>3 DEF Apart
<1> QED
  BY <1>4, <1>5, <1>6, <1>7

(* A variable without an automatic address ends before the registers.      *)
LEMMA FixedCell ==
  ASSUME TypeOK, DeclaredInv, WellPlaced, NEW k \in Declarations, k \in 1 .. line, k \notin Automatic,
         Action(code[k]) = "declare", NEW i \in 1 .. Len(Values(code[k]))
  PROVE  Cell(k, i) \in Int /\ Cell(k, i) < REG_PC /\ V!Wrap(Cell(k, i)) = Cell(k, i)
<1>1. declared[Tok(code[k], 1).name].addr = 0
  BY DEF DeclaredInv, DeclaredWell, Automatic
<1>2. Len(Values(code[k])) \in Nat /\ Len(Values(code[k])) <= REG_PC
  BY CostNat DEF WellPlaced
<1>3. REG_PC \in Nat /\ REG_PC < P!Half /\ P!Half \in Nat
  BY MachineFits, P!HalfPositive
<1>4. Cell(k, i) \in 0 .. REG_PC - 1
  BY <1>1, <1>2, <1>3 DEF Cell
<1>5. P!Wrap(Cell(k, i)) = Cell(k, i)
  <2>1. Cell(k, i) \in P!Word
    BY <1>3, <1>4 DEF P!Word
  <2> QED
    BY <2>1, MachineFits, P!WrapSmall
<1> QED
  BY <1>3, <1>4, <1>5 DEF V!Wrap, P!Wrap, V!Half, P!Half

(* As long as the machine has not left the order of its commands, what it  *)
(* executes within the declarations is one of the moves that they made; an *)
(* initr would have ended the run.                                         *)
LEMMA ExecutesDeclaration ==
  ASSUME Parser, DeclaredInv, PassInv, MachineKnown, Parsed, Compiled, Filled, V!Next, vctl = "exec",
         vctl' \in {"fetch", "exec"}, ~jumped,
         NEW n \in 0 .. line, Declarations = 1 .. n, V!pc < Before(n)
  PROVE  /\ cur = V!pc /\ P!Move
         /\ \E m \in 1 .. n : \E j \in 1 .. Len(Values(code[m])) :
              /\ Action(code[m]) = "declare" /\ Before(m - 1) + j = cur + 1
              /\ mc[cur + 1] = Cmd("move", [type |-> "ram", arg |-> Cell(m, j)],
                                           [type |-> "literal", arg |-> Values(code[m])[j]])
              /\ P!pcmd.t0 = "ram" /\ P!pcmd.a0 = V!Wrap(Cell(m, j))
              /\ P!pcmd.t1 = "literal" /\ P!pcmd.a1 = V!Wrap(Values(code[m])[j])
<1>1. Sound /\ P!Next /\ V!pc = P!pc /\ TypeOK /\ line \in Nat
  BY SameMachine DEF MachineKnown, Compiled, V!pc, P!pc, Parser, TypeOK
<1>2. cur \in Nat /\ cur < Before(n)
  <2>1. cur \in 0 .. PageSize - 1 /\ cur <= V!pc
    BY <1>1 DEF Sound, P!MachineInv, P!TypeOK, Filled, Compiled
  <2>2. REG_PC \in DOMAIN ram /\ ram \in [DOMAIN ram -> P!Word]
    BY <1>1, MachineFits, P!ArgsType DEF Sound, P!MachineInv, P!TypeOK
  <2>3. V!pc \in Int
    BY <2>2, MachineFits, P!HalfPositive DEF V!pc, P!Word
  <2>4. Before(n) \in Nat
    BY <1>1 DEF PassInv, TypeOK
  <2> QED
    BY <2>1, <2>3, <2>4
<1>3. PICK m \in 1 .. n : Before(m - 1) <= cur /\ cur < Before(m)
  BY <1>1, <1>2, LineOf
<1>4. m \in 1 .. line /\ Action(code[m]) \in {"initr", "declare"}
  <2>1. m \in Declarations /\ m \in 1 .. m
    BY <1>1
  <2> QED
    BY <1>1, <2>1 DEF Declarations
<1>5. Before(m - 1) \in Nat /\ mc \in Seq(MachineCommand) /\ Len(mc) \in Nat
  BY <1>1, <1>4, BeforeStep DEF TypeOK, MachineCommand
<1>6. CASE Action(code[m]) = "initr"
  <2>1. PICK cs \in Commands(code[m], declared, Before(m - 1)) : mc[Before(m - 1) + 1] = cs[1]
    BY <1>1, <1>4, <1>6, CommandAt
  <2>2. Before(m) = Before(m - 1) + 1 /\ cs[1].cmd = "initr"
    BY <1>1, <1>4, <1>6, CommandAt, InitrCommand
  <2>3. cur = Before(m - 1) /\ cur + 1 \in 1 .. Len(mc)
    <3>1. Before(m) <= Len(mc)
      BY <1>1, <1>4, BeforeStep
    <3> QED
      BY <1>2, <1>3, <1>5, <2>2, <3>1
  <2>4. PICK c \in MachineCommand : c = mc[cur + 1]
    BY <1>5, <2>3, ElementOfSeq
  <2>5. c.cmd = "initr"
    BY <2>1, <2>2, <2>3, <2>4
  <2>6. P!pcmd.cmd = "initr"
    <3>1. data[cur] = [c EXCEPT !.a0 = V!Wrap(@), !.a1 = V!Wrap(@)]
      BY <2>4, <2>5, ExecutesCompiled DEF P!Scans
    <3> QED
      BY <2>5, <3>1 DEF P!pcmd, MachineCommand
  <2>7. P!Initr
    BY <1>1, <2>6, MachineFits, P!Dispatched
  <2> QED
    BY <2>7, MachineFits, P!InitrFails
<1>7. CASE Action(code[m]) = "declare"
  <2> DEFINE j == cur + 1 - Before(m - 1)
  <2>1. j \in 1 .. Len(Values(code[m])) /\ Before(m - 1) + j = cur + 1
    <3>1. Before(m) = Before(m - 1) + Len(Values(code[m])) /\ Len(Values(code[m])) \in Nat
      BY <1>1, <1>4, <1>7, BeforeStep, CostNat DEF Cost
    <3> QED
      BY <1>2, <1>3, <1>5, <3>1
  <2> HIDE DEF j
  <2>2. /\ cur + 1 \in 1 .. Len(mc)
        /\ mc[cur + 1] = Cmd("move", [type |-> "ram", arg |-> Cell(m, j)],
                                     [type |-> "literal", arg |-> Values(code[m])[j]])
    <3>1. /\ Before(m - 1) + j \in 1 .. Len(mc)
          /\ mc[Before(m - 1) + j] =
               Cmd("move", [type |-> "ram", arg |-> declared[Tok(code[m], 1).name].addr + j - 1],
                           [type |-> "literal", arg |-> Values(code[m])[j]])
      BY <1>1, <1>4, <1>7, <2>1, ValueAt
    <3> QED
      BY <2>1, <3>1 DEF Cell
  <2>3. PICK c \in MachineCommand : c = mc[cur + 1]
    BY <1>5, <2>2, ElementOfSeq
  <2>4. /\ c.cmd = "move" /\ c.t0 = "ram" /\ c.a0 = Cell(m, j)
        /\ c.t1 = "literal" /\ c.a1 = Values(code[m])[j]
    BY <2>2, <2>3 DEF Cmd
  <2>5. data[cur] = [c EXCEPT !.a0 = V!Wrap(@), !.a1 = V!Wrap(@)]
    BY <2>3, <2>4, ExecutesCompiled DEF P!Scans
  <2>6. /\ P!pcmd.cmd = "move" /\ P!pcmd.t0 = "ram" /\ P!pcmd.a0 = V!Wrap(Cell(m, j))
        /\ P!pcmd.t1 = "literal" /\ P!pcmd.a1 = V!Wrap(Values(code[m])[j])
    BY <2>4, <2>5 DEF P!pcmd, MachineCommand
  <2>7. P!Move
    BY <1>1, <2>6, MachineFits, P!Dispatched
  <2>8. cur = V!pc
    BY <1>1, <2>6 DEF Sound, P!CounterInv, P!Scans
  <2> QED
    BY <1>7, <2>1, <2>2, <2>6, <2>7, <2>8
<1> QED
  BY <1>4, <1>6, <1>7

LEMMA FillingStep ==
  ASSUME Parser, DeclaredInv, PassInv, AutoInv, MachineKnown, Parsed, Compiled, Filled, V!Next,
         WellPlaced, vctl = "exec", vctl' \in {"fetch", "exec"}, ~jumped,
         NEW n \in 0 .. line, Declarations = 1 .. n, V!pc < Before(n), Filling(ram, V!pc)
  PROVE  Filling(ram', V!pc + 1)
<1>1. PICK m \in 1 .. n : \E j \in 1 .. Len(Values(code[m])) :
              /\ Action(code[m]) = "declare" /\ Before(m - 1) + j = cur + 1
              /\ mc[cur + 1] = Cmd("move", [type |-> "ram", arg |-> Cell(m, j)],
                                           [type |-> "literal", arg |-> Values(code[m])[j]])
              /\ P!pcmd.t0 = "ram" /\ P!pcmd.a0 = V!Wrap(Cell(m, j))
              /\ P!pcmd.t1 = "literal" /\ P!pcmd.a1 = V!Wrap(Values(code[m])[j])
  BY ExecutesDeclaration
<1>2. PICK j \in 1 .. Len(Values(code[m])) :
              /\ Action(code[m]) = "declare" /\ Before(m - 1) + j = cur + 1
              /\ mc[cur + 1] = Cmd("move", [type |-> "ram", arg |-> Cell(m, j)],
                                           [type |-> "literal", arg |-> Values(code[m])[j]])
              /\ P!pcmd.t0 = "ram" /\ P!pcmd.a0 = V!Wrap(Cell(m, j))
              /\ P!pcmd.t1 = "literal" /\ P!pcmd.a1 = V!Wrap(Values(code[m])[j])
  BY <1>1
<1>3. cur = V!pc /\ P!Move /\ Sound /\ TypeOK /\ line \in Nat
  BY ExecutesDeclaration DEF MachineKnown, Compiled, Parser, TypeOK
<1>4. /\ P!pcmd.a0 \in DOMAIN ram /\ DOMAIN ram' = DOMAIN ram
      /\ \A x \in DOMAIN ram \ {REG_PC} : ram'[x] = IF x = P!pcmd.a0 THEN P!pcmd.a1 ELSE ram[x]
  BY <1>2, <1>3, MachineFits, P!MoveStores DEF Sound
<1>5. cur \in Nat
  BY <1>3, MachineFits DEF Sound, P!MachineInv, P!TypeOK
<1>6. m \in Declarations /\ m \in 1 .. line
  BY <1>3
<1>7. SUFFICES ASSUME NEW k \in Automatic \cap Declarations, NEW i \in 1 .. Len(Values(code[k])),
                      Before(k - 1) + i - 1 < cur + 1
               PROVE  Cell(k, i) \in DOMAIN ram' /\ ram'[Cell(k, i)] = V!Wrap(Values(code[k])[i])
  BY <1>3 DEF Filling
<1>8. k \in 1 .. line /\ Action(code[k]) = "declare"
  BY DEF Automatic
<1>9. /\ Cell(k, i) \in Int /\ Cell(k, i) > REG_PC /\ V!Wrap(Cell(k, i)) = Cell(k, i)
      /\ \A l \in Automatic \ {k} : \A h \in 1 .. Len(Values(code[l])) : Cell(l, h) # Cell(k, i)
  BY <1>3, AutoCell
<1>10. Before(k - 1) \in Nat /\ Before(m - 1) \in Nat /\ Len(Values(code[k])) \in Nat
       /\ Len(Values(code[m])) \in Nat /\ REG_PC \in Nat
  BY <1>2, <1>3, <1>6, <1>8, BeforeStep, CostNat, MachineAssumption
<1>11. CASE Before(k - 1) + i = cur + 1
  <2>1. mc[cur + 1] = Cmd("move", [type |-> "ram", arg |-> Cell(k, i)],
                                  [type |-> "literal", arg |-> Values(code[k])[i]])
    BY <1>3, <1>8, <1>11, ValueAt DEF Cell
  <2>2. Cell(k, i) = Cell(m, j) /\ Values(code[k])[i] = Values(code[m])[j]
    BY <1>2, <2>1 DEF Cmd
  <2>3. P!pcmd.a0 = Cell(k, i) /\ P!pcmd.a1 = V!Wrap(Values(code[k])[i]) /\ Cell(k, i) # REG_PC
    BY <1>2, <1>9, <1>10, <2>2
  <2> QED
    BY <1>4, <2>3
<1>12. CASE Before(k - 1) + i # cur + 1
  <2>1. Before(k - 1) + i - 1 < cur
    BY <1>5, <1>7, <1>10, <1>12
  <2>2. Cell(k, i) \in DOMAIN ram /\ ram[Cell(k, i)] = V!Wrap(Values(code[k])[i])
    BY <1>3, <2>1 DEF Filling
  <2>3. Cell(k, i) # P!pcmd.a0
    <3>1. CASE m \notin Automatic
      <4>1. Cell(m, j) \in Int /\ Cell(m, j) < REG_PC /\ V!Wrap(Cell(m, j)) = Cell(m, j)
        BY <1>2, <1>3, <1>6, <3>1, FixedCell
      <4> QED
        BY <1>2, <1>9, <1>10, <4>1
    <3>2. CASE m \in Automatic /\ m # k
      <4>1. V!Wrap(Cell(m, j)) = Cell(m, j)
        BY <1>3, <3>2, AutoCell
      <4> QED
        BY <1>2, <1>9, <3>2, <4>1
    <3>3. CASE m = k
      <4>1. i # j
        BY <1>2, <1>12, <3>3
      <4>2. V!Wrap(Cell(k, j)) = Cell(k, j)
        BY <1>2, <1>3, <3>3, AutoCell
      <4>3. Cell(k, i) # Cell(k, j)
        <5>1. declared[Tok(code[k], 1).name].addr \in Int
          BY <1>3, <1>8 DEF DeclaredInv, DeclaredWell, TypeOK, Entry
        <5> QED
          BY <1>2, <1>10, <3>3, <4>1, <5>1 DEF Cell
      <4> QED
        BY <1>2, <3>3, <4>2, <4>3
    <3> QED
      BY <3>1, <3>2, <3>3
  <2>4. Cell(k, i) # REG_PC
    BY <1>9, <1>10
  <2> QED
    BY <1>4, <2>2, <2>3, <2>4
<1> QED
  BY <1>11, <1>12

(* Where the machine starts, no declaration comes before it.               *)
LEMMA FillingStart ==
  ASSUME Parser, DeclaredInv, PassInv, MachineKnown, Compiled, V!Next, vctl = "boot", vctl' \in {"fetch", "exec"}
  PROVE  vctl' = "fetch" /\ V!pc' = 1 /\ Filling(ram', 1)
<1>1. Sound /\ P!Next /\ V!pc' = P!pc' /\ TypeOK
  BY SameMachine DEF MachineKnown, Compiled, V!pc, P!pc, Parser
<1>2. vctl' = "fetch" /\ P!pc' = 1 /\ Image[1].cmd = "initr"
  BY <1>1, MachineFits, P!BootStarts DEF Sound
<1>3. ASSUME NEW k \in Automatic, NEW i \in 1 .. Len(Values(code[k])), Before(k - 1) + i - 1 < 1 PROVE FALSE
  <2>1. k \in 1 .. line /\ Action(code[k]) = "declare"
    BY DEF Automatic
  <2>2. Before(k - 1) \in Nat /\ Len(Values(code[k])) \in Nat
    BY <1>1, <2>1, BeforeStep, CostNat
  <2>3. Before(k - 1) + i = 1
    BY <1>3, <2>2
  <2>4. 1 \in 1 .. Len(mc) /\ \E o, p : mc[1] = Cmd("move", o, p)
    <3>1. /\ Before(k - 1) + i \in 1 .. Len(mc)
          /\ mc[Before(k - 1) + i] =
               Cmd("move", [type |-> "ram", arg |-> declared[Tok(code[k], 1).name].addr + i - 1],
                           [type |-> "literal", arg |-> Values(code[k])[i]])
      BY <1>1, <2>1, ValueAt
    <3>2. mc[1] = Cmd("move", [type |-> "ram", arg |-> declared[Tok(code[k], 1).name].addr + i - 1],
                              [type |-> "literal", arg |-> Values(code[k])[i]])
      BY <2>3, <3>1
    <3> QED
      BY <2>3, <3>1, <3>2
  <2>5. mc \in Seq(MachineCommand) /\ DOMAIN mc = 1 .. Len(mc) /\ mc[1].cmd = "move"
    <3>1. mc \in Seq(MachineCommand)
      BY <1>1 DEF TypeOK, MachineCommand
    <3> QED
      BY <2>4, <3>1 DEF Cmd
  <2>6. PICK c \in MachineCommand : c = mc[1]
    BY <2>4, <2>5, ElementOfSeq
  <2>7. Image[1] = [c EXCEPT !.a0 = V!Wrap(@), !.a1 = V!Wrap(@)]
    <3>1. Image = Stored(mc)
      BY DEF Compiled
    <3> QED
      BY <2>4, <2>5, <2>6, <3>1 DEF Stored
  <2> QED
    BY <1>2, <2>5, <2>6, <2>7 DEF MachineCommand
<1> QED
  BY <1>1, <1>2, <1>3 DEF Filling

LEMMA FilledInRun ==
  ASSUME Parser, DeclaredInv, PassInv, AutoInv, MachineKnown, Parsed, Filled, Run
  PROVE  Filled'
<1>1. /\ step = "run" /\ step' = "run" /\ UNCHANGED <<opt, disk, builder>> /\ V!Next
      /\ jumped' = (jumped \/ (vctl = "exec" /\ V!pc' # V!pc + 1))
  BY DEF Run, files
<1>2. /\ Image' = Image /\ Stored(mc)' = Stored(mc) /\ Declarations' = Declarations
      /\ Automatic' = Automatic /\ WellPlaced' = WellPlaced
      /\ \A k : Before(k)' = Before(k)
  <2>1. Target' = Target /\ UNCHANGED <<code, line, mc, declared, avaddr>>
    BY <1>1 DEF Target, builder
  <2>2. Declarations' = Declarations /\ Automatic' = Automatic
    BY <2>1 DEF Declarations, Automatic
  <2> QED
    BY <1>1, <2>1, <2>2 DEF Image, Stored, WellPlaced, Before, V!Half, V!Wrap
<1>3. Filling(ram, V!pc)' <=> Filling(ram', V!pc')
  BY <1>1, <1>2 DEF Filling, Cell, builder, V!Wrap, V!Half, V!pc
<1>4. Sound /\ P!Next /\ V!pc = P!pc /\ V!pc' = P!pc' /\ TypeOK
  BY <1>1, SameMachine DEF MachineKnown, V!pc, P!pc, Parser
<1>5. ASSUME ~jumped', vctl = "exec" PROVE ~jumped /\ V!pc' = V!pc + 1
  BY <1>1, <1>5
<1>6. ASSUME ~jumped' PROVE ~jumped
  BY <1>1, <1>6
<1>7. ASSUME vctl' = "exec", ~jumped' PROVE cur' <= V!pc'
  <2>1. vctl \in {"boot", "fetch", "exec"}
    BY <1>4, MachineFits, P!Halted
  <2>2. vctl # "boot"
    BY <1>4, <1>7, MachineFits, P!BootStarts DEF Sound
  <2>3. P!TypeOK /\ cur \in Nat /\ REG_PC \in DOMAIN ram
    <3>1. P!TypeOK /\ REG_FRM \in DOMAIN ram
      BY <1>4, <2>1, <2>2 DEF Sound, P!MachineInv, P!Running
    <3> QED
      BY <3>1, MachineFits, P!RegisterCells DEF P!TypeOK
  <2>4. V!pc \in Int
    <3>1. ram \in [DOMAIN ram -> P!Word]
      BY <2>3 DEF P!TypeOK
    <3> QED
      BY <2>3, <3>1, MachineFits, P!HalfPositive DEF V!pc, P!Word
  <2>5. CASE vctl = "fetch"
    <3>1. cur' = V!pc /\ ram' = ram
      BY <1>4, <1>7, <2>5, MachineFits, P!FetchKeeps
    <3> QED
      BY <2>4, <3>1 DEF V!pc
  <2>6. CASE vctl = "exec"
    <3>1. cur' = cur /\ cur <= V!pc
      BY <1>1, <1>4, <1>6, <1>7, <2>6, MachineFits, P!Dispatched DEF Filled
    <3> QED
      BY <1>5, <1>7, <2>3, <2>4, <2>6, <3>1
  <2> QED
    BY <2>1, <2>2, <2>5, <2>6
<1>8. ASSUME Compiled', ~jumped', vctl' \in {"fetch", "exec"}, WellPlaced',
             V!pc' <= Before(Cardinality(Declarations))
      PROVE  Filling(ram', V!pc')
  <2>1. Compiled /\ WellPlaced /\ ~jumped
    BY <1>1, <1>2, <1>6, <1>8 DEF Compiled, builder
  <2>2. PICK n \in 0 .. Len(code) : Declarations = 1 .. n /\ Cardinality(Declarations) = n
    BY <1>4, DeclarationsFirst
  <2>3. n \in 0 .. line /\ V!pc' <= Before(n)
    BY <1>8, <2>1, <2>2 DEF Compiled, Parsed
  <2>4. vctl \in {"boot", "fetch", "exec"}
    BY <1>4, MachineFits, P!Halted
  <2>5. CASE vctl = "boot"
    BY <1>1, <1>8, <2>1, <2>5, FillingStart
  <2>6. CASE vctl = "fetch"
    <3>1. ram' = ram /\ V!pc' = V!pc
      BY <1>4, <1>8, <2>6, MachineFits, P!FetchKeeps DEF V!pc
    <3>2. Filling(ram, V!pc)
      BY <2>1, <2>2, <2>3, <2>6, <3>1 DEF Filled
    <3> QED
      BY <3>1, <3>2
  <2>7. CASE vctl = "exec"
    <3>1. V!pc' = V!pc + 1
      BY <1>5, <1>8, <2>7
    <3>2. V!pc \in Int /\ Before(n) \in Int
      <4>1. REG_PC \in DOMAIN ram /\ ram \in [DOMAIN ram -> P!Word]
        BY <1>4, <2>7, MachineFits, P!ArgsType DEF Sound, P!MachineInv, P!TypeOK
      <4>2. V!pc \in Int
        BY <4>1, MachineFits, P!HalfPositive DEF V!pc, P!Word
      <4> QED
        BY <2>3, <4>2 DEF PassInv
    <3>3. V!pc < Before(n) /\ V!pc <= Before(n)
      BY <2>3, <3>1, <3>2
    <3>4. Filling(ram, V!pc)
      BY <2>1, <2>2, <2>7, <3>3 DEF Filled
    <3> QED
      BY <1>1, <1>8, <2>1, <2>2, <2>3, <2>7, <3>1, <3>3, <3>4, FillingStep
  <2> QED
    BY <2>4, <2>5, <2>6, <2>7
<1>9. Before(Cardinality(Declarations))' = Before(Cardinality(Declarations))
  BY <1>2
<1> QED
  BY <1>1, <1>3, <1>7, <1>8, <1>9 DEF Filled

LEMMA FilledKept ==
  ASSUME Parser, DeclaredInv, PassInv, AutoInv, MachineKnown, Parsed, Filled, [DNext]_dvars
  PROVE  Filled'
<1>1. ASSUME step' # "run" PROVE Filled'
  BY <1>1 DEF Filled, Compiled
<1>2. CASE Run
  BY <1>2, FilledInRun
<1>3. CASE Start
  <2>1. step = "start" /\ UNCHANGED machine
    BY <1>3 DEF Start
  <2>2. vctl' = "boot"
    BY <2>1 DEF machine, MachineKnown, Born
  <2> QED
    BY <2>2 DEF Filled
<1>4. CASE UNCHANGED dvars
  <2>1. UNCHANGED <<step, opt, disk, builder, machine>>
    BY <1>4 DEF dvars, files
  <2>2. Target' = Target /\ Image' = Image
    BY <2>1 DEF Target, Image
  <2>3. Declarations' = Declarations /\ Automatic' = Automatic /\ \A k : Before(k)' = Before(k)
    BY <2>1 DEF builder, Declarations, Automatic, Before
  <2>4. Compiled' = Compiled /\ WellPlaced' = WellPlaced
    BY <2>1, <2>2, <2>3 DEF builder, Compiled, Stored, WellPlaced, V!Wrap, V!Half
  <2>5. Filling(ram, V!pc)' = Filling(ram, V!pc)
    BY <2>1, <2>3 DEF builder, machine, Filling, Cell, V!Wrap, V!Half, V!pc
  <2>6. Before(Cardinality(Declarations))' = Before(Cardinality(Declarations))
    BY <2>3
  <2> QED
    BY <2>1, <2>4, <2>5, <2>6 DEF machine, Filled, V!pc
<1>5. CASE Invoke \/ TakePath \/ TakeFlag \/ ArgsRefused \/ ArgsDone \/ Load \/ LoadFails
  BY <1>1, <1>5 DEF Invoke, TakePath, TakeFlag, ArgsRefused, ArgsDone, Load, LoadFails, Exit, Goto
<1>6. CASE CompilerUndefined \/ LexerRefuses \/ Build \/ BuildFails \/ BuildUndefined \/ OpenFails
  BY <1>1, <1>6 DEF CompilerUndefined, LexerRefuses, Build, BuildFails, BuildUndefined, OpenFails,
     Built, Exit, Goto
<1>7. CASE OpenOutput \/ SaveCommand \/ SaveFails \/ CloseOutput
  BY <1>1, <1>7 DEF OpenOutput, SaveCommand, SaveFails, CloseOutput, Exit, Goto
<1>8. CASE StartFails \/ NoMachine \/ RunEnds \/ RunUndefined \/ Killed
  BY <1>1, <1>8 DEF StartFails, NoMachine, RunEnds, RunUndefined, Killed, Exit, Goto
<1> QED
  BY <1>2, <1>3, <1>4, <1>5, <1>6, <1>7, <1>8 DEF DNext, Process

LEMMA FilledSuffices ==
  ASSUME Parser, DeclaredInv, PassInv, Parsed, Filled
  PROVE  VariablesReady
<1>1. SUFFICES ASSUME Compiled, ~jumped, vctl = "fetch", V!pc = Before(Cardinality(Declarations)), WellPlaced,
                      NEW k \in Automatic \cap Declarations, NEW i \in 1 .. Len(Values(code[k]))
               PROVE  ram[declared[Tok(code[k], 1).name].addr + i - 1] = V!Wrap(Values(code[k])[i])
  BY DEF VariablesReady, WellPlaced
<1>2. TypeOK /\ line = Len(code) /\ Len(code) \in Nat
  BY <1>1 DEF Parser, TypeOK, Compiled, Parsed
<1>3. PICK n \in 0 .. Len(code) : Declarations = 1 .. n /\ Cardinality(Declarations) = n
  BY <1>2, DeclarationsFirst
<1>4. k \in 1 .. line /\ k - 1 \in 0 .. line /\ k \in 1 .. n /\ Action(code[k]) = "declare"
  BY <1>2, <1>3 DEF Automatic
<1>5. Before(n) \in Nat
  BY <1>2, <1>3 DEF PassInv, TypeOK
<1>6. Before(k - 1) + i <= Before(k) /\ Before(k) <= Before(n) /\ Before(k) \in Nat /\ Before(k - 1) \in Nat
  <2>1. k \in 0 .. line /\ n \in k .. line
    BY <1>2, <1>3, <1>4
  <2> QED
    BY <1>2, <1>4, <2>1, ValueAt, BeforeGrows, BeforeStep
<1>7. Len(Values(code[k])) \in Nat
  BY <1>2, <1>4, CostNat
<1>8. Before(k - 1) + i - 1 < V!pc /\ V!pc <= Before(Cardinality(Declarations))
  BY <1>1, <1>3, <1>5, <1>6, <1>7
<1>9. Filling(ram, V!pc)
  BY <1>1, <1>8 DEF Filled
<1> QED
  BY <1>8, <1>9 DEF Filling, Cell

(* Every variable with an automatic address holds its values when the      *)
(* machine comes to the first command after the declarations, for every    *)
(* program and every size of a page.                                       *)
THEOREM VariablesAreReady == DSpec => []VariablesReady
<1> DEFINE I == Images /\ MachineKnown /\ Parsed /\ PassInv /\ DeclaredInv /\ AutoInv /\ Filled
<1>1. DInit => OneProgram
  BY DEF DInit, OneProgram, ImageOfOneProgram, Saving
<1>2. Parser /\ OneProgram /\ [DNext]_dvars => OneProgram'
  BY OneProgramKept
<1>3. DInit => I
  <2>1. ASSUME DInit PROVE Images /\ Parsed /\ MachineKnown /\ Filled
    <3>1. Len(<<>>) = 0 /\ DOMAIN <<>> = {}
      OBVIOUS
    <3> QED
      BY <2>1, <3>1 DEF DInit, Images, Parsed, MachineKnown, Filled, Compiled
  <2>2. ASSUME DInit PROVE PassInv /\ DeclaredInv
    <3>1. line = 0 /\ mc = <<>> /\ Len(mc) = 0
      BY <2>2 DEF DInit
    <3> QED
      BY <3>1, BeforeFirst DEF PassInv, DeclaredInv
  <2>3. DInit => AutoInv
    BY SourceAssumption DEF DInit, AutoInv, Apart, Automatic
  <2> QED
    BY <2>1, <2>2, <2>3
<1>4. Parser /\ OneProgram /\ I /\ [DNext]_dvars => I'
  BY ImagesKept, MachineKnownKept, ParsedKept, ParserInOnePass, ParserDeclares, ParserApart, FilledKept
<1>5. Parser /\ I => VariablesReady
  BY FilledSuffices
<1> HIDE DEF I
<1> QED
  BY <1>1, <1>2, <1>3, <1>4, <1>5, DriverTyped, PTL DEF DSpec

=============================================================================
