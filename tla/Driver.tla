-------------------------------- MODULE Driver --------------------------------
(***************************************************************************)
(* The program (core/main.c): a command line is read word by word, a       *)
(* source file is found, compiled and saved as an image, and the image of  *)
(* the output file is run. The disk outlives the process, so a session is  *)
(* several command lines, one after the other. The compiler is module      *)
(* Assembler, the names of files are module Paths, and the machine is      *)
(* module Chip32, on the image that the disk holds.                        *)
(*                                                                         *)
(* A source file stands for what the lexer makes of it. Names of sources   *)
(* and of images are different files. -v only prints; PATH_MAX is not      *)
(* modelled.                                                               *)
(***************************************************************************)
EXTENDS Assembler, Paths

CONSTANTS
  Sessions,         \* the command lines a user may type, one after the other
  Files,            \* what each file to read may hold; a directory reads as <<>>
  Directories,      \* the files that fopen does not create
  Malformed,        \* the sources that the lexer refuses
  MAX_DIR_INCLUDE,  \* 32
  Width, REG_PC, REG_STK, REG_FRM, PageSize, Junk,   \* of the machine
  EnvFails          \* may the system's calls fail, and the process be killed?

ASSUME DriverAssumption ==
  /\ MAX_DIR_INCLUDE \in Nat /\ EnvFails \in BOOLEAN
  /\ Directories \subseteq DOMAIN Files
  /\ \A f \in DOMAIN Files : Files[f] \subseteq Sources
  /\ Sessions \subseteq Seq(Seq(Seq(STRING)))

VARIABLES
  todo,    \* the command lines still to be typed
  given,   \* the words of the one that was typed last
  args,    \* those of them that main has not read
  opt,     \* dinclude, src and out, as lists of paths, and run
  step,    \* where main is; "shell" when no process runs
  disk,    \* the images on the disk, by the name of their file
  saved,   \* how many commands chip32_commands_save has written
  status,  \* how the last process ended
  before,  \* history: the disk when the process began
  wrote,   \* history: the program that each image was made from
  lost,    \* history: a write was lost when the output was closed
  jumped,  \* history: the machine has left the order of its commands
  ram, data, ncmds, pagecurrent, state, vctl, cur    \* the machine

shell == <<todo, given, before>>

builder == <<code, line, mc, declared, avaddr, ctl>>

machine == <<ram, data, ncmds, pagecurrent, state, vctl, cur, jumped>>

files == <<disk, saved, wrote, lost>>

dvars == <<shell, args, opt, step, status, files, builder, machine>>

-----------------------------------------------------------------------------
(* The option words, and the field that the word after one of them is for. *)
Option(letter) == <<"-", letter>>

Field(word) ==
  CASE word = Option("i") -> "dirs" [] word = Option("f") -> "src" [] OTHER -> "out"

WithPath == {Option("i"), Option("f"), Option("o")}

Flags == {Option("r"), Option("v")}

Room(field) == Len(opt[field]) < (IF field = "dirs" THEN MAX_DIR_INCLUDE ELSE 1)

Target == Components(opt.out[1])

(* chip32_commands_save writes the fields of a command, its arguments as   *)
(* 32-bit words, and chip32_command_load reads them back.                  *)
Image == IF step = "run" THEN disk[Target] ELSE <<>>

V == INSTANCE Chip32 WITH image <- Image, ctl <- vctl, Images <- {}

(* What module Chip32 assumes; and A32_START_ADDR is CHIP32_REG_LAST.      *)
ASSUME MachineAssumption ==
  /\ Width \in Nat \ {0, 1}
  /\ 2^0 = 1 /\ \A n \in 0 .. Width - 1 : 2^(n + 1) = 2 * 2^n
  /\ REG_PC \in Nat /\ REG_STK = REG_PC + 1 /\ REG_FRM = REG_PC + 2
  /\ REG_FRM < V!Half /\ A32_START_ADDR = REG_FRM + 1
  /\ PageSize \in Nat \ {0} /\ PageSize < V!Half
  /\ Junk \subseteq V!Word /\ Junk # {}

Stored(program) ==
  [n \in DOMAIN program |->
     [program[n] EXCEPT !.a0 = V!Wrap(@), !.a1 = V!Wrap(@)]]

Put(f, contents, what) == [g \in DOMAIN what \cup {f} |-> IF g = f THEN contents ELSE what[g]]

-----------------------------------------------------------------------------
NoCompiler ==
  /\ code' = <<>> /\ line' = 0 /\ mc' = <<>> /\ declared' = <<>>
  /\ avaddr' = A32_START_ADDR /\ ctl' = "parse"

NoData ==
  [i \in 0 .. PageSize - 1 |->
     [cmd |-> "nop", t0 |-> "literal", t1 |-> "literal", a0 |-> 0, a1 |-> 0]]

(* chip32_new.                                                             *)
NewMachine ==
  /\ ram' = <<>> /\ data' = NoData /\ ncmds' = 0 /\ pagecurrent' = 0
  /\ state' = "run" /\ vctl' = "boot" /\ cur' = 0 /\ jumped' = FALSE

NoOptions == [dirs |-> <<>>, src |-> <<>>, out |-> <<>>, run |-> FALSE]

DInit ==
  /\ todo \in Sessions /\ given = <<>> /\ args = <<>>
  /\ opt = NoOptions /\ step = "shell" /\ status = "none"
  /\ disk = <<>> /\ saved = 0 /\ before = <<>> /\ wrote = <<>> /\ lost = FALSE
  /\ code = <<>> /\ line = 0 /\ mc = <<>> /\ declared = <<>>
  /\ avaddr = A32_START_ADDR /\ ctl = "parse"
  /\ ram = <<>> /\ data = NoData /\ ncmds = 0 /\ pagecurrent = 0
  /\ state = "run" /\ vctl = "boot" /\ cur = 0 /\ jumped = FALSE

(* The next command line: main begins.                                     *)
Invoke ==
  /\ step = "shell" /\ todo # <<>>
  /\ todo' = Tail(todo) /\ given' = Head(todo) /\ args' = Head(todo)
  /\ opt' = NoOptions /\ step' = "args" /\ status' = "none"
  /\ before' = disk /\ saved' = 0 /\ lost' = FALSE
  /\ NoCompiler /\ NewMachine
  /\ UNCHANGED <<disk, wrote>>

Exit(how) == step' = "shell" /\ status' = how

Goto(where) == step' = where /\ UNCHANGED status

-----------------------------------------------------------------------------
PathFollows == Len(args) > 1 /\ Room(Field(args[1])) /\ Resolvable(args[2])

TakePath ==
  /\ step = "args" /\ args # <<>> /\ args[1] \in WithPath /\ PathFollows
  /\ opt' = [opt EXCEPT ![Field(args[1])] = Append(@, PathResolve(args[2]))]
  /\ args' = Tail(Tail(args))
  /\ UNCHANGED <<shell, step, status, files, builder, machine>>

TakeFlag ==
  /\ step = "args" /\ args # <<>> /\ args[1] \in Flags
  /\ opt' = [opt EXCEPT !.run = @ \/ args[1] = Option("r")]
  /\ args' = Tail(args)
  /\ UNCHANGED <<shell, step, status, files, builder, machine>>

(* Too many words, too few, or unknown ones.                               *)
ArgsRefused ==
  /\ step = "args"
  /\ IF args = <<>> THEN ~(opt.out # <<>> /\ Resolvable(opt.out[1]))
     ELSE /\ args[1] \notin Flags
          /\ args[1] \in WithPath => ~PathFollows
  /\ Exit("1")
  /\ UNCHANGED <<shell, args, opt, files, builder, machine>>

(* The output, resolved once more, decides nothing but the name.           *)
ArgsDone ==
  /\ step = "args" /\ args = <<>> /\ opt.out # <<>> /\ Resolvable(opt.out[1])
  /\ opt' = [opt EXCEPT !.out = <<PathResolve(@[1])>>]
  /\ IF opt.src # <<>> THEN Goto("load")
     ELSE IF opt.run THEN Goto("start") ELSE Exit("0")
  /\ UNCHANGED <<shell, args, files, builder, machine>>

-----------------------------------------------------------------------------
Tried ==
  LET paths == opt.src \o [i \in DOMAIN opt.dirs |-> opt.dirs[i] \o <<Slash>> \o opt.src[1]]
  IN  [i \in DOMAIN paths |-> Components(paths[i])]

(* find_file: the name itself, then the name in each directory of -i; one  *)
(* file or none.                                                           *)
Source ==
  {Tried[i] : i \in {n \in DOMAIN Tried :
     Tried[n] \in DOMAIN Files /\ \A j \in 1 .. n - 1 : Tried[j] \notin DOMAIN Files}}

(* load_code, and a new compiler. A read error passes for the end of the   *)
(* file (the text is then cut, here between two lines).                    *)
Load ==
  /\ step = "load"
  /\ \E f \in Source : \E text \in Files[f] :
       \E k \in IF EnvFails THEN 0 .. Len(text) ELSE {Len(text)} :
         code' = SubSeq(text, 1, k)
  /\ Goto("build")
  /\ UNCHANGED <<shell, args, opt, files, line, mc, declared, avaddr, ctl, machine>>

(* No such file, or the system does not open it or gives no memory.        *)
LoadFails ==
  /\ step = "load" /\ (Source = {} \/ EnvFails)
  /\ Exit("1")
  /\ UNCHANGED <<shell, args, opt, files, builder, machine>>

(* Without memory for the compiler the code goes on with a null pointer.   *)
CompilerUndefined ==
  /\ step = "load" /\ EnvFails /\ Source # {}
  /\ Goto("undef")
  /\ UNCHANGED <<shell, args, opt, files, builder, machine>>

(* chip32_compiler_build: the lexer, then the parser.                      *)
LexerRefuses ==
  /\ step = "build" /\ line = 0 /\ ctl = "parse"
  /\ code \in Malformed \/ EnvFails
  /\ Exit("1")
  /\ UNCHANGED <<shell, args, opt, files, builder, machine>>

Build ==
  /\ step = "build" /\ code \notin Malformed
  /\ Next
  /\ UNCHANGED <<shell, args, opt, step, status, files, machine>>

BuildFails ==
  /\ step = "build" /\ ctl = "error"
  /\ Exit("1")
  /\ UNCHANGED <<shell, args, opt, files, builder, machine>>

BuildUndefined ==
  /\ step = "build" /\ ctl = "undef"
  /\ Goto("undef")
  /\ UNCHANGED <<shell, args, opt, files, builder, machine>>

-----------------------------------------------------------------------------
MutBuilt == step = "build" /\ ctl \in {"done", "error"}

(* main opens the output only after a build that returned 0.               *)
Built == step = "build" /\ ctl = "done"

MutTruncated(f) == IF f \in DOMAIN disk THEN disk ELSE Put(f, <<>>, disk)

(* fopen(out, "w") leaves nothing of what the file held.                   *)
Truncated(f) == Put(f, <<>>, disk)

OpenOutput ==
  /\ Built /\ Target \notin Directories
  /\ disk' = Truncated(Target) /\ wrote' = Put(Target, Stored(mc), wrote)
  /\ Goto("save")
  /\ UNCHANGED <<shell, args, opt, saved, lost, builder, machine>>

OpenFails ==
  /\ Built /\ (Target \in Directories \/ EnvFails)
  /\ Exit("1")
  /\ UNCHANGED <<shell, args, opt, files, builder, machine>>

MutAllSaved == saved >= Len(mc) - 1

AllSaved == saved >= Len(mc)

MutSavedAgain == IF saved + 1 = Len(mc) THEN 0 ELSE saved + 1

MutSavedTwice == saved + 2

(* How far the loop of chip32_commands_save is after one more command.     *)
Saved == saved + 1

(* fwrite fills the buffer of the stream; the file gets its contents when  *)
(* the buffer is written out, at the latest when the stream is closed.     *)
SaveCommand ==
  /\ step = "save" /\ ~AllSaved
  /\ saved' = Saved
  /\ UNCHANGED <<shell, args, opt, step, status, disk, wrote, lost, builder, machine>>

(* The first n commands are in the file, over what it held.                *)
Flushed(n) ==
  disk' = Put(Target, SubSeq(Stored(mc), 1, n)
                        \o SubSeq(disk[Target], n + 1, Len(disk[Target])), disk)

SaveFails ==
  /\ step = "save" /\ EnvFails /\ ~AllSaved
  /\ \E n \in 0 .. saved : Flushed(n)
  /\ Exit("1")
  /\ UNCHANGED <<shell, args, opt, saved, wrote, lost, builder, machine>>

(* Nobody asks fclose whether everything was written.                      *)
Closed == IF EnvFails THEN 0 .. saved ELSE {saved}

CloseOutput ==
  /\ step = "save" /\ AllSaved
  /\ \E n \in Closed : Flushed(n) /\ lost' = (n < saved)
  /\ IF opt.run THEN Goto("start") ELSE Exit("0")
  /\ UNCHANGED <<shell, args, opt, saved, wrote, builder, machine>>

-----------------------------------------------------------------------------
Start ==
  /\ step = "start" /\ Target \in DOMAIN disk
  /\ Goto("run")
  /\ UNCHANGED <<shell, args, opt, files, builder, machine>>

(* A directory opens, reads as an empty image and fails in chip32_run.     *)
StartFails ==
  /\ step = "start" /\ (Target \notin DOMAIN disk \/ EnvFails)
  /\ Exit("1")
  /\ UNCHANGED <<shell, args, opt, files, builder, machine>>

NoMachine ==
  /\ step = "start" /\ Target \in DOMAIN disk /\ EnvFails
  /\ Goto("undef")
  /\ UNCHANGED <<shell, args, opt, files, builder, machine>>

Run ==
  /\ step = "run"
  /\ UNCHANGED <<shell, args, opt, step, status, files, builder>>
  /\ V!Next
  /\ jumped' = (jumped \/ (vctl = "exec" /\ V!pc' # V!pc + 1))

RunEnds ==
  /\ step = "run" /\ vctl = "stopped"
  /\ Exit(IF state = "fail" THEN "1" ELSE "0")
  /\ UNCHANGED <<shell, args, opt, files, builder, machine>>

RunUndefined ==
  /\ step = "run" /\ vctl = "undef"
  /\ Goto("undef")
  /\ UNCHANGED <<shell, args, opt, files, builder, machine>>

-----------------------------------------------------------------------------
(* The process is killed; some of what it wrote is in the file.            *)
Killed ==
  /\ EnvFails /\ step \notin {"shell", "undef"}
  /\ IF step = "save" THEN \E n \in 0 .. saved : Flushed(n) ELSE UNCHANGED disk
  /\ Exit("killed")
  /\ UNCHANGED <<shell, args, opt, saved, wrote, lost, builder, machine>>

Process ==
  \/ TakePath \/ TakeFlag \/ ArgsRefused \/ ArgsDone
  \/ Load \/ LoadFails \/ CompilerUndefined
  \/ LexerRefuses \/ Build \/ BuildFails \/ BuildUndefined
  \/ OpenOutput \/ OpenFails \/ SaveCommand \/ SaveFails \/ CloseOutput
  \/ Start \/ StartFails \/ NoMachine \/ Run \/ RunEnds \/ RunUndefined

DNext == Invoke \/ Process \/ Killed

(* main is one thread that waits for nobody; the user need not go on, and  *)
(* the process need not be killed.                                         *)
DSpec == DInit /\ [][DNext]_dvars /\ WF_dvars(Process)

-----------------------------------------------------------------------------
(* The command line is a sequence of words, every image on the disk holds  *)
(* commands of the machine, and main is at one of its steps.               *)
DTypeOK ==
  /\ TypeOK
  /\ given \in Seq(Seq(STRING)) /\ IsSuffix(args, given)
  /\ \A field \in {"dirs", "src", "out"} : opt[field] \in Seq(Seq(STRING))
  /\ Len(opt.dirs) <= MAX_DIR_INCLUDE /\ Len(opt.src) <= 1 /\ Len(opt.out) <= 1
  /\ opt.run \in BOOLEAN /\ lost \in BOOLEAN /\ jumped \in BOOLEAN
  /\ \A f \in DOMAIN disk : disk[f] \in Seq(V!Command)
  /\ DOMAIN wrote = DOMAIN disk /\ DOMAIN before \subseteq DOMAIN disk
  /\ saved \in 0 .. Len(mc)
  /\ step \in {"shell", "args", "load", "build", "save", "start", "run", "undef"}
  /\ status \in {"none", "0", "1", "killed"}

(* The words that name a file to main as they do to the system.            *)
Plain(word) ==
  /\ DotsApart(word) /\ SpeltOut(word) /\ ~StartsWith(word, <<"~">>)
  /\ \A n \in 1 .. Len(word) - 1 : word[n] # Slash \/ word[n + 1] # Slash

(* The files that the words after this option of the command line name.    *)
Named(letter) ==
  {Components(given[n + 1]) :
     n \in {m \in 1 .. Len(given) - 1 : given[m] = Option(letter) /\ Plain(given[m + 1])}}

Has(letter) == Option(letter) \in {given[n] : n \in DOMAIN given}

(* Three conditions on the command lines that a user may type. The word      *)
(* after an option with a path is not itself an option; main would take    *)
(* it for the path, as the name of a file like any other.                  *)
Typed == UNION {{s[k] : k \in DOMAIN s} : s \in Sessions}

OperandsApart ==
  \A l \in Typed : \A n \in 1 .. Len(l) - 1 :
    l[n] \in WithPath => l[n + 1] \notin WithPath \cup Flags

(* Whatever main makes of a word is a sequence of characters.              *)
PathsTyped ==
  \A l \in Typed : \A n \in DOMAIN l :
    PathResolve(l[n]) \in Seq(STRING) /\ PathResolve(PathResolve(l[n])) \in Seq(STRING)

(* A plain word that main resolves twice is the file it is to the system.  *)
NamesKept ==
  \A l \in Typed : \A n \in DOMAIN l :
    Plain(l[n]) /\ Resolvable(l[n]) /\ Resolvable(PathResolve(l[n])) =>
      Components(PathResolve(PathResolve(l[n]))) = Components(l[n])

(* When the program ends with 0, the file that the words of -o name holds  *)
(* all of what the source of -f was compiled to and no other image has     *)
(* changed, and with -r chip32_run has returned 0 - unless the last bytes  *)
(* were lost by the fclose that main does not check. (What chip32_run ends *)
(* at need not be the end of the program: page_load takes a read error for *)
(* it, and so 0 does not mean that the program has run.)                   *)
ZeroMeansDone ==
  step = "shell" /\ status = "0" /\ ~lost =>
    /\ \A f \in Named("o") :
         disk = IF Has("f") THEN Put(f, Stored(mc), before) ELSE before
    /\ Has("f") => ctl = "done" /\ line = Len(code)
    /\ Has("r") => vctl = "stopped" /\ state = "run"

(* A program that does not compile costs nobody an image: however a        *)
(* process ended, the disk is what it was unless the parser was done.      *)
FailedBuildKeepsImages ==
  step = "shell" /\ ctl # "done" => disk = before

(* An image holds the beginning of one program: never commands of two,     *)
(* however many processes wrote the file, failed or were killed.           *)
ImageOfOneProgram == \A f \in DOMAIN disk : IsPrefix(disk[f], wrote[f])

-----------------------------------------------------------------------------
(* main runs what it has just compiled.                                    *)
Compiled == step = "run" /\ code # <<>> /\ Image = Stored(mc)

(* The lines up to the first one that is not initr or declare.             *)
Declarations ==
  {k \in DOMAIN code : \A j \in 1 .. k : Action(code[j]) \in {"initr", "declare"}}

(* When the machine reaches the first command after the declarations of a  *)
(* program, every variable with an automatic address holds the values it   *)
(* was declared with: parser, file and machine agree on where it lies, and *)
(* setting one variable spares the others - provided that no list starts   *)
(* with a negative number (its size, to the code), that no list for which  *)
(* an address was asked, and which is at 0, reaches the registers, and     *)
(* that the addresses are words.                                           *)
VariablesReady ==
  /\ Compiled /\ ~jumped /\ vctl = "fetch" /\ V!pc = Before(Cardinality(Declarations))
  /\ avaddr <= V!Half /\ \A k \in Automatic : Span(code[k]) >= 0
  /\ \A k \in Declarations \ Automatic :
       Action(code[k]) = "declare" => Len(Values(code[k])) <= REG_PC
  => \A k \in Automatic \cap Declarations :
       \A i \in 1 .. Len(Values(code[k])) :
         ram[declared[Tok(code[k], 1).name].addr + i - 1] = V!Wrap(Values(code[k])[i])

(* The operand of a jmpi, ift or iff line that says where to go on.        *)
Way(l) == First(l) + IF Action(l) = "jmpi" THEN 0 ELSE 2

(* The command that a branch counts from. README.md:154-162 and chip32.h   *)
(* count from the branch itself ("goto curaddr+addr"); c32asmpars.c adds   *)
(* mccount when it has appended the command, so that it is the next one.   *)
Origin == cur + 1

(* Where the number in such a line leads.                                  *)
Ways(l) ==
  {V!Wrap(Origin + Tok(l, Way(l)).num)}
    \cup IF Action(l) = "jmpi" THEN {} ELSE {cur + 1}

(* Whatever lies between a branch and its target - declarations that stand *)
(* for many commands or none -, whichever of jmpi, ift and iff it is, and  *)
(* whatever the file keeps of 32 bits and the machine subtracts and adds,  *)
(* a branch by n leads n machine commands on from the one after it. (The   *)
(* documents say: from the branch. The code does not do that.)             *)
BranchesRelative ==
  [][Compiled /\ vctl = "exec" /\ vctl' = "fetch" =>
       \A k \in DOMAIN code :
         /\ Before(k - 1) = cur /\ Action(code[k]) \in {"jmpi", "ift", "iff"}
         /\ Is(code[k], Way(code[k]), {"NUM"})
         => V!pc' \in Ways(code[k])]_dvars

(* A process comes to an end, or runs the machine for as long as the       *)
(* program in it goes on: no command line, file or failure holds it up.    *)
InvocationEnds == step \in {"args", "load", "build", "save", "start"}
                    ~> step \in {"shell", "run", "undef"}
=============================================================================
