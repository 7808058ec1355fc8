# Verification of chip32

chip32 is an assembler and the virtual machine it assembles for, one C program
(`src/core/main.c`): with `-f` it compiles a source into an image file, with `-r`
it runs an image. This directory holds TLA+ models of its parts, TLC runs that
check them on small instances, and TLAPS proofs for every value of the constants.

## Inventory

Everything runs in one thread, and only the image outlives a process. What is hard
here is not concurrency. It is a machine that checks none of its operands, loops
that go on over a state which an earlier step of them has changed, a probing hash
table that moves its elements about, caches (a loaded page, a maximal probe distance)
that have to change with what they describe, two passes over a text that must agree
about it, steps that fail half way, and an image that is overwritten in place by a
process that may be killed.

| part | source | state | operations | what makes it right |
|---|---|---|---|---|
| words | `core/chip32.c` 67-175 | none | commands 0x02-0x13 | results are words; division and remainder agree; rotations keep every bit |
| virtual machine | `core/chip32.c`, `include/chip32.h` | RAM with the registers PC, STK, FRM in cells 32-34; one loaded page `data[]`, its number and how many commands it has; `state` | `chip32_new`, `chip32_run`, one function per command | only commands of the image run, at their own address; it never stops inside an image it can read; FAIL is final |
| call stack | `core/chip32.c` 197-220 | the stack at the top of RAM, FRM | call, ret, push, pop | a caller gets back its place, stack and frame |
| hash table | `core/rbhash.c`, `include/rbhash.h` | slots, size, count, maxdistance; a search has a cursor | new, add, add_unique, find, remove, upsize, free, search | what was added is found, until it is removed; a search returns each duplicate once; no slot is lost; a full table is announced by an error; a call ends |
| hash functions | `core/hashalg.c` | none | nine byte hashes | any function will do |
| lexer | `core/c32asmlex.c`, `load_code` of `core/main.c` | the text, the position in it, the line, `vcmd[]` | one read, one line, one token at a time | reads the whole text and passes over nothing; a line is a command; gives the parser what it relies on; ends |
| parser, code generator | `core/c32asmpars.c` | `mc[]`, the table of names, the next free address | `a32_parse`, one action per command, `declare`, labels | a name means one thing; variables do not overlap; a branch leads as far as its number says |
| compiler object, images | `core/c32asm.c` | the above together | new, build, save, load | the file holds the commands of one program |
| driver | `core/main.c` | options; the image on the disk | options, paths, load the source, build, save, `page_load`, run | status 0 means that all was done; a failed build costs no image; a process ends |
| strings, dump, macros | `core/str.c`, `core/chip32.c` 388-485, `include/sos_*.h` | none | formatting, printing, rounding to powers of two | |

How they interact: the driver hands a source to the compiler, which runs the lexer
over all of it and then the parser over the lexer's lines. The parser keeps the
table of commands (name -> function) and the table of names in two hash tables,
and calls `rbhash_add_unique` and `rbhash_find` on them. The driver saves `mc[]`,
opens the file again, and gives the machine `page_load` as a callback. The machine
calls it for page 0, and for another page when the program counter leaves the one
it has; a `data` operand reads the image directly through the same callback.

## Modules

| module | models | state and actions |
|---|---|---|
| `Alu` | words and commands on them | operators only. Each gives the SET of words C allows: none for a division that traps, two for a shift by the width or more |
| `AluLaws` | | an accumulator that visits all pairs of words |
| `Chip32` | `chip32_run`, all commands, `page_load` | `ram`, `data`, `ncmds`, `pagecurrent`, `state` are the fields of `chip32_s`; `ctl` is the place in `chip32_run`, `cur` the index of `pcmd`. `BootLoadFails`, `BootRefused`, `BootInitr` are the code before the loop, `Fetch` and `ReloadFails` its head, and there is one action per command function, or one for the functions of one shape. The `++PC` at the end of the loop and the loop's condition are `Retire`, part of every command |
| `Chip32Calls` | the calling convention | adds the history `calls` of open activations, and `respected`: has the program left the frames of its callers alone? Both only observe |
| `Chip32Programs` | which programs are defined | predicates on images: `SafeImage`, `Forward` |
| `Rbhash` | the hash table | one action per call without writing loops, one per iteration of `rbhash_swapdown` and of the scan in `rbhash_upsize`. While a table grows `table` is the new one and `old` the one it replaces |
| `RbhashSearch` | `rbhash_search_*` | `search` is the cursor a caller holds while other calls change the table under it. `SearchBeyond` and `SearchDangling` are the two ways to use it wrongly: on after NULL, and on after a growth |
| `RbhashStore` | what `rbhash.h` promises | how many times each element is there, and whose data the delete function was called on |
| `Lexer` | `load_code`, `a32_lexer` and `a32_lexer_line` | `code`, `codeSize` the buffer; `at`, `line`, `vcmd`, `cmdsize` those of the compiler; `tokens` the ones of the line being read. One action is one `fread`, or one iteration of the loops, by outcome |
| `Assembler` | `a32_parse` and its actions | `line` is `i`, `mc`, `declared`, `avaddr` are the compiler's; one action per iteration, by kind of command and outcome |
| `Paths` | `path_resolve`, `path_kill_back` | operators on sequences of characters; `Components` is what a path means to the system |
| `Driver` | `main`, `chip32_compiler_build`, `chip32_commands_save`, over several processes with one disk | `opt` the options, `step` the place in `main`, `disk` the images, `saved` the counter of the writing loop; the history `wrote` remembers which program each image was opened for, `before` the disk when the process began. A word of the command line, an `fwrite`, an `fclose` is an action; `Build` is a step of `Assembler`, `Run` one of `Chip32`; `Killed` ends a process anywhere |
| `MC*` | instances for TLC | the images, keys, texts, sources and command lines of the runs |
| `*_proofs` | theorems | |

`Chip32` EXTENDS `Alu`; `Chip32Calls` and `Chip32Programs` compose with `Chip32`;
`RbhashSearch` EXTENDS `Rbhash`, which instantiates `RbhashStore` with the elements of
its slots, of the old table that is still to be moved, and the one that is being
carried, as its collection. `Driver` EXTENDS `Assembler` and `Paths`, and instantiates
`Chip32` on the image that the disk holds, so that what the machine runs is what the
compiler made, the files keep and a crash has left. `Lexer` stands alone: its property
`FitsParser` is what `Assembler` takes for granted of its input.

Undefined behaviour. Where the C program indexes outside an array, traps, writes a cell
twice without sequence, or follows a null or unwritten pointer, the model goes to a
state "undef" and stops: the program may do anything there. Where the build can only
produce a few outcomes (uninitialised memory, the order in which `push` reads its operand
and moves STK, shifts by 32) all of them are choices.

Failures. `EnvFails` and `MallocFails` let the loader, `malloc`, `fopen`, `fread`,
`fwrite` and `fclose` fail. `fwrite` fills the buffer of its stream, so how much of a
program a killed or failing process has put into the file is a choice between nothing
and all that was written. A read error passes for the end of a file in `load_code`, and
for the end of the program in `page_load`: with `EnvFails` a load may stop after any
number of the commands that the image has (`Counts`), the rest of the page is nops, and
the machine ends there as if the program did. A data operand inside the image may fail to
be read as well (`DataWords`), which sets FAIL. `BootLoadFails` and `ReloadFails` are the
loaders that return less than 0, which the contract of `chipLoadData_f` allows; `page_load`
never does, but it ends the process, with the same status, when it cannot seek.
In the parser a malloc that fails ends in a write through NULL (`MemoryUndefined`), in a
name that is refused (`NameRefused`), or - for `nop`, `ret` and `logln`, which do not look
at what `parse_label` returns - in a build that goes on without the label (`LabelLost`).

Abstractions. The size of an `int32_t` is `2^Width`, the registers are three
neighbouring cells REG_PC.. anywhere, 512 is `PageSize`. The page arithmetic of the
code is in 64-bit unsigned numbers, the model's is in integers; for negative
counters they agree when the page size is a power of two, and no program counter
below 0 gets past the comparison with `ncmds` without leaving `data[]` either way.
Names, keys and hashes are values. A character of a source is one of a small alphabet
and counts for its class; a token is its type and where it starts and ends. `Driver`
takes a source as the lines the lexer makes of it, so a source that is cut off loses
whole lines there (cuts within a line are `Lexer`'s). Arguments of nops that fill a
page are never read and start as 0. Output is left out.

## Runs

| run | shows | bounds, and why they are enough |
|---|---|---|
| `alu_laws` | `Closed`, `DivisionLaw`, `RolRotatesLeft` on all pairs of words | 5 bits: negative and positive words, the smallest one, shift counts below, at and above the width |
| `chip32_machine` | `TypeOK`, `Running`, `ExecutesImage`, `NoEarlyStop`, `FirstPageFetches` for every command on every type of operand, in and out of range, on three prepared RAMs, and for programs that fill and overflow a page, with jumps out of it; `StaysDefined`, `KeepsRegisters`, `ForwardHalts` for programs of up to three commands, forward and looping, safe and unsafe. `NoEarlyStop` and `FirstPageFetches` are about loads that no read error has cut short (`Complete`), the others about all | 4-bit words, registers in cells 1-3, pages of five, two junk words; malloc, the loader and every read may fail. Two pages are enough: every page after the first behaves like the second |
| `chip32_calls` | `FramesIntact`, `ReturnsToCaller`, `RetDefined` on all programs of up to four commands of the stack, two of which break the convention | RAM for two frames and a word, so that nesting, recursion, and running out of stack all happen |
| `rbhash_add` | `TypeOK`, `Placed`, `FindsStored`, `KeepsMin`, `ExitsForewarned`, `SearchFindsAll`, `Terminates` while keys are added that collide and that are there already, in tables that grow twice, or fail to, with a search open | up to three elements, with one value as data, in tables of 2 to 8 slots: chains of three, swaps, wrapping around the end, growth under a search; with a growth that fails twice the smallest table fills up and the next add ends the process. New memory holds zeros or garbage |
| `rbhash_store` | the refinement `ImplementsStore`, `CountsLive` and `KeysUnique` under unique adds, removals and free, with failing mallocs and a key that is too long | three elements and two data. k1 and k2 collide and k4 is at home before them, so that removing k4 moves one of them before its home, where no find sees it: it is added a second time, removed once, and freed. Zeroed memory, because `rbhash_free` reads it (see below) |
| `lexer` | `TypeOK`, `WholeText`, `NothingLost`, `LinesAreCommands`, `FitsParser`, `QuotesAgree`, `Ends` on every text of up to three characters after seven beginnings of a line | an alphabet with one character of each class, a zero byte among them; reads in chunks of three, so that a text is shorter than, as long as and longer than one; four tokens a line and room for one command, so that both run out; mallocs and, for two texts, reads fail |
| `chip32_main` | `OnePassSuffices`, `AutoApart`, `VariablesReady`, `BranchesRelative` for sources of every form of line; `DTypeOK`, `ZeroMeansDone`, `FailedBuildKeepsImages`, `ImageOfOneProgram`, `InvocationEnds` for sessions of one or two command lines, right and wrong, with every failure and a kill at every step | 8-bit words, registers in cells 1-3, variables from 4, a page of twelve, one directory of `-i` (two are too many), no HOME. Two processes are enough for an image to be replaced, cut short and run again. Sources of a few lines, in which every form of line meets every other (a name, a redeclaration and a use), and five longer programs that run: variables of each shape, a loop that ends and one that does not, a RAM that is too small and none |
| `chip32_twopages`, `chip32_logsloop`, `rbhash_remove`, `lexer_comment`, `asm_address` | violated: see below | the smallest instance that shows it |

A machine stops, callers of the table may stop calling (or reach `MaxCount`, the
bound on elements), a text, a build and a session end: so the runs say CHECK_DEADLOCK
FALSE, except `alu_laws`. Other bounds: `Sizes` bounds the growth of a table (no run
reaches a table that would have to grow beyond it), `SearchFrom` when a search may begin;
images, texts, sources and sessions bound the programs.

Fairness. `chip32_run`, `a32_lexer` and the parser are loops in one thread that wait for
nothing: `WF_vars(Next)`. A call of the table that has begun runs on, which is
`WF_vars(Step)`; nobody has to make another. In `Driver` it is `WF_dvars(Process)`: no
user has to type another command line (`Invoke`) and no process has to be `Killed`. A run
of the machine ends only for `Forward` programs: with a backward branch it need not, and
that is no flaw, so `InvocationEnds` says of a process only that it ends or comes to run
the machine.

## Where the code and its documents disagree

Each is a run that TLC refutes, with the line of the document in `PROJECT.json`.

* `chip32_twopages`: `jmp r` is to "goto addr". For a command past the first 512 it
  does not: the loader is given the page's number where it expects the address of a
  command (`chip32.c:371`), and `data[]` is indexed with the whole program counter
  (`:380`). In fact no command of a second page is ever executed, which is why
  `ExecutesImage` can hold for images of any length.
* `chip32_logsloop`: `logs` and `strcpy` advance the operands in the loaded page
  itself, so a `logs` in a loop prints from where it last stopped (`chip32.c:263`).
* `asm_address`: `declare x, 7` does not put x at 7. The address is read from the
  text of the name (`c32asmpars.c:43`) and is always 0.
* `rbhash_remove`: after a removal a key that is still stored may not be found.
  `rbhash_swapup` moves one element and leaves its distance as it was (`rbhash.c:244`).
* `lexer_comment`: `declare zero, ?           ; create variable named zero`, the
  README's own example, is refused: after an operand the lexer looks for the end of the
  line without going over blanks (`c32asmlex.c:210`).

The models show more of the kind, which have no run:

* machine: `ror` rotates left (`chip32.c:156`); `strcpy` reads its source with the type
  of its destination (`:274`). A read error in `page_load` (`main.c:191`) passes for the end
  of the program, so that `chip32_run` stops in the middle of the image and returns 0.
* branches: `jmpi 12` is to go to "currentaddress+12" (`README.md:154`, `:158`, `:162`, and
  `chip32.h:58-60`, "goto curaddr+addr"). It goes one command further: the compiler adds
  `mccount` when it has already counted the branch (`c32asmpars.c:481`).
  `BranchesRelative` states what the code does, from the command `Origin`, and that
  nothing between the compiler and the machine disturbs it.
* hash table: `rbhash_free` calls the delete function on slots that were never written
  (`rbhash.c:36`), so with garbage in new memory it deletes what nobody stored; a full
  table ends the process (`:88`) where `rbhash.h:81` says -1, "fail if no space left"
  (`ExitsForewarned` says when that can happen); an add whose growth fails
  returns -1 for an element it has stored (`:139`); growth drops keys that start with
  a 0 byte (`:112`); after a removal `rbhash_add_unique` stores a key again that its find
  misses (`:147`); a search that is continued after NULL counts below 0 and goes round
  the table again, or for ever (`:195`), and one that is continued after a growth reads a
  freed table.
* lexer: a 65th token is written behind its command (`c32asmlex.c:182`); a command at
  the very end of a file, without a newline, is refused (`:194`). With an escaped quote
  the parser, which takes the first quote for the last, sees a shorter string.
* parser: a list with automatic size is always refused (`c32asmpars.c:118`); `push`
  wants two operands (`:543`); every label gets the number of lines as its address
  (`:157`); a size with no value after it is read from a token that was never written
  (`:60`), and a bare `declare` is reported at the place of a token that was never written
  (`:29-33`, printed by `c32asm.c:65`); a `nop`, `ret` or `logln` loses its label, without an
  error, when there is no memory for it (`:337`); a list that begins with a negative number
  moves the next address back (`:120`).
* driver: `path_resolve` does not go back over the first component of a relative path
  (`a/../b` becomes `a/b`), joins `a./b` to `ab`, and makes an empty name of `/a/..`
  (`main.c:95-122`); a read error, or a directory after `-f`, compiles to an image of
  what was read (`:154`); nobody asks `fclose` whether the last bytes were written (`main.c:283`).

## Theorems

All are proved for every value of the constants that the named assumptions allow;
TLC evaluates the assumptions in each run.

`Alu_proofs` has the lemmas on words: `Wrap` is a word and the identity on words, every
command yields words. `BitsComplete` (each set of bits is that of a word) is by least
counterexample over the width, because the induction theorems of the library cannot be
used; that powers of two double is a conjunct of `WidthAssumption`, since `^` has no
definition to unfold. With them `AluLaws_proofs` proves the three laws for every width:
`CommandsAreClosed`, `DivisionIsTruncating`, `RolIsRotation`.

`Chip32_proofs`. `TypeCorrect` and `RegistersInRam` (`TypeOK`, `Running`) are by induction
on `MachineInv`, which is these two: a command finds its registers in RAM because only a
boot that allocated them starts the loop. `ExecutesItsImage`, `OnePageFetches` and
`NeverStopsEarly` need more, `PageInv`: while the loop goes on page 0 is the loaded
page, the first `ncmds` entries of `data` agree with the image, and the command that
runs is one of them. It is an invariant because a counter outside page 0 either ends
the run or leaves `data[]`. `PageInv` and `ExecutesItsImage` hold of every load, also of one
that a read error has cut short; the other two say nothing of those, where the code does
end in the middle of the image.

`Chip32Conventions_proofs` has what programs get for keeping to a convention. For the call
stack: `FramesStay`, `CallersReturn` and `ReturnsDefined`, for every RAM, program and depth
of calls. The invariant `CallsInv` is `FramesIntact` with the order of every two frames in
place of neighbours, without which a new call could not be seen to spare the older ones;
and before boot no call is open. What call and ret do to the cells of RAM is computed once,
in `CalledCells` and `ReturnedCells`. For `SafeImage`: `SafePrograms` stay defined and
(`SafeRegisters`) keep their registers. The invariant `SafeInv` adds that RAM has the size
initr gave it, that STK and FRM are untouched, that the counter is in `0 .. Len(image)`
between commands, and equal to `cur` within one.

`Rbhash_proofs`, module of the table, its searches and its refinement.

* `TypeCorrect` is by `Bounded` and holds with removals: distances stay below the size and
  a probe never leaves the table.
* `TablePlaced` and `KeysFound` are for callers that do not remove (`rbhash_remove` shows
  why). `TableInv` says where each element is: in its slot at the distance it records,
  within `maxdistance`; the carried one at the slot that is being looked at; those of the
  old table with the hash of their key. `KeysFound` follows from it alone, because a find
  looks at `maxdistance + 1` slots from the home.
* `UniqueKeys` needs `Distinct` as well, which takes the table, what is left of the old one
  and the carried element together: no two of them have a key in common. It holds for
  callers of `add_unique` that store no null data, which a find cannot tell from nothing,
  and until the first removal (`Unremoved`): after one a find may miss a key, and the next
  `add_unique` stores it again.
* With removals the proofs rest on what is in the slots and not on what a find sees:
  `Contents` says that every slot in use, wherever it lies, holds an element that somebody
  added, and `Held(A)`, how many elements of a set A there are in the table, waiting in the
  old one and carried, changes by one in an add and in a removal that finds its key, falls
  to 0 in a free and in no other step (`AddHeld`, `RemoveHeld`, `OthersHeld`).
* `CountIsRight`, for keys that do not start with a zero byte, is by induction on
  `Counted`: the elements held are `count`, plus the one that an add has not counted yet.
* `AddFindsRoom` (`ExitsForewarned`), for keys that do not start with a zero byte, is by
  `Room`: whenever a call begins, and while one probes or scans, the table has fewer elements
  than slots, or the last call has returned -1 for want of memory (`Warned`). With `Seen`
  (the slots a probe has gone over are taken, but for one that may have taken
  garbage of the old table) and `CountFits` (there are no more elements than slots) a
  probe that had gone round the table would have found the free one.
* `ShareStaysFree` (`KeepsMin`), for sizes that at least double. Where mallocs succeed it is
  by `Kept`, the share is free between all calls. Where they fail it is by `Settled`: while a
  growth moves its elements, and after an add that returned 0. A growth that follows one
  that failed makes up for it only if less than half of the table is to be free, hence
  `2 * Min < 100` in the property.
* `TableIsStore` is the refinement `Spec => ImplementsStore`: an add is a `Put` at its
  first step, a removal that finds its key a `Drop`, the free a `Clear`, and everything
  else stutters, by `Held({e})` for every element e. That `rbhash_free` deletes the right
  data needs `Cleared`: a slot that is not in use reads as free, so new memory must, or
  was freed by a removal, which leaves its key but no data.
* `SearchReturnsAll` (`SearchFindsAll`): what a search has passed over was returned if it
  matched, and what it has not is within the slots it still counts (`Undisturbed`,
  `Walking`), as long as it has not gone round (`NotRound`). `SearchIsPassive`: the module
  with searches implements the one without.

`Lexer_proofs`, for every text, chunk size and number of tokens and commands. `TypeCorrect`
and `WholeTextRead` are about `load_code`; `CommandsHaveLines`, `FitsTheParser` and
`NothingIsLost` rest on what is known of the tokens found so far: that they end before `at`
(`Behind`), that their lines are the line ends before them and one more (`Numbered`), that
no two commands share a line (`Distinct`) and that every character before `at` is in a
token, a separator or in a comment (`Accounted`).
`ParserFindsQuote` is by `QuotesInv`, the same for the quotes of strings.

`Assembler_proofs`. `TypeCorrect` for the parser, and `VariablesApart`: no two variables
with automatic addresses share a cell, and none lies on a register. `AutoInv` says it for
the names entered so far and that all of them end below `avaddr`; it survives a
declaration because a name is entered once (`Taken`) and `avaddr` then moves by `Span`,
and it allows for the lists with a negative beginning that `AutoApart` excludes.
`OnePassIsEnough`: the commands of a line read with the names so far are those read with
all names, because a name, once entered, keeps its meaning (`PassInv`); that `Before` is a
running total is again by least counterexample.

`Driver_proofs`, for every session of command lines, source, image and failure.
`CompiledVariablesApart` and `CompiledInOnePass` carry `VariablesApart` and
`OnePassIsEnough` over to whatever the program compiles; they need `Parser`, that a
compiler is fresh when a source is loaded. `FailedBuildsAreHarmless` is by `Untouched`:
until a build is done the disk is the one that the process found. `ImagesAreOfOneProgram`
is by `OneProgram`: between opening and closing the output it holds a beginning of `mc`,
and what is saved is not more than `mc`. `StatusIsTrue` (`ZeroMeansDone`) follows a process
from its words to its status: the options are those of the words read so far
(`CommandLine`), each step has done its part (`Compiling`, `Delivered`, `Executed`), and
only the last gives 0. Its two hypotheses are about words: `OperandsApart`, the word after
an option is not an option, and `NamesKept`, a plain word that `main` resolves twice
still names the file it names to the system. They are conditions on `Paths`, whose operators are folds over
characters, so that for given words they are evaluated, not proved; TLC does so for the
words of `MCDriver`.

`SessionTyped` (`DTypeOK`) needs `PathsTyped`, that the operators of `Paths` make sequences
of characters of such sequences, evaluated like `NamesKept`; it is by what `main` has read
(`Words`), the options (`Paths`), the images (`Images`: commands of the machine, also
when a file was cut off, because what is saved is `mc` with its arguments as words) and the
steps (`Steps`).

The last two theorems have no hypotheses, and go from the source to the machine that runs
it, which is the instance `P` of `Chip32_proofs`. Its lemmas hold of the machine of a
session because `main` starts a new one on an image of commands (`Born`, `MachineKnown`,
`Sound`: `MachineInv`, `PageInv` and that `cur` is the counter but in `logs` and `strcpy`,
`CounterInv`). What it executes is the compiled command with its arguments as words
(`ExecutesCompiled`), and that command is what the source says with all names known
(`PassInv`, `CommandAt`, `ValueAt`).

* `BranchesAreRelative`: the command of a branch by `n` is a jump to its own place, `n` and
  one more, from which the machine takes away one and adds it again after the command
  (`JumpGoes`, `BranchGoes`): it counts from the command after the branch.
* `VariablesAreReady`: `VariablesReady` speaks of one place of the counter, and `Filled` of
  every place up to it: what the commands passed so far move to variables with automatic
  addresses is there. One more move keeps that, because the cell it writes is none of
  theirs, nor a register (`AutoInv`, and `FixedCell` for variables at 0). `Filled` holds of
  a machine that has not left the order of its commands, and adds that it executes none
  beyond its counter. TLC found it to be an invariant first, on `MCDriver`.

Only TLC checks

* liveness, which is out of the prover's reach: `ForwardHalts`, `Terminates`, `Ends`,
  `InvocationEnds`.

## Not modelled

* hash functions: the table is modelled for every one; the strings of `core/str.c`, most
  of which nobody calls; printing, dumps, texts and positions of error messages;
* `preprocessing_code` and `path_current_new`, which have no caller; `PATH_MAX`;
* the distance counters and sizes that `rbhash_mem_*` report; keys of length 0;
* what a build that failed leaves in the compiler object, which is freed unread;
* a file that is source and image at once, two processes on one disk, and images cut
  within a command (`page_load` drops the part, as if it was not written); what a read that
  fails within a command leaves in the operands of a nop, which nothing reads.

`AutoApart` and `VariablesReady` exclude lists that begin with a negative number, which
the code takes for their size: there variables do overlap. `VariablesReady` also excludes
lists at an asked address, which is always 0, that reach the registers, and sources with so
many variables that their addresses are no words any more. `rbhash_store` removes, but asks
of the table only that it holds its elements, not that it finds them. `QuotesAgree` says
where lexer and parser agree on the end of a string: where nothing in it is escaped.

## Plan

1. `Assembler` on the tokens that `Lexer` makes of a text, instead of on lines.
2. What a find still sees after removals: the keys whose chains no removal has touched.
