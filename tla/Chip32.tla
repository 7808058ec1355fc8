-------------------------------- MODULE Chip32 --------------------------------
(***************************************************************************)
(* The chip32 virtual machine (core/chip32.c): chip32_run loads the first  *)
(* page of an image, allocates the RAM its initr command asks for, and     *)
(* then repeats: find the page of the program counter, stop past the last  *)
(* command of that page, dispatch the command, increment the counter.      *)
(*                                                                         *)
(* One action is one iteration of a loop of the code: a fetch, a command,  *)
(* or one character of logs and strcpy, whose loops go on in "exec".       *)
(* Undefined behaviour of the C program (an index outside ram[] or data[], *)
(* a trapping division, unsequenced writes of one cell) sends the machine  *)
(* to ctl = "undef", about which nothing more is said.                     *)
(***************************************************************************)
EXTENDS Alu, Sequences

CONSTANTS
  REG_PC, REG_STK, REG_FRM,  \* the cells of RAM that hold registers: 32..34
  PageSize,                  \* commands in data[]: 512 in main.c
  Images,                    \* the images the machine may be asked to run
  Junk,                      \* what uninitialised memory may read as
  EnvFails                   \* may malloc, the loader and its reads fail?

Types == {"literal", "ram", "ptr", "data"}

CommandNames ==
  {"nop", "move", "jmp", "ift", "iff", "call", "ret", "push", "pop", "initr",
   "logi", "logu", "logc", "logs", "logln", "strcpy"} \cup BinaryOps \cup UnaryOps

Command == [cmd : CommandNames, t0 : Types, t1 : Types, a0 : Word, a1 : Word]

ASSUME RegisterAssumption ==
  /\ REG_PC \in Nat /\ REG_STK = REG_PC + 1 /\ REG_FRM = REG_PC + 2
  /\ REG_FRM < Half

Registers == {REG_PC, REG_STK, REG_FRM}

ASSUME MachineAssumption ==
  /\ PageSize \in Nat \ {0} /\ PageSize < Half
  /\ Images \subseteq Seq(Command)
  /\ Junk \subseteq Word /\ Junk # {}
  /\ EnvFails \in BOOLEAN

VARIABLES
  image,         \* the commands of the file behind dataCtx
  ram,           \* c->ram, a function on 0..ramsize-1, empty while NULL
  data,          \* c->data
  ncmds,         \* commands of data[] that the last load filled
  pagecurrent,   \* c->pagecurrent
  state,         \* c->state: "run" (0) or "fail" (0xFF)
  ctl,           \* where chip32_run is
  cur            \* index in data[] of the command being executed

vars == <<image, ram, data, ncmds, pagecurrent, state, ctl, cur>>

-----------------------------------------------------------------------------
(* The loader: page_load reads up to PageSize commands starting at command *)
(* `addr', until a read fails, and turns the entries of data[] it did not  *)
(* fill into nops. It does not ask why the read failed: an error passes    *)
(* for the end of the file, after any number of commands. (What a read     *)
(* that fails within a command leaves in the operands of the nop is not    *)
(* modelled: they are loaded anew before they are used.)                   *)

MutAvailable(addr) == IF addr >= Len(image) THEN 0 ELSE Len(image) - addr

(* How many commands the image has for such a page.                        *)
Available(addr) ==
  IF addr >= Len(image) THEN 0
  ELSE IF Len(image) - addr < PageSize THEN Len(image) - addr ELSE PageSize

(* How many of them page_load may return.                                  *)
Counts(addr) == IF EnvFails THEN 0 .. Available(addr) ELSE {Available(addr)}

PageLoad(addr, n) ==
  [i \in 0 .. PageSize - 1 |->
     IF i < n THEN image[addr + i + 1] ELSE [data[i] EXCEPT !.cmd = "nop"]]

Load(addr) == \E n \in Counts(addr) : data' = PageLoad(addr, n) /\ ncmds' = n

-----------------------------------------------------------------------------
(* Operands. Cells is the cell a RAM or pointer operand names, or nothing  *)
(* when the address lies outside ram[].                                    *)

Cells(m, t, r) ==
  IF t = "ram" THEN {r} \cap DOMAIN m
  ELSE {m[x] : x \in {r} \cap DOMAIN m} \cap DOMAIN m

Value(w, ok) == [word |-> w, ok |-> ok]

Outcome(m, ok) == [ram |-> m, ok |-> ok]

(* A data operand is arg0 of command r of the image. Past the end, or      *)
(* after a read error, FAIL is set; the word is then the uninitialised j,  *)
(* or arg0 if the read failed behind it.                                   *)
DataWords(r, j) ==
  LET stored == {image[n].a0 : n \in {Unsigned(r) + 1} \cap DOMAIN image}
  IN  {Value(w, TRUE) : w \in stored}
        \cup {Value(w, FALSE) : w \in IF stored = {} THEN {j}
                                      ELSE IF EnvFails THEN stored \cup {j} ELSE {}}

(* chip32_getword                                                          *)
GetWord(m, t, r, j) ==
  CASE t = "literal" -> {Value(r, TRUE)}
    [] t = "data" -> DataWords(r, j)
    [] OTHER -> {Value(m[x], TRUE) : x \in Cells(m, t, r)}

(* chip32_setword: literals and data are not assignable.                   *)
SetWord(m, t, r, v) ==
  IF t \in {"ram", "ptr"}
  THEN {Outcome([m EXCEPT ![x] = v.word], v.ok) : x \in Cells(m, t, r)}
  ELSE {Outcome(m, FALSE)}

Store(m, t, r, values) == UNION {SetWord(m, t, r, v) : v \in values}

(* The values of `op' on the words its operands read.                      *)
UnaryValues(op, A) == UNION {{Value(w, a.ok) : w \in Unary(op, a.word)} : a \in A}

BinaryValues(op, A, B) ==
  UNION {UNION {{Value(w, a.ok /\ b.ok) : w \in Binary(op, a.word, b.word)} : b \in B} :
           a \in A}

(* || and && leave the second operand unread when the first one decides.   *)
Decides(op, a) == (op = "bor" /\ a.word # 0) \/ (op = "band" /\ a.word = 0)

ShortCircuit(op, A, B) ==
  {Value(Truth(op = "bor"), a.ok) : a \in {x \in A : Decides(op, x)}}
    \cup BinaryValues(op, {x \in A : ~Decides(op, x)}, B)

-----------------------------------------------------------------------------
(* The stack grows down from the top of RAM; STK is the next free cell.    *)
(* A push or pop that hits the cell of STK itself is unsequenced in C.     *)

PushWord(m, w) ==
  {[m EXCEPT ![s] = w, ![REG_STK] = Wrap(s - 1)] :
     s \in {m[REG_STK]} \cap (DOMAIN m \ {REG_STK})}

(* The RAM with STK incremented, provided the cell it then names exists.   *)
Popped(m) ==
  LET s == Wrap(m[REG_STK] + 1)
  IN  IF s \in DOMAIN m \ {REG_STK} THEN {[m EXCEPT ![REG_STK] = s]} ELSE {}

Top(m) == m[m[REG_STK]]

MutCalled(m, v) ==
  {[q EXCEPT ![REG_FRM] = q[REG_STK], ![REG_PC] = Wrap(v.word - 1)] :
     q \in UNION {PushWord(p, p[REG_PC]) : p \in PushWord(m, m[REG_FRM])}}

Called(m, v) ==
  {[q EXCEPT ![REG_FRM] = q[REG_STK], ![REG_PC] = Wrap(v.word - 1)] :
     q \in UNION {PushWord(p, p[REG_FRM]) : p \in PushWord(m, m[REG_PC])}}

MutReturnedInPlace(m) ==
  {[q EXCEPT ![REG_PC] = Top(q)] :
     q \in UNION {Popped([p EXCEPT ![REG_FRM] = Top(p)]) : p \in Popped(m)}}

MutReturnedStraight(m) ==
  {[q EXCEPT ![REG_PC] = Top(q)] : q \in Popped([m EXCEPT ![REG_STK] = m[REG_FRM]])}

Returned(m) ==
  {[q EXCEPT ![REG_PC] = Top(q)] :
     q \in UNION {Popped([p EXCEPT ![REG_FRM] = Top(p)]) :
                    p \in Popped([m EXCEPT ![REG_STK] = m[REG_FRM]])}}

-----------------------------------------------------------------------------
Init ==
  /\ image \in Images
  /\ ram = <<>>
  /\ data = [i \in 0 .. PageSize - 1 |->
               [cmd |-> "nop", t0 |-> "literal", t1 |-> "literal", a0 |-> 0, a1 |-> 0]]
  /\ ncmds = 0 /\ pagecurrent = 0
  /\ state = "run" /\ ctl = "boot" /\ cur = 0

Fail == state' = "fail" /\ ctl' = "stopped"

Undefined == ctl' = "undef" /\ UNCHANGED <<ram, state>>

(* chip32_run up to its loop. A loader may return less than 0; page_load   *)
(* ends the process instead, when it cannot seek, with the same status.    *)
BootLoadFails ==
  /\ ctl = "boot" /\ EnvFails
  /\ Fail
  /\ UNCHANGED <<image, ram, data, ncmds, pagecurrent, cur>>

LoadFirstPage ==
  /\ ctl = "boot"
  /\ Load(0) /\ pagecurrent' = 0
  /\ UNCHANGED <<image, cur>>

BootRefused ==
  /\ LoadFirstPage
  /\ data'[0].cmd # "initr" \/ data'[0].a0 = 0 \/ EnvFails   \* or malloc fails
  /\ Fail /\ UNCHANGED ram

(* chip32_cmd_initr: every operand but 0 is a size, read as uint32_t.      *)
BootInitr ==
  /\ LoadFirstPage
  /\ data'[0].cmd = "initr" /\ data'[0].a0 # 0
  /\ LET ramsize == Unsigned(data'[0].a0)
         last == Wrap(ramsize - 1)
     IN  \/ /\ ramsize <= REG_FRM
            /\ Undefined
         \/ /\ ramsize > REG_FRM
            /\ \E m \in [0 .. ramsize - 1 -> Junk] :
                 ram' = [m EXCEPT ![REG_PC] = 1, ![REG_STK] = last, ![REG_FRM] = last]
            /\ ctl' = "fetch" /\ UNCHANGED state

-----------------------------------------------------------------------------
(* The head of the loop of chip32_run. page is passed to the loader as it  *)
(* is, and the command is taken from data[pc].                             *)

pc == ram[REG_PC]

MutPage == pc % (2 * Half)

Page == (pc \div PageSize) % (2 * Half)

ReloadFails ==
  /\ ctl = "fetch" /\ EnvFails /\ Page # pagecurrent
  /\ pagecurrent' = Page
  /\ Fail
  /\ UNCHANGED <<image, ram, data, ncmds, cur>>

Reload ==
  IF Page = pagecurrent
  THEN UNCHANGED <<data, ncmds, pagecurrent>>
  ELSE Load(Page) /\ pagecurrent' = Page

MutPastEndLate(n) == CRem(pc, PageSize) > n

MutPastEndEarly(n) == CRem(pc, PageSize) >= n - 1

(* The counter is past the last of the n commands of its page.             *)
PastEnd(n) == CRem(pc, PageSize) >= n

Fetch ==
  /\ ctl = "fetch"
  /\ Reload
  /\ \/ PastEnd(ncmds') /\ ctl' = "stopped" /\ cur' = cur
     \/ /\ ~PastEnd(ncmds')
        /\ IF pc \in DOMAIN data THEN ctl' = "exec" /\ cur' = pc
                                  ELSE ctl' = "undef" /\ cur' = cur
  /\ UNCHANGED <<image, ram, state>>

-----------------------------------------------------------------------------
(* The commands. pcmd is the command chip32_run passes to its function;    *)
(* Arg0 and Arg1 are what its operands read, j standing for uninitialised  *)
(* memory. No outcome at all means the command is undefined.               *)

pcmd == data[cur]

Arg0(j) == GetWord(ram, pcmd.t0, pcmd.a0, j)

Arg1(j) == GetWord(ram, pcmd.t1, pcmd.a1, j)

Executing(ops) == ctl = "exec" /\ pcmd.cmd \in ops

MutRetireRunsOn(m, ok) ==
  /\ ram' = [m EXCEPT ![REG_PC] = Wrap(@ + 1)]
  /\ state' = IF ok THEN state ELSE "fail"
  /\ ctl' = "fetch"

MutRetireStays(m, ok) ==
  /\ ram' = m
  /\ state' = IF ok THEN state ELSE "fail"
  /\ ctl' = IF state' = "fail" THEN "stopped" ELSE "fetch"

(* The end of a command: ++c->ram[CHIP32_REG_PC] and the loop's condition. *)
Retire(m, ok) ==
  /\ ram' = [m EXCEPT ![REG_PC] = Wrap(@ + 1)]
  /\ state' = IF ok THEN state ELSE "fail"
  /\ ctl' = IF state' = "fail" THEN "stopped" ELSE "fetch"

Finish(outcomes) ==
  /\ \/ outcomes = {} /\ Undefined
     \/ \E o \in outcomes : Retire(o.ram, o.ok)
  /\ UNCHANGED <<image, data, ncmds, pagecurrent, cur>>

Nop == Executing({"nop", "logln"}) /\ Finish({Outcome(ram, TRUE)})

Move ==
  /\ Executing({"move"})
  /\ \E j \in Junk : Finish(Store(ram, pcmd.t0, pcmd.a0, Arg1(j)))

UnaryCmd ==
  /\ Executing(UnaryOps)
  /\ \E j \in Junk :
       Finish(Store(ram, pcmd.t0, pcmd.a0, UnaryValues(pcmd.cmd, Arg0(j))))

BinaryCmd ==
  /\ Executing(BinaryOps \ {"bor", "band"})
  /\ \E j, k \in Junk :
       Finish(Store(ram, pcmd.t0, pcmd.a0, BinaryValues(pcmd.cmd, Arg0(j), Arg1(k))))

LogicCmd ==
  /\ Executing({"bor", "band"})
  /\ \E j, k \in Junk :
       Finish(Store(ram, pcmd.t0, pcmd.a0, ShortCircuit(pcmd.cmd, Arg0(j), Arg1(k))))

MutJump(m, v) == Outcome([m EXCEPT ![REG_PC] = v.word], v.ok)

Jump(m, v) == Outcome([m EXCEPT ![REG_PC] = Wrap(v.word - 1)], v.ok)

Jmp == Executing({"jmp"}) /\ \E j \in Junk : Finish({Jump(ram, v) : v \in Arg0(j)})

(* ift goes on to the next command when its operand is not 0, iff when it  *)
(* is 0; otherwise they jump to their second operand.                      *)
Falls(v) == (v.word # 0) <=> (pcmd.cmd = "ift")

Branch(j, k) ==
  {Outcome(ram, v.ok) : v \in {x \in Arg0(j) : Falls(x)}} \cup
  UNION {{Jump(ram, Value(t.word, v.ok /\ t.ok)) : t \in Arg1(k)} :
           v \in {x \in Arg0(j) : ~Falls(x)}}

If == Executing({"ift", "iff"}) /\ \E j, k \in Junk : Finish(Branch(j, k))

Call ==
  /\ Executing({"call"})
  /\ \E j \in Junk :
       Finish(UNION {{Outcome(m, v.ok) : m \in Called(ram, v)} : v \in Arg0(j)})

Ret == Executing({"ret"}) /\ Finish({Outcome(m, TRUE) : m \in Returned(ram)})

(* The operand may be read before or after STK is decremented.             *)
Push ==
  /\ Executing({"push"})
  /\ \E j \in Junk, m \in {ram, [ram EXCEPT ![REG_STK] = Wrap(@ - 1)]} :
       Finish(UNION {{Outcome(q, v.ok) : q \in PushWord(ram, v.word)} :
                      v \in GetWord(m, pcmd.t0, pcmd.a0, j)})

Pop ==
  /\ Executing({"pop"})
  /\ Finish(UNION {SetWord(m, pcmd.t0, pcmd.a0, Value(Top(m), TRUE)) : m \in Popped(ram)})

Initr == Executing({"initr"}) /\ Finish({Outcome(ram, FALSE)})   \* only at boot

LogWord ==
  /\ Executing({"logi", "logu", "logc"})
  /\ \E j \in Junk : Finish({Outcome(ram, v.ok) : v \in Arg0(j)})

-----------------------------------------------------------------------------
(* logs and strcpy advance the operands stored in data[] itself, character *)
(* by character, until they meet a 0; FAIL does not end their loops.       *)

Continue(m, ok) ==
  /\ ram' = m
  /\ state' = IF ok THEN state ELSE "fail"
  /\ ctl' = ctl

Character(v, m, ok) == IF v.word = 0 THEN Retire(m, ok) ELSE Continue(m, ok)

Logs ==
  /\ Executing({"logs"})
  /\ \E j \in Junk :
       \/ Arg0(j) = {} /\ Undefined
       \/ \E v \in Arg0(j) : Character(v, ram, v.ok)
  /\ data' = [data EXCEPT ![cur].a0 = Wrap(@ + 1)]
  /\ UNCHANGED <<image, ncmds, pagecurrent, cur>>

(* The type of the source is taken from the flags of the destination.      *)
Strcpy ==
  /\ Executing({"strcpy"})
  /\ \E j \in Junk :
       LET source == GetWord(ram, pcmd.t0, pcmd.a1, j)
       IN  \/ Store(ram, pcmd.t0, pcmd.a0, source) = {} /\ Undefined
           \/ \E v \in source : \E o \in SetWord(ram, pcmd.t0, pcmd.a0, v) :
                Character(v, o.ram, o.ok)
  /\ data' = [data EXCEPT ![cur].a0 = Wrap(@ + 1), ![cur].a1 = Wrap(@ + 1)]
  /\ UNCHANGED <<image, ncmds, pagecurrent, cur>>

-----------------------------------------------------------------------------
Next ==
  \/ BootLoadFails \/ BootRefused \/ BootInitr
  \/ ReloadFails \/ Fetch
  \/ Nop \/ Move \/ UnaryCmd \/ BinaryCmd \/ LogicCmd
  \/ Jmp \/ If \/ Call \/ Ret \/ Push \/ Pop
  \/ Initr \/ LogWord \/ Logs \/ Strcpy

(* chip32_run is one thread that does not wait: it always takes its next   *)
(* step.                                                                   *)
Spec == Init /\ [][Next]_vars /\ WF_vars(Next)

-----------------------------------------------------------------------------
(* The machine is well typed: RAM is empty or covers 0..ramsize-1, every   *)
(* cell holds a word, and c->data keeps its pagesize entries.              *)
TypeOK ==
  /\ image \in Seq(Command)
  /\ DOMAIN ram \in {0 .. n - 1 : n \in 0 .. 2 * Half - 1}
  /\ ram \in [DOMAIN ram -> Word]
  /\ data \in [0 .. PageSize - 1 -> Command]
  /\ ncmds \in 0 .. PageSize
  /\ pagecurrent \in 0 .. 2 * Half - 1
  /\ state \in {"run", "fail"}
  /\ ctl \in {"boot", "fetch", "exec", "stopped", "undef"}
  /\ cur \in 0 .. PageSize - 1

Scans == {"logs", "strcpy"}

(* chip32_run never touches the registers of a RAM it does not have, and   *)
(* once the machine is in FAIL nothing is executed any more, except that   *)
(* the loops of logs and strcpy go on to the end of their string.          *)
Running ==
  /\ ctl \in {"fetch", "exec"} => REG_FRM \in DOMAIN ram
  /\ state = "fail" => \/ ctl \in {"stopped", "undef"}
                       \/ ctl = "exec" /\ pcmd.cmd \in Scans

(* Same command, same operand types, and the same operands unless the      *)
(* command is one that advances its own operands.                          *)
Agrees(c, d) ==
  /\ c.cmd = d.cmd /\ c.t0 = d.t0 /\ c.t1 = d.t1
  /\ c.cmd \notin Scans => c = d

(* Whatever the program does to its RAM and to its program counter, and    *)
(* whichever page was loaded, a command that is executed is the command of *)
(* the image at the index it was fetched from (chip32_run's data[pc] with  *)
(* page_load's offsets): stale or padded entries of data[] are never run.  *)
ExecutesImage ==
  ctl = "exec" => cur < Len(image) /\ Agrees(data[cur], image[cur + 1])

(* data[] holds all that the image has for its page: the last load met no  *)
(* read error.                                                             *)
Complete == ncmds = Available(pagecurrent)

(* A program counter that is the address of a command of the first page    *)
(* leads to that command, from wherever a jump, call or return set it and  *)
(* whatever was loaded in between - unless the load of the page was cut    *)
(* short by a read error, which page_load does not tell from the end.      *)
FirstPageFetches ==
  [][ctl = "fetch" /\ pc \in 0 .. Len(image) - 1 /\ pc < PageSize /\ Complete'
       => ctl' = "exec" /\ cur' = pc]_vars

(* chip32.h: `jmp r ; goto addr'. A program counter that is the address of *)
(* a command leads to that command.                                        *)
FetchesAddressed ==
  [][ctl = "fetch" /\ pc \in 0 .. Len(image) - 1
       => ctl' = "exec" /\ cur' = pc]_vars

(* chip32_run ends normally only when the program counter is the address   *)
(* of no command, or a read error cut the load of its page short (it then  *)
(* returns 0 in the middle of the image, as for the end of the program).   *)
NoEarlyStop ==
  [][ctl = "fetch" /\ ctl' = "stopped" /\ state' = "run" /\ Complete'
       => pc \notin 0 .. Len(image) - 1]_vars

(* chip32.h: `logs r ; printf("%s", r)'. A command starts with the operands *)
(* that the image gives it.                                                *)
RunsWrittenOperands ==
  [][ctl = "fetch" /\ ctl' = "exec" => data'[cur'] = image[pc + 1]]_vars
=============================================================================
