---------------------------- MODULE Chip32_proofs -----------------------------
(* Type correctness of the machine, and what it executes, for every word   *)
(* width, page size, set of images and content of uninitialised memory.    *)
EXTENDS Chip32, Alu_proofs

Values == [word : Word, ok : BOOLEAN]

Memory(m) == m \in [DOMAIN m -> Word]

Outcomes(m) == [ram : [DOMAIN m -> Word], ok : BOOLEAN]

-----------------------------------------------------------------------------
(* Operands and memory. *)

(* The operands of a typed command are words. *)
LEMMA CommandFields ==
  ASSUME NEW c \in Command
  PROVE  c.cmd \in CommandNames /\ c.t0 \in Types /\ c.t1 \in Types
         /\ c.a0 \in Word /\ c.a1 \in Word
  BY DEF Command

(* What an operand reads, and what a command leaves, are records of their  *)
(* type. *)
LEMMA RecordTypes ==
  /\ \A w \in Word, ok \in BOOLEAN : Value(w, ok) \in Values
  /\ \A v \in Values : v.word \in Word /\ v.ok \in BOOLEAN
  /\ \A m : \A q \in [DOMAIN m -> Word], ok \in BOOLEAN : Outcome(q, ok) \in Outcomes(m)
  /\ \A m : \A o \in Outcomes(m) : o.ram \in [DOMAIN m -> Word] /\ o.ok \in BOOLEAN
  BY DEF Values, Value, Outcome, Outcomes

(* chip32_getword returns words. *)
LEMMA GetWordType ==
  ASSUME NEW m, Memory(m), NEW t, NEW r \in Word, NEW j \in Word, image \in Seq(Command)
  PROVE  GetWord(m, t, r, j) \subseteq Values
  <1>1. CASE t = "literal"
    BY <1>1, RecordTypes DEF GetWord
  <1>2. CASE t = "data"
    <2>1. \A n \in DOMAIN image : image[n] \in Command
      OBVIOUS
    <2>2. \A n \in DOMAIN image : image[n].a0 \in Word
      BY <2>1, CommandFields
    <2> DEFINE stored == {image[n].a0 : n \in {Unsigned(r) + 1} \cap DOMAIN image}
    <2>3. stored \subseteq Word
      BY <2>2
    <2>4. DataWords(r, j) =
            {Value(w, TRUE) : w \in stored}
              \cup {Value(w, FALSE) : w \in IF stored = {} THEN {j}
                                            ELSE IF EnvFails THEN stored \cup {j} ELSE {}}
      BY DEF DataWords
    <2> HIDE DEF stored
    <2>5. \A w \in Word : Value(w, TRUE) \in Values /\ Value(w, FALSE) \in Values
      BY RecordTypes
    <2>6. DataWords(r, j) \subseteq Values
      BY <2>3, <2>4, <2>5
    <2> QED
      BY <1>2, <2>6 DEF GetWord
  <1>3. CASE t \notin {"literal", "data"}
    <2>1. Cells(m, t, r) \subseteq DOMAIN m
      BY DEF Cells
    <2>2. GetWord(m, t, r, j) = {Value(m[x], TRUE) : x \in Cells(m, t, r)}
      BY <1>3 DEF GetWord
    <2>3. \A x \in Cells(m, t, r) : m[x] \in Word
      BY <2>1 DEF Memory
    <2> QED
      BY <2>2, <2>3, RecordTypes
  <1> QED
    BY <1>1, <1>2, <1>3

(* chip32_setword keeps RAM a RAM of the same size. *)
LEMMA StoreType ==
  ASSUME NEW m, Memory(m), NEW t, NEW r, NEW values \in SUBSET Values
  PROVE  Store(m, t, r, values) \subseteq Outcomes(m)
  <1>1. ASSUME NEW v \in Values PROVE SetWord(m, t, r, v) \subseteq Outcomes(m)
    <2>1. Cells(m, t, r) \subseteq DOMAIN m
      BY DEF Cells
    <2>2. v.word \in Word /\ v.ok \in BOOLEAN
      BY RecordTypes
    <2>3. \A x \in DOMAIN m : [m EXCEPT ![x] = v.word] \in [DOMAIN m -> Word]
      BY <2>2 DEF Memory
    <2>4. m \in [DOMAIN m -> Word]
      BY DEF Memory
    <2>5. \A x \in Cells(m, t, r) : Outcome([m EXCEPT ![x] = v.word], v.ok) \in Outcomes(m)
      BY <2>1, <2>2, <2>3, RecordTypes
    <2>6. Outcome(m, FALSE) \in Outcomes(m)
      BY <2>4, RecordTypes
    <2> QED
      BY <2>5, <2>6 DEF SetWord
  <1> QED
    BY <1>1 DEF Store

(* The values of unary, binary and logical commands are values. *)
LEMMA ValuesType ==
  ASSUME NEW as \in SUBSET Values, NEW bs \in SUBSET Values
  PROVE  /\ \A op \in UnaryOps : UnaryValues(op, as) \subseteq Values
         /\ \A op \in BinaryOps : BinaryValues(op, as, bs) \subseteq Values
         /\ \A op \in {"bor", "band"} : ShortCircuit(op, as, bs) \subseteq Values
  <1>1. ASSUME NEW op \in UnaryOps PROVE UnaryValues(op, as) \subseteq Values
    <2>1. \A a \in as : Unary(op, a.word) \subseteq Word /\ a.ok \in BOOLEAN
      BY UnaryWords, RecordTypes
    <2>2. \A a \in as : \A w \in Unary(op, a.word) : Value(w, a.ok) \in Values
      BY <2>1, RecordTypes
    <2>3. ASSUME NEW v \in UnaryValues(op, as) PROVE v \in Values
      <3>1. PICK a \in as : v \in {Value(w, a.ok) : w \in Unary(op, a.word)}
        BY DEF UnaryValues
      <3>2. PICK w \in Unary(op, a.word) : v = Value(w, a.ok)
        BY <3>1
      <3> QED
        BY <2>2, <3>2
    <2> QED
      BY <2>3
  <1>2. ASSUME NEW op \in BinaryOps, NEW cs \in SUBSET Values
        PROVE  BinaryValues(op, cs, bs) \subseteq Values
    <2>1. \A a \in cs, b \in bs :
            Binary(op, a.word, b.word) \subseteq Word /\ (a.ok /\ b.ok) \in BOOLEAN
      BY BinaryWords, RecordTypes
    <2>2. \A a \in cs, b \in bs : \A w \in Binary(op, a.word, b.word) :
            Value(w, a.ok /\ b.ok) \in Values
      BY <2>1, RecordTypes
    <2>3. ASSUME NEW v \in BinaryValues(op, cs, bs) PROVE v \in Values
      <3>1. PICK a \in cs, b \in bs :
              v \in {Value(w, a.ok /\ b.ok) : w \in Binary(op, a.word, b.word)}
        BY DEF BinaryValues
      <3>2. PICK w \in Binary(op, a.word, b.word) : v = Value(w, a.ok /\ b.ok)
        BY <3>1
      <3> QED
        BY <2>2, <3>2
    <2> QED
      BY <2>3
  <1>3. ASSUME NEW op \in {"bor", "band"} PROVE ShortCircuit(op, as, bs) \subseteq Values
    <2>1. Truth(op = "bor") \in Word
      BY HalfPositive DEF Word, Truth
    <2>2. op \in BinaryOps /\ {x \in as : ~Decides(op, x)} \in SUBSET Values
      BY DEF BinaryOps
    <2>3. BinaryValues(op, {x \in as : ~Decides(op, x)}, bs) \subseteq Values
      BY <1>2, <2>2
    <2>4. \A a \in as : Value(Truth(op = "bor"), a.ok) \in Values
      BY <2>1, RecordTypes
    <2> QED
      BY <2>3, <2>4 DEF ShortCircuit
  <1> QED
    BY <1>1, <1>2, <1>3

(* Pushing a word keeps RAM a RAM of the same size, and so do popping,     *)
(* chip32_cmd_call and chip32_cmd_ret. *)
LEMMA StackType ==
  ASSUME NEW m, Memory(m), REG_FRM \in DOMAIN m, REG_STK \in DOMAIN m, REG_PC \in DOMAIN m
  PROVE  /\ \A w \in Word : PushWord(m, w) \subseteq [DOMAIN m -> Word]
         /\ Popped(m) \subseteq [DOMAIN m -> Word]
         /\ \A q \in Popped(m) : Top(q) \in Word
         /\ \A v \in Values : Called(m, v) \subseteq [DOMAIN m -> Word]
         /\ Returned(m) \subseteq [DOMAIN m -> Word]
  <1>1. ASSUME NEW p \in [DOMAIN m -> Word], NEW w \in Word
        PROVE  PushWord(p, w) \subseteq [DOMAIN m -> Word]
    <2>1. Wrap(p[REG_STK] - 1) \in Word
      BY WrapWord, HalfPositive DEF Word
    <2> QED
      BY <2>1 DEF PushWord
  <1>2. ASSUME NEW p \in [DOMAIN m -> Word]
        PROVE  /\ Popped(p) \subseteq [DOMAIN m -> Word]
               /\ \A q \in Popped(p) : Top(q) \in Word
    <2>1. Wrap(p[REG_STK] + 1) \in Word
      BY WrapWord, HalfPositive DEF Word
    <2> QED
      BY <2>1 DEF Popped, Top
  <1>3. ASSUME NEW v \in Values PROVE Called(m, v) \subseteq [DOMAIN m -> Word]
    <2>1. Wrap(v.word - 1) \in Word
      BY WrapWord, HalfPositive, RecordTypes DEF Word
    <2>2. PushWord(m, m[REG_PC]) \subseteq [DOMAIN m -> Word]
      BY <1>1 DEF Memory
    <2>3. \A p \in PushWord(m, m[REG_PC]) : PushWord(p, p[REG_FRM]) \subseteq [DOMAIN m -> Word]
      BY <1>1, <2>2
    <2>4. ASSUME NEW p \in PushWord(m, m[REG_PC]), NEW q \in PushWord(p, p[REG_FRM])
          PROVE  [q EXCEPT ![REG_FRM] = q[REG_STK], ![REG_PC] = Wrap(v.word - 1)]
                   \in [DOMAIN m -> Word]
      BY <2>1, <2>3, <2>4
    <2>5. ASSUME NEW r \in Called(m, v) PROVE r \in [DOMAIN m -> Word]
      <3>1. PICK q \in UNION {PushWord(p, p[REG_FRM]) : p \in PushWord(m, m[REG_PC])} :
              r = [q EXCEPT ![REG_FRM] = q[REG_STK], ![REG_PC] = Wrap(v.word - 1)]
        BY DEF Called
      <3>2. PICK p \in PushWord(m, m[REG_PC]) : q \in PushWord(p, p[REG_FRM])
        OBVIOUS
      <3> QED
        BY <2>4, <3>1, <3>2
    <2> QED
      BY <2>5
  <1>4. Returned(m) \subseteq [DOMAIN m -> Word]
    <2>1. [m EXCEPT ![REG_STK] = m[REG_FRM]] \in [DOMAIN m -> Word]
      BY DEF Memory
    <2>2. ASSUME NEW p \in Popped([m EXCEPT ![REG_STK] = m[REG_FRM]]),
                 NEW q \in Popped([p EXCEPT ![REG_FRM] = Top(p)])
          PROVE  [q EXCEPT ![REG_PC] = Top(q)] \in [DOMAIN m -> Word]
      <3>1. p \in [DOMAIN m -> Word] /\ Top(p) \in Word
        BY <1>2, <2>1, <2>2
      <3>2. [p EXCEPT ![REG_FRM] = Top(p)] \in [DOMAIN m -> Word]
        BY <3>1
      <3>3. q \in [DOMAIN m -> Word] /\ Top(q) \in Word
        BY <1>2, <2>2, <3>2
      <3> QED
        BY <3>3
    <2>3. ASSUME NEW r \in Returned(m) PROVE r \in [DOMAIN m -> Word]
      <3>1. PICK q \in UNION {Popped([p EXCEPT ![REG_FRM] = Top(p)]) :
                              p \in Popped([m EXCEPT ![REG_STK] = m[REG_FRM]])} :
              r = [q EXCEPT ![REG_PC] = Top(q)]
        BY DEF Returned
      <3>2. PICK p \in Popped([m EXCEPT ![REG_STK] = m[REG_FRM]]) :
              q \in Popped([p EXCEPT ![REG_FRM] = Top(p)])
        OBVIOUS
      <3> QED
        BY <2>2, <3>1, <3>2
    <2> QED
      BY <2>3
  <1> QED
    BY <1>1, <1>2, <1>3, <1>4 DEF Memory

-----------------------------------------------------------------------------
(* Pages. *)

(* A load fills at most a page, with commands. *)
LEMMA PageLoadType ==
  ASSUME TypeOK, NEW addr \in Nat, Load(addr)
  PROVE  ncmds' \in 0 .. PageSize /\ data' \in [0 .. PageSize - 1 -> Command]
  <1>1. image \in Seq(Command) /\ Len(image) \in Nat
    BY MachineAssumption DEF TypeOK
  <1>2. /\ Available(addr) \in 0 .. PageSize
        /\ 0 < Available(addr) => Available(addr) <= Len(image) - addr
    BY <1>1, MachineAssumption DEF Available
  <1>3. PICK n \in 0 .. Available(addr) : data' = PageLoad(addr, n) /\ ncmds' = n
    BY <1>2 DEF Load, Counts
  <1>4. ASSUME NEW i \in 0 .. PageSize - 1, i < n
        PROVE  image[addr + i + 1] \in Command
    <2>1. addr + i + 1 \in 1 .. Len(image)
      BY <1>1, <1>2, <1>3, <1>4, MachineAssumption
    <2> QED
      BY <1>1, <2>1
  <1>5. ASSUME NEW i \in 0 .. PageSize - 1
        PROVE  [data[i] EXCEPT !.cmd = "nop"] \in Command
    BY DEF TypeOK, Command, CommandNames
  <1>6. PageLoad(addr, n) \in [0 .. PageSize - 1 -> Command]
    BY <1>4, <1>5 DEF PageLoad
  <1> QED
    BY <1>2, <1>3, <1>6, MachineAssumption

(* The page of a program counter is a uint32_t. *)
LEMMA PageType == ASSUME TypeOK, REG_PC \in DOMAIN ram PROVE Page \in 0 .. 2 * Half - 1
  <1>1. pc \in Int
    BY HalfPositive DEF TypeOK, pc, Word
  <1>2. pc \div PageSize \in Int
    BY <1>1, MachineAssumption
  <1> QED
    BY <1>2, HalfPositive DEF Page

(* The registers are cells of a RAM that holds FRM. *)
LEMMA RegisterCells ==
  ASSUME TypeOK, REG_FRM \in DOMAIN ram
  PROVE  REG_PC \in DOMAIN ram /\ REG_STK \in DOMAIN ram
  BY RegisterAssumption DEF TypeOK

-----------------------------------------------------------------------------
(* Type correctness. Running is part of the induction: a command finds its *)
(* registers in RAM because only a boot that allocated them starts the     *)
(* loop of chip32_run. *)

MachineInv == TypeOK /\ Running

(* chip32_new leaves a typed machine. *)
LEMMA InitMachine == Init => MachineInv
  <1> SUFFICES ASSUME Init PROVE MachineInv
    OBVIOUS
  <1>1. [cmd |-> "nop", t0 |-> "literal", t1 |-> "literal", a0 |-> 0, a1 |-> 0] \in Command
    BY HalfPositive DEF Command, CommandNames, Types, Word
  <1>2. DOMAIN ram = 0 .. 0 - 1 /\ 0 \in 0 .. 2 * Half - 1
    BY HalfPositive DEF Init
  <1>3. ram \in [DOMAIN ram -> Word]
    BY <1>2 DEF Init
  <1>4. image \in Seq(Command)
    BY MachineAssumption DEF Init
  <1>5. PageSize \in Nat \ {0}
    BY MachineAssumption
  <1> QED
    BY <1>1, <1>2, <1>3, <1>4, <1>5, HalfPositive DEF Init, MachineInv, TypeOK, Running

(* What the operands of the command being executed read is typed. *)
LEMMA ArgsType ==
  ASSUME MachineInv, ctl = "exec"
  PROVE  /\ pcmd \in Command /\ Memory(ram)
         /\ REG_FRM \in DOMAIN ram /\ REG_PC \in DOMAIN ram /\ REG_STK \in DOMAIN ram
         /\ \A j \in Junk : Arg0(j) \in SUBSET Values /\ Arg1(j) \in SUBSET Values
  <1>1. pcmd \in Command /\ Memory(ram) /\ REG_FRM \in DOMAIN ram
    BY DEF MachineInv, TypeOK, Running, pcmd, Memory
  <1>2. image \in Seq(Command)
    BY MachineAssumption DEF MachineInv, TypeOK
  <1> QED
    BY <1>1, <1>2, RegisterCells, CommandFields, GetWordType, MachineAssumption
    DEF Arg0, Arg1, MachineInv

(* The end of a command keeps the types, whatever typed outcome it has. *)
LEMMA RetireType ==
  ASSUME MachineInv, ctl = "exec", NEW m \in [DOMAIN ram -> Word], NEW ok \in BOOLEAN,
         Retire(m, ok)
  PROVE  /\ ram' \in [DOMAIN ram -> Word]
         /\ state' \in {"run", "fail"} /\ ctl' \in {"fetch", "stopped"}
         /\ ctl' = "fetch" => state' = "run"
  <1>1. REG_PC \in DOMAIN ram
    BY ArgsType
  <1>2. Wrap(m[REG_PC] + 1) \in Word
    BY <1>1, WrapWord, HalfPositive DEF Word
  <1> QED
    BY <1>2 DEF Retire, MachineInv, TypeOK

(* So does a whole command, undefined or not, and RAM keeps its size. *)
LEMMA FinishType ==
  ASSUME MachineInv, ctl = "exec", NEW outcomes \in SUBSET Outcomes(ram), Finish(outcomes)
  PROVE  MachineInv' /\ DOMAIN ram' = DOMAIN ram
  <1>1. CASE Undefined
    BY <1>1 DEF Finish, Undefined, MachineInv, TypeOK, Running
  <1>2. CASE \E o \in outcomes : Retire(o.ram, o.ok)
    <2>1. PICK o \in outcomes : Retire(o.ram, o.ok)
      BY <1>2
    <2>2. o.ram \in [DOMAIN ram -> Word] /\ o.ok \in BOOLEAN
      BY RecordTypes
    <2>3. /\ ram' \in [DOMAIN ram -> Word]
          /\ state' \in {"run", "fail"} /\ ctl' \in {"fetch", "stopped"}
          /\ ctl' = "fetch" => state' = "run"
      BY <2>1, <2>2, RetireType
    <2>4. DOMAIN ram' = DOMAIN ram /\ REG_FRM \in DOMAIN ram
      BY <2>3, ArgsType
    <2> QED
      BY <2>3, <2>4 DEF Finish, MachineInv, TypeOK, Running
  <1> QED
    BY <1>1, <1>2 DEF Finish

(* The part of chip32_run before its loop keeps the types. *)
LEMMA BootType ==
  ASSUME MachineInv, BootLoadFails \/ BootRefused \/ BootInitr
  PROVE  MachineInv'
  <1>1. CASE BootLoadFails
    BY <1>1 DEF BootLoadFails, Fail, MachineInv, TypeOK, Running
  <1>2. LoadFirstPage => ncmds' \in 0 .. PageSize /\ data' \in [0 .. PageSize - 1 -> Command]
    BY PageLoadType DEF LoadFirstPage, MachineInv
  <1>3. CASE BootRefused
    BY <1>2, <1>3, HalfPositive
    DEF BootRefused, LoadFirstPage, Fail, MachineInv, TypeOK, Running
  <1>4. CASE BootInitr
    <2> DEFINE ramsize == Unsigned(data'[0].a0)
               last == Wrap(ramsize - 1)
    <2>1. /\ image' = image /\ cur' = cur /\ data' \in [0 .. PageSize - 1 -> Command]
          /\ ncmds' \in 0 .. PageSize /\ pagecurrent' \in 0 .. 2 * Half - 1
      BY <1>2, <1>4, HalfPositive DEF BootInitr, LoadFirstPage
    <2>2. data'[0].a0 \in Word
      BY <2>1, MachineAssumption, CommandFields
    <2>3. ramsize \in 0 .. 2 * Half - 1 /\ last \in Word
      BY <2>2, UnsignedRange, WrapWord, HalfPositive DEF Word
    <2>4. CASE ramsize <= REG_FRM /\ Undefined
      BY <2>1, <2>4 DEF Undefined, MachineInv, TypeOK, Running
    <2>5. CASE /\ ramsize > REG_FRM
               /\ \E m \in [0 .. ramsize - 1 -> Junk] :
                    ram' = [m EXCEPT ![REG_PC] = 1, ![REG_STK] = last, ![REG_FRM] = last]
               /\ ctl' = "fetch" /\ UNCHANGED state
      <3>1. PICK m \in [0 .. ramsize - 1 -> Junk] :
              ram' = [m EXCEPT ![REG_PC] = 1, ![REG_STK] = last, ![REG_FRM] = last]
        BY <2>5
      <3>2. m \in [0 .. ramsize - 1 -> Word] /\ 1 \in Word
        <4>1. 1 \in Word
          BY HalfPositive DEF Word
        <4> QED
          BY <4>1, MachineAssumption
      <3>3. ram' \in [0 .. ramsize - 1 -> Word] /\ DOMAIN ram' = 0 .. ramsize - 1
        BY <2>3, <3>1, <3>2
      <3>4. REG_FRM \in 0 .. ramsize - 1
        BY <2>3, <2>5, RegisterAssumption
      <3>5. state = "run"
        BY <1>4 DEF BootInitr, LoadFirstPage, MachineInv, TypeOK, Running
      <3> QED
        BY <2>1, <2>3, <2>5, <3>3, <3>4, <3>5 DEF MachineInv, TypeOK, Running
    <2> QED
      BY <1>4, <2>4, <2>5 DEF BootInitr
  <1> QED
    BY <1>1, <1>3, <1>4

(* So does a fetch, with or without a page fault. *)
LEMMA FetchType == ASSUME MachineInv, Fetch \/ ReloadFails PROVE MachineInv'
  <1>1. /\ Page \in 0 .. 2 * Half - 1
        /\ Load(Page) => ncmds' \in 0 .. PageSize /\ data' \in [0 .. PageSize - 1 -> Command]
    <2>1. REG_PC \in DOMAIN ram
      BY RegisterCells DEF Fetch, PastEnd, ReloadFails, MachineInv, Running
    <2>2. Page \in 0 .. 2 * Half - 1
      BY <2>1, PageType DEF MachineInv
    <2>3. Page \in Nat
      BY <2>2, HalfPositive
    <2> QED
      BY <2>2, <2>3, PageLoadType DEF MachineInv
  <1>2. CASE ReloadFails
    BY <1>1, <1>2 DEF ReloadFails, Fail, MachineInv, TypeOK, Running
  <1>3. CASE Fetch
    <2>1. /\ data' \in [0 .. PageSize - 1 -> Command] /\ ncmds' \in 0 .. PageSize
          /\ pagecurrent' \in 0 .. 2 * Half - 1
      BY <1>1, <1>3 DEF Fetch, PastEnd, Reload, MachineInv, TypeOK
    <2>2. ctl' \in {"stopped", "exec", "undef"} /\ cur' \in 0 .. PageSize - 1
      BY <1>3 DEF Fetch, PastEnd, MachineInv, TypeOK
    <2>3. state = "run" /\ REG_FRM \in DOMAIN ram
      BY <1>3 DEF Fetch, PastEnd, MachineInv, TypeOK, Running
    <2> QED
      BY <1>3, <2>1, <2>2, <2>3 DEF Fetch, PastEnd, MachineInv, TypeOK, Running
  <1> QED
    BY <1>2, <1>3

(* Every typed set of outcomes of a command that only computes. *)
LEMMA OutcomeSets ==
  ASSUME MachineInv, ctl = "exec", NEW j \in Junk, NEW k \in Junk
  PROVE  /\ \A o \in BOOLEAN : {Outcome(ram, o)} \subseteq Outcomes(ram)
         /\ \A vs \in SUBSET Values : Store(ram, pcmd.t0, pcmd.a0, vs) \subseteq Outcomes(ram)
         /\ {Outcome(ram, v.ok) : v \in Arg0(j)} \subseteq Outcomes(ram)
         /\ \A v \in Values : Jump(ram, v) \in Outcomes(ram)
  <1>1. Memory(ram) /\ pcmd \in Command /\ Arg0(j) \in SUBSET Values
    BY ArgsType
  <1>2. ram \in [DOMAIN ram -> Word]
    BY <1>1 DEF Memory
  <1>3. ASSUME NEW v \in Values PROVE Jump(ram, v) \in Outcomes(ram)
    <2>1. Wrap(v.word - 1) \in Word /\ v.ok \in BOOLEAN
      BY RecordTypes, WrapWord, HalfPositive DEF Word
    <2>2. [ram EXCEPT ![REG_PC] = Wrap(v.word - 1)] \in [DOMAIN ram -> Word]
      BY <1>2, <2>1
    <2> QED
      BY <2>1, <2>2, RecordTypes DEF Jump
  <1>4. \A v \in Arg0(j) : Outcome(ram, v.ok) \in Outcomes(ram)
    BY <1>1, <1>2, RecordTypes
  <1> QED
    BY <1>1, <1>2, <1>3, <1>4, StoreType, RecordTypes

(* Every command that ends in one step keeps the types. *)
LEMMA CommandType ==
  ASSUME MachineInv,
         \/ Nop \/ Move \/ UnaryCmd \/ BinaryCmd \/ LogicCmd \/ Jmp \/ If
         \/ Call \/ Ret \/ Push \/ Pop \/ Initr \/ LogWord
  PROVE  MachineInv' /\ DOMAIN ram' = DOMAIN ram
  <1>1. ctl = "exec"
    BY DEF Nop, Move, UnaryCmd, BinaryCmd, LogicCmd, Jmp, If, Call, Ret, Push, Pop,
           Initr, LogWord, Executing
  <1>2. /\ Memory(ram) /\ ram \in [DOMAIN ram -> Word]
        /\ REG_FRM \in DOMAIN ram /\ REG_PC \in DOMAIN ram /\ REG_STK \in DOMAIN ram
        /\ \A j \in Junk : Arg0(j) \in SUBSET Values /\ Arg1(j) \in SUBSET Values
        /\ pcmd \in Command
    BY <1>1, ArgsType DEF Memory
  <1>3. CASE Nop \/ Initr
    <2>1. PICK o \in BOOLEAN : Finish({Outcome(ram, o)})
      BY <1>3 DEF Nop, Initr
    <2> QED
      BY <1>1, <2>1, OutcomeSets, FinishType, MachineAssumption
  <1>4. CASE Move \/ UnaryCmd \/ BinaryCmd \/ LogicCmd
    <2>1. \E vs \in SUBSET Values : Finish(Store(ram, pcmd.t0, pcmd.a0, vs))
      BY <1>2, <1>4, ValuesType, Zenon DEF Move, UnaryCmd, BinaryCmd, LogicCmd, Executing
    <2> QED
      BY <1>1, <2>1, OutcomeSets, FinishType, MachineAssumption
  <1>5. CASE Jmp
    <2>1. PICK j \in Junk : Finish({Jump(ram, v) : v \in Arg0(j)})
      BY <1>5 DEF Jmp
    <2>2. {Jump(ram, v) : v \in Arg0(j)} \subseteq Outcomes(ram)
      BY <1>1, <1>2, OutcomeSets
    <2> QED
      BY <1>1, <2>1, <2>2, FinishType
  <1>6. CASE If
    <2>1. PICK j \in Junk, k \in Junk : Finish(Branch(j, k))
      BY <1>6 DEF If
    <2>2. \A v \in Arg0(j) : Outcome(ram, v.ok) \in Outcomes(ram)
      BY <1>2, RecordTypes
    <2>3. \A v \in Arg0(j), t \in Arg1(k) : Value(t.word, v.ok /\ t.ok) \in Values
      BY <1>2, RecordTypes
    <2>4. \A v \in Arg0(j), t \in Arg1(k) :
            Jump(ram, Value(t.word, v.ok /\ t.ok)) \in Outcomes(ram)
      BY <1>1, <2>3, OutcomeSets
    <2>5. Branch(j, k) \subseteq Outcomes(ram)
      BY <2>2, <2>4 DEF Branch
    <2> QED
      BY <1>1, <2>1, <2>5, FinishType
  <1>7. CASE Call
    <2> DEFINE After(j) == UNION {{Outcome(m, v.ok) : m \in Called(ram, v)} : v \in Arg0(j)}
    <2>1. PICK j \in Junk : Finish(After(j))
      BY <1>7 DEF Call
    <2>2. ASSUME NEW o \in After(j) PROVE o \in Outcomes(ram)
      <3>1. PICK v \in Arg0(j) : o \in {Outcome(m, v.ok) : m \in Called(ram, v)}
        OBVIOUS
      <3>2. PICK m \in Called(ram, v) : o = Outcome(m, v.ok)
        BY <3>1
      <3>3. v \in Values /\ m \in [DOMAIN ram -> Word]
        BY <1>2, StackType
      <3> QED
        BY <3>2, <3>3, RecordTypes
    <2> HIDE DEF After
    <2> QED
      BY <1>1, <2>1, <2>2, FinishType
  <1>8. CASE Ret
    <2>1. Returned(ram) \subseteq [DOMAIN ram -> Word]
      BY <1>2, StackType
    <2>2. \A m \in Returned(ram) : Outcome(m, TRUE) \in Outcomes(ram)
      BY <2>1, RecordTypes
    <2> QED
      BY <1>1, <1>8, <2>2, FinishType DEF Ret
  <1>9. CASE Push
    <2> DEFINE lower == [ram EXCEPT ![REG_STK] = Wrap(@ - 1)]
               After(j, m) == UNION {{Outcome(q, v.ok) : q \in PushWord(ram, v.word)} :
                                       v \in GetWord(m, pcmd.t0, pcmd.a0, j)}
    <2>1. PICK j \in Junk, m \in {ram, lower} : Finish(After(j, m))
      BY <1>9 DEF Push
    <2>2. lower \in [DOMAIN ram -> Word]
      <3>1. Wrap(ram[REG_STK] - 1) \in Word
        BY <1>2, WrapWord, HalfPositive DEF Word
      <3> QED
        BY <1>2, <3>1
    <2>3. Memory(m) /\ j \in Word /\ pcmd.a0 \in Word /\ image \in Seq(Command)
      BY <1>2, <2>2, CommandFields, MachineAssumption DEF Memory, MachineInv, TypeOK
    <2>4. GetWord(m, pcmd.t0, pcmd.a0, j) \subseteq Values
      BY <2>3, GetWordType
    <2>5. ASSUME NEW o \in After(j, m) PROVE o \in Outcomes(ram)
      <3>1. PICK v \in GetWord(m, pcmd.t0, pcmd.a0, j) :
              o \in {Outcome(q, v.ok) : q \in PushWord(ram, v.word)}
        OBVIOUS
      <3>2. PICK q \in PushWord(ram, v.word) : o = Outcome(q, v.ok)
        BY <3>1
      <3>3. v.word \in Word /\ v.ok \in BOOLEAN
        BY <2>4, RecordTypes
      <3>4. q \in [DOMAIN ram -> Word]
        BY <1>2, <3>3, StackType
      <3> QED
        BY <3>2, <3>3, <3>4, RecordTypes
    <2> HIDE DEF After
    <2> QED
      BY <1>1, <2>1, <2>5, FinishType
  <1>10. CASE Pop
    <2> DEFINE After == UNION {SetWord(m, pcmd.t0, pcmd.a0, Value(Top(m), TRUE)) :
                                 m \in Popped(ram)}
    <2>1. ASSUME NEW o \in After PROVE o \in Outcomes(ram)
      <3>1. PICK m \in Popped(ram) : o \in SetWord(m, pcmd.t0, pcmd.a0, Value(Top(m), TRUE))
        OBVIOUS
      <3>2. m \in [DOMAIN ram -> Word] /\ Value(Top(m), TRUE) \in Values
        BY <1>2, StackType, RecordTypes
      <3>3. Memory(m) /\ DOMAIN m = DOMAIN ram
        BY <3>2 DEF Memory
      <3>4. {Value(Top(m), TRUE)} \in SUBSET Values
        BY <3>2
      <3>5. o \in Store(m, pcmd.t0, pcmd.a0, {Value(Top(m), TRUE)})
        BY <3>1 DEF Store
      <3>6. o \in Outcomes(m)
        BY <3>3, <3>4, <3>5, StoreType
      <3> QED
        BY <3>3, <3>6 DEF Outcomes
    <2>2. Finish(After)
      BY <1>10 DEF Pop
    <2> HIDE DEF After
    <2> QED
      BY <1>1, <2>1, <2>2, FinishType
  <1>11. CASE LogWord
    <2>1. PICK j \in Junk : Finish({Outcome(ram, v.ok) : v \in Arg0(j)})
      BY <1>11 DEF LogWord
    <2> QED
      BY <1>1, <2>1, OutcomeSets, FinishType
  <1> QED
    BY <1>3, <1>4, <1>5, <1>6, <1>7, <1>8, <1>9, <1>10, <1>11

(* So does every character of logs and strcpy. *)
LEMMA ScanType ==
  ASSUME MachineInv, Logs \/ Strcpy
  PROVE  MachineInv' /\ DOMAIN ram' = DOMAIN ram
  <1>1. ctl = "exec" /\ pcmd.cmd \in Scans
    BY DEF Logs, Strcpy, Executing, Scans
  <1>2. /\ Memory(ram) /\ ram \in [DOMAIN ram -> Word] /\ REG_FRM \in DOMAIN ram
        /\ \A j \in Junk : Arg0(j) \in SUBSET Values
        /\ pcmd \in Command /\ pcmd.a0 \in Word /\ pcmd.a1 \in Word
    BY <1>1, ArgsType, CommandFields DEF Memory
  <1>3. /\ data' \in [0 .. PageSize - 1 -> Command]
        /\ data'[cur].cmd = pcmd.cmd
    <2>1. Wrap(pcmd.a0 + 1) \in Word /\ Wrap(pcmd.a1 + 1) \in Word
      BY <1>2, WrapWord, HalfPositive DEF Word
    <2>2. /\ [pcmd EXCEPT !.a0 = Wrap(@ + 1)] \in Command
          /\ [pcmd EXCEPT !.a0 = Wrap(@ + 1), !.a1 = Wrap(@ + 1)] \in Command
      BY <1>2, <2>1 DEF Command
    <2>3. cur \in DOMAIN data /\ data \in [0 .. PageSize - 1 -> Command]
      BY DEF MachineInv, TypeOK
    <2>4. \/ data' = [data EXCEPT ![cur] = [pcmd EXCEPT !.a0 = Wrap(@ + 1)]]
          \/ data' = [data EXCEPT ![cur] = [pcmd EXCEPT !.a0 = Wrap(@ + 1), !.a1 = Wrap(@ + 1)]]
      BY DEF Logs, Strcpy, pcmd
    <2> QED
      BY <1>2, <2>2, <2>3, <2>4 DEF Command
  <1>4. ASSUME NEW v \in Values, NEW m \in [DOMAIN ram -> Word], NEW ok \in BOOLEAN,
               Character(v, m, ok)
        PROVE  /\ ram' \in [DOMAIN ram -> Word] /\ state' \in {"run", "fail"}
               /\ \/ ctl' = "exec" \/ ctl' = "stopped" \/ (ctl' = "fetch" /\ state' = "run")
    <2>1. CASE v.word = 0
      BY <1>1, <1>4, <2>1, RetireType DEF Character
    <2>2. CASE v.word # 0
      BY <1>1, <1>4, <2>2 DEF Character, Continue, MachineInv, TypeOK
    <2> QED
      BY <2>1, <2>2
  <1>5. \/ ram' = ram /\ state' = state /\ ctl' = "undef"
        \/ /\ ram' \in [DOMAIN ram -> Word] /\ state' \in {"run", "fail"}
           /\ \/ ctl' = "exec" \/ ctl' = "stopped" \/ (ctl' = "fetch" /\ state' = "run")
    <2>1. CASE Logs
      <3>1. PICK j \in Junk : \/ Arg0(j) = {} /\ Undefined
                              \/ \E v \in Arg0(j) : Character(v, ram, v.ok)
        BY <2>1 DEF Logs
      <3> QED
        BY <1>2, <1>4, <3>1, RecordTypes DEF Undefined
    <2>2. CASE Strcpy
      <3>1. PICK j \in Junk :
              \/ Undefined
              \/ \E v \in GetWord(ram, pcmd.t0, pcmd.a1, j) :
                   \E o \in SetWord(ram, pcmd.t0, pcmd.a0, v) : Character(v, o.ram, o.ok)
        BY <2>2 DEF Strcpy
      <3>2. CASE Undefined
        BY <3>2 DEF Undefined
      <3>3. ASSUME NEW v \in GetWord(ram, pcmd.t0, pcmd.a1, j),
                   NEW o \in SetWord(ram, pcmd.t0, pcmd.a0, v), Character(v, o.ram, o.ok)
            PROVE  /\ ram' \in [DOMAIN ram -> Word] /\ state' \in {"run", "fail"}
                   /\ \/ ctl' = "exec" \/ ctl' = "stopped" \/ (ctl' = "fetch" /\ state' = "run")
        <4>1. j \in Word /\ image \in Seq(Command)
          BY MachineAssumption DEF MachineInv, TypeOK
        <4>2. v \in Values
          BY <1>2, <4>1, GetWordType
        <4>3. o \in Store(ram, pcmd.t0, pcmd.a0, {v}) /\ {v} \in SUBSET Values
          BY <4>2 DEF Store
        <4>4. o \in Outcomes(ram)
          BY <1>2, <4>3, StoreType
        <4> QED
          BY <1>4, <3>3, <4>2, <4>4, RecordTypes
      <3> QED
        BY <3>1, <3>2, <3>3
    <2> QED
      BY <2>1, <2>2
  <1>6. UNCHANGED <<image, ncmds, pagecurrent, cur>>
    BY DEF Logs, Strcpy
  <1>7. TypeOK'
    BY <1>3, <1>5, <1>6 DEF MachineInv, TypeOK
  <1>8. DOMAIN ram' = DOMAIN ram
    BY <1>2, <1>5
  <1>9. pcmd'.cmd \in Scans
    BY <1>1, <1>3, <1>6 DEF pcmd
  <1> QED
    BY <1>2, <1>5, <1>7, <1>8, <1>9 DEF MachineInv, Running

(* Every step of the machine keeps the types. *)
LEMMA NextMachine == MachineInv /\ [Next]_vars => MachineInv'
  <1> SUFFICES ASSUME MachineInv, [Next]_vars PROVE MachineInv'
    OBVIOUS
  <1>1. CASE UNCHANGED vars
    BY <1>1 DEF vars, MachineInv, TypeOK, Running, pcmd
  <1>2. CASE Next
    BY <1>2, BootType, FetchType, CommandType, ScanType DEF Next
  <1> QED
    BY <1>1, <1>2

(* The machine stays well typed, and never executes a command without a    *)
(* RAM that holds its registers, nor (but for the rest of a string) after  *)
(* a failure. *)
THEOREM TypeCorrect == Spec => [](TypeOK /\ Running)
  BY InitMachine, NextMachine, PTL DEF Spec, MachineInv

(* chip32_run never reads a register of a RAM it does not have, and after  *)
(* a failure it executes nothing but the rest of a string. *)
THEOREM RegistersInRam == Spec => []Running
  BY TypeCorrect, PTL

-----------------------------------------------------------------------------
(* What is executed. While the loop of chip32_run goes on, page 0 is the   *)
(* loaded page, because a program counter outside it either ends the run   *)
(* or indexes data[] out of its bounds. *)

PageInv ==
  ctl \in {"fetch", "exec"} =>
    /\ pagecurrent = 0 /\ ncmds \in 0 .. Available(0)
    /\ \A i \in 0 .. ncmds - 1 : Agrees(data[i], image[i + 1])
    /\ ctl = "exec" => cur < ncmds

(* A program counter inside the first page belongs to page 0, and is its   *)
(* own index there. *)
LEMMA FirstPage ==
  ASSUME pc \in 0 .. PageSize - 1
  PROVE  Page = 0 /\ CRem(pc, PageSize) = pc
  <1>1. pc \div PageSize = 0
    BY MachineAssumption
  <1>2. Abs(pc) = pc /\ Abs(PageSize) = PageSize
    BY MachineAssumption DEF Abs
  <1>3. CQuot(pc, PageSize) = 0
    BY <1>1, <1>2, MachineAssumption DEF CQuot
  <1>4. 0 % (2 * Half) = 0
    BY HalfPositive
  <1> QED
    BY <1>1, <1>3, <1>4, MachineAssumption DEF Page, CRem

(* A freshly loaded first page holds the commands of the image that could  *)
(* be read.                                                                *)
LEMMA FirstCount ==
  ASSUME TypeOK
  PROVE  Available(0) \in 0 .. PageSize /\ Available(0) <= Len(image)
  <1>1. Len(image) \in Nat
    BY MachineAssumption DEF TypeOK
  <1> QED
    BY <1>1, MachineAssumption DEF Available

LEMMA FreshPage ==
  ASSUME TypeOK, Load(0)
  PROVE  /\ ncmds' \in 0 .. Available(0)
         /\ \A i \in 0 .. ncmds' - 1 : data'[i] = image[i + 1]
  <1>1. PICK n \in 0 .. Available(0) : data' = PageLoad(0, n) /\ ncmds' = n
    BY FirstCount DEF Load, Counts
  <1>2. ASSUME NEW i \in 0 .. n - 1 PROVE PageLoad(0, n)[i] = image[i + 1]
    <2>1. i \in 0 .. PageSize - 1 /\ i < n /\ 0 + i + 1 = i + 1
      BY <1>1, FirstCount, MachineAssumption
    <2> QED
      BY <2>1 DEF PageLoad
  <1> QED
    BY <1>1, <1>2

(* Only a command of data[] is dispatched, and only logs and strcpy change *)
(* data[], in their own operands. *)
LEMMA NextPage == MachineInv /\ PageInv /\ [Next]_vars => PageInv'
  <1> SUFFICES ASSUME MachineInv, PageInv, [Next]_vars PROVE PageInv'
    OBVIOUS
  <1>1. Available(0)' = Available(0)
    BY DEF Next, vars, Available, BootLoadFails, BootRefused, BootInitr, LoadFirstPage,
           ReloadFails, Fetch, Nop, Move, UnaryCmd, BinaryCmd, LogicCmd, Jmp, If, Call,
           Ret, Push, Pop, Initr, LogWord, Finish, Logs, Strcpy
  <1>2. CASE UNCHANGED vars
    BY <1>1, <1>2 DEF vars, PageInv
  <1>3. CASE BootLoadFails \/ BootRefused \/ ReloadFails
    BY <1>3 DEF BootLoadFails, BootRefused, ReloadFails, Fail, PageInv
  <1>4. CASE BootInitr
    <2>1. Load(0) /\ pagecurrent' = 0 /\ image' = image /\ ctl' \in {"fetch", "undef"}
      BY <1>4 DEF BootInitr, LoadFirstPage, Undefined
    <2>2. /\ ncmds' \in 0 .. Available(0)
          /\ \A i \in 0 .. ncmds' - 1 : data'[i] = image[i + 1]
      BY <2>1, FreshPage DEF MachineInv
    <2>3. \A i \in 0 .. ncmds' - 1 : Agrees(data'[i], image'[i + 1])
      BY <2>1, <2>2 DEF Agrees
    <2> QED
      BY <1>1, <2>1, <2>2, <2>3 DEF PageInv
  <1>5. CASE Fetch
    <2>1. CASE ctl' = "exec"
      <3>1. pc \in 0 .. PageSize - 1 /\ cur' = pc /\ ~PastEnd(ncmds')
        BY <1>5, <2>1 DEF Fetch, MachineInv, TypeOK
      <3>2. UNCHANGED <<data, ncmds, pagecurrent, image>> /\ ctl = "fetch"
        BY <1>5, <3>1, FirstPage DEF Fetch, Reload, PageInv
      <3>3. ncmds \in Nat /\ pc < ncmds
        BY <3>1, <3>2, FirstPage, MachineAssumption DEF PastEnd, MachineInv, TypeOK
      <3> QED
        BY <1>1, <3>1, <3>2, <3>3, FirstPage DEF PageInv
    <2>2. CASE ctl' # "exec"
      BY <1>5, <2>2 DEF Fetch, PastEnd, PageInv
    <2> QED
      BY <2>1, <2>2
  <1>6. CASE \/ Nop \/ Move \/ UnaryCmd \/ BinaryCmd \/ LogicCmd \/ Jmp \/ If
             \/ Call \/ Ret \/ Push \/ Pop \/ Initr \/ LogWord
    <2>1. UNCHANGED <<image, data, ncmds, pagecurrent, cur>> /\ ctl = "exec" /\ ctl' # "exec"
      BY <1>6 DEF Nop, Move, UnaryCmd, BinaryCmd, LogicCmd, Jmp, If, Call, Ret, Push,
                  Pop, Initr, LogWord, Executing, Finish, Undefined, Retire
    <2> QED
      BY <1>1, <2>1 DEF PageInv
  <1>7. CASE Logs \/ Strcpy
    <2>1. UNCHANGED <<image, ncmds, pagecurrent, cur>> /\ ctl = "exec" /\ pcmd.cmd \in Scans
      BY <1>7 DEF Logs, Strcpy, Executing, Scans
    <2>2. cur \in DOMAIN data /\ cur \in Nat
      BY DEF MachineInv, TypeOK
    <2>3. /\ \A i \in DOMAIN data : i # cur => data'[i] = data[i]
          /\ data'[cur].cmd = pcmd.cmd /\ data'[cur].t0 = pcmd.t0 /\ data'[cur].t1 = pcmd.t1
      BY <1>7, <2>2 DEF Logs, Strcpy, pcmd, MachineInv, TypeOK, Command
    <2>4. ncmds \in 0 .. PageSize
      BY DEF MachineInv, TypeOK
    <2>5. ASSUME NEW i \in 0 .. ncmds - 1 PROVE Agrees(data'[i], image[i + 1])
      <3>1. Agrees(data[i], image[i + 1]) /\ i \in DOMAIN data
        BY <2>1, <2>4, MachineAssumption DEF PageInv, MachineInv, TypeOK
      <3>2. CASE i = cur
        BY <2>1, <2>3, <3>1, <3>2 DEF Agrees, pcmd
      <3>3. CASE i # cur
        BY <2>3, <3>1, <3>3
      <3> QED
        BY <3>2, <3>3
    <2> QED
      BY <1>1, <2>1, <2>5 DEF PageInv
  <1> QED
    BY <1>2, <1>3, <1>4, <1>5, <1>6, <1>7 DEF Next

(* The page invariant holds throughout. *)
LEMMA PageAlways == Spec => [](MachineInv /\ PageInv)
  <1>1. Init => MachineInv /\ PageInv
    BY InitMachine DEF Init, PageInv
  <1>2. MachineInv /\ PageInv /\ [Next]_vars => (MachineInv /\ PageInv)'
    BY NextMachine, NextPage
  <1> QED
    BY <1>1, <1>2, PTL DEF Spec

(* Whatever the program does, the command executed is the command of the   *)
(* image at the index it was fetched from, on images of any length. *)
THEOREM ExecutesItsImage == Spec => []ExecutesImage
  <1>1. MachineInv /\ PageInv => ExecutesImage
    <2> SUFFICES ASSUME MachineInv, PageInv, ctl = "exec"
                 PROVE  cur < Len(image) /\ Agrees(data[cur], image[cur + 1])
      BY DEF ExecutesImage
    <2>1. cur \in 0 .. ncmds - 1 /\ ncmds <= Len(image)
      <3>1. Len(image) \in Nat /\ cur \in Nat /\ ncmds \in Nat
        BY MachineAssumption DEF MachineInv, TypeOK
      <3> QED
        BY <3>1, FirstCount DEF PageInv, MachineInv
    <2>2. Len(image) \in Nat /\ ncmds \in Nat
      BY MachineAssumption DEF MachineInv, TypeOK
    <2>3. Agrees(data[cur], image[cur + 1])
      BY <2>1 DEF PageInv
    <2>4. cur < Len(image)
      BY <2>1, <2>2
    <2> QED
      BY <2>3, <2>4
  <1> QED
    BY <1>1, PageAlways, PTL

(* A program counter that is the address of a command of the first page    *)
(* leads to that command, in images of any length, unless a read error has *)
(* cut the load of the page short.                                         *)
THEOREM OnePageFetches == Spec => FirstPageFetches
  <1>1. ASSUME MachineInv, PageInv, [Next]_vars, ctl = "fetch", pc \in 0 .. Len(image) - 1,
               pc < PageSize, Complete'
        PROVE  (ctl' = "exec" /\ cur' = pc) \/ UNCHANGED vars
    <2>1. Len(image) \in Nat
      BY <1>1, MachineAssumption DEF MachineInv, TypeOK
    <2>2. pc \in 0 .. PageSize - 1
      BY <1>1, <2>1, MachineAssumption
    <2>3. Page = pagecurrent /\ CRem(pc, PageSize) = pc
      BY <1>1, <2>2, FirstPage DEF PageInv
    <2>4. pc < Available(0)
      BY <1>1, <2>1, <2>2, MachineAssumption DEF Available
    <2>5. CASE Fetch
      <3>1. UNCHANGED <<image, data, ncmds, pagecurrent>> /\ DOMAIN data = 0 .. PageSize - 1
        BY <1>1, <2>3, <2>5 DEF Fetch, PastEnd, Reload, MachineInv, TypeOK
      <3>2. ncmds' = Available(0)
        BY <1>1, <3>1 DEF Complete, Available, PageInv
      <3>3. pc \in DOMAIN data /\ ~(CRem(pc, PageSize) >= ncmds')
        BY <1>1, <2>2, <2>3, <2>4, <3>1, <3>2, FirstCount DEF MachineInv, TypeOK
      <3> QED
        BY <2>5, <3>3 DEF Fetch, PastEnd
    <2>6. CASE Next /\ ~Fetch
      BY <1>1, <2>3, <2>6
      DEF Next, BootLoadFails, BootRefused, BootInitr, LoadFirstPage, ReloadFails, Nop,
          Move, UnaryCmd, BinaryCmd, LogicCmd, Jmp, If, Call, Ret, Push, Pop, Initr,
          LogWord, Logs, Strcpy, Executing
    <2> QED
      BY <1>1, <2>5, <2>6
  <1>2. MachineInv /\ PageInv /\ [Next]_vars
          => [ctl = "fetch" /\ pc \in 0 .. Len(image) - 1 /\ pc < PageSize /\ Complete'
                => ctl' = "exec" /\ cur' = pc]_vars
    BY <1>1
  <1> QED
    BY <1>2, PageAlways, PTL DEF Spec, FirstPageFetches

(* chip32_run never ends normally in the middle of an image, of one page   *)
(* or of several, unless a read error has cut the load of the page short.  *)
THEOREM NeverStopsEarly == Spec => NoEarlyStop
  <1>1. ASSUME MachineInv, PageInv, [Next]_vars, ctl = "fetch", ctl' = "stopped",
               state' = "run", pc \in 0 .. Len(image) - 1, Complete'
        PROVE  FALSE
    <2>1. Fetch
      BY <1>1
      DEF Next, vars, BootLoadFails, BootRefused, BootInitr, LoadFirstPage, ReloadFails,
          Fail, Nop, Move, UnaryCmd, BinaryCmd, LogicCmd, Jmp, If, Call, Ret, Push, Pop,
          Initr, LogWord, Logs, Strcpy, Executing
    <2>2. CRem(pc, PageSize) >= ncmds'
      BY <1>1, <2>1 DEF Fetch, PastEnd
    <2> DEFINE p == pc \div PageSize
               r == pc % PageSize
    <2>3. Len(image) \in Nat /\ pc \in Nat /\ pc < 2 * Half
      <3>1. REG_PC \in DOMAIN ram
        BY <1>1, RegisterCells DEF MachineInv, Running
      <3>2. pc \in Word
        BY <1>1, <3>1 DEF MachineInv, TypeOK, pc
      <3> QED
        BY <1>1, <3>2, HalfPositive, MachineAssumption DEF Word, MachineInv, TypeOK
    <2>4. p \in Nat /\ r \in 0 .. PageSize - 1 /\ pc = PageSize * p + r
      BY <2>3, MachineAssumption
    <2>5. p <= PageSize * p
      <3>1. \A x \in Nat, y \in Nat \ {0} : x <= y * x
        OBVIOUS
      <3> QED
        BY <2>4, <3>1, MachineAssumption
    <2>6. p + r <= pc
      BY <2>3, <2>4, <2>5, MachineAssumption
    <2>7. CRem(pc, PageSize) = r
      <3>1. Abs(pc) = pc /\ Abs(PageSize) = PageSize /\ CQuot(pc, PageSize) = p
        BY <2>3, MachineAssumption DEF Abs, CQuot
      <3> QED
        BY <2>3, <2>4, <3>1, MachineAssumption DEF CRem
    <2>8. Page = p
      <3>1. p \in 0 .. 2 * Half - 1
        BY <2>3, <2>4, <2>6, HalfPositive
      <3>2. p % (2 * Half) = p
        BY <3>1, HalfPositive
      <3> QED
        BY <3>2 DEF Page
    <2>9. ncmds' = Available(p)
      <3>1. image' = image /\ pagecurrent' = p
        BY <1>1, <2>1, <2>8 DEF Fetch, PastEnd, Reload, PageInv
      <3> QED
        BY <1>1, <3>1 DEF Complete, Available
    <2> HIDE DEF p, r
    <2> QED
      BY <1>1, <2>2, <2>3, <2>4, <2>6, <2>7, <2>9, MachineAssumption DEF Available
  <1>2. MachineInv /\ PageInv /\ [Next]_vars
          => [ctl = "fetch" /\ ctl' = "stopped" /\ state' = "run" /\ Complete'
                => pc \notin 0 .. Len(image) - 1]_vars
    BY <1>1
  <1> QED
    BY <1>2, PageAlways, PTL DEF Spec, NoEarlyStop

-----------------------------------------------------------------------------
(* Where a command leads. Until a command ends nothing but the loops of    *)
(* logs and strcpy can move the counter away from it. *)

CounterInv == ctl = "exec" => cur = pc \/ pcmd.cmd \in Scans

LEMMA NextCounter == MachineInv /\ CounterInv /\ [Next]_vars => CounterInv'
  <1> SUFFICES ASSUME MachineInv, CounterInv, [Next]_vars PROVE CounterInv'
    OBVIOUS
  <1>1. CASE UNCHANGED vars
    BY <1>1 DEF vars, CounterInv, pc, pcmd
  <1>2. CASE BootLoadFails \/ BootRefused \/ BootInitr \/ ReloadFails
    BY <1>2 DEF BootLoadFails, BootRefused, BootInitr, ReloadFails, Fail, Undefined, CounterInv
  <1>3. CASE Fetch
    BY <1>3 DEF Fetch, CounterInv, pc
  <1>4. CASE \/ Nop \/ Move \/ UnaryCmd \/ BinaryCmd \/ LogicCmd \/ Jmp \/ If
             \/ Call \/ Ret \/ Push \/ Pop \/ Initr \/ LogWord
    <2>1. ctl' # "exec"
      BY <1>4 DEF Nop, Move, UnaryCmd, BinaryCmd, LogicCmd, Jmp, If, Call, Ret, Push,
                  Pop, Initr, LogWord, Executing, Finish, Undefined, Retire
    <2> QED
      BY <2>1 DEF CounterInv
  <1>5. CASE Logs \/ Strcpy
    <2>1. cur' = cur /\ pcmd.cmd \in Scans
      BY <1>5 DEF Logs, Strcpy, Executing, Scans
    <2>2. cur \in DOMAIN data
      BY DEF MachineInv, TypeOK
    <2>3. data'[cur].cmd = pcmd.cmd
      BY <1>5, <2>2 DEF Logs, Strcpy, pcmd, MachineInv, TypeOK, Command
    <2> QED
      BY <2>1, <2>3 DEF CounterInv, pcmd
  <1> QED
    BY <1>1, <1>2, <1>3, <1>4, <1>5 DEF Next

(* A command is executed by its own action, and stays where it is. *)
LEMMA Dispatched ==
  ASSUME Next, ctl = "exec"
  PROVE  /\ pcmd.cmd = "jmp" => Jmp
         /\ pcmd.cmd \in {"ift", "iff"} => If
         /\ pcmd.cmd = "move" => Move
         /\ pcmd.cmd = "initr" => Initr
         /\ cur' = cur
  <1>1. ~(BootLoadFails \/ BootRefused \/ BootInitr \/ ReloadFails \/ Fetch)
    BY DEF BootLoadFails, BootRefused, BootInitr, LoadFirstPage, ReloadFails, Fetch
  <1>2. ASSUME pcmd.cmd \in {"jmp", "ift", "iff", "move", "initr"}
        PROVE  /\ ~(Nop \/ UnaryCmd \/ BinaryCmd \/ LogicCmd)
               /\ ~(Call \/ Ret \/ Push \/ Pop \/ LogWord \/ Logs \/ Strcpy)
    <2>1. ~(Nop \/ UnaryCmd \/ BinaryCmd \/ LogicCmd)
      BY <1>2 DEF Nop, UnaryCmd, BinaryCmd, LogicCmd, Executing, UnaryOps, BinaryOps
    <2>2. ~(Call \/ Ret \/ Push \/ Pop \/ LogWord \/ Logs \/ Strcpy)
      BY <1>2 DEF Call, Ret, Push, Pop, LogWord, Logs, Strcpy, Executing
    <2> QED
      BY <2>1, <2>2
  <1>3. ASSUME pcmd.cmd \in {"jmp", "ift", "iff", "move", "initr"}
        PROVE  Jmp \/ If \/ Move \/ Initr
    BY <1>1, <1>2, <1>3 DEF Next
  <1>4. cur' = cur
    BY <1>1 DEF Next, Nop, Move, UnaryCmd, BinaryCmd, LogicCmd, Jmp, If, Call, Ret, Push, Pop, Initr,
                LogWord, Logs, Strcpy, Finish
  <1> QED
    BY <1>3, <1>4 DEF Jmp, If, Move, Initr, Executing

(* A machine that has stopped takes no step. *)
LEMMA Halted == ASSUME Next PROVE ctl \in {"boot", "fetch", "exec"}
  BY DEF Next, BootLoadFails, BootRefused, BootInitr, LoadFirstPage, ReloadFails, Fetch, Nop, Move,
         UnaryCmd, BinaryCmd, LogicCmd, Jmp, If, Call, Ret, Push, Pop, Initr, LogWord, Logs, Strcpy,
         Executing

(* An initr in data[0] after the first load is the first command of the     *)
(* image: a load that read nothing leaves nops.                             *)
LEMMA InitrIsRead ==
  ASSUME MachineInv, LoadFirstPage, data'[0].cmd = "initr"
  PROVE  1 \in 1 .. Len(image) /\ data'[0] = image[1]
  <1>1. PICK n \in 0 .. Available(0) : data' = PageLoad(0, n) /\ ncmds' = n
    BY FirstCount DEF LoadFirstPage, Load, Counts, MachineInv
  <1>2. n \in Nat /\ n <= Len(image) /\ Len(image) \in Nat
    BY <1>1, FirstCount DEF MachineInv, TypeOK
  <1>3. 0 \in 0 .. PageSize - 1 /\ data[0] \in Command
    BY MachineAssumption DEF MachineInv, TypeOK
  <1>4. 0 < n
    <2>1. SUFFICES ASSUME ~(0 < n) PROVE data'[0].cmd = "nop"
      BY <2>1
    <2>2. data'[0] = [data[0] EXCEPT !.cmd = "nop"]
      BY <1>1, <1>3, <2>1 DEF PageLoad
    <2> QED
      BY <1>3, <2>2 DEF Command
  <1>5. data'[0] = image[0 + 0 + 1]
    BY <1>1, <1>3, <1>4 DEF PageLoad
  <1> QED
    BY <1>2, <1>4, <1>5

(* chip32_run starts behind the initr of its image. *)
LEMMA BootStarts ==
  ASSUME MachineInv, Next, ctl = "boot", ctl' \in {"fetch", "exec"}
  PROVE  ctl' = "fetch" /\ pc' = 1 /\ Len(image) > 0 /\ image[1].cmd = "initr"
  <1>1. BootInitr
    BY DEF Next, BootLoadFails, BootRefused, Fail, ReloadFails, Fetch, Nop, Move, UnaryCmd, BinaryCmd,
           LogicCmd, Jmp, If, Call, Ret, Push, Pop, Initr, LogWord, Logs, Strcpy, Executing
  <1>2. data'[0].cmd = "initr" /\ LoadFirstPage
    BY <1>1 DEF BootInitr
  <1>3. Len(image) \in Nat
    BY DEF MachineInv, TypeOK
  <1>4. 1 \in 1 .. Len(image) /\ data'[0] = image[1]
    BY <1>2, InitrIsRead
  <1> DEFINE ramsize == Unsigned(data'[0].a0)
             last == Wrap(ramsize - 1)
  <1>6. /\ ctl' = "fetch" /\ ramsize > REG_FRM
        /\ \E m \in [0 .. ramsize - 1 -> Junk] :
             ram' = [m EXCEPT ![REG_PC] = 1, ![REG_STK] = last, ![REG_FRM] = last]
    BY <1>1 DEF BootInitr, Undefined
  <1>7. ctl' = "fetch" /\ ram'[REG_PC] = 1
    <2>1. ramsize \in Nat
      <3>1. data'[0].a0 \in Int
        <4>1. image \in Seq(Command)
          BY DEF MachineInv, TypeOK
        <4>2. image[1] \in Command /\ data'[0] = image[1]
          BY <1>4, <4>1
        <4> QED
          BY <4>2, HalfPositive DEF Command, Word
      <3> QED
        BY <3>1, UnsignedRange, HalfPositive
    <2>2. ASSUME NEW n \in Nat, n > REG_FRM PROVE REG_PC \in 0 .. n - 1
      BY <2>2, RegisterAssumption
    <2> QED
      BY <1>6, <2>1, <2>2, RegisterAssumption
  <1> QED
    BY <1>2, <1>3, <1>4, <1>7 DEF pc

LEMMA FetchKeeps ==
  ASSUME Next, ctl = "fetch", ctl' \in {"fetch", "exec"}
  PROVE  ctl' = "exec" /\ cur' = pc /\ ram' = ram
  <1>1. Fetch
    BY DEF Next, BootLoadFails, BootRefused, BootInitr, LoadFirstPage, Fail, ReloadFails, Nop, Move,
           UnaryCmd, BinaryCmd, LogicCmd, Jmp, If, Call, Ret, Push, Pop, Initr, LogWord, Logs, Strcpy,
           Executing
  <1> QED
    BY <1>1 DEF Fetch

(* A move of a number to a cell that runs on has changed that cell. *)
LEMMA MoveStores ==
  ASSUME MachineInv, Move, pcmd.t0 = "ram", pcmd.t1 = "literal", ctl' \in {"fetch", "exec"}
  PROVE  /\ pcmd.a0 \in DOMAIN ram /\ DOMAIN ram' = DOMAIN ram
         /\ \A x \in DOMAIN ram \ {REG_PC} : ram'[x] = IF x = pcmd.a0 THEN pcmd.a1 ELSE ram[x]
  <1>1. PICK j \in Junk : Finish(Store(ram, pcmd.t0, pcmd.a0, Arg1(j)))
    BY DEF Move
  <1>2. Arg1(j) = {Value(pcmd.a1, TRUE)}
    BY DEF Arg1, GetWord
  <1>3. PICK o \in Store(ram, pcmd.t0, pcmd.a0, Arg1(j)) : Retire(o.ram, o.ok)
    BY <1>1 DEF Finish, Undefined
  <1>4. PICK v \in Arg1(j) : o \in SetWord(ram, pcmd.t0, pcmd.a0, v)
    BY DEF Store
  <1>5. pcmd.a0 \in DOMAIN ram /\ o.ram = [ram EXCEPT ![pcmd.a0] = pcmd.a1]
    <2>1. v.word = pcmd.a1
      BY <1>2 DEF Value
    <2>2. PICK x \in Cells(ram, pcmd.t0, pcmd.a0) : o = Outcome([ram EXCEPT ![x] = v.word], v.ok)
      BY <1>4 DEF SetWord
    <2>3. x = pcmd.a0 /\ x \in DOMAIN ram
      BY DEF Cells
    <2> QED
      BY <2>1, <2>2, <2>3 DEF Outcome
  <1>6. ram' = [[ram EXCEPT ![pcmd.a0] = pcmd.a1] EXCEPT ![REG_PC] = Wrap(@ + 1)]
    BY <1>3, <1>5 DEF Retire
  <1> QED
    BY <1>5, <1>6

(* initr is for the start only. *)
LEMMA InitrFails ==
  ASSUME Initr
  PROVE  ctl' \notin {"fetch", "exec"}
  <1>1. {Outcome(ram, FALSE)} # {}
    OBVIOUS
  <1>2. PICK o \in {Outcome(ram, FALSE)} : Retire(o.ram, o.ok)
    BY <1>1 DEF Initr, Finish
  <1>3. o.ok = FALSE
    BY DEF Outcome
  <1> QED
    BY <1>2, <1>3 DEF Retire

(* Set one too low, the counter is right after its increment. *)
LEMMA CounterSet ==
  ASSUME MachineInv, ctl = "exec", NEW w \in Word, NEW ok, Retire([ram EXCEPT ![REG_PC] = Wrap(w - 1)], ok)
  PROVE  pc' = w
  <1> DEFINE m == [ram EXCEPT ![REG_PC] = Wrap(w - 1)]
  <1>1. REG_PC \in DOMAIN ram
    BY ArgsType
  <1>2. m[REG_PC] = Wrap(w - 1) /\ REG_PC \in DOMAIN m
    BY <1>1
  <1> HIDE DEF m
  <1>3. pc' = Wrap(Wrap(w - 1) + 1)
    BY <1>2 DEF Retire, pc, m
  <1>4. Wrap(Wrap(w - 1) + 1) = w
    BY HalfPositive DEF Wrap, Word
  <1> QED
    BY <1>3, <1>4

(* jmp to an address that is written in it leads there. *)
LEMMA JumpGoes ==
  ASSUME MachineInv, Jmp, pcmd.t0 = "literal", ctl' = "fetch"
  PROVE  pc' = pcmd.a0
  <1>1. ctl = "exec"
    BY DEF Jmp, Executing
  <1>2. PICK j \in Junk : Finish({Jump(ram, v) : v \in Arg0(j)})
    BY DEF Jmp
  <1>3. Arg0(j) = {Value(pcmd.a0, TRUE)}
    BY DEF Arg0, GetWord
  <1>4. Retire([ram EXCEPT ![REG_PC] = Wrap(pcmd.a0 - 1)], TRUE)
    <2>1. PICK v \in Arg0(j) : Retire(Jump(ram, v).ram, Jump(ram, v).ok)
      BY <1>2 DEF Finish, Undefined
    <2>2. v.word = pcmd.a0 /\ v.ok = TRUE
      BY <1>3 DEF Value
    <2> QED
      BY <2>1, <2>2 DEF Jump, Outcome
  <1>5. pcmd.a0 \in Word
    BY <1>1, ArgsType, CommandFields
  <1> QED
    BY <1>1, <1>4, <1>5, CounterSet

(* ift and iff go on, or to the address that is written in them. *)
LEMMA BranchGoes ==
  ASSUME MachineInv, If, pcmd.t1 = "literal", ctl' = "fetch"
  PROVE  pc' \in {pcmd.a1, Wrap(pc + 1)}
  <1>1. ctl = "exec"
    BY DEF If, Executing
  <1>2. PICK j \in Junk, k \in Junk : Finish(Branch(j, k))
    BY DEF If
  <1>3. Arg1(k) = {Value(pcmd.a1, TRUE)}
    BY DEF Arg1, GetWord
  <1>4. PICK o \in Branch(j, k) : Retire(o.ram, o.ok)
    BY <1>2 DEF Finish, Undefined
  <1>5. o.ram = ram \/ o.ram = [ram EXCEPT ![REG_PC] = Wrap(pcmd.a1 - 1)]
    BY <1>3 DEF Branch, Jump, Outcome, Value
  <1>6. CASE o.ram = ram
    BY <1>1, <1>4, <1>6, ArgsType DEF Retire, pc
  <1>7. CASE o.ram = [ram EXCEPT ![REG_PC] = Wrap(pcmd.a1 - 1)]
    <2>1. pcmd.a1 \in Word
      BY <1>1, ArgsType, CommandFields
    <2> QED
      BY <1>1, <1>4, <1>7, <2>1, CounterSet
  <1> QED
    BY <1>5, <1>6, <1>7
=============================================================================
