----------------------- MODULE Chip32Conventions_proofs -----------------------
(* What programs that keep to a convention may rely on. Safe programs      *)
(* never make the machine undefined, for every safe image; and while a     *)
(* program keeps to the calling convention, ret finds what call left, for  *)
(* every width, RAM, program and depth of calls.                           *)
EXTENDS Chip32Programs, Chip32Calls, Chip32_proofs

Size == image[1].a0

Good(m, n) ==
  /\ m \in [0 .. n - 1 -> Word]
  /\ m[REG_STK] = n - 1 /\ m[REG_FRM] = n - 1

SafeInv ==
  SafeImage(image) =>
    /\ ctl # "undef"
    /\ ctl \in {"fetch", "exec"} => Good(ram, Size) /\ pc \in 0 .. Len(image)
    /\ ctl = "exec" => cur = pc

-----------------------------------------------------------------------------
(* A division by a literal other than 0 and -1 does not trap. *)
LEMMA SafeBinary ==
  ASSUME NEW op \in BinaryOps, NEW a \in Word, NEW b \in Word,
         op \in Divides => b \notin {0, -1}
  PROVE  Binary(op, a, b) # {}
  BY BinaryDefined DEF Traps, Divides

(* The fields of a value. *)
LEMMA ValueFields ==
  ASSUME NEW w, NEW ok
  PROVE  Value(w, ok).word = w /\ Value(w, ok).ok = ok
  BY DEF Value

(* A unary command has a value for each operand read and each result, and  *)
(* fails only where an operand does. *)
LEMMA UnaryValueSets ==
  ASSUME NEW op, NEW as
  PROVE  /\ \A a \in as : \A w \in Unary(op, a.word) : Value(w, a.ok) \in UnaryValues(op, as)
         /\ (\A a \in as : a.ok = TRUE) => \A v \in UnaryValues(op, as) : v.ok = TRUE
  <1>1. ASSUME NEW a \in as, NEW w \in Unary(op, a.word)
        PROVE  Value(w, a.ok) \in UnaryValues(op, as)
    <2> DEFINE S == {Value(x, a.ok) : x \in Unary(op, a.word)}
    <2>1. Value(w, a.ok) \in S
      OBVIOUS
    <2>2. S \in {{Value(x, c.ok) : x \in Unary(op, c.word)} : c \in as}
      OBVIOUS
    <2> QED
      BY <2>1, <2>2 DEF UnaryValues
  <1>2. ASSUME NEW v \in UnaryValues(op, as)
        PROVE  (\A a \in as : a.ok = TRUE) => v.ok = TRUE
    <2>1. PICK a \in as : v \in {Value(x, a.ok) : x \in Unary(op, a.word)}
      BY DEF UnaryValues
    <2>2. v.ok = a.ok
      BY <2>1, ValueFields
    <2> QED
      BY <2>2
  <1> QED
    BY <1>1, <1>2

(* And those of a binary command. *)
LEMMA BinaryValueSets ==
  ASSUME NEW op, NEW as, NEW bs
  PROVE  /\ \A a \in as : \A b \in bs : \A w \in Binary(op, a.word, b.word) :
              Value(w, a.ok /\ b.ok) \in BinaryValues(op, as, bs)
         /\ \A v \in BinaryValues(op, as, bs) :
              \E a \in as : \E b \in bs : \E w \in Binary(op, a.word, b.word) :
                v = Value(w, a.ok /\ b.ok)
  <1>1. ASSUME NEW a \in as, NEW b \in bs, NEW w \in Binary(op, a.word, b.word)
        PROVE  Value(w, a.ok /\ b.ok) \in BinaryValues(op, as, bs)
    <2> DEFINE S(c, d) == {Value(x, c.ok /\ d.ok) : x \in Binary(op, c.word, d.word)}
               T(c) == UNION {S(c, d) : d \in bs}
    <2>1. Value(w, a.ok /\ b.ok) \in S(a, b)
      OBVIOUS
    <2>2. BinaryValues(op, as, bs) = UNION {T(c) : c \in as}
      BY DEF BinaryValues
    <2> HIDE DEF S
    <2>3. Value(w, a.ok /\ b.ok) \in T(a)
      BY <2>1
    <2> HIDE DEF T
    <2> QED
      BY <2>2, <2>3
  <1>2. ASSUME NEW v \in BinaryValues(op, as, bs)
        PROVE  \E a \in as : \E b \in bs : \E w \in Binary(op, a.word, b.word) :
                 v = Value(w, a.ok /\ b.ok)
    <2> DEFINE S(c, d) == {Value(x, c.ok /\ d.ok) : x \in Binary(op, c.word, d.word)}
               T(c) == UNION {S(c, d) : d \in bs}
    <2>1. v \in UNION {T(c) : c \in as}
      BY DEF BinaryValues
    <2> HIDE DEF T
    <2>2. PICK a \in as : v \in T(a)
      BY <2>1
    <2> USE DEF T
    <2> HIDE DEF S
    <2>3. PICK b \in bs : v \in S(a, b)
      BY <2>2
    <2> USE DEF S
    <2>4. \E w \in Binary(op, a.word, b.word) : v = Value(w, a.ok /\ b.ok)
      BY <2>3
    <2> QED
      BY <2>4
  <1> QED
    BY <1>1, <1>2

(* A command whose operands were read without failing, and which has a     *)
(* result on each of them, has a value to store, and does not fail. *)
LEMMA DefinedValues ==
  ASSUME NEW as \in SUBSET Values, NEW bs \in SUBSET Values, as # {}, bs # {},
         \A a \in as : a.ok = TRUE, \A b \in bs : b.ok = TRUE
  PROVE  /\ \A op : (\A a \in as : Unary(op, a.word) # {}) =>
              UnaryValues(op, as) # {} /\ \A v \in UnaryValues(op, as) : v.ok = TRUE
         /\ \A op : (\A a \in as, b \in bs : Binary(op, a.word, b.word) # {}) =>
              /\ BinaryValues(op, as, bs) # {}
              /\ \A v \in BinaryValues(op, as, bs) : v.ok = TRUE
         /\ \A op : (\A a \in as, b \in bs : Binary(op, a.word, b.word) # {}) =>
              /\ ShortCircuit(op, as, bs) # {}
              /\ \A v \in ShortCircuit(op, as, bs) : v.ok = TRUE
  <1>1. ASSUME NEW op, \A a \in as : Unary(op, a.word) # {}
        PROVE  UnaryValues(op, as) # {} /\ \A v \in UnaryValues(op, as) : v.ok = TRUE
    <2>1. UnaryValues(op, as) # {}
      <3>1. PICK a \in as : TRUE
        OBVIOUS
      <3>2. PICK w \in Unary(op, a.word) : TRUE
        BY <1>1
      <3> QED
        BY <3>2, UnaryValueSets
    <2>2. ASSUME NEW v \in UnaryValues(op, as) PROVE v.ok = TRUE
      BY <2>2, UnaryValueSets
    <2> QED
      BY <2>1, <2>2
  <1>2. ASSUME NEW op, NEW cs \in SUBSET as, cs # {},
               \A a \in as, b \in bs : Binary(op, a.word, b.word) # {}
        PROVE  BinaryValues(op, cs, bs) # {}
    <2>1. PICK a \in cs, b \in bs : TRUE
      BY <1>2
    <2>2. PICK w \in Binary(op, a.word, b.word) : TRUE
      BY <1>2, <2>1
    <2> QED
      BY <2>2, BinaryValueSets
  <1>3. ASSUME NEW op, NEW cs \in SUBSET as, NEW v \in BinaryValues(op, cs, bs)
        PROVE  v.ok = TRUE
    <2>1. PICK a \in cs, b \in bs : \E w \in Binary(op, a.word, b.word) :
            v = Value(w, a.ok /\ b.ok)
      BY BinaryValueSets
    <2> QED
      BY <2>1, ValueFields
  <1>4. ASSUME NEW op, \A a \in as, b \in bs : Binary(op, a.word, b.word) # {}
        PROVE  /\ ShortCircuit(op, as, bs) # {}
               /\ \A v \in ShortCircuit(op, as, bs) : v.ok = TRUE
    <2> DEFINE rest == {x \in as : ~Decides(op, x)}
    <2>1. rest \in SUBSET as
      OBVIOUS
    <2>2. ASSUME NEW v \in ShortCircuit(op, as, bs) PROVE v.ok = TRUE
      <3>1. CASE v \in BinaryValues(op, rest, bs)
        BY <1>3, <2>1, <3>1
      <3>2. CASE \E a \in as : v = Value(Truth(op = "bor"), a.ok)
        <4>1. PICK a \in as : v = Value(Truth(op = "bor"), a.ok)
          BY <3>2
        <4>2. a.ok = TRUE
          OBVIOUS
        <4> QED
          BY <4>1, <4>2, ValueFields
      <3> QED
        BY <3>1, <3>2 DEF ShortCircuit
    <2>3. CASE rest # {}
      BY <1>2, <1>4, <2>1, <2>2, <2>3 DEF ShortCircuit
    <2>4. CASE rest = {}
      <3>1. PICK a \in as : Decides(op, a)
        BY <2>4
      <3>2. Value(Truth(op = "bor"), a.ok) \in ShortCircuit(op, as, bs)
        BY <3>1 DEF ShortCircuit
      <3> QED
        BY <2>2, <3>2
    <2> QED
      BY <2>3, <2>4
  <1> QED
    BY <1>1, <1>2, <1>3, <1>4

(* A readable operand of the command being executed reads exactly one word, *)
(* and never fails. *)
LEMMA ReadableArgs ==
  ASSUME ram \in [0 .. Size - 1 -> Word], pcmd.a0 \in Word, pcmd.a1 \in Word, NEW j
  PROVE  /\ Readable(pcmd.t0, pcmd.a0, Size) => \E w \in Word : Arg0(j) = {Value(w, TRUE)}
         /\ Readable(pcmd.t1, pcmd.a1, Size) => \E w \in Word : Arg1(j) = {Value(w, TRUE)}
  <1>1. ASSUME NEW t, NEW r \in Word, Readable(t, r, Size)
        PROVE  \E w \in Word : GetWord(ram, t, r, j) = {Value(w, TRUE)}
    <2>1. CASE t = "literal"
      BY <2>1 DEF GetWord, DataWords
    <2>2. CASE t = "ram" /\ r \in 0 .. Size - 1
      <3>1. Cells(ram, t, r) = {r} /\ ram[r] \in Word
        BY <2>2 DEF Cells
      <3>2. GetWord(ram, t, r, j) = {Value(ram[r], TRUE)}
        BY <2>2, <3>1 DEF GetWord
      <3> QED
        BY <3>1, <3>2
    <2> QED
      BY <1>1, <2>1, <2>2 DEF Readable
  <1> QED
    BY <1>1 DEF Arg0, Arg1

-----------------------------------------------------------------------------
(* A command that leaves the registers alone, moves the program counter to *)
(* one before a place of the image, and fails in no outcome, leads to a    *)
(* good fetch. *)
LEMMA SafeFinish ==
  ASSUME MachineInv, SafeImage(image), ctl = "exec", Good(ram, Size),
         NEW outcomes, outcomes # {}, Finish(outcomes),
         \A o \in outcomes : o.ok = TRUE /\ Good(o.ram, Size) /\ o.ram[REG_PC] \in -1 .. Len(image) - 1
  PROVE  SafeInv'
  <1>1. PICK o \in outcomes : Retire(o.ram, o.ok)
    BY DEF Finish
  <1>2. image' = image /\ Size' = Size
    BY DEF Finish, Size
  <1>3. REG_FRM \in 0 .. Size - 1 /\ REG_PC \in 0 .. Size - 1 /\ REG_STK \in 0 .. Size - 1
    <2>1. REG_FRM \in DOMAIN ram /\ REG_PC \in DOMAIN ram /\ REG_STK \in DOMAIN ram
      BY ArgsType
    <2> QED
      BY <2>1 DEF Good
  <1>4. Len(image) \in Nat /\ Len(image) < Half
    BY MachineAssumption, HalfPositive DEF SafeImage, MachineInv, TypeOK
  <1>5. o.ram[REG_PC] + 1 \in 0 .. Len(image) /\ o.ram[REG_PC] + 1 \in Word
    BY <1>4, HalfPositive DEF Word
  <1>6. Wrap(o.ram[REG_PC] + 1) = o.ram[REG_PC] + 1
    BY <1>5, WrapSmall
  <1>7. ram' = [o.ram EXCEPT ![REG_PC] = o.ram[REG_PC] + 1] /\ Good(o.ram, Size)
    BY <1>1, <1>6 DEF Retire
  <1>8. Good(ram', Size) /\ ram'[REG_PC] \in 0 .. Len(image)
    <2>1. o.ram \in [0 .. Size - 1 -> Word] /\ REG_STK # REG_PC /\ REG_FRM # REG_PC
      BY <1>7, RegisterAssumption DEF Good
    <2> QED
      BY <1>3, <1>5, <1>7, <2>1 DEF Good
  <1>9. ctl' \in {"stopped", "fetch"}
    BY <1>1 DEF Retire
  <1>10. Good(ram', Size') /\ pc' \in 0 .. Len(image')
    BY <1>2, <1>8 DEF pc
  <1> QED
    BY <1>9, <1>10 DEF SafeInv

(* Storing words in a writable cell is such a command. *)
LEMMA SafeStore ==
  ASSUME MachineInv, ctl = "exec", Good(ram, Size), NEW t, NEW a, Writable(t, a, Size),
         NEW values \in SUBSET Values, values # {}, \A v \in values : v.ok = TRUE
  PROVE  /\ Store(ram, t, a, values) # {}
         /\ \A o \in Store(ram, t, a, values) :
              o.ok = TRUE /\ Good(o.ram, Size) /\ o.ram[REG_PC] = ram[REG_PC]
  <1>1. t = "ram" /\ Cells(ram, t, a) = {a} /\ a \in 0 .. Size - 1
        /\ a # REG_PC /\ a # REG_STK /\ a # REG_FRM
    BY DEF Writable, Cells, Good, Registers
  <1>2. \A v : SetWord(ram, t, a, v) = {Outcome([ram EXCEPT ![a] = v.word], v.ok)}
    BY <1>1 DEF SetWord
  <1>3. \A v \in values : Outcome([ram EXCEPT ![a] = v.word], v.ok) \in Store(ram, t, a, values)
    BY <1>2 DEF Store
  <1>4. ASSUME NEW o \in Store(ram, t, a, values)
        PROVE  o.ok = TRUE /\ Good(o.ram, Size) /\ o.ram[REG_PC] = ram[REG_PC]
    <2>1. PICK v \in values : o = Outcome([ram EXCEPT ![a] = v.word], v.ok)
      BY <1>2 DEF Store
    <2>2. v.word \in Word /\ v.ok = TRUE
      BY RecordTypes
    <2>3. o.ram = [ram EXCEPT ![a] = v.word] /\ o.ok = TRUE
      BY <2>1, <2>2 DEF Outcome
    <2> QED
      BY <1>1, <2>2, <2>3 DEF Good
  <1> QED
    BY <1>3, <1>4

(* The command being executed is one the image holds, and is safe. *)
LEMMA CurrentCommand ==
  ASSUME MachineInv, PageInv, SafeInv, SafeImage(image), ctl = "exec"
  PROVE  /\ pcmd \in Command /\ pcmd.cmd \notin Scans
         /\ pcmd.cmd = "initr" \/ SafeCommand(pcmd, Size, Len(image))
         /\ Good(ram, Size) /\ ram[REG_PC] \in 0 .. Len(image) - 1
         /\ Len(image) \in Nat /\ Len(image) < Half
  <1>1. Len(image) \in Nat /\ Len(image) < PageSize /\ PageSize < Half /\ ncmds \in Nat
        /\ ncmds <= Len(image) /\ cur \in Nat /\ cur < ncmds
    BY FirstCount, MachineAssumption DEF SafeImage, MachineInv, TypeOK, PageInv
  <1>2. cur \in 0 .. ncmds - 1 /\ cur + 1 \in 1 .. Len(image)
    BY <1>1
  <1>3. Agrees(pcmd, image[cur + 1])
    BY <1>2 DEF PageInv, pcmd
  <1>4. image[cur + 1].cmd = "initr" \/ SafeCommand(image[cur + 1], Size, Len(image))
    <2>1. CASE cur = 0
      BY <2>1 DEF SafeImage
    <2>2. CASE cur # 0
      <3>1. cur + 1 \in 2 .. Len(image)
        BY <1>1, <1>2, <2>2
      <3> QED
        BY <3>1 DEF SafeImage, Size
    <2> QED
      BY <2>1, <2>2
  <1>5. image[cur + 1].cmd \notin Scans
    BY <1>4 DEF SafeCommand, SafeUpdate, SafeBranch, Scans, UnaryOps, BinaryOps
  <1>6. pcmd = image[cur + 1]
    BY <1>3, <1>5 DEF Agrees
  <1>7. pcmd \in Command
    BY ArgsType
  <1>8. Good(ram, Size) /\ cur = ram[REG_PC]
    BY DEF SafeInv, pc
  <1>9. ram[REG_PC] \in 0 .. Len(image) - 1 /\ Len(image) < Half
    BY <1>1, <1>8, MachineAssumption, HalfPositive
  <1> QED
    BY <1>1, <1>4, <1>5, <1>6, <1>7, <1>8, <1>9

(* Every safe command keeps the machine safe. *)
LEMMA SafeStep ==
  ASSUME MachineInv, PageInv, SafeInv, SafeImage(image),
         \/ Nop \/ Move \/ UnaryCmd \/ BinaryCmd \/ LogicCmd \/ Jmp \/ If
         \/ Call \/ Ret \/ Push \/ Pop \/ Initr \/ LogWord
  PROVE  SafeInv'
  <1>1. ctl = "exec"
    BY DEF Nop, Move, UnaryCmd, BinaryCmd, LogicCmd, Jmp, If, Call, Ret, Push, Pop,
           Initr, LogWord, Executing
  <1>2. /\ pcmd \in Command
        /\ pcmd.cmd = "initr" \/ SafeCommand(pcmd, Size, Len(image))
        /\ Good(ram, Size) /\ ram \in [0 .. Size - 1 -> Word]
        /\ ram[REG_PC] \in 0 .. Len(image) - 1 /\ ram[REG_PC] \in -1 .. Len(image) - 1
        /\ Len(image) \in Nat /\ Len(image) < Half
        /\ pcmd.a0 \in Word /\ pcmd.a1 \in Word
    BY <1>1, CurrentCommand, CommandFields DEF Good
  <1>3. CASE Initr
    <2>1. PICK outcomes : outcomes = {Outcome(ram, FALSE)} /\ Finish(outcomes)
      BY <1>3 DEF Initr
    <2>2. outcomes # {} /\ \A o \in outcomes : o.ok = FALSE
      BY <2>1 DEF Outcome
    <2>3. PICK o \in outcomes : Retire(o.ram, o.ok)
      BY <2>1, <2>2 DEF Finish
    <2>4. ctl' = "stopped"
      BY <2>2, <2>3 DEF Retire
    <2> QED
      BY <2>4 DEF SafeInv
  <1>4. CASE Nop \/ LogWord
    <2>1. PICK outcomes : outcomes = {Outcome(ram, TRUE)} /\ Finish(outcomes)
      <3>1. CASE Nop
        BY <3>1 DEF Nop
      <3>2. CASE LogWord
        <4>1. PICK j \in Junk : Finish({Outcome(ram, v.ok) : v \in Arg0(j)})
          BY <3>2 DEF LogWord
        <4>2. Readable(pcmd.t0, pcmd.a0, Size)
          BY <1>2, <3>2 DEF LogWord, Executing, SafeCommand, SafeUpdate, SafeBranch,
                            UnaryOps, BinaryOps
        <4>3. PICK w \in Word : Arg0(j) = {Value(w, TRUE)}
          BY <1>2, <4>2, ReadableArgs
        <4>4. {Outcome(ram, v.ok) : v \in Arg0(j)} = {Outcome(ram, TRUE)}
          <5>1. Value(w, TRUE).ok = TRUE
            BY ValueFields
          <5> QED
            BY <4>3, <5>1
        <4> QED
          BY <4>1, <4>4
      <3> QED
        BY <1>4, <3>1, <3>2
    <2>2. \A o \in outcomes : o.ok = TRUE /\ o.ram = ram
      BY <2>1 DEF Outcome
    <2> QED
      BY <1>1, <1>2, <2>1, <2>2, SafeFinish
  <1>5. CASE Move \/ UnaryCmd \/ BinaryCmd \/ LogicCmd
    <2>1. SafeUpdate(pcmd, Size)
      BY <1>2, <1>5 DEF Move, UnaryCmd, BinaryCmd, LogicCmd, Executing, SafeCommand,
                        SafeBranch, UnaryOps, BinaryOps
    <2>2. Writable(pcmd.t0, pcmd.a0, Size) /\ Readable(pcmd.t0, pcmd.a0, Size)
      BY <2>1 DEF SafeUpdate, Writable, Readable
    <2>3. \A j : \E w \in Word : Arg0(j) = {Value(w, TRUE)}
      BY <1>2, <2>2, ReadableArgs
    <2>4. pcmd.cmd \notin UnaryOps =>
            \A j : \E w \in Word : /\ Arg1(j) = {Value(w, TRUE)}
                                   /\ pcmd.cmd \in Divides => w \notin {0, -1}
      <3>1. ASSUME pcmd.cmd \notin UnaryOps, NEW j
            PROVE  \E w \in Word : /\ Arg1(j) = {Value(w, TRUE)}
                                   /\ pcmd.cmd \in Divides => w \notin {0, -1}
        <4>1. CASE pcmd.cmd \in Divides
          <5>1. Arg1(j) = {Value(pcmd.a1, TRUE)} /\ pcmd.a1 \notin {0, -1}
            BY <2>1, <4>1 DEF SafeUpdate, Arg1, GetWord
          <5> QED
            BY <1>2, <5>1
        <4>2. CASE pcmd.cmd \notin Divides
          <5>1. Readable(pcmd.t1, pcmd.a1, Size)
            BY <2>1, <3>1 DEF SafeUpdate
          <5> QED
            BY <1>2, <4>2, <5>1, ReadableArgs
        <4> QED
          BY <4>1, <4>2
      <3> QED
        BY <3>1
    <2>5. PICK values \in SUBSET Values :
            /\ values # {} /\ \A v \in values : v.ok = TRUE
            /\ Finish(Store(ram, pcmd.t0, pcmd.a0, values))
      <3>0. \A w \in Word : /\ {Value(w, TRUE)} \in SUBSET Values
                            /\ Value(w, TRUE).ok = TRUE /\ Value(w, TRUE).word = w
        BY RecordTypes, ValueFields
      <3>1. CASE Move
        <4>1. PICK j \in Junk : Finish(Store(ram, pcmd.t0, pcmd.a0, Arg1(j)))
          BY <3>1 DEF Move
        <4>2. PICK w \in Word : Arg1(j) = {Value(w, TRUE)}
          BY <2>4, <3>1 DEF Move, Executing, UnaryOps
        <4> QED
          BY <3>0, <4>1, <4>2
      <3>2. CASE UnaryCmd
        <4>1. PICK j \in Junk :
                Finish(Store(ram, pcmd.t0, pcmd.a0, UnaryValues(pcmd.cmd, Arg0(j))))
          BY <3>2 DEF UnaryCmd
        <4>2. PICK w \in Word : Arg0(j) = {Value(w, TRUE)}
          BY <2>3
        <4>3. pcmd.cmd \in UnaryOps
          BY <3>2 DEF UnaryCmd, Executing
        <4>4. /\ Arg0(j) \in SUBSET Values /\ Arg0(j) # {} /\ \A a \in Arg0(j) : a.ok = TRUE
              /\ \A a \in Arg0(j) : Unary(pcmd.cmd, a.word) # {}
          BY <3>0, <4>2, <4>3, UnaryDefined
        <4>5. /\ UnaryValues(pcmd.cmd, Arg0(j)) \in SUBSET Values
              /\ UnaryValues(pcmd.cmd, Arg0(j)) # {}
              /\ \A v \in UnaryValues(pcmd.cmd, Arg0(j)) : v.ok = TRUE
          BY <4>3, <4>4, ValuesType, DefinedValues
        <4> QED
          BY <4>1, <4>5
      <3>3. CASE BinaryCmd \/ LogicCmd
        <4>1. pcmd.cmd \in BinaryOps /\ pcmd.cmd \notin UnaryOps
          BY <3>3 DEF BinaryCmd, LogicCmd, Executing, BinaryOps, UnaryOps
        <4>2. PICK j \in Junk, k \in Junk :
                \/ Finish(Store(ram, pcmd.t0, pcmd.a0, BinaryValues(pcmd.cmd, Arg0(j), Arg1(k))))
                \/ pcmd.cmd \in {"bor", "band"} /\
                   Finish(Store(ram, pcmd.t0, pcmd.a0, ShortCircuit(pcmd.cmd, Arg0(j), Arg1(k))))
          BY <3>3 DEF BinaryCmd, LogicCmd, Executing
        <4>3. PICK a \in Word : Arg0(j) = {Value(a, TRUE)}
          BY <2>3
        <4>4. PICK b \in Word : /\ Arg1(k) = {Value(b, TRUE)}
                                /\ pcmd.cmd \in Divides => b \notin {0, -1}
          BY <2>4, <4>1
        <4>5. /\ Arg0(j) \in SUBSET Values /\ Arg0(j) # {} /\ \A x \in Arg0(j) : x.ok = TRUE
              /\ Arg1(k) \in SUBSET Values /\ Arg1(k) # {} /\ \A x \in Arg1(k) : x.ok = TRUE
          BY <3>0, <4>3, <4>4
        <4>6. \A x \in Arg0(j), y \in Arg1(k) : Binary(pcmd.cmd, x.word, y.word) # {}
          <5>1. Binary(pcmd.cmd, a, b) # {}
            BY <4>1, <4>4, SafeBinary
          <5>2. Value(a, TRUE).word = a /\ Value(b, TRUE).word = b
            BY <3>0
          <5> QED
            BY <4>3, <4>4, <5>1, <5>2
        <4>7. CASE Finish(Store(ram, pcmd.t0, pcmd.a0, BinaryValues(pcmd.cmd, Arg0(j), Arg1(k))))
          <5>1. /\ BinaryValues(pcmd.cmd, Arg0(j), Arg1(k)) \in SUBSET Values
                /\ BinaryValues(pcmd.cmd, Arg0(j), Arg1(k)) # {}
                /\ \A v \in BinaryValues(pcmd.cmd, Arg0(j), Arg1(k)) : v.ok = TRUE
            BY <4>1, <4>5, <4>6, ValuesType, DefinedValues
          <5> QED
            BY <4>7, <5>1
        <4>8. CASE /\ pcmd.cmd \in {"bor", "band"}
                   /\ Finish(Store(ram, pcmd.t0, pcmd.a0,
                                   ShortCircuit(pcmd.cmd, Arg0(j), Arg1(k))))
          <5>1. /\ ShortCircuit(pcmd.cmd, Arg0(j), Arg1(k)) \in SUBSET Values
                /\ ShortCircuit(pcmd.cmd, Arg0(j), Arg1(k)) # {}
                /\ \A v \in ShortCircuit(pcmd.cmd, Arg0(j), Arg1(k)) : v.ok = TRUE
            BY <4>5, <4>6, <4>8, ValuesType, DefinedValues
          <5> QED
            BY <4>8, <5>1
        <4> QED
          BY <4>2, <4>7, <4>8
      <3> QED
        BY <1>5, <3>1, <3>2, <3>3
    <2>6. /\ Store(ram, pcmd.t0, pcmd.a0, values) # {}
          /\ \A o \in Store(ram, pcmd.t0, pcmd.a0, values) :
               o.ok = TRUE /\ Good(o.ram, Size) /\ o.ram[REG_PC] = ram[REG_PC]
      BY <1>1, <1>2, <2>2, <2>5, SafeStore
    <2> QED
      BY <1>1, <1>2, <2>5, <2>6, SafeFinish
  <1>6. ASSUME NEW a \in 0 .. Len(image), NEW ok, ok = TRUE
        PROVE  /\ Jump(ram, Value(a, ok)).ok = TRUE
               /\ Good(Jump(ram, Value(a, ok)).ram, Size)
               /\ Jump(ram, Value(a, ok)).ram[REG_PC] \in -1 .. Len(image) - 1
    <2>1. a - 1 \in Word /\ a - 1 \in -1 .. Len(image) - 1
      BY <1>2, HalfPositive DEF Word
    <2>2. Wrap(a - 1) = a - 1
      BY <2>1, WrapSmall
    <2>3. Jump(ram, Value(a, ok)) = [ram |-> [ram EXCEPT ![REG_PC] = a - 1], ok |-> ok]
      BY <2>2 DEF Jump, Value, Outcome
    <2>4. REG_PC \in 0 .. Size - 1
      <3>1. REG_PC \in DOMAIN ram
        BY <1>1, ArgsType
      <3> QED
        BY <1>2, <3>1
    <2>5. REG_PC # REG_STK /\ REG_PC # REG_FRM
      BY RegisterAssumption
    <2> QED
      BY <1>2, <1>6, <2>1, <2>3, <2>4, <2>5 DEF Good
  <1>7. CASE Jmp
    <2>1. PICK j \in Junk : Finish({Jump(ram, v) : v \in Arg0(j)})
      BY <1>7 DEF Jmp
    <2>2. pcmd.t0 = "literal" /\ pcmd.a0 \in 0 .. Len(image)
      BY <1>2, <1>7 DEF Jmp, Executing, SafeCommand, SafeUpdate, SafeBranch, UnaryOps, BinaryOps
    <2>3. {Jump(ram, v) : v \in Arg0(j)} = {Jump(ram, Value(pcmd.a0, TRUE))}
      BY <2>2 DEF Arg0, GetWord
    <2> QED
      BY <1>1, <1>2, <1>6, <2>1, <2>2, <2>3, SafeFinish
  <1>8. CASE If
    <2>1. PICK j \in Junk, k \in Junk : Finish(Branch(j, k))
      BY <1>8 DEF If
    <2>2. /\ Readable(pcmd.t0, pcmd.a0, Size)
          /\ pcmd.t1 = "literal" /\ pcmd.a1 \in 0 .. Len(image)
      BY <1>2, <1>8 DEF If, Executing, SafeCommand, SafeUpdate, SafeBranch, UnaryOps, BinaryOps
    <2>3. PICK w \in Word : Arg0(j) = {Value(w, TRUE)}
      BY <1>2, <2>2, ReadableArgs
    <2>4. Arg1(k) = {Value(pcmd.a1, TRUE)}
      BY <2>2 DEF Arg1, GetWord
    <2>5. /\ Value(w, TRUE).word = w /\ Value(w, TRUE).ok = TRUE
          /\ Value(pcmd.a1, TRUE).word = pcmd.a1 /\ Value(pcmd.a1, TRUE).ok = TRUE
      BY ValueFields
    <2>6. Branch(j, k) # {}
      <3>1. CASE Falls(Value(w, TRUE))
        <4>1. Outcome(ram, Value(w, TRUE).ok) \in Branch(j, k)
          BY <2>3, <3>1 DEF Branch
        <4> QED
          BY <4>1
      <3>2. CASE ~Falls(Value(w, TRUE))
        <4> DEFINE S(v) == {Jump(ram, Value(t.word, v.ok /\ t.ok)) : t \in Arg1(k)}
        <4>1. Value(w, TRUE) \in {x \in Arg0(j) : ~Falls(x)} /\ Value(pcmd.a1, TRUE) \in Arg1(k)
          BY <2>3, <2>4, <3>2
        <4>2. \E o : o \in S(Value(w, TRUE))
          BY <4>1
        <4>3. UNION {S(v) : v \in {x \in Arg0(j) : ~Falls(x)}} \subseteq Branch(j, k)
          BY DEF Branch
        <4> HIDE DEF S
        <4> QED
          BY <4>1, <4>2, <4>3
      <3> QED
        BY <3>1, <3>2
    <2>7. ASSUME NEW o \in Branch(j, k)
          PROVE  o.ok = TRUE /\ Good(o.ram, Size) /\ o.ram[REG_PC] \in -1 .. Len(image) - 1
      <3>1. CASE \E v \in Arg0(j) : o = Outcome(ram, v.ok)
        <4>1. o = Outcome(ram, TRUE)
          BY <2>3, <2>5, <3>1
        <4>2. o.ok = TRUE /\ o.ram = ram
          BY <4>1 DEF Outcome
        <4> QED
          BY <1>2, <4>2
      <3>2. CASE \E v \in Arg0(j), t \in Arg1(k) : o = Jump(ram, Value(t.word, v.ok /\ t.ok))
        <4>1. PICK v \in Arg0(j), t \in Arg1(k) : o = Jump(ram, Value(t.word, v.ok /\ t.ok))
          BY <3>2
        <4>2. (v.ok /\ t.ok) = TRUE /\ t.word \in 0 .. Len(image)
          BY <2>2, <2>3, <2>4, <2>5
        <4> QED
          BY <1>6, <4>1, <4>2
      <3> QED
        BY <3>1, <3>2 DEF Branch
    <2> QED
      BY <1>1, <1>2, <2>1, <2>6, <2>7, SafeFinish
  <1>9. ~Call /\ ~Ret /\ ~Push /\ ~Pop
    BY <1>2 DEF Call, Ret, Push, Pop, Executing, SafeCommand, SafeUpdate, SafeBranch,
                UnaryOps, BinaryOps
  <1> QED
    BY <1>3, <1>4, <1>5, <1>7, <1>8, <1>9

(* Booting a safe image leaves a good RAM, with the program counter at the *)
(* command after initr. *)
LEMMA SafeBoot ==
  ASSUME MachineInv, SafeImage(image), BootLoadFails \/ BootRefused \/ BootInitr
  PROVE  SafeInv'
  <1>1. CASE BootLoadFails \/ BootRefused
    BY <1>1 DEF BootLoadFails, BootRefused, Fail, SafeInv
  <1>2. CASE BootInitr
    <2>1. /\ Len(image) \in Nat /\ 1 <= Len(image) /\ Len(image) < PageSize
          /\ image[1] \in Command /\ Size \in Word /\ Size > REG_FRM /\ REG_FRM \in Nat
      BY MachineAssumption, RegisterAssumption, CommandFields
      DEF SafeImage, MachineInv, TypeOK, Size
    <2>2. data'[0].a0 = Size /\ image' = image /\ Size' = Size
      <3>1. LoadFirstPage /\ data'[0].cmd = "initr"
        BY <1>2 DEF BootInitr
      <3> QED
        BY <3>1, InitrIsRead DEF LoadFirstPage, Size
    <2>3. Unsigned(Size) = Size
      BY <2>1, HalfPositive DEF Unsigned, Word
    <2>4. Wrap(Size - 1) = Size - 1
      <3>1. Size - 1 \in Word
        BY <2>1, HalfPositive DEF Word
      <3> QED
        BY <3>1, WrapSmall
    <2>5. /\ ctl' = "fetch"
          /\ \E m \in [0 .. Size - 1 -> Junk] :
               ram' = [m EXCEPT ![REG_PC] = 1, ![REG_STK] = Size - 1, ![REG_FRM] = Size - 1]
      <3>1. ~(Size <= REG_FRM)
        BY <2>1, HalfPositive DEF Word
      <3> QED
        BY <1>2, <2>2, <2>3, <2>4, <3>1 DEF BootInitr
    <2>6. PICK m \in [0 .. Size - 1 -> Junk] :
            ram' = [m EXCEPT ![REG_PC] = 1, ![REG_STK] = Size - 1, ![REG_FRM] = Size - 1]
      BY <2>5
    <2>7. m \in [0 .. Size - 1 -> Word] /\ 1 \in Word /\ Size - 1 \in Word
      <3>1. 1 \in Word /\ Size - 1 \in Word
        BY <2>1, HalfPositive DEF Word
      <3> QED
        BY <3>1, MachineAssumption
    <2>8. REG_PC \in 0 .. Size - 1 /\ REG_STK \in 0 .. Size - 1 /\ REG_FRM \in 0 .. Size - 1
      BY <2>1, RegisterAssumption, HalfPositive DEF Word
    <2>9. Good(ram', Size) /\ ram'[REG_PC] = 1
      BY <2>6, <2>7, <2>8, RegisterAssumption DEF Good
    <2>10. Good(ram', Size') /\ pc' \in 0 .. Len(image')
      BY <2>1, <2>2, <2>9 DEF pc
    <2> QED
      BY <2>5, <2>10 DEF SafeInv
  <1> QED
    BY <1>1, <1>2

(* A fetch of a safe program finds its command in the page, or ends. *)
LEMMA SafeFetch ==
  ASSUME MachineInv, PageInv, SafeInv, SafeImage(image), Fetch \/ ReloadFails
  PROVE  SafeInv'
  <1>1. CASE ReloadFails
    BY <1>1 DEF ReloadFails, Fail, SafeInv
  <1>2. CASE Fetch
    <2>1. /\ Good(ram, Size) /\ pc \in 0 .. Len(image)
          /\ image' = image /\ ram' = ram /\ Size' = Size
      BY <1>2 DEF Fetch, PastEnd, SafeInv, Size
    <2>2. pc \in 0 .. PageSize - 1
      BY <2>1, MachineAssumption DEF SafeImage, MachineInv, TypeOK
    <2>3. pc \in DOMAIN data
      BY <2>2 DEF MachineInv, TypeOK
    <2>4. ctl' = "stopped" \/ (ctl' = "exec" /\ cur' = pc)
      BY <1>2, <2>3 DEF Fetch, PastEnd
    <2>5. Good(ram', Size') /\ pc' \in 0 .. Len(image') /\ pc' = pc
      BY <2>1 DEF pc
    <2> QED
      BY <2>4, <2>5 DEF SafeInv
  <1> QED
    BY <1>1, <1>2

(* The argument, as an induction: every step of the machine keeps a safe   *)
(* program safe. *)
LEMMA SafeNext ==
  MachineInv /\ PageInv /\ SafeInv /\ [Next]_vars => SafeInv'
  <1> SUFFICES ASSUME MachineInv, PageInv, SafeInv, [Next]_vars, SafeImage(image)'
               PROVE  SafeInv'
    BY DEF SafeInv
  <1>1. image' = image
    BY DEF Next, vars, BootLoadFails, BootRefused, BootInitr, LoadFirstPage, ReloadFails,
           Fetch, Nop, Move, UnaryCmd, BinaryCmd, LogicCmd, Jmp, If, Call, Ret, Push, Pop,
           Initr, LogWord, Finish, Logs, Strcpy
  <1>2. SafeImage(image)
    BY <1>1 DEF SafeImage
  <1>3. CASE UNCHANGED vars
    BY <1>2, <1>3 DEF vars, SafeInv, Size, pc
  <1>4. CASE Logs \/ Strcpy
    BY <1>2, <1>4, CurrentCommand DEF Logs, Strcpy, Executing, Scans
  <1> QED
    BY <1>2, <1>3, <1>4, SafeBoot, SafeFetch, SafeStep DEF Next

LEMMA SafeAlways == Spec => []SafeInv
  <1>1. Init => SafeInv
    BY DEF Init, SafeInv
  <1>2. MachineInv /\ PageInv /\ SafeInv /\ [Next]_vars => SafeInv'
    BY SafeNext
  <1> QED
    BY <1>1, <1>2, PageAlways, PTL DEF Spec

(* A safe program keeps the machine inside the C language, for every width *)
(* of words, size of RAM, length of program and content of uninitialised   *)
(* memory. *)
THEOREM SafePrograms == Spec => []StaysDefined
  <1>1. SafeInv => StaysDefined
    BY DEF SafeInv, StaysDefined
  <1> QED
    BY <1>1, SafeAlways, PTL

(* Its program counter never leaves the image, and its stack registers are *)
(* those that initr set. *)
THEOREM SafeRegisters == Spec => []KeepsRegisters
  <1>1. SafeInv => KeepsRegisters
    BY DEF SafeInv, KeepsRegisters, Good, Size
  <1> QED
    BY <1>1, SafeAlways, PTL

-----------------------------------------------------------------------------
Activation == [ret : Word, stk : Word, frm : Word]

(* FramesIntact, with the order of every two frames instead of neighbours. *)
FramesOn(m, cs) ==
  /\ \A k \in DOMAIN cs :
       /\ cs[k].stk \in DOMAIN m /\ cs[k].stk - 1 > REG_FRM
       /\ m[cs[k].stk] = cs[k].ret /\ m[cs[k].stk - 1] = cs[k].frm
       /\ k > 1 => cs[k].frm = cs[k - 1].stk - 2
       /\ \A j \in 1 .. k - 1 : cs[k].stk <= cs[j].stk - 2
  /\ cs # <<>> => m[REG_FRM] = cs[Len(cs)].stk - 2

CallsInv ==
  /\ calls \in Seq(Activation) /\ respected \in BOOLEAN
  /\ ctl = "boot" => calls = <<>>
  /\ respected /\ ctl \in {"fetch", "exec"} => FramesOn(ram, calls)

-----------------------------------------------------------------------------
(* An open call is recorded with words. *)
LEMMA ActivationFields ==
  ASSUME calls \in Seq(Activation)
  PROVE  /\ Len(calls) \in Nat /\ DOMAIN calls = 1 .. Len(calls)
         /\ \A k \in DOMAIN calls :
              calls[k].ret \in Word /\ calls[k].stk \in Word /\ calls[k].frm \in Word
<1>1. Len(calls) \in Nat /\ DOMAIN calls = 1 .. Len(calls)
  OBVIOUS
<1>2. \A k \in DOMAIN calls : calls[k] \in Activation
  BY <1>1
<1> QED
  BY <1>1, <1>2 DEF Activation

(* CallsInv is more than FramesIntact: neighbours are two of the frames. *)
LEMMA FramesSuffice ==
  ASSUME MachineInv, CallsInv
  PROVE  FramesIntact
<1> SUFFICES ASSUME respected, ctl \in {"fetch", "exec"}, NEW k \in DOMAIN calls
    PROVE  /\ Frame(k) \subseteq DOMAIN ram \ Registers
           /\ ram[calls[k].stk] = calls[k].ret
           /\ ram[calls[k].stk - 1] = calls[k].frm
           /\ k > 1 => calls[k].stk <= calls[k - 1].stk - 2 /\ calls[k].frm = calls[k - 1].stk - 2
           /\ k = Len(calls) => ram[REG_FRM] = calls[k].stk - 2
  BY DEF FramesIntact
<1>1. FramesOn(ram, calls) /\ k \in 1 .. Len(calls) /\ Len(calls) \in Nat /\ calls[k].stk \in Int
  BY ActivationFields, HalfPositive DEF CallsInv, Word
<1>2. PICK n \in Nat : DOMAIN ram = 0 .. n - 1
  BY HalfPositive DEF MachineInv, TypeOK
<1>3. calls[k].stk - 1 \in DOMAIN ram
  BY <1>1, <1>2, RegisterAssumption DEF FramesOn
<1>4. Frame(k) \subseteq DOMAIN ram \ Registers
  BY <1>1, <1>3, RegisterAssumption DEF Frame, Registers, FramesOn
<1>5. k > 1 => k - 1 \in 1 .. k - 1
  BY <1>1
<1>6. k > 1 => calls[k].stk <= calls[k - 1].stk - 2
  BY <1>1, <1>5 DEF FramesOn
<1> QED
  BY <1>1, <1>4, <1>6 DEF FramesOn

-----------------------------------------------------------------------------
(* What call leaves in RAM: the place and the FRM of the caller where its  *)
(* stack ended, and FRM below them.                                        *)
LEMMA CalledCells ==
  ASSUME NEW n \in Nat, NEW m \in [0 .. n - 1 -> Word], REG_FRM < n, NEW v, v.word \in Word,
         NEW r \in Called(m, v), m[REG_STK] - 1 > REG_FRM
  PROVE  LET s == m[REG_STK]
         IN  /\ s \in 0 .. n - 1 /\ r \in [0 .. n - 1 -> Word]
             /\ r[s] = m[REG_PC] /\ r[s - 1] = m[REG_FRM] /\ r[REG_FRM] = s - 2
             /\ \A x \in (0 .. n - 1) \ (Registers \cup {s, s - 1}) : r[x] = m[x]
<1> DEFINE s == m[REG_STK]
<1>1. /\ {REG_PC, REG_STK, REG_FRM} \subseteq 0 .. n - 1
      /\ REG_PC # REG_STK /\ REG_STK # REG_FRM /\ REG_PC # REG_FRM
      /\ REG_PC <= REG_FRM /\ REG_STK <= REG_FRM
  BY RegisterAssumption
<1>2. s \in Word /\ s \in Int /\ s - 1 > REG_FRM
  BY <1>1, HalfPositive DEF Word
<1>3. PICK p \in PushWord(m, m[REG_PC]) : \E q \in PushWord(p, p[REG_FRM]) :
        r = [q EXCEPT ![REG_FRM] = q[REG_STK], ![REG_PC] = Wrap(v.word - 1)]
  <2>1. PICK q \in UNION {PushWord(p, p[REG_FRM]) : p \in PushWord(m, m[REG_PC])} :
          r = [q EXCEPT ![REG_FRM] = q[REG_STK], ![REG_PC] = Wrap(v.word - 1)]
    BY DEF Called
  <2>2. PICK p \in PushWord(m, m[REG_PC]) : q \in PushWord(p, p[REG_FRM])
    OBVIOUS
  <2> QED
    BY <2>1, <2>2
<1>3a. PICK q \in PushWord(p, p[REG_FRM]) :
        r = [q EXCEPT ![REG_FRM] = q[REG_STK], ![REG_PC] = Wrap(v.word - 1)]
  BY <1>3
<1>4. s - 1 \in Word /\ s - 2 \in Word /\ Wrap(s - 1) = s - 1 /\ Wrap(s - 1 - 1) = s - 2
      /\ Wrap(v.word - 1) \in Word
  <2>1. s - 1 \in Word /\ s - 2 \in Word
    BY <1>2, HalfPositive, RegisterAssumption DEF Word
  <2>2. v.word - 1 \in Int
    BY HalfPositive DEF Word
  <2>3. Wrap(s - 2) = s - 2 /\ Wrap(s - 1) = s - 1
    BY <2>1, WrapSmall
  <2>4. s - 1 - 1 = s - 2
    BY <1>2
  <2> QED
    BY <2>1, <2>2, <2>3, <2>4, WrapWord
<1>5. s \in 0 .. n - 1 /\ p = [m EXCEPT ![s] = m[REG_PC], ![REG_STK] = s - 1]
  BY <1>3, <1>4 DEF PushWord
<1>6. /\ p \in [0 .. n - 1 -> Word] /\ p[REG_STK] = s - 1 /\ p[REG_FRM] = m[REG_FRM]
      /\ p[s] = m[REG_PC] /\ \A x \in (0 .. n - 1) \ {s, REG_STK} : p[x] = m[x]
  BY <1>1, <1>2, <1>4, <1>5
<1>7. s - 1 \in 0 .. n - 1 /\ q = [p EXCEPT ![s - 1] = m[REG_FRM], ![REG_STK] = s - 2]
  BY <1>3a, <1>4, <1>6 DEF PushWord
<1>8. /\ q \in [0 .. n - 1 -> Word] /\ q[REG_STK] = s - 2
      /\ q[s] = m[REG_PC] /\ q[s - 1] = m[REG_FRM]
      /\ \A x \in (0 .. n - 1) \ {s, s - 1, REG_STK} : q[x] = m[x]
  BY <1>1, <1>2, <1>4, <1>5, <1>6, <1>7
<1>9. r = [q EXCEPT ![REG_FRM] = s - 2, ![REG_PC] = Wrap(v.word - 1)]
  BY <1>3a, <1>8
<1> QED
  BY <1>1, <1>2, <1>4, <1>5, <1>7, <1>8, <1>9 DEF Registers

(* What ret does with a frame that is intact: it does not fail, and gives  *)
(* back its two words and the stack above it.                              *)
LEMMA ReturnedCells ==
  ASSUME NEW n \in Nat, NEW m \in [0 .. n - 1 -> Word], REG_FRM < n,
         NEW s \in Word, s \in 0 .. n - 1, s - 1 > REG_FRM, m[REG_FRM] = s - 2
  PROVE  /\ Returned(m) # {}
         /\ \A r \in Returned(m) :
              /\ r \in [0 .. n - 1 -> Word]
              /\ r[REG_STK] = s /\ r[REG_FRM] = m[s - 1] /\ r[REG_PC] = m[s]
              /\ \A x \in (0 .. n - 1) \ Registers : r[x] = m[x]
<1>1. /\ {REG_PC, REG_STK, REG_FRM} \subseteq 0 .. n - 1
      /\ REG_PC # REG_STK /\ REG_STK # REG_FRM /\ REG_PC # REG_FRM
      /\ REG_PC <= REG_FRM /\ REG_STK <= REG_FRM
  BY RegisterAssumption
<1>2. s \in Int /\ s - 1 \in Word /\ s - 1 \in 0 .. n - 1 /\ s - 2 \in Word
      /\ Wrap(s - 2 + 1) = s - 1 /\ Wrap(s - 1 + 1) = s
  <2>1. s \in Int /\ s - 1 \in Word /\ s - 2 \in Word /\ s - 1 \in 0 .. n - 1
    BY RegisterAssumption, HalfPositive DEF Word
  <2>2. s - 2 + 1 = s - 1 /\ s - 1 + 1 = s
    BY <2>1
  <2> QED
    BY <2>1, <2>2, WrapSmall
<1> DEFINE a == [m EXCEPT ![REG_STK] = m[REG_FRM]]
           p == [a EXCEPT ![REG_STK] = s - 1]
           b == [p EXCEPT ![REG_FRM] = m[s - 1]]
           q == [b EXCEPT ![REG_STK] = s]
           r == [q EXCEPT ![REG_PC] = m[s]]
<1>3. Popped(a) = {p}
  <2>1. a[REG_STK] = s - 2 /\ DOMAIN a = 0 .. n - 1
    BY <1>1
  <2>2. s - 1 \in DOMAIN a \ {REG_STK}
    BY <1>1, <1>2, <2>1
  <2> HIDE DEF a
  <2> QED
    BY <1>2, <2>1, <2>2 DEF Popped
<1>4. Top(p) = m[s - 1] /\ p \in [0 .. n - 1 -> Word]
  BY <1>1, <1>2 DEF Top
<1>5. Popped(b) = {q}
  <2>1. b[REG_STK] = s - 1 /\ DOMAIN b = 0 .. n - 1
    BY <1>1, <1>2
  <2>2. s \in DOMAIN b \ {REG_STK}
    BY <1>1, <1>2, <2>1
  <2> HIDE DEF b
  <2> QED
    BY <1>2, <2>1, <2>2 DEF Popped
<1>6. Top(q) = m[s]
  BY <1>1, <1>2 DEF Top
<1>7. Returned(m) = {r}
  <2> HIDE DEF a, p, b, q
  <2>1. UNION {Popped([x EXCEPT ![REG_FRM] = Top(x)]) : x \in Popped(a)} = {q}
    BY <1>3, <1>4, <1>5 DEF b
  <2> QED
    BY <1>6, <2>1 DEF Returned, a
<1>8. m[s - 1] \in Word /\ m[s] \in Word
  BY <1>2
<1> QED
  BY <1>1, <1>2, <1>7, <1>8 DEF Registers

-----------------------------------------------------------------------------
(* The cells of the open frames lie in RAM above the registers, and those  *)
(* of the last one below all the others.                                   *)
LEMMA FrameCells ==
  ASSUME MachineInv, CallsInv, respected, ctl \in {"fetch", "exec"}, NEW k \in DOMAIN calls
  PROVE  LET s == calls[k].stk
         IN  /\ s \in DOMAIN ram /\ s - 1 \in DOMAIN ram
             /\ s \notin Registers /\ s - 1 \notin Registers
             /\ s - 2 >= ram[REG_FRM] /\ s \in Word
<1>1. /\ FramesOn(ram, calls) /\ k \in 1 .. Len(calls) /\ Len(calls) \in Nat
      /\ calls[k].stk \in Int /\ calls[Len(calls)].stk \in Int /\ calls[k].stk \in Word
  BY ActivationFields, HalfPositive DEF CallsInv, Word
<1>2. PICK n \in Nat : DOMAIN ram = 0 .. n - 1
  BY HalfPositive DEF MachineInv, TypeOK
<1>3. calls[k].stk \in DOMAIN ram /\ calls[k].stk - 1 > REG_FRM
  BY <1>1 DEF FramesOn
<1>4. ram[REG_FRM] = calls[Len(calls)].stk - 2
  BY <1>1 DEF FramesOn
<1>5. k = Len(calls) \/ k \in 1 .. Len(calls) - 1
  BY <1>1
<1>6. k # Len(calls) => calls[Len(calls)].stk <= calls[k].stk - 2
  BY <1>1, <1>5 DEF FramesOn
<1>7. calls[k].stk - 2 >= ram[REG_FRM]
  BY <1>1, <1>4, <1>6
<1>8. calls[k].stk - 1 \in DOMAIN ram
  BY <1>1, <1>2, <1>3, RegisterAssumption
<1>9. calls[k].stk \notin Registers /\ calls[k].stk - 1 \notin Registers
  BY <1>1, <1>3, RegisterAssumption DEF Registers
<1> QED
  BY <1>1, <1>3, <1>7, <1>8, <1>9

(* A command has a RAM with its registers.                                 *)
LEMMA RamShape ==
  ASSUME MachineInv, ctl = "exec"
  PROVE  \E n \in Nat : /\ DOMAIN ram = 0 .. n - 1 /\ ram \in [0 .. n - 1 -> Word]
                         /\ REG_FRM < n /\ Registers \subseteq 0 .. n - 1
<1>1. PICK n \in Nat : DOMAIN ram = 0 .. n - 1
  BY HalfPositive DEF MachineInv, TypeOK
<1>2. REG_FRM < n /\ ram \in [0 .. n - 1 -> Word]
  BY <1>1, RegisterAssumption DEF MachineInv, TypeOK, Running
<1>3. Registers \subseteq 0 .. n - 1
  BY <1>2, RegisterAssumption DEF Registers
<1> QED
  BY <1>1, <1>2, <1>3

(* What chip32_run adds to the outcome of a call.                          *)
LEMMA CallRetires ==
  ASSUME MachineInv, Next, Executing({"call"}), ctl' # "undef"
  PROVE  \E v \in Values : \E r \in Called(ram, v) : Retire(r, v.ok)
<1>1. Call /\ ctl = "exec"
  BY DEF Next, Executing, BootLoadFails, BootRefused, BootInitr, LoadFirstPage, ReloadFails, Fetch,
         Nop, Move, UnaryCmd, BinaryCmd, LogicCmd, Jmp, If, Ret, Push, Pop, Initr, LogWord,
         Logs, Strcpy, UnaryOps, BinaryOps
<1> DEFINE After(j) == UNION {{Outcome(m, v.ok) : m \in Called(ram, v)} : v \in Arg0(j)}
<1>2. PICK j \in Junk : Finish(After(j))
  BY <1>1 DEF Call
<1>3. PICK o \in After(j) : Retire(o.ram, o.ok)
  <2> HIDE DEF After
  <2> QED
    BY <1>2 DEF Finish, Undefined
<1>4. PICK v \in Arg0(j) : o \in {Outcome(m, v.ok) : m \in Called(ram, v)}
  OBVIOUS
<1>5. PICK r \in Called(ram, v) : o = Outcome(r, v.ok)
  BY <1>4
<1>6. v \in Values /\ o.ram = r /\ o.ok = v.ok
  BY <1>1, <1>5, ArgsType DEF Outcome
<1> QED
  BY <1>3, <1>6

(* A ret is undefined, or ends like any command.                           *)
LEMMA RetRetires ==
  ASSUME MachineInv, Next, Executing({"ret"})
  PROVE  IF Returned(ram) = {} THEN Undefined ELSE \E r \in Returned(ram) : Retire(r, TRUE)
<1>1. Ret
  BY DEF Next, Executing, BootLoadFails, BootRefused, BootInitr, LoadFirstPage, ReloadFails, Fetch,
         Nop, Move, UnaryCmd, BinaryCmd, LogicCmd, Jmp, If, Call, Push, Pop, Initr, LogWord,
         Logs, Strcpy, UnaryOps, BinaryOps
<1>2. Finish({Outcome(m, TRUE) : m \in Returned(ram)})
  BY <1>1 DEF Ret
<1>3. CASE Returned(ram) = {}
  BY <1>2, <1>3 DEF Finish
<1>4. CASE Returned(ram) # {}
  <2>1. {Outcome(m, TRUE) : m \in Returned(ram)} # {}
    BY <1>4
  <2>2. PICK o \in {Outcome(m, TRUE) : m \in Returned(ram)} : Retire(o.ram, o.ok)
    BY <1>2, <2>1 DEF Finish
  <2>3. PICK r \in Returned(ram) : o = Outcome(r, TRUE)
    OBVIOUS
  <2>4. o.ram = r /\ o.ok = TRUE
    BY <2>3 DEF Outcome
  <2> QED
    BY <1>4, <2>2, <2>4
<1> QED
  BY <1>3, <1>4

(* A command leaves RAM its size, and so does a fetch.                     *)
LEMMA SameSize ==
  ASSUME MachineInv, Next, ctl # "boot"
  PROVE  DOMAIN ram' = DOMAIN ram /\ ctl' # "boot"
<1>1. CASE Fetch \/ ReloadFails
  BY <1>1 DEF Fetch, ReloadFails, Fail
<1>2. CASE Logs \/ Strcpy
  BY <1>2, ScanType DEF Logs, Strcpy, Undefined, Character, Retire, Continue, Executing
<1>3. CASE \/ Nop \/ Move \/ UnaryCmd \/ BinaryCmd \/ LogicCmd \/ Jmp \/ If
           \/ Call \/ Ret \/ Push \/ Pop \/ Initr \/ LogWord
  <2>1. \E outcomes : Finish(outcomes)
    BY <1>3, Zenon DEF Nop, Move, UnaryCmd, BinaryCmd, LogicCmd, Jmp, If, Call, Ret, Push, Pop,
           Initr, LogWord
  <2>2. ctl' # "boot"
    BY <2>1 DEF Finish, Undefined, Retire
  <2> QED
    BY <1>3, <2>2, CommandType
<1> QED
  BY <1>1, <1>2, <1>3 DEF Next, BootLoadFails, BootRefused, BootInitr, LoadFirstPage

(* The machine that has stopped, or is undefined, takes no step.           *)
LEMMA RunsOn == Next => ctl \in {"boot", "fetch", "exec"}
BY DEF Next, Executing, BootLoadFails, BootRefused, BootInitr, LoadFirstPage, ReloadFails, Fetch,
       Nop, Move, UnaryCmd, BinaryCmd, LogicCmd, Jmp, If, Call, Ret, Push, Pop, Initr, LogWord,
       Logs, Strcpy

-----------------------------------------------------------------------------
(* A call adds a frame below the others.                                   *)
LEMMA EnterKept ==
  ASSUME MachineInv, CallsInv, Next, EnterCall
  PROVE  CallsInv'
<1> DEFINE s == ram[REG_STK]
           new == [ret |-> pc, stk |-> s, frm |-> ram[REG_FRM]]
           L == Len(calls)
<1>1. ctl = "exec" /\ ctl' # "undef" /\ Executing({"call"})
  BY DEF EnterCall, Ran, Executing
<1>2. PICK n \in Nat : /\ DOMAIN ram = 0 .. n - 1 /\ ram \in [0 .. n - 1 -> Word]
                       /\ REG_FRM < n /\ Registers \subseteq 0 .. n - 1
  BY <1>1, RamShape
<1>3. new \in Activation
  BY <1>2 DEF Activation, Registers, pc
<1>4. calls' \in Seq(Activation) /\ respected' \in BOOLEAN /\ calls \in Seq(Activation) /\ L \in Nat
  BY <1>3 DEF EnterCall, CallsInv, CallFits
<1>5. ctl' # "boot"
  BY <1>1, SameSize
<1>6. ASSUME respected' PROVE FramesOn(ram', calls')
  <2>1. respected /\ s <= ram[REG_FRM] /\ s - 1 > REG_FRM /\ calls' = Append(calls, new)
    BY <1>6 DEF EnterCall, CallFits
  <2>2. PICK v \in Values : \E r \in Called(ram, v) : Retire(r, v.ok)
    BY <1>1, CallRetires
  <2>3. PICK r \in Called(ram, v) : Retire(r, v.ok)
    BY <2>2
  <2>4. /\ s \in 0 .. n - 1 /\ r \in [0 .. n - 1 -> Word]
        /\ r[s] = pc /\ r[s - 1] = ram[REG_FRM] /\ r[REG_FRM] = s - 2
        /\ \A x \in (0 .. n - 1) \ (Registers \cup {s, s - 1}) : r[x] = ram[x]
    <3>1. v.word \in Word /\ ram[REG_STK] - 1 > REG_FRM
      BY <2>1, RecordTypes
    <3>2. ram \in [0 .. n - 1 -> Word] /\ REG_FRM < n /\ r \in Called(ram, v)
      BY <1>2, <2>3
    <3> HIDE DEF new, L
    <3> QED
      BY <3>1, <3>2, CalledCells DEF pc
  <2>5. REG_PC \in 0 .. n - 1 /\ REG_PC # REG_FRM /\ s # REG_PC /\ s - 1 # REG_PC
    BY <1>2, <2>1, <2>4, RegisterAssumption
  <2>6. ram' = [r EXCEPT ![REG_PC] = Wrap(@ + 1)]
    BY <2>3 DEF Retire
  <2>7. /\ DOMAIN ram' = 0 .. n - 1
        /\ ram'[s] = pc /\ ram'[s - 1] = ram[REG_FRM] /\ ram'[REG_FRM] = s - 2
        /\ \A x \in (0 .. n - 1) \ (Registers \cup {s, s - 1}) : ram'[x] = ram[x]
    BY <2>4, <2>5, <2>6, RegisterAssumption DEF Registers
  <2>8. FramesOn(ram, calls)
    BY <1>1, <2>1 DEF CallsInv
  <2>9. /\ Len(calls') = L + 1 /\ DOMAIN calls' = 1 .. L + 1 /\ DOMAIN calls = 1 .. L
        /\ calls'[L + 1] = new /\ \A k \in 1 .. L : calls'[k] = calls[k]
    BY <1>3, <1>4, <2>1
  <2>10. ASSUME NEW k \in 1 .. L
         PROVE  /\ calls[k].stk \in DOMAIN ram' /\ calls[k].stk - 2 >= s
                /\ ram'[calls[k].stk] = ram[calls[k].stk]
                /\ ram'[calls[k].stk - 1] = ram[calls[k].stk - 1]
    <3> DEFINE t == calls[k].stk
    <3>1. /\ t \in DOMAIN ram /\ t - 1 \in DOMAIN ram /\ t \notin Registers /\ t - 1 \notin Registers
          /\ t - 2 >= ram[REG_FRM]
      BY <1>1, <2>1, <2>9, FrameCells
    <3>2. t \in Int /\ ram[REG_FRM] \in Int /\ s \in Int
      <4>1. ram[REG_FRM] \in Word
        BY <1>2 DEF Registers
      <4>2. t \in 0 .. n - 1 /\ s \in 0 .. n - 1
        BY <1>2, <2>4, <3>1
      <4> HIDE DEF s, t
      <4> QED
        BY <4>1, <4>2, HalfPositive DEF Word
    <3>3. t - 2 >= s /\ t \notin {s, s - 1} /\ t - 1 \notin {s, s - 1}
      BY <2>1, <3>1, <3>2
    <3> QED
      BY <1>2, <2>7, <3>1, <3>3
  <2>11. ASSUME NEW k \in 1 .. L
         PROVE  /\ calls[k].stk \in DOMAIN ram' /\ calls[k].stk - 1 > REG_FRM
                /\ ram'[calls[k].stk] = calls[k].ret /\ ram'[calls[k].stk - 1] = calls[k].frm
                /\ k > 1 => calls[k].frm = calls[k - 1].stk - 2
                /\ \A j \in 1 .. k - 1 : calls[k].stk <= calls[j].stk - 2
    BY <2>8, <2>9, <2>10 DEF FramesOn
  <2>12. /\ new.stk \in DOMAIN ram' /\ new.stk - 1 > REG_FRM
         /\ ram'[new.stk] = new.ret /\ ram'[new.stk - 1] = new.frm
         /\ L + 1 > 1 => new.frm = calls[L].stk - 2
         /\ \A j \in 1 .. L : new.stk <= calls[j].stk - 2
    BY <1>4, <2>1, <2>4, <2>7, <2>8, <2>10 DEF FramesOn
  <2>13. ASSUME NEW k \in DOMAIN calls'
         PROVE  /\ calls'[k].stk \in DOMAIN ram' /\ calls'[k].stk - 1 > REG_FRM
                /\ ram'[calls'[k].stk] = calls'[k].ret /\ ram'[calls'[k].stk - 1] = calls'[k].frm
                /\ k > 1 => calls'[k].frm = calls'[k - 1].stk - 2
                /\ \A j \in 1 .. k - 1 : calls'[k].stk <= calls'[j].stk - 2
    <3>1. CASE k \in 1 .. L
      <4>1. calls'[k] = calls[k] /\ (k > 1 => calls'[k - 1] = calls[k - 1])
            /\ \A j \in 1 .. k - 1 : calls'[j] = calls[j]
        BY <1>4, <2>9, <3>1
      <4> QED
        BY <2>11, <3>1, <4>1
    <3>2. CASE k = L + 1
      <4>1. calls'[k] = new /\ (k > 1 => calls'[k - 1] = calls[L])
            /\ \A j \in 1 .. k - 1 : j \in 1 .. L /\ calls'[j] = calls[j]
        BY <1>4, <2>9, <3>2
      <4> QED
        BY <2>12, <3>2, <4>1
    <3> QED
      BY <1>4, <2>9, <3>1, <3>2
  <2>14. ram'[REG_FRM] = calls'[Len(calls')].stk - 2
    BY <2>7, <2>9
  <2> QED
    BY <2>13, <2>14 DEF FramesOn
<1> QED
  BY <1>4, <1>5, <1>6 DEF CallsInv

-----------------------------------------------------------------------------
(* A ret with a frame to return from is defined, takes the registers from  *)
(* it, and writes to no other cell.                                        *)
LEMMA RetOfFrame ==
  ASSUME MachineInv, CallsInv, Next, Executing({"ret"}), respected, calls # <<>>
  PROVE  LET top == calls[Len(calls)]
         IN  /\ ctl' \in {"fetch", "stopped"} /\ DOMAIN ram' = DOMAIN ram
             /\ ram'[REG_PC] = Wrap(top.ret + 1)
             /\ ram'[REG_STK] = top.stk /\ ram'[REG_FRM] = top.frm
             /\ \A x \in DOMAIN ram \ Registers : ram'[x] = ram[x]
<1> DEFINE top == calls[Len(calls)]
<1>1. ctl = "exec"
  BY DEF Executing
<1>2. PICK n \in Nat : /\ DOMAIN ram = 0 .. n - 1 /\ ram \in [0 .. n - 1 -> Word]
                       /\ REG_FRM < n /\ Registers \subseteq 0 .. n - 1
  BY <1>1, RamShape
<1>3. FramesOn(ram, calls) /\ Len(calls) \in DOMAIN calls
  BY <1>1 DEF CallsInv
<1>4. /\ top.stk \in 0 .. n - 1 /\ top.stk - 1 > REG_FRM /\ ram[REG_FRM] = top.stk - 2
      /\ ram[top.stk] = top.ret /\ ram[top.stk - 1] = top.frm
  BY <1>2, <1>3 DEF FramesOn
<1>5. top.stk \in Word
  BY <1>3, ActivationFields DEF CallsInv
<1>6. /\ Returned(ram) # {}
      /\ \A r \in Returned(ram) :
           /\ r \in [0 .. n - 1 -> Word]
           /\ r[REG_STK] = top.stk /\ r[REG_FRM] = top.frm /\ r[REG_PC] = top.ret
           /\ \A x \in (0 .. n - 1) \ Registers : r[x] = ram[x]
  <2> HIDE DEF top
  <2> QED
    BY <1>2, <1>4, <1>5, ReturnedCells
<1>7. PICK r \in Returned(ram) : Retire(r, TRUE)
  BY <1>6, RetRetires
<1>8. ram' = [r EXCEPT ![REG_PC] = Wrap(@ + 1)] /\ ctl' \in {"fetch", "stopped"}
  BY <1>7 DEF Retire
<1> HIDE DEF top
<1>9. /\ DOMAIN ram' = 0 .. n - 1 /\ ram'[REG_PC] = Wrap(top.ret + 1)
      /\ ram'[REG_STK] = top.stk /\ ram'[REG_FRM] = top.frm
      /\ \A x \in (0 .. n - 1) \ Registers : ram'[x] = ram[x]
  BY <1>2, <1>6, <1>8, RegisterAssumption DEF Registers
<1> QED
  BY <1>2, <1>8, <1>9 DEF top

(* It closes the last frame and leaves the others as they are.             *)
LEMMA LeaveKept ==
  ASSUME MachineInv, CallsInv, Next, LeaveCall
  PROVE  CallsInv'
<1> DEFINE L == Len(calls)
<1>1. ctl = "exec" /\ Executing({"ret"})
  BY DEF LeaveCall, Ran, Executing
<1>2. calls \in Seq(Activation) /\ L \in Nat /\ DOMAIN calls = 1 .. L
  BY DEF CallsInv
<1>3. ctl' # "boot"
  BY <1>1, SameSize
<1>4. ASSUME respected'
      PROVE  /\ calls' \in Seq(Activation) /\ Len(calls') = L - 1 /\ L \in Nat \ {0}
             /\ DOMAIN calls' = 1 .. L - 1 /\ \A k \in 1 .. L - 1 : calls'[k] = calls[k]
  <2>0. calls # <<>> /\ calls' = SubSeq(calls, 1, Len(calls) - 1)
    BY <1>4, Zenon DEF LeaveCall
  <2>1. L \in Nat \ {0} /\ calls' = SubSeq(calls, 1, L - 1)
    BY <1>2, <2>0
  <2>2. \A k \in 1 .. L - 1 : calls[k] \in Activation
    BY <1>2, <2>1
  <2> QED
    BY <1>2, <2>1, <2>2
<1>5. calls' \in Seq(Activation) /\ respected' \in BOOLEAN
  BY <1>2, <1>4 DEF LeaveCall, CallsInv
<1>6. ASSUME respected' PROVE FramesOn(ram', calls')
  <2>0. respected /\ calls # <<>>
    BY <1>6, Zenon DEF LeaveCall
  <2>1. respected /\ calls # <<>> /\ L \in DOMAIN calls
    BY <1>2, <2>0
  <2>2. /\ DOMAIN ram' = DOMAIN ram /\ ram'[REG_FRM] = calls[L].frm
        /\ \A x \in DOMAIN ram \ Registers : ram'[x] = ram[x]
    BY <1>1, <2>1, RetOfFrame
  <2>3. FramesOn(ram, calls)
    BY <1>1, <2>1 DEF CallsInv
  <2>4. ASSUME NEW k \in 1 .. L - 1
        PROVE  ram'[calls[k].stk] = ram[calls[k].stk] /\ ram'[calls[k].stk - 1] = ram[calls[k].stk - 1]
    <3>1. k \in DOMAIN calls
      BY <1>2
    <3> QED
      BY <1>1, <2>1, <2>2, <3>1, FrameCells
  <2>5. ASSUME NEW k \in DOMAIN calls'
        PROVE  /\ calls'[k].stk \in DOMAIN ram' /\ calls'[k].stk - 1 > REG_FRM
               /\ ram'[calls'[k].stk] = calls'[k].ret /\ ram'[calls'[k].stk - 1] = calls'[k].frm
               /\ k > 1 => calls'[k].frm = calls'[k - 1].stk - 2
               /\ \A j \in 1 .. k - 1 : calls'[k].stk <= calls'[j].stk - 2
    <3>1. k \in 1 .. L - 1 /\ k \in DOMAIN calls /\ calls'[k] = calls[k]
          /\ (k > 1 => calls'[k - 1] = calls[k - 1]) /\ \A j \in 1 .. k - 1 : calls'[j] = calls[j]
      BY <1>2, <1>4, <1>6
    <3> QED
      BY <2>2, <2>3, <2>4, <3>1 DEF FramesOn
  <2>6. calls' # <<>> => ram'[REG_FRM] = calls'[Len(calls')].stk - 2
    <3>1. calls' # <<>> => L > 1 /\ calls'[Len(calls')] = calls[L - 1]
      BY <1>4, <1>6
    <3> QED
      BY <2>1, <2>2, <2>3, <3>1 DEF FramesOn
  <2> QED
    BY <2>5, <2>6 DEF FramesOn
<1> QED
  BY <1>3, <1>5, <1>6 DEF CallsInv

(* Every other command respects the frames, or ends the record.            *)
LEMMA NoCallKept ==
  ASSUME MachineInv, CallsInv, Next, NoCall
  PROVE  CallsInv'
<1>1. /\ calls' = calls /\ calls \in Seq(Activation) /\ respected' \in BOOLEAN
      /\ respected' = (respected /\ KeepsFrames)
  BY DEF NoCall, CallsInv, KeepsFrames
<1>2. CASE ctl = "boot"
  BY <1>1, <1>2 DEF CallsInv, FramesOn
<1>3. CASE ctl \in {"fetch", "exec"}
  <2>1. DOMAIN ram' = DOMAIN ram /\ ctl' # "boot"
    BY <1>3, SameSize
  <2>2. ASSUME respected' PROVE FramesOn(ram', calls)
    <3>1. respected /\ KeepsFrames /\ FramesOn(ram, calls) /\ REG_FRM \in DOMAIN ram
      BY <1>1, <1>3, <2>2 DEF CallsInv, MachineInv, Running
    <3>2. \A x \in Frames \cup {REG_FRM} : ram'[x] = ram[x]
      BY <3>1 DEF KeepsFrames
    <3>3. \A k \in DOMAIN calls : calls[k].stk \in Frames /\ calls[k].stk - 1 \in Frames
      BY DEF Frames, Frame
    <3> QED
      BY <2>1, <3>1, <3>2, <3>3 DEF FramesOn
  <2> QED
    BY <1>1, <2>1, <2>2 DEF CallsInv
<1> QED
  BY <1>2, <1>3, RunsOn

(* The calling convention is an invariant of the machine and its history.  *)
LEMMA CallsKept == MachineInv /\ CallsInv /\ [CNext]_cvars => MachineInv' /\ CallsInv'
<1> SUFFICES ASSUME MachineInv, CallsInv, [CNext]_cvars PROVE MachineInv' /\ CallsInv'
  OBVIOUS
<1>1. CASE UNCHANGED cvars
  <2>1. UNCHANGED vars
    BY <1>1 DEF cvars
  <2> QED
    BY <1>1, <2>1, NextMachine DEF cvars, vars, CallsInv
<1>2. CASE CNext
  BY <1>2, NextMachine, EnterKept, LeaveKept, NoCallKept DEF CNext
<1> QED
  BY <1>1, <1>2

LEMMA CallsAlways == CSpec => [](MachineInv /\ CallsInv)
<1>1. CInit => MachineInv /\ CallsInv
  <2>1. CInit => CallsInv
    BY DEF CInit, Init, CallsInv
  <2> QED
    BY <2>1, InitMachine DEF CInit
<1> QED
  BY <1>1, CallsKept, PTL DEF CSpec

-----------------------------------------------------------------------------
(* Open calls keep their return address and their caller's FRM, however    *)
(* deep they nest and whatever else runs, in programs that respect frames. *)
THEOREM FramesStay == CSpec => []FramesIntact
BY CallsAlways, FramesSuffice, PTL

(* ret goes behind its call, and gives the caller its stack and frame back.*)
THEOREM CallersReturn == CSpec => ReturnsToCaller
<1>1. ASSUME MachineInv, CallsInv, [CNext]_cvars
      PROVE  [Ran("ret") /\ respected /\ calls # <<>> =>
                /\ ram'[REG_PC] = Wrap(calls[Len(calls)].ret + 1)
                /\ ram'[REG_STK] = calls[Len(calls)].stk
                /\ ram'[REG_FRM] = calls[Len(calls)].frm]_cvars
  BY <1>1, RetOfFrame DEF CNext, Ran
<1> QED
  BY <1>1, CallsAlways, PTL DEF CSpec, ReturnsToCaller

(* ret is defined while its program respects the frames.                   *)
THEOREM ReturnsDefined == CSpec => RetDefined
<1>1. ASSUME MachineInv, CallsInv, [CNext]_cvars
      PROVE  [Executing({"ret"}) /\ respected /\ calls # <<>> => ctl' # "undef"]_cvars
  BY <1>1, RetOfFrame DEF CNext
<1> QED
  BY <1>1, CallsAlways, PTL DEF CSpec, RetDefined
=============================================================================
