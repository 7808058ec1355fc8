---------------------------- MODULE Chip32Programs ----------------------------
(***************************************************************************)
(* What a program must look like for the machine of Chip32 to give it a    *)
(* meaning. core/chip32.c checks no operand: every index, divisor and      *)
(* jump is trusted. The predicates below are sufficient conditions on an   *)
(* image, readable from its commands alone, under which the run is defined *)
(* by C (StaysDefined) and ends (ForwardHalts).                            *)
(***************************************************************************)
EXTENDS Chip32

Readable(t, a, size) == t = "literal" \/ (t = "ram" /\ a \in 0 .. size - 1)

Writable(t, a, size) == t = "ram" /\ a \in (0 .. size - 1) \ Registers

Divides == {"div", "mod"}

SafeUpdate(c, size) ==
  /\ c.cmd \in {"move"} \cup UnaryOps \cup BinaryOps
  /\ Writable(c.t0, c.a0, size)
  /\ c.cmd \notin UnaryOps => Readable(c.t1, c.a1, size)
  /\ c.cmd \in Divides => c.t1 = "literal" /\ c.a1 \notin {0, -1}

(* A branch to a command of the image, or to its end.                      *)
SafeBranch(c, size, len) ==
  \/ c.cmd = "jmp" /\ c.t0 = "literal" /\ c.a0 \in 0 .. len
  \/ /\ c.cmd \in {"ift", "iff"}
     /\ Readable(c.t0, c.a0, size) /\ c.t1 = "literal" /\ c.a1 \in 0 .. len

SafeCommand(c, size, len) ==
  \/ c.cmd \in {"nop", "logln", "initr"}
  \/ c.cmd \in {"logi", "logu", "logc"} /\ Readable(c.t0, c.a0, size)
  \/ SafeUpdate(c, size)
  \/ SafeBranch(c, size, len)

(* The image leaves a free entry in its page: one that fills data[] runs   *)
(* off the end of the array after its last command.                        *)
SafeImage(img) ==
  /\ Len(img) \in 1 .. PageSize - 1
  /\ img[1].cmd = "initr" /\ img[1].a0 > REG_FRM
  /\ \A i \in 2 .. Len(img) : SafeCommand(img[i], img[1].a0, Len(img))

(* No branch of the program goes back, or to itself.                       *)
Forward(img) ==
  \A i \in 2 .. Len(img) :
    /\ img[i].cmd = "jmp" => img[i].a0 >= i
    /\ img[i].cmd \in {"ift", "iff"} => img[i].a1 >= i

-----------------------------------------------------------------------------
(* A program whose every command keeps to its RAM, away from the registers,*)
(* divides by literals and branches inside itself never makes the C code   *)
(* of the machine undefined, however its branches interleave.              *)
StaysDefined == SafeImage(image) => ctl # "undef"

(* The stack registers of such a program are those initr set, and its      *)
(* program counter never leaves the image: jumps land on their target      *)
(* because of the -1 of the jump commands and the ++ of the loop.          *)
KeepsRegisters ==
  SafeImage(image) /\ ctl \in {"fetch", "exec"} =>
    /\ pc \in 0 .. Len(image)
    /\ ram[REG_STK] = image[1].a0 - 1 /\ ram[REG_FRM] = image[1].a0 - 1

(* A safe program that only branches forward ends, and chip32_run returns. *)
ForwardHalts == SafeImage(image) /\ Forward(image) => <>(ctl = "stopped")
=============================================================================
