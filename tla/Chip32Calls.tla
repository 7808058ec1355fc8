----------------------------- MODULE Chip32Calls ------------------------------
(***************************************************************************)
(* The calling convention of the machine: call pushes the program counter  *)
(* and FRM and makes FRM the new stack pointer, ret takes the stack back   *)
(* to FRM and pops both (core/chip32.c, lines 197-210).                    *)
(*                                                                         *)
(* The module adds a history to Chip32: `calls', the activations a reader  *)
(* of the program sees, and `respected', whether the program has so far    *)
(* left the frames of its callers alone, which nothing in the machine      *)
(* enforces (the record ends when it has not).  The history changes        *)
(* nothing of what the machine does.                                       *)
(***************************************************************************)
EXTENDS Chip32

VARIABLES
  calls,      \* open calls, each with the registers at the call
  respected   \* has the program kept to the convention?

cvars == <<vars, calls, respected>>

Frame(k) == {calls[k].stk, calls[k].stk - 1}

Frames == UNION {Frame(k) : k \in DOMAIN calls}

(* The machine executes `op', and C defines the result.                    *)
Ran(op) == Executing({op}) /\ ctl' # "undef"

(* A call respects the open frames when the stack pointer is below them    *)
(* and both of its words lie on the stack, not in a register.              *)
CallFits == ram[REG_STK] <= ram[REG_FRM] /\ ram[REG_STK] - 1 > REG_FRM

EnterCall ==
  /\ Ran("call")
  /\ respected' = (respected /\ CallFits)
  /\ calls' = IF respected'
              THEN Append(calls, [ret |-> pc, stk |-> ram[REG_STK], frm |-> ram[REG_FRM]])
              ELSE calls

LeaveCall ==
  /\ Ran("ret")
  /\ respected' = (respected /\ calls # <<>>)
  /\ calls' = IF respected' THEN SubSeq(calls, 1, Len(calls) - 1) ELSE calls

KeepsFrames == ram # <<>> => \A x \in Frames \cup {REG_FRM} : ram'[x] = ram[x]

NoCall ==
  /\ ~Ran("call") /\ ~Ran("ret")
  /\ calls' = calls
  /\ respected' = (respected /\ KeepsFrames)

CInit == Init /\ calls = <<>> /\ respected = TRUE

CNext == Next /\ (EnterCall \/ LeaveCall \/ NoCall)

CSpec == CInit /\ [][CNext]_cvars

-----------------------------------------------------------------------------
(* While the program keeps to the convention, each open call still has its *)
(* return address and its caller's FRM on the stack, the frames are        *)
(* stacked downwards without overlapping, and FRM is the last of them.     *)
FramesIntact ==
  respected /\ ctl \in {"fetch", "exec"} =>
    \A k \in DOMAIN calls :
      /\ Frame(k) \subseteq DOMAIN ram \ Registers
      /\ ram[calls[k].stk] = calls[k].ret
      /\ ram[calls[k].stk - 1] = calls[k].frm
      /\ k > 1 => calls[k].stk <= calls[k - 1].stk - 2 /\ calls[k].frm = calls[k - 1].stk - 2
      /\ k = Len(calls) => ram[REG_FRM] = calls[k].stk - 2

(* ret goes to the command after the call, and gives the caller its stack  *)
(* pointer and frame back, whatever the callee left on the stack.          *)
ReturnsToCaller ==
  [][Ran("ret") /\ respected /\ calls # <<>> =>
       /\ ram'[REG_PC] = Wrap(calls[Len(calls)].ret + 1)
       /\ ram'[REG_STK] = calls[Len(calls)].stk
       /\ ram'[REG_FRM] = calls[Len(calls)].frm]_cvars

(* ret is only undefined for a program that broke the convention.          *)
RetDefined ==
  [][Executing({"ret"}) /\ respected /\ calls # <<>> => ctl' # "undef"]_cvars
=============================================================================
