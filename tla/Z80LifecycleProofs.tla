------------------------- MODULE Z80LifecycleProofs -------------------------
(***************************************************************************)
(* Theorems about Z80Lifecycle, for every byte width, program, memory and  *)
(* host: the state stays well-typed, IFF2 is never behind IFF1, the EI     *)
(* delay covers exactly one instruction, no request is lost, next_boundary *)
(* predicts step(), and step() implements InterruptContract.               *)
(***************************************************************************)
EXTENDS Z80Lifecycle, TLAPS

(* Words of two bytes: an address splits into its bytes and bytes make an  *)
(* address (_core.py, _push_word and _pop_word).                           *)
LEMMA SizePositive == Size \in Nat /\ Size >= 4
<1>1. Radix \in Nat /\ Radix >= 2
  BY RadixAssumption
<1> QED
  BY <1>1 DEF Size

LEMMA WrapInAddr ==
  ASSUME NEW n \in Int
  PROVE  Wrap(n) \in Addr
BY SizePositive DEF Wrap, Addr

LEMMA WordInAddr ==
  ASSUME NEW hi \in Byte, NEW lo \in Byte
  PROVE  Word(hi, lo) \in Addr
<1> DEFINE R == Radix
<1>1. R \in Nat /\ R >= 2 /\ hi \in 0..R-1 /\ lo \in 0..R-1
  BY RadixAssumption DEF Byte
<1>2. hi * R \in Int /\ hi * R <= (R - 1) * R /\ hi * R >= 0
  BY <1>1
<1>3. (R - 1) * R = R * R - R
  BY <1>1
<1> QED
  BY <1>1, <1>2, <1>3 DEF Word, Addr, Size

LEMMA PartsInByte ==
  ASSUME NEW w \in Addr
  PROVE  Hi(w) \in Byte /\ Lo(w) \in Byte
<1>1. Radix \in Nat /\ Radix >= 2 /\ w \in 0..(Radix * Radix) - 1
  BY RadixAssumption DEF Addr, Size
<1>2. Lo(w) \in Byte
  BY <1>1 DEF Lo, Byte
<1>3. Hi(w) \in Byte
  BY <1>1 DEF Hi, Byte
<1> QED
  BY <1>2, <1>3

LEMMA WordAtInAddr ==
  ASSUME NEW m \in [Addr -> Byte], NEW a \in Addr
  PROVE  WordAt(m, a) \in Addr
<1>1. a \in Int /\ a + 1 \in Int
  BY SizePositive DEF Addr
<1>2. Wrap(a + 1) \in Addr
  BY <1>1, WrapInAddr
<1>3. m[Wrap(a + 1)] \in Byte /\ m[a] \in Byte
  BY <1>2
<1> QED
  BY <1>3, WordInAddr DEF WordAt

LEMMA PushedIsRam ==
  ASSUME NEW m \in [Addr -> Byte], NEW s \in Addr, NEW w \in Addr
  PROVE  Pushed(m, s, w) \in [Addr -> Byte]
<1>1. Hi(w) \in Byte /\ Lo(w) \in Byte
  BY PartsInByte
<1> QED
  BY <1>1 DEF Pushed

(* What was pushed is what a pop reads: the word comes back from the two   *)
(* bytes below SP, wherever SP is in a memory that wraps (_core.py,        *)
(* _push_word and _pop_word).                                              *)
THEOREM PoppedIsPushed ==
  ASSUME NEW m \in [Addr -> Byte], NEW s \in Addr, NEW w \in Addr
  PROVE  /\ WordAt(Pushed(m, s, w), Wrap(s - 2)) = w
         /\ Wrap(Wrap(s - 2) + 2) = s
<1>1. Size \in Nat /\ Size >= 4 /\ s \in 0 .. Size - 1
  BY SizePositive DEF Addr
<1>2. /\ Wrap(s - 2) = IF s >= 2 THEN s - 2 ELSE s - 2 + Size
      /\ Wrap(s - 1) = IF s >= 1 THEN s - 1 ELSE s - 1 + Size
  BY <1>1 DEF Wrap
<1>3. Wrap(s - 1) \in Addr /\ Wrap(s - 2) \in Addr
  BY <1>1, <1>2 DEF Addr
<1>4. Wrap(Wrap(s - 2) + 1) = Wrap(s - 1)
  BY <1>1, <1>2 DEF Wrap
<1>5. Wrap(s - 1) # Wrap(s - 2)
  BY <1>1, <1>2
<1>6. /\ Pushed(m, s, w)[Wrap(s - 1)] = Hi(w)
      /\ Pushed(m, s, w)[Wrap(s - 2)] = Lo(w)
  BY <1>3, <1>5 DEF Pushed
<1>7. Word(Hi(w), Lo(w)) = w
  <2>1. Radix \in Nat /\ Radix >= 2 /\ w \in Nat
    BY RadixAssumption, SizePositive DEF Addr
  <2> QED
    BY <2>1 DEF Word, Hi, Lo
<1>8. Wrap(Wrap(s - 2) + 2) = s
  BY <1>1, <1>2 DEF Wrap
<1> QED
  BY <1>4, <1>6, <1>7, <1>8 DEF WordAt

-----------------------------------------------------------------------------
(* Type correctness *)

(* The part of TypeOK that an instruction can write *)
CoreOK ==
  /\ pc \in Addr /\ sp \in Addr /\ i \in Byte
  /\ ram \in [Addr -> Byte]
  /\ iff1 \in BOOLEAN /\ iff2 \in BOOLEAN
  /\ im \in 0..2
  /\ halted \in BOOLEAN
  /\ eiDelay \in 0..1

LEMMA ConstantsInRange ==
  /\ 0 \in Addr /\ 0 \in Byte /\ 0 \in 0..2 /\ 0 \in 0..1 /\ 1 \in 0..1
  /\ NmiEntry \in Addr /\ Im1Entry \in Addr
  /\ \A v \in RstOpcodes : RstEntry[v] \in Addr
  /\ \A a \in Addr : a \in Int /\ a + 1 \in Int /\ a + 2 \in Int /\ a - 2 \in Int
BY SizePositive, RadixAssumption, EntriesAssumption DEF Addr, Byte

LEMMA InstructionsInRange ==
  ASSUME NEW a \in Addr, NEW ins \in Program[a]
  PROVE  /\ ins.len \in Nat
         /\ ins.arg \in Addr
         /\ ins.op = "IM" => ins.arg \in 0..2
         /\ Wrap(a + ins.len) \in Addr
         /\ Wrap(ins.arg + 1) \in Addr
<1>1. /\ ins.len \in Nat /\ ins.arg \in Addr
      /\ ins.op = "IM" => ins.arg \in 0..2
  BY ProgramAssumption
<1>2. a \in Int /\ ins.arg \in Int
  BY <1>1, ConstantsInRange
<1>3. a + ins.len \in Int /\ ins.arg + 1 \in Int
  BY <1>1, <1>2
<1> QED
  BY <1>1, <1>3, WrapInAddr

(* Every instruction handler keeps the state in range, whatever the EI     *)
(* delay it starts from                                                    *)
LEMMA DispatchTypes ==
  ASSUME CoreOK, NEW ins \in Program[pc], NEW delay \in 0..1,
         Dispatch(ins, delay)
  PROVE  CoreOK'
<1> USE DEF CoreOK
<1>1. /\ ins.arg \in Addr /\ Wrap(pc + ins.len) \in Addr
      /\ Wrap(ins.arg + 1) \in Addr
      /\ ins.op = "IM" => ins.arg \in 0..2
  BY InstructionsInRange
<1>2. WordAt(ram, sp) \in Addr
  BY WordAtInAddr
<1>3. Wrap(sp + 2) \in Addr /\ Wrap(sp - 2) \in Addr
  BY ConstantsInRange, WrapInAddr
<1>4. CASE OpNop(ins, delay)
  BY <1>1, <1>4 DEF OpNop, Following
<1>5. CASE OpInterruptEnable(ins)
  BY <1>1, <1>5 DEF OpInterruptEnable, Following
<1>6. CASE OpHalt(ins, delay)
  BY <1>1, <1>6 DEF OpHalt, Following
<1>7. CASE OpIm(ins, delay)
  BY <1>1, <1>7 DEF OpIm, Following
<1>8. CASE RetIff(ins, delay)
  BY <1>2, <1>3, <1>8 DEF RetIff, PopInto
<1>9. CASE OpRet(ins, delay)
  BY <1>2, <1>3, <1>9 DEF OpRet, PopInto
<1>10. CASE OpCall(ins, delay)
  <2>1. Pushed(ram, sp, Following(ins)) \in [Addr -> Byte]
    BY <1>1, PushedIsRam DEF Following
  <2> QED
    BY <1>1, <1>3, <1>10, <2>1 DEF OpCall, Push
<1>11. CASE OpJump(ins, delay)
  BY <1>1, <1>11 DEF OpJump
<1>12. CASE OpPush(ins, delay)
  <2>1. Pushed(ram, sp, ins.arg) \in [Addr -> Byte]
    BY <1>1, PushedIsRam
  <2> QED
    BY <1>1, <1>3, <1>12, <2>1 DEF OpPush, Push, Following
<1>13. CASE OpPop(ins, delay)
  BY <1>1, <1>3, <1>13 DEF OpPop, Following
<1>14. CASE OpLoadSp(ins, delay)
  BY <1>1, <1>14 DEF OpLoadSp, Following
<1>15. CASE OpLoadI(ins, delay)
  <2>1. Lo(ins.arg) \in Byte
    BY <1>1, PartsInByte
  <2> QED
    BY <1>1, <1>15, <2>1 DEF OpLoadI, Following
<1>16. CASE OpStore(ins, delay)
  BY <1>1, <1>16 DEF OpStore, Following
<1> QED
  BY <1>4, <1>5, <1>6, <1>7, <1>8, <1>9, <1>10, <1>11, <1>12, <1>13,
     <1>14, <1>15, <1>16 DEF Dispatch

LEMMA TypesOfInit == Init => TypeOK
BY ConstantsInRange, RamAssumption DEF Init, InitAt, TypeOK

LEMMA RaisedTypes ==
  /\ RaisedNmi \subseteq BOOLEAN
  /\ RaisedInt \subseteq Vectors \cup {None}
BY DEF RaisedNmi, RaisedInt

LEMMA StepTypes ==
  ASSUME TypeOK, Step
  PROVE  TypeOK'
<1> USE DEF TypeOK
<1>1. Wrap(sp - 2) \in Addr /\ Pushed(ram, sp, pc) \in [Addr -> Byte]
  BY ConstantsInRange, WrapInAddr, PushedIsRam
<1>2. CASE AcceptReset
  BY <1>2, ConstantsInRange DEF AcceptReset, lines
<1>3. CASE AcceptNonMaskableInterrupt
  BY <1>1, <1>3, ConstantsInRange, RaisedTypes
    DEF AcceptNonMaskableInterrupt, Push
<1>4. CASE AcceptMaskableInterrupt
  <2>1. intVector \in Byte
    BY <1>4, VectorsAssumption DEF AcceptMaskableInterrupt, IntAcceptable
  <2>2. ram' \in [Addr -> Byte] /\ sp' \in Addr
    BY <1>1, <1>4 DEF AcceptMaskableInterrupt, Push
  <2>3. WordAt(ram', Word(i, intVector)) \in Addr
    BY <2>1, <2>2, WordInAddr, WordAtInAddr
  <2>4. im = 0 => intVector \in RstOpcodes
    BY <1>4 DEF AcceptMaskableInterrupt, AcceptableVector
  <2>5. pc' \in Addr
    BY <1>4, <2>3, <2>4, ConstantsInRange DEF AcceptMaskableInterrupt
  <2> QED
    BY <1>4, <2>2, <2>5, RaisedTypes DEF AcceptMaskableInterrupt
<1>5. CASE RefuseMaskableInterrupt
  BY <1>5 DEF RefuseMaskableInterrupt, regs, ctl, lines
<1>6. CASE HaltedIdle
  BY <1>6, ConstantsInRange DEF HaltedIdle, regs, lines
<1>7. CASE ExecuteInstruction
  <2>1. PICK ins \in Program[pc] :
          Dispatch(ins, 0) /\ afterEI' = (ins.op = "EI")
    BY <1>7 DEF ExecuteInstruction
  <2>2. CoreOK'
    BY <2>1, DispatchTypes DEF CoreOK
  <2> QED
    BY <1>7, <2>1, <2>2 DEF ExecuteInstruction, CoreOK, lines
<1> QED
  BY <1>2, <1>3, <1>4, <1>5, <1>6, <1>7 DEF Step

LEMMA HostTypes ==
  ASSUME TypeOK, HostAction
  PROVE  TypeOK'
<1> USE DEF TypeOK
<1>1. CASE RequestReset
  BY <1>1 DEF RequestReset, Call, regs, ctl
<1>2. CASE ClearReset
  BY <1>2 DEF ClearReset, Call, regs, ctl
<1>3. CASE RequestMaskableInterrupt
  BY <1>3 DEF RequestMaskableInterrupt, Call, regs, ctl
<1>4. CASE ClearMaskableInterrupt
  BY <1>4 DEF ClearMaskableInterrupt, Call, regs, ctl
<1>5. CASE RequestNonMaskableInterrupt
  BY <1>5 DEF RequestNonMaskableInterrupt, Call, regs, ctl
<1>6. CASE ClearNonMaskableInterrupt
  BY <1>6 DEF ClearNonMaskableInterrupt, Call, regs, ctl
<1>7. CASE CaptureState
  BY <1>7 DEF CaptureState, Call, regs, ctl, lines, CPUState
<1>8. CASE RestoreState
  <2>1. saved \in CPUState
    BY <1>8 DEF RestoreState
  <2> QED
    BY <1>8, <2>1 DEF RestoreState, CPUState
<1>9. CASE DecodeAndExecute
  <2>1. PICK ins \in Program[pc] :
          Dispatch(ins, eiDelay) /\ afterEI' = (ins.op = "EI")
    BY <1>9 DEF DecodeAndExecute
  <2>2. CoreOK'
    BY <2>1, DispatchTypes DEF CoreOK
  <2> QED
    BY <1>9, <2>1, <2>2 DEF DecodeAndExecute, CoreOK, lines
<1> QED
  BY <1>1, <1>2, <1>3, <1>4, <1>5, <1>6, <1>7, <1>8, <1>9 DEF HostAction

(* Whatever the program and the host do, the CPU state stays one that      *)
(* CPUState accepts: every capture_state() succeeds (state.py).            *)
THEOREM TypeCorrect == Spec => []TypeOK
<1>1. TypeOK /\ [Next]_vars => TypeOK'
  <2>1. CASE UNCHANGED vars
    BY <2>1 DEF TypeOK, vars, regs, ctl, lines
  <2> QED
    BY <2>1, StepTypes, HostTypes DEF Next
<1> QED
  BY <1>1, TypesOfInit, PTL DEF Spec

-----------------------------------------------------------------------------
(* The interrupt flip-flops *)

(* IffOrdered is not inductive alone: restore_state brings a snapshot's    *)
(* flip-flops back, so a snapshot must be ordered too.                     *)
SnapshotIff == saved # None => (saved.iff1 => saved.iff2)

IffInv == TypeOK /\ IffOrdered /\ SnapshotIff

LEMMA DispatchIff ==
  ASSUME IffOrdered, NEW ins, NEW delay, Dispatch(ins, delay)
  PROVE  IffOrdered'
BY DEF Dispatch, IffOrdered, OpNop, OpInterruptEnable, OpHalt, OpIm, RetIff,
       OpRet, OpCall, OpJump, OpPush, OpPop, OpLoadSp, OpLoadI, OpStore

LEMMA IffStep ==
  ASSUME IffInv, Next
  PROVE  IffOrdered' /\ SnapshotIff'
<1> USE DEF IffInv, IffOrdered, SnapshotIff
<1>1. CASE AcceptReset
  BY <1>1 DEF AcceptReset
<1>2. CASE AcceptNonMaskableInterrupt
  BY <1>2 DEF AcceptNonMaskableInterrupt
<1>3. CASE AcceptMaskableInterrupt
  BY <1>3 DEF AcceptMaskableInterrupt
<1>4. CASE RefuseMaskableInterrupt
  BY <1>4 DEF RefuseMaskableInterrupt, ctl
<1>5. CASE HaltedIdle
  BY <1>5 DEF HaltedIdle
<1>6. CASE ExecuteInstruction
  BY <1>6, DispatchIff DEF ExecuteInstruction
<1>7. CASE DecodeAndExecute
  BY <1>7, DispatchIff DEF DecodeAndExecute
<1>8. CASE CaptureState
  BY <1>8 DEF CaptureState, Call, ctl
<1>9. CASE RestoreState
  BY <1>9 DEF RestoreState
<1>10. CASE \/ RequestReset \/ ClearReset
            \/ RequestMaskableInterrupt \/ ClearMaskableInterrupt
            \/ RequestNonMaskableInterrupt \/ ClearNonMaskableInterrupt
  BY <1>10 DEF RequestReset, ClearReset, RequestMaskableInterrupt,
     ClearMaskableInterrupt, RequestNonMaskableInterrupt,
     ClearNonMaskableInterrupt, Call, ctl
<1> QED
  BY <1>1, <1>2, <1>3, <1>4, <1>5, <1>6, <1>7, <1>8, <1>9, <1>10
    DEF Next, Step, HostAction

(* Whatever the program, the host and the erratum, IFF2 is set whenever    *)
(* IFF1 is: a RETN never turns interrupts off (_control.py, _ret_iff).     *)
THEOREM IffStaysOrdered == Spec => []IffOrdered
<1>1. Init => IffInv
  BY TypesOfInit DEF Init, InitAt, IffInv, IffOrdered, SnapshotIff
<1>2. IffInv /\ [Next]_vars => IffInv'
  <2>1. TypeOK /\ [Next]_vars => TypeOK'
    BY StepTypes, HostTypes DEF Next, TypeOK, vars, regs, ctl, lines
  <2>2. CASE UNCHANGED vars
    BY <2>1, <2>2 DEF IffInv, IffOrdered, SnapshotIff, vars, ctl
  <2> QED
    BY <2>1, <2>2, IffStep DEF IffInv
<1>3. IffInv => IffOrdered
  BY DEF IffInv
<1> QED
  BY <1>1, <1>2, <1>3, PTL DEF Spec

-----------------------------------------------------------------------------
(* The EI delay *)

SnapshotDelay == saved # None => ((saved.eiDelay = 1) <=> saved.wasAfterEI)

DelayInv == TypeOK /\ EiDelayCoversOneInstruction /\ SnapshotDelay

(* A handler that starts with the delay spent ends with it armed only if   *)
(* it is EI                                                                *)
LEMMA DispatchDelay ==
  ASSUME NEW ins, Dispatch(ins, 0)
  PROVE  (eiDelay' = 1) <=> (ins.op = "EI")
<1>1. CASE OpInterruptEnable(ins)
  BY <1>1 DEF OpInterruptEnable
<1>2. CASE ~OpInterruptEnable(ins)
  <2>1. eiDelay' = 0 /\ ins.op # "EI"
    BY <1>2 DEF Dispatch, OpNop, OpHalt, OpIm, RetIff, OpRet, OpCall, OpJump,
                OpPush, OpPop, OpLoadSp, OpLoadI, OpStore
  <2> QED
    BY <2>1
<1> QED
  BY <1>1, <1>2

LEMMA DelayStep ==
  ASSUME DelayInv, Next, "decode_and_execute" \notin Host
  PROVE  EiDelayCoversOneInstruction' /\ SnapshotDelay'
<1> USE DEF DelayInv, EiDelayCoversOneInstruction, SnapshotDelay
<1>1. CASE AcceptReset
  BY <1>1 DEF AcceptReset
<1>2. CASE AcceptNonMaskableInterrupt
  BY <1>2 DEF AcceptNonMaskableInterrupt
<1>3. CASE AcceptMaskableInterrupt
  BY <1>3 DEF AcceptMaskableInterrupt
<1>4. CASE RefuseMaskableInterrupt
  BY <1>4 DEF RefuseMaskableInterrupt, ctl
<1>5. CASE HaltedIdle
  BY <1>5 DEF HaltedIdle
<1>6. CASE ExecuteInstruction
  <2>1. PICK ins \in Program[pc] :
          Dispatch(ins, 0) /\ afterEI' = (ins.op = "EI")
    BY <1>6 DEF ExecuteInstruction
  <2> QED
    BY <1>6, <2>1, DispatchDelay DEF ExecuteInstruction
<1>7. CASE CaptureState
  BY <1>7 DEF CaptureState, Call, ctl
<1>8. CASE RestoreState
  BY <1>8 DEF RestoreState
<1>9. CASE \/ RequestReset \/ ClearReset
           \/ RequestMaskableInterrupt \/ ClearMaskableInterrupt
           \/ RequestNonMaskableInterrupt \/ ClearNonMaskableInterrupt
  BY <1>9 DEF RequestReset, ClearReset, RequestMaskableInterrupt,
     ClearMaskableInterrupt, RequestNonMaskableInterrupt,
     ClearNonMaskableInterrupt, Call, ctl
<1>10. ~DecodeAndExecute
  BY DEF DecodeAndExecute
<1> QED
  BY <1>1, <1>2, <1>3, <1>4, <1>5, <1>6, <1>7, <1>8, <1>9, <1>10
    DEF Next, Step, HostAction

(* On a host that advances the CPU with step() alone, the EI delay is      *)
(* armed exactly after an EI, NMIs aside, through any number of snapshots  *)
(* (cpu.py, step).                                                         *)
THEOREM EiDelayExact ==
  ASSUME "decode_and_execute" \notin Host
  PROVE  Spec => []EiDelayCoversOneInstruction
<1>1. Init => DelayInv
  BY TypesOfInit DEF Init, InitAt, DelayInv, EiDelayCoversOneInstruction, SnapshotDelay
<1>2. DelayInv /\ [Next]_vars => DelayInv'
  <2>1. TypeOK /\ [Next]_vars => TypeOK'
    BY StepTypes, HostTypes DEF Next, TypeOK, vars, regs, ctl, lines
  <2>2. CASE UNCHANGED vars
    BY <2>1, <2>2 DEF DelayInv, EiDelayCoversOneInstruction, SnapshotDelay,
                      vars, ctl
  <2> QED
    BY <2>1, <2>2, DelayStep DEF DelayInv
<1>3. DelayInv => EiDelayCoversOneInstruction
  BY DEF DelayInv
<1> QED
  BY <1>1, <1>2, <1>3, PTL DEF Spec

-----------------------------------------------------------------------------
(* The EI window on a host that does everything *)

(* A snapshot taken inside a window has the delay in it *)
SnapshotWindow == saved # None => (saved.wasAfterEI => saved.eiDelay = 1)

WindowInv == EiWindowHolds /\ SnapshotWindow

LEMMA EiArms ==
  ASSUME NEW ins, NEW delay, Dispatch(ins, delay), ins.op = "EI"
  PROVE  eiDelay' = 1
BY DEF Dispatch, OpInterruptEnable, OpNop, OpHalt, OpIm, RetIff, OpRet, OpCall,
       OpJump, OpPush, OpPop, OpLoadSp, OpLoadI, OpStore

LEMMA WindowStep ==
  ASSUME WindowInv, Next
  PROVE  WindowInv'
<1> USE DEF WindowInv, EiWindowHolds, SnapshotWindow
<1>1. CASE AcceptReset
  BY <1>1 DEF AcceptReset
<1>2. CASE AcceptNonMaskableInterrupt
  BY <1>2 DEF AcceptNonMaskableInterrupt
<1>3. CASE AcceptMaskableInterrupt
  BY <1>3 DEF AcceptMaskableInterrupt
<1>4. CASE RefuseMaskableInterrupt
  BY <1>4 DEF RefuseMaskableInterrupt, ctl
<1>5. CASE HaltedIdle
  BY <1>5 DEF HaltedIdle
<1>6. CASE ExecuteInstruction
  <2>1. PICK ins \in Program[pc] : Dispatch(ins, 0) /\ afterEI' = (ins.op = "EI")
    BY <1>6 DEF ExecuteInstruction
  <2> QED
    BY <1>6, <2>1, EiArms DEF ExecuteInstruction
<1>7. CASE DecodeAndExecute
  <2>1. PICK ins \in Program[pc] :
          Dispatch(ins, eiDelay) /\ afterEI' = (ins.op = "EI")
    BY <1>7 DEF DecodeAndExecute
  <2> QED
    BY <1>7, <2>1, EiArms DEF DecodeAndExecute
<1>8. CASE CaptureState
  BY <1>8 DEF CaptureState, Call, ctl
<1>9. CASE RestoreState
  BY <1>9 DEF RestoreState
<1>10. CASE \/ RequestReset \/ ClearReset
            \/ RequestMaskableInterrupt \/ ClearMaskableInterrupt
            \/ RequestNonMaskableInterrupt \/ ClearNonMaskableInterrupt
  BY <1>10 DEF RequestReset, ClearReset, RequestMaskableInterrupt,
     ClearMaskableInterrupt, RequestNonMaskableInterrupt,
     ClearNonMaskableInterrupt, Call, ctl
<1> QED
  BY <1>1, <1>2, <1>3, <1>4, <1>5, <1>6, <1>7, <1>8, <1>9, <1>10
    DEF Next, Step, HostAction

(* Whatever the host mixes, decode_and_execute and snapshots included, an  *)
(* EI is followed by an armed delay (cpu.py, restore_state; _dispatch.py). *)
THEOREM EiWindowNeverShort == Spec => []EiWindowHolds
<1>1. Init => WindowInv
  BY DEF Init, InitAt, WindowInv, EiWindowHolds, SnapshotWindow
<1>2. WindowInv /\ [Next]_vars => WindowInv'
  <2>1. CASE UNCHANGED vars
    BY <2>1 DEF WindowInv, EiWindowHolds, SnapshotWindow, vars, ctl
  <2> QED
    BY <2>1, WindowStep
<1>3. WindowInv => EiWindowHolds
  BY DEF WindowInv
<1> QED
  BY <1>1, <1>2, <1>3, PTL DEF Spec

-----------------------------------------------------------------------------
(* The requests *)

(* A boundary that leaves the lines alone, with no device called back *)
LEMMA QuietConserves ==
  ASSUME UNCHANGED lines, NEW kind \in {"reset", "halted", "instruction", "decoded"},
         Quiet(kind)
  PROVE  Conserved
BY DEF lines, Quiet, Idle, Conserved

LEMMA StepConserves == ASSUME TypeOK, Step PROVE Conserved
<1>1. CASE AcceptReset
  BY <1>1, QuietConserves DEF AcceptReset
<1>2. CASE AcceptNonMaskableInterrupt
  <2>1. PICK n \in RaisedNmi, v \in RaisedInt :
          /\ nmiPending' = n
          /\ intVector' = IF v = None THEN intVector ELSE v
          /\ event' = [kind |-> "nmi", raised |-> [nmi |-> n, int |-> v # None]]
    BY <1>2 DEF AcceptNonMaskableInterrupt
  <2>2. nmiPending /\ resetPending' = resetPending /\ n \in BOOLEAN
    BY <1>2, RaisedTypes DEF AcceptNonMaskableInterrupt
  <2> QED
    BY <2>1, <2>2 DEF Conserved
<1>3. CASE AcceptMaskableInterrupt
  <2>1. PICK n \in RaisedNmi, v \in RaisedInt :
          /\ nmiPending' = n
          /\ intVector' = v
          /\ event' = [kind |-> "int", raised |-> [nmi |-> n, int |-> v # None]]
    BY <1>3 DEF AcceptMaskableInterrupt
  <2>2. /\ ~nmiPending /\ intVector # None /\ n \in BOOLEAN
        /\ resetPending' = resetPending
    BY <1>3, RaisedTypes DEF AcceptMaskableInterrupt, IntAcceptable
  <2> QED
    BY <2>1, <2>2 DEF Conserved
<1>4. CASE RefuseMaskableInterrupt
  BY <1>4 DEF RefuseMaskableInterrupt, IntAcceptable, lines, Quiet, Idle, Conserved
<1>5. CASE HaltedIdle
  BY <1>5, QuietConserves DEF HaltedIdle
<1>6. CASE ExecuteInstruction
  BY <1>6, QuietConserves DEF ExecuteInstruction
<1> QED
  BY <1>1, <1>2, <1>3, <1>4, <1>5, <1>6 DEF Step

LEMMA HostConserves == ASSUME TypeOK, HostAction PROVE Conserved
<1> USE DEF Conserved, Call, Quiet, Idle
<1>1. CASE RequestReset \/ ClearReset
  BY <1>1 DEF RequestReset, ClearReset
<1>2. CASE RequestMaskableInterrupt
  <2>1. intVector' # None
    <3>1. PICK v \in Vectors : intVector' = v
      BY <1>2 DEF RequestMaskableInterrupt
    <3> QED
      BY <3>1, VectorsAssumption, NoneAssumption
  <2> QED
    BY <1>2, <2>1 DEF RequestMaskableInterrupt
<1>3. CASE ClearMaskableInterrupt
  BY <1>3 DEF ClearMaskableInterrupt
<1>4. CASE RequestNonMaskableInterrupt \/ ClearNonMaskableInterrupt
  BY <1>4 DEF RequestNonMaskableInterrupt, ClearNonMaskableInterrupt
<1>5. CASE CaptureState
  BY <1>5 DEF CaptureState, lines
<1>6. CASE RestoreState
  BY <1>6 DEF RestoreState
<1>7. CASE DecodeAndExecute
  BY <1>7, QuietConserves DEF DecodeAndExecute
<1> QED
  BY <1>1, <1>2, <1>3, <1>4, <1>5, <1>6, <1>7 DEF HostAction

(* No program, device or host loses a request or makes one up: each leaves *)
(* its line by being served, cancelled, overwritten or restored over, and  *)
(* what a device raises during an acceptance is pending after it (_core.py,*)
(* _accept_non_maskable_interrupt, _accept_maskable_interrupt).            *)
THEOREM RequestsAreConserved == Spec => RequestsConserved
<1>1. TypeOK /\ [Next]_vars => [Conserved]_vars
  BY StepConserves, HostConserves DEF Next
<1>2. Spec => []TypeOK
  BY TypeCorrect
<1> QED
  BY <1>1, <1>2, PTL DEF Spec, RequestsConserved

-----------------------------------------------------------------------------
(* next_boundary and step() *)

(* Every step() is of one of six kinds and next_boundary names it          *)
LEMMA StepPredicted ==
  ASSUME Step
  PROVE  \/ event'.kind \in {"reset", "nmi", "int", "halted", "instruction"}
            /\ event'.kind = NextBoundary
         \/ event'.kind = "refused" /\ NextBoundary = "int"
<1> USE DEF NextBoundary, IntAcceptable, NothingToAccept, Quiet
<1>1. CASE AcceptReset
  BY <1>1 DEF AcceptReset
<1>2. CASE AcceptNonMaskableInterrupt
  BY <1>2 DEF AcceptNonMaskableInterrupt
<1>3. CASE AcceptMaskableInterrupt
  BY <1>3 DEF AcceptMaskableInterrupt
<1>4. CASE RefuseMaskableInterrupt
  BY <1>4 DEF RefuseMaskableInterrupt
<1>5. CASE HaltedIdle
  BY <1>5 DEF HaltedIdle
<1>6. CASE ExecuteInstruction
  BY <1>6 DEF ExecuteInstruction
<1> QED
  BY <1>1, <1>2, <1>3, <1>4, <1>5, <1>6 DEF Step

(* The two copies of the priorities, next_boundary of debug.py and step()  *)
(* of cpu.py, agree in every step of every behaviour.                      *)
THEOREM PredictionHolds == Spec => StepAsPredicted
<1> DEFINE Predicted ==
      /\ event'.kind \in {"reset", "nmi", "int", "halted", "instruction"} =>
           event'.kind = NextBoundary
      /\ event'.kind = "refused" => NextBoundary = "int"
<1>1. Step => Predicted
  BY StepPredicted
<1>2. HostAction => Predicted
  <2>1. HostAction => event'.kind \in {"host", "decoded"}
    BY DEF HostAction, RequestReset, ClearReset, RequestMaskableInterrupt,
       ClearMaskableInterrupt, RequestNonMaskableInterrupt,
       ClearNonMaskableInterrupt, CaptureState, RestoreState,
       DecodeAndExecute, Call, Quiet
  <2> QED
    BY <2>1
<1>3. [Next]_vars => [Predicted]_vars
  BY <1>1, <1>2 DEF Next
<1> QED
  BY <1>3, PTL DEF Spec, StepAsPredicted

-----------------------------------------------------------------------------
(* The contract *)

LEMMA DispatchKeepsContract ==
  ASSUME TypeOK, NothingToAccept, ~halted, NEW ins, Dispatch(ins, 0),
         UNCHANGED lines
  PROVE  Contract!Work
<1> USE DEF TypeOK, NothingToAccept, IntAcceptable, lines, IntMask
<1>1. Contract!NothingServable
  BY DEF Contract!NothingServable
<1>2. CASE OpInterruptEnable(ins)
  BY <1>1, <1>2 DEF OpInterruptEnable, Contract!Work
<1>3. CASE OpHalt(ins, 0)
  BY <1>1, <1>3 DEF OpHalt, Contract!Work
<1>4. CASE RetIff(ins, 0)
  BY <1>1, <1>4 DEF RetIff, Contract!Work
<1>5. CASE \/ OpNop(ins, 0) \/ OpIm(ins, 0) \/ OpRet(ins, 0)
           \/ OpCall(ins, 0) \/ OpJump(ins, 0) \/ OpPush(ins, 0)
           \/ OpPop(ins, 0) \/ OpLoadSp(ins, 0) \/ OpLoadI(ins, 0)
           \/ OpStore(ins, 0)
  <2>1. eiDelay' = 0 /\ iff1' = iff1 /\ halted' = FALSE
    BY <1>5 DEF OpNop, OpIm, OpRet, OpCall, OpJump, OpPush, OpPop, OpLoadSp,
                OpLoadI, OpStore
  <2> QED
    BY <1>1, <2>1 DEF Contract!Work
<1> QED
  BY <1>2, <1>3, <1>4, <1>5 DEF Dispatch

LEMMA StepKeepsContract ==
  ASSUME TypeOK, Step
  PROVE  [Contract!ContractNext]_(Contract!cvars)
<1> USE DEF TypeOK, IntAcceptable, IntMask
<1>1. CASE AcceptReset
  <2>1. Contract!ServeReset
    BY <1>1 DEF AcceptReset, lines, Contract!ServeReset
  <2> QED
    BY <2>1 DEF Contract!ContractNext
<1>2. CASE AcceptNonMaskableInterrupt
  <2>1. nmiPending' \in BOOLEAN
    BY <1>2, RaisedTypes DEF AcceptNonMaskableInterrupt
  <2>2. intVector # None => intVector' # None
    BY <1>2 DEF AcceptNonMaskableInterrupt
  <2>3. Contract!ServeNmi
    BY <1>2, <2>1, <2>2 DEF AcceptNonMaskableInterrupt, Contract!ServeNmi
  <2> QED
    BY <2>3 DEF Contract!ContractNext
<1>3. CASE AcceptMaskableInterrupt
  <2>1. nmiPending' \in BOOLEAN
    BY <1>3, RaisedTypes DEF AcceptMaskableInterrupt
  <2>2. Contract!ServeInt
    BY <1>3, <2>1 DEF AcceptMaskableInterrupt, Contract!ServeInt
  <2> QED
    BY <2>2 DEF Contract!ContractNext
<1>4. CASE RefuseMaskableInterrupt
  BY <1>4 DEF RefuseMaskableInterrupt, ctl, lines, Contract!cvars
<1>5. CASE HaltedIdle
  <2>1. Contract!Idling
    BY <1>5 DEF HaltedIdle, NothingToAccept, lines, Contract!Idling,
                Contract!NothingServable
  <2> QED
    BY <2>1 DEF Contract!ContractNext
<1>6. CASE ExecuteInstruction
  BY <1>6, DispatchKeepsContract DEF ExecuteInstruction, Contract!ContractNext
<1> QED
  BY <1>1, <1>2, <1>3, <1>4, <1>5, <1>6 DEF Step

LEMMA HostKeepsContract ==
  ASSUME TypeOK, HostAction,
         "decode_and_execute" \notin Host, "restore_state" \notin Host
  PROVE  [Contract!ContractNext]_(Contract!cvars)
<1>1. CASE RequestReset \/ ClearReset
  <2>1. /\ resetPending' \in BOOLEAN
        /\ UNCHANGED <<nmiPending, intVector, iff1, eiDelay, halted>>
    BY <1>1 DEF RequestReset, ClearReset, Call, ctl
  <2>2. Contract!Signal
    BY <2>1 DEF Contract!Signal, IntMask
  <2> QED
    BY <2>2 DEF Contract!ContractNext
<1>2. CASE RequestNonMaskableInterrupt \/ ClearNonMaskableInterrupt
  <2>1. /\ nmiPending' \in BOOLEAN
        /\ UNCHANGED <<resetPending, intVector, iff1, eiDelay, halted>>
    BY <1>2 DEF RequestNonMaskableInterrupt, ClearNonMaskableInterrupt,
                Call, ctl
  <2>2. Contract!Signal
    BY <2>1 DEF Contract!Signal, IntMask
  <2> QED
    BY <2>2 DEF Contract!ContractNext
<1>3. CASE RequestMaskableInterrupt \/ ClearMaskableInterrupt
  <2>1. UNCHANGED <<resetPending, nmiPending, iff1, eiDelay, halted>>
    BY <1>3 DEF RequestMaskableInterrupt, ClearMaskableInterrupt, Call, ctl
  <2>2. Contract!Signal
    BY <2>1 DEF Contract!Signal, IntMask
  <2> QED
    BY <2>2 DEF Contract!ContractNext
<1>4. CASE CaptureState
  BY <1>4 DEF CaptureState, Call, ctl, lines, IntMask, Contract!cvars
<1>5. ~RestoreState /\ ~DecodeAndExecute
  BY DEF RestoreState, DecodeAndExecute
<1> QED
  BY <1>1, <1>2, <1>3, <1>4, <1>5 DEF HostAction

(* The CPU implements InterruptContract for every program and every host   *)
(* that advances it with step() and does not load snapshots.               *)
THEOREM ContractImplemented ==
  ASSUME "decode_and_execute" \notin Host, "restore_state" \notin Host
  PROVE  Spec => KeepsContract
<1>1. Init => Contract!ContractInit
  BY DEF Init, InitAt, Contract!ContractInit, IntMask
<1>2. TypeOK /\ [Next]_vars => [Contract!ContractNext]_(Contract!cvars)
  <2>1. UNCHANGED vars => UNCHANGED Contract!cvars
    BY DEF vars, ctl, lines, Contract!cvars, IntMask
  <2> QED
    BY <2>1, StepKeepsContract, HostKeepsContract DEF Next
<1> QED
  BY <1>1, <1>2, TypeCorrect, PTL DEF Spec, KeepsContract, Contract!ContractSpec

=============================================================================
