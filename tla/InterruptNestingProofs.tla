----------------------- MODULE InterruptNestingProofs -----------------------
(***************************************************************************)
(* Theorems about guests with interrupt handlers, for every byte width,    *)
(* guest, budget of requests and order of them: a return takes up what was *)
(* interrupted, RETN gives back the enable its NMI took, and handlers that *)
(* end in EI; RETI do not pile up.  What each asks of the guest is a       *)
(* hypothesis about its code or its stack, and none about when requests    *)
(* come.                                                                   *)
(***************************************************************************)
EXTENDS InterruptNesting, Z80LifecycleProofs, FiniteSetTheorems, SequenceTheorems, Remainders

Frame == [kind : {"int", "nmi"}, ret : Addr, sp : Addr, enabled : BOOLEAN,
          window : BOOLEAN, nested : BOOLEAN]

Returns == {"RET", "RETN"}

(* Where there is a return there is nothing but returns: none that may not *)
(* be taken                                                                *)
ReturnsAlone ==
  \A a \in Addr : \A ins \in Program[a], other \in Program[a] :
     ins.op \in Returns => other.op \in Returns

(* The bytes of stack above an SP, for a stack that grows down from the    *)
(* top of memory or from any place below                                   *)
Used(s) == Wrap(-s)

Cells(s) == {Wrap(s - 1), Wrap(s - 2)}

(* What a guest owes the code it interrupts: as long as a frame is open SP *)
(* stays below it, the stack does not grow through address 0, and no store *)
(* hits the return address                                                 *)
StackKept ==
  \A k \in DOMAIN frames :
     /\ Used(sp) >= Used(frames[k].sp) + 2
     /\ \A ins \in Program[pc] :
           ins.op = "LD (nn)" => {ins.arg, Wrap(ins.arg + 1)} \cap Cells(frames[k].sp) = {}

(* Strengthening: what was pushed is still there *)
FramesInv ==
  /\ TypeOK
  /\ frames \in Seq(Frame)
  /\ \A k \in DOMAIN frames : WordAt(ram, Wrap(frames[k].sp - 2)) = frames[k].ret

-----------------------------------------------------------------------------
(* What a push and a store leave of the stack *)

(* An SP a little further down, and how much lies above it *)
LEMMA WrapNear ==
  ASSUME NEW s \in Addr
  PROVE  /\ Wrap(s - 1) = IF s >= 1 THEN s - 1 ELSE s - 1 + Size
         /\ Wrap(s - 2) = IF s >= 2 THEN s - 2 ELSE s - 2 + Size
         /\ Used(s) = IF s = 0 THEN 0 ELSE Size - s
         /\ Wrap(Wrap(s - 2) + 1) = Wrap(s - 1)
         /\ Wrap(s - 1) \in Addr /\ Wrap(s - 2) \in Addr
         /\ Wrap(s - 1) # Wrap(s - 2)
         /\ Wrap(Wrap(s - 2) + 2) = s
<1>1. Size \in Nat /\ Size >= 4 /\ s \in 0 .. Size - 1
  BY SizePositive DEF Addr
<1>2. /\ Wrap(s - 2) = IF s >= 2 THEN s - 2 ELSE s - 2 + Size
      /\ Wrap(s - 1) = IF s >= 1 THEN s - 1 ELSE s - 1 + Size
  BY <1>1 DEF Wrap
<1>3. Used(s) = IF s = 0 THEN 0 ELSE Size - s
  BY <1>1 DEF Wrap, Used
<1>4. Wrap(Wrap(s - 2) + 1) = Wrap(s - 1) /\ Wrap(Wrap(s - 2) + 2) = s
  BY <1>1, <1>2 DEF Wrap
<1>5. Wrap(s - 1) \in Addr /\ Wrap(s - 2) \in Addr
  BY <1>1, <1>2 DEF Addr
<1>6. Wrap(s - 1) # Wrap(s - 2)
  BY <1>1, <1>2
<1> QED
  BY <1>2, <1>3, <1>4, <1>5, <1>6

LEMMA CellsOfWord ==
  ASSUME NEW m, NEW f \in Addr
  PROVE  WordAt(m, Wrap(f - 2)) = Word(m[Wrap(f - 1)], m[Wrap(f - 2)])
BY WrapNear DEF WordAt

(* A push below a frame, that does not come round, misses its cells *)
LEMMA PushMisses ==
  ASSUME NEW m \in [Addr -> Byte], NEW s \in Addr, NEW f \in Addr, NEW w \in Addr,
         Used(s) >= Used(f) + 2, Used(Wrap(s - 2)) >= Used(f) + 2
  PROVE  WordAt(Pushed(m, s, w), Wrap(f - 2)) = WordAt(m, Wrap(f - 2))
<1> DEFINE t == Wrap(s - 2)
<1>1. Size \in Nat /\ Size >= 4 /\ s \in 0 .. Size - 1 /\ f \in 0 .. Size - 1
      /\ t \in 0 .. Size - 1
  BY SizePositive, WrapNear DEF Addr
<1>2. /\ t = IF s >= 2 THEN s - 2 ELSE s - 2 + Size
      /\ Wrap(s - 1) = IF s >= 1 THEN s - 1 ELSE s - 1 + Size
      /\ Used(s) = IF s = 0 THEN 0 ELSE Size - s
  BY WrapNear
<1>3. /\ Wrap(f - 2) = IF f >= 2 THEN f - 2 ELSE f - 2 + Size
      /\ Wrap(f - 1) = IF f >= 1 THEN f - 1 ELSE f - 1 + Size
      /\ Used(f) = IF f = 0 THEN 0 ELSE Size - f
  BY WrapNear
<1>4. Used(t) = IF t = 0 THEN 0 ELSE Size - t
  BY <1>1, WrapNear DEF Addr
<1>5. {Wrap(s - 1), t} \cap {Wrap(f - 1), Wrap(f - 2)} = {}
  <2>0. Used(t) >= Used(f) + 2
    OBVIOUS
  <2> HIDE DEF t
  <2>1. s >= 2
    BY <1>1, <1>2, <1>3, <1>4, <2>0
  <2>2. Wrap(s - 1) = s - 1 /\ t = s - 2
    BY <1>1, <1>2, <2>1
  <2>3. s # 0 /\ t # 0 /\ Size - t >= Used(f) + 2
    BY <1>1, <1>2, <1>3, <1>4, <2>0
  <2>4. CASE f = 0
    BY <1>1, <1>3, <2>2, <2>3, <2>4
  <2>5. CASE f # 0
    <3>1. s + 2 <= f
      BY <1>1, <1>2, <1>3, <2>3, <2>5
    <3> QED
      BY <1>1, <1>3, <2>2, <3>1
  <2> QED
    BY <2>4, <2>5
<1>6. /\ Pushed(m, s, w)[Wrap(f - 1)] = m[Wrap(f - 1)]
      /\ Pushed(m, s, w)[Wrap(f - 2)] = m[Wrap(f - 2)]
  BY <1>5, WrapNear DEF Pushed
<1> QED
  BY <1>6, CellsOfWord

(* What StackKept says of one frame *)
Below(s, f) == Used(s) >= Used(f) + 2

StoresMiss(a, f) ==
  \A ins \in Program[a] : ins.op = "LD (nn)" => {ins.arg, Wrap(ins.arg + 1)} \cap Cells(f) = {}

LEMMA DispatchKeepsFrame ==
  ASSUME TypeOK, NEW ins \in Program[pc], NEW delay, Dispatch(ins, delay),
         NEW f \in Addr, Below(sp, f), Below(sp', f), StoresMiss(pc, f)
  PROVE  WordAt(ram', Wrap(f - 2)) = WordAt(ram, Wrap(f - 2))
<1>1. ram \in [Addr -> Byte] /\ sp \in Addr /\ pc \in Addr
  BY DEF TypeOK
<1>2. ins.arg \in Addr /\ Wrap(pc + ins.len) \in Addr /\ Wrap(ins.arg + 1) \in Addr
  BY <1>1, InstructionsInRange
<1>3. CASE ram' = ram
  BY <1>3
<1>4. CASE \E w \in Addr : Push(w)
  <2>1. PICK w \in Addr : ram' = Pushed(ram, sp, w) /\ sp' = Wrap(sp - 2)
    BY <1>4 DEF Push
  <2>2. Used(sp) >= Used(f) + 2 /\ Used(Wrap(sp - 2)) >= Used(f) + 2
    BY <2>1 DEF Below
  <2> QED
    BY <1>1, <2>1, <2>2, PushMisses
<1>5. CASE OpStore(ins, delay)
  <2>1. PICK low \in Byte, high \in Byte :
          ram' = [ram EXCEPT ![ins.arg] = low, ![Wrap(ins.arg + 1)] = high]
    BY <1>5 DEF OpStore
  <2>2. {ins.arg, Wrap(ins.arg + 1)} \cap Cells(f) = {}
    BY <1>5 DEF OpStore, StoresMiss
  <2>3. PICK a \in Addr, b \in Addr : a = ins.arg /\ b = Wrap(ins.arg + 1)
    BY <1>2
  <2>4. ram' = [ram EXCEPT ![a] = low, ![b] = high] /\ {a, b} \cap Cells(f) = {}
    BY <2>1, <2>2, <2>3
  <2>5. Wrap(f - 1) \in Addr \ {a, b} /\ Wrap(f - 2) \in Addr \ {a, b}
    BY <2>4, WrapNear DEF Cells
  <2>6. ram'[Wrap(f - 1)] = ram[Wrap(f - 1)] /\ ram'[Wrap(f - 2)] = ram[Wrap(f - 2)]
    BY <1>1, <2>3, <2>4, <2>5
  <2> QED
    BY <2>6, CellsOfWord
<1>6. CASE OpCall(ins, delay) \/ OpPush(ins, delay)
  BY <1>2, <1>4, <1>6 DEF OpCall, OpPush, Following
<1>7. CASE ~(OpCall(ins, delay) \/ OpPush(ins, delay) \/ OpStore(ins, delay))
  <2>1. ram' = ram
    BY <1>7 DEF Dispatch, OpNop, OpInterruptEnable, OpHalt, OpIm, RetIff,
       OpRet, OpJump, OpPop, OpLoadSp, OpLoadI, PopInto
  <2> QED
    BY <1>3, <2>1
<1> QED
  BY <1>5, <1>6, <1>7

LEMMA StepKeepsFrame ==
  ASSUME TypeOK, Step \/ HostAction,
         NEW f \in Addr, Below(sp, f), Below(sp', f), StoresMiss(pc, f)
  PROVE  WordAt(ram', Wrap(f - 2)) = WordAt(ram, Wrap(f - 2))
<1>1. ram \in [Addr -> Byte] /\ sp \in Addr /\ pc \in Addr
  BY DEF TypeOK
<1>2. CASE ram' = ram
  BY <1>2
<1>3. CASE Push(pc)
  <2>1. ram' = Pushed(ram, sp, pc) /\ sp' = Wrap(sp - 2)
    BY <1>3 DEF Push
  <2>2. Used(sp) >= Used(f) + 2 /\ Used(Wrap(sp - 2)) >= Used(f) + 2
    BY <2>1 DEF Below
  <2> QED
    BY <1>1, <2>1, <2>2, PushMisses
<1>4. CASE \E ins \in Program[pc], delay \in 0 .. 1 : Dispatch(ins, delay)
  BY <1>4, DispatchKeepsFrame
<1>5. eiDelay \in 0 .. 1 /\ 0 \in 0 .. 1
  BY DEF TypeOK
<1>6. CASE AcceptReset \/ RefuseMaskableInterrupt \/ HaltedIdle
  BY <1>2, <1>6 DEF AcceptReset, RefuseMaskableInterrupt, HaltedIdle, regs
<1>7. CASE AcceptNonMaskableInterrupt \/ AcceptMaskableInterrupt
  BY <1>3, <1>7 DEF AcceptNonMaskableInterrupt, AcceptMaskableInterrupt
<1>8. CASE ExecuteInstruction \/ DecodeAndExecute
  BY <1>4, <1>5, <1>8 DEF ExecuteInstruction, DecodeAndExecute
<1>9. CASE HostAction /\ ~DecodeAndExecute
  BY <1>2, <1>9 DEF HostAction, RequestReset, ClearReset,
     RequestMaskableInterrupt, ClearMaskableInterrupt, RequestNonMaskableInterrupt,
     ClearNonMaskableInterrupt, CaptureState, RestoreState, Call, regs
<1> QED
  BY <1>6, <1>7, <1>8, <1>9 DEF Step

-----------------------------------------------------------------------------
(* The frames a step leaves *)

NewFrame == [kind |-> event'.kind, ret |-> pc, sp |-> sp,
             enabled |-> iff1, window |-> eiDelay = 1, nested |-> FALSE]

(* Marking a frame changes none of what it owes *)
LEMMA MarkedKeeps ==
  ASSUME frames \in Seq(Frame)
  PROVE  /\ Marked \in Seq(Frame) /\ Len(Marked) = Len(frames)
         /\ DOMAIN Marked = DOMAIN frames
         /\ \A k \in DOMAIN frames :
              /\ Marked[k].kind = frames[k].kind
              /\ Marked[k].ret = frames[k].ret /\ Marked[k].sp = frames[k].sp
              /\ event'.kind = "nmi" => Marked[k].nested
              /\ frames[k].nested => Marked[k].nested
<1>1. PICK n \in Nat : n = Len(frames) /\ DOMAIN frames = 1 .. n
  BY LenProperties
<1>2. \A k \in 1 .. n : frames[k] \in Frame
  BY <1>1, ElementOfSeq
<1>3. \A k \in 1 .. n :
        /\ [frames[k] EXCEPT !.nested = TRUE] \in Frame
        /\ [frames[k] EXCEPT !.nested = TRUE].kind = frames[k].kind
        /\ [frames[k] EXCEPT !.nested = TRUE].ret = frames[k].ret
        /\ [frames[k] EXCEPT !.nested = TRUE].sp = frames[k].sp
        /\ [frames[k] EXCEPT !.nested = TRUE].nested = TRUE
  BY <1>2 DEF Frame
<1>4. CASE event'.kind = "nmi"
  <2> DEFINE g == [k \in 1 .. n |-> [frames[k] EXCEPT !.nested = TRUE]]
  <2>1. Marked = g
    BY <1>1, <1>4 DEF Marked
  <2>2. g \in Seq(Frame) /\ Len(g) = n /\ DOMAIN g = 1 .. n
    <3>1. g \in [1 .. n -> Frame]
      BY <1>3
    <3> QED
      BY <3>1, SeqDef, LenProperties
  <2> QED
    BY <1>1, <1>3, <2>1, <2>2
<1>5. CASE event'.kind # "nmi"
  BY <1>1, <1>5 DEF Marked
<1> QED
  BY <1>4, <1>5

LEMMA FramesStepShape ==
  ASSUME frames \in Seq(Frame), TypeOK, TrackFrames
  PROVE  /\ frames' \in Seq(Frame)
         /\ Accepting => /\ ~Returning
                         /\ Len(frames') = Len(frames) + 1
                         /\ frames'[Len(frames) + 1] = NewFrame
                         /\ \A k \in DOMAIN frames : frames'[k] = Marked[k]
         /\ Returning => /\ Len(frames) \in Nat \ {0}
                         /\ Len(frames') = Len(frames) - 1
                         /\ \A k \in 1 .. Len(frames) - 1 : frames'[k] = frames[k]
         /\ ~Accepting /\ ~Returning => frames' = frames
<1>1. Accepting => ~Returning
  BY DEF Accepting, Returning
<1>2. Len(frames) \in Nat /\ DOMAIN frames = 1 .. Len(frames)
  BY LenProperties, SMTT(30)
<1>3. CASE Accepting
  <2>1. NewFrame \in Frame
    <3>1. event'.kind \in {"int", "nmi"}
      BY <1>3 DEF Accepting
    <3>2. pc \in Addr /\ sp \in Addr /\ iff1 \in BOOLEAN
      BY DEF TypeOK
    <3> QED
      BY <3>1, <3>2, Zenon DEF NewFrame, Frame
  <2>2. Marked \in Seq(Frame) /\ Len(Marked) = Len(frames) /\ DOMAIN Marked = DOMAIN frames
    BY MarkedKeeps
  <2>3. frames' = Append(Marked, NewFrame)
    BY <1>3 DEF TrackFrames, NewFrame
  <2>4. PICK m \in Seq(Frame), e \in Frame : m = Marked /\ e = NewFrame
    BY <2>1, <2>2
  <2>5. /\ Append(m, e) \in Seq(Frame) /\ Len(Append(m, e)) = Len(m) + 1
        /\ \A k \in 1 .. Len(m) : Append(m, e)[k] = m[k]
        /\ Append(m, e)[Len(m) + 1] = e
    BY AppendProperties
  <2>6. frames' = Append(m, e) /\ Len(m) = Len(frames)
    BY <2>2, <2>3, <2>4
  <2> QED
    BY <1>1, <1>2, <1>3, <2>4, <2>5, <2>6
<1>4. CASE ~Accepting /\ Returning
  <2>1. frames # <<>> /\ Len(frames) \in Nat \ {0}
    BY <1>4, EmptySeq DEF Returning
  <2>2. frames' = SubSeq(frames, 1, Len(frames) - 1)
    BY <1>4 DEF TrackFrames
  <2>3. \A k \in 1 .. Len(frames) - 1 : frames[k] \in Frame
    BY <1>2, ElementOfSeq
  <2> QED
    BY <1>2, <1>4, <2>1, <2>2, <2>3, SubSeqProperties
<1>5. CASE ~Accepting /\ ~Returning
  BY <1>5 DEF TrackFrames
<1> QED
  BY <1>1, <1>3, <1>4, <1>5

(* Which action an event names: what the frames are told of by the event,  *)
(* the CPU has done                                                        *)
LEMMA EventNamesAction ==
  ASSUME Step \/ HostAction
  PROVE  /\ event'.kind = "nmi" <=> AcceptNonMaskableInterrupt
         /\ event'.kind = "int" <=> AcceptMaskableInterrupt
         /\ event'.kind = "instruction" <=> ExecuteInstruction
<1>1. AcceptReset => event'.kind = "reset"
  BY DEF AcceptReset, Quiet
<1>2. AcceptNonMaskableInterrupt => event'.kind = "nmi"
  BY DEF AcceptNonMaskableInterrupt
<1>3. AcceptMaskableInterrupt => event'.kind = "int"
  BY DEF AcceptMaskableInterrupt
<1>4. RefuseMaskableInterrupt => event'.kind = "refused"
  BY DEF RefuseMaskableInterrupt, Quiet
<1>5. HaltedIdle => event'.kind = "halted"
  BY DEF HaltedIdle, Quiet
<1>6. ExecuteInstruction => event'.kind = "instruction"
  BY DEF ExecuteInstruction, Quiet
<1>7. HostAction => event'.kind \in {"host", "decoded"}
  BY DEF HostAction, RequestReset, ClearReset, RequestMaskableInterrupt,
     ClearMaskableInterrupt, RequestNonMaskableInterrupt, ClearNonMaskableInterrupt,
     CaptureState, RestoreState, DecodeAndExecute, Call, Quiet
<1> QED
  BY <1>1, <1>2, <1>3, <1>4, <1>5, <1>6, <1>7 DEF Step

(* A push at an acceptance is the return address of the new frame *)
LEMMA AcceptancePushes ==
  ASSUME Step \/ HostAction, Accepting
  PROVE  Push(pc)
BY EventNamesAction DEF Accepting, AcceptNonMaskableInterrupt, AcceptMaskableInterrupt

LEMMA FrameFields ==
  ASSUME NEW fs \in Seq(Frame), NEW k \in DOMAIN fs
  PROVE  fs[k].sp \in Addr /\ fs[k].ret \in Addr /\ fs[k].kind \in {"int", "nmi"}
<1>1. fs[k] \in Frame
  BY ElementOfSeq, LenProperties
<1> QED
  BY <1>1 DEF Frame

LEMMA FramesInvKept ==
  ASSUME FramesInv, StackKept, StackKept', [GuestNext]_gvars
  PROVE  FramesInv'
<1>1. TypeOK /\ frames \in Seq(Frame)
  BY DEF FramesInv
<1>2. CASE UNCHANGED gvars
  BY <1>2 DEF FramesInv, TypeOK, gvars, vars, regs, ctl, lines
<1>3. CASE GuestNext
  <2>1. (Step \/ HostAction) /\ TrackFrames
    BY <1>3 DEF GuestNext, GuestStep, GuestDevice, Account
  <2>2. TypeOK'
    BY <1>1, <2>1, StepTypes, HostTypes
  <2>3. frames' \in Seq(Frame)
    BY <1>1, <2>1, FramesStepShape
  <2>4. Len(frames) \in Nat /\ DOMAIN frames = 1 .. Len(frames)
        /\ Len(frames') \in Nat /\ DOMAIN frames' = 1 .. Len(frames')
    BY <1>1, <2>3, LenProperties, Zenon
  <2>5. \A k \in DOMAIN frames' : k \in DOMAIN frames =>
           frames'[k].sp = frames[k].sp /\ frames'[k].ret = frames[k].ret
    BY <1>1, <2>1, <2>4, FramesStepShape, MarkedKeeps, Zenon
  <2>6. ASSUME NEW k \in DOMAIN frames', k \in DOMAIN frames
        PROVE  WordAt(ram', Wrap(frames'[k].sp - 2)) = frames'[k].ret
    <3>1. PICK f \in Addr : f = frames[k].sp /\ f = frames'[k].sp
      BY <1>1, <2>5, <2>6, FrameFields, Zenon
    <3>2. Below(sp, f) /\ StoresMiss(pc, f)
      BY <2>6, <3>1 DEF StackKept, Below, StoresMiss
    <3>3. Below(sp', f)
      BY <3>1 DEF StackKept, Below
    <3>4. WordAt(ram', Wrap(f - 2)) = WordAt(ram, Wrap(f - 2))
      BY <1>1, <2>1, <3>2, <3>3, StepKeepsFrame
    <3>5. WordAt(ram, Wrap(f - 2)) = frames[k].ret
      BY <2>6, <3>1, Zenon DEF FramesInv
    <3> QED
      BY <2>5, <2>6, <3>1, <3>4, <3>5
  <2>7. ASSUME NEW k \in DOMAIN frames', k \notin DOMAIN frames
        PROVE  WordAt(ram', Wrap(frames'[k].sp - 2)) = frames'[k].ret
    <3>0. /\ Accepting => Len(frames') = Len(frames) + 1 /\ frames'[Len(frames) + 1] = NewFrame
          /\ Returning => Len(frames') = Len(frames) - 1
          /\ ~Accepting /\ ~Returning => frames' = frames
      BY <1>1, <2>1, FramesStepShape, Zenon
    <3>1. Accepting /\ frames'[k] = NewFrame
      <4>1. PICK n \in Nat, p \in Nat : n = Len(frames) /\ p = Len(frames')
        BY <2>4, Zenon
      <4>2. k \in 1 .. p /\ k \notin 1 .. n
        BY <2>4, <2>7, <4>1, Zenon
      <4>3. frames' # frames
        BY <2>7
      <4>4. p > n
        BY <4>2
      <4>5. Accepting
        BY <3>0, <4>1, <4>3, <4>4
      <4>6. p = n + 1 /\ frames'[n + 1] = NewFrame
        BY <3>0, <4>1, <4>5, Zenon
      <4>7. k = n + 1
        BY <4>2, <4>6
      <4> QED
        BY <4>5, <4>6, <4>7
    <3>2. frames'[k].sp = sp /\ frames'[k].ret = pc
      BY <3>1 DEF NewFrame
    <3>3. ram' = Pushed(ram, sp, pc)
      BY <1>1, <2>1, <3>1, AcceptancePushes DEF Push
    <3>4. WordAt(Pushed(ram, sp, pc), Wrap(sp - 2)) = pc
      BY <1>1, PoppedIsPushed DEF TypeOK
    <3> QED
      BY <3>2, <3>3, <3>4
  <2> QED
    BY <2>2, <2>3, <2>6, <2>7 DEF FramesInv
<1> QED
  BY <1>2, <1>3

LEMMA FramesInvAtFirst == GuestInit => FramesInv
<1> SUFFICES ASSUME GuestInit PROVE FramesInv
  OBVIOUS
<1>1. guest \in Addr /\ InitAt(guest)
  BY BudgetAssumption DEF GuestInit
<1>2. TypeOK
  BY <1>1, ConstantsInRange, RamAssumption DEF InitAt, TypeOK
<1>3. frames = <<>> /\ frames \in Seq(Frame) /\ DOMAIN frames = {}
  BY EmptySeq DEF GuestInit
<1> QED
  BY <1>2, <1>3 DEF FramesInv

(* Where only returns are found a frame is closed by popping what its      *)
(* acceptance pushed                                                       *)
LEMMA ClosingPops ==
  ASSUME ReturnsAlone, FramesInv, [GuestNext]_gvars, Returning, Len(frames') < Len(frames)
  PROVE  pc' = Top.ret /\ sp' = Top.sp
<1>1. TypeOK /\ frames \in Seq(Frame) /\ frames # <<>>
  BY DEF FramesInv, Returning
<1>2. Len(frames) \in Nat \ {0} /\ DOMAIN frames = 1 .. Len(frames)
  BY <1>1, EmptySeq, LenProperties
<1>3. PICK f \in Addr : f = Top.sp /\ sp = Wrap(f - 2)
  <2>1. Len(frames) \in DOMAIN frames
    BY <1>2
  <2> QED
    BY <1>1, <2>1, FrameFields DEF Top, Returning
<1>4. WordAt(ram, Wrap(f - 2)) = Top.ret
  <2>1. Len(frames) \in DOMAIN frames
    BY <1>2
  <2> QED
    BY <1>3, <2>1 DEF FramesInv, Top
<1>5. GuestNext
  <2>1. ~UNCHANGED gvars
    BY <1>2 DEF gvars
  <2> QED
    BY <2>1
<1>6. ExecuteInstruction
  BY <1>5, EventNamesAction DEF Returning, GuestNext, GuestStep, GuestDevice
<1>7. PICK ins \in Program[pc] : Dispatch(ins, 0)
  BY <1>6 DEF ExecuteInstruction
<1>8. ins.op \in {"RET", "RETN"}
  <2>1. PICK other \in Program[pc] : other.op \in {"RETN", "RET"}
    BY DEF Returning
  <2>2. pc \in Addr
    BY <1>1 DEF TypeOK
  <2> QED
    BY <2>1, <2>2, <1>7 DEF ReturnsAlone, Returns
<1>9. pc' = WordAt(ram, sp) /\ sp' = Wrap(sp + 2)
  BY <1>7, <1>8 DEF Dispatch, OpNop, OpInterruptEnable, OpHalt, OpIm, RetIff,
     OpRet, OpCall, OpJump, OpPush, OpPop, OpLoadSp, OpLoadI, OpStore, PopInto
<1>10. Wrap(Wrap(f - 2) + 2) = f
  BY WrapNear
<1> QED
  BY <1>3, <1>4, <1>9, <1>10

(* An interrupt is invisible to the code it interrupts: for every byte     *)
(* width, every guest that keeps SP and its stores below what is open and  *)
(* has no return that may not be taken, and requests in any order and at   *)
(* any boundary or push, the return that closes an acceptance takes up PC  *)
(* and SP as the acceptance found them (_core.py, _push_word, _pop_word,   *)
(* both acceptances; _control.py, _ret, _ret_iff).                         *)
THEOREM ReturnsTakeUp ==
  ASSUME ReturnsAlone
  PROVE  GuestSpec /\ []StackKept => ReturnsToInterrupted
<1>1. FramesInv /\ StackKept /\ StackKept' /\ [GuestNext]_gvars => FramesInv'
  BY FramesInvKept
<1>2. FramesInv /\ [GuestNext]_gvars
        => [Returning /\ Len(frames') < Len(frames)
              => pc' = Top.ret /\ sp' = Top.sp]_gvars
  BY ClosingPops
<1> QED
  BY <1>1, <1>2, FramesInvAtFirst, PTL DEF GuestSpec, ReturnsToInterrupted

-----------------------------------------------------------------------------
(* What RETN gives back *)

(* Hosts that make requests and take snapshots, and no more *)
DevicesOnly == Host \cap {"request_reset", "restore_state", "decode_and_execute"} = {}

InNmi == frames # <<>> /\ Top.kind = "nmi"
InInt == frames # <<>> /\ Top.kind = "int"
Closing == sp = Wrap(Top.sp - 2)

(* An NMI handler ends in RETN, its only one, and leaves the enable alone *)
NmiHandlersPlain ==
  InNmi => \A ins \in Program[pc] : /\ ins.op \notin {"EI", "DI"}
                                    /\ ins.op = "RETN" => Closing
                                    /\ ins.op = "RET" => ~Closing

(* Strengthening: INT is off in an NMI handler, so what lies on its frame  *)
(* is NMIs and it is nested, and the second of two finds nothing to keep   *)
Overlapped ==
  Top.nested \/ (Len(frames) > 1 /\ frames[Len(frames) - 1].kind = "nmi")

EnableInv ==
  /\ TypeOK /\ frames \in Seq(Frame) /\ ~resetPending
  /\ \A k \in 1 .. Len(frames) - 1 :
        frames[k].kind = "nmi" => frames[k].nested /\ frames[k + 1].kind = "nmi"
  /\ InNmi => ~iff1
  /\ InNmi /\ Overlapped => ~iff2
  /\ InNmi /\ ~Top.nested => iff2 = (Top.enabled /\ ~(Erratum /\ Top.window))

LEMMA DevicesKeepCpu ==
  ASSUME DevicesOnly, HostAction
  PROVE  UNCHANGED <<regs, ctl>> /\ (resetPending' => resetPending) /\ ~Accepting /\ ~Returning
<1>1. ~DecodeAndExecute /\ ~RestoreState /\ ~RequestReset
  BY DEF DevicesOnly, DecodeAndExecute, RestoreState, RequestReset, Call
<1>2. UNCHANGED <<regs, ctl>> /\ event'.kind = "host"
  BY <1>1 DEF HostAction, ClearReset, RequestMaskableInterrupt, ClearMaskableInterrupt,
     RequestNonMaskableInterrupt, ClearNonMaskableInterrupt, CaptureState, Call, Quiet
<1>3. resetPending' => resetPending
  BY <1>1 DEF HostAction, ClearReset, RequestMaskableInterrupt, ClearMaskableInterrupt,
     RequestNonMaskableInterrupt, ClearNonMaskableInterrupt, CaptureState, lines
<1>4. ~Accepting /\ ~Returning
  BY <1>2 DEF Accepting, Returning
<1> QED
  BY <1>2, <1>3, <1>4

(* The frame on top after a step *)
LEMMA TopAfter ==
  ASSUME frames \in Seq(Frame), TypeOK, TrackFrames
  PROVE  /\ Accepting => /\ frames' # <<>> /\ Top' = NewFrame
                         /\ Len(frames') > 1 <=> frames # <<>>
                         /\ frames # <<>> => /\ frames'[Len(frames') - 1].kind = Top.kind
                                             /\ event'.kind = "nmi" =>
                                                   frames'[Len(frames') - 1].nested
         /\ Returning => (frames' # <<>> => /\ Len(frames) > 1
                                            /\ Top' = frames[Len(frames) - 1])
<1>1. PICK n \in Nat, p \in Nat :
        /\ n = Len(frames) /\ p = Len(frames')
        /\ DOMAIN frames = 1 .. n
        /\ frames = <<>> <=> n = 0
        /\ frames' = <<>> <=> p = 0
  <2>1. frames' \in Seq(Frame)
    BY FramesStepShape
  <2>2. Len(<<>>) = 0
    BY EmptySeq
  <2>3. \A s \in Seq(Frame) : Len(s) \in Nat /\ DOMAIN s = 1 .. Len(s)
    BY LenProperties
  <2>4. \A s \in Seq(Frame) : s # <<>> => Len(s) # 0
    BY EmptySeq
  <2> QED
    BY <2>1, <2>2, <2>3, <2>4, Zenon
<1>2. ASSUME Accepting
      PROVE  /\ frames' # <<>> /\ Top' = NewFrame
             /\ Len(frames') > 1 <=> frames # <<>>
             /\ frames # <<>> => /\ frames'[Len(frames') - 1].kind = Top.kind
                                 /\ event'.kind = "nmi" => frames'[Len(frames') - 1].nested
  <2>1. p = n + 1 /\ frames'[p] = NewFrame /\ \A k \in 1 .. n : frames'[k] = Marked[k]
    BY <1>1, <1>2, FramesStepShape, Zenon
  <2>2. Top' = NewFrame
    BY <1>1, <2>1 DEF Top
  <2>3. ASSUME n # 0
        PROVE  frames'[p - 1].kind = Top.kind /\ (event'.kind = "nmi" => frames'[p - 1].nested)
    <3>1. n \in 1 .. n /\ p - 1 = n
      BY <2>1, <2>3
    <3>2. frames'[n] = Marked[n]
      BY <2>1, <3>1
    <3>3. Marked[n].kind = frames[n].kind /\ (event'.kind = "nmi" => Marked[n].nested)
      BY <1>1, <3>1, MarkedKeeps, Zenon
    <3> QED
      BY <1>1, <3>1, <3>2, <3>3, Zenon DEF Top
  <2>4. p > 1 <=> n # 0
    BY <2>1
  <2> QED
    BY <1>1, <2>1, <2>2, <2>3, <2>4
<1>3. ASSUME Returning, frames' # <<>>
      PROVE  Len(frames) > 1 /\ Top' = frames[Len(frames) - 1]
  <2>1. p = n - 1 /\ \A k \in 1 .. n - 1 : frames'[k] = frames[k]
    BY <1>1, <1>3, FramesStepShape, Zenon
  <2>2. p # 0
    BY <1>1, <1>3
  <2>3. n > 1 /\ frames'[p] = frames[n - 1]
    BY <2>1, <2>2
  <2> QED
    BY <1>1, <2>3 DEF Top
<1> QED
  BY <1>2, <1>3

(* What one instruction does to the enable and its delay *)
LEMMA InstructionEnable ==
  ASSUME NEW ins, Dispatch(ins, 0)
  PROVE  /\ ins.op = "RETN" => iff1' = iff2
         /\ ins.op \notin {"EI", "DI", "RETN"} => iff1' = iff1
         /\ ins.op \notin {"EI", "DI"} => iff2' = iff2
         /\ ins.op \in {"EI", "DI"} => iff1' = iff2'
         /\ ins.op = "DI" => ~iff2'
         /\ ins.op # "EI" => eiDelay' = 0
         /\ ins.op = "EI" => eiDelay' = 1 /\ halted' = halted
<1> USE DEF Dispatch, OpNop, OpInterruptEnable, OpHalt, OpIm, RetIff, OpRet, OpCall, OpJump,
       OpPush, OpPop, OpLoadSp, OpLoadI, OpStore
<1>1. ins.op = "RETN" => iff1' = iff2
  BY Zenon
<1>2. ins.op \notin {"EI", "DI", "RETN"} => iff1' = iff1
  BY Zenon
<1>3. ins.op \notin {"EI", "DI"} => iff2' = iff2
  BY Zenon
<1>4. ins.op \in {"EI", "DI"} => iff1' = iff2'
  BY Zenon
<1>5. ins.op = "DI" => ~iff2'
  BY Zenon
<1>6. ins.op # "EI" => eiDelay' = 0
  BY Zenon
<1>7. ins.op = "EI" => eiDelay' = 1 /\ halted' = halted
  BY Zenon
<1> QED
  BY <1>1, <1>2, <1>3, <1>4, <1>5, <1>6, <1>7, Zenon

(* The instruction that closes a frame is a return; RETN in an NMI handler *)
LEMMA ReturningExecutes ==
  ASSUME ReturnsAlone, TypeOK, Returning, NEW ins \in Program[pc]
  PROVE  ins.op \in {"RET", "RETN"} /\ (InNmi /\ NmiHandlersPlain => ins.op = "RETN")
<1>1. PICK other \in Program[pc] : other.op \in {"RETN", "RET"}
  BY DEF Returning
<1>2. ins.op \in {"RET", "RETN"}
  BY <1>1 DEF ReturnsAlone, Returns, TypeOK
<1>3. Closing
  BY DEF Returning, Closing
<1> QED
  BY <1>2, <1>3 DEF NmiHandlersPlain

(* In an NMI handler only its RETN writes the enable *)
LEMMA NmiHandlerKeepsEnable ==
  ASSUME NmiHandlersPlain, InNmi, ExecuteInstruction, ~Returning
  PROVE  iff1' = iff1 /\ iff2' = iff2 /\ eiDelay' = 0
<1>1. PICK ins \in Program[pc] : Dispatch(ins, 0)
  BY DEF ExecuteInstruction
<1>2. ins.op \notin {"EI", "DI"} /\ (ins.op = "RETN" => Closing)
  BY DEF NmiHandlersPlain
<1>3. ins.op # "RETN"
  <2>1. SUFFICES ASSUME ins.op = "RETN" PROVE FALSE
    OBVIOUS
  <2>2. event'.kind = "instruction"
    BY EventNamesAction DEF Step
  <2> QED
    BY <1>2, <2>1, <2>2 DEF Returning, Closing, InNmi
<1>4. ins.op \notin {"EI", "DI", "RETN"} /\ ins.op # "EI"
  BY <1>2, <1>3
<1> QED
  BY <1>1, <1>4, InstructionEnable, Zenon

(* The frames below the one on top, over a step *)
LayersNmi(fs) ==
  \A k \in 1 .. Len(fs) - 1 : fs[k].kind = "nmi" => fs[k].nested /\ fs[k + 1].kind = "nmi"

LEMMA LayersKept ==
  ASSUME frames \in Seq(Frame), TypeOK, TrackFrames, LayersNmi(frames),
         InNmi => event'.kind # "int"
  PROVE  LayersNmi(frames')
<1>1. PICK n \in Nat : n = Len(frames) /\ DOMAIN frames = 1 .. n /\ (n # 0 => frames # <<>>)
  <2>1. Len(<<>>) = 0
    BY EmptySeq
  <2> QED
    BY <2>1, LenProperties, Zenon
<1>2. CASE Accepting
  <2>1. Len(frames') = n + 1 /\ frames'[n + 1] = NewFrame
        /\ \A k \in 1 .. n : frames'[k] = Marked[k]
    BY <1>1, <1>2, FramesStepShape, Zenon
  <2>2. \A k \in 1 .. n : /\ frames'[k].kind = frames[k].kind
                          /\ event'.kind = "nmi" => frames'[k].nested
                          /\ frames[k].nested => frames'[k].nested
    BY <1>1, <2>1, MarkedKeeps, Zenon
  <2>3. frames'[n + 1].kind = event'.kind
    BY <2>1 DEF NewFrame
  <2>4. \A k \in 1 .. n - 1 : frames'[k].kind = "nmi" =>
           frames'[k].nested /\ frames'[k + 1].kind = "nmi"
    <3>1. \A k \in 1 .. n - 1 : k \in 1 .. n /\ k + 1 \in 1 .. n
      OBVIOUS
    <3>2. \A k \in 1 .. n - 1 : frames[k].kind = "nmi" => frames[k].nested /\ frames[k + 1].kind = "nmi"
      BY <1>1 DEF LayersNmi
    <3> QED
      BY <2>2, <3>1, <3>2, Zenon
  <2>5. n # 0 /\ frames'[n].kind = "nmi" => frames'[n].nested /\ frames'[n + 1].kind = "nmi"
    <3>1. SUFFICES ASSUME n # 0, frames'[n].kind = "nmi"
                   PROVE  frames'[n].nested /\ frames'[n + 1].kind = "nmi"
      OBVIOUS
    <3>2. n \in 1 .. n
      BY <3>1
    <3>3. InNmi
      BY <1>1, <2>2, <3>1, <3>2, Zenon DEF InNmi, Top
    <3>4. event'.kind = "nmi"
      BY <1>2, <3>3 DEF Accepting
    <3> QED
      BY <2>2, <2>3, <3>2, <3>4, Zenon
  <2>6. \A k \in 1 .. Len(frames') - 1 : k \in 1 .. n - 1 \/ (k = n /\ n # 0)
    BY <2>1
  <2> QED
    BY <2>4, <2>5, <2>6, Zenon DEF LayersNmi
<1>3. CASE Returning
  <2>1. Len(frames') = n - 1 /\ \A k \in 1 .. n - 1 : frames'[k] = frames[k]
    BY <1>1, <1>3, FramesStepShape, Zenon
  <2>2. \A k \in 1 .. Len(frames') - 1 : k \in 1 .. n - 1 /\ k + 1 \in 1 .. n - 1
    BY <2>1
  <2>3. \A k \in 1 .. n - 1 : frames[k].kind = "nmi" => frames[k].nested /\ frames[k + 1].kind = "nmi"
    BY <1>1 DEF LayersNmi
  <2> QED
    BY <2>1, <2>2, <2>3, Zenon DEF LayersNmi
<1>4. CASE ~Accepting /\ ~Returning
  <2>1. frames' = frames
    BY <1>4, FramesStepShape
  <2> QED
    BY <2>1
<1> QED
  BY <1>2, <1>3, <1>4

(* The part of EnableInv that is about the frame on top *)
EnableOnTop ==
  /\ InNmi => ~iff1
  /\ InNmi /\ Overlapped => ~iff2
  /\ InNmi /\ ~Top.nested => iff2 = (Top.enabled /\ ~(Erratum /\ Top.window))

LEMMA NmiTakesEnable ==
  ASSUME TypeOK, frames \in Seq(Frame), EnableOnTop, TrackFrames, Step,
         AcceptNonMaskableInterrupt
  PROVE  EnableOnTop'
<1>1. event'.kind = "nmi" /\ Accepting
  BY EventNamesAction DEF Accepting
<1>2. /\ Top' = NewFrame
      /\ Len(frames') > 1 <=> frames # <<>>
      /\ frames # <<>> => frames'[Len(frames') - 1].kind = Top.kind
  BY <1>1, TopAfter
<1>3. Top'.nested = FALSE /\ Top'.enabled = iff1 /\ Top'.window = (eiDelay = 1)
  BY <1>2, Zenon DEF NewFrame
<1>4. /\ iff1' = FALSE
      /\ Erratum /\ eiDelay > 0 => iff2' = FALSE
      /\ ~(Erratum /\ eiDelay > 0) => iff2' = iff1
  BY Zenon DEF AcceptNonMaskableInterrupt
<1>5. eiDelay > 0 <=> eiDelay = 1
  BY DEF TypeOK
<1>6. ~iff1'
  BY <1>4
<1>7. Overlapped' => InNmi
  <2>1. SUFFICES ASSUME Overlapped' PROVE InNmi
    OBVIOUS
  <2>2. ~Top'.nested
    BY <1>3
  <2>3. Len(frames') > 1 /\ frames'[Len(frames') - 1].kind = "nmi"
    BY <2>1, <2>2 DEF Overlapped
  <2> QED
    BY <1>2, <2>3 DEF InNmi
<1>8. iff2' => iff1
  BY <1>4
<1>9. Overlapped' => ~iff2'
  BY <1>7, <1>8 DEF EnableOnTop
<1>10. iff2' = (Top'.enabled /\ ~(Erratum /\ Top'.window))
  <2>1. iff1 \in BOOLEAN
    BY DEF TypeOK
  <2> QED
    BY <2>1, <1>3, <1>4, <1>5, Zenon
<1> QED
  BY <1>6, <1>9, <1>10 DEF EnableOnTop

LEMMA EnableInvKept ==
  ASSUME DevicesOnly, ReturnsAlone, EnableInv, NmiHandlersPlain, [GuestNext]_gvars
  PROVE  EnableInv'
<1>1. /\ TypeOK /\ frames \in Seq(Frame) /\ ~resetPending /\ LayersNmi(frames) /\ EnableOnTop
  BY DEF EnableInv, LayersNmi, EnableOnTop
<1>2. CASE UNCHANGED gvars
  BY <1>1, <1>2 DEF EnableInv, gvars, vars, regs, ctl, lines, TypeOK, InNmi, Top, Overlapped
<1>3. CASE GuestNext
  <2>1. (Step \/ HostAction) /\ TrackFrames
    BY <1>3 DEF GuestNext, GuestStep, GuestDevice, Account
  <2>2. TypeOK' /\ frames' \in Seq(Frame)
    BY <1>1, <2>1, StepTypes, HostTypes, FramesStepShape
  <2>3. ~resetPending'
    <3>1. Step => UNCHANGED resetPending
      BY <1>1 DEF Step, AcceptReset, AcceptNonMaskableInterrupt, AcceptMaskableInterrupt,
         RefuseMaskableInterrupt, HaltedIdle, ExecuteInstruction, lines
    <3> QED
      BY <1>1, <2>1, <3>1, DevicesKeepCpu
  <2>4. InNmi => event'.kind # "int"
    <3>1. AcceptMaskableInterrupt => iff1
      BY DEF AcceptMaskableInterrupt, IntAcceptable
    <3> QED
      BY <1>1, <2>1, <3>1, EventNamesAction DEF EnableOnTop
  <2>5. LayersNmi(frames')
    BY <1>1, <2>1, <2>4, LayersKept
  <2>6. EnableOnTop'
    <3>1. CASE HostAction
      <4>1. UNCHANGED <<iff1, iff2, frames>>
        BY <1>1, <2>1, <3>1, DevicesKeepCpu, FramesStepShape DEF ctl
      <4> QED
        BY <1>1, <4>1 DEF EnableOnTop, InNmi, Top, Overlapped
    <3>2. CASE AcceptReset
      BY <1>1, <3>2 DEF AcceptReset
    <3>3. CASE AcceptNonMaskableInterrupt
      BY <1>1, <2>1, <3>3, NmiTakesEnable DEF Step
    <3>4. CASE AcceptMaskableInterrupt
      <4>1. event'.kind = "int" /\ Accepting
        BY <2>1, <3>4, EventNamesAction DEF Accepting
      <4>2. Top'.kind = "int"
        BY <1>1, <2>1, <4>1, TopAfter DEF NewFrame
      <4> QED
        BY <4>2 DEF EnableOnTop, InNmi
    <3>5. CASE RefuseMaskableInterrupt \/ HaltedIdle
      <4>1. UNCHANGED <<iff1, iff2>> /\ event'.kind \in {"refused", "halted"}
        BY <3>5 DEF RefuseMaskableInterrupt, HaltedIdle, ctl, Quiet
      <4>2. ~Accepting /\ ~Returning
        BY <4>1 DEF Accepting, Returning
      <4>3. UNCHANGED frames
        BY <1>1, <2>1, <4>2, FramesStepShape
      <4> QED
        BY <1>1, <4>1, <4>3 DEF EnableOnTop, InNmi, Top, Overlapped
    <3>6. CASE ExecuteInstruction /\ ~Returning
      <4>1. ~Accepting
        BY <2>1, <3>6, EventNamesAction DEF Accepting
      <4>2. UNCHANGED frames
        BY <1>1, <2>1, <3>6, <4>1, FramesStepShape
      <4>3. InNmi => UNCHANGED <<iff1, iff2>>
        BY <3>6, NmiHandlerKeepsEnable
      <4> QED
        BY <1>1, <4>2, <4>3 DEF EnableOnTop, InNmi, Top, Overlapped
    <3>7. CASE ExecuteInstruction /\ Returning
      <4> SUFFICES ASSUME InNmi' PROVE EnableOnTop'
        BY DEF EnableOnTop
      <4>1. Len(frames) > 1 /\ Top' = frames[Len(frames) - 1]
        BY <1>1, <2>1, <3>7, TopAfter DEF InNmi
      <4>2. frames[Len(frames) - 1].kind = "nmi"
        BY <4>1 DEF InNmi
      <4>3. frames[Len(frames) - 1].nested /\ Top.kind = "nmi"
        <5>1. PICK n \in Nat : n = Len(frames)
          BY <1>1, LenProperties
        <5>2. n - 1 \in 1 .. n - 1 /\ (n - 1) + 1 = n
          BY <4>1, <5>1
        <5> QED
          BY <1>1, <4>2, <5>1, <5>2 DEF LayersNmi, Top
      <4>4. InNmi /\ Overlapped
        BY <3>7, <4>1, <4>2, <4>3 DEF InNmi, Overlapped, Returning
      <4>5. ~iff2
        BY <1>1, <4>4 DEF EnableOnTop
      <4>6. PICK ins \in Program[pc] : Dispatch(ins, 0)
        BY <3>7 DEF ExecuteInstruction
      <4>7. ins.op = "RETN"
        BY <1>1, <3>7, <4>4, <4>6, ReturningExecutes
      <4>8. iff1' = iff2 /\ iff2' = iff2
        BY <4>6, <4>7, InstructionEnable, Zenon
      <4>9. Top'.nested
        BY <4>1, <4>3
      <4> QED
        BY <4>5, <4>8, <4>9 DEF EnableOnTop
    <3> QED
      BY <2>1, <3>1, <3>2, <3>3, <3>4, <3>5, <3>6, <3>7 DEF Step
  <2> QED
    BY <2>2, <2>3, <2>5, <2>6, Zenon DEF EnableInv, LayersNmi, EnableOnTop
<1> QED
  BY <1>2, <1>3

LEMMA EnableInvAtFirst == GuestInit => EnableInv
<1> SUFFICES ASSUME GuestInit PROVE EnableInv
  OBVIOUS
<1>1. guest \in Addr /\ InitAt(guest)
  BY BudgetAssumption DEF GuestInit
<1>2. TypeOK /\ ~resetPending
  BY <1>1, ConstantsInRange, RamAssumption DEF InitAt, TypeOK
<1>3. frames = <<>> /\ frames \in Seq(Frame) /\ Len(frames) = 0
  BY EmptySeq DEF GuestInit
<1>4. \A k \in 1 .. Len(frames) - 1 : FALSE
  BY <1>3
<1> QED
  BY <1>2, <1>3, <1>4 DEF EnableInv, InNmi

LEMMA ReturnGivesBack ==
  ASSUME ReturnsAlone, EnableInv, NmiHandlersPlain, [GuestNext]_gvars,
         Returning, Len(frames') < Len(frames), Top.kind = "nmi", ~Top.nested
  PROVE  iff1' = (Top.enabled /\ ~(Erratum /\ Top.window))
<1>1. TypeOK /\ frames \in Seq(Frame) /\ InNmi
  BY DEF EnableInv, Returning, InNmi
<1>2. GuestNext
  <2>1. Len(frames) \in Nat
    BY <1>1, LenProperties
  <2>2. ~UNCHANGED gvars
    BY <2>1 DEF gvars
  <2> QED
    BY <2>2
<1>3. ExecuteInstruction
  BY <1>2, EventNamesAction DEF Returning, GuestNext, GuestStep, GuestDevice
<1>4. PICK ins \in Program[pc] : Dispatch(ins, 0)
  BY <1>3 DEF ExecuteInstruction
<1>5. ins.op = "RETN"
  BY <1>1, <1>4, ReturningExecutes
<1>6. iff1' = iff2
  BY <1>4, <1>5, InstructionEnable, Zenon
<1>7. iff2 = (Top.enabled /\ ~(Erratum /\ Top.window))
  BY <1>1, Zenon DEF EnableInv
<1> QED
  BY <1>6, <1>7, Zenon

(* RETN gives back the enable its NMI took: for every guest whose NMI      *)
(* handlers end in their only RETN and leave the enable alone, whatever    *)
(* INT handlers do and whenever requests come, IFF1 after the return is    *)
(* IFF1 before the acceptance, less the erratum, unless a further NMI came *)
(* in between (_core.py, _accept_non_maskable_interrupt; _control.py,      *)
(* _ret_iff).                                                              *)
THEOREM EnableGivenBack ==
  ASSUME DevicesOnly, ReturnsAlone
  PROVE  GuestSpec /\ []NmiHandlersPlain => NmiGivesEnableBack
<1>1. EnableInv /\ NmiHandlersPlain /\ [GuestNext]_gvars => EnableInv'
  BY EnableInvKept
<1>2. EnableInv /\ NmiHandlersPlain /\ [GuestNext]_gvars
        => [Returning /\ Len(frames') < Len(frames) /\ Top.kind = "nmi" /\ ~Top.nested
              => iff1' = (Top.enabled /\ ~(Erratum /\ Top.window))]_gvars
  BY ReturnGivesBack
<1> QED
  BY <1>1, <1>2, EnableInvAtFirst, PTL DEF GuestSpec, NmiGivesEnableBack

-----------------------------------------------------------------------------
(* Handlers do not pile up *)

(* An INT handler returns directly behind its EI *)
IntHandlersPlain ==
  InInt /\ eiDelay = 1 => \A ins \in Program[pc] : ins.op \in Returns /\ Closing

(* INT is on in a handler, or will be when its NMIs have returned, and not *)
(* in the window of the EI before its return                               *)
Open == IntFrames # {} /\ iff2 /\ (InNmi \/ eiDelay = 0)

Excused == IF Erratum THEN 0 ELSE windowNmis

(* Strengthening: an INT on top of an INT uses up an NMI of the window, of *)
(* which one may be left                                                   *)
PileInv ==
  /\ EnableInv
  /\ windowNmis \in Nat
  /\ halted => eiDelay = 0
  /\ ~InNmi => iff1 = iff2
  /\ Cardinality(IntFrames) <= Excused + (IF Open THEN 0 ELSE 1)

(* What a step does to the INT frames *)
LEMMA IntFramesStep ==
  ASSUME frames \in Seq(Frame), TypeOK, TrackFrames
  PROVE  /\ IsFiniteSet(IntFrames) /\ Cardinality(IntFrames) \in Nat
         /\ Cardinality(IntFrames)' \in Nat
         /\ event'.kind = "nmi" => IntFrames' = IntFrames
         /\ event'.kind = "int" => Cardinality(IntFrames)' = Cardinality(IntFrames) + 1
         /\ Returning /\ InInt => Cardinality(IntFrames)' = Cardinality(IntFrames) - 1
         /\ Returning /\ InNmi => IntFrames' = IntFrames
         /\ ~Accepting /\ ~Returning => IntFrames' = IntFrames
<1>1. PICK n \in Nat, p \in Nat : n = Len(frames) /\ DOMAIN frames = 1 .. n
                                  /\ p = Len(frames') /\ DOMAIN frames' = 1 .. p
                                  /\ (n # 0 => frames # <<>>)
  <2>1. Len(<<>>) = 0
    BY EmptySeq
  <2>2. frames' \in Seq(Frame)
    BY FramesStepShape
  <2>3. \A s \in Seq(Frame) : Len(s) \in Nat /\ DOMAIN s = 1 .. Len(s)
    BY LenProperties
  <2> QED
    BY <2>1, <2>2, <2>3, Zenon
<1>2. /\ IntFrames = {k \in 1 .. n : frames[k].kind = "int"}
      /\ IntFrames' = {k \in 1 .. p : frames'[k].kind = "int"}
  BY <1>1 DEF IntFrames
<1>3. IsFiniteSet(IntFrames) /\ Cardinality(IntFrames) \in Nat
      /\ IsFiniteSet(IntFrames') /\ Cardinality(IntFrames') \in Nat
  <2>1. IsFiniteSet(1 .. n) /\ IsFiniteSet(1 .. p)
    BY FS_Interval
  <2>2. IntFrames \in SUBSET (1 .. n) /\ IntFrames' \in SUBSET (1 .. p)
    BY <1>2
  <2>3. IsFiniteSet(IntFrames) /\ IsFiniteSet(IntFrames')
    BY <2>1, <2>2, FS_Subset
  <2> QED
    BY <2>3, FS_CardinalityType
<1>4. CASE Accepting
  <2>1. p = n + 1 /\ frames'[n + 1] = NewFrame /\ \A k \in 1 .. n : frames'[k] = Marked[k]
    BY <1>1, <1>4, FramesStepShape, Zenon
  <2>2. \A k \in 1 .. n : frames'[k].kind = frames[k].kind
    BY <1>1, <2>1, MarkedKeeps, Zenon
  <2>3. frames'[n + 1].kind = event'.kind
    BY <2>1 DEF NewFrame
  <2>4. CASE event'.kind = "nmi"
    <3>1. IntFrames' = IntFrames
      <4>1. \A k \in 1 .. p : k \in 1 .. n \/ k = n + 1
        BY <2>1
      <4>2. \A k \in 1 .. n : k \in 1 .. p
        BY <2>1
      <4>3. frames'[n + 1].kind # "int"
        BY <2>3, <2>4
      <4> QED
        BY <1>2, <2>2, <4>1, <4>2, <4>3, Zenon
    <3> QED
      BY <1>3, <1>4, <2>4, <3>1 DEF Returning
  <2>5. CASE event'.kind = "int"
    <3>1. IntFrames' = IntFrames \cup {n + 1}
      <4>1. \A k \in 1 .. p : k \in 1 .. n \/ k = n + 1
        BY <2>1
      <4>2. n + 1 \in 1 .. p /\ \A k \in 1 .. n : k \in 1 .. p
        BY <2>1
      <4>3. frames'[n + 1].kind = "int"
        BY <2>3, <2>5
      <4> QED
        BY <1>2, <2>2, <4>1, <4>2, <4>3, Zenon
    <3>2. n + 1 \notin IntFrames
      BY <1>2
    <3>3. Cardinality(IntFrames \cup {n + 1}) = Cardinality(IntFrames) + 1
      BY <1>3, <3>2, FS_AddElement
    <3> QED
      BY <1>3, <1>4, <2>5, <3>1, <3>3 DEF Returning
  <2> QED
    BY <1>4, <2>4, <2>5 DEF Accepting
<1>5. CASE Returning
  <2>1. p = n - 1 /\ n # 0 /\ \A k \in 1 .. n - 1 : frames'[k] = frames[k]
    <3>1. Len(frames) \in Nat \ {0} /\ Len(frames') = Len(frames) - 1
          /\ \A k \in 1 .. Len(frames) - 1 : frames'[k] = frames[k]
      BY <1>5, FramesStepShape
    <3> QED
      BY <1>1, <3>1, Zenon
  <2>2. Top = frames[n]
    BY <1>1 DEF Top
  <2>3. ~Accepting
    BY <1>5 DEF Accepting, Returning
  <2>4. \A k \in 1 .. n : k \in 1 .. p \/ k = n
    BY <2>1
  <2>5. n \in 1 .. n /\ n \notin 1 .. p /\ \A k \in 1 .. p : k \in 1 .. n /\ k \in 1 .. n - 1
    BY <2>1
  <2>6. CASE frames[n].kind = "int"
    <3>1. IntFrames' = IntFrames \ {n}
      BY <1>2, <2>1, <2>4, <2>5, <2>6, Zenon
    <3>2. n \in IntFrames
      BY <1>2, <2>5, <2>6, Zenon
    <3>3. Cardinality(IntFrames \ {n}) = Cardinality(IntFrames) - 1
      BY <1>3, <3>2, FS_RemoveElement
    <3> QED
      BY <1>3, <1>5, <2>2, <2>3, <2>6, <3>1, <3>3 DEF Accepting, InNmi
  <2>7. CASE frames[n].kind # "int"
    <3>1. IntFrames' = IntFrames
      BY <1>2, <2>1, <2>4, <2>5, <2>7, Zenon
    <3> QED
      BY <1>3, <1>5, <2>2, <2>3, <2>7, <3>1 DEF Accepting, InInt
  <2> QED
    BY <2>6, <2>7
<1>6. CASE ~Accepting /\ ~Returning
  <2>1. frames' = frames
    BY <1>6, FramesStepShape
  <2>2. IntFrames' = IntFrames
    BY <2>1 DEF IntFrames
  <2> QED
    BY <1>3, <1>6, <2>2 DEF Accepting
<1> QED
  BY <1>4, <1>5, <1>6

LEMMA ExcusedGrows ==
  ASSUME windowNmis \in Nat, CountWindowNmis
  PROVE  /\ windowNmis' \in Nat /\ Excused \in Nat /\ Excused' \in Nat
         /\ Excused' >= Excused
         /\ event'.kind = "nmi" /\ eiDelay = 1 /\ IntFrames # {} /\ ~Erratum
              => Excused' = Excused + 1
<1>1. CASE Erratum
  BY <1>1 DEF CountWindowNmis, Excused
<1>2. CASE ~Erratum
  BY <1>2 DEF CountWindowNmis, Excused
<1> QED
  BY <1>1, <1>2

(* The bound as two: one while INT is shut, the sharper one while it is on *)
Piled(bound) == Cardinality(IntFrames) <= bound + 1 /\ (Open => Cardinality(IntFrames) <= bound)

LEMMA PiledIsBound ==
  ASSUME Cardinality(IntFrames) \in Nat, Excused \in Nat
  PROVE  Piled(Excused) <=> Cardinality(IntFrames) <= Excused + (IF Open THEN 0 ELSE 1)
<1>1. CASE Open
  BY <1>1 DEF Piled
<1>2. CASE ~Open
  BY <1>2 DEF Piled
<1> QED
  BY <1>1, <1>2

(* A step that leaves the INT frames as they are and opens nothing *)
LEMMA PiledStays ==
  ASSUME Cardinality(IntFrames) \in Nat, Excused \in Nat, Excused' \in Nat, Excused' >= Excused,
         IntFrames' = IntFrames, Open' => Open, Piled(Excused)
  PROVE  Piled(Excused)'
BY DEF Piled

LEMMA PileInvKept ==
  ASSUME DevicesOnly, ReturnsAlone, PileInv, NmiHandlersPlain, IntHandlersPlain, [GuestNext]_gvars
  PROVE  PileInv'
<1>1. /\ TypeOK /\ frames \in Seq(Frame) /\ ~resetPending /\ EnableInv
      /\ windowNmis \in Nat
  BY DEF PileInv, EnableInv
<1>2. EnableInv'
  BY <1>1, EnableInvKept
<1>3. CASE UNCHANGED gvars
  BY <1>1, <1>2, <1>3 DEF PileInv, gvars, vars, regs, ctl, lines, InNmi, Top, IntFrames,
     Open, Excused
<1>4. CASE GuestNext
  <2>1. (Step \/ HostAction) /\ TrackFrames /\ CountWindowNmis
    BY <1>4 DEF GuestNext, GuestStep, GuestDevice, Account
  <2>2. /\ windowNmis' \in Nat /\ Excused \in Nat /\ Excused' \in Nat /\ Excused' >= Excused
        /\ event'.kind = "nmi" /\ eiDelay = 1 /\ IntFrames # {} /\ ~Erratum
              => Excused' = Excused + 1
    BY <1>1, <2>1, ExcusedGrows
  <2>3. /\ Cardinality(IntFrames) \in Nat /\ Cardinality(IntFrames)' \in Nat
        /\ IsFiniteSet(IntFrames)
    BY <1>1, <2>1, IntFramesStep
  <2>4. Piled(Excused)
    BY <2>2, <2>3, PiledIsBound DEF PileInv
  <2>5. IntFrames # {} /\ ~InNmi => InInt
    <3>1. SUFFICES ASSUME IntFrames # {}, ~InNmi PROVE InInt
      OBVIOUS
    <3>2. frames # <<>>
      BY <3>1, EmptySeq DEF IntFrames
    <3>3. Len(frames) \in DOMAIN frames
      BY <1>1, <3>2, EmptySeq, LenProperties
    <3>4. Top.kind \in {"int", "nmi"}
      BY <1>1, <3>3, FrameFields DEF Top
    <3> QED
      BY <3>1, <3>2, <3>4 DEF InNmi, InInt
  <2>6. /\ (halted => eiDelay = 0)' /\ (~InNmi => iff1 = iff2)' /\ Piled(Excused)'
    <3>1. CASE HostAction
      <4>1. UNCHANGED <<iff1, iff2, eiDelay, halted>> /\ ~Accepting /\ ~Returning
        BY <3>1, DevicesKeepCpu DEF ctl
      <4>2. UNCHANGED frames
        BY <1>1, <2>1, <4>1, FramesStepShape
      <4>3. IntFrames' = IntFrames /\ InNmi' = InNmi /\ (Open' => Open)
        BY <4>1, <4>2 DEF IntFrames, InNmi, Top, Open
      <4>4. Piled(Excused)'
        BY <2>2, <2>3, <2>4, <4>3, PiledStays
      <4> QED
        BY <4>1, <4>3, <4>4, Zenon DEF PileInv
    <3>2. CASE AcceptReset
      BY <1>1, <3>2 DEF AcceptReset
    <3>3. CASE AcceptNonMaskableInterrupt
      <4>1. event'.kind = "nmi" /\ Accepting
        BY <2>1, <3>3, EventNamesAction DEF Accepting
      <4>2. InNmi'
        BY <1>1, <2>1, <4>1, TopAfter DEF InNmi, NewFrame
      <4>3. IntFrames' = IntFrames
        BY <1>1, <2>1, <4>1, IntFramesStep
      <4>4. halted' = FALSE /\ (iff2' => iff1 /\ ~(Erratum /\ eiDelay > 0))
        BY <3>3, Zenon DEF AcceptNonMaskableInterrupt
      <4>5. Piled(Excused)'
        <5>1. CASE ~Open'
          BY <2>2, <2>3, <2>4, <4>3, <5>1 DEF Piled
        <5>2. CASE Open'
          <6>1. iff1 /\ ~(Erratum /\ eiDelay > 0) /\ IntFrames # {}
            BY <4>3, <4>4, <5>2 DEF Open
          <6>2. ~InNmi /\ iff2
            BY <6>1, Zenon DEF PileInv, EnableInv
          <6>3. CASE eiDelay = 0
            BY <2>2, <2>3, <2>4, <4>3, <6>1, <6>2, <6>3, PiledStays DEF Open
          <6>4. CASE eiDelay = 1
            <7>1. Excused' = Excused + 1
              BY <2>2, <4>1, <6>1, <6>4
            <7> QED
              BY <2>2, <2>3, <2>4, <4>3, <7>1 DEF Piled
          <6> QED
            BY <1>1, <6>3, <6>4 DEF TypeOK
        <5> QED
          BY <5>1, <5>2
      <4> QED
        BY <4>2, <4>4, <4>5
    <3>4. CASE AcceptMaskableInterrupt
      <4>1. event'.kind = "int" /\ Accepting
        BY <2>1, <3>4, EventNamesAction DEF Accepting
      <4>2. Cardinality(IntFrames)' = Cardinality(IntFrames) + 1
        BY <1>1, <2>1, <4>1, IntFramesStep
      <4>3. /\ iff1 /\ eiDelay = 0
            /\ halted' = FALSE /\ iff1' = FALSE /\ iff2' = FALSE
        BY <3>4, Zenon DEF AcceptMaskableInterrupt, IntAcceptable
      <4>4. ~InNmi /\ iff2
        BY <4>3, Zenon DEF PileInv, EnableInv
      <4>5. Cardinality(IntFrames) <= Excused
        <5>1. CASE IntFrames = {}
          BY <2>2, <5>1, FS_EmptySet
        <5>2. CASE IntFrames # {}
          BY <2>4, <4>3, <4>4, <5>2 DEF Open, Piled
        <5> QED
          BY <5>1, <5>2
      <4>6. ~Open'
        BY <4>3 DEF Open
      <4>7. Piled(Excused)'
        BY <2>2, <2>3, <4>2, <4>5, <4>6 DEF Piled
      <4> QED
        BY <4>3, <4>7
    <3>5. CASE RefuseMaskableInterrupt \/ HaltedIdle
      <4>1. UNCHANGED <<iff1, iff2, halted>> /\ event'.kind \in {"refused", "halted"}
            /\ eiDelay' = eiDelay
        <5>1. CASE RefuseMaskableInterrupt
          BY <5>1 DEF RefuseMaskableInterrupt, ctl, Quiet
        <5>2. CASE HaltedIdle
          BY <5>2 DEF HaltedIdle, Quiet, PileInv
        <5> QED
          BY <3>5, <5>1, <5>2
      <4>2. ~Accepting /\ ~Returning
        BY <4>1 DEF Accepting, Returning
      <4>3. UNCHANGED frames
        BY <1>1, <2>1, <4>2, FramesStepShape
      <4>4. IntFrames' = IntFrames /\ InNmi' = InNmi /\ (Open' => Open)
        BY <4>1, <4>3 DEF IntFrames, InNmi, Top, Open
      <4>5. Piled(Excused)'
        BY <2>2, <2>3, <2>4, <4>4, PiledStays
      <4> QED
        BY <4>1, <4>4, <4>5, Zenon DEF PileInv
    <3>6. CASE ExecuteInstruction
      <4>1. PICK ins \in Program[pc] : Dispatch(ins, 0)
        BY <3>6 DEF ExecuteInstruction
      <4>2. ~halted /\ ~Accepting
        BY <2>1, <3>6, EventNamesAction DEF ExecuteInstruction, Accepting
      <4>3. (halted => eiDelay = 0)'
        BY <4>1, <4>2, InstructionEnable, Zenon
      <4>4. ins.op \in {"EI", "DI"} => iff1' = iff2'
        BY <4>1, InstructionEnable, Zenon
      <4>5. CASE Returning
        <5>1. ins.op \in {"RET", "RETN"} /\ (InNmi => ins.op = "RETN")
          BY <1>1, <4>1, <4>5, ReturningExecutes
        <5>2. iff2' = iff2 /\ eiDelay' = 0 /\ (ins.op = "RETN" => iff1' = iff2)
              /\ (ins.op = "RET" => iff1' = iff1)
          BY <4>1, <5>1, InstructionEnable, Zenon
        <5>3. (~InNmi => iff1 = iff2)'
          BY <5>1, <5>2, Zenon DEF PileInv
        <5>4. CASE InNmi
          <6>1. IntFrames' = IntFrames
            BY <1>1, <2>1, <4>5, <5>4, IntFramesStep
          <6>2. Open' => Open
            BY <5>2, <5>4, <6>1 DEF Open
          <6> QED
            BY <2>2, <2>3, <2>4, <4>3, <5>3, <6>1, <6>2, PiledStays
        <5>5. CASE ~InNmi
          <6>1. InInt
            <7>1. frames # <<>>
              BY <4>5 DEF Returning
            <7>2. Len(frames) \in DOMAIN frames
              BY <1>1, <7>1, EmptySeq, LenProperties
            <7>3. Top.kind \in {"int", "nmi"}
              BY <1>1, <7>2, FrameFields DEF Top
            <7> QED
              BY <5>5, <7>1, <7>3 DEF InNmi, InInt
          <6>2. Cardinality(IntFrames)' = Cardinality(IntFrames) - 1
            BY <1>1, <2>1, <4>5, <6>1, IntFramesStep
          <6>3. Piled(Excused)'
            BY <2>2, <2>3, <2>4, <6>2 DEF Piled
          <6> QED
            BY <4>3, <5>3, <6>3
        <5> QED
          BY <5>4, <5>5
      <4>6. CASE ~Returning
        <5>1. frames' = frames /\ IntFrames' = IntFrames
          BY <1>1, <2>1, <4>2, <4>6, FramesStepShape, IntFramesStep
        <5>2. InNmi' = InNmi
          BY <5>1 DEF InNmi, Top
        <5>3. CASE InNmi
          <6>1. iff2' = iff2
            BY <3>6, <4>6, <5>3, NmiHandlerKeepsEnable
          <6>2. Open' => Open
            BY <5>1, <5>3, <6>1 DEF Open
          <6>3. Piled(Excused)'
            BY <2>2, <2>3, <2>4, <5>1, <6>2, PiledStays
          <6> QED
            BY <4>3, <5>2, <5>3, <6>3
        <5>4. CASE ~InNmi
          <6>1. (~InNmi => iff1 = iff2)'
            <7>1. iff1 = iff2
              BY <5>4 DEF PileInv
            <7> QED
              BY <4>1, <4>4, <7>1, InstructionEnable, Zenon
          <6>2. Open' => Open
            <7> SUFFICES ASSUME Open' PROVE Open
              OBVIOUS
            <7>1. iff2' /\ eiDelay' = 0 /\ IntFrames # {}
              BY <5>1, <5>2, <5>4 DEF Open
            <7>2. ins.op # "EI" /\ ins.op # "DI"
              <8>1. eiDelay' # 1
                BY <7>1
              <8>2. (ins.op = "EI" => eiDelay' = 1) /\ (ins.op = "DI" => ~iff2')
                BY <4>1, InstructionEnable, Zenon
              <8> QED
                BY <7>1, <8>1, <8>2
            <7>3. iff2
              BY <4>1, <7>1, <7>2, InstructionEnable, Zenon
            <7>4. eiDelay # 1
              <8>1. SUFFICES ASSUME eiDelay = 1 PROVE FALSE
                OBVIOUS
              <8>2. ins.op \in Returns /\ Closing /\ frames # <<>>
                BY <2>5, <4>1, <5>4, <7>1, <8>1 DEF IntHandlersPlain, InInt
              <8>3. event'.kind = "instruction"
                BY <2>1, <3>6, EventNamesAction
              <8> QED
                BY <4>1, <4>6, <8>2, <8>3 DEF Returning, Closing, Returns
            <7> QED
              BY <1>1, <7>1, <7>3, <7>4 DEF Open, TypeOK
          <6>3. Piled(Excused)'
            BY <2>2, <2>3, <2>4, <5>1, <6>2, PiledStays
          <6> QED
            BY <4>3, <6>1, <6>3
        <5> QED
          BY <5>3, <5>4
      <4> QED
        BY <4>5, <4>6
    <3> QED
      BY <2>1, <3>1, <3>2, <3>3, <3>4, <3>5, <3>6 DEF Step
  <2>7. (Cardinality(IntFrames) <= Excused + (IF Open THEN 0 ELSE 1))'
    <3>1. CASE Open'
      BY <2>2, <2>3, <2>6, <3>1 DEF Piled
    <3>2. CASE ~Open'
      BY <2>2, <2>3, <2>6, <3>2 DEF Piled
    <3> QED
      BY <3>1, <3>2
  <2> QED
    BY <1>2, <2>2, <2>6, <2>7, Zenon DEF PileInv
<1> QED
  BY <1>3, <1>4

LEMMA PileInvAtFirst == GuestInit => PileInv
<1> SUFFICES ASSUME GuestInit PROVE PileInv
  OBVIOUS
<1>1. EnableInv
  BY EnableInvAtFirst
<1>2. iff1 = iff2 /\ eiDelay = 0 /\ windowNmis = 0
  BY DEF GuestInit, InitAt
<1>3. IntFrames = {} /\ Cardinality(IntFrames) = 0
  <2>1. frames = <<>> /\ DOMAIN frames = {}
    BY DEF GuestInit
  <2> QED
    BY <2>1, FS_EmptySet DEF IntFrames
<1>4. Excused = 0
  BY <1>2 DEF Excused
<1> QED
  BY <1>1, <1>2, <1>3, <1>4 DEF PileInv, Open

(* A handler that ends in EI; RETI has returned before the next maskable   *)
(* interrupt is accepted, however fast requests come: for every guest      *)
(* whose INT handlers return directly behind their EI and whose NMI        *)
(* handlers leave the enable alone, at most one INT is open, and one more  *)
(* for each NMI accepted between such an EI and its return; with the       *)
(* erratum none more (cpu.py, step; _core.py, both acceptances).           *)
THEOREM OneHandlerAtATime ==
  ASSUME DevicesOnly, ReturnsAlone
  PROVE  GuestSpec /\ []NmiHandlersPlain /\ []IntHandlersPlain => []HandlersDoNotPileUp
<1>1. PileInv /\ NmiHandlersPlain /\ IntHandlersPlain /\ [GuestNext]_gvars => PileInv'
  BY PileInvKept
<1>2. PileInv => HandlersDoNotPileUp
  <2> SUFFICES ASSUME PileInv PROVE HandlersDoNotPileUp
    OBVIOUS
  <2>1. IsFiniteSet(IntFrames) /\ Cardinality(IntFrames) \in Nat
    <3>1. frames \in Seq(Frame)
      BY DEF PileInv, EnableInv
    <3>2. Len(frames) \in Nat /\ DOMAIN frames = 1 .. Len(frames)
      BY <3>1, LenProperties, Zenon
    <3>3. IntFrames \in SUBSET (1 .. Len(frames)) /\ IsFiniteSet(1 .. Len(frames))
      BY <3>2, FS_Interval DEF IntFrames
    <3> QED
      BY <3>3, FS_Subset, FS_CardinalityType
  <2>2. Excused \in Nat
    BY DEF PileInv, Excused
  <2>3. Cardinality(IntFrames) <= Excused + 1
    <3>1. CASE Open
      BY <2>1, <2>2, <3>1 DEF PileInv
    <3>2. CASE ~Open
      BY <2>1, <2>2, <3>2 DEF PileInv
    <3> QED
      BY <3>1, <3>2
  <2> QED
    BY <2>1, <2>2, <2>3 DEF HandlersDoNotPileUp, Excused
<1> QED
  BY <1>1, <1>2, PileInvAtFirst, PTL DEF GuestSpec

=============================================================================
