---------------------------- MODULE Z80Lifecycle ----------------------------
(***************************************************************************)
(* The instruction-boundary lifecycle of the CPU: what one call of         *)
(* Z80CPU.step() does (cpu.py, step), with the three acceptances of        *)
(* _core.py, the instructions of _control.py that touch an interrupt flag, *)
(* PC or the stack, and the host calls that may come between two           *)
(* boundaries: RESET, INT and NMI requests and their cancellation,         *)
(* capture_state and restore_state, and the compatibility entry            *)
(* decode_and_execute.                                                     *)
(*                                                                         *)
(* A byte is 0..Radix-1 and a word is a high and a low byte, as in the     *)
(* code with Radix = 256: addresses are 0..Radix*Radix-1 and wrap.         *)
(*                                                                         *)
(* The program is a parameter.  Program[a] is the set of instructions that *)
(* may be found at address a when it is fetched: with every instruction at *)
(* every address the module is the CPU under any program, self-modifying   *)
(* ones included; with one instruction per address it is the CPU running   *)
(* that program.                                                           *)
(*                                                                         *)
(* General registers, F, Q, WZ and R are left out: step() takes no         *)
(* decision from them.  A conditional instruction is the pair of its       *)
(* taken and its not-taken form.                                           *)
(***************************************************************************)
EXTENDS Integers, FiniteSets

CONSTANTS
  Radix,        \* values of a byte; 256 in the code
  None,         \* Python's None: no request, no snapshot
  Vectors,      \* the bytes devices supply with a maskable request
  RstOpcodes,   \* the bytes whose & 0xC7 is 0xC7
  RstEntry,     \* RST opcode -> its entry, opcode & 0x38
  Im1Entry,     \* 0x0038
  NmiEntry,     \* 0x0066
  Program,      \* address -> the instructions that may be fetched there
  InitRam,      \* the memories the host may start from
  Erratum,      \* cpu.ei_nmi_iff2_erratum
  Host          \* the calls this host makes

Size == Radix * Radix
Byte == 0 .. Radix - 1
Addr == 0 .. Size - 1

HostCalls == {"request_reset", "clear_reset",
              "request_maskable_interrupt", "clear_maskable_interrupt",
              "request_non_maskable_interrupt", "clear_non_maskable_interrupt",
              "capture_state", "restore_state", "decode_and_execute"}

Ops == {"NOP", "EI", "DI", "HALT", "IM", "RETN", "RET", "CALL", "RST", "JP",
        "PUSH", "POP", "LD SP", "LD I", "LD (nn)"}

(* An instruction: len bytes of prefixes, opcode and operands, and one     *)
(* operand, which is a target, a mode, a word or an address.               *)
Instr == [op : Ops, len : Nat \ {0}, arg : Addr]

ASSUME RadixAssumption == Radix \in Nat /\ Radix >= 2
ASSUME NoneAssumption == None \notin Byte
ASSUME VectorsAssumption == Vectors \subseteq Byte
ASSUME EntriesAssumption ==
  /\ RstOpcodes \subseteq Byte
  /\ RstEntry \in [RstOpcodes -> Addr]
  /\ Im1Entry \in Addr
  /\ NmiEntry \in Addr
ASSUME ProgramAssumption ==
  /\ DOMAIN Program = Addr
  /\ \A a \in Addr : \A ins \in Program[a] :
        /\ ins.op \in Ops
        /\ ins.len \in Nat \ {0}
        /\ ins.arg \in Addr
        /\ ins.op = "IM" => ins.arg \in 0..2
ASSUME RamAssumption == \A m \in InitRam : m \in [Addr -> Byte]
ASSUME HostAssumption == Erratum \in BOOLEAN /\ Host \subseteq HostCalls

VARIABLES
  pc, sp,        \* program counter and stack pointer
  ram,           \* the host's memory, as far as data goes
  i,             \* interrupt-vector register
  iff1, iff2,    \* interrupt flip-flops
  im,            \* interrupt mode
  halted,
  eiDelay,       \* _ei_delay
  resetPending,  \* level of the RESET line
  intVector,     \* _pending_maskable_interrupt
  nmiPending,    \* the NMI latch
  saved,         \* the CPUState the host holds, or None
  event,         \* history: what the last call was and what devices raised in it
  afterEI        \* history: the last thing executed, NMIs aside, was an EI

regs  == <<pc, sp, ram, i>>
ctl   == <<iff1, iff2, im, halted, eiDelay>>
lines == <<resetPending, intVector, nmiPending>>
vars  == <<regs, ctl, lines, saved, event, afterEI>>

-----------------------------------------------------------------------------
(* Words and the stack *)

(* Mutant of Wrap: the & 0xFFFF forgotten *)
WrapForgotten(n) == n

Wrap(n)      == n % Size
Hi(w)        == w \div Radix
Lo(w)        == w % Radix
Word(hi, lo) == hi * Radix + lo

WordAt(m, a) == Word(m[Wrap(a + 1)], m[a])

(* Mutant of Pushed: the bytes of the word swapped *)
PushedSwapped(m, s, w) ==
  [m EXCEPT ![Wrap(s - 1)] = Lo(w), ![Wrap(s - 2)] = Hi(w)]

(* _push_word: the high byte goes below SP first, then the low byte *)
Pushed(m, s, w) ==
  [m EXCEPT ![Wrap(s - 1)] = Hi(w), ![Wrap(s - 2)] = Lo(w)]

Push(w) == /\ ram' = Pushed(ram, sp, w)
           /\ sp'  = Wrap(sp - 2)

(* _pop_word *)
PopInto(var) == /\ var = WordAt(ram, sp)
                /\ sp' = Wrap(sp + 2)
                /\ UNCHANGED ram

-----------------------------------------------------------------------------
(* What a boundary is: the priorities of step() *)

Idle == [nmi |-> FALSE, int |-> FALSE]

Quiet(kind) == event' = [kind |-> kind, raised |-> Idle]

(* Mutants of IntAcceptable: the EI delay forgotten; HALT tested first *)
IntDelayForgotten == iff1 /\ intVector # None
IntUnlessHalted == ~halted /\ iff1 /\ eiDelay = 0 /\ intVector # None

IntAcceptable == iff1 /\ eiDelay = 0 /\ intVector # None

AcceptableVector == im = 0 => intVector \in RstOpcodes

(* Neither RESET, nor an NMI, nor an acceptable INT: step() goes on *)
NothingToAccept == ~resetPending /\ ~nmiPending /\ ~IntAcceptable

(* What devices do from inside a bus callback of the push: request again.  *)
(* Requests raised inside an instruction need no action of their own: no   *)
(* handler touches a request, so they are those raised right after it.     *)
RaisedNmi == IF "request_non_maskable_interrupt" \in Host THEN BOOLEAN ELSE {FALSE}
RaisedInt == IF "request_maskable_interrupt" \in Host
               THEN Vectors \cup {None} ELSE {None}

(* Mutant of AcceptReset: it drops the NMI request *)
ResetDropsNmi ==
  /\ resetPending
  /\ pc' = 0 /\ im' = 0 /\ i' = 0
  /\ iff1' = FALSE /\ iff2' = FALSE
  /\ halted' = FALSE
  /\ eiDelay' = 0
  /\ Quiet("reset")
  /\ afterEI' = FALSE
  /\ nmiPending' = FALSE
  /\ UNCHANGED <<sp, ram, resetPending, intVector, saved>>

(* Mutant of AcceptReset: an EI delay outlives it *)
ResetKeepsDelay ==
  /\ resetPending
  /\ pc' = 0 /\ im' = 0 /\ i' = 0
  /\ iff1' = FALSE /\ iff2' = FALSE
  /\ halted' = FALSE
  /\ Quiet("reset")
  /\ afterEI' = FALSE
  /\ UNCHANGED <<sp, ram, lines, saved, eiDelay>>

(* _accept_reset.  SP, memory and every request stay as they are: the line *)
(* is a level the host releases.                                           *)
AcceptReset ==
  /\ resetPending
  /\ pc' = 0 /\ im' = 0 /\ i' = 0
  /\ iff1' = FALSE /\ iff2' = FALSE
  /\ halted' = FALSE
  /\ eiDelay' = 0
  /\ Quiet("reset")
  /\ afterEI' = FALSE
  /\ UNCHANGED <<sp, ram, lines, saved>>

(* Mutant of AcceptNonMaskableInterrupt: the latch cleared after the push *)
LatchClearedLate ==
  /\ ~resetPending
  /\ nmiPending
  /\ halted' = FALSE
  /\ iff2' = IF Erratum /\ eiDelay > 0 THEN FALSE ELSE iff1
  /\ iff1' = FALSE
  /\ Push(pc)
  /\ pc' = NmiEntry
  /\ nmiPending' = FALSE
  /\ \E n \in RaisedNmi, v \in RaisedInt :
        /\ intVector' = IF v = None THEN intVector ELSE v
        /\ event' = [kind |-> "nmi", raised |-> [nmi |-> n, int |-> v # None]]
  /\ UNCHANGED <<i, im, eiDelay, resetPending, saved, afterEI>>

(* _accept_non_maskable_interrupt.  The latch is cleared before the push,  *)
(* so what a device raises during the push stays.  The EI delay is left.   *)
AcceptNonMaskableInterrupt ==
  /\ ~resetPending
  /\ nmiPending
  /\ halted' = FALSE
  /\ iff2' = IF Erratum /\ eiDelay > 0 THEN FALSE ELSE iff1
  /\ iff1' = FALSE
  /\ Push(pc)
  /\ pc' = NmiEntry
  /\ \E n \in RaisedNmi, v \in RaisedInt :
        /\ nmiPending' = n
        /\ intVector' = IF v = None THEN intVector ELSE v
        /\ event' = [kind |-> "nmi", raised |-> [nmi |-> n, int |-> v # None]]
  /\ UNCHANGED <<i, im, eiDelay, resetPending, saved, afterEI>>

(* _accept_maskable_interrupt, the vector resolved by the mode *)
AcceptMaskableInterrupt ==
  /\ ~resetPending /\ ~nmiPending
  /\ IntAcceptable
  /\ AcceptableVector
  /\ halted' = FALSE
  /\ iff1' = FALSE /\ iff2' = FALSE
  /\ Push(pc)
  /\ \/ im = 0 /\ pc' = RstEntry[intVector]
     \/ im = 1 /\ pc' = Im1Entry
     \/ im = 2 /\ pc' = WordAt(ram', Word(i, intVector))
  /\ \E n \in RaisedNmi, v \in RaisedInt :
        /\ nmiPending' = n
        /\ intVector' = v
        /\ event' = [kind |-> "int", raised |-> [nmi |-> n, int |-> v # None]]
  /\ UNCHANGED <<i, im, eiDelay, resetPending, saved, afterEI>>

(* IM 0 and a byte that is no RST opcode: NotImplementedError before       *)
(* anything is changed.  The request stays, and so does the refusal.       *)
RefuseMaskableInterrupt ==
  /\ ~resetPending /\ ~nmiPending
  /\ IntAcceptable
  /\ ~AcceptableVector
  /\ Quiet("refused")
  /\ UNCHANGED <<regs, ctl, lines, saved, afterEI>>

(* A halted CPU idles; the idle cycle ends an EI delay like any boundary *)
HaltedIdle ==
  /\ NothingToAccept
  /\ halted
  /\ eiDelay' = 0
  /\ Quiet("halted")
  /\ afterEI' = FALSE
  /\ UNCHANGED <<regs, iff1, iff2, im, halted, lines, saved>>

-----------------------------------------------------------------------------
(* The instructions.  delay is the EI delay its handler starts from.       *)

Following(ins) == Wrap(pc + ins.len)

(* Everything that neither branches nor touches what is modelled here, and *)
(* the not-taken form of every conditional; a run of stray DD/FD prefixes  *)
(* and the opcode that ends it is one such instruction of a longer length. *)
OpNop(ins, delay) ==
  /\ ins.op = "NOP"
  /\ pc' = Following(ins)
  /\ eiDelay' = delay
  /\ UNCHANGED <<sp, ram, i, iff1, iff2, im, halted>>

(* Mutant of OpInterruptEnable: DI clears one flip-flop only *)
DiClearsIff2Only(ins) ==
  /\ ins.op \in {"EI", "DI"}
  /\ pc' = Following(ins)
  /\ iff1' = (ins.op = "EI" \/ iff1)
  /\ iff2' = (ins.op = "EI")
  /\ eiDelay' = IF ins.op = "EI" THEN 1 ELSE 0
  /\ UNCHANGED <<sp, ram, i, im, halted>>

OpInterruptEnable(ins) ==
  /\ ins.op \in {"EI", "DI"}
  /\ pc' = Following(ins)
  /\ iff1' = (ins.op = "EI")
  /\ iff2' = (ins.op = "EI")
  /\ eiDelay' = IF ins.op = "EI" THEN 1 ELSE 0
  /\ UNCHANGED <<sp, ram, i, im, halted>>

OpHalt(ins, delay) ==
  /\ ins.op = "HALT"
  /\ pc' = Following(ins)
  /\ halted' = TRUE
  /\ eiDelay' = delay
  /\ UNCHANGED <<sp, ram, i, iff1, iff2, im>>

OpIm(ins, delay) ==
  /\ ins.op = "IM"
  /\ pc' = Following(ins)
  /\ im' = ins.arg
  /\ eiDelay' = delay
  /\ UNCHANGED <<sp, ram, i, iff1, iff2, halted>>

(* Mutant of RetIff: a plain return *)
RetWithoutIff(ins, delay) ==
  /\ ins.op = "RETN"
  /\ PopInto(pc')
  /\ eiDelay' = delay
  /\ UNCHANGED <<i, iff1, iff2, im, halted>>

(* RETN and RETI: _ret_iff *)
RetIff(ins, delay) ==
  /\ ins.op = "RETN"
  /\ PopInto(pc')
  /\ iff1' = iff2
  /\ eiDelay' = delay
  /\ UNCHANGED <<i, iff2, im, halted>>

(* RET and a taken RET cc *)
OpRet(ins, delay) ==
  /\ ins.op = "RET"
  /\ PopInto(pc')
  /\ eiDelay' = delay
  /\ UNCHANGED <<i, iff1, iff2, im, halted>>

(* CALL nn, a taken CALL cc,nn, and RST p *)
OpCall(ins, delay) ==
  /\ ins.op \in {"CALL", "RST"}
  /\ Push(Following(ins))
  /\ pc' = ins.arg
  /\ eiDelay' = delay
  /\ UNCHANGED <<i, iff1, iff2, im, halted>>

(* JP, JR and DJNZ when taken, JP (HL); an iteration of a repeating block  *)
(* instruction is a jump to itself.                                        *)
OpJump(ins, delay) ==
  /\ ins.op = "JP"
  /\ pc' = ins.arg
  /\ eiDelay' = delay
  /\ UNCHANGED <<sp, ram, i, iff1, iff2, im, halted>>

OpPush(ins, delay) ==
  /\ ins.op = "PUSH"
  /\ Push(ins.arg)
  /\ pc' = Following(ins)
  /\ eiDelay' = delay
  /\ UNCHANGED <<i, iff1, iff2, im, halted>>

OpPop(ins, delay) ==
  /\ ins.op = "POP"
  /\ sp' = Wrap(sp + 2)
  /\ pc' = Following(ins)
  /\ eiDelay' = delay
  /\ UNCHANGED <<ram, i, iff1, iff2, im, halted>>

(* LD SP,nn; LD SP,HL; LD SP,(nn); INC SP; DEC SP *)
OpLoadSp(ins, delay) ==
  /\ ins.op = "LD SP"
  /\ sp' = ins.arg
  /\ pc' = Following(ins)
  /\ eiDelay' = delay
  /\ UNCHANGED <<ram, i, iff1, iff2, im, halted>>

(* LD I,A *)
OpLoadI(ins, delay) ==
  /\ ins.op = "LD I"
  /\ i' = Lo(ins.arg)
  /\ pc' = Following(ins)
  /\ eiDelay' = delay
  /\ UNCHANGED <<sp, ram, iff1, iff2, im, halted>>

(* A store of a register or of a pair, EX (SP),HL included: the bytes are  *)
(* data, and a store of one byte leaves the next as it was.                *)
OpStore(ins, delay) ==
  /\ ins.op = "LD (nn)"
  /\ \E low \in Byte, high \in Byte :
        ram' = [ram EXCEPT ![ins.arg] = low, ![Wrap(ins.arg + 1)] = high]
  /\ pc' = Following(ins)
  /\ eiDelay' = delay
  /\ UNCHANGED <<sp, i, iff1, iff2, im, halted>>

Dispatch(ins, delay) ==
  \/ OpNop(ins, delay)
  \/ OpInterruptEnable(ins)
  \/ OpHalt(ins, delay)
  \/ OpIm(ins, delay)
  \/ RetIff(ins, delay)
  \/ OpRet(ins, delay)
  \/ OpCall(ins, delay)
  \/ OpJump(ins, delay)
  \/ OpPush(ins, delay)
  \/ OpPop(ins, delay)
  \/ OpLoadSp(ins, delay)
  \/ OpLoadI(ins, delay)
  \/ OpStore(ins, delay)

(* The rest of step(): the EI delay ends before the instruction it covered *)
(* executes, so an EI there arms it again.                                 *)
ExecuteInstruction ==
  /\ NothingToAccept
  /\ ~halted
  /\ \E ins \in Program[pc] :
        /\ Dispatch(ins, 0)
        /\ afterEI' = (ins.op = "EI")
  /\ Quiet("instruction")
  /\ UNCHANGED <<lines, saved>>

(* decode_and_execute: an instruction whatever is pending, halted or not, *)
(* and no business with the EI delay.                                      *)
DecodeAndExecute ==
  /\ "decode_and_execute" \in Host
  /\ \E ins \in Program[pc] :
        /\ Dispatch(ins, eiDelay)
        /\ afterEI' = (ins.op = "EI")
  /\ Quiet("decoded")
  /\ UNCHANGED <<lines, saved>>

(* One call of step() *)
Step ==
  \/ AcceptReset
  \/ AcceptNonMaskableInterrupt
  \/ AcceptMaskableInterrupt
  \/ RefuseMaskableInterrupt
  \/ HaltedIdle
  \/ ExecuteInstruction

-----------------------------------------------------------------------------
(* The host, between two boundaries *)

Call(name) ==
  /\ name \in Host
  /\ Quiet("host")
  /\ UNCHANGED <<regs, ctl, afterEI>>

RequestReset ==
  /\ Call("request_reset")
  /\ resetPending' = TRUE
  /\ UNCHANGED <<intVector, nmiPending, saved>>

ClearReset ==
  /\ Call("clear_reset")
  /\ resetPending' = FALSE
  /\ UNCHANGED <<intVector, nmiPending, saved>>

(* A second request overwrites the vector of one still pending *)
RequestMaskableInterrupt ==
  /\ Call("request_maskable_interrupt")
  /\ \E v \in Vectors : intVector' = v
  /\ UNCHANGED <<resetPending, nmiPending, saved>>

ClearMaskableInterrupt ==
  /\ Call("clear_maskable_interrupt")
  /\ intVector' = None
  /\ UNCHANGED <<resetPending, nmiPending, saved>>

RequestNonMaskableInterrupt ==
  /\ Call("request_non_maskable_interrupt")
  /\ nmiPending' = TRUE
  /\ UNCHANGED <<resetPending, intVector, saved>>

ClearNonMaskableInterrupt ==
  /\ Call("clear_non_maskable_interrupt")
  /\ nmiPending' = FALSE
  /\ UNCHANGED <<resetPending, intVector, saved>>

(* capture_state: the CPU's own state, not the memory.  wasAfterEI is the  *)
(* history variable at that moment and no field of CPUState.               *)
CaptureState ==
  /\ Call("capture_state")
  /\ saved' = [pc |-> pc, sp |-> sp, i |-> i, iff1 |-> iff1, iff2 |-> iff2,
               im |-> im, halted |-> halted, eiDelay |-> eiDelay,
               resetPending |-> resetPending, intVector |-> intVector,
               nmiPending |-> nmiPending, wasAfterEI |-> afterEI]
  /\ UNCHANGED lines

(* Mutant of RestoreState: the EI delay stays as it is *)
RestoreWithoutDelay ==
  /\ "restore_state" \in Host
  /\ saved # None
  /\ pc' = saved.pc /\ sp' = saved.sp /\ i' = saved.i
  /\ iff1' = saved.iff1 /\ iff2' = saved.iff2 /\ im' = saved.im
  /\ halted' = saved.halted
  /\ resetPending' = saved.resetPending
  /\ intVector' = saved.intVector
  /\ nmiPending' = saved.nmiPending
  /\ afterEI' = saved.wasAfterEI
  /\ Quiet("host")
  /\ UNCHANGED <<ram, saved, eiDelay>>

RestoreState ==
  /\ "restore_state" \in Host
  /\ saved # None
  /\ pc' = saved.pc /\ sp' = saved.sp /\ i' = saved.i
  /\ iff1' = saved.iff1 /\ iff2' = saved.iff2 /\ im' = saved.im
  /\ halted' = saved.halted /\ eiDelay' = saved.eiDelay
  /\ resetPending' = saved.resetPending
  /\ intVector' = saved.intVector
  /\ nmiPending' = saved.nmiPending
  /\ afterEI' = saved.wasAfterEI
  /\ Quiet("host")
  /\ UNCHANGED <<ram, saved>>

HostAction ==
  \/ RequestReset
  \/ ClearReset
  \/ RequestMaskableInterrupt
  \/ ClearMaskableInterrupt
  \/ RequestNonMaskableInterrupt
  \/ ClearNonMaskableInterrupt
  \/ CaptureState
  \/ RestoreState
  \/ DecodeAndExecute

(* A newly constructed CPU has zeroed processor state; a host that loads a *)
(* program elsewhere sets PC before the first step.                        *)
InitAt(start) ==
  /\ pc = start /\ sp = 0 /\ i = 0
  /\ ram \in InitRam
  /\ iff1 = FALSE /\ iff2 = FALSE
  /\ im = 0
  /\ halted = FALSE
  /\ eiDelay = 0
  /\ resetPending = FALSE /\ intVector = None /\ nmiPending = FALSE
  /\ saved = None
  /\ event = [kind |-> "init", raised |-> Idle]
  /\ afterEI = FALSE

Init == InitAt(0)

Next == Step \/ HostAction

Spec == Init /\ [][Next]_vars

(* A host drives the CPU by calling step() in a loop: it never stops       *)
(* calling it.  Nothing is assumed of the devices.                         *)
FairSpec == Spec /\ WF_vars(Step)

-----------------------------------------------------------------------------
(* next_boundary of debug.py: what the next step() will do, read off the   *)
(* state by a second copy of the priorities of step()                      *)

(* Mutant of NextBoundary: the EI delay forgotten *)
NextBoundaryNoDelay ==
  IF resetPending THEN "reset"
  ELSE IF nmiPending THEN "nmi"
  ELSE IF intVector # None /\ iff1 THEN "int"
  ELSE IF halted THEN "halted"
  ELSE "instruction"

NextBoundary ==
  IF resetPending THEN "reset"
  ELSE IF nmiPending THEN "nmi"
  ELSE IF intVector # None /\ iff1 /\ eiDelay = 0 THEN "int"
  ELSE IF halted THEN "halted"
  ELSE "instruction"

-----------------------------------------------------------------------------
(* Properties *)

(* Every variable stays in its range: what CPUState.__post_init__ demands  *)
(* of a snapshot holds in every state the CPU reaches (state.py).          *)
CPUState ==
  [pc : Addr, sp : Addr, i : Byte, iff1 : BOOLEAN, iff2 : BOOLEAN,
   im : 0..2, halted : BOOLEAN, eiDelay : 0..1, resetPending : BOOLEAN,
   intVector : Vectors \cup {None}, nmiPending : BOOLEAN,
   wasAfterEI : BOOLEAN]

TypeOK ==
  /\ pc \in Addr /\ sp \in Addr /\ i \in Byte
  /\ ram \in [Addr -> Byte]
  /\ iff1 \in BOOLEAN /\ iff2 \in BOOLEAN
  /\ im \in 0..2
  /\ halted \in BOOLEAN
  /\ eiDelay \in 0..1
  /\ resetPending \in BOOLEAN
  /\ intVector \in Vectors \cup {None}
  /\ nmiPending \in BOOLEAN
  /\ saved = None \/ saved \in CPUState
  /\ afterEI \in BOOLEAN

(* IFF2 is set whenever IFF1 is.  EI, DI, both acceptances, RETN, RESET    *)
(* and restore_state each write one or both flip-flops; whatever their     *)
(* order, the RETN of a handler never switches off interrupts that are on. *)
IffOrdered == iff1 => iff2

(* The EI delay is armed exactly while the last thing executed is an EI,   *)
(* NMIs and host calls aside: EI; EI arms it again, DI and RESET drop it,  *)
(* a halted idle step ends it and a restored snapshot brings it back with  *)
(* the EI it belongs to (cpu.py, step; docs/trace-schema.md, ei_delay).    *)
EiDelayCoversOneInstruction == (eiDelay = 1) <=> afterEI

(* The EI window never ends early: on a host that loads snapshots and uses *)
(* decode_and_execute beside step(), an INT still cannot come between an   *)
(* EI and the instruction after it.  It may end late: decode_and_execute   *)
(* leaves the delay armed (cpu.py, restore_state; _dispatch.py).           *)
EiWindowHolds == afterEI => eiDelay = 1

(* What a step may do to the requests *)
Conserved ==
  /\ nmiPending /\ ~nmiPending' =>
       event'.kind = "nmi" \/ ClearNonMaskableInterrupt \/ RestoreState
  /\ ~nmiPending /\ nmiPending' =>
       event'.kind = "host" \/ event'.raised.nmi
  /\ event'.kind = "nmi" => nmiPending
  /\ event'.kind \in {"int", "refused"} => intVector # None
  /\ intVector # None /\ intVector' = None =>
       event'.kind = "int" \/ ClearMaskableInterrupt \/ RestoreState
  /\ intVector' \notin {None, intVector} =>
       event'.kind = "host" \/ event'.raised.int
  /\ resetPending' # resetPending => event'.kind = "host"
  /\ event'.raised.nmi => nmiPending'
  /\ event'.raised.int => intVector' # None

(* No request is lost and none is invented.  An NMI leaves the latch by    *)
(* being served, by a host's cancel or by a restored snapshot; a maskable  *)
(* request in the same three ways or under a newer vector; RESET changes   *)
(* level by the host only, and what a device raises from inside the very   *)
(* push that serves its last request is pending after it.                  *)
RequestsConserved == [][Conserved]_vars

(* next_boundary names the boundary that step() then performs, so that a   *)
(* StepRecord's kind and a run's stops are about the step actually taken:  *)
(* the two copies of the priorities agree in every reachable state.  A     *)
(* refusal of step() is predicted as the acceptance it refuses.            *)
StepAsPredicted ==
  [][/\ event'.kind \in {"reset", "nmi", "int", "halted", "instruction"} =>
          event'.kind = NextBoundary
     /\ event'.kind = "refused" => NextBoundary = "int"]_vars

(* The CPU keeps the promises of InterruptContract.  INT is open only with *)
(* IFF1 set and the EI delay spent; it is still arming with the delay on.  *)
(* Snapshots and decode_and_execute are outside the contract.              *)
IntMask == IF ~iff1 THEN "off" ELSE IF eiDelay = 1 THEN "arming" ELSE "on"

Contract == INSTANCE InterruptContract WITH
              resetLine <- resetPending,
              nmiLatch  <- nmiPending,
              intLine   <- (intVector # None),
              mask      <- IntMask,
              asleep    <- halted

KeepsContract == Contract!ContractSpec

(* A halted CPU wakes: a request it can serve, made while it sleeps or     *)
(* before, is served by some later step or withdrawn by the host, as long  *)
(* as the host keeps stepping; an INT waits no longer than for its turn.   *)
HaltWakes ==
  /\ (halted /\ nmiPending) ~> (~halted \/ ~nmiPending)
  /\ (halted /\ iff1 /\ intVector # None /\ im # 0) ~> (~halted \/ intVector = None)

=============================================================================
