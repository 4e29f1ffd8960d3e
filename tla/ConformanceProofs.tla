------------------------- MODULE ConformanceProofs -------------------------
(***************************************************************************)
(* No event of a manifest is passed by, in a run for a trace, in one that  *)
(* writes checkpoints, in a segment and in the run a diff makes; and the   *)
(* segments of the checkpoints replay the run that wrote them.  For every  *)
(* initial state, list of events and stop rule.                            *)
(***************************************************************************)
EXTENDS TraceComparison, Z80LifecycleProofs, SequenceTheorems, Remainders

Event == [at : Nat, kind : EventKinds, vector : Vectors]

(* The lists that end with the same events as the manifest's *)
Ordered(list) == \A k \in 1 .. Len(list) - 1 : list[k].at <= list[k + 1].at

(* The loop has applied what was due at this step, and not come to the     *)
(* next one                                                                *)
PastEvents == stage \in {"checks", "print", "step"}

(* NoEventMissed is not inductive: an event later in the list must not be  *)
(* earlier in time, and behind the events of a step the next one must be   *)
(* of a later step.                                                        *)
EventsInv ==
  /\ steps \in Nat
  /\ events \in Seq(Event) /\ Ordered(events)
  /\ events # <<>> => Head(events).at >= steps
  /\ events # <<>> /\ PastEvents => Head(events).at > steps

LEMMA ListsOrdered ==
  ASSUME NEW list \in EventLists
  PROVE  list \in Seq(Event) /\ Ordered(list)
BY ManifestAssumption DEF Event, Ordered

LEMMA HeadIsEvent ==
  ASSUME NEW list \in Seq(Event), list # <<>>
  PROVE  Head(list).at \in Nat
<1>1. Head(list) \in Event
  OBVIOUS
<1> QED
  BY <1>1 DEF Event

LEMMA TailOrdered ==
  ASSUME NEW list \in Seq(Event), list # <<>>, Ordered(list)
  PROVE  /\ Tail(list) \in Seq(Event) /\ Ordered(Tail(list))
         /\ Tail(list) # <<>> => Head(Tail(list)).at >= Head(list).at
<1>1. Tail(list) \in Seq(Event) /\ Len(Tail(list)) = Len(list) - 1
  OBVIOUS
<1>2. \A k \in 1 .. Len(list) - 1 : Tail(list)[k] = list[k + 1]
  OBVIOUS
<1>3. Len(list) \in Nat /\ Len(list) >= 1
  OBVIOUS
<1>4. Ordered(Tail(list))
  <2> SUFFICES ASSUME NEW k \in 1 .. Len(list) - 2
               PROVE  Tail(list)[k].at <= Tail(list)[k + 1].at
    BY <1>1 DEF Ordered
  <2>1. k + 1 \in 1 .. Len(list) - 1 /\ k \in 1 .. Len(list) - 1
    BY <1>3
  <2>2. list[k + 1].at <= list[(k + 1) + 1].at
    BY <2>1 DEF Ordered
  <2> QED
    BY <1>2, <2>1, <2>2
<1>5. ASSUME Tail(list) # <<>>
      PROVE  Head(Tail(list)).at >= Head(list).at
  <2>1. Len(list) - 1 >= 1
    BY <1>1, <1>3, <1>5
  <2>2. Head(Tail(list)) = list[2] /\ Head(list) = list[1]
    BY <1>1, <1>2, <1>3, <1>5, <2>1
  <2>3. list[1].at <= list[2].at
    <3>1. 1 \in 1 .. Len(list) - 1 /\ 1 + 1 = 2
      BY <1>3, <2>1
    <3> QED
      BY <3>1 DEF Ordered
  <2>4. list[1] \in Event /\ list[2] \in Event
    BY <1>3, <2>1
  <2> QED
    <3>1. list[1].at \in Nat /\ list[2].at \in Nat
      BY <2>4 DEF Event
    <3> QED
      BY <2>2, <2>3, <3>1
<1> QED
  BY <1>1, <1>4, <1>5

LEMMA EventsInit == ManifestInit => EventsInv
<1> SUFFICES ASSUME ManifestInit
             PROVE  EventsInv
  OBVIOUS
<1>1. events \in EventLists /\ stage = "top" /\ steps = 0
  BY DEF ManifestInit
<1>2. events \in Seq(Event) /\ Ordered(events)
  BY <1>1, ListsOrdered
<1>3. events # <<>> => Head(events) \in Event
  BY <1>2
<1> QED
  BY <1>1, <1>2, <1>3 DEF EventsInv, PastEvents, Event

LEMMA RunStepKeepsEvents ==
  ASSUME EventsInv, RunStep
  PROVE  EventsInv'
<1>0. /\ steps \in Nat /\ events \in Seq(Event) /\ Ordered(events)
      /\ events # <<>> => Head(events).at >= steps /\ Head(events).at \in Nat
      /\ events # <<>> /\ PastEvents => Head(events).at > steps
  BY HeadIsEvent DEF EventsInv
<1>1. CASE ApplyEvent
  <2>1. /\ events # <<>> /\ Head(events).at = steps
        /\ events' = Tail(events) /\ steps' = steps /\ stage' = "top"
    BY <1>1 DEF ApplyEvent, EventDue, InLoop
  <2>2. /\ events' \in Seq(Event) /\ Ordered(events')
        /\ events' # <<>> => Head(events').at >= steps
    BY <1>0, <2>1, TailOrdered
  <2> QED
    BY <1>0, <2>1, <2>2 DEF EventsInv, PastEvents, Ordered
<1>2. CASE CpmExit \/ BudgetSpent
  <2>1. events' = events /\ steps' = steps /\ stage' = "ended"
    BY <1>2 DEF CpmExit, BudgetSpent, End
  <2> QED
    BY <1>0, <2>1 DEF EventsInv, PastEvents, Ordered
<1>3. CASE BdosCall \/ NoTrap
  <2>1. events' = events /\ steps' = steps /\ ~EventDue
    BY <1>3 DEF BdosCall, NoTrap
  <2>2. events # <<>> => Head(events).at > steps
    BY <1>0, <2>1 DEF EventDue
  <2> QED
    BY <1>0, <2>1, <2>2 DEF EventsInv, PastEvents, Ordered
<1>4. CASE PrintByte \/ StopChecks
  <2>1. events' = events /\ steps' = steps /\ PastEvents
    BY <1>4 DEF PrintByte, StopChecks, PastEvents
  <2> QED
    BY <1>0, <2>1 DEF EventsInv, PastEvents, Ordered
<1>5. CASE Boundary
  <2>1. events' = events /\ steps' = steps + 1 /\ PastEvents /\ stage' = "top"
    BY <1>5 DEF Boundary, PastEvents
  <2> QED
    BY <1>0, <2>1 DEF EventsInv, PastEvents, Ordered
<1>6. CASE BoundaryRaises
  <2>1. events' = events /\ steps' = steps /\ stage' = "ended"
    BY <1>6 DEF BoundaryRaises, End
  <2> QED
    BY <1>0, <2>1 DEF EventsInv, PastEvents, Ordered
<1> QED
  BY <1>1, <1>2, <1>3, <1>4, <1>5, <1>6 DEF RunStep

LEMMA SegmentKeepsEvents ==
  ASSUME EventsInv, StartSegment
  PROVE  EventsInv'
<1>1. events' = events /\ steps' = 0 /\ stage' = "top"
  BY DEF StartSegment
<1>2. events # <<>> => Head(events).at \in Nat
  BY HeadIsEvent DEF EventsInv
<1> QED
  BY <1>1, <1>2 DEF EventsInv, PastEvents, Ordered

LEMMA StutterKeepsEvents ==
  ASSUME EventsInv, events' = events, steps' = steps, stage' \in {stage, "ended"}
  PROVE  EventsInv'
BY DEF EventsInv, PastEvents, Ordered

(* No event of a manifest is passed by, in any run of it: several due at   *)
(* one step, due while the CPU is halted, or due behind an early stop      *)
(* (_boundaries).                                                          *)
THEOREM EventsAreNotMissed == ManifestSpec => []NoEventMissed
<1>1. EventsInv /\ [ManifestNext]_cvars => EventsInv'
  BY RunStepKeepsEvents, SegmentKeepsEvents, StutterKeepsEvents
     DEF ManifestNext, cvars, runVars
<1>2. EventsInv => NoEventMissed
  BY DEF EventsInv, NoEventMissed
<1> QED
  BY EventsInit, <1>1, <1>2, PTL DEF ManifestSpec

-----------------------------------------------------------------------------
(* The same while a trace is compared *)

DiffInv == EventsInv /\ manifest.events \in EventLists

LEMMA DiffKeepsEvents ==
  ASSUME DiffInv, StartDiff
  PROVE  EventsInv'
<1>1. events' = manifest.events /\ steps' = 0 /\ stage' = "top"
  BY DEF StartDiff
<1>2. events' \in Seq(Event) /\ Ordered(events)'
  BY <1>1, ListsOrdered DEF DiffInv, Ordered
<1>3. events' # <<>> => Head(events').at \in Nat
  BY <1>2, HeadIsEvent
<1> QED
  BY <1>1, <1>2, <1>3 DEF EventsInv, PastEvents

(* The run a diff makes applies every event at its step as well, however   *)
(* far the other core's file lets it come (diff_manifest).                 *)
THEOREM EventsAreNotMissedInDiffs == FairTraces => []NoEventMissed
<1>1. TraceInit => DiffInv
  BY EventsInit DEF TraceInit, DiffInv, ManifestInit
<1>2. DiffInv /\ [TraceNext]_tvars => DiffInv'
  <2> SUFFICES ASSUME DiffInv, [TraceNext]_tvars
               PROVE  DiffInv'
    OBVIOUS
  <2>0. EventsInv /\ manifest.events \in EventLists
    BY DEF DiffInv
  <2>1. manifest' = manifest
    BY DEF TraceNext, Reference, RunSegment, StartDiff, ComparePair, ReferenceEnds,
           tvars, diffVars
  <2>2. EventsInv'
    <3>1. CASE Reference
      BY <2>0, <3>1, RunStepKeepsEvents DEF Reference
    <3>2. CASE RunSegment
      BY <2>0, <3>2, SegmentKeepsEvents DEF RunSegment
    <3>3. CASE StartDiff
      BY <3>3, DiffKeepsEvents
    <3>4. CASE ComparePair
      <4>1. events' = events /\ steps' = steps /\ stage' \in {stage, "ended"}
        BY <3>4 DEF ComparePair
      <4> QED
        BY <2>0, <4>1, StutterKeepsEvents
    <3>5. CASE ReferenceEnds \/ UNCHANGED tvars
      <4>1. events' = events /\ steps' = steps /\ stage' = stage
        BY <3>5 DEF ReferenceEnds, tvars, cvars, runVars
      <4> QED
        BY <2>0, <4>1, StutterKeepsEvents
    <3> QED
      BY <3>1, <3>2, <3>3, <3>4, <3>5 DEF TraceNext
  <2> QED
    BY <2>0, <2>1, <2>2 DEF DiffInv
<1>3. DiffInv => NoEventMissed
  BY DEF DiffInv, EventsInv, NoEventMissed
<1> QED
  BY <1>1, <1>2, <1>3, PTL DEF FairTraces

-----------------------------------------------------------------------------
(* Segments.  The full run and the segments are one loop started at two    *)
(* places, so what has to be shown is that the loop, from a boundary to    *)
(* the next, is a function of the machine: of nothing that a checkpoint    *)
(* leaves out.                                                             *)

MachineStates ==
  [pc : Addr, sp : Addr, i : Byte, iff1 : BOOLEAN, iff2 : BOOLEAN, im : 0 .. 2,
   halted : BOOLEAN, eiDelay : 0 .. 1, resetPending : BOOLEAN,
   intVector : Vectors \cup {None}, nmiPending : BOOLEAN, ram : [Addr -> Byte]]

(* A guest whose instructions are known by their addresses, and which      *)
(* stores no register: the model does not say what is in one               *)
OneProgram ==
  \A a \in Addr : \A ins \in Program[a] :
     ins.op # "LD (nn)" /\ \A other \in Program[a] : other = ins

(* step() once more, on a record: the instruction, then the boundaries *)
Executed(m, ins) ==
  LET returns == ins.op \in {"RET", "RETN"}
      calls   == ins.op \in {"CALL", "RST"}
      enables == ins.op \in {"EI", "DI"}
      next    == Wrap(m.pc + ins.len)
  IN [pc |-> IF returns THEN WordAt(m.ram, m.sp)
             ELSE IF calls \/ ins.op = "JP" THEN ins.arg ELSE next,
      sp |-> IF returns \/ ins.op = "POP" THEN Wrap(m.sp + 2)
             ELSE IF calls \/ ins.op = "PUSH" THEN Wrap(m.sp - 2)
             ELSE IF ins.op = "LD SP" THEN ins.arg ELSE m.sp,
      i |-> IF ins.op = "LD I" THEN Lo(ins.arg) ELSE m.i,
      iff1 |-> IF ins.op = "RETN" THEN m.iff2
               ELSE IF enables THEN ins.op = "EI" ELSE m.iff1,
      iff2 |-> IF enables THEN ins.op = "EI" ELSE m.iff2,
      im |-> IF ins.op = "IM" THEN ins.arg ELSE m.im,
      halted |-> IF ins.op = "HALT" THEN TRUE ELSE m.halted,
      eiDelay |-> IF ins.op = "EI" THEN 1 ELSE 0,
      resetPending |-> m.resetPending, intVector |-> m.intVector,
      nmiPending |-> m.nmiPending,
      ram |-> IF calls THEN Pushed(m.ram, m.sp, next)
              ELSE IF ins.op = "PUSH" THEN Pushed(m.ram, m.sp, ins.arg) ELSE m.ram]

Reset(m) ==
  [pc |-> 0, sp |-> m.sp, i |-> 0, iff1 |-> FALSE, iff2 |-> FALSE, im |-> 0,
   halted |-> FALSE, eiDelay |-> 0, resetPending |-> m.resetPending,
   intVector |-> m.intVector, nmiPending |-> m.nmiPending, ram |-> m.ram]

Interrupted(m, entry, flag, vector) ==
  [pc |-> entry, sp |-> Wrap(m.sp - 2), i |-> m.i, iff1 |-> FALSE, iff2 |-> flag,
   im |-> m.im, halted |-> FALSE, eiDelay |-> m.eiDelay,
   resetPending |-> m.resetPending, intVector |-> vector, nmiPending |-> FALSE,
   ram |-> Pushed(m.ram, m.sp, m.pc)]

Entry(m) == IF m.im = 0 THEN RstEntry[m.intVector]
            ELSE IF m.im = 1 THEN Im1Entry
            ELSE WordAt(Pushed(m.ram, m.sp, m.pc), Word(m.i, m.intVector))

Idled(m) ==
  [pc |-> m.pc, sp |-> m.sp, i |-> m.i, iff1 |-> m.iff1, iff2 |-> m.iff2,
   im |-> m.im, halted |-> m.halted, eiDelay |-> 0,
   resetPending |-> m.resetPending, intVector |-> m.intVector,
   nmiPending |-> m.nmiPending, ram |-> m.ram]

Acceptable(m) == m.iff1 /\ m.eiDelay = 0 /\ m.intVector # None

(* The machine behind one boundary *)
After(m) ==
  IF m.resetPending THEN Reset(m)
  ELSE IF m.nmiPending
    THEN Interrupted(m, NmiEntry, IF Erratum /\ m.eiDelay > 0 THEN FALSE ELSE m.iff1,
                     m.intVector)
  ELSE IF Acceptable(m) THEN Interrupted(m, Entry(m), FALSE, None)
  ELSE IF m.halted THEN Idled(m)
  ELSE Executed(m, CHOOSE ins \in Program[m.pc] : TRUE)

(* The traps *)
Trapped(m) == CpmMinimal /\ m.pc \in {WarmBoot, BdosEntry}
Asking(m)  == Bdos[WordAt(m.ram, m.sp)].function

Returned(m) ==
  [pc |-> WordAt(m.ram, m.sp), sp |-> Wrap(m.sp + 2), i |-> m.i, iff1 |-> m.iff1,
   iff2 |-> m.iff2, im |-> m.im, halted |-> m.halted, eiDelay |-> m.eiDelay,
   resetPending |-> m.resetPending, intVector |-> m.intVector,
   nmiPending |-> m.nmiPending, ram |-> m.ram]

Passed(m) == IF Trapped(m) THEN Returned(m) ELSE m

GoesOn(m) == Trapped(m) => m.pc # WarmBoot /\ Asking(m) \in {2, 9}

(* Past the stop checks, and not refused by step() *)
NoStop(m) ==
  /\ m.pc \notin AtPc
  /\ ~(OnHalt /\ m.halted /\ ~m.resetPending /\ ~m.nmiPending /\ m.intVector = None)

NotRefused(m) ==
  ~(/\ ~m.resetPending /\ ~m.nmiPending /\ Acceptable(m)
    /\ m.im = 0 /\ m.intVector \notin RstOpcodes)

Stepped(m) == NoStop(m) /\ NotRefused(m)

(* From a boundary to the next *)
Follows(m, n) == GoesOn(After(m)) /\ n = Passed(After(m)) /\ Stepped(n)

(* Where in the loop the machine is, having come to its top as m *)
Place(m) ==
  /\ stage = "top" => Machine = m
  /\ stage = "print" => Machine = m /\ Trapped(m) /\ m.pc # WarmBoot /\ Asking(m) = 9
  /\ stage \in {"checks", "step"} => GoesOn(m) /\ Machine = Passed(m)

Before == (segment - 1) * Every

(* The machine as it came to the top of the loop *)
RunTop     == After(trace[steps])
SegmentTop == IF steps = 0 THEN checkpoints[segment] ELSE After(segTrace[steps])

HistoriesOK ==
  /\ trace \in Seq(MachineStates) /\ segTrace \in Seq(MachineStates)
  /\ checkpoints \in Seq(MachineStates)
  /\ steps \in Nat /\ segment \in 0 .. Len(checkpoints)
  /\ events = <<>> /\ stage \in {"top", "print", "checks", "step", "ended"}
  /\ stage = "step" => NoStop(Machine)

(* The record of the full run: one loop, with the checkpoints on its way *)
FullRun ==
  /\ \A k \in 1 .. Len(trace) : Stepped(trace[k])
  /\ \A k \in 1 .. Len(trace) - 1 : Follows(trace[k], trace[k + 1])
  /\ \A k \in 1 .. Len(checkpoints) : (k - 1) * Every + 1 <= Len(trace) =>
        checkpoints[k] = trace[(k - 1) * Every + 1]

Writing ==
  /\ segment = 0 /\ Len(trace) = steps
  /\ stage # "ended" =>
       /\ (Len(checkpoints) - 1) * Every < steps
       /\ steps <= Len(checkpoints) * Every
       /\ steps > 0 => Place(RunTop)

(* A checkpoint is written behind the traps of its boundary.  If BDOS has  *)
(* returned to a trapped address there, the segment begins with a trap     *)
(* that the full run does not take.                                        *)
AtNoTrap == ~Trapped(checkpoints[segment])

Replaying ==
  /\ segment > 0 /\ budget = Every /\ Len(segTrace) = steps /\ steps <= Every
  /\ stage \notin {"top", "ended"} => steps < Every
  /\ AtNoTrap =>
       /\ \A j \in 1 .. steps : Before + j <= Len(trace) => segTrace[j] = trace[Before + j]
       /\ stage # "ended" => Place(SegmentTop)
       /\ stage = "ended" => steps = Every \/ Before + steps >= Len(trace)

ReplayInv ==
  /\ mode \in {"trace", "checkpoint", "segment", "diff"}
  /\ mode \in {"trace", "diff"} => checkpoints = <<>> /\ segment = 0
  /\ mode \in {"checkpoint", "segment"} => TypeOK /\ HistoriesOK /\ FullRun
  /\ mode = "checkpoint" => Writing
  /\ mode = "segment" => Replaying

(* A segment that begins at no trap replays its part of the run *)
ReplaysFromNoTrap == mode = "segment" /\ AtNoTrap => SegmentsReplayRun

LEMMA FieldsOfMachine ==
  /\ Machine.pc = pc /\ Machine.sp = sp /\ Machine.i = i /\ Machine.iff1 = iff1
  /\ Machine.iff2 = iff2 /\ Machine.im = im /\ Machine.halted = halted
  /\ Machine.eiDelay = eiDelay /\ Machine.resetPending = resetPending
  /\ Machine.intVector = intVector /\ Machine.nmiPending = nmiPending
  /\ Machine.ram = ram
BY DEF Machine

LEMMA MachineTyped == TypeOK => Machine \in MachineStates
BY DEF TypeOK, Machine, MachineStates

LEMMA SameMachine ==
  ASSUME UNCHANGED <<regs, ctl, lines>>
  PROVE  Machine' = Machine
BY DEF Machine, regs, ctl, lines

LEMMA ResetIsAfter ==
  ASSUME TypeOK, AcceptReset
  PROVE  Machine' = After(Machine)
<1>1. Machine.resetPending
  BY FieldsOfMachine DEF AcceptReset
<1>2. After(Machine) = Reset(Machine)
  BY <1>1 DEF After
<1>3. Machine' = Reset(Machine)
  BY FieldsOfMachine DEF AcceptReset, Machine, Reset, lines
<1> QED
  BY <1>2, <1>3

LEMMA NmiIsAfter ==
  ASSUME TypeOK, AcceptNonMaskableInterrupt, event'.raised = Idle
  PROVE  Machine' = After(Machine)
<1>1. ~Machine.resetPending /\ Machine.nmiPending
  BY FieldsOfMachine DEF AcceptNonMaskableInterrupt
<1>2. After(Machine) = Interrupted(Machine, NmiEntry,
        IF Erratum /\ Machine.eiDelay > 0 THEN FALSE ELSE Machine.iff1, Machine.intVector)
  BY <1>1 DEF After
<1>3. nmiPending' = FALSE /\ intVector' = intVector
  <2>1. PICK n \in RaisedNmi, v \in RaisedInt :
          /\ nmiPending' = n
          /\ intVector' = IF v = None THEN intVector ELSE v
          /\ event' = [kind |-> "nmi", raised |-> [nmi |-> n, int |-> v # None]]
    BY DEF AcceptNonMaskableInterrupt
  <2>2. [nmi |-> n, int |-> v # None] = [nmi |-> FALSE, int |-> FALSE]
    BY <2>1 DEF Idle
  <2>3. n = FALSE /\ (v # None) = FALSE
    BY <2>2
  <2> QED
    BY <2>1, <2>3
<1>4. Machine' = Interrupted(Machine, NmiEntry,
        IF Erratum /\ eiDelay > 0 THEN FALSE ELSE iff1, intVector)
  BY <1>3, FieldsOfMachine
     DEF AcceptNonMaskableInterrupt, Machine, Interrupted, Push
<1> QED
  BY <1>2, <1>4, FieldsOfMachine

LEMMA IntIsAfter ==
  ASSUME TypeOK, AcceptMaskableInterrupt, event'.raised = Idle
  PROVE  Machine' = After(Machine)
<1>1. ~Machine.resetPending /\ ~Machine.nmiPending /\ Acceptable(Machine)
  BY FieldsOfMachine DEF AcceptMaskableInterrupt, IntAcceptable, Acceptable
<1>2. After(Machine) = Interrupted(Machine, Entry(Machine), FALSE, None)
  BY <1>1 DEF After
<1>3. nmiPending' = FALSE /\ intVector' = None
  <2>1. PICK n \in RaisedNmi, v \in RaisedInt :
          /\ nmiPending' = n
          /\ intVector' = v
          /\ event' = [kind |-> "int", raised |-> [nmi |-> n, int |-> v # None]]
    BY DEF AcceptMaskableInterrupt
  <2>2. [nmi |-> n, int |-> v # None] = [nmi |-> FALSE, int |-> FALSE]
    BY <2>1 DEF Idle
  <2>3. n = FALSE /\ (v # None) = FALSE
    BY <2>2
  <2> QED
    BY <2>1, <2>3
<1>4. ram' = Pushed(ram, sp, pc) /\ sp' = Wrap(sp - 2)
  BY DEF AcceptMaskableInterrupt, Push
<1>5. pc' = Entry(Machine)
  <2>1. \/ im = 0 /\ pc' = RstEntry[intVector]
        \/ im = 1 /\ pc' = Im1Entry
        \/ im = 2 /\ pc' = WordAt(ram', Word(i, intVector))
    BY DEF AcceptMaskableInterrupt
  <2> QED
    BY <1>4, <2>1, FieldsOfMachine DEF Entry
<1>6. Machine' = Interrupted(Machine, Entry(Machine), FALSE, None)
  BY <1>3, <1>4, <1>5, FieldsOfMachine
     DEF AcceptMaskableInterrupt, Machine, Interrupted
<1> QED
  BY <1>2, <1>6

LEMMA IdleIsAfter ==
  ASSUME TypeOK, HaltedIdle
  PROVE  Machine' = After(Machine)
<1>1. /\ ~Machine.resetPending /\ ~Machine.nmiPending /\ ~Acceptable(Machine)
      /\ Machine.halted
  BY FieldsOfMachine DEF HaltedIdle, NothingToAccept, IntAcceptable, Acceptable
<1>2. After(Machine) = Idled(Machine)
  BY <1>1 DEF After
<1>3. Machine' = Idled(Machine)
  BY FieldsOfMachine DEF HaltedIdle, Machine, Idled, regs, lines
<1> QED
  BY <1>2, <1>3

LEMMA DispatchIsExecuted ==
  ASSUME NEW ins, ins.op # "LD (nn)", Dispatch(ins, 0), UNCHANGED lines
  PROVE  Machine' = Executed(Machine, ins)
<1> USE FieldsOfMachine DEF Machine, Executed, Following, lines
<1>1. CASE OpNop(ins, 0)
  BY <1>1 DEF OpNop
<1>2. CASE OpInterruptEnable(ins)
  BY <1>2 DEF OpInterruptEnable
<1>3. CASE OpHalt(ins, 0)
  BY <1>3 DEF OpHalt
<1>4. CASE OpIm(ins, 0)
  BY <1>4 DEF OpIm
<1>5. CASE RetIff(ins, 0)
  BY <1>5 DEF RetIff, PopInto
<1>6. CASE OpRet(ins, 0)
  BY <1>6 DEF OpRet, PopInto
<1>7. CASE OpCall(ins, 0)
  BY <1>7 DEF OpCall, Push
<1>8. CASE OpJump(ins, 0)
  BY <1>8 DEF OpJump
<1>9. CASE OpPush(ins, 0)
  BY <1>9 DEF OpPush, Push
<1>10. CASE OpPop(ins, 0)
  BY <1>10 DEF OpPop
<1>11. CASE OpLoadSp(ins, 0)
  BY <1>11 DEF OpLoadSp
<1>12. CASE OpLoadI(ins, 0)
  BY <1>12 DEF OpLoadI
<1>13. ~OpStore(ins, 0)
  BY DEF OpStore
<1> HIDE FieldsOfMachine DEF Machine, Executed, Following, lines
<1> QED
  BY <1>1, <1>2, <1>3, <1>4, <1>5, <1>6, <1>7, <1>8, <1>9, <1>10, <1>11, <1>12,
     <1>13 DEF Dispatch

LEMMA InstructionIsAfter ==
  ASSUME TypeOK, OneProgram, ExecuteInstruction
  PROVE  Machine' = After(Machine)
<1>1. /\ ~Machine.resetPending /\ ~Machine.nmiPending /\ ~Acceptable(Machine)
      /\ ~Machine.halted
  BY FieldsOfMachine DEF ExecuteInstruction, NothingToAccept, IntAcceptable, Acceptable
<1>2. After(Machine) = Executed(Machine, CHOOSE ins \in Program[Machine.pc] : TRUE)
  BY <1>1 DEF After
<1>3. PICK ins \in Program[pc] : Dispatch(ins, 0)
  BY DEF ExecuteInstruction
<1>4. pc \in Addr
  BY DEF TypeOK
<1>5. ins.op # "LD (nn)" /\ \A other \in Program[pc] : other = ins
  BY <1>3, <1>4 DEF OneProgram
<1>6. (CHOOSE one \in Program[pc] : TRUE) = ins
  BY <1>3, <1>5
<1>7. Machine' = Executed(Machine, ins)
  BY <1>3, <1>5, DispatchIsExecuted DEF ExecuteInstruction
<1> QED
  BY <1>2, <1>6, <1>7, FieldsOfMachine

(* step() is a function of what a checkpoint holds *)
LEMMA StepIsAfter ==
  ASSUME TypeOK, OneProgram, Step, event'.raised = Idle, event'.kind # "refused"
  PROVE  Machine' = After(Machine)
<1>1. ~RefuseMaskableInterrupt
  BY DEF RefuseMaskableInterrupt, Quiet
<1> QED
  BY <1>1, ResetIsAfter, NmiIsAfter, IntIsAfter, IdleIsAfter, InstructionIsAfter DEF Step

LEMMA StepNotRefused ==
  ASSUME Step, event'.kind # "refused"
  PROVE  NotRefused(Machine)
<1>1. ~RefuseMaskableInterrupt
  BY DEF RefuseMaskableInterrupt, Quiet
<1>2. CASE AcceptReset
  BY <1>2, FieldsOfMachine DEF AcceptReset, NotRefused
<1>3. CASE AcceptNonMaskableInterrupt
  BY <1>3, FieldsOfMachine DEF AcceptNonMaskableInterrupt, NotRefused
<1>4. CASE AcceptMaskableInterrupt
  BY <1>4, FieldsOfMachine DEF AcceptMaskableInterrupt, AcceptableVector, NotRefused
<1>5. CASE HaltedIdle \/ ExecuteInstruction
  BY <1>5, FieldsOfMachine
     DEF HaltedIdle, ExecuteInstruction, NothingToAccept, IntAcceptable, NotRefused, Acceptable
<1> QED
  BY <1>1, <1>2, <1>3, <1>4, <1>5 DEF Step

LEMMA RefusalIsKnown ==
  ASSUME RefuseMaskableInterrupt
  PROVE  ~NotRefused(Machine)
BY FieldsOfMachine
   DEF RefuseMaskableInterrupt, IntAcceptable, AcceptableVector, NotRefused, Acceptable

LEMMA TrapsOfMachine ==
  /\ Trapped(Machine) <=> TrapPending
  /\ Asking(Machine) = Function
  /\ NoStop(Machine) <=> pc \notin AtPc /\ ~(OnHalt /\ halted /\ ~resetPending
                                             /\ ~nmiPending /\ intVector = None)
BY FieldsOfMachine DEF Trapped, TrapPending, Asking, Function, NoStop

LEMMA ReturnIsReturned ==
  ASSUME ReturnFromBdos
  PROVE  Machine' = Returned(Machine)
<1>1. /\ pc' = WordAt(ram, sp) /\ sp' = Wrap(sp + 2)
      /\ UNCHANGED <<ram, i, ctl, lines>>
  BY DEF ReturnFromBdos, PopInto
<1> QED
  BY <1>1, FieldsOfMachine DEF Machine, Returned, ctl, lines

(* What does not change in a turn of the loop but at its boundary *)
Kept == UNCHANGED <<mode, budget, steps, events, segment, trace, segTrace>>

(* A turn of the loop, from the machine m that came to its top: a step, an *)
(* end that m and the budget decide, or a place further on                 *)
LEMMA Turn ==
  ASSUME TypeOK, OneProgram, events = <<>>, stage = "step" => NoStop(Machine),
         NEW m, Place(m), RunStep
  PROVE  \/ /\ Boundary
            /\ GoesOn(m) /\ Machine = Passed(m) /\ Stepped(Machine)
            /\ Machine' = After(Machine)
         \/ /\ Kept /\ stage' = "ended"
            /\ (stage = "top" /\ steps = budget) \/ ~(GoesOn(m) /\ Stepped(Passed(m)))
            /\ UNCHANGED checkpoints \/ BoundaryRaises
         \/ /\ Kept /\ UNCHANGED checkpoints /\ Place(m)'
            /\ (stage = "top" /\ steps < budget) \/ stage \in {"print", "checks"}
            /\ stage' \in {"print", "checks", "step"}
<1>1. ~ApplyEvent
  BY DEF ApplyEvent, EventDue
<1>2. CASE CpmExit
  <2>1. Machine = m /\ TrapPending /\ (pc = WarmBoot \/ Function = 0)
    BY <1>2 DEF CpmExit, InLoop, Place
  <2>2. ~GoesOn(m)
    BY <2>1, TrapsOfMachine, FieldsOfMachine DEF GoesOn
  <2> QED
    BY <1>2, <2>2 DEF CpmExit, End, Kept
<1>3. CASE BdosCall
  <2>1. Machine = m /\ Trapped(m) /\ m.pc # WarmBoot /\ Asking(m) = Function
    BY <1>3, TrapsOfMachine, FieldsOfMachine DEF BdosCall, InLoop, Place
  <2>2. Kept /\ UNCHANGED checkpoints /\ stage = "top" /\ steps < budget
    BY <1>3 DEF BdosCall, Kept, InLoop
  <2>3. CASE Function = 2 /\ ReturnFromBdos
    <3>1. Machine' = Passed(m) /\ stage' = "checks" /\ GoesOn(m)
      BY <2>1, <2>3, ReturnIsReturned DEF Passed, GoesOn, ReturnFromBdos
    <3> QED
      BY <2>2, <3>1 DEF Place
  <2>4. CASE Function = 9 /\ stage' = "print" /\ UNCHANGED vars
    <3>1. Machine' = m
      BY <2>1, <2>4, SameMachine DEF vars
    <3> QED
      BY <2>1, <2>2, <2>4, <3>1 DEF Place
  <2>5. CASE Function \notin {0, 2, 9} /\ stage' = "ended"
    <3>1. ~GoesOn(m)
      BY <2>1, <2>5 DEF GoesOn
    <3> QED
      BY <2>2, <2>5, <3>1
  <2> QED
    BY <1>3, <2>3, <2>4, <2>5 DEF BdosCall, End
<1>4. CASE PrintByte
  <2>1. /\ Machine = m /\ Trapped(m) /\ m.pc # WarmBoot /\ Asking(m) = 9
        /\ stage = "print"
    BY <1>4 DEF PrintByte, Place
  <2>2. Kept /\ UNCHANGED checkpoints
    BY <1>4 DEF PrintByte, Kept
  <2>3. CASE ReturnFromBdos
    <3>1. Machine' = Passed(m) /\ stage' = "checks" /\ GoesOn(m)
      BY <2>1, <2>3, ReturnIsReturned DEF Passed, GoesOn, ReturnFromBdos
    <3> QED
      BY <2>1, <2>2, <3>1 DEF Place
  <2>4. CASE UNCHANGED <<vars, stage>>
    <3>1. Machine' = m
      BY <2>1, <2>4, SameMachine DEF vars
    <3> QED
      BY <2>1, <2>2, <2>4, <3>1 DEF Place
  <2> QED
    BY <1>4, <2>3, <2>4 DEF PrintByte
<1>5. CASE NoTrap
  <2>1. Machine = m /\ ~Trapped(m) /\ stage' = "checks" /\ stage = "top" /\ steps < budget
    BY <1>5, TrapsOfMachine DEF NoTrap, InLoop, Place
  <2>2. Machine' = m
    BY <1>5, <2>1, SameMachine DEF NoTrap, vars
  <2>3. GoesOn(m) /\ Passed(m) = m
    BY <2>1 DEF GoesOn, Passed
  <2>4. Kept /\ UNCHANGED checkpoints
    BY <1>5 DEF NoTrap, Kept
  <2> QED
    BY <2>1, <2>2, <2>3, <2>4 DEF Place
<1>6. CASE StopChecks
  <2>1. Machine = Passed(m) /\ GoesOn(m) /\ stage = "checks"
    BY <1>6 DEF StopChecks, Place
  <2>2. Machine' = Machine
    BY <1>6, SameMachine DEF StopChecks, vars
  <2>3. Kept /\ UNCHANGED checkpoints
    BY <1>6 DEF StopChecks, Kept
  <2> DEFINE stops == pc \in AtPc \/ (OnHalt /\ NothingCanWake)
  <2>4. CASE stops
    <3>1. ~NoStop(Machine)
      BY <2>4, TrapsOfMachine DEF NothingCanWake
    <3>2. stage' = "ended"
      BY <1>6, <2>4 DEF StopChecks, End
    <3> QED
      BY <2>1, <2>3, <3>1, <3>2 DEF Stepped
  <2>5. CASE ~stops
    <3>1. stage' = "step"
      BY <1>6, <2>5 DEF StopChecks
    <3> QED
      BY <2>1, <2>2, <2>3, <3>1 DEF Place
  <2> HIDE DEF stops
  <2> QED
    BY <2>4, <2>5
<1>7. CASE BudgetSpent
  BY <1>7 DEF BudgetSpent, End, Kept
<1>8. CASE Boundary
  <2>1. GoesOn(m) /\ Machine = Passed(m) /\ NoStop(Machine)
    BY <1>8 DEF Boundary, Place
  <2>2. NotRefused(Machine)
    BY <1>8, StepNotRefused DEF Boundary
  <2>3. Machine' = After(Machine)
    BY <1>8, StepIsAfter DEF Boundary
  <2> QED
    BY <1>8, <2>1, <2>2, <2>3 DEF Stepped
<1>9. CASE BoundaryRaises
  <2>1. Machine = Passed(m)
    BY <1>9 DEF BoundaryRaises, Place
  <2>2. ~NotRefused(Machine)
    BY <1>9, RefusalIsKnown DEF BoundaryRaises
  <2> QED
    BY <1>9, <2>1, <2>2 DEF BoundaryRaises, Stepped, End, Kept
<1> QED
  BY <1>1, <1>2, <1>3, <1>4, <1>5, <1>6, <1>7, <1>8, <1>9 DEF RunStep

LEMMA StopChecksPassed ==
  ASSUME events = <<>>, stage = "step" => NoStop(Machine), RunStep
  PROVE  stage' = "step" => NoStop(Machine)'
<1> SUFFICES ASSUME stage' = "step" PROVE NoStop(Machine)'
  OBVIOUS
<1>1. ~(ApplyEvent \/ CpmExit \/ BudgetSpent \/ Boundary \/ BoundaryRaises)
  BY DEF ApplyEvent, InLoop, CpmExit, BudgetSpent, Boundary, BoundaryRaises, End
<1>2. ~(BdosCall \/ PrintByte \/ NoTrap)
  BY DEF BdosCall, InLoop, ReturnFromBdos, End, PrintByte, NoTrap
<1>3. StopChecks
  BY <1>1, <1>2 DEF RunStep
<1>4. NoStop(Machine)
  <2> DEFINE stops == pc \in AtPc \/ (OnHalt /\ NothingCanWake)
  <2>1. ~stops
    BY <1>3 DEF StopChecks, End
  <2> QED
    BY <2>1, TrapsOfMachine DEF NothingCanWake
<1>5. Machine' = Machine
  BY <1>3, SameMachine DEF StopChecks, vars
<1> QED
  BY <1>4, <1>5 DEF NoStop

LEMMA RunStepTypes ==
  ASSUME TypeOK, events = <<>>, RunStep
  PROVE  TypeOK'
<1>1. ~ApplyEvent
  BY DEF ApplyEvent, EventDue
<1>2. CASE Step
  BY <1>2, StepTypes
<1>3. CASE UNCHANGED vars
  BY <1>3 DEF TypeOK, vars, regs, ctl, lines
<1>4. CASE ReturnFromBdos
  <2>1. /\ pc' = WordAt(ram, sp) /\ sp' = Wrap(sp + 2)
        /\ UNCHANGED <<ram, i, ctl, lines, saved, afterEI>>
    BY <1>4 DEF ReturnFromBdos, PopInto
  <2>2. pc' \in Addr /\ sp' \in Addr
    BY <2>1, WordAtInAddr, WrapInAddr, ConstantsInRange DEF TypeOK
  <2> QED
    BY <2>1, <2>2 DEF TypeOK, ctl, lines
<1>5. CpmExit \/ NoTrap \/ StopChecks \/ BudgetSpent => UNCHANGED vars
  BY DEF CpmExit, NoTrap, StopChecks, BudgetSpent
<1>6. BdosCall \/ PrintByte => UNCHANGED vars \/ ReturnFromBdos
  BY DEF BdosCall, PrintByte
<1>7. Boundary \/ BoundaryRaises => Step
  BY DEF Boundary, BoundaryRaises, Step
<1> QED
  BY <1>1, <1>2, <1>3, <1>4, <1>5, <1>6, <1>7 DEF RunStep

(* What the n checkpoints written before step s say of where the next is *)
LEMMA DueCheckpoint ==
  ASSUME NEW n \in Nat, NEW s \in Nat, (n - 1) * Every < s, s <= n * Every
  PROVE  /\ s % Every = 0 <=> s = n * Every
         /\ \A k \in 1 .. n : (k - 1) * Every < s
         /\ (n + 1) * Every = n * Every + Every
<1>1. Every \in Nat \ {0}
  BY ManifestAssumption
<1> DEFINE E == Every
<1>0. E \in Nat \ {0} /\ (n - 1) * E < s /\ s <= n * E
  BY <1>1
<1> HIDE DEF E
<1>2. \A k \in 1 .. n : (k - 1) * E <= (n - 1) * E
  <2> SUFFICES ASSUME NEW k \in 1 .. n PROVE (k - 1) * E <= (n - 1) * E
    OBVIOUS
  <2>1. (n - k) * E >= 0 /\ (n - k) * E = (n - 1) * E - (k - 1) * E
    BY <1>0
  <2>2. (n - 1) * E \in Int /\ (k - 1) * E \in Int
    BY <1>0
  <2> QED
    BY <2>1, <2>2
<1>3. \A k \in 1 .. n : (k - 1) * E < s
  <2> SUFFICES ASSUME NEW k \in 1 .. n PROVE (k - 1) * E < s
    OBVIOUS
  <2>1. (n - 1) * E \in Int /\ (k - 1) * E \in Int /\ (k - 1) * E <= (n - 1) * E
    BY <1>0, <1>2
  <2> QED
    BY <1>0, <2>1
<1>4. ASSUME s % E = 0 PROVE s = n * E
  <2>1. PICK q \in Int : s = E * q + (s % E)
    <3>1. s \in Int /\ E \in Nat \ {0}
      BY <1>0
    <3>2. s \div E \in Int /\ s = E * (s \div E) + (s % E)
      BY ONLY <3>1, DivMod
    <3> QED
      BY ONLY <3>2
  <2>2. s = E * q
    <3>1. E * q \in Int
      BY <1>0
    <3> QED
      BY <1>4, <2>1, <3>1
  <2>3. /\ E * (q - n) = E * q - E * n /\ n * E = E * n
        /\ (n - 1) * E = E * n - E
    BY <1>0
  <2>4. PICK a \in Int, b \in Int : a = E * q /\ b = E * n
    BY <1>0
  <2>5. E * (q - n) = a - b /\ b - E < a /\ a <= b
    BY <1>0, <2>2, <2>3, <2>4
  <2>6. E * (q - n) < E /\ E * (q - n) > -E
    BY <1>0, <2>5
  <2>7. q - n \in Int /\ q - n = 0
    BY <1>0, <2>6, MultipleOutOfReach
  <2>8. q = n
    BY <2>7
  <2> QED
    BY <2>2, <2>3, <2>8
<1>5. ASSUME s = n * E PROVE s % E = 0
  <2>1. s = 0 + E * n /\ 0 \in Int
    BY <1>0, <1>5
  <2>2. s % E = 0 % E
    <3>1. PICK z \in Int : z = 0
      OBVIOUS
    <3>2. s = z + E * n
      BY <2>1, <3>1
    <3>3. s \in Int /\ n \in Int /\ E \in Nat \ {0}
      BY <1>0
    <3>4. s % E = z % E
      BY ONLY SameRemainder, <3>1, <3>2, <3>3
    <3> QED
      BY <3>1, <3>4
  <2>3. 0 % E = 0
    BY <1>0
  <2> QED
    BY <2>2, <2>3
<1>6. (n + 1) * E = n * E + E
  BY <1>0
<1> QED
  BY <1>3, <1>4, <1>5, <1>6 DEF E

LEMMA ReplayInit == ManifestInit => ReplayInv
<1> SUFFICES ASSUME ManifestInit
             PROVE  ReplayInv
  OBVIOUS
<1>1. PICK m \in Initials :
        /\ pc = m.pc /\ sp = m.sp /\ i = m.i
        /\ iff1 = m.iff1 /\ iff2 = m.iff2 /\ im = m.im
        /\ halted = m.halted /\ eiDelay = m.eiDelay
        /\ resetPending = m.resetPending
        /\ intVector = m.intVector /\ nmiPending = m.nmiPending
  BY DEF ManifestInit
<1>2. m \in InitialStates
  BY ManifestAssumption
<1>3. ram \in [Addr -> Byte]
  BY RamAssumption DEF ManifestInit
<1>4. TypeOK
  BY <1>1, <1>2, <1>3 DEF InitialStates, TypeOK, ManifestInit
<1>5. mode \in {"trace", "checkpoint"} /\ (mode = "checkpoint" => events = <<>>)
  BY DEF ManifestInit
<1>6. /\ stage = "top" /\ steps = 0 /\ segment = 0
      /\ trace = <<>> /\ segTrace = <<>> /\ checkpoints = <<>>
  BY DEF ManifestInit
<1>7. events = <<>> => HistoriesOK /\ FullRun
  BY <1>6 DEF HistoriesOK, FullRun
<1>8. Writing
  <2>1. Len(checkpoints) = 0 /\ Len(trace) = 0 /\ Every \in Nat \ {0}
    BY <1>6, ManifestAssumption
  <2>2. (Len(checkpoints) - 1) * Every < 0 /\ Len(checkpoints) * Every = 0
    BY <2>1
  <2> QED
    BY <1>6, <2>1, <2>2 DEF Writing
<1> QED
  BY <1>4, <1>5, <1>6, <1>7, <1>8 DEF ReplayInv

LEMMA OtherRunsWriteNothing ==
  ASSUME ReplayInv, mode \in {"trace", "diff"}, RunStep
  PROVE  ReplayInv'
<1>1. mode' = mode /\ checkpoints = <<>> /\ segment = 0 /\ segment' = segment
  BY DEF ReplayInv, RunStep, ApplyEvent, CpmExit, BdosCall, PrintByte, NoTrap, StopChecks,
         BudgetSpent, Boundary, BoundaryRaises
<1>2. ~CheckpointDue
  BY DEF CheckpointDue
<1>3. checkpoints' = checkpoints
  BY <1>2 DEF RunStep, ApplyEvent, CpmExit, BdosCall, PrintByte, NoTrap, StopChecks,
         BudgetSpent, Boundary, BoundaryRaises
<1> QED
  BY <1>1, <1>3 DEF ReplayInv

(* The types and the stop checks, which every turn keeps *)
LEMMA TurnKeepsTypes ==
  ASSUME TypeOK, HistoriesOK, RunStep, Kept, checkpoints' = checkpoints,
         stage' \in {"top", "print", "checks", "step", "ended"}
  PROVE  TypeOK' /\ HistoriesOK' /\ (FullRun => FullRun')
<1>1. TypeOK' /\ (stage' = "step" => NoStop(Machine)')
  BY RunStepTypes, StopChecksPassed DEF HistoriesOK
<1>2. HistoriesOK'
  BY <1>1 DEF HistoriesOK, Kept
<1>3. FullRun => FullRun'
  BY DEF FullRun, Kept
<1> QED
  BY <1>1, <1>2, <1>3

LEMMA WritingBoundary ==
  ASSUME TypeOK, HistoriesOK, FullRun, Writing, mode = "checkpoint", OneProgram,
         Boundary
  PROVE  /\ mode' = mode /\ HistoriesOK' /\ FullRun' /\ Writing'
<1>1. /\ stage = "step" /\ stage' = "top" /\ steps' = steps + 1
      /\ trace' = Append(trace, Machine) /\ segTrace' = segTrace
      /\ mode' = mode /\ segment' = segment /\ events' = events
      /\ checkpoints' = IF steps % Every = 0 THEN Append(checkpoints, Machine)
                                            ELSE checkpoints
  BY DEF Boundary, CheckpointDue
<1>2. /\ trace \in Seq(MachineStates) /\ checkpoints \in Seq(MachineStates)
      /\ steps \in Nat /\ Len(trace) = steps /\ segment = 0
  BY DEF HistoriesOK, Writing
<1>3. Machine \in MachineStates /\ Machine' = After(Machine) /\ Stepped(Machine)
  BY <1>1, MachineTyped, StepIsAfter, StepNotRefused DEF Boundary, Stepped, HistoriesOK
<1>4. /\ trace' \in Seq(MachineStates) /\ Len(trace') = steps + 1
      /\ \A k \in 1 .. steps : trace'[k] = trace[k]
      /\ trace'[steps + 1] = Machine
  BY <1>1, <1>2, <1>3
<1> DEFINE n == Len(checkpoints)
<1>5. n \in Nat /\ (n - 1) * Every < steps /\ steps <= n * Every
  <2>1. stage # "ended"
    BY <1>1
  <2>2. n \in Nat
    BY <1>2
  <2> QED
    BY <2>1, <2>2, Zenon DEF Writing
<1>6. /\ steps % Every = 0 <=> steps = n * Every
      /\ \A k \in 1 .. n : (k - 1) * Every < steps
      /\ (n + 1) * Every = n * Every + Every
  BY <1>2, <1>5, DueCheckpoint
<1>7. Every \in Nat \ {0} /\ \A k \in Nat : (k - 1) * Every \in Int /\ k * Every \in Int
  BY ManifestAssumption
<1>8. /\ checkpoints' \in Seq(MachineStates)
      /\ \A k \in 1 .. n : checkpoints'[k] = checkpoints[k]
      /\ steps = n * Every => Len(checkpoints') = n + 1 /\ checkpoints'[n + 1] = Machine
      /\ steps # n * Every => Len(checkpoints') = n
  BY <1>1, <1>2, <1>3, <1>6
<1>9. HistoriesOK'
  <2>1. segTrace \in Seq(MachineStates) /\ events = <<>>
    BY DEF HistoriesOK
  <2> QED
    BY <1>1, <1>2, <1>4, <1>8, <2>1 DEF HistoriesOK
<1>10. \A k \in 1 .. Len(trace') : Stepped(trace'[k])
  BY <1>2, <1>3, <1>4 DEF FullRun
<1>11. \A k \in 1 .. Len(trace') - 1 : Follows(trace'[k], trace'[k + 1])
  <2> SUFFICES ASSUME NEW k \in 1 .. steps
               PROVE  Follows(trace'[k], trace'[k + 1])
    <3>1. Len(trace') - 1 = steps
      BY <1>2, <1>4
    <3> QED
      BY <3>1
  <2>1. CASE k < steps
    <3>1. k \in 1 .. steps - 1 /\ k + 1 \in 1 .. steps
      BY <1>2, <2>1
    <3>2. \A l \in 1 .. steps - 1 : Follows(trace[l], trace[l + 1])
      BY <1>2, Zenon DEF FullRun
    <3>3. Follows(trace[k], trace[k + 1])
      BY <3>1, <3>2
    <3>4. trace'[k] = trace[k] /\ trace'[k + 1] = trace[k + 1]
      BY <1>4, <3>1
    <3> QED
      BY <3>3, <3>4
  <2>2. CASE k = steps
    <3>1. Place(After(trace[steps]))
      <4>1. stage # "ended" /\ steps > 0
        BY <1>1, <1>2, <2>2
      <4> QED
        BY <4>1, Zenon DEF Writing, RunTop
    <3>2. GoesOn(After(trace[steps])) /\ Machine = Passed(After(trace[steps]))
      BY <1>1, <3>1 DEF Place
    <3> QED
      BY <1>2, <1>3, <1>4, <2>2, <3>2 DEF Follows
  <2> QED
    BY <1>2, <2>1, <2>2
<1>12. \A k \in 1 .. Len(checkpoints') : (k - 1) * Every + 1 <= Len(trace') =>
         checkpoints'[k] = trace'[(k - 1) * Every + 1]
  <2> SUFFICES ASSUME NEW k \in 1 .. Len(checkpoints'), (k - 1) * Every + 1 <= steps + 1
               PROVE  checkpoints'[k] = trace'[(k - 1) * Every + 1]
    BY <1>4
  <2>1. CASE k \in 1 .. n
    <3>1. PICK x \in Int : x = (k - 1) * Every
      BY <1>7, <2>1
    <3>2. x < steps /\ x >= 0
      <4>1. (k - 1) * Every >= 0
        BY <1>7, <2>1
      <4> QED
        BY <1>6, <2>1, <3>1, <4>1
    <3>3. x + 1 \in 1 .. steps
      BY <1>2, <3>2
    <3>4. checkpoints[k] = trace[x + 1]
      BY <1>2, <2>1, <3>1, <3>3 DEF FullRun
    <3> QED
      BY <1>4, <1>8, <2>1, <3>1, <3>3, <3>4
  <2>2. CASE k \notin 1 .. n
    <3>1. steps = n * Every /\ k = n + 1
      BY <1>5, <1>8, <2>2
    <3>2. (k - 1) * Every = steps
      BY <1>5, <3>1
    <3> QED
      BY <1>4, <1>8, <3>1, <3>2
  <2> QED
    BY <2>1, <2>2
<1>13. Writing'
  <2>1. RunTop' = Machine'
    BY <1>1, <1>3, <1>4 DEF RunTop
  <2>2. Place(RunTop)'
    BY <1>1, <2>1 DEF Place
  <2>3. (Len(checkpoints') - 1) * Every < steps + 1 /\ steps + 1 <= Len(checkpoints') * Every
    <3>1. PICK x \in Int, y \in Int : x = n * Every /\ y = (n - 1) * Every
      BY <1>5, <1>7
    <3>2. CASE steps = n * Every
      <4>1. Len(checkpoints') = n + 1 /\ (n + 1) - 1 = n
        BY <1>5, <1>8, <3>2
      <4>2. x < steps + 1 /\ steps + 1 <= x + Every
        BY <1>2, <1>7, <3>1, <3>2
      <4> QED
        BY <1>6, <3>1, <4>1, <4>2
    <3>3. CASE steps # n * Every
      <4>1. y < steps + 1 /\ steps + 1 <= x
        BY <1>2, <1>5, <3>1, <3>3
      <4> QED
        BY <1>8, <3>1, <3>3, <4>1
    <3> QED
      BY <3>2, <3>3
  <2> QED
    BY <1>1, <1>2, <1>4, <2>2, <2>3 DEF Writing
<1> QED
  BY <1>1, <1>9, <1>10, <1>11, <1>12, <1>13 DEF FullRun

LEMMA WritingKept ==
  ASSUME ReplayInv, mode = "checkpoint", OneProgram, RunStep
  PROVE  ReplayInv'
<1>1. TypeOK /\ HistoriesOK /\ FullRun /\ Writing
  BY DEF ReplayInv
<1>2. events = <<>> /\ (stage = "step" => NoStop(Machine))
  BY <1>1 DEF HistoriesOK
<1>3. TypeOK'
  BY <1>1, <1>2, RunStepTypes
<1>4. CASE Boundary
  <2>1. mode' = mode /\ HistoriesOK' /\ FullRun' /\ Writing'
    BY <1>1, <1>4, WritingBoundary
  <2> QED
    BY <1>3, <2>1 DEF ReplayInv
<1>5. CASE BoundaryRaises
  <2>1. /\ mode' = mode /\ stage' = "ended" /\ steps' = steps /\ trace' = trace
        /\ segTrace' = segTrace /\ segment' = segment /\ events' = events
        /\ checkpoints' = IF steps % Every = 0 THEN Append(checkpoints, Machine)
                                              ELSE checkpoints
        /\ stage = "step"
    BY <1>5 DEF BoundaryRaises, End, CheckpointDue
  <2>2. /\ checkpoints \in Seq(MachineStates) /\ steps \in Nat /\ segment = 0
        /\ Len(trace) = steps /\ Machine \in MachineStates
    BY <1>1, MachineTyped DEF HistoriesOK, Writing
  <2> DEFINE n == Len(checkpoints)
  <2>3. n \in Nat /\ (n - 1) * Every < steps /\ steps <= n * Every
    <3>1. stage # "ended" /\ n \in Nat
      BY <2>1, <2>2
    <3> QED
      BY <1>1, <3>1, Zenon DEF Writing
  <2>4. steps % Every = 0 <=> steps = n * Every
    BY <2>2, <2>3, DueCheckpoint
  <2>5. /\ checkpoints' \in Seq(MachineStates)
        /\ \A k \in 1 .. n : checkpoints'[k] = checkpoints[k]
        /\ Len(checkpoints') = n \/ (Len(checkpoints') = n + 1 /\ steps = n * Every)
    BY <2>1, <2>2, <2>4
  <2>6. HistoriesOK'
    <3>1. trace \in Seq(MachineStates) /\ segTrace \in Seq(MachineStates)
      BY <1>1 DEF HistoriesOK
    <3> QED
      BY <1>2, <2>1, <2>2, <2>5, <3>1 DEF HistoriesOK
  <2>7. \A k \in 1 .. Len(checkpoints') : (k - 1) * Every + 1 <= Len(trace) =>
          checkpoints'[k] = trace[(k - 1) * Every + 1]
    <3> SUFFICES ASSUME NEW k \in 1 .. Len(checkpoints'), (k - 1) * Every + 1 <= Len(trace)
                 PROVE  checkpoints'[k] = trace[(k - 1) * Every + 1]
      OBVIOUS
    <3>1. CASE k \in 1 .. n
      <4>1. checkpoints[k] = trace[(k - 1) * Every + 1]
        BY <1>1, <3>1, Zenon DEF FullRun
      <4> QED
        BY <2>5, <3>1, <4>1
    <3>2. CASE k \notin 1 .. n
      <4>1. k = n + 1 /\ steps = n * Every
        BY <2>3, <2>5, <3>2
      <4>2. (k - 1) * Every = steps
        BY <2>3, <4>1
      <4> QED
        BY <2>2, <4>2
    <3> QED
      BY <3>1, <3>2
  <2>8. FullRun'
    BY <1>1, <2>1, <2>7, Zenon DEF FullRun
  <2>9. Writing'
    BY <2>1, <2>2 DEF Writing
  <2> QED
    BY <1>3, <2>1, <2>6, <2>8, <2>9 DEF ReplayInv
<1>6. CASE ~Boundary /\ ~BoundaryRaises
  <2>1. Kept /\ UNCHANGED checkpoints
    BY <1>2, <1>6 DEF RunStep, ApplyEvent, EventDue, CpmExit, BdosCall, PrintByte, NoTrap,
       StopChecks, BudgetSpent, Kept
  <2>2. stage' \in {"print", "checks", "step", "ended"}
    BY <1>2, <1>6 DEF RunStep, ApplyEvent, EventDue, CpmExit, BdosCall, PrintByte, NoTrap,
       StopChecks, BudgetSpent, End, ReturnFromBdos
  <2>3. HistoriesOK' /\ FullRun'
    BY <1>1, <2>1, <2>2, TurnKeepsTypes
  <2>4. mode' = mode /\ segment' = segment /\ trace' = trace /\ steps' = steps
    BY <2>1 DEF Kept
  <2>5. Writing'
    <3>1. segment' = 0 /\ Len(trace') = steps'
      BY <1>1, <2>4 DEF Writing
    <3>2. CASE stage = "ended"
      <4>1. FALSE
        BY <1>6, <3>2 DEF RunStep, ApplyEvent, InLoop, CpmExit, BdosCall, PrintByte, NoTrap,
           StopChecks, BudgetSpent
      <4> QED
        BY <4>1
    <3>3. CASE stage # "ended" /\ steps > 0 /\ stage' # "ended"
      <4>1. PICK m : m = RunTop
        OBVIOUS
      <4>2. Place(m)
        BY <1>1, <3>3, <4>1, Zenon DEF Writing
      <4>3. Place(m)'
        BY <1>1, <1>2, <1>6, <3>3, <4>2, Turn
      <4>4. RunTop' = m
        BY <2>4, <4>1 DEF RunTop
      <4>5. Place(RunTop)'
        BY <4>3, <4>4 DEF Place
      <4> QED
        BY <1>1, <2>1, <2>4, <3>1, <3>3, <4>5, Zenon DEF Writing
    <3>4. CASE stage' = "ended"
      BY <3>1, <3>4, Zenon DEF Writing
    <3>5. CASE stage # "ended" /\ ~(steps > 0)
      BY <1>1, <2>1, <2>4, <3>1, <3>5, Zenon DEF Writing
    <3> QED
      BY <3>2, <3>3, <3>4, <3>5
  <2> QED
    BY <1>3, <2>3, <2>4, <2>5 DEF ReplayInv
<1> QED
  BY <1>4, <1>5, <1>6

LEMMA SegmentStarted ==
  ASSUME ReplayInv, StartSegment
  PROVE  ReplayInv'
<1>1. /\ mode # "trace" /\ segment < Len(checkpoints)
      /\ mode' = "segment" /\ segment' = segment + 1 /\ stage' = "top"
      /\ budget' = Every /\ steps' = 0 /\ segTrace' = <<>>
      /\ UNCHANGED <<saved, events, checkpoints, trace>>
      /\ Load(checkpoints[segment + 1])
  BY DEF StartSegment
<1>2. mode \in {"checkpoint", "segment"}
  <2>1. ~(checkpoints = <<>> /\ segment = 0)
    BY <1>1
  <2> QED
    BY <1>1, <2>1 DEF ReplayInv
<1>3. TypeOK /\ HistoriesOK /\ FullRun
  BY <1>2 DEF ReplayInv
<1>4. segment \in Nat /\ segment + 1 \in 1 .. Len(checkpoints)
  BY <1>1, <1>3 DEF HistoriesOK
<1>5. PICK m \in MachineStates : m = checkpoints[segment + 1]
  BY <1>3, <1>4 DEF HistoriesOK
<1>6. Machine' = m
  BY <1>1, <1>5 DEF Load, Machine, MachineStates
<1>7. TypeOK'
  <2>1. afterEI' = FALSE /\ saved' = saved
    BY <1>1 DEF StartSegment
  <2> QED
    BY <1>1, <1>3, <1>5, <2>1 DEF Load, MachineStates, TypeOK
<1>8. HistoriesOK' /\ FullRun'
  <2>1. trace' = trace /\ checkpoints' = checkpoints
    BY <1>1
  <2>2. FullRun'
    BY <1>3, <2>1, Zenon DEF FullRun
  <2>3. HistoriesOK'
    BY <1>1, <1>3, <1>4 DEF HistoriesOK
  <2> QED
    BY <2>2, <2>3
<1>9. Replaying'
  <2>1. SegmentTop' = m
    BY <1>1, <1>4, <1>5 DEF SegmentTop
  <2>2. Place(SegmentTop)'
    BY <1>1, <1>6, <2>1 DEF Place
  <2>3. Every \in Nat \ {0}
    BY ManifestAssumption
  <2> QED
    BY <1>1, <1>4, <2>2, <2>3 DEF Replaying
<1> QED
  BY <1>1, <1>7, <1>8, <1>9 DEF ReplayInv

(* The segment is at a place where the full run went on: it goes on as the *)
(* full run did                                                            *)
LEMMA RunAhead ==
  ASSUME HistoriesOK, FullRun, Replaying, AtNoTrap, Before + steps < Len(trace)
  PROVE  /\ GoesOn(SegmentTop) /\ Stepped(Passed(SegmentTop))
         /\ Passed(SegmentTop) = trace[Before + steps + 1]
<1>1. /\ steps \in Nat /\ segment \in 1 .. Len(checkpoints) /\ Len(segTrace) = steps
      /\ trace \in Seq(MachineStates)
  BY DEF HistoriesOK, Replaying
<1>2. Every \in Nat \ {0}
  BY ManifestAssumption
<1>3. PICK x \in Nat : x = Before
  <2>1. (segment - 1) \in Nat
    BY <1>1
  <2> QED
    BY <1>2, <2>1 DEF Before
<1>4. x + steps + 1 \in 1 .. Len(trace)
  BY <1>1, <1>3
<1>5. Stepped(trace[x + steps + 1])
  BY <1>4 DEF FullRun
<1>6. CASE steps = 0
  <2>1. checkpoints[segment] = trace[x + 1]
    <3>1. (segment - 1) * Every + 1 <= Len(trace)
      BY <1>3, <1>4, <1>6 DEF Before
    <3>2. checkpoints[segment] = trace[(segment - 1) * Every + 1]
      BY <1>1, <3>1, Zenon DEF FullRun
    <3> QED
      BY <1>3, <3>2 DEF Before
  <2>2. SegmentTop = trace[x + 1]
    BY <1>6, <2>1 DEF SegmentTop
  <2>3. GoesOn(SegmentTop) /\ Passed(SegmentTop) = SegmentTop
    BY <2>1, <2>2 DEF AtNoTrap, GoesOn, Passed
  <2>4. x + steps + 1 = x + 1 /\ Before + steps + 1 = x + 1
    BY <1>3, <1>6
  <2> QED
    BY <1>5, <2>2, <2>3, <2>4
<1>7. CASE steps > 0
  <2>1. steps \in 1 .. steps /\ Before + steps <= Len(trace)
    BY <1>1, <1>3, <1>7
  <2>2. segTrace[steps] = trace[Before + steps]
    BY <2>1, Zenon DEF Replaying
  <2>3. x + steps \in 1 .. Len(trace) - 1
    BY <1>1, <1>3, <1>4, <1>7
  <2>4. Follows(trace[x + steps], trace[(x + steps) + 1])
    BY <2>3, Zenon DEF FullRun
  <2>5. SegmentTop = After(trace[x + steps])
    BY <1>3, <1>7, <2>2 DEF SegmentTop
  <2> QED
    BY <1>3, <2>4, <2>5 DEF Follows
<1> QED
  BY <1>1, <1>6, <1>7

LEMMA ReplayingKept ==
  ASSUME ReplayInv, mode = "segment", OneProgram, RunStep
  PROVE  ReplayInv'
<1>1. TypeOK /\ HistoriesOK /\ FullRun /\ Replaying
  BY DEF ReplayInv
<1>2. /\ events = <<>> /\ (stage = "step" => NoStop(Machine))
      /\ trace \in Seq(MachineStates) /\ segTrace \in Seq(MachineStates)
      /\ checkpoints \in Seq(MachineStates) /\ steps \in Nat
      /\ segment \in 0 .. Len(checkpoints)
  BY <1>1 DEF HistoriesOK
<1>3. /\ segment > 0 /\ budget = Every /\ Len(segTrace) = steps /\ steps <= Every
      /\ stage \notin {"top", "ended"} => steps < Every
  BY <1>1 DEF Replaying
<1>4. TypeOK' /\ Every \in Nat
  BY <1>1, <1>2, RunStepTypes, ManifestAssumption
<1>5. PICK x \in Int : x = Before
  <2>1. (segment - 1) \in Int
    BY <1>2
  <2> QED
    BY <1>4, <2>1 DEF Before
<1>6. PICK m : m = SegmentTop
  OBVIOUS
<1>7. AtNoTrap => \A j \in 1 .. steps : x + j <= Len(trace) => segTrace[j] = trace[x + j]
  BY <1>1, <1>5, Zenon DEF Replaying
<1>8. stage # "ended"
  BY <1>2 DEF RunStep, ApplyEvent, InLoop, CpmExit, BdosCall, PrintByte, NoTrap,
     StopChecks, BudgetSpent, Boundary, BoundaryRaises
<1>9. AtNoTrap => Place(m)
  BY <1>1, <1>6, <1>8, Zenon DEF Replaying
<1>10. AtNoTrap /\ x + steps < Len(trace) =>
         GoesOn(m) /\ Stepped(Passed(m)) /\ Passed(m) = trace[x + steps + 1]
  BY <1>1, <1>5, <1>6, RunAhead
<1>11. CASE Boundary
  <2>1. /\ stage = "step" /\ stage' = "top" /\ steps' = steps + 1
        /\ segTrace' = Append(segTrace, Machine) /\ trace' = trace
        /\ UNCHANGED <<mode, budget, events, segment, checkpoints>>
    BY <1>11 DEF Boundary, CheckpointDue
  <2>2. Machine \in MachineStates /\ Machine' = After(Machine)
    BY <1>1, <1>11, MachineTyped, StepIsAfter DEF Boundary
  <2>3. /\ segTrace' \in Seq(MachineStates) /\ Len(segTrace') = steps + 1
        /\ \A j \in 1 .. steps : segTrace'[j] = segTrace[j]
        /\ segTrace'[steps + 1] = Machine
    BY <1>2, <1>3, <2>1, <2>2
  <2>4. HistoriesOK' /\ FullRun'
    <3>1. trace' = trace /\ checkpoints' = checkpoints
      BY <2>1
    <3>2. FullRun'
      BY <1>1, <3>1, Zenon DEF FullRun
    <3>3. HistoriesOK'
      BY <1>2, <2>1, <2>3 DEF HistoriesOK
    <3> QED
      BY <3>2, <3>3
  <2>5. Before' = x /\ (AtNoTrap' <=> AtNoTrap)
    BY <1>5, <2>1 DEF Before, AtNoTrap
  <2>6. ASSUME AtNoTrap, NEW j \in 1 .. steps + 1, x + j <= Len(trace)
        PROVE  segTrace'[j] = trace[x + j]
    <3>1. CASE j \in 1 .. steps
      BY <1>7, <2>3, <2>6, <3>1
    <3>2. CASE j = steps + 1
      <4>1. x + steps < Len(trace) /\ x + steps + 1 = x + j
        BY <1>2, <1>5, <2>6, <3>2
      <4>2. Machine = Passed(m)
        BY <1>9, <2>1, <2>6 DEF Place
      <4> QED
        BY <1>10, <2>3, <2>6, <3>2, <4>1, <4>2
    <3> QED
      BY <1>2, <2>6, <3>1, <3>2
  <2>7. Place(SegmentTop)'
    <3>1. SegmentTop' = Machine'
      <4>1. steps' # 0 /\ segTrace'[steps'] = Machine
        BY <1>2, <2>1, <2>3
      <4> QED
        BY <2>2, <4>1 DEF SegmentTop
    <3> QED
      BY <2>1, <3>1 DEF Place
  <2>8. /\ segment' > 0 /\ budget' = Every /\ Len(segTrace') = steps' /\ steps' <= Every
        /\ stage' = "top"
    BY <1>2, <1>3, <1>4, <2>1, <2>3
  <2>9. AtNoTrap' => \A j \in 1 .. steps' :
          Before' + j <= Len(trace') => segTrace'[j] = trace'[Before' + j]
    BY <2>1, <2>5, <2>6
  <2>10. Replaying'
    BY <2>7, <2>8, <2>9 DEF Replaying
  <2> QED
    BY <1>4, <2>1, <2>4, <2>10 DEF ReplayInv
<1>12. CASE ~Boundary
  <2>1. Kept /\ UNCHANGED checkpoints
    BY <1>2, <1>12 DEF RunStep, ApplyEvent, EventDue, CpmExit, BdosCall, PrintByte, NoTrap,
       StopChecks, BudgetSpent, BoundaryRaises, CheckpointDue, Kept
  <2>2. /\ stage' \in {"print", "checks", "step", "ended"}
        /\ stage' = "ended" \/ stage # "top" \/ steps < budget
    BY <1>2, <1>12 DEF RunStep, ApplyEvent, EventDue, CpmExit, BdosCall, PrintByte, NoTrap,
       StopChecks, BudgetSpent, BoundaryRaises, End, ReturnFromBdos, InLoop
  <2>3. HistoriesOK' /\ FullRun'
    BY <1>1, <2>1, <2>2, TurnKeepsTypes
  <2>4. /\ mode' = mode /\ segment' = segment /\ trace' = trace /\ steps' = steps
        /\ segTrace' = segTrace /\ budget' = budget /\ checkpoints' = checkpoints
    BY <2>1 DEF Kept
  <2>5. Before' = x /\ (AtNoTrap' <=> AtNoTrap) /\ SegmentTop' = m
    BY <1>5, <1>6, <2>4 DEF Before, AtNoTrap, SegmentTop
  <2>6. /\ segment' > 0 /\ budget' = Every /\ Len(segTrace') = steps' /\ steps' <= Every
        /\ stage' \notin {"top", "ended"} => steps' < Every
    BY <1>3, <1>8, <2>2, <2>4
  <2>7. AtNoTrap' => \A j \in 1 .. steps' :
          Before' + j <= Len(trace') => segTrace'[j] = trace'[Before' + j]
    BY <1>7, <2>4, <2>5
  <2>8. ASSUME AtNoTrap, stage' # "ended"
        PROVE  Place(SegmentTop)'
    <3>1. Place(m)'
      BY <1>1, <1>2, <1>9, <1>12, <2>8, Turn
    <3> QED
      BY <2>5, <3>1 DEF Place
  <2>9. ASSUME AtNoTrap, stage' = "ended"
        PROVE  steps' = Every \/ Before' + steps' >= Len(trace')
    <3>1. (stage = "top" /\ steps = budget) \/ ~(GoesOn(m) /\ Stepped(Passed(m)))
      BY <1>1, <1>2, <1>9, <1>12, <2>9, Turn
    <3>2. CASE steps = budget
      BY <1>3, <2>4, <3>2
    <3>3. CASE ~(GoesOn(m) /\ Stepped(Passed(m)))
      <4>1. ~(x + steps < Len(trace)) /\ Len(trace) \in Nat
        BY <1>2, <1>10, <2>9, <3>3
      <4> QED
        BY <1>2, <1>5, <2>4, <2>5, <4>1
    <3> QED
      BY <3>1, <3>2, <3>3
  <2>10. Replaying'
    BY <2>5, <2>6, <2>7, <2>8, <2>9 DEF Replaying
  <2> QED
    BY <1>4, <2>3, <2>4, <2>10 DEF ReplayInv
<1> QED
  BY <1>11, <1>12

LEMMA StutterKeepsReplay ==
  ASSUME ReplayInv, UNCHANGED cvars
  PROVE  ReplayInv'
<1>1. /\ UNCHANGED vars /\ mode' = mode /\ stage' = stage /\ budget' = budget
      /\ steps' = steps /\ events' = events /\ checkpoints' = checkpoints
      /\ segment' = segment /\ trace' = trace /\ segTrace' = segTrace
  BY DEF cvars, runVars
<1>2. Machine' = Machine
  BY <1>1, SameMachine DEF vars
<1>3. TypeOK => TypeOK'
  BY <1>1 DEF TypeOK, vars, regs, ctl, lines
<1>4. HistoriesOK => HistoriesOK'
  BY <1>1, <1>2 DEF HistoriesOK, NoStop
<1>5. FullRun => FullRun'
  BY <1>1, Zenon DEF FullRun
<1>6. Place(RunTop) => Place(RunTop)'
  BY <1>1, <1>2, Zenon DEF Place, RunTop
<1>7. Place(SegmentTop) => Place(SegmentTop)'
  BY <1>1, <1>2, Zenon DEF Place, SegmentTop
<1>8. Writing => Writing'
  BY <1>1, <1>6, Zenon DEF Writing
<1>9. Replaying => Replaying'
  BY <1>1, <1>7, Zenon DEF Replaying, Before, AtNoTrap
<1> QED
  BY <1>1, <1>3, <1>4, <1>5, <1>8, <1>9 DEF ReplayInv

LEMMA ReplayKept ==
  ASSUME OneProgram, ReplayInv, RunStep
  PROVE  ReplayInv'
<1>1. mode \in {"trace", "checkpoint", "segment", "diff"}
  BY DEF ReplayInv
<1> QED
  BY <1>1, OtherRunsWriteNothing, WritingKept, ReplayingKept

LEMMA ReplaysShown ==
  ASSUME ReplayInv
  PROVE  ReplaysFromNoTrap
<1> SUFFICES ASSUME mode = "segment", AtNoTrap, stage = "ended"
             PROVE  IsPrefix(SegmentOfRun, segTrace)
  BY DEF ReplaysFromNoTrap, SegmentsReplayRun
<1>1. HistoriesOK /\ Replaying
  BY DEF ReplayInv
<1>2. /\ trace \in Seq(MachineStates) /\ segTrace \in Seq(MachineStates)
      /\ steps \in Nat /\ segment \in Nat /\ segment > 0 /\ Len(segTrace) = steps
      /\ steps <= Every /\ Every \in Nat
  BY <1>1, ManifestAssumption DEF HistoriesOK, Replaying
<1>3. PICK x \in Nat : x = Before
  <2>1. segment - 1 \in Nat
    BY <1>2
  <2> QED
    BY <1>2, <2>1 DEF Before
<1>4. segment * Every = x + Every
  BY <1>2, <1>3 DEF Before
<1>5. /\ \A j \in 1 .. steps : x + j <= Len(trace) => segTrace[j] = trace[x + j]
      /\ steps = Every \/ x + steps >= Len(trace)
  BY <1>1, <1>3, Zenon DEF Replaying
<1> DEFINE last == IF x + Every < Len(trace) THEN x + Every ELSE Len(trace)
           part == SubSeq(trace, x + 1, last)
<1>6. SegmentOfRun = part
  BY <1>3, <1>4 DEF SegmentOfRun, Before
<1>7. last \in Nat /\ last <= Len(trace) /\ last - x <= steps
  BY <1>2, <1>3, <1>5
<1>8. /\ Len(part) = IF x + 1 <= last THEN last - x ELSE 0
      /\ \A j \in 1 .. last - x : part[j] = trace[x + j]
      /\ part \in Seq(MachineStates)
  <2>1. \A j \in x + 1 .. last : trace[j] \in MachineStates
    BY <1>2, <1>3, <1>7
  <2>2. x + 1 \in Int /\ last \in Int
    BY <1>3, <1>7
  <2>3. /\ part \in Seq(MachineStates)
        /\ Len(part) = IF x + 1 <= last THEN last - (x + 1) + 1 ELSE 0
        /\ \A j \in 1 .. last - (x + 1) + 1 : part[j] = trace[(x + 1) + j - 1]
    BY <2>1, <2>2, SubSeqProperties
  <2> QED
    BY <1>3, <1>7, <2>3
<1> HIDE DEF part, last
<1>9. Len(part) \in Nat /\ Len(part) <= Len(segTrace)
  BY <1>2, <1>3, <1>7, <1>8
<1>10. \A j \in 1 .. Len(part) : part[j] = segTrace[j]
  BY <1>2, <1>3, <1>5, <1>7, <1>8
<1>11. SubSeq(part, 1, Len(part)) = part
  BY <1>8, <1>9, SubSeqFull
<1>12. SubSeq(segTrace, 1, Len(part)) = part
  <2>1. /\ SubSeq(segTrace, 1, Len(part)) \in Seq(MachineStates)
        /\ Len(SubSeq(segTrace, 1, Len(part))) = Len(part)
        /\ \A j \in 1 .. Len(part) : SubSeq(segTrace, 1, Len(part))[j] = segTrace[j]
    BY <1>2, <1>9
  <2> QED
    BY <1>8, <1>10, <2>1
<1> QED
  BY <1>6, <1>9, <1>11, <1>12 DEF IsPrefix

(* Running the checkpoints proves what the single run proves, for every    *)
(* distance, every stop rule, with the traps and without: a segment steps  *)
(* from the states the full run steps from and stops no earlier            *)
(* (write_checkpoints), where it begins at no trap.                        *)
THEOREM SegmentsReplay ==
  ASSUME OneProgram
  PROVE  ManifestSpec => [](mode = "segment" /\ AtNoTrap => SegmentsReplayRun)
<1>1. ReplayInv /\ [ManifestNext]_cvars => ReplayInv'
  BY ReplayKept, SegmentStarted, StutterKeepsReplay DEF ManifestNext
<1>2. ReplayInv => (mode = "segment" /\ AtNoTrap => SegmentsReplayRun)
  BY ReplaysShown DEF ReplaysFromNoTrap
<1> QED
  BY ReplayInit, <1>1, <1>2, PTL DEF ManifestSpec

(* A record waits for its partner in a diff only *)
ComparedInv == ReplayInv /\ (pending # None => mode = "diff")

(* The same of the runs that are also compared with other traces *)
THEOREM SegmentsReplayBesideDiffs ==
  ASSUME OneProgram
  PROVE  FairTraces => [](mode = "segment" /\ AtNoTrap => SegmentsReplayRun)
<1>1. ComparedInv /\ [TraceNext]_tvars => ComparedInv'
  <2> SUFFICES ASSUME ComparedInv, [TraceNext]_tvars
               PROVE  ComparedInv'
    OBVIOUS
  <2>0. ReplayInv /\ (pending # None => mode = "diff")
    BY DEF ComparedInv
  <2>1. CASE Reference
    <3>1. mode' = mode
      BY <2>1 DEF Reference, RunStep, ApplyEvent, CpmExit, BdosCall, PrintByte, NoTrap,
         StopChecks, BudgetSpent, Boundary, BoundaryRaises
    <3>2. pending' # None => mode = "diff"
      BY <2>0, <2>1 DEF Reference
    <3> QED
      BY <2>0, <2>1, <3>1, <3>2, ReplayKept DEF Reference, ComparedInv
  <2>2. CASE RunSegment
    <3>1. ReplayInv' /\ pending' = pending
      BY <2>0, <2>2, SegmentStarted DEF RunSegment, diffVars
    <3>2. ~(mode = "diff")
      BY <2>0, <2>2 DEF RunSegment, StartSegment, ReplayInv
    <3> QED
      BY <2>0, <3>1, <3>2 DEF ComparedInv
  <2>3. CASE StartDiff
    BY <2>0, <2>3 DEF StartDiff, ReplayInv, ComparedInv
  <2>4. CASE ComparePair
    <3>1. mode = "diff" /\ pending' = None
      BY <2>0, <2>4 DEF ComparePair
    <3>2. mode' = mode /\ checkpoints' = checkpoints /\ segment' = segment
      BY <2>4 DEF ComparePair
    <3> QED
      BY <2>0, <3>1, <3>2 DEF ComparedInv, ReplayInv
  <2>5. CASE ReferenceEnds \/ UNCHANGED tvars
    <3>1. UNCHANGED cvars /\ pending' = pending
      BY <2>5 DEF ReferenceEnds, tvars, diffVars
    <3> QED
      BY <2>0, <3>1, StutterKeepsReplay DEF ComparedInv, cvars, runVars
  <2> QED
    BY <2>1, <2>2, <2>3, <2>4, <2>5 DEF TraceNext
<1>2. ComparedInv => (mode = "segment" /\ AtNoTrap => SegmentsReplayRun)
  BY ReplaysShown DEF ReplaysFromNoTrap, ComparedInv
<1>3. TraceInit => ComparedInv
  BY ReplayInit DEF TraceInit, ComparedInv
<1> QED
  BY <1>1, <1>2, <1>3, PTL DEF FairTraces

=============================================================================
