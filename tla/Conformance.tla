----------------------------- MODULE Conformance -----------------------------
(***************************************************************************)
(* conformance.py: a manifest run on the reference CPU.  The run goes      *)
(* through the boundaries of _boundaries (events due, CP/M traps, stop     *)
(* checks, then one step()), either for a trace or writing checkpoints;    *)
(* each checkpoint is a manifest of its own, whose run is one segment.     *)
(*                                                                         *)
(* The guest is deterministic: a call of BDOS is known by the address it   *)
(* returns to, which fixes the function in C and the text at DE.           *)
(***************************************************************************)
EXTENDS Z80Lifecycle, SequencesExt

CONSTANTS
  Initials,      \* the CPU states a manifest may start from
  EventLists,    \* manifest.events: [at, kind, vector], ordered by at
  StopSteps,     \* stop.max_steps
  OnHalt, AtPc,  \* stop.on_halt, stop.at_pc
  CpmMinimal,    \* the host profile has the CP/M traps
  WarmBoot, BdosEntry,   \* the trapped addresses, 0x0000 and 0x0005
  Bdos,          \* return address -> [function, text]
  Dollar,        \* the byte that ends a text
  Every,         \* the checkpoint distance
  OutputBound    \* bound: bytes of output told apart

EventKinds == {"nmi", "int", "int_clear", "reset", "reset_clear"}

(* What Manifest.initial is checked to be: a CPUState in range *)
InitialStates ==
  [pc : Addr, sp : Addr, i : Byte, iff1 : BOOLEAN, iff2 : BOOLEAN, im : 0 .. 2,
   halted : BOOLEAN, eiDelay : 0 .. 1, resetPending : BOOLEAN,
   intVector : Vectors \cup {None}, nmiPending : BOOLEAN]

ASSUME ManifestAssumption ==
  /\ \A list \in EventLists :
       /\ list \in Seq([at : Nat, kind : EventKinds, vector : Vectors])
       /\ \A k \in 1 .. Len(list) - 1 : list[k].at <= list[k + 1].at
  /\ StopSteps \in Nat \ {0} /\ Every \in Nat \ {0} /\ OutputBound \in Nat
  /\ OnHalt \in BOOLEAN /\ CpmMinimal \in BOOLEAN
  /\ AtPc \subseteq Addr /\ {WarmBoot, BdosEntry} \subseteq Addr
  /\ Initials \subseteq InitialStates
  /\ \A a \in Addr : /\ Bdos[a].function \in Nat
                     /\ Bdos[a].text \in Addr

VARIABLES
  mode,         \* "trace", "checkpoint" or "segment"; "diff" in TraceComparison
  stage,        \* where _boundaries is
  budget,       \* the max_steps of the manifest being run
  steps,
  events,       \* those still to come
  cursor,       \* address, while BDOS function 9 prints
  output,       \* bytes printed, up to OutputBound
  reason,       \* why the run stopped
  checkpoints,  \* the manifests written
  segment,      \* the checkpoint being run
  trace,        \* history: the states the full run stepped from
  segTrace,     \* history: the states a segment or a diff stepped from
  final         \* history: the state a segment ended in

runVars == <<mode, stage, budget, steps, events, cursor, output, reason,
             checkpoints, segment, trace, segTrace, final>>
cvars == <<vars, runVars>>

(* Mutant of Machine: the EI delay not among the fields *)
MachineWithoutDelay ==
  [pc |-> pc, sp |-> sp, i |-> i, iff1 |-> iff1, iff2 |-> iff2,
   im |-> im, halted |-> halted, eiDelay |-> 0,
   resetPending |-> resetPending, intVector |-> intVector,
   nmiPending |-> nmiPending, ram |-> ram]

(* All fields of CPUState that are modelled, and the memory *)
Machine == [pc |-> pc, sp |-> sp, i |-> i, iff1 |-> iff1, iff2 |-> iff2,
            im |-> im, halted |-> halted, eiDelay |-> eiDelay,
            resetPending |-> resetPending, intVector |-> intVector,
            nmiPending |-> nmiPending, ram |-> ram]

(* ConformanceHost(manifest): the memory, then restore_state(initial) *)
Load(m) ==
  /\ pc' = m.pc /\ sp' = m.sp /\ i' = m.i
  /\ iff1' = m.iff1 /\ iff2' = m.iff2 /\ im' = m.im
  /\ halted' = m.halted /\ eiDelay' = m.eiDelay
  /\ resetPending' = m.resetPending
  /\ intVector' = m.intVector /\ nmiPending' = m.nmiPending
  /\ ram' = m.ram

-----------------------------------------------------------------------------
(* One turn of the loop of _boundaries *)

(* Mutant of EventDue: no event while the CPU is halted *)
EventDueAwake == ~halted /\ events # <<>> /\ Head(events).at = steps

EventDue == events # <<>> /\ Head(events).at = steps

End(why) == stage' = "ended" /\ reason' = why /\ final' = Machine

InLoop == stage = "top" /\ steps < budget

(* _apply_event *)
ApplyEvent ==
  /\ InLoop
  /\ EventDue
  /\ LET event1 == Head(events) IN
       \/ event1.kind = "nmi" /\ RequestNonMaskableInterrupt
       \/ /\ event1.kind = "int"
          /\ RequestMaskableInterrupt /\ intVector' = event1.vector
       \/ event1.kind = "int_clear" /\ ClearMaskableInterrupt
       \/ event1.kind = "reset" /\ RequestReset
       \/ event1.kind = "reset_clear" /\ ClearReset
  /\ events' = Tail(events)
  /\ UNCHANGED <<mode, stage, budget, steps, cursor, output, reason,
                 checkpoints, segment, trace, segTrace, final>>

TrapPending == CpmMinimal /\ pc \in {WarmBoot, BdosEntry}

Function == Bdos[WordAt(ram, sp)].function

(* handle_cpm_trap, but for the text of function 9 *)
CpmExit ==
  /\ InLoop /\ ~EventDue /\ TrapPending
  /\ \/ pc = WarmBoot
     \/ pc = BdosEntry /\ pc # WarmBoot /\ Function = 0
  /\ End("cpm_exit")
  /\ UNCHANGED <<vars, mode, budget, steps, events, cursor, output,
                 checkpoints, segment, trace, segTrace>>

Printed(n) == IF n < OutputBound THEN n + 1 ELSE n

ReturnFromBdos ==
  /\ PopInto(pc')
  /\ stage' = "checks"
  /\ Quiet("host")
  /\ UNCHANGED <<i, ctl, lines, saved, afterEI>>

BdosCall ==
  /\ InLoop /\ ~EventDue /\ TrapPending /\ pc # WarmBoot
  /\ \/ /\ Function = 2
        /\ output' = Printed(output)
        /\ ReturnFromBdos
        /\ UNCHANGED <<cursor, reason, final>>
     \/ /\ Function = 9
        /\ cursor' = Bdos[WordAt(ram, sp)].text
        /\ stage' = "print"
        /\ UNCHANGED <<vars, output, reason, final>>
     \/ /\ Function \notin {0, 2, 9}
        /\ End("unsupported")
        /\ UNCHANGED <<vars, cursor, output>>
  /\ UNCHANGED <<mode, budget, steps, events, checkpoints, segment, trace,
                 segTrace>>

(* Mutant of PrintByte: DE is not advanced *)
PrintByteAgain ==
  /\ stage = "print"
  /\ \/ /\ ram[cursor] = Dollar
        /\ ReturnFromBdos
        /\ UNCHANGED output
     \/ /\ ram[cursor] # Dollar
        /\ output' = Printed(output)
        /\ UNCHANGED <<vars, stage>>
  /\ UNCHANGED <<mode, budget, steps, events, cursor, reason, checkpoints,
                 segment, trace, segTrace, final>>

(* One turn of the loop of function 9 *)
PrintByte ==
  /\ stage = "print"
  /\ \/ /\ ram[cursor] = Dollar
        /\ ReturnFromBdos
        /\ UNCHANGED <<cursor, output>>
     \/ /\ ram[cursor] # Dollar
        /\ output' = Printed(output)
        /\ cursor' = Wrap(cursor + 1)
        /\ UNCHANGED <<vars, stage>>
  /\ UNCHANGED <<mode, budget, steps, events, reason, checkpoints, segment,
                 trace, segTrace, final>>

NoTrap ==
  /\ InLoop /\ ~EventDue /\ ~TrapPending
  /\ stage' = "checks"
  /\ UNCHANGED <<vars, mode, budget, steps, events, cursor, output, reason,
                 checkpoints, segment, trace, segTrace, final>>

NothingCanWake ==
  /\ halted
  /\ events = <<>>
  /\ ~resetPending /\ ~nmiPending /\ intVector = None

StopChecks ==
  /\ stage = "checks"
  /\ \/ pc \in AtPc /\ End("at_pc")
     \/ pc \notin AtPc /\ OnHalt /\ NothingCanWake /\ End("halted")
     \/ /\ pc \notin AtPc /\ ~(OnHalt /\ NothingCanWake)
        /\ stage' = "step"
        /\ UNCHANGED <<reason, final>>
  /\ UNCHANGED <<vars, mode, budget, steps, events, cursor, output,
                 checkpoints, segment, trace, segTrace>>

BudgetSpent ==
  /\ stage = "top" /\ steps = budget
  /\ End("max_steps")
  /\ UNCHANGED <<vars, mode, budget, steps, events, cursor, output,
                 checkpoints, segment, trace, segTrace>>

-----------------------------------------------------------------------------
(* The caller's boundary: trace_manifest's session.step(), or the          *)
(* checkpoint due and the host.step() of write_checkpoints                 *)

CheckpointDue == mode = "checkpoint" /\ steps % Every = 0

Boundary ==
  /\ stage = "step"
  /\ Step
  /\ event'.raised = Idle
  /\ event'.kind # "refused"
  /\ checkpoints' = IF CheckpointDue THEN Append(checkpoints, Machine)
                                     ELSE checkpoints
  /\ IF mode \in {"segment", "diff"}
       THEN segTrace' = Append(segTrace, Machine) /\ UNCHANGED trace
       ELSE trace' = Append(trace, Machine) /\ UNCHANGED segTrace
  /\ steps' = steps + 1
  /\ stage' = "top"
  /\ UNCHANGED <<mode, budget, events, cursor, output, reason, segment, final>>

(* NotImplementedError leaves the generator, the checkpoint written *)
BoundaryRaises ==
  /\ stage = "step"
  /\ RefuseMaskableInterrupt
  /\ checkpoints' = IF CheckpointDue THEN Append(checkpoints, Machine)
                                     ELSE checkpoints
  /\ End("raised")
  /\ UNCHANGED <<mode, budget, steps, events, cursor, output, segment, trace,
                 segTrace>>

(* The checkpoints are run one after the other; in the code, in parallel   *)
StartSegment ==
  /\ stage = "ended"
  /\ mode # "trace"
  /\ segment < Len(checkpoints)
  /\ Load(checkpoints[segment + 1])
  /\ Quiet("init")
  /\ afterEI' = FALSE
  /\ mode' = "segment"
  /\ segment' = segment + 1
  /\ stage' = "top" /\ budget' = Every /\ steps' = 0
  /\ cursor' = 0 /\ output' = 0 /\ reason' = None
  /\ segTrace' = <<>>
  /\ UNCHANGED <<saved, events, checkpoints, trace, final>>

-----------------------------------------------------------------------------

ManifestInit ==
  /\ \E m \in Initials :
       /\ pc = m.pc /\ sp = m.sp /\ i = m.i
       /\ iff1 = m.iff1 /\ iff2 = m.iff2 /\ im = m.im
       /\ halted = m.halted /\ eiDelay = m.eiDelay
       /\ resetPending = m.resetPending
       /\ intVector = m.intVector /\ nmiPending = m.nmiPending
  /\ ram \in InitRam
  /\ saved = None
  /\ event = [kind |-> "init", raised |-> Idle]
  /\ afterEI = FALSE
  /\ events \in EventLists
  /\ mode \in IF events = <<>> THEN {"trace", "checkpoint"} ELSE {"trace"}
  /\ stage = "top" /\ budget = StopSteps /\ steps = 0
  /\ cursor = 0 /\ output = 0 /\ reason = None
  /\ checkpoints = <<>> /\ segment = 0
  /\ trace = <<>> /\ segTrace = <<>>
  /\ final = None

RunStep ==
  \/ ApplyEvent
  \/ CpmExit
  \/ BdosCall
  \/ PrintByte
  \/ NoTrap
  \/ StopChecks
  \/ BudgetSpent
  \/ Boundary
  \/ BoundaryRaises

ManifestNext == RunStep \/ StartSegment

ManifestSpec == ManifestInit /\ [][ManifestNext]_cvars

(* A run is one Python loop *)
FairManifest == ManifestSpec /\ WF_cvars(ManifestNext)

-----------------------------------------------------------------------------
(* Properties *)

(* The states the full run steps from while it is in this segment *)
SegmentOfRun ==
  LET first == (segment - 1) * Every + 1
      last  == segment * Every
  IN SubSeq(trace, first, IF last < Len(trace) THEN last ELSE Len(trace))

(* Running the checkpoints proves what the single run proves: each segment *)
(* steps from the states the full run steps from, in the same order; only  *)
(* the last may go on past the end of the run (conformance.py,             *)
(* write_checkpoints).                                                     *)
SegmentsReplayRun ==
  mode = "segment" /\ stage = "ended" => IsPrefix(SegmentOfRun, segTrace)

(* No event is passed by: two events due at one step, an event due while   *)
(* the CPU is halted and an event after an early stop included (conform-   *)
(* ance.py, _boundaries).  One passed by would block every later event and *)
(* the on_halt stop.                                                       *)
NoEventMissed == events # <<>> => Head(events).at >= steps

(* Every run ends: max_steps is mandatory so every run is finite           *)
(* (conformance.py, StopRule).                                             *)
RunEnds == <>[](stage = "ended")

(* PC at 0x0000 ends the run: with the cpm-minimal profile no boundary     *)
(* executes there (conformance.py, ConformanceHost).                       *)
WarmBootEnds ==
  [][stage = "step" /\ CpmMinimal => pc # WarmBoot]_cvars

(* Each segment starts from the state the previous one ended in            *)
(* (conformance.py, write_checkpoints).                                    *)
SegmentsFollowOn ==
  [][StartSegment /\ mode = "segment" => Machine' = final]_cvars

=============================================================================
