--------------------------- MODULE DebuggerProofs ---------------------------
(***************************************************************************)
(* Theorems about DebugSession and CommandDebugger, for every CPU, program,*)
(* board, cost, limit and set of stops: what a record says, what a run may *)
(* not execute, how its books balance, and that over comes back to its     *)
(* caller.  Those about a session are about a decision that is taken on a  *)
(* captured state and used some phases later, so each invariant says what  *)
(* holds in every phase in between.                                        *)
(***************************************************************************)
EXTENDS CommandDebugger, Z80LifecycleProofs, SequenceTheorems, Remainders

Counters == [steps : Nat, instructions : Nat, tStates : Nat]

RunType ==
  [max : Nat, limit : TLimits \cup {None}, stopOnHalt : BOOLEAN,
   steps : Nat, instructions : Nat, tStates : Nat, start : Counters]

SessionTypes ==
  /\ before \in [kind : BoundaryKinds, undisturbed : BOOLEAN]
  /\ work \in BoundaryKinds
  /\ caller \in {"user", "run"}
  /\ totals \in Counters
  /\ run \in RunType

LEMMA NextBoundaryIsKind == NextBoundary \in BoundaryKinds
BY DEF NextBoundary, BoundaryKinds

(* What Record adds to the totals and to a run's counters *)
LEMMA CostIsPositive == \A kind \in BoundaryKinds : Cost[kind] \in Nat /\ Cost[kind] > 0
BY SessionAssumption

LEMMA InstructionsIsBit == \A kind : Instructions(kind) \in 0 .. 1
BY DEF Instructions

LEMMA CountedTotals ==
  ASSUME SessionTypes
  PROVE  /\ Counted(totals) \in Counters
         /\ Counted(totals).steps = totals.steps + 1
         /\ Counted(totals).instructions = totals.instructions + Instructions(before.kind)
         /\ Counted(totals).tStates = totals.tStates + Cost[work]
<1>1. PICK n \in Nat, t \in Nat : n = Instructions(before.kind) /\ t = Cost[work]
  BY CostIsPositive, InstructionsIsBit DEF SessionTypes
<1>2. Counted(totals) = [totals EXCEPT !.steps = @ + 1, !.instructions = @ + n,
                                 !.tStates = @ + t]
  BY <1>1 DEF Counted
<1>3. totals \in Counters
  BY DEF SessionTypes
<1>4. totals.steps + 1 \in Nat /\ totals.instructions + n \in Nat /\ totals.tStates + t \in Nat
  BY <1>3 DEF Counters
<1>5. Counted(totals) \in Counters
  BY <1>2, <1>3, <1>4, Zenon DEF Counters
<1> QED
  BY <1>1, <1>2, <1>3, <1>5 DEF Counters

LEMMA CountedRun ==
  ASSUME SessionTypes
  PROVE  /\ Counted(run) \in RunType
         /\ Counted(run).max = run.max /\ Counted(run).start = run.start
         /\ Counted(run).steps = run.steps + 1
         /\ Counted(run).instructions = run.instructions + Instructions(before.kind)
         /\ Counted(run).tStates = run.tStates + Cost[work]
<1>1. PICK n \in Nat, t \in Nat : n = Instructions(before.kind) /\ t = Cost[work]
  BY CostIsPositive, InstructionsIsBit DEF SessionTypes
<1>2. Counted(run) = [run EXCEPT !.steps = @ + 1, !.instructions = @ + n,
                                 !.tStates = @ + t]
  BY <1>1 DEF Counted
<1>3. run \in RunType
  BY DEF SessionTypes
<1>4. run.steps + 1 \in Nat /\ run.instructions + n \in Nat /\ run.tStates + t \in Nat
  BY <1>3 DEF RunType
<1>5. Counted(run) \in RunType
  BY <1>2, <1>3, <1>4, Zenon DEF RunType
<1> QED
  BY <1>1, <1>2, <1>3, <1>5 DEF RunType

-----------------------------------------------------------------------------
(* Type correctness *)

LEMMA TypesOfSessionInit == SessionInit => SessionTypes
BY DEF SessionInit, SessionTypes, NoRun, RunType, Counters, BoundaryKinds

LEMMA CommandTypes ==
  ASSUME SessionTypes, UserAction
  PROVE  SessionTypes'
<1> USE DEF SessionTypes
<1>1. CASE SetStops \/ ClearHistory \/ WrapBus \/ Close \/ HostCall
  BY <1>1 DEF SetStops, ClearHistory, WrapBus, Close, HostCall, svars
<1>2. CASE StepCommand
  BY <1>2, NextBoundaryIsKind DEF StepCommand, Begin
<1>3. CASE RunCommand
  <2>1. PICK max \in StepLimits, limit \in TLimits \cup {None}, stop \in BOOLEAN :
          run' = [NoRun EXCEPT !.max = max, !.limit = limit,
                               !.stopOnHalt = stop, !.start = totals]
    BY <1>3 DEF RunCommand
  <2>2. max \in Nat
    BY SessionAssumption
  <2>3. run' \in RunType
    BY <2>1, <2>2 DEF NoRun, RunType
  <2> QED
    BY <1>3, <2>3 DEF RunCommand
<1> QED
  BY <1>1, <1>2, <1>3 DEF UserAction

LEMMA WorkTypes ==
  ASSUME SessionTypes, SessionWork
  PROVE  SessionTypes'
<1> USE DEF SessionTypes
<1>1. CASE BoardDevices
  <2>1. CASE UNCHANGED before
    BY <1>1, <2>1 DEF BoardDevices
  <2>2. CASE before' = [before EXCEPT !.undisturbed = (lines' = lines)]
    <3>1. before' \in [kind : BoundaryKinds, undisturbed : BOOLEAN]
      BY <2>2
    <3> QED
      BY <1>1, <3>1 DEF BoardDevices
  <2> QED
    BY <1>1, <2>1, <2>2 DEF BoardDevices
<1>2. CASE TargetStep
  <2>1. work' \in BoundaryKinds
    BY <1>2, StepPredicted DEF TargetStep, BoundaryKinds
  <2> QED
    BY <1>2, <2>1 DEF TargetStep
<1>3. CASE TargetRaises
  BY <1>3 DEF TargetRaises
<1>4. CASE Record
  BY <1>4, CountedTotals, CountedRun DEF Record
<1>5. CASE RunStops
  BY <1>5 DEF RunStops
<1>6. CASE RunSteps
  BY <1>6, NextBoundaryIsKind DEF RunSteps, Begin
<1> QED
  BY <1>1, <1>2, <1>3, <1>4, <1>5, <1>6 DEF SessionWork

LEMMA SessionTypesKept ==
  ASSUME SessionTypes, [SessionNext]_dvars
  PROVE  SessionTypes'
<1>1. CASE UNCHANGED dvars
  BY <1>1 DEF SessionTypes, dvars, svars
<1> QED
  BY <1>1, CommandTypes, WorkTypes DEF SessionNext

-----------------------------------------------------------------------------
(* The prediction of a step *)

(* Neither property is inductive alone: the kind is fixed at the capture   *)
(* and used after the devices, the CPU step and the devices again.         *)
Predicted ==
  /\ phase = "devices" \/ (phase = "cpu" /\ before.undisturbed) =>
       /\ before.kind = NextBoundary
       /\ caller = "run" => ~AtBreakpoint
  /\ phase \in {"devices again", "record"} /\ before.undisturbed =>
       before.kind = work

PredictedInv == SessionTypes /\ Predicted

(* Devices that leave the request lines alone leave the next boundary alone *)
LEMMA DevicesKeepBoundary ==
  ASSUME DevicesWork, lines' = lines
  PROVE  NextBoundary' = NextBoundary /\ pc' = pc
BY DEF DevicesWork, RequestMaskableInterrupt, ClearMaskableInterrupt,
       RequestNonMaskableInterrupt, Call, vars, regs, ctl, lines, NextBoundary

LEMMA PredictedKept ==
  ASSUME PredictedInv, [SessionNext]_dvars
  PROVE  Predicted'
<1> USE DEF PredictedInv, Predicted
<1>1. CASE UNCHANGED dvars
  BY <1>1 DEF dvars, svars, vars, regs, ctl, lines, NextBoundary, AtBreakpoint
<1>2. CASE SetStops \/ ClearHistory \/ WrapBus \/ Close \/ HostCall
  <2>1. phase' = "idle"
    BY <1>2 DEF SetStops, ClearHistory, WrapBus, Close, HostCall, Idling, svars
  <2> QED
    BY <2>1
<1>3. CASE StepCommand
  <2>1. /\ phase' \in {"devices", "cpu"} /\ caller' = "user"
        /\ before'.kind = NextBoundary /\ NextBoundary' = NextBoundary
    BY <1>3 DEF StepCommand, Begin, cpuAndHost, vars, ctl, lines, NextBoundary
  <2> QED
    BY <2>1
<1>4. CASE RunCommand
  BY <1>4 DEF RunCommand
<1>5. CASE BoardDevices
  <2>1. CASE phase = "devices"
    <3>1. /\ phase' = "cpu" /\ UNCHANGED <<caller, breakpoints>>
          /\ before' = [before EXCEPT !.undisturbed = (lines' = lines)]
      BY <1>5, <2>1 DEF BoardDevices
    <3>2. before'.kind = before.kind /\ before'.undisturbed = (lines' = lines)
      BY <3>1 DEF SessionTypes
    <3>3. CASE lines' = lines
      BY <1>5, <2>1, <3>1, <3>2, <3>3, DevicesKeepBoundary
        DEF BoardDevices, AtBreakpoint
    <3>4. CASE lines' # lines
      BY <3>1, <3>2, <3>4
    <3> QED
      BY <3>3, <3>4
  <2>2. CASE phase = "devices again"
    BY <1>5, <2>2 DEF BoardDevices
  <2> QED
    BY <1>5, <2>1, <2>2 DEF BoardDevices
<1>6. CASE TargetStep
  <2>1. /\ phase = "cpu" /\ phase' \in {"devices again", "record"}
        /\ UNCHANGED before /\ work' = event'.kind
    BY <1>6 DEF TargetStep
  <2>2. event'.kind = NextBoundary
    BY <1>6, StepPredicted DEF TargetStep
  <2> QED
    BY <2>1, <2>2
<1>7. CASE TargetRaises
  BY <1>7 DEF TargetRaises
<1>8. CASE Record
  <2>1. phase' \in {"idle", "top"}
    BY <1>8 DEF Record, Stop
  <2> QED
    BY <2>1
<1>9. CASE RunStops
  BY <1>9 DEF RunStops, Stop
<1>10. CASE RunSteps
  <2>1. /\ phase' \in {"devices", "cpu"} /\ before'.kind = NextBoundary
        /\ NextBoundary' = NextBoundary /\ ~AtBreakpoint /\ ~AtBreakpoint'
    BY <1>10 DEF RunSteps, Begin, cpuAndHost, vars, regs, ctl, lines,
                 NextBoundary, AtBreakpoint
  <2> QED
    BY <2>1
<1> QED
  BY <1>1, <1>2, <1>3, <1>4, <1>5, <1>6, <1>7, <1>8, <1>9, <1>10
    DEF SessionNext, SessionWork, UserAction

LEMMA PredictedAlways == SessionSpec => []PredictedInv
<1>1. SessionInit => PredictedInv
  BY TypesOfSessionInit DEF SessionInit, PredictedInv, Predicted
<1>2. PredictedInv /\ [SessionNext]_dvars => PredictedInv'
  BY SessionTypesKept, PredictedKept DEF PredictedInv
<1> QED
  BY <1>1, <1>2, PTL DEF SessionSpec

(* No run, on any board with any stops, executes the instruction at a      *)
(* breakpoint, as long as devices leave the requests alone between the     *)
(* test and the CPU's step (debug.py, run).                                *)
THEOREM RunsStopBeforeBreakpoints == SessionSpec => NoInstructionPastBreakpoint
<1> DEFINE Past == /\ phase = "cpu" /\ caller = "run" /\ before.undisturbed
                   /\ event'.kind = "instruction"
                   => pc \notin breakpoints
<1>1. PredictedInv /\ [SessionNext]_dvars => [Past]_dvars
  <2> SUFFICES ASSUME PredictedInv, SessionNext,
                      phase = "cpu", caller = "run", before.undisturbed,
                      event'.kind = "instruction"
               PROVE  pc \notin breakpoints
    OBVIOUS
  <2>1. before.kind = NextBoundary /\ ~AtBreakpoint
    BY DEF PredictedInv, Predicted
  <2>2. CASE TargetStep
    <3>1. NextBoundary = "instruction"
      BY <2>2, StepPredicted DEF TargetStep
    <3> QED
      BY <2>1, <3>1 DEF AtBreakpoint
  <2>3. CASE TargetRaises
    <3>1. event'.kind = "refused"
      BY <2>3 DEF TargetRaises, RefuseMaskableInterrupt, Quiet
    <3> QED
      BY <3>1
  <2>4. TargetStep \/ TargetRaises
    BY DEF SessionNext, SessionWork, UserAction, SetStops, ClearHistory, WrapBus,
           Close, HostCall, StepCommand, RunCommand, Idling, BoardDevices,
           Record, RunStops, RunSteps
  <2> QED
    BY <2>2, <2>3, <2>4
<1> QED
  BY <1>1, PredictedAlways, PTL DEF SessionSpec, NoInstructionPastBreakpoint

-----------------------------------------------------------------------------
(* The records *)

TruthfulRecord ==
  {r \in [seq : Nat, before : [kind : BoundaryKinds, undisturbed : BOOLEAN],
          work : BoundaryKinds] :
     r.before.undisturbed => r.before.kind = r.work}

TruthfulInv == PredictedInv /\ history \in Seq(TruthfulRecord)

(* The ring drops records and changes none, whatever its limit *)
LEMMA RetainedInRange ==
  ASSUME NEW S, NEW h \in Seq(S)
  PROVE  Retained(h) \in Seq(S)
<1>1. HistoryLimit \in Nat /\ Len(h) \in Nat
  BY SessionAssumption
<1>2. CASE Len(h) > HistoryLimit
  <2>1. \A k \in Len(h) - HistoryLimit + 1 .. Len(h) : h[k] \in S
    BY <1>1, <1>2
  <2>2. SubSeq(h, Len(h) - HistoryLimit + 1, Len(h)) \in Seq(S)
    BY <1>1, <2>1, SubSeqProperties
  <2> QED
    BY <1>2, <2>2 DEF Retained
<1> QED
  BY <1>1, <1>2 DEF Retained

LEMMA HistoryStaysTruthful ==
  ASSUME TruthfulInv, [SessionNext]_dvars
  PROVE  history' \in Seq(TruthfulRecord)
<1> USE DEF TruthfulInv
<1>1. CASE Record
  <2> DEFINE r == [seq |-> totals.steps, before |-> before, work |-> work]
  <2>1. totals.steps \in Nat /\ before \in [kind : BoundaryKinds, undisturbed : BOOLEAN]
        /\ work \in BoundaryKinds
    BY DEF PredictedInv, SessionTypes, Counters
  <2>2. before.undisturbed => before.kind = work
    BY <1>1 DEF PredictedInv, Predicted, Record
  <2>3. r \in TruthfulRecord
    BY <2>1, <2>2 DEF TruthfulRecord
  <2>4. Append(history, r) \in Seq(TruthfulRecord)
    BY <2>3
  <2>5. history' = Retained(Append(history, r))
    BY <1>1 DEF Record
  <2> QED
    BY <2>4, <2>5, RetainedInRange
<1>2. CASE ClearHistory
  BY <1>2 DEF ClearHistory
<1>3. CASE ~Record /\ ~ClearHistory
  <2>1. history' = history
    BY <1>3 DEF SessionNext, SessionWork, UserAction, SetStops, WrapBus, Close,
           HostCall, StepCommand, RunCommand, BoardDevices, TargetStep,
           TargetRaises, RunStops, RunSteps, dvars, svars
  <2> QED
    BY <2>1
<1> QED
  BY <1>1, <1>2, <1>3

(* Every record a session retains tells what the CPU did, for any board    *)
(* whose devices leave the requests alone between the capture and the      *)
(* CPU's step, and whatever history_limit is (debug.py, BoundaryKind).     *)
THEOREM RecordsAreTruthful == SessionSpec => []KindIsWorkDone
<1>1. SessionInit => TruthfulInv
  <2>1. SessionInit => PredictedInv
    BY TypesOfSessionInit DEF SessionInit, PredictedInv, Predicted
  <2>2. SessionInit => history = <<>>
    BY DEF SessionInit
  <2> QED
    BY <2>1, <2>2 DEF TruthfulInv
<1>2. TruthfulInv /\ [SessionNext]_dvars => TruthfulInv'
  BY SessionTypesKept, PredictedKept, HistoryStaysTruthful DEF TruthfulInv, PredictedInv
<1>3. TruthfulInv => KindIsWorkDone
  BY DEF TruthfulInv, TruthfulRecord, KindIsWorkDone
<1> QED
  BY <1>1, <1>2, <1>3, PTL DEF SessionSpec

-----------------------------------------------------------------------------
(* The books of a run *)

InRun ==
  \/ phase = "top"
  \/ caller = "run" /\ phase \in {"devices", "cpu", "devices again", "record"}

(* RunAccountsForItsSteps speaks of the top of the loop; inside its body   *)
(* the sums hold too and one step is still to be had.                      *)
Balanced ==
  /\ run.steps <= run.max
  /\ run.instructions <= run.steps
  /\ InRun =>
       /\ totals.steps = run.start.steps + run.steps
       /\ totals.instructions = run.start.instructions + run.instructions
       /\ totals.tStates = run.start.tStates + run.tStates
       /\ ~OverTime(run)
       /\ phase # "top" => run.steps < run.max

BalancedInv == SessionTypes /\ Balanced

LEMMA LimitsArePositive == \A limit \in TLimits : ~(0 >= limit)
<1>1. \A limit \in TLimits : limit \in Nat \ {0}
  BY SessionAssumption
<1> QED
  BY <1>1

LEMMA BalancedKept ==
  ASSUME BalancedInv, [SessionNext]_dvars
  PROVE  Balanced'
<1>1. CASE UNCHANGED dvars
  BY <1>1 DEF dvars, svars, BalancedInv, Balanced, InRun, OverTime
<1>2. CASE SetStops \/ ClearHistory \/ WrapBus \/ Close \/ HostCall
  BY <1>2 DEF SetStops, ClearHistory, WrapBus, Close, HostCall, Idling, svars,
     BalancedInv, Balanced, InRun, OverTime
<1>3. CASE StepCommand
  BY <1>3 DEF StepCommand, Begin, Idling, BalancedInv, Balanced, InRun, OverTime
<1>4. CASE RunCommand
  <2>1. PICK max \in StepLimits, limit \in TLimits \cup {None}, stop \in BOOLEAN :
          run' = [NoRun EXCEPT !.max = max, !.limit = limit,
                               !.stopOnHalt = stop, !.start = totals]
    BY <1>4 DEF RunCommand
  <2>2. /\ run'.max = max /\ run'.limit = limit /\ run'.start = totals
        /\ run'.steps = 0 /\ run'.instructions = 0 /\ run'.tStates = 0
    BY <2>1 DEF NoRun
  <2>3. max \in Nat
    BY SessionAssumption
  <2>6. limit # None => ~(0 >= limit)
    BY LimitsArePositive
  <2>4. totals' = totals /\ totals \in Counters
    BY <1>4 DEF RunCommand, SessionTypes, BalancedInv
  <2>5. ~OverTime(run)'
    BY <2>2, <2>6 DEF OverTime
  <2>7. run'.steps <= run'.max /\ run'.instructions <= run'.steps
    BY <2>2, <2>3
  <2>8. /\ totals'.steps = run'.start.steps + run'.steps
        /\ totals'.instructions = run'.start.instructions + run'.instructions
        /\ totals'.tStates = run'.start.tStates + run'.tStates
    BY <2>2, <2>4 DEF Counters
  <2>9. phase' = "top"
    BY <1>4 DEF RunCommand
  <2> QED
    BY <2>5, <2>7, <2>8, <2>9 DEF Balanced, InRun
<1>5. CASE BoardDevices \/ TargetStep \/ TargetRaises
  BY <1>5 DEF BoardDevices, TargetStep, TargetRaises, BalancedInv, Balanced, InRun, OverTime
<1>6. CASE Record
  <2>1. CASE caller = "user"
    BY <1>6, <2>1 DEF Record, BalancedInv, Balanced, InRun, OverTime
  <2>2. CASE caller = "run"
    <3>1. totals' = Counted(totals) /\ run' = Counted(run)
      BY <1>6, <2>2 DEF Record
    <3>2. \/ phase' = "idle"
          \/ phase' = "top" /\ ~OverTime(Counted(run))
      BY <1>6, <2>2 DEF Record, Stop
    <3>3. PICK n \in 0 .. 1, t \in Nat : n = Instructions(before.kind) /\ t = Cost[work]
      BY InstructionsIsBit, CostIsPositive DEF SessionTypes, BalancedInv
    <3>4. /\ run'.max = run.max /\ run'.start = run.start /\ run'.steps = run.steps + 1
          /\ run'.instructions = run.instructions + n /\ run'.tStates = run.tStates + t
          /\ totals'.steps = totals.steps + 1
          /\ totals'.instructions = totals.instructions + n
          /\ totals'.tStates = totals.tStates + t
      BY <3>1, <3>3, CountedTotals, CountedRun DEF BalancedInv
    <3>5. /\ totals.steps = run.start.steps + run.steps
          /\ totals.instructions = run.start.instructions + run.instructions
          /\ totals.tStates = run.start.tStates + run.tStates
          /\ run.steps < run.max /\ run.instructions <= run.steps
      BY <1>6, <2>2 DEF Record, BalancedInv, Balanced, InRun
    <3>6. run \in RunType /\ totals \in Counters /\ run.start \in Counters
      BY DEF SessionTypes, RunType, BalancedInv
    <3>7. ~OverTime(run)' \/ phase' = "idle"
      BY <3>1, <3>2 DEF OverTime
    <3>8. run'.steps <= run'.max /\ run'.instructions <= run'.steps
      BY <3>4, <3>5, <3>6 DEF RunType
    <3>9. /\ totals'.steps = run'.start.steps + run'.steps
          /\ totals'.instructions = run'.start.instructions + run'.instructions
          /\ totals'.tStates = run'.start.tStates + run'.tStates
      BY <3>4, <3>5, <3>6 DEF RunType, Counters
    <3>10. InRun' => phase' = "top"
      BY <3>2 DEF InRun
    <3> QED
      BY <3>7, <3>8, <3>9, <3>10 DEF Balanced, InRun
  <2> QED
    BY <2>1, <2>2 DEF SessionTypes, BalancedInv
<1>7. CASE RunStops
  BY <1>7 DEF RunStops, Stop, BalancedInv, Balanced, InRun, OverTime
<1>8. CASE RunSteps
  BY <1>8 DEF RunSteps, Begin, BalancedInv, Balanced, InRun, OverTime
<1> QED
  BY <1>1, <1>2, <1>3, <1>4, <1>5, <1>6, <1>7, <1>8
    DEF SessionNext, SessionWork, UserAction

(* Whatever the budgets, stops, costs and boards, a run's counters are     *)
(* what the session's totals have grown by, and no run takes more steps    *)
(* than it was given or goes on past its T-state limit (debug.py, run).    *)
THEOREM RunBooksBalance == SessionSpec => []RunAccountsForItsSteps
<1>1. SessionInit => BalancedInv
  <2>1. SessionInit => SessionTypes
    BY TypesOfSessionInit
  <2>2. SessionInit => Balanced
    BY DEF SessionInit, Balanced, InRun, NoRun
  <2> QED
    BY <2>1, <2>2 DEF BalancedInv
<1>2. BalancedInv /\ [SessionNext]_dvars => BalancedInv'
  BY SessionTypesKept, BalancedKept DEF BalancedInv
<1>3. BalancedInv => RunAccountsForItsSteps
  BY DEF BalancedInv, Balanced, InRun, RunAccountsForItsSteps
<1> QED
  BY <1>1, <1>2, <1>3, PTL DEF SessionSpec

-----------------------------------------------------------------------------
(* Two sessions on one bus *)

Nesting(bus, this, other) ==
  [bus |-> bus, originals |-> [this |-> this, other |-> other],
   outermostFirst |-> TRUE]

(* BusGivenBack does not say what close() will restore: the originals of   *)
(* the inner session are the CPU's own, those of the outer the inner's.    *)
NestedInv ==
  tracking.outermostFirst =>
    \/ tracking = Nesting(<<>>, None, None)
    \/ tracking = Nesting(<<"this">>, <<>>, None)
    \/ tracking = Nesting(<<"other">>, None, <<>>)
    \/ tracking = Nesting(<<"this", "other">>, <<>>, <<"this">>)
    \/ tracking = Nesting(<<"other", "this">>, <<"other">>, <<>>)

LEMMA AppendToOne ==
  ASSUME NEW S, NEW a \in S, NEW b \in S
  PROVE  Append(<<a>>, b) = <<a, b>>
<1>1. <<a>> \in Seq(S) /\ Len(<<a>>) = 1 /\ <<a>>[1] = a
  OBVIOUS
<1>2. <<a, b>> \in Seq(S) /\ Len(<<a, b>>) = 2 /\ <<a, b>>[1] = a /\ <<a, b>>[2] = b
  OBVIOUS
<1>3. /\ Append(<<a>>, b) \in Seq(S)
      /\ Len(Append(<<a>>, b)) = Len(<<a>>) + 1
      /\ \A k \in 1 .. Len(<<a>>) : Append(<<a>>, b)[k] = <<a>>[k]
      /\ Append(<<a>>, b)[Len(<<a>>) + 1] = b
  BY <1>1, AppendProperties
<1>4. Len(Append(<<a>>, b)) = 2
  BY <1>1, <1>3
<1>5. \A k \in 1 .. 2 : Append(<<a>>, b)[k] = <<a, b>>[k]
  BY <1>1, <1>2, <1>3
<1> QED
  <2> DEFINE one == Append(<<a>>, b)
             two == <<a, b>>
  <2>1. /\ one \in Seq(S) /\ two \in Seq(S) /\ Len(one) = Len(two)
        /\ \A k \in 1 .. Len(one) : one[k] = two[k]
    BY <1>2, <1>3, <1>4, <1>5
  <2> HIDE DEF one, two
  <2>2. one = two
    BY <2>1, SeqEqual
  <2> QED
    BY <2>2 DEF one, two

LEMMA WrapKeepsNesting ==
  ASSUME tracking.outermostFirst, NestedInv, WrapBus
  PROVE  NestedInv'
<1>1. /\ tracking.originals.other = None
      /\ tracking' = Nesting(Append(tracking.bus, "other"),
                             tracking.originals.this, tracking.bus)
  BY DEF WrapBus, Tracks, Nesting
<1>2. CASE tracking = Nesting(<<>>, None, None)
  <2>1. tracking.bus = <<>> /\ tracking.originals.this = None
    BY <1>2 DEF Nesting
  <2>2. Append(<<>>, "other") = <<"other">>
    OBVIOUS
  <2>3. tracking' = Nesting(<<"other">>, None, <<>>)
    BY <1>1, <2>1, <2>2, Zenon
  <2> QED
    BY <2>3 DEF NestedInv
<1>3. CASE tracking = Nesting(<<"this">>, <<>>, None)
  <2>1. tracking.bus = <<"this">> /\ tracking.originals.this = <<>>
    BY <1>3 DEF Nesting
  <2>2. Append(<<"this">>, "other") = <<"this", "other">>
    <3>1. "this" \in {"this", "other"} /\ "other" \in {"this", "other"}
      OBVIOUS
    <3> QED
      BY <3>1, AppendToOne, Zenon
  <2>3. tracking' = Nesting(<<"this", "other">>, <<>>, <<"this">>)
    BY <1>1, <2>1, <2>2, Zenon
  <2> QED
    BY <2>3 DEF NestedInv
<1>4. tracking \notin {Nesting(<<"other">>, None, <<>>),
                       Nesting(<<"this", "other">>, <<>>, <<"this">>),
                       Nesting(<<"other", "this">>, <<"other">>, <<>>)}
  BY <1>1, SessionAssumption DEF SessionAssumption, Nesting
<1> QED
  BY <1>2, <1>3, <1>4 DEF NestedInv

LEMMA CloseKeepsNesting ==
  ASSUME NestedInv, Close
  PROVE  NestedInv'
<1>1. PICK s \in {"this", "other"} :
        /\ tracking.originals[s] # None
        /\ tracking' =
             [bus           |-> tracking.originals[s],
              originals     |-> [tracking.originals EXCEPT ![s] = None],
              outermostFirst |-> tracking.outermostFirst /\ Outermost(s)]
  BY DEF Close, Tracks
<1>2. SUFFICES ASSUME tracking.outermostFirst /\ Outermost(s)
               PROVE  NestedInv'
  BY <1>1 DEF NestedInv
<1>3. CASE tracking = Nesting(<<>>, None, None)
  BY <1>1, <1>3 DEF Nesting
<1>4. CASE tracking = Nesting(<<"this">>, <<>>, None)
  <2>1. s = "this"
    BY <1>1, <1>4 DEF Nesting
  <2>2. tracking' = Nesting(<<>>, None, None)
    BY <1>1, <1>2, <1>4, <2>1 DEF Nesting
  <2> QED
    BY <2>2 DEF NestedInv
<1>5. CASE tracking = Nesting(<<"other">>, None, <<>>)
  <2>1. s = "other"
    BY <1>1, <1>5 DEF Nesting
  <2>2. tracking' = Nesting(<<>>, None, None)
    BY <1>1, <1>2, <1>5, <2>1 DEF Nesting
  <2> QED
    BY <2>2 DEF NestedInv
<1>6. CASE tracking = Nesting(<<"this", "other">>, <<>>, <<"this">>)
  <2>1. s = "other"
    BY <1>2, <1>6 DEF Nesting, Outermost
  <2>2. tracking' = Nesting(<<"this">>, <<>>, None)
    BY <1>1, <1>2, <1>6, <2>1 DEF Nesting
  <2> QED
    BY <2>2 DEF NestedInv
<1>7. CASE tracking = Nesting(<<"other", "this">>, <<"other">>, <<>>)
  <2>1. s = "this"
    BY <1>2, <1>7 DEF Nesting, Outermost
  <2>2. tracking' = Nesting(<<"other">>, None, <<>>)
    BY <1>1, <1>2, <1>7, <2>1 DEF Nesting
  <2> QED
    BY <2>2 DEF NestedInv
<1> QED
  BY <1>2, <1>3, <1>4, <1>5, <1>6, <1>7 DEF NestedInv

(* Nothing but WrapBus and Close touches the bus. *)
LEMMA NestingKept == NestedInv /\ [SessionNext]_dvars => NestedInv'
<1> SUFFICES ASSUME NestedInv, [SessionNext]_dvars
             PROVE  NestedInv'
  OBVIOUS
<1>1. CASE WrapBus
  BY <1>1, WrapKeepsNesting DEF WrapBus, NestedInv
<1>2. CASE Close
  BY <1>2, CloseKeepsNesting
<1>3. CASE UNCHANGED tracking
  BY <1>3 DEF NestedInv
<1>4. SetStops \/ ClearHistory \/ HostCall \/ StepCommand \/ RunCommand
        => UNCHANGED tracking
  BY DEF SetStops, ClearHistory, HostCall, StepCommand, RunCommand, svars
<1>5. SessionWork => UNCHANGED tracking
  BY DEF SessionWork, BoardDevices, TargetStep, TargetRaises, Record, RunStops, RunSteps
<1>6. UNCHANGED dvars => UNCHANGED tracking
  BY DEF dvars, svars
<1> QED
  BY <1>1, <1>2, <1>3, <1>4, <1>5, <1>6 DEF SessionNext, UserAction

LEMMA NestedAtFirst == SessionInit => NestedInv
<1> SUFFICES ASSUME SessionInit
             PROVE  NestedInv
  OBVIOUS
<1>1. \/ tracking = Nesting(<<"this">>, <<>>, None)
      \/ tracking = Nesting(<<"other", "this">>, <<"other">>, <<>>)
  BY DEF SessionInit, Nesting
<1> QED
  BY <1>1 DEF NestedInv

LEMMA NestedGivesBack == NestedInv => BusGivenBack
<1> SUFFICES ASSUME NestedInv, tracking.outermostFirst
             PROVE  BusGivenBack
  BY DEF BusGivenBack
<1> DEFINE heard(s) == {n \in DOMAIN tracking.bus : tracking.bus[n] = s}
<1> HIDE DEF heard
<1>1. SUFFICES \A s \in {"this", "other"} :
                 IF Tracks(s) THEN \E n \in DOMAIN tracking.bus : heard(s) = {n}
                              ELSE heard(s) = {}
  BY DEF BusGivenBack, heard
<1>2. CASE tracking = Nesting(<<>>, None, None)
  BY <1>2 DEF Nesting, Tracks, heard
<1>3. CASE tracking = Nesting(<<"this">>, <<>>, None)
  <2>1. heard("this") = {1} /\ heard("other") = {} /\ 1 \in DOMAIN tracking.bus
    BY <1>3 DEF Nesting, heard
  <2>2. Tracks("this") /\ ~Tracks("other")
    BY <1>3, SessionAssumption DEF SessionAssumption, Nesting, Tracks
  <2> QED
    BY <2>1, <2>2
<1>4. CASE tracking = Nesting(<<"other">>, None, <<>>)
  <2>1. heard("other") = {1} /\ heard("this") = {} /\ 1 \in DOMAIN tracking.bus
    BY <1>4 DEF Nesting, heard
  <2>2. Tracks("other") /\ ~Tracks("this")
    BY <1>4, SessionAssumption DEF SessionAssumption, Nesting, Tracks
  <2> QED
    BY <2>1, <2>2
<1>5. CASE tracking = Nesting(<<"this", "other">>, <<>>, <<"this">>)
  <2>1. heard("this") = {1} /\ heard("other") = {2} /\ {1, 2} = DOMAIN tracking.bus
    BY <1>5 DEF Nesting, heard
  <2>2. Tracks("this") /\ Tracks("other")
    BY <1>5, SessionAssumption DEF SessionAssumption, Nesting, Tracks
  <2> QED
    BY <2>1, <2>2
<1>6. CASE tracking = Nesting(<<"other", "this">>, <<"other">>, <<>>)
  <2>1. heard("this") = {2} /\ heard("other") = {1} /\ {1, 2} = DOMAIN tracking.bus
    BY <1>6 DEF Nesting, heard
  <2>2. Tracks("this") /\ Tracks("other")
    BY <1>6, SessionAssumption DEF SessionAssumption, Nesting, Tracks
  <2> QED
    BY <2>1, <2>2
<1> QED
  BY <1>2, <1>3, <1>4, <1>5, <1>6 DEF NestedInv

(* However many times other sessions wrap the bus and close, as long as    *)
(* the outermost goes first every tracking session hears each access once  *)
(* and the CPU gets its own callables back (debug.py, _wrap_bus, close).   *)
THEOREM SessionsGiveTheBusBack == SessionSpec => []BusGivenBack
<1> QED
  BY NestedAtFirst, NestingKept, NestedGivesBack, PTL DEF SessionSpec

(* A run that goes on has looked at every access of its last step: under   *)
(* the nesting above, what the session's log holds is what the CPU did.    *)
LEMMA RecordLooksAtEveryAccess ==
  ASSUME NestedInv, Record, phase' = "top", Tracks("this"), tracking.outermostFirst
  PROVE  accesses \cap watchpoints = {}
<1>1. OnBus("this")
  <2>1. BusGivenBack
    BY NestedGivesBack
  <2> QED
    BY <2>1 DEF BusGivenBack, OnBus
<1>2. WatchHits = {}
  BY DEF Record, Stop
<1> QED
  BY <1>1, <1>2 DEF WatchHits, Logged

LEMMA WatchKept ==
  ASSUME NestedInv, WatchedAccessStops, [SessionNext]_dvars
  PROVE  WatchedAccessStops'
<1>1. CASE UNCHANGED dvars
  BY <1>1 DEF dvars, svars, WatchedAccessStops, Tracks
<1>2. CASE SetStops \/ ClearHistory \/ WrapBus \/ Close \/ HostCall
  BY <1>2 DEF SetStops, ClearHistory, WrapBus, Close, HostCall, svars, Idling,
              WatchedAccessStops
<1>3. CASE StepCommand \/ RunSteps
  BY <1>3 DEF StepCommand, RunSteps, Begin, WatchedAccessStops
<1>4. CASE RunCommand
  <2>1. run'.steps = 0
    BY <1>4 DEF RunCommand, NoRun
  <2> QED
    BY <2>1 DEF WatchedAccessStops
<1>5. CASE BoardDevices \/ TargetStep \/ TargetRaises \/ RunStops
  BY <1>5 DEF BoardDevices, TargetStep, TargetRaises, RunStops, Stop, WatchedAccessStops
<1>6. CASE Record
  <2>1. UNCHANGED <<tracking, accesses, watchpoints>>
    BY <1>6 DEF Record
  <2> QED
    BY <1>6, <2>1, RecordLooksAtEveryAccess DEF WatchedAccessStops, Tracks
<1> QED
  BY <1>1, <1>2, <1>3, <1>4, <1>5, <1>6 DEF SessionNext, SessionWork, UserAction

(* No run goes on past a step that touched a watched byte, whatever else   *)
(* has wrapped the bus since or before (debug.py, run, _watch_hits).       *)
THEOREM WatchesAreHeard == SessionSpec => []WatchedAccessStops
<1>1. SessionInit => WatchedAccessStops
  BY DEF SessionInit, WatchedAccessStops
<1>2. NestedInv /\ WatchedAccessStops /\ [SessionNext]_dvars => WatchedAccessStops'
  BY WatchKept
<1> QED
  BY <1>1, <1>2, NestedAtFirst, NestingKept, PTL DEF SessionSpec

-----------------------------------------------------------------------------
(* over comes back to its caller: for every guest that moves SP by pushes  *)
(* and pops alone, every board, budget and set of stops, at any depth of   *)
(* recursion and with interrupts at any boundary.                          *)

(* The guests over's test is made for: one that loads SP may be back at    *)
(* the next address with SP where it was and calls still open.             *)
SpByStackOnly == \A a \in Addr : \A ins \in Program[a] : ins.op # "LD SP"

(* The calls open at once do not fill memory: SP does not come round       *)
StackFits == 2 * depth < Size /\ -(2 * depth) < Size

OverType == [next : Addr, sp : Addr, left : Nat]

(* A run reports its own reasons, and over adds "returned" *)
RunReasons == result # None => result.reason # "returned"

(* While over is in progress SP is where the open calls have moved it *)
OverInv ==
  /\ TypeOK
  /\ over \in OverType /\ depth \in Int
  /\ cmd = "over" => sp = Wrap(over.sp - 2 * depth) /\ outcome = None

LEMMA WrapAgain ==
  ASSUME NEW x \in Int, NEW y \in Int
  PROVE  Wrap(Wrap(x) + y) = Wrap(x + y)
<1>1. Size \in Nat \ {0}
  BY SizePositive
<1> QED
  BY <1>1, AddToRemainder, Zenon DEF Wrap

LEMMA WrapSame ==
  ASSUME NEW a \in Addr
  PROVE  Wrap(a) = a
<1>1. Size \in Nat \ {0} /\ a \in 0 .. Size - 1
  BY SizePositive DEF Addr
<1> QED
  BY <1>1, SmallMod DEF Wrap

(* What a step of such a guest does to SP *)
LEMMA StepMovesSp ==
  ASSUME SpByStackOnly, TypeOK, Step
  PROVE  sp' \in {sp, Wrap(sp - 2), Wrap(sp + 2)}
<1>1. CASE AcceptReset \/ RefuseMaskableInterrupt \/ HaltedIdle
  BY <1>1 DEF AcceptReset, RefuseMaskableInterrupt, HaltedIdle, regs
<1>2. CASE AcceptNonMaskableInterrupt \/ AcceptMaskableInterrupt
  BY <1>2 DEF AcceptNonMaskableInterrupt, AcceptMaskableInterrupt, Push
<1>3. CASE ExecuteInstruction
  <2>1. PICK ins \in Program[pc] : Dispatch(ins, 0)
    BY <1>3 DEF ExecuteInstruction
  <2>2. ins.op # "LD SP"
    BY DEF SpByStackOnly, TypeOK
  <2> QED
    BY <2>1, <2>2 DEF Dispatch, OpNop, OpInterruptEnable, OpHalt, OpIm, RetIff, OpRet,
       OpCall, OpJump, OpPush, OpPop, OpLoadSp, OpLoadI, OpStore, Push, PopInto
<1> QED
  BY <1>1, <1>2, <1>3 DEF Step

(* depth follows SP *)
LEMMA DepthFollowsSp ==
  ASSUME NEW from \in Addr, depth \in Int, sp = Wrap(from - 2 * depth),
         sp' \in {sp, Wrap(sp - 2), Wrap(sp + 2)}, TrackDepth
  PROVE  depth' \in Int /\ sp' = Wrap(from - 2 * depth')
<1> DEFINE x == from - 2 * depth
<1>1. x \in Int
  BY SizePositive DEF Addr
<1>2. CASE sp' = Wrap(sp - 2)
  <2>1. depth' = depth + 1 /\ depth' \in Int
    BY <1>2 DEF TrackDepth
  <2>2. x + (-2) = from - 2 * depth' /\ sp + (-2) = sp - 2
    BY <2>1, <1>1, SizePositive, WrapInAddr DEF Addr
  <2> HIDE DEF x
  <2>3. Wrap(Wrap(x) + (-2)) = Wrap(x + (-2))
    BY <1>1, WrapAgain
  <2>4. sp = Wrap(x)
    BY DEF x
  <2> QED
    BY <1>2, <2>1, <2>2, <2>3, <2>4, Zenon
<1>3. CASE sp' # Wrap(sp - 2) /\ sp' = Wrap(sp + 2)
  <2>1. depth' = depth - 1 /\ depth' \in Int
    BY <1>3 DEF TrackDepth
  <2>2. x + 2 = from - 2 * depth'
    BY <2>1, <1>1, SizePositive DEF Addr
  <2> HIDE DEF x
  <2>3. Wrap(Wrap(x) + 2) = Wrap(x + 2)
    BY <1>1, WrapAgain
  <2>4. sp = Wrap(x)
    BY DEF x
  <2> QED
    BY <1>3, <2>1, <2>2, <2>3, <2>4, Zenon
<1>4. CASE sp' # Wrap(sp - 2) /\ sp' # Wrap(sp + 2)
  <2>1. depth' = depth /\ sp' = sp
    BY <1>4 DEF TrackDepth
  <2> QED
    BY <2>1
<1> QED
  BY <1>2, <1>3, <1>4

(* What leaves the CPU alone leaves its types alone *)
LEMMA CpuStays ==
  ASSUME TypeOK, UNCHANGED vars
  PROVE  TypeOK' /\ sp' = sp
BY DEF TypeOK, vars, regs, ctl, lines

LEMMA DevicesTypes ==
  ASSUME TypeOK, DevicesWork
  PROVE  TypeOK' /\ sp' = sp
<1>1. CASE UNCHANGED vars
  BY <1>1, CpuStays
<1>2. CASE RequestMaskableInterrupt \/ ClearMaskableInterrupt \/ RequestNonMaskableInterrupt
  <2>1. HostAction
    BY <1>2 DEF HostAction
  <2>2. sp' = sp
    BY <1>2 DEF RequestMaskableInterrupt, ClearMaskableInterrupt,
                RequestNonMaskableInterrupt, Call, regs
  <2> QED
    BY <2>1, <2>2, HostTypes
<1> QED
  BY <1>1, <1>2 DEF DevicesWork

-----------------------------------------------------------------------------
(* The invariant *)

LEMMA OverInvInit == ConsoleInit => OverInv
<1> SUFFICES ASSUME ConsoleInit
             PROVE  OverInv
  OBVIOUS
<1>1. Init /\ cmd = "none" /\ over = [next |-> 0, sp |-> 0, left |-> 0] /\ depth = 0
  BY DEF ConsoleInit, SessionInit
<1> QED
  BY <1>1, TypesOfInit, ConstantsInRange DEF OverInv, OverType

(* A session at work moves SP by its CPU steps alone *)
LEMMA SessionWorkMovesSp ==
  ASSUME SpByStackOnly, TypeOK, SessionWork
  PROVE  TypeOK' /\ sp' \in {sp, Wrap(sp - 2), Wrap(sp + 2)}
<1>1. CASE BoardDevices
  BY <1>1, DevicesTypes DEF BoardDevices
<1>2. CASE TargetStep
  BY <1>2, StepTypes, StepMovesSp DEF TargetStep
<1>3. CASE TargetRaises
  <2>1. Step
    BY <1>3 DEF TargetRaises, Step
  <2> QED
    BY <2>1, StepTypes, StepMovesSp
<1>4. CASE Record \/ RunStops \/ RunSteps
  <2>1. UNCHANGED vars
    BY <1>4 DEF Record, RunStops, RunSteps, cpuAndHost
  <2> QED
    BY <2>1, CpuStays
<1> QED
  BY <1>1, <1>2, <1>3, <1>4 DEF SessionWork

LEMMA UserTypes ==
  ASSUME TypeOK, UserAction
  PROVE  TypeOK'
<1>1. CASE HostCall
  BY <1>1, HostTypes DEF HostCall
<1>2. CASE SetStops \/ ClearHistory \/ WrapBus \/ Close \/ StepCommand \/ RunCommand
  <2>1. UNCHANGED vars
    BY <1>2 DEF SetStops, ClearHistory, WrapBus, Close, StepCommand, RunCommand, cpuAndHost
  <2> QED
    BY <2>1, CpuStays
<1> QED
  BY <1>1, <1>2 DEF UserAction

LEMMA OverInvWork ==
  ASSUME SpByStackOnly, OverInv, CommandWork
  PROVE  OverInv'
<1>1. TypeOK /\ over \in OverType /\ depth \in Int
  BY DEF OverInv
<1>2. TypeOK' /\ sp' \in {sp, Wrap(sp - 2), Wrap(sp + 2)}
  BY <1>1, SessionWorkMovesSp DEF CommandWork
<1>3. over' = over /\ outcome' = outcome /\ cmd' \in {cmd, "none"} /\ TrackDepth
  BY DEF CommandWork
<1>4. depth' \in Int
  BY <1>1, <1>3 DEF TrackDepth
<1>5. ASSUME cmd = "over"
      PROVE  sp' = Wrap(over.sp - 2 * depth') /\ outcome = None
  <2>1. over.sp \in Addr /\ sp = Wrap(over.sp - 2 * depth) /\ outcome = None
    BY <1>1, <1>5 DEF OverInv, OverType
  <2> QED
    BY <1>1, <1>2, <1>3, <2>1, DepthFollowsSp
<1> QED
  BY <1>1, <1>2, <1>3, <1>4, <1>5 DEF OverInv

LEMMA OverInvStep ==
  ASSUME SpByStackOnly, OverInv, ConsoleNext
  PROVE  OverInv'
<1>0. /\ TypeOK /\ over \in OverType /\ depth \in Int
      /\ cmd = "over" => sp = Wrap(over.sp - 2 * depth) /\ outcome = None
  BY DEF OverInv
<1>1. CASE CommandWork
  BY <1>1, OverInvWork
<1>2. CASE ContinueRuns \/ ContinueEnds \/ OverEnds
  <2>1. /\ UNCHANGED vars /\ over' = over /\ depth' = depth
        /\ cmd' \in {"continue", "none"}
    BY <1>2 DEF ContinueRuns, ContinueEnds, OverEnds, StartRun, sessionButRun, cpuAndHost,
                dvars
  <2> QED
    BY <1>0, <2>1, CpuStays DEF OverInv
<1>3. CASE OverRuns
  <2>1. /\ UNCHANGED vars /\ depth' = depth /\ cmd' = cmd /\ outcome' = outcome
        /\ over' = [over EXCEPT !.left = @ - 1] /\ over.left > 0
    BY <1>3 DEF OverRuns, StartRun, sessionButRun, cpuAndHost
  <2>2. over.left - 1 \in Nat
    BY <1>0, <2>1 DEF OverType
  <2>3. over' \in OverType /\ over'.sp = over.sp
    BY <1>0, <2>1, <2>2 DEF OverType
  <2>4. TypeOK' /\ sp' = sp
    BY <1>0, <2>1, CpuStays
  <2> QED
    BY <1>0, <2>1, <2>3, <2>4 DEF OverInv
<1>4. CASE ResetEnds \/ ResetCommand
  <2>1. UNCHANGED <<regs, ctl, intVector, nmiPending, saved, afterEI, over>>
    BY <1>4 DEF ResetEnds, ResetCommand
  <2>2. resetPending' \in BOOLEAN /\ cmd' \in {"none", "reset"}
    BY <1>4 DEF ResetEnds, ResetCommand
  <2>3. depth' \in {depth, 0}
    BY <1>4 DEF ResetEnds, ResetCommand
  <2>4. TypeOK'
    BY <1>0, <2>1, <2>2 DEF TypeOK, regs, ctl
  <2> QED
    BY <1>0, <2>1, <2>2, <2>3, <2>4 DEF OverInv
<1>5. CASE PlainCommand
  <2>1. UserAction /\ UNCHANGED consoleVars /\ cmd = "none"
    BY <1>5 DEF PlainCommand, Free
  <2>2. over' = over /\ depth' = depth /\ cmd' = "none"
    BY <2>1 DEF consoleVars
  <2> QED
    BY <1>0, <2>1, <2>2, UserTypes DEF OverInv
<1>6. CASE SetRegister
  <2>1. PICK v \in SetValues : \/ pc' = v /\ UNCHANGED <<sp, i>>
                               \/ sp' = v /\ UNCHANGED <<pc, i>>
                               \/ i' = Lo(v) /\ UNCHANGED <<pc, sp>>
    BY <1>6 DEF SetRegister
  <2>2. v \in Addr /\ Lo(v) \in Byte
    BY CommandAssumption, PartsInByte
  <2>3. /\ UNCHANGED <<ram, ctl, lines, saved, afterEI>>
        /\ over' = over /\ depth' = depth /\ cmd' = "none"
    BY <1>6 DEF SetRegister, consoleVars, Free
  <2>4. TypeOK'
    BY <1>0, <2>1, <2>2, <2>3 DEF TypeOK, ctl, lines
  <2> QED
    BY <1>0, <2>3, <2>4 DEF OverInv
<1>7. CASE ContinueCommand
  <2>1. UNCHANGED vars /\ over' = over /\ depth' = 0 /\ cmd' \in {"off", "continue"}
    BY <1>7 DEF ContinueCommand, StartRun, StartStep, sessionButRun, cpuAndHost
  <2> QED
    BY <1>0, <2>1, CpuStays DEF OverInv
<1>8. CASE OverCommand
  <2>1. UNCHANGED vars /\ depth' = 0 /\ outcome' = None
    BY <1>8 DEF OverCommand, StartStep, cpuAndHost
  <2>2. TypeOK' /\ sp' = sp /\ sp \in Addr
    BY <1>0, <2>1, CpuStays DEF TypeOK
  <2>3. CASE cmd' = "none" /\ over' = over
    BY <1>0, <2>1, <2>2, <2>3 DEF OverInv
  <2>4. CASE \E ins \in Program[pc] :
               over' = [next |-> Following(ins), sp |-> sp, left |-> OverSteps]
    <3>1. PICK ins \in Program[pc] :
            over' = [next |-> Following(ins), sp |-> sp, left |-> OverSteps]
      BY <2>4
    <3>2. Following(ins) \in Addr
      BY <1>0, InstructionsInRange DEF TypeOK, Following
    <3>3. over' \in OverType /\ over'.sp = sp
      BY <2>2, <3>1, <3>2, CommandAssumption DEF OverType
    <3>4. sp' = Wrap(over'.sp - 2 * depth')
      <4>1. sp - 2 * depth' = sp
        BY <2>1, <2>2, SizePositive DEF Addr
      <4> QED
        BY <2>2, <3>3, <4>1, WrapSame
    <3> QED
      BY <2>1, <2>2, <3>3, <3>4 DEF OverInv
  <2> QED
    BY <1>8, <2>3, <2>4 DEF OverCommand
<1> QED
  BY <1>1, <1>2, <1>3, <1>4, <1>5, <1>6, <1>7, <1>8 DEF ConsoleNext, CommandStep

LEMMA OverInvHolds ==
  ASSUME SpByStackOnly
  PROVE  ConsoleSpec => []OverInv
<1>1. OverInv /\ [ConsoleNext]_cdvars => OverInv'
  <2>1. CASE UNCHANGED cdvars
    <3>1. UNCHANGED vars /\ UNCHANGED <<over, depth, cmd, outcome>>
      BY <2>1 DEF cdvars, dvars, consoleVars
    <3> QED
      BY <3>1, CpuStays DEF OverInv
  <2> QED
    BY <2>1, OverInvStep
<1> QED
  BY <1>1, OverInvInit, PTL DEF ConsoleSpec

LEMMA RunReasonsKept ==
  ASSUME RunReasons, [ConsoleNext]_cdvars
  PROVE  RunReasons'
<1>1. CASE CommandWork
  <2>1. CASE BoardDevices \/ TargetStep \/ TargetRaises \/ RunSteps
    <3>1. result' \in {None, result}
      BY <2>1 DEF BoardDevices, TargetStep, TargetRaises, RunSteps
    <3> QED
      BY <3>1 DEF RunReasons
  <2>2. CASE Record
    <3>1. result' = result \/ result'.reason = "watchpoint" \/ result'.reason = "t_state_limit"
      BY <2>2 DEF Record, Stop
    <3> QED
      BY <3>1 DEF RunReasons
  <2>3. CASE RunStops
    <3>1. \E reason \in {"step_limit", "breakpoint", "halted"} : result'.reason = reason
      BY <2>3 DEF RunStops, Stop
    <3> QED
      BY <3>1 DEF RunReasons
  <2> QED
    BY <1>1, <2>1, <2>2, <2>3 DEF CommandWork, SessionWork
<1>2. CASE ContinueRuns \/ OverEnds \/ OverRuns \/ ContinueCommand \/ OverCommand
  <2>1. result' = None
    BY <1>2 DEF ContinueRuns, OverEnds, OverRuns, ContinueCommand, OverCommand, StartRun,
                StartStep
  <2> QED
    BY <2>1 DEF RunReasons
<1>3. CASE ContinueEnds \/ ResetEnds \/ SetRegister \/ ResetCommand \/ UNCHANGED cdvars
  <2>1. UNCHANGED dvars \/ UNCHANGED svars \/ ResetCommand
    BY <1>3 DEF ContinueEnds, ResetEnds, SetRegister, cdvars
  <2>2. result' = result
    BY <2>1 DEF ResetCommand, dvars, svars
  <2> QED
    BY <2>2 DEF RunReasons
<1>4. CASE PlainCommand
  <2>1. result' \in {None, result}
    BY <1>4 DEF PlainCommand, UserAction, HostCall, SetStops, ClearHistory, WrapBus, Close,
                StepCommand, RunCommand, svars
  <2> QED
    BY <2>1 DEF RunReasons
<1> QED
  BY <1>1, <1>2, <1>3, <1>4 DEF ConsoleNext, CommandStep

LEMMA RunReasonsHold == ConsoleSpec => []RunReasons
<1>1. ConsoleInit => RunReasons
  BY DEF ConsoleInit, SessionInit, RunReasons
<1> QED
  BY <1>1, RunReasonsKept, PTL DEF ConsoleSpec

-----------------------------------------------------------------------------

(* When over says "returned", every call made and every interrupt accepted *)
(* since is closed again (_over): at any depth of recursion, as long as    *)
(* the guest moves SP by pushes and pops and its stack does not fill       *)
(* memory.                                                                 *)
THEOREM OverComesBack ==
  ASSUME SpByStackOnly
  PROVE  ConsoleSpec /\ []StackFits => OverReturnsToCaller
<1> DEFINE Returned == cmd = "over" /\ cmd' = "none" /\ outcome' = "returned" => depth = 0
<1>1. OverInv /\ RunReasons /\ StackFits /\ [ConsoleNext]_cdvars => [Returned]_cdvars
  <2> SUFFICES ASSUME OverInv, RunReasons, StackFits, ConsoleNext,
                      cmd = "over", cmd' = "none", outcome' = "returned"
               PROVE  depth = 0
    OBVIOUS
  <2>1. /\ outcome = None /\ None # "returned" /\ sp = Wrap(over.sp - 2 * depth)
        /\ over.sp \in Addr /\ depth \in Int
    BY CommandAssumption DEF OverInv, OverType
  <2>2. OverEnds
    <3>1. ~CommandWork
      BY <2>1 DEF CommandWork
    <3>2. ~(ContinueRuns \/ ContinueEnds \/ OverRuns \/ ResetEnds)
      BY DEF ContinueRuns, ContinueEnds, OverRuns, ResetEnds
    <3>3. ~(PlainCommand \/ SetRegister \/ ContinueCommand \/ OverCommand \/ ResetCommand)
      BY DEF PlainCommand, SetRegister, ContinueCommand, OverCommand, ResetCommand, Free
    <3> QED
      BY <3>1, <3>2, <3>3 DEF ConsoleNext, CommandStep
  <2>3. sp = over.sp
    BY <2>2 DEF OverEnds, BackFromCall, RunStopped, RunReasons
  <2> DEFINE opened == over.sp - 2 * depth
             from == over.sp
  <2>4. Size \in Nat \ {0} /\ from \in Int /\ opened \in Int
    BY <2>1, SizePositive DEF Addr
  <2>5. opened % Size = from % Size
    BY <2>1, <2>3, WrapSame DEF Wrap
  <2>6. from - opened = 2 * depth /\ opened - from = -(2 * depth)
    BY <2>1, <2>4
  <2>7. from - opened < Size /\ opened - from < Size
    BY <2>6 DEF StackFits
  <2>8. opened = from
    <3> HIDE DEF opened, from
    <3> QED
      BY <2>4, <2>5, <2>7, CloseAndSameRemainder
  <2> QED
    BY <2>1, <2>4, <2>6, <2>8
<1> QED
  BY <1>1, OverInvHolds, RunReasonsHold, PTL DEF ConsoleSpec, OverReturnsToCaller

=============================================================================
