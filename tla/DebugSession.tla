---------------------------- MODULE DebugSession ----------------------------
(***************************************************************************)
(* DebugSession of debug.py around the CPU of Z80Lifecycle: single steps,  *)
(* bounded runs, execute breakpoints, watchpoints, the record history and  *)
(* the totals; and a second tracking session that wraps the same CPU's bus.*)
(*                                                                         *)
(* Nothing runs concurrently, but the session decides before target.step() *)
(* on a state it captured, and a board's step() lets its devices work      *)
(* around the CPU's: one session step is the capture, the devices, the CPU *)
(* step, the devices again, and the record.  phase is where it is.         *)
(***************************************************************************)
EXTENDS Z80Lifecycle, Sequences

CONSTANTS
  Cost,           \* boundary -> T-states, scaled down
  HistoryLimit,   \* history_limit
  BreakAddrs, WatchAddrs,   \* where the user sets stops
  StepLimits, TLimits,      \* the budgets the user gives run()
  SessionSteps,   \* bound: no command is started past this many steps
  DevicesBefore,  \* the board runs its devices before the CPU step
  DevicesAfter,   \* ... and after it
  OtherSessions   \* other sessions may track the same CPU's bus

BoundaryKinds == {"reset", "nmi", "int", "halted", "instruction"}

ASSUME SessionAssumption ==
  /\ Cost \in [BoundaryKinds -> Nat \ {0}]
  /\ HistoryLimit \in Nat
  /\ BreakAddrs \subseteq Addr /\ WatchAddrs \subseteq Addr
  /\ StepLimits \subseteq Nat \ {0} /\ TLimits \subseteq Nat \ {0}
  /\ SessionSteps \in Nat
  /\ {DevicesBefore, DevicesAfter, OtherSessions} \subseteq BOOLEAN
  /\ None \notin {<<>>, <<"this">>, <<"other">>}

VARIABLES
  breakpoints,
  watchpoints,  \* pairs <<"r" or "w", address>>
  tracking,     \* the bus callables the CPU has, as the sessions wrapped around
                \* its own, innermost first; the _originals of each session;
                \* as history, whether sessions closed outermost first so far
  history,      \* the retained StepRecords
  totals,       \* total_steps, total_instructions, total_t_states
  phase,        \* "idle", "top" of run's loop, or inside step()
  caller,       \* who called step(): "user" or "run"
  before,       \* the kind step() derived from what it captured, and as
                \* history whether devices changed a request since
  work,         \* history: the boundary the CPU then performed
  accesses,     \* history: what a tracked CPU read and wrote in the step
  run,          \* the arguments and counters of run()
  result        \* the last RunResult, or None

svars == <<breakpoints, watchpoints, tracking, history, totals, phase, caller,
           before, work, accesses, run, result>>

dvars == <<vars, svars>>

cpuAndHost == vars

NoRun == [max |-> 0, limit |-> None, stopOnHalt |-> TRUE,
          steps |-> 0, instructions |-> 0, tStates |-> 0,
          start |-> [steps |-> 0, instructions |-> 0, tStates |-> 0]]

-----------------------------------------------------------------------------
(* What the wrapped bus sees of one step, in the state the step starts in *)

PushWrites == {<<"w", Wrap(sp - 1)>>, <<"w", Wrap(sp - 2)>>}

PopReads == {<<"r", sp>>, <<"r", Wrap(sp + 1)>>}

TableReads ==
  IF im = 2 THEN {<<"r", Word(i, intVector)>>,
                  <<"r", Wrap(Word(i, intVector) + 1)>>}
            ELSE {}

InstructionAccesses(ins) ==
  {<<"r", Wrap(pc + k)>> : k \in 0 .. ins.len - 1}
    \cup (IF ins.op \in {"CALL", "RST", "PUSH"} THEN PushWrites ELSE {})
    \cup (IF ins.op \in {"RET", "RETN", "POP"} THEN PopReads ELSE {})
    \cup (IF ins.op = "LD (nn)"
            THEN {<<"w", ins.arg>>, <<"w", Wrap(ins.arg + 1)>>} ELSE {})

(* The instruction executed is one whose handler explains the step *)
LogAccesses(kind) ==
  \/ kind = "nmi" /\ accesses' = PushWrites
  \/ kind = "int" /\ accesses' = PushWrites \cup TableReads
  \/ kind = "instruction" /\ \E ins \in Program[pc] :
       Dispatch(ins, 0) /\ accesses' = InstructionAccesses(ins)
  \/ kind \in {"reset", "halted"} /\ accesses' = {}

Tracks(s) == tracking.originals[s] # None

OnBus(s) == \E n \in DOMAIN tracking.bus : tracking.bus[n] = s

Outermost(s) == tracking.bus # <<>> /\ tracking.bus[Len(tracking.bus)] = s

(* The log this session's own wrapper leaves in the record *)
Logged == IF Tracks("this") /\ OnBus("this") THEN accesses ELSE {}

(* Mutant of WatchHits: reads only *)
ReadHits == {a \in Logged \cap watchpoints : a[1] = "r"}

WatchHits == Logged \cap watchpoints

-----------------------------------------------------------------------------
(* Commands between two steps *)

Idling == phase = "idle"

SetStops ==
  /\ Idling
  /\ \/ /\ \E a \in BreakAddrs : \/ breakpoints' = breakpoints \cup {a}
                                 \/ breakpoints' = breakpoints \ {a}
        /\ UNCHANGED watchpoints
     \/ /\ Tracks("this")
        /\ \E a \in WatchAddrs, ks \in {{"r"}, {"w"}, {"r", "w"}} :
             watchpoints' = {w \in watchpoints : w[2] # a} \cup (ks \X {a})
        /\ UNCHANGED breakpoints
     \/ /\ \E a \in WatchAddrs :
             watchpoints' = {w \in watchpoints : w[2] # a}
        /\ UNCHANGED breakpoints
  /\ UNCHANGED <<cpuAndHost, tracking, history, totals, phase, caller, before,
                 work, accesses, run, result>>

ClearHistory ==
  /\ Idling
  /\ history' = <<>>
  /\ UNCHANGED <<cpuAndHost, breakpoints, watchpoints, tracking, totals, phase,
                 caller, before, work, accesses, run, result>>

(* Mutant of WrapBus: the CPU's own callables kept in place of those found *)
WrapBusOfCpu ==
  /\ Idling
  /\ OtherSessions /\ ~Tracks("other")
  /\ tracking' =
       [bus            |-> Append(tracking.bus, "other"),
        originals      |-> [this |-> tracking.originals.this, other |-> <<>>],
        outermostFirst |-> tracking.outermostFirst]
  /\ UNCHANGED <<cpuAndHost, breakpoints, watchpoints, history, totals, phase,
                 caller, before, work, accesses, run, result>>

(* _wrap_bus of another session: its callables go around those it finds *)
WrapBus ==
  /\ Idling
  /\ OtherSessions /\ ~Tracks("other")
  /\ tracking' =
       [bus            |-> Append(tracking.bus, "other"),
        originals      |-> [this |-> tracking.originals.this, other |-> tracking.bus],
        outermostFirst |-> tracking.outermostFirst]
  /\ UNCHANGED <<cpuAndHost, breakpoints, watchpoints, history, totals, phase,
                 caller, before, work, accesses, run, result>>

(* close() of either session: the callables it found go back and its log   *)
(* goes away                                                               *)
Close ==
  /\ Idling
  /\ \E s \in {"this", "other"} :
       /\ Tracks(s)
       /\ tracking' =
            [bus           |-> tracking.originals[s],
             originals     |-> [tracking.originals EXCEPT ![s] = None],
             outermostFirst |-> tracking.outermostFirst /\ Outermost(s)]
       /\ accesses' = IF s = "this" THEN {} ELSE accesses
  /\ UNCHANGED <<cpuAndHost, breakpoints, watchpoints, history, totals, phase,
                 caller, before, work, run, result>>

HostCall ==
  /\ Idling
  /\ HostAction
  /\ UNCHANGED svars

-----------------------------------------------------------------------------
(* step() *)

(* The capture, the prediction, and a cleared log *)
Begin(who) ==
  /\ before' = [kind |-> NextBoundary, undisturbed |-> TRUE]
  /\ accesses' = {}
  /\ caller' = who
  /\ phase' = IF DevicesBefore THEN "devices" ELSE "cpu"

StepCommand ==
  /\ Idling
  /\ totals.steps < SessionSteps
  /\ Begin("user")
  /\ UNCHANGED <<cpuAndHost, breakpoints, watchpoints, tracking, history,
                 totals, work, run, result>>

(* The devices of a board request or withdraw, or do nothing *)
DevicesWork ==
  \/ RequestMaskableInterrupt
  \/ ClearMaskableInterrupt
  \/ RequestNonMaskableInterrupt
  \/ UNCHANGED vars

BoardDevices ==
  /\ DevicesWork
  /\ \/ /\ phase = "devices" /\ phase' = "cpu"
        /\ before' = [before EXCEPT !.undisturbed = (lines' = lines)]
     \/ /\ phase = "devices again" /\ phase' = "record"
        /\ UNCHANGED before
  /\ UNCHANGED <<breakpoints, watchpoints, tracking, history, totals, caller,
                 work, accesses, run, result>>

TargetStep ==
  /\ phase = "cpu"
  /\ Step
  /\ event'.kind # "refused"
  /\ work' = event'.kind
  /\ IF Tracks("this") THEN LogAccesses(work') ELSE accesses' = {}
  /\ phase' = IF DevicesAfter THEN "devices again" ELSE "record"
  /\ UNCHANGED <<breakpoints, watchpoints, tracking, history, totals, caller,
                 before, run, result>>

(* Mutant of TargetRaises: run() swallows the exception and goes on *)
TargetRaisesSwallowed ==
  /\ phase = "cpu"
  /\ RefuseMaskableInterrupt
  /\ phase' = IF caller = "run" THEN "top" ELSE "idle"
  /\ result' = None
  /\ UNCHANGED <<breakpoints, watchpoints, tracking, history, totals, caller,
                 before, work, accesses, run>>

(* NotImplementedError leaves step() and run(): no record, no total, no    *)
(* RunResult                                                               *)
TargetRaises ==
  /\ phase = "cpu"
  /\ RefuseMaskableInterrupt
  /\ phase' = "idle"
  /\ result' = None
  /\ UNCHANGED <<breakpoints, watchpoints, tracking, history, totals, caller,
                 before, work, accesses, run>>

(* The deque keeps the newest HistoryLimit records, none for a limit of 0 *)
Retained(h) ==
  IF Len(h) > HistoryLimit THEN SubSeq(h, Len(h) - HistoryLimit + 1, Len(h))
                           ELSE h

Instructions(kind) == IF kind = "instruction" THEN 1 ELSE 0

Counted(c) ==
  [c EXCEPT !.steps = @ + 1,
            !.instructions = @ + Instructions(before.kind),
            !.tStates = @ + Cost[work]]

Stop(reason, counters, hits) ==
  /\ result' = [reason |-> reason, steps |-> counters.steps,
                instructions |-> counters.instructions,
                tStates |-> counters.tStates, hits |-> hits]
  /\ phase' = "idle"

OverTime(counters) ==
  counters.limit # None /\ counters.tStates >= counters.limit

(* The StepRecord, and under run() what follows it in the loop's body *)
Record ==
  /\ phase = "record"
  /\ history' = Retained(Append(history,
                   [seq |-> totals.steps, before |-> before, work |-> work]))
  /\ totals' = Counted(totals)
  /\ IF caller = "user"
       THEN phase' = "idle" /\ UNCHANGED <<run, result>>
       ELSE LET counters == Counted(run) IN
            /\ run' = counters
            /\ IF WatchHits # {} THEN Stop("watchpoint", counters, WatchHits)
               ELSE IF OverTime(counters) THEN Stop("t_state_limit", counters, {})
               ELSE phase' = "top" /\ UNCHANGED result
  /\ UNCHANGED <<cpuAndHost, breakpoints, watchpoints, tracking, caller, before,
                 work, accesses>>

-----------------------------------------------------------------------------
(* run() *)

RunCommand ==
  /\ Idling
  /\ \E max \in StepLimits, limit \in TLimits \cup {None}, stop \in BOOLEAN :
        /\ totals.steps + max <= SessionSteps
        /\ run' = [NoRun EXCEPT !.max = max, !.limit = limit,
                                !.stopOnHalt = stop, !.start = totals]
  /\ phase' = "top"
  /\ result' = None
  /\ UNCHANGED <<cpuAndHost, breakpoints, watchpoints, tracking, history,
                 totals, caller, before, work, accesses>>

(* Mutant of AtBreakpoint: tested on entry only *)
AtBreakpointOnEntry ==
  run.steps = 0 /\ NextBoundary = "instruction" /\ pc \in breakpoints

AtBreakpoint == NextBoundary = "instruction" /\ pc \in breakpoints
AtHalt       == run.stopOnHalt /\ NextBoundary = "halted"

RunStops ==
  /\ phase = "top"
  /\ \/ run.steps >= run.max /\ Stop("step_limit", run, {})
     \/ run.steps < run.max /\ AtBreakpoint /\ Stop("breakpoint", run, {})
     \/ /\ run.steps < run.max /\ ~AtBreakpoint /\ AtHalt
        /\ Stop("halted", run, {})
  /\ UNCHANGED <<cpuAndHost, breakpoints, watchpoints, tracking, history,
                 totals, caller, before, work, accesses, run>>

(* Mutant of RunSteps: one step too many *)
RunStepsOnceMore ==
  /\ phase = "top"
  /\ run.steps <= run.max /\ ~AtBreakpoint /\ ~AtHalt
  /\ Begin("run")
  /\ UNCHANGED <<cpuAndHost, breakpoints, watchpoints, tracking, history,
                 totals, work, run, result>>

RunSteps ==
  /\ phase = "top"
  /\ run.steps < run.max /\ ~AtBreakpoint /\ ~AtHalt
  /\ Begin("run")
  /\ UNCHANGED <<cpuAndHost, breakpoints, watchpoints, tracking, history,
                 totals, work, run, result>>

-----------------------------------------------------------------------------

SessionInit ==
  /\ Init
  /\ breakpoints = {} /\ watchpoints = {}
  /\ tracking \in
       {[bus |-> <<"this">>, originals |-> [this |-> <<>>, other |-> None],
         outermostFirst |-> TRUE]}
       \cup (IF OtherSessions
               THEN {[bus |-> <<"other", "this">>,
                      originals |-> [this |-> <<"other">>, other |-> <<>>],
                      outermostFirst |-> TRUE]}
               ELSE {})
  /\ history = <<>>
  /\ totals = NoRun.start
  /\ phase = "idle" /\ caller = "user"
  /\ before = [kind |-> "instruction", undisturbed |-> TRUE]
  /\ work = "instruction"
  /\ accesses = {}
  /\ run = NoRun
  /\ result = None

(* What the session itself does once a command has been given *)
SessionWork ==
  \/ BoardDevices
  \/ TargetStep
  \/ TargetRaises
  \/ Record
  \/ RunStops
  \/ RunSteps

UserAction ==
  \/ SetStops
  \/ ClearHistory
  \/ WrapBus
  \/ Close
  \/ HostCall
  \/ StepCommand
  \/ RunCommand

SessionNext == SessionWork \/ UserAction

SessionSpec == SessionInit /\ [][SessionNext]_dvars

(* A command in progress is one Python call: it goes on by itself *)
FairSession == SessionSpec /\ WF_dvars(SessionWork)

-----------------------------------------------------------------------------
(* Properties *)

(* A record's kind is the work the CPU did in that step, unless a board's  *)
(* devices changed a request between the session's capture and the CPU's   *)
(* step (debug.py, BoundaryKind: the kind of work performed by one step()  *)
(* call): nothing else makes the prediction stale.                         *)
KindIsWorkDone ==
  \A k \in DOMAIN history :
     history[k].before.undisturbed => history[k].before.kind = history[k].work

(* A run's result accounts for exactly the steps taken since the run       *)
(* began, stop by stop, and a run never takes more steps than it was given.*)
RunAccountsForItsSteps ==
  /\ phase = "top" \/ result # None =>
       /\ run.steps <= run.max
       /\ run.instructions <= run.steps
  /\ phase = "top" =>
       /\ totals.steps = run.start.steps + run.steps
       /\ totals.instructions = run.start.instructions + run.instructions
       /\ totals.tStates = run.start.tStates + run.tStates
       /\ ~OverTime(run)

(* A run never executes an instruction at a breakpoint: acceptances, HALT  *)
(* idling and RESET between the test and the step do not carry the CPU     *)
(* past it (debug.py, run; BREAKPOINT stops before the instruction).  Only *)
(* devices that withdraw a request after the test can.                     *)
NoInstructionPastBreakpoint ==
  [][/\ phase = "cpu" /\ caller = "run" /\ before.undisturbed
     /\ event'.kind = "instruction"
     => pc \notin breakpoints]_dvars

(* A run goes on after a step only if that step touched no watched byte,   *)
(* whatever other sessions have wrapped the bus since or before, as long as *)
(* none is closed under a later one (debug.py, _watch_hits).               *)
WatchedAccessStops ==
  phase = "top" /\ run.steps > 0 /\ Tracks("this") /\ tracking.outermostFirst
    => accesses \cap watchpoints = {}

(* As long as sessions close outermost first, each that tracks is on the    *)
(* bus once, and the CPU has its own callables back when the last one has  *)
(* closed (debug.py, close).  In the other order a closed session's        *)
(* wrapper comes back and an open one stops hearing.                       *)
BusGivenBack ==
  tracking.outermostFirst =>
    LET heard(s) == {n \in DOMAIN tracking.bus : tracking.bus[n] = s} IN
    \A s \in {"this", "other"} :
       IF Tracks(s) THEN \E n \in DOMAIN tracking.bus : heard(s) = {n}
                    ELSE heard(s) = {}

=============================================================================
