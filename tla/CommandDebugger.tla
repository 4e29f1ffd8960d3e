-------------------------- MODULE CommandDebugger --------------------------
(***************************************************************************)
(* CommandDebugger of console.py: the commands that drive a DebugSession   *)
(* through several of its steps (continue, over and reset), beside those   *)
(* that are one call of it, which are UserAction of DebugSession.          *)
(*                                                                         *)
(* A command is one Python call, so the user acts only when none is in     *)
(* progress; the session's own phases run inside it.                       *)
(***************************************************************************)
EXTENDS DebugSession

CONSTANTS
  ContinueSteps,  \* the 1,000,000 steps of continue
  OverSteps,      \* the 1,000,000 runs of over
  SetValues       \* the values the user gives set

ASSUME CommandAssumption ==
  /\ ContinueSteps \in Nat \ {0, 1} /\ OverSteps \in Nat
  /\ SetValues \subseteq Addr
  /\ None # "returned"

VARIABLES
  cmd,      \* "none", "off" (continue stepping off a breakpoint), "continue",
            \* "over" or "reset"
  over,     \* over's instruction.next_address and state.sp, and runs left
  outcome,  \* how the last over ended
  given,    \* history: total_steps when the command was given
  depth     \* history: calls and acceptances open since the command was given

consoleVars == <<cmd, over, outcome, given, depth>>

cdvars == <<dvars, consoleVars>>

sessionButRun == <<cpuAndHost, breakpoints, watchpoints, tracking, history,
                   totals, caller, before, work, accesses>>

IsCall(ins) == ins.op \in {"CALL", "RST"}

Free == cmd = "none" /\ phase = "idle"

(* depth follows SP: a guest of calls, returns and acceptances only *)
TrackDepth ==
  depth' = IF sp' = Wrap(sp - 2) THEN depth + 1
           ELSE IF sp' = Wrap(sp + 2) THEN depth - 1
           ELSE depth

StartRun(max, stop) ==
  /\ run' = [NoRun EXCEPT !.max = max, !.stopOnHalt = stop, !.start = totals]
  /\ phase' = "top"
  /\ result' = None
  /\ UNCHANGED sessionButRun

StartStep ==
  /\ Begin("user")
  /\ result' = None
  /\ UNCHANGED <<cpuAndHost, breakpoints, watchpoints, tracking, history,
                 totals, work, run>>

-----------------------------------------------------------------------------
(* continue: off a breakpoint with session.step() if PC is on one, whatever *)
(* the next boundary is, then run()                                         *)

ContinueCommand ==
  /\ Free
  /\ totals.steps + ContinueSteps <= SessionSteps
  /\ IF pc \in breakpoints
       THEN StartStep /\ cmd' = "off"
       ELSE StartRun(ContinueSteps, TRUE) /\ cmd' = "continue"
  /\ given' = totals.steps
  /\ depth' = 0
  /\ UNCHANGED <<over, outcome>>

ContinueRuns ==
  /\ cmd = "off" /\ phase = "idle"
  /\ StartRun(ContinueSteps - 1, TRUE)
  /\ cmd' = "continue"
  /\ UNCHANGED <<over, outcome, given, depth>>

ContinueEnds ==
  /\ cmd = "continue" /\ phase = "idle"
  /\ cmd' = "none"
  /\ UNCHANGED <<dvars, over, outcome, given, depth>>

-----------------------------------------------------------------------------
(* over: the call's own step, then one-step runs until control is back at  *)
(* the next address with SP where it was.  Without a CALL or RST at PC it  *)
(* is a step.                                                              *)

OverCommand ==
  /\ Free
  /\ totals.steps + OverSteps + 1 <= SessionSteps
  /\ StartStep
  /\ \/ /\ \E ins \in Program[pc] :
             /\ IsCall(ins)
             /\ over' = [next |-> Following(ins), sp |-> sp, left |-> OverSteps]
        /\ cmd' = "over"
     \/ /\ \A ins \in Program[pc] : ~IsCall(ins)
        /\ cmd' = "none"
        /\ UNCHANGED over
  /\ outcome' = None
  /\ given' = totals.steps
  /\ depth' = 0

(* Mutant of BackFromCall: SP not compared *)
BackByAddress == pc = over.next

BackFromCall == pc = over.next /\ sp = over.sp

(* What the last one-step run reported, if it was no mere step limit *)
RunStopped == result # None /\ result.reason # "step_limit"

OverEnds ==
  /\ cmd = "over" /\ phase = "idle"
  /\ \/ RunStopped /\ outcome' = result.reason
     \/ ~RunStopped /\ over.left = 0 /\ outcome' = "gave up"
     \/ /\ ~RunStopped /\ over.left > 0 /\ BackFromCall
        /\ outcome' = "returned"
     \/ /\ ~RunStopped /\ over.left > 0 /\ ~BackFromCall
        /\ pc \in breakpoints
        /\ outcome' = "breakpoint"
  /\ cmd' = "none"
  /\ result' = None
  /\ UNCHANGED <<sessionButRun, phase, run, over, given, depth>>

OverRuns ==
  /\ cmd = "over" /\ phase = "idle"
  /\ ~RunStopped /\ over.left > 0
  /\ ~BackFromCall /\ pc \notin breakpoints
  /\ StartRun(1, FALSE)
  /\ over' = [over EXCEPT !.left = @ - 1]
  /\ UNCHANGED <<cmd, outcome, given, depth>>

-----------------------------------------------------------------------------
(* reset: assert the line, one step, release the line *)

ResetCommand ==
  /\ Free
  /\ totals.steps < SessionSteps
  /\ resetPending' = TRUE
  /\ before' = [kind |-> NextBoundary', undisturbed |-> TRUE]
  /\ accesses' = {}
  /\ caller' = "user"
  /\ phase' = IF DevicesBefore THEN "devices" ELSE "cpu"
  /\ Quiet("host")
  /\ cmd' = "reset"
  /\ given' = totals.steps
  /\ depth' = 0
  /\ UNCHANGED <<regs, ctl, intVector, nmiPending, saved, afterEI, breakpoints,
                 watchpoints, tracking, history, totals, work, run, result,
                 over, outcome>>

(* Mutant of ResetEnds: the line not released *)
ResetHeld ==
  /\ cmd = "reset" /\ phase = "idle"
  /\ Quiet("host")
  /\ cmd' = "none"
  /\ UNCHANGED <<regs, ctl, lines, saved, afterEI, svars, over, outcome, given,
                 depth>>

ResetEnds ==
  /\ cmd = "reset" /\ phase = "idle"
  /\ resetPending' = FALSE
  /\ Quiet("host")
  /\ cmd' = "none"
  /\ UNCHANGED <<regs, ctl, intVector, nmiPending, saved, afterEI, svars,
                 over, outcome, given, depth>>

-----------------------------------------------------------------------------
(* set writes one register of the CPU; a halted CPU stays halted, an EI     *)
(* delay stays armed.  The registers that are not modelled change nothing.  *)
SetRegister ==
  /\ Free
  /\ \E v \in SetValues :
       \/ pc' = v /\ UNCHANGED <<sp, i>>
       \/ sp' = v /\ UNCHANGED <<pc, i>>
       \/ i' = Lo(v) /\ UNCHANGED <<pc, sp>>
  /\ Quiet("host")
  /\ UNCHANGED <<ram, ctl, lines, saved, afterEI, svars, consoleVars>>

-----------------------------------------------------------------------------
(* The session at work under a command.  A step that raises ends the whole *)
(* command: the exception is no CommandError and leaves execute().         *)
CommandWork ==
  /\ SessionWork
  /\ TrackDepth
  /\ cmd' = IF event'.kind = "refused" /\ phase = "cpu" THEN "none" ELSE cmd
  /\ UNCHANGED <<over, outcome, given>>

PlainCommand ==
  /\ Free
  /\ UserAction
  /\ UNCHANGED consoleVars

ConsoleInit ==
  /\ SessionInit
  /\ cmd = "none"
  /\ over = [next |-> 0, sp |-> 0, left |-> 0]
  /\ outcome = None
  /\ given = 0
  /\ depth = 0

CommandStep ==
  \/ CommandWork
  \/ ContinueRuns
  \/ ContinueEnds
  \/ OverEnds
  \/ OverRuns
  \/ ResetEnds

ConsoleNext ==
  \/ CommandStep
  \/ PlainCommand
  \/ SetRegister
  \/ ContinueCommand
  \/ OverCommand
  \/ ResetCommand

ConsoleSpec == ConsoleInit /\ [][ConsoleNext]_cdvars

FairConsole == ConsoleSpec /\ WF_cdvars(CommandStep)

-----------------------------------------------------------------------------
(* Properties *)

(* When over says the call returned, it has: every call made and every     *)
(* interrupt accepted since is closed again, through recursion of the      *)
(* routine and an interrupt taken before the CALL itself (console.py,      *)
(* _over: control back after the call with the stack where it was).        *)
OverReturnsToCaller ==
  [][cmd = "over" /\ cmd' = "none" /\ outcome' = "returned" => depth = 0]_cdvars

(* Every command comes back to the prompt, one whose step raises included, *)
(* and with the RESET line released (console.py, execute; the user's own   *)
(* calls never assert RESET): a line left high would reset every step.     *)
CommandsEnd == ~Free ~> (Free /\ ~resetPending)

(* A watched access stops the command that makes it, the step with which   *)
(* continue leaves a breakpoint included (console.py, help of watch: stop  *)
(* after a step that touches the byte).                                    *)
ContinueStopsOnWatch ==
  cmd = "continue" /\ phase = "top" /\ run.steps = 0 /\ totals.steps > given
    => WatchHits = {}

=============================================================================
