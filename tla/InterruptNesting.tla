-------------------------- MODULE InterruptNesting --------------------------
(***************************************************************************)
(* The CPU of Z80Lifecycle running a guest program with interrupt          *)
(* handlers, and devices with a bounded number of requests to make.        *)
(*                                                                         *)
(* frames is a history of the acceptances the guest has not returned from  *)
(* yet: what the CPU owes the interrupted code.  A frame is closed by the  *)
(* return instruction that finds SP where its acceptance left it.          *)
(***************************************************************************)
EXTENDS Z80Lifecycle, Sequences

CONSTANTS
  MaxInt,   \* bound: maskable requests the devices make
  MaxNmi,   \* bound: NMIs the devices make
  Starts,   \* the guests in memory, by the address they start at
  Sleeper,  \* the one that sleeps until there is a request
  Done      \* where it goes once woken

ASSUME BudgetAssumption ==
  MaxInt \in Nat /\ MaxNmi \in Nat /\ Starts \subseteq Addr

VARIABLES
  guest,       \* which guest runs
  frames,      \* open acceptances, the innermost last
  intBudget, nmiBudget,
  windowNmis   \* NMIs accepted so far inside the EI window of a handler

gvars == <<vars, guest, frames, intBudget, nmiBudget, windowNmis>>

Top == frames[Len(frames)]

Returning ==
  /\ event'.kind = "instruction"
  /\ \E ins \in Program[pc] : ins.op \in {"RETN", "RET"}
  /\ frames # <<>>
  /\ sp = Wrap(Top.sp - 2)

Accepting == event'.kind \in {"int", "nmi"}

(* nested marks a frame that an NMI was accepted inside of *)
Marked == IF event'.kind = "nmi"
            THEN [k \in DOMAIN frames |-> [frames[k] EXCEPT !.nested = TRUE]]
            ELSE frames

TrackFrames ==
  frames' =
    IF Accepting
      THEN Append(Marked, [kind |-> event'.kind, ret |-> pc, sp |-> sp,
                           enabled |-> iff1, window |-> eiDelay = 1,
                           nested |-> FALSE])
    ELSE IF Returning THEN SubSeq(frames, 1, Len(frames) - 1)
    ELSE frames

IntFrames == {k \in DOMAIN frames : frames[k].kind = "int"}

CountWindowNmis ==
  windowNmis' = IF event'.kind = "nmi" /\ eiDelay = 1 /\ IntFrames # {}
                  THEN windowNmis + 1 ELSE windowNmis

(* Requests made between two boundaries, while none is pending, and those  *)
(* made inside the push of an acceptance                                   *)
SpendInt ==
  IF \/ event'.raised.int
     \/ event'.kind = "host" /\ intVector = None /\ intVector' # None
    THEN intBudget > 0 /\ intBudget' = intBudget - 1
    ELSE UNCHANGED intBudget

SpendNmi ==
  IF \/ event'.raised.nmi
     \/ event'.kind = "host" /\ ~nmiPending /\ nmiPending'
    THEN nmiBudget > 0 /\ nmiBudget' = nmiBudget - 1
    ELSE UNCHANGED nmiBudget

Account ==
  TrackFrames /\ CountWindowNmis /\ SpendInt /\ SpendNmi /\ UNCHANGED guest

(* The host sets PC to the guest's start; the rest is a new CPU *)
GuestInit ==
  /\ guest \in Starts
  /\ InitAt(guest)
  /\ frames = <<>>
  /\ intBudget = MaxInt /\ nmiBudget = MaxNmi
  /\ windowNmis = 0

GuestStep   == Step /\ Account
GuestDevice == HostAction /\ Account

GuestNext == GuestStep \/ GuestDevice

GuestSpec == GuestInit /\ [][GuestNext]_gvars

(* The host keeps stepping *)
FairGuest == GuestSpec /\ WF_gvars(GuestStep)

-----------------------------------------------------------------------------
(* Properties *)

(* An interrupt is invisible to the code it interrupts: the return that    *)
(* closes a frame takes up PC and SP exactly where the acceptance found    *)
(* them, across wrapping pushes, nested acceptances, subroutine calls in   *)
(* the handlers and a HALT that was woken (_core.py, _push_word,           *)
(* _pop_word and both acceptances; _control.py, _ret_iff).                 *)
ReturnsToInterrupted ==
  [][Returning /\ Len(frames') < Len(frames)
       => pc' = Top.ret /\ sp' = Top.sp]_gvars

(* RETN gives back the enable that its NMI took: IFF1 after the return is  *)
(* IFF1 before the acceptance, unless a further NMI came in between, whose *)
(* acceptance overwrites IFF2, or the opt-in erratum dropped it.           *)
NmiGivesEnableBack ==
  [][Returning /\ Len(frames') < Len(frames) /\ Top.kind = "nmi" /\ ~Top.nested
       => iff1' = (Top.enabled /\ ~(Erratum /\ Top.window))]_gvars

(* What the EI delay is for: a handler that ends in EI; RETI has returned  *)
(* before the next maskable interrupt is accepted, so handlers do not pile *)
(* up on the stack however fast requests come.  Only an NMI accepted       *)
(* between the EI and the RETI can defeat it, once per such NMI, because   *)
(* its RETN enables INT at once; with the erratum not even that can.       *)
HandlersDoNotPileUp ==
  Cardinality(IntFrames) <= 1 + (IF Erratum THEN 0 ELSE windowNmis)

(* Two NMIs at once: the second finds IFF1 cleared and leaves IFF2 so *)
NmisOverlap == Cardinality({k \in DOMAIN frames : frames[k].kind = "nmi"}) > 1

(* Every maskable request is served in the end, whatever comes before it,  *)
(* by a guest that enables interrupts in its loop, on a host that keeps    *)
(* stepping; unless NMIs overlap, which may cost the guest its enable.     *)
EveryRequestServed ==
  [](~NmisOverlap) =>
    ((intVector # None /\ guest # Sleeper) ~> (intVector = None))

(* No lost wake-up: a guest that checks for work with interrupts disabled  *)
(* and then executes EI; HALT wakes and goes on if a request was made at   *)
(* any time, before, during or after the check.  One accepted between the  *)
(* EI and the HALT would be gone when the CPU halts, for good; an NMI that *)
(* returns into that window does open it.                                  *)
WakeUpNotLost ==
  [](event.kind # "nmi") =>
    ((guest = Sleeper /\ intBudget < MaxInt) ~> (pc = Done /\ ~halted))

=============================================================================
