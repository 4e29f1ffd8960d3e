-------------------------- MODULE InterruptContract --------------------------
(***************************************************************************)
(* What the CPU promises a host about interrupts, without registers,       *)
(* memory or instructions (cpu.py, step and the request methods): three    *)
(* request lines, a mask, and whether the CPU sleeps.                      *)
(*                                                                         *)
(* The mask is "off", "on", or "arming": enabled, but not before one more  *)
(* piece of work is done.  Work is done only while there is nothing to     *)
(* serve, RESET is served before NMI and NMI before INT, every service     *)
(* wakes the CPU and masks INT, and only work takes the mask from          *)
(* "arming" to "on".                                                       *)
(***************************************************************************)

VARIABLES
  resetLine,   \* level, the host's
  nmiLatch,    \* cleared by its service
  intLine,     \* cleared by its service
  mask,
  asleep

cvars == <<resetLine, nmiLatch, intLine, mask, asleep>>

ContractInit ==
  /\ resetLine = FALSE /\ nmiLatch = FALSE /\ intLine = FALSE
  /\ mask = "off"
  /\ asleep = FALSE

(* While RESET is asserted every step serves it again *)
ServeReset ==
  /\ resetLine
  /\ mask' = "off" /\ asleep' = FALSE
  /\ UNCHANGED <<resetLine, nmiLatch, intLine>>

(* Devices may raise anything while they are being served, and what they   *)
(* raise stays.  An NMI enters with INT masked, and in the EI window too.  *)
ServeNmi ==
  /\ ~resetLine /\ nmiLatch
  /\ mask' = "off" /\ asleep' = FALSE
  /\ nmiLatch' \in BOOLEAN
  /\ intLine => intLine'
  /\ intLine' \in BOOLEAN
  /\ UNCHANGED resetLine

ServeInt ==
  /\ ~resetLine /\ ~nmiLatch /\ intLine
  /\ mask = "on"
  /\ mask' = "off" /\ asleep' = FALSE
  /\ nmiLatch' \in BOOLEAN /\ intLine' \in BOOLEAN
  /\ UNCHANGED resetLine

NothingServable == ~resetLine /\ ~nmiLatch /\ ~(intLine /\ mask = "on")

(* An instruction: EI arms, DI masks, RETN restores an earlier enable at   *)
(* once, HALT sleeps.  Whatever else it is, an arming mask is on after it. *)
Work ==
  /\ NothingServable
  /\ ~asleep
  /\ asleep' \in BOOLEAN
  /\ \/ mask' \in {"off", "arming"} /\ asleep' = FALSE
     \/ mask # "off" /\ mask' = "on"
     \/ mask = "off" /\ mask' = "on" /\ asleep' = FALSE
     \/ mask = "off" /\ mask' = "off"
  /\ UNCHANGED <<resetLine, nmiLatch, intLine>>

(* A sleeping CPU marks time: it stays asleep and unmasks nothing but what *)
(* was arming.                                                             *)
Idling ==
  /\ NothingServable
  /\ asleep
  /\ mask' = IF mask = "arming" THEN "on" ELSE mask
  /\ UNCHANGED <<resetLine, nmiLatch, intLine, asleep>>

(* The host moves one line at a time *)
Signal ==
  /\ \/ resetLine' \in BOOLEAN /\ UNCHANGED <<nmiLatch, intLine>>
     \/ nmiLatch' \in BOOLEAN /\ UNCHANGED <<resetLine, intLine>>
     \/ intLine' \in BOOLEAN /\ UNCHANGED <<resetLine, nmiLatch>>
  /\ UNCHANGED <<mask, asleep>>

ContractNext ==
  \/ ServeReset
  \/ ServeNmi
  \/ ServeInt
  \/ Work
  \/ Idling
  \/ Signal

ContractSpec == ContractInit /\ [][ContractNext]_cvars

=============================================================================
