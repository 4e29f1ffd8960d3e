----------------------------- MODULE MCNesting -----------------------------
(* Two guests that share their handlers, on a machine of 36 addresses.     *)
EXTENDS InterruptNesting

Ins(op, len, arg) == {[op |-> op, len |-> len, arg |-> arg]}

(* Handlers:                                                               *)
(* 0  INT:  CALL 6 / EI / RETI                                             *)
(* 6  sub:  RET                                                            *)
(* 7  NMI:  RETN                                                           *)
(* A guest that enables interrupts in its loop:                            *)
(* 10       IM 1                                                           *)
(* 12 loop: EI / HALT / JP loop                                            *)
(* A guest that sleeps until a request:                                    *)
(* 18       IM 1                                                           *)
(* 20       an instruction of any check, interrupts disabled               *)
(* 21       EI / HALT                                                      *)
(* 23 done: JP done                                                        *)
(* The stack starts at SP = 0 and grows down from the top of memory.       *)
Check == Ins("NOP", 1, 0) \cup Ins("PUSH", 1, 9) \cup Ins("LD SP", 1, 34)

Guests ==
  [a \in Addr |->
     CASE a = 0  -> Ins("CALL", 3, 6)
       [] a = 3  -> Ins("EI", 1, 0)
       [] a = 4  -> Ins("RETN", 2, 0)
       [] a = 6  -> Ins("RET", 1, 0)
       [] a = 7  -> Ins("RETN", 2, 0)
       [] a \in {10, 18} -> Ins("IM", 2, 1)
       [] a \in {12, 21} -> Ins("EI", 1, 0)
       [] a \in {13, 22} -> Ins("HALT", 1, 0)
       [] a = 14 -> Ins("JP", 3, 12)
       [] a = 20 -> Check
       [] a = 23 -> Ins("JP", 3, 23)
       [] OTHER  -> {}]

ZeroRam == {[a \in Addr |-> 0]}
OneVector == {1}
OneRstEntry == [v \in OneVector |-> 0]
Devices == {"request_maskable_interrupt", "request_non_maskable_interrupt"}

=============================================================================
