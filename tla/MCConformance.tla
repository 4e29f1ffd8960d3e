--------------------------- MODULE MCConformance ---------------------------
(* Manifests over a machine of sixteen addresses.                          *)
EXTENDS Conformance

Ins(op, arg) == {[op |-> op, len |-> 1, arg |-> arg]}

(* 0 warm boot / 1 EI / 2 CALL 5 / 3 HALT / 4 JP 6 / 5 the BDOS entry /    *)
(* 6 CALL 5 / 7 JP 2; the handlers are at 8 and 9.                         *)
Guest ==
  [a \in Addr |-> CASE a = 1 -> Ins("EI", 0)
                    [] a \in {2, 6} -> Ins("CALL", 5)
                    [] a = 3 -> Ins("HALT", 0)
                    [] a = 4 -> Ins("JP", 6)
                    [] a = 7 -> Ins("JP", 2)
                    [] a \in {8, 9} -> Ins("RETN", 0)
                    [] OTHER -> Ins("NOP", 0)]

(* 1 JP 5, with the stack as the manifest's memory has it *)
TailCallGuest ==
  [a \in Addr |-> IF a = 1 THEN Ins("JP", 5) ELSE Ins("NOP", 0)]

(* The call at 2 prints a character and the one at 6 a text; a jump to the *)
(* entry finds a return address of the memory, 10, 11 or 14.               *)
GuestBdos ==
  [a \in Addr |-> CASE a = 7 -> [function |-> 9, text |-> 10]
                    [] a = 10 -> [function |-> 1, text |-> 0]
                    [] a = 11 -> [function |-> 0, text |-> 0]
                    [] OTHER -> [function |-> 2, text |-> 0]]

(* Bytes are 0..3; '$' is 3.  A word of the     *)
(* filled memory is 10, 11 or 14, which is no trapped address.             *)
FilledRam == {[a \in Addr |-> IF a = 12 THEN 3 ELSE 2]}
ZeroRam   == {[a \in Addr |-> 0]}

Vector1     == {0, 1}
OneRst      == {1}
OneRstEntry == [v \in OneRst |-> 8]

(* What a manifest may start from: any PC, flags and pending requests *)
Manifests ==
  [pc : Addr, sp : {0, 10}, i : {0}, iff1 : BOOLEAN, iff2 : {TRUE},
   im : {0, 1}, halted : BOOLEAN, eiDelay : {0, 1}, resetPending : {FALSE},
   intVector : {None, 0, 1}, nmiPending : BOOLEAN]

Start(a) ==
  {[pc |-> a, sp |-> 0, i |-> 0, iff1 |-> TRUE, iff2 |-> TRUE, im |-> 1,
    halted |-> FALSE, eiDelay |-> 0, resetPending |-> FALSE,
    intVector |-> None, nmiPending |-> FALSE]}

FromOne == Start(1)

NoEvents == {<<>>}

At(n, kind) == [at |-> n, kind |-> kind, vector |-> 1]

SomeEvents == <<At(1, "int"), At(1, "nmi"), At(3, "int"), At(4, "int_clear"),
                At(5, "reset"), At(6, "reset_clear")>>

WithAndWithout == {<<>>, SomeEvents}

EventHost == {"request_reset", "clear_reset", "request_maskable_interrupt",
              "clear_maskable_interrupt", "request_non_maskable_interrupt"}

=============================================================================
