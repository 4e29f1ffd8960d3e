----------------------------- MODULE MCConsole -----------------------------
(* The debugger's commands over a guest with a recursive routine.          *)
EXTENDS CommandDebugger

Ins(op, arg) == {[op |-> op, len |-> 1, arg |-> arg]}

(* 0  EI                                                                   *)
(* 1  CALL 4 / JP 1                                                        *)
(* 4  CALL cc,4 / RET            a routine that may call itself            *)
(* 6  RETI, 7  RETN              the handlers                              *)
Guest ==
  [a \in Addr |-> CASE a = 0 -> Ins("EI", 0)
                    [] a = 1 -> Ins("CALL", 4)
                    [] a = 2 -> Ins("JP", 1)
                    [] a = 4 -> Ins("CALL", 4) \cup Ins("NOP", 0)
                    [] a = 5 -> Ins("RET", 0)
                    [] OTHER -> Ins("RETN", 0)]

ZeroRam     == {[a \in Addr |-> 0]}
OneVector   == {1}
TwoVectors  == {0, 1}
OneRstEntry == [v \in OneVector |-> 6]
UnitCost    == [k \in BoundaryKinds |-> 1]
Calls       == {"request_maskable_interrupt", "request_non_maskable_interrupt"}
IntCalls    == {"request_maskable_interrupt"}

=============================================================================
