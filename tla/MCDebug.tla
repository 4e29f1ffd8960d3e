------------------------------ MODULE MCDebug ------------------------------
(* A debug session over a guest of eight addresses with two handlers.      *)
EXTENDS DebugSession

Ins(op, arg) == {[op |-> op, len |-> 1, arg |-> arg]}

(* 0 EI / 1 HALT / 2 JP 0; the INT handler RETI at 3, the NMI's RETN at 4; *)
(* the stack grows down from the top.                                      *)
Guest ==
  [a \in Addr |-> CASE a = 0 -> Ins("EI", 0)
                    [] a = 1 -> Ins("HALT", 0)
                    [] a = 2 -> Ins("JP", 0)
                    [] OTHER -> Ins("RETN", 0)]

ZeroRam == {[a \in Addr |-> 0]}

(* Vector 1 is a RST opcode; 0 is none and makes step() raise in IM 0 *)
TwoVectors  == {0, 1}
OneVector   == {1}
OneRst      == {1}
OneRstEntry == [v \in OneRst |-> 3]

(* T-states scaled down: an acceptance costs two units *)
ScaledCost == [k \in BoundaryKinds |-> IF k \in {"int", "nmi"} THEN 2 ELSE 1]

Calls == {"request_maskable_interrupt", "clear_maskable_interrupt",
          "request_non_maskable_interrupt"}

=============================================================================
