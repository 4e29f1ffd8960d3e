---------------------------- MODULE MCLifecycle ----------------------------
(* Small instances of the CPU lifecycle under any program.                 *)
EXTENDS Z80Lifecycle

(* The lengths and operands the runs give each instruction.  Lengths are   *)
(* 1, except that a RETN is two bytes and a NOP may be a prefixed one.     *)
Plain(op)     == [op |-> op, len |-> 1, arg |-> 0]
With(op, arg) == [op |-> op, len |-> 1, arg |-> arg]

FlagInstr == {Plain("EI"), Plain("DI"), Plain("HALT"), Plain("NOP"),
              [op |-> "RETN", len |-> 2, arg |-> 0]}

StackInstr == {Plain("RET"), With("CALL", 1), With("RST", 3), With("JP", 2),
               With("PUSH", 2), Plain("POP"), With("LD SP", 1),
               With("LD I", 1), With("LD (nn)", 3)}

ModeInstr == {With("IM", m) : m \in 0..2}

(* Any program: every instruction may be found at every address *)
AnyProgram == [a \in Addr |-> FlagInstr \cup StackInstr \cup ModeInstr]

(* A guest of three routines: the foreground at 0, the NMI handler at 2,   *)
(* the INT handler at 3.                                                   *)
GuestProgram ==
  [a \in Addr |-> CASE a = 0 -> {Plain("EI"), Plain("DI")}
                    [] a = 1 -> {Plain("HALT"), With("JP", 0)}
                    [] OTHER -> {Plain("RETN")}]

ZeroRam == {[a \in Addr |-> 0]}

(* The RST opcodes among the bytes of the instance, and their entries *)
OneRst      == {1}
OneRstEntry == [v \in OneRst |-> 3]

TwoVectors == {0, 1}
OneVector  == {1}

Requests == {"request_reset", "request_maskable_interrupt",
             "request_non_maskable_interrupt"}
Cancels  == {"clear_reset", "clear_maskable_interrupt",
             "clear_non_maskable_interrupt"}
Snapshots == {"capture_state", "restore_state"}

AnyHost == Requests \cup Cancels

(* A debugger that saves and loads the CPU and single-steps it with the   *)
(* compatibility entry, while devices interrupt it                         *)
DebuggerHost == Snapshots \cup {"request_maskable_interrupt",
                                "request_non_maskable_interrupt",
                                "decode_and_execute"}

=============================================================================
