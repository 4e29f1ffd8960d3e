------------------------------ MODULE Opcodes ------------------------------
(* The fields of an opcode byte, and what the 8-bit ALU and the rotates    *)
(* choose by them.                                                         *)
EXTENDS Integers

Every8(first) == {first + 8 * k : k \in 0 .. 7}

Field(op) == (op \div 8) % 8   \* bits 5-3
Low(op)   == op % 8            \* bits 2-0
PairOf(op) == (op \div 16) % 4 \* bits 5-4

AluNames == <<"ADD", "ADC", "SUB", "SBC", "AND", "XOR", "OR", "CP">>
RotNames == <<"RLC", "RRC", "RL", "RR", "SLA", "SRA", "SLL", "SRL">>

=============================================================================
