--------------------------- MODULE MCArithmetic ---------------------------
(* The experiments: what is computed, on which registers.                 *)
EXTENDS Arithmetic

Any(ops, ys) == ops \X ys

DecimalBytes == {x \in Bytes : IsDecimal(x)}

(* Where carries, borrows and signs change *)
EdgeBytes == {0, 1, 8, 15, 16, 40, 127, 128, 129, 153, 170, 240, 255}
EdgeWords == {0, 1, 255, 256, 4095, 4096, 10280, 32512, 32767, 32768, 33023, 65535}

NoFlags  == {{}}
CarryOr0 == {{}, {"C"}}

Decimals == [program |-> <<Any({"ADD", "ADC", "SUB", "SBC"}, DecimalBytes), Any({"DAA"}, {0})>>,
             a |-> DecimalBytes, m |-> {0}, hl |-> {0}, f |-> CarryOr0]

Ranges == [program |-> <<Any(AluOps \cup {"NEG", "INC", "DEC"}, EdgeBytes)>>,
           a |-> Bytes, m |-> {0}, hl |-> {0}, f |-> CarryOr0]

Wide == [program |-> <<Any({"ADD HL", "ADC HL", "SBC HL"}, EdgeWords)>>,
         a |-> {0}, m |-> {0}, hl |-> EdgeWords, f |-> {{}, {"C"}, {"S", "Z", "PV"}, {"X", "H", "C"}}]

Rotates == [program |-> [k \in 1 .. 2 |-> Any(RotOps \cup AccumulatorOps, {0})],
            a |-> Bytes, m |-> {0}, hl |-> {0}, f |-> {{}, {"C"}, {"S", "Z", "PV", "H", "N"}}]

NineRotates == [program |-> [k \in 1 .. 9 |-> Any({"RL", "RR"}, {0})],
                a |-> {0, 1, 90, 255}, m |-> {0}, hl |-> {0}, f |-> CarryOr0]

Digits == [program |-> [k \in 1 .. 2 |-> Any({"RRD", "RLD"}, {0})],
           a |-> Bytes, m |-> EdgeBytes, hl |-> {0}, f |-> CarryOr0]

Others == {"DAA", "CPL", "LD A,n", "INC HL", "no instruction"}

Latches == [program |-> [k \in 1 .. 3 |->
              Any(Others \cup {"OR", "CP", "SCF", "CCF", "DD SCF", "DD CCF", "RLCA"}, {0, 8, 33})
                \cup Any({"POP AF"}, {0, 2048, 40, 2081})],
            a |-> {0, 8, 32}, m |-> {0}, hl |-> {65535}, f |-> {{}, {"X", "C"}, {"Y"}}]

AllExperiments == {Decimals, Ranges, Wide, Rotates, NineRotates, Digits, Latches}

=============================================================================
