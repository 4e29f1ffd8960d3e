----------------------------- MODULE Arithmetic -----------------------------
(***************************************************************************)
(* Sequences of arithmetic instructions: what the operations of Alu and    *)
(* the Q latch that SCF and CCF read do one after another.                 *)
(*                                                                         *)
(* A behaviour is an experiment: a short program, each place of which      *)
(* allows some instructions, on some starting registers.  The register     *)
(* operand is A and the pair HL; WZ and R, which no property reads, are    *)
(* left out here and are in InstructionSet.                                *)
(***************************************************************************)
EXTENDS Alu, Sequences

CONSTANT Experiments  \* records [program, a, m, hl, f]: a sequence of
                      \* sets of <<operation, operand>>, and the values
                      \* each register may start with

(* The operands of an 8-bit operation are bytes *)
ByteOperations == AluOps \cup {"LD A,n"}

ASSUME ExperimentsAssumption ==
  \A e \in Experiments :
    /\ e.a \subseteq Bytes /\ e.m \subseteq Bytes /\ e.hl \subseteq Words
    /\ e.f \subseteq SUBSET DOMAIN FlagNames
    /\ e.program \in Seq(SUBSET (STRING \X Words))
    /\ \A k \in DOMAIN e.program : \A ins \in e.program[k] :
         ins[1] \in ByteOperations => ins[2] \in Bytes

VARIABLES
  a, m, hl,  \* A, the byte at (HL), and HL as a 16-bit operand
  f, q,      \* _f and q
  todo,      \* what is left of the program
  trail      \* history: each step taken, with the registers it found

avars == <<a, m, hl, f, q, todo, trail>>

-----------------------------------------------------------------------------
(* The instructions *)

NextPlace == IF todo = <<>> THEN {} ELSE Head(todo)

Take(ins) ==
  /\ todo' = Tail(todo)
  /\ trail' = Append(trail, [op |-> ins[1], y |-> ins[2], a |-> a, m |-> m, hl |-> hl, f |-> f])

(* A handler that writes flags ends with q = f; one that does not, with 0 *)
WritesFlags(fl) == f' = fl /\ q' = fl
KeepsFlags      == f' = f /\ q' = {}

OnA(result) == a' = result.r /\ WritesFlags(result.f)

OpAlu ==
  /\ \E ins \in NextPlace :
       ins[1] \in AluOps /\ Take(ins) /\ OnA(AluA(ins[1], a, ins[2], f))
  /\ UNCHANGED <<m, hl>>

OpNeg ==
  /\ \E ins \in NextPlace : ins[1] = "NEG" /\ Take(ins)
  /\ OnA(Sub(0, a, 0))
  /\ UNCHANGED <<m, hl>>

OpIncDec ==
  /\ \E ins \in NextPlace :
       \/ ins[1] = "INC" /\ Take(ins) /\ OnA(Increment(a, f))
       \/ ins[1] = "DEC" /\ Take(ins) /\ OnA(Decrement(a, f))
  /\ UNCHANGED <<m, hl>>

OpDaa ==
  /\ \E ins \in NextPlace : ins[1] = "DAA" /\ Take(ins)
  /\ OnA(DecimalAdjust(a, f))
  /\ UNCHANGED <<m, hl>>

OpCpl ==
  /\ \E ins \in NextPlace : ins[1] = "CPL" /\ Take(ins)
  /\ OnA(Complement(a, f))
  /\ UNCHANGED <<m, hl>>

(* Behind a DD or FD prefix the opcode finds Q cleared by the prefix's M1 *)
Prefixed == [SCF |-> "DD SCF", CCF |-> "DD CCF"]

OpScfCcf ==
  /\ \E ins \in NextPlace :
       \/ ins[1] \in {"SCF", "CCF"} /\ Take(ins) /\ WritesFlags(ScfCcfFlags(ins[1], a, f, q))
       \/ \E op \in DOMAIN Prefixed :
            ins[1] = Prefixed[op] /\ Take(ins) /\ WritesFlags(ScfCcfFlags(op, a, f, {}))
  /\ UNCHANGED <<a, m, hl>>

HlResult(op, y) ==
  CASE op = "ADD HL" -> Add16KeepSzpv(hl, y, f)
    [] op = "ADC HL" -> Add16(hl, y, Carry(f))
    [] op = "SBC HL" -> Sub16(hl, y, Carry(f))

OpHl ==
  /\ \E ins \in NextPlace :
       /\ ins[1] \in {"ADD HL", "ADC HL", "SBC HL"}
       /\ Take(ins)
       /\ LET result == HlResult(ins[1], ins[2])
          IN hl' = result.r /\ WritesFlags(result.f)
  /\ UNCHANGED <<a, m>>

OpRot ==
  /\ \E ins \in NextPlace :
       \/ ins[1] \in RotOps /\ Take(ins) /\ OnA(RotApply(ins[1], a, f))
       \/ ins[1] \in AccumulatorOps /\ Take(ins) /\ OnA(RotAccumulator(ins[1], a, f))
  /\ UNCHANGED <<m, hl>>

(* RRD and RLD: the two digits of (HL) and the low digit of A go round *)
DigitInA(digit) ==
  LET r == (a \div 16) * 16 + digit
  IN OnA([r |-> r, f |-> (f \cap {"C"}) \cup SZXYP(r)])

OpRrd ==
  /\ \E ins \in NextPlace : ins[1] = "RRD" /\ Take(ins)
  /\ m' = (m \div 16) + 16 * (a % 16)
  /\ DigitInA(m % 16)
  /\ UNCHANGED hl

OpRld ==
  /\ \E ins \in NextPlace : ins[1] = "RLD" /\ Take(ins)
  /\ m' = 16 * (m % 16) + (a % 16)
  /\ DigitInA(m \div 16)
  /\ UNCHANGED hl

(* LD A,n *)
OpLdAN ==
  /\ \E ins \in NextPlace : ins[1] = "LD A,n" /\ Take(ins) /\ a' = ins[2]
  /\ KeepsFlags
  /\ UNCHANGED <<m, hl>>

(* INC HL *)
OpIncRr ==
  /\ \E ins \in NextPlace : ins[1] = "INC HL" /\ Take(ins)
  /\ hl' = Wrap16(hl + 1)
  /\ KeepsFlags
  /\ UNCHANGED <<a, m>>

(* Mutant of OpPopAf: the popped F latched as if the ALU had written it *)
OpPopAfLatched ==
  /\ \E ins \in NextPlace :
       /\ ins[1] = "POP AF" /\ Take(ins)
       /\ a' = Hi(ins[2]) /\ WritesFlags(FlagsOf(Lo(ins[2])))
  /\ UNCHANGED <<m, hl>>

(* POP AF: F changes, but the ALU did not write it *)
OpPopAf ==
  /\ \E ins \in NextPlace :
       /\ ins[1] = "POP AF" /\ Take(ins)
       /\ a' = Hi(ins[2]) /\ f' = FlagsOf(Lo(ins[2]))
  /\ q' = {}
  /\ UNCHANGED <<m, hl>>

(* A boundary with no instruction in it: an acceptance, or HALT idling *)
NoInstruction ==
  /\ \E ins \in NextPlace : ins[1] = "no instruction" /\ Take(ins)
  /\ KeepsFlags
  /\ UNCHANGED <<a, m, hl>>

ArithmeticInit ==
  /\ \E e \in Experiments :
       /\ todo = e.program
       /\ a \in e.a /\ m \in e.m /\ hl \in e.hl /\ f \in e.f
  /\ q = {}
  /\ trail = <<>>

ArithmeticNext ==
  \/ OpAlu \/ OpNeg \/ OpIncDec \/ OpDaa \/ OpCpl \/ OpScfCcf \/ OpHl
  \/ OpRot \/ OpRrd \/ OpRld
  \/ OpLdAN \/ OpIncRr \/ OpPopAf \/ NoInstruction

ArithmeticSpec == ArithmeticInit /\ [][ArithmeticNext]_avars

-----------------------------------------------------------------------------
(* Properties *)

Taken  == Len(trail)
Last   == trail[Taken]
Before == trail[Taken - 1]

Decimal(x) == 10 * (x \div 16) + (x % 16)
IsDecimal(x) == x % 16 <= 9 /\ x \div 16 <= 9

(* An addition or subtraction of decimal bytes followed by DAA leaves the  *)
(* decimal sum or difference modulo 100 in A and the decimal carry or      *)
(* borrow in C, so chains of ADC/DAA and SBC/DAA add and subtract decimal  *)
(* numbers of any length.  It takes H, N and C from _add and _sub, and the *)
(* order of DAA's two corrections, to be right together.                   *)
DecimalChains ==
  (/\ Taken >= 2 /\ Last.op = "DAA" /\ Before.op \in {"ADD", "ADC", "SUB", "SBC"}
   /\ IsDecimal(Before.a) /\ IsDecimal(Before.y))
  => LET c     == IF Before.op \in {"ADC", "SBC"} THEN Carry(Before.f) ELSE 0
         exact == IF Before.op \in {"ADD", "ADC"}
                    THEN Decimal(Before.a) + Decimal(Before.y) + c
                    ELSE Decimal(Before.a) - Decimal(Before.y) - c
     IN /\ IsDecimal(a) /\ Decimal(a) = exact % 100
        /\ "C" \in f <=> exact \notin 0 .. 99

Signed(x) == IF x >= 128 THEN x - 256 ELSE x

(* After an 8-bit addition or subtraction, CP, INC, DEC or NEG, the flags  *)
(* say what happened to the numbers: S and Z of the exact result modulo    *)
(* 256, C for the unsigned carry or borrow (kept by INC and DEC), PV for a *)
(* signed result out of range, H for the digit carry or borrow, and CP's X *)
(* and Y are the operand's.                                                *)
FlagsTellRanges ==
  Taken > 0 =>
    LET op == Last.op
        x  == IF op = "NEG" THEN 0 ELSE Last.a
        y  == CASE op = "NEG" -> Last.a [] op \in {"INC", "DEC"} -> 1 [] OTHER -> Last.y
        c  == IF op \in {"ADC", "SBC"} THEN Carry(Last.f) ELSE 0
        adds == op \in {"ADD", "ADC", "INC"}
        s  == IF adds THEN 1 ELSE -1
        exact == x + s * (y + c)
        range == Signed(x) + s * (Signed(y) + c)
        digit == (x % 16) + s * ((y % 16) + c)
    IN op \in {"ADD", "ADC", "INC", "SUB", "SBC", "CP", "DEC", "NEG"} =>
         /\ a = IF op = "CP" THEN x ELSE exact % 256
         /\ "Z" \in f <=> exact % 256 = 0
         /\ "S" \in f <=> exact % 256 >= 128
         /\ "N" \in f <=> ~adds
         /\ "H" \in f <=> digit \notin 0 .. 15
         /\ "PV" \in f <=> range \notin -128 .. 127
         /\ "C" \in f <=> IF op \in {"INC", "DEC"} THEN "C" \in Last.f
                                                   ELSE exact \notin 0 .. 255
         /\ f \cap {"X", "Y"} = XY(IF op = "CP" THEN y ELSE a)

(* ADC HL and SBC HL compute what ADC/SBC on the low bytes and then on the *)
(* high bytes do: the same result, and the flags of the high step but for  *)
(* Z, which is of both.  ADD HL has their H, C, X and Y and keeps S, Z, PV *)
WideIsTwoNarrow ==
  (Taken > 0 /\ Last.op \in {"ADD HL", "ADC HL", "SBC HL"}) =>
    LET x    == Last.hl
        y    == Last.y
        c    == IF Last.op = "ADD HL" THEN 0 ELSE Carry(Last.f)
        low  == IF Last.op = "SBC HL" THEN Sub(Lo(x), Lo(y), c) ELSE Add(Lo(x), Lo(y), c)
        high == IF Last.op = "SBC HL" THEN Sub(Hi(x), Hi(y), Carry(low.f))
                                      ELSE Add(Hi(x), Hi(y), Carry(low.f))
        kept == IF Last.op = "ADD HL" THEN {"S", "Z", "PV"} ELSE {}
    IN /\ hl = 256 * high.r + low.r
       /\ f \ (kept \cup {"Z"}) = high.f \ (kept \cup {"Z"})
       /\ f \cap kept = Last.f \cap kept
       /\ kept = {} => ("Z" \in f <=> hl = 0)

Undoes == [RLC |-> "RRC", RRC |-> "RLC", RL |-> "RR", RR |-> "RL",
           RLCA |-> "RRCA", RRCA |-> "RLCA", RLA |-> "RRA", RRA |-> "RLA",
           RRD |-> "RLD", RLD |-> "RRD"]

(* A rotate followed by its opposite gives A and (HL) back, and those      *)
(* through C give C back too; nine of them in one direction do as well.    *)
RotationsUndone ==
  /\ (Taken >= 2 /\ Before.op \in DOMAIN Undoes /\ Last.op = Undoes[Before.op]) =>
       /\ a = Before.a /\ m = Before.m
       /\ Before.op \in {"RL", "RR", "RLA", "RRA"} => ("C" \in f <=> "C" \in Before.f)
  /\ (Taken = 9 /\ \E op \in {"RL", "RR"} : \A k \in 1 .. 9 : trail[k].op = op) =>
       a = trail[1].a /\ ("C" \in f <=> "C" \in trail[1].f)

FlagWriters == AluOps \cup RotOps \cup AccumulatorOps
                 \cup {"NEG", "INC", "DEC", "DAA", "CPL", "SCF", "CCF", "DD SCF",
                       "DD CCF", "ADD HL", "ADC HL", "SBC HL", "RRD", "RLD"}

(* X and Y after SCF or CCF are A's alone when the instruction before it   *)
(* wrote flags, and A's or the old F's when it did not: a load, POP AF, an *)
(* acceptance, or a DD/FD prefix on the instruction itself.                *)
ScfCcfSeeLastWriter ==
  (Taken >= 2 /\ Last.op \in {"SCF", "CCF", "DD SCF", "DD CCF"}) =>
    f \cap {"X", "Y"} =
      XY(a) \cup (IF Before.op \in FlagWriters /\ Last.op \in {"SCF", "CCF"}
                    THEN {} ELSE Last.f \cap {"X", "Y"})

=============================================================================
