-------------------------------- MODULE Alu --------------------------------
(***************************************************************************)
(* What _alu.py, _rotate.py and _flags.py compute: a result and the new F. *)
(*                                                                         *)
(* F is the set of the flags that are on, and so is Q: {} stands for both  *)
(* "0" and "flags not written", as it does in the code.                    *)
(***************************************************************************)
EXTENDS Integers, FiniteSets

(* Bytes, bits by their weight, and the tables of _flags.py *)

Bytes == 0 .. 255
Words == 0 .. 65535

Bit(x, weight) == (x \div weight) % 2

Hi(w) == w \div 256
Lo(w) == w % 256
Wrap16(x) == x % 65536

Weights == {1, 2, 4, 8, 16, 32, 64, 128}

BitsOf(x)    == {w \in Weights : Bit(x, w) = 1}
FromBits(ws) ==
  LET value(w) == IF w \in ws THEN w ELSE 0
  IN value(1) + value(2) + value(4) + value(8) + value(16) + value(32) + value(64) + value(128)

On(condition, flag) == IF condition THEN {flag} ELSE {}

XY(x) == On(Bit(x, 32) = 1, "Y") \cup On(Bit(x, 8) = 1, "X")

SZXY(x) == On(x >= 128, "S") \cup On(x = 0, "Z") \cup XY(x)

Parity(x) == On(Cardinality(BitsOf(x)) % 2 = 0, "PV")

SZXYP(x) == SZXY(x) \cup Parity(x)

(* A byte as F *)
FlagNames == [S |-> 128, Z |-> 64, Y |-> 32, H |-> 16, X |-> 8, PV |-> 4, N |-> 2, C |-> 1]
FlagsOf(x) == {flag \in DOMAIN FlagNames : Bit(x, FlagNames[flag]) = 1}

Carry(fl) == IF "C" \in fl THEN 1 ELSE 0

(* bit `weight` of the exclusive or *)
Odd3(x, y, r, weight) == (Bit(x, weight) + Bit(y, weight) + Bit(r, weight)) % 2 = 1

-----------------------------------------------------------------------------
(* Eight-bit arithmetic: the result and the new F *)

Add(x, y, carry) ==
  LET z == x + y + carry  r == z % 256
  IN [r |-> r,
      f |-> SZXY(r) \cup On(Odd3(x, y, r, 16), "H") \cup On(z > 255, "C")
              \cup On(Bit(x, 128) = Bit(y, 128) /\ Bit(x, 128) # Bit(r, 128), "PV")]

(* The flags _sub and _cp both state *)
BorrowFlags(x, y, z, r) ==
  {"N"} \cup On(Odd3(x, y, r, 16), "H") \cup On(z < 0, "C")
    \cup On(Bit(x, 128) # Bit(y, 128) /\ Bit(x, 128) # Bit(r, 128), "PV")

Sub(x, y, carry) ==
  LET z == x - y - carry  r == z % 256
  IN [r |-> r, f |-> SZXY(r) \cup BorrowFlags(x, y, z, r)]

Compare(x, y) ==
  LET z == x - y  r == z % 256
  IN [r |-> x, f |-> (SZXY(r) \cap {"S", "Z"}) \cup XY(y) \cup BorrowFlags(x, y, z, r)]

And(x, y) == LET r == FromBits(BitsOf(x) \cap BitsOf(y)) IN [r |-> r, f |-> SZXYP(r) \cup {"H"}]
Or(x, y)  == LET r == FromBits(BitsOf(x) \cup BitsOf(y)) IN [r |-> r, f |-> SZXYP(r)]
Xor(x, y) == LET r == FromBits((BitsOf(x) \cup BitsOf(y)) \ (BitsOf(x) \cap BitsOf(y)))
             IN [r |-> r, f |-> SZXYP(r)]

(* Mutant of Increment: PV when the result wraps to 0 *)
IncrementPvAtZero(x, fl) ==
  LET r == (x + 1) % 256
  IN [r |-> r, f |-> (fl \cap {"C"}) \cup SZXY(r) \cup On(r % 16 = 0, "H") \cup On(r = 0, "PV")]

Increment(x, fl) ==
  LET r == (x + 1) % 256
  IN [r |-> r, f |-> (fl \cap {"C"}) \cup SZXY(r) \cup On(r % 16 = 0, "H") \cup On(r = 128, "PV")]

Decrement(x, fl) ==
  LET r == (x - 1) % 256
  IN [r |-> r, f |-> (fl \cap {"C"}) \cup SZXY(r) \cup {"N"}
                       \cup On(r % 16 = 15, "H") \cup On(r = 127, "PV")]

(* _alu_a, by group *)
AluA(op, x, y, fl) ==
  CASE op = "ADD" -> Add(x, y, 0)
    [] op = "ADC" -> Add(x, y, Carry(fl))
    [] op = "SUB" -> Sub(x, y, 0)
    [] op = "SBC" -> Sub(x, y, Carry(fl))
    [] op = "AND" -> And(x, y)
    [] op = "XOR" -> Xor(x, y)
    [] op = "OR"  -> Or(x, y)
    [] op = "CP"  -> Compare(x, y)

AluOps == {"ADD", "ADC", "SUB", "SBC", "AND", "XOR", "OR", "CP"}

(* Mutant of DecimalAdjust: the units digit adjusted first, the tens tested *)
(* on what that left                                                       *)
DecimalAdjustUnitsFirst(x, fl) ==
  LET sign  == IF "N" \in fl THEN -1 ELSE 1
      units == IF "H" \in fl \/ x % 16 > 9 THEN (x + 6 * sign) % 256 ELSE x
      over  == "C" \in fl \/ units > 153
      r     == IF over THEN (units + 96 * sign) % 256 ELSE units
  IN [r |-> r, f |-> SZXYP(r) \cup On(Bit(r, 16) # Bit(x, 16), "H")
                       \cup (fl \cap {"N"}) \cup On(over, "C")]

DecimalAdjust(x, fl) ==
  LET sign == IF "N" \in fl THEN -1 ELSE 1
      over == "C" \in fl \/ x > 153
      tens == IF over THEN (x + 96 * sign) % 256 ELSE x
      r    == IF "H" \in fl \/ tens % 16 > 9 THEN (tens + 6 * sign) % 256 ELSE tens
  IN [r |-> r, f |-> SZXYP(r) \cup On(Bit(r, 16) # Bit(x, 16), "H")
                       \cup (fl \cap {"N"}) \cup On(over, "C")]

Complement(x, fl) ==
  LET r == 255 - x
  IN [r |-> r, f |-> (fl \cap {"S", "Z", "PV", "C"}) \cup {"H", "N"} \cup XY(r)]

ScfCcfFlags(op, x, fl, latch) ==
  (fl \cap {"S", "Z", "PV"})
    \cup XY(x) \cup (IF latch # {} THEN {} ELSE fl \cap {"X", "Y"})
    \cup (IF op = "SCF" \/ "C" \notin fl THEN {"C"} ELSE {"H"})

-----------------------------------------------------------------------------
(* Sixteen-bit arithmetic *)

(* Mutant of Add16: H from bit 7, the low byte's *)
Add16HalfOfLowByte(x, y, carry) ==
  LET z == x + y + carry  r == z % 65536
  IN [r |-> r,
      f |-> (SZXY(Hi(r)) \ {"Z"}) \cup On(r = 0, "Z")
              \cup On(Odd3(x, y, r, 256), "H") \cup On(z > 65535, "C")
              \cup On(Bit(x, 32768) = Bit(y, 32768) /\ Bit(x, 32768) # Bit(r, 32768), "PV")]

Add16(x, y, carry) ==
  LET z == x + y + carry  r == z % 65536
  IN [r |-> r,
      f |-> (SZXY(Hi(r)) \ {"Z"}) \cup On(r = 0, "Z")
              \cup On(Odd3(x, y, r, 4096), "H") \cup On(z > 65535, "C")
              \cup On(Bit(x, 32768) = Bit(y, 32768) /\ Bit(x, 32768) # Bit(r, 32768), "PV")]

Add16KeepSzpv(x, y, fl) ==
  LET z == x + y  r == z % 65536
  IN [r |-> r,
      f |-> (fl \cap {"S", "Z", "PV"}) \cup XY(Hi(r))
              \cup On(Odd3(x, y, r, 4096), "H") \cup On(z > 65535, "C")]

Sub16(x, y, carry) ==
  LET z == x - y - carry  r == z % 65536
  IN [r |-> r,
      f |-> (SZXY(Hi(r)) \ {"Z"}) \cup On(r = 0, "Z") \cup {"N"}
              \cup On(Odd3(x, y, r, 4096), "H") \cup On(z < 0, "C")
              \cup On(Bit(x, 32768) # Bit(y, 32768) /\ Bit(x, 32768) # Bit(r, 32768), "PV")]

-----------------------------------------------------------------------------
(* Rotates and shifts: what comes out, and what the result and C then are *)

Rotated(r, out) == [r |-> r, f |-> SZXYP(r) \cup On(out = 1, "C")]

(* Mutant of RotApply: RR shifts the bit it shifted out back in, as RRC *)
RotApplyRrIsRrc(op, x, fl) ==
  LET left(in)  == Rotated((2 * x + in) % 256, Bit(x, 128))
      right(in) == Rotated(x \div 2 + 128 * in, Bit(x, 1))
  IN CASE op = "RLC" -> left(Bit(x, 128))  [] op = "RRC" -> right(Bit(x, 1))
       [] op = "RL"  -> left(Carry(fl))    [] op = "RR"  -> right(Bit(x, 1))
       [] op = "SLA" -> left(0)            [] op = "SRA" -> right(Bit(x, 128))
       [] op = "SLL" -> left(1)            [] op = "SRL" -> right(0)

RotApply(op, x, fl) ==
  LET left(in)  == Rotated((2 * x + in) % 256, Bit(x, 128))
      right(in) == Rotated(x \div 2 + 128 * in, Bit(x, 1))
  IN CASE op = "RLC" -> left(Bit(x, 128))  [] op = "RRC" -> right(Bit(x, 1))
       [] op = "RL"  -> left(Carry(fl))    [] op = "RR"  -> right(Carry(fl))
       [] op = "SLA" -> left(0)            [] op = "SRA" -> right(Bit(x, 128))
       [] op = "SLL" -> left(1)            [] op = "SRL" -> right(0)

RotOps == {"RLC", "RRC", "RL", "RR", "SLA", "SRA", "SLL", "SRL"}

(* The accumulator forms: S, Z and PV kept *)
AccumulatorFlags(r, out, fl) ==
  (fl \cap {"S", "Z", "PV"}) \cup XY(r) \cup On(out = 1, "C")

RotAccumulator(op, x, fl) ==
  LET in == CASE op = "RLCA" -> Bit(x, 128) [] op = "RRCA" -> Bit(x, 1)
              [] op \in {"RLA", "RRA"} -> Carry(fl)
      r  == IF op \in {"RLCA", "RLA"} THEN (2 * x + in) % 256 ELSE x \div 2 + 128 * in
  IN [r |-> r, f |-> AccumulatorFlags(r, Bit(x, IF op \in {"RLCA", "RLA"} THEN 128 ELSE 1), fl)]

AccumulatorOps == {"RLCA", "RRCA", "RLA", "RRA"}

-----------------------------------------------------------------------------
(* The flags of BIT and of the block instructions *)

BitFlags(fl, tested, weight, source) ==
  (fl \cap {"C"}) \cup {"H"} \cup XY(source)
    \cup (IF Bit(tested, weight) = 0 THEN {"Z", "PV"} ELSE On(weight = 128, "S"))

(* X and Y of a transfer or a search: bits 3 and 1 of n, which may be negative *)
BlockXY(n) == On(Bit(n, 8) = 1, "X") \cup On(Bit(n, 2) = 1, "Y")

BlockLdFlags(x, data, bc, fl) ==
  (fl \cap {"S", "Z", "C"}) \cup BlockXY(x + data) \cup On(bc # 0, "PV")

BlockCpFlags(x, data, bc, fl) ==
  LET r    == (x - data) % 256
      half == Odd3(x, data, r, 16)
  IN (fl \cap {"C"}) \cup {"N"} \cup (SZXY(r) \cap {"S", "Z"}) \cup On(half, "H")
       \cup BlockXY(IF half THEN r - 1 ELSE r) \cup On(bc # 0, "PV")

(* total is C +- 1 or L, plus the byte; b is the new B *)
BlockIoFlags(total, data, b) ==
  SZXY(b) \cup On(data >= 128, "N") \cup (IF total > 255 THEN {"H", "C"} ELSE {})
    \cup Parity(Xor(total % 8, b).r)

PvFlippedUnless(even, fl) ==
  IF Parity(even) # {} THEN fl ELSE IF "PV" \in fl THEN fl \ {"PV"} ELSE fl \cup {"PV"}

(* A repeat takes X and Y from PC, rewound, and a block of I/O its PV and H *)
(* from B once more                                                         *)
RepeatFlags(fl, pc) == (fl \ {"X", "Y"}) \cup XY(Hi(pc))

RepeatIoFlags(fl, pc, b, data) ==
  LET g == RepeatFlags(fl, pc)
  IN IF "C" \notin g THEN PvFlippedUnless(b % 8, g)
     ELSE IF data >= 128
       THEN (PvFlippedUnless((b - 1) % 8, g) \ {"H"}) \cup On(b % 16 = 0, "H")
       ELSE (PvFlippedUnless((b + 1) % 8, g) \ {"H"}) \cup On(b % 16 = 15, "H")

=============================================================================
