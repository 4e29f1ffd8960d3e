--------------------------- MODULE InstructionSet ---------------------------
(***************************************************************************)
(* What every handler does: the registers, the memory, the accesses it     *)
(* makes and the T-states it returns.                                      *)
(*                                                                         *)
(* A machine s is a record.  s.reg maps the register indexes of _read_reg  *)
(* (0 to 5 for B C D E H L, 7 for A) to bytes and s.alt is the other set.  *)
(* s.mem maps the addresses written so far to their bytes; the rest of     *)
(* memory is MemoryByte.  s.bus is the accesses <<kind, address, value>>   *)
(* in order and s.t the T-states.  A handler finds its opcode and operand  *)
(* bytes read: op, args, and PC behind them.                               *)
(***************************************************************************)
EXTENDS Alu, Opcodes, Sequences

CONSTANTS
  MemoryByte(_),  \* what read_byte answers where nothing was written
  PortByte(_)     \* what read_port answers

(* The host's memory and ports answer with bytes *)
ASSUME BusAssumption == \A address \in Words : {MemoryByte(address), PortByte(address)} \subseteq Bytes

RegisterIndex == {0, 1, 2, 3, 4, 5, 7}

-----------------------------------------------------------------------------
(* Registers and bus *)

Word(high, low) == 256 * high + low

Displaced(address, d) == Wrap16(address + IF d >= 128 THEN d - 256 ELSE d)

BC(s) == Word(s.reg[0], s.reg[1])
DE(s) == Word(s.reg[2], s.reg[3])
HL(s) == Word(s.reg[4], s.reg[5])
RegA(s) == s.reg[7]

ReadPair(k, s) == IF k = 3 THEN s.sp ELSE Word(s.reg[2 * k], s.reg[2 * k + 1])

WritePair(k, value, s) ==
  LET w == Wrap16(value)
  IN IF k = 3 THEN [s EXCEPT !.sp = w]
              ELSE [s EXCEPT !.reg[2 * k] = Hi(w), !.reg[2 * k + 1] = Lo(w)]

WriteReg(k, value, s) == [s EXCEPT !.reg[k] = value % 256]

At(address, s) == IF address \in DOMAIN s.mem THEN s.mem[address] ELSE MemoryByte(address)

Read(address, s) == [s EXCEPT !.bus = Append(@, <<"read", address, At(address, s)>>)]

Write(address, value, s) ==
  [s EXCEPT !.mem = [a \in {address} \cup DOMAIN @ |-> IF a = address THEN value ELSE @[a]],
            !.bus = Append(@, <<"write", address, value>>)]

In(port, s) == [s EXCEPT !.bus = Append(@, <<"in", port, PortByte(port)>>)]
Out(port, value, s) == [s EXCEPT !.bus = Append(@, <<"out", port, value>>)]

WordAt(address, s) == Word(At(Wrap16(address + 1), s), At(address, s))
ReadWord(address, s) == Read(Wrap16(address + 1), Read(address, s))

PushWord(value, s) ==
  LET high == Write(Wrap16(s.sp - 1), Hi(value), s)
  IN [Write(Wrap16(s.sp - 2), Lo(value), high) EXCEPT !.sp = Wrap16(s.sp - 2)]

PopWord(s) == [ReadWord(s.sp, s) EXCEPT !.sp = Wrap16(@ + 2)]

(* The operand word, and bits 5-3 as a condition *)
Operand(args) == Word(args[2], args[1])

Holds(cc, s) == LET on == <<"Z", "C", "PV", "S">>[(cc \div 2) + 1] \in s.f
                IN on <=> cc % 2 = 1

(* A handler ends with q = 0 and its T-states, or with q = f *)
Keeping(t, s) == [s EXCEPT !.q = {}, !.t = @ + t]
Setting(fl, t, s) == [s EXCEPT !.f = fl, !.q = fl, !.t = @ + t]

(* Register k, where 6 is the byte at (HL) *)
Source(k, s) == IF k = 6 THEN At(HL(s), s) ELSE s.reg[k]
Fetched(k, s) == IF k = 6 THEN Read(HL(s), s) ELSE s
Store(k, value, s) == IF k = 6 THEN Write(HL(s), value, s) ELSE WriteReg(k, value, s)

-----------------------------------------------------------------------------
(* Loads *)

OpLdRR(op, s) ==
  Keeping(IF 6 \in {Low(op), Field(op)} THEN 7 ELSE 4,
          Store(Field(op), Source(Low(op), s), Fetched(Low(op), s)))

OpLdRN(op, args, s) ==
  Keeping(IF Field(op) = 6 THEN 10 ELSE 7, Store(Field(op), args[1], s))

OpLdAIrr(op, s) ==
  LET address == IF op = \h0A THEN BC(s) ELSE DE(s)
  IN Keeping(7, [Read(address, s) EXCEPT !.reg[7] = At(address, s), !.wz = Wrap16(address + 1)])

(* WZ after a store of A: A on the high half, the low half incremented *)
Latched(address, s) == Word(RegA(s), (Lo(address) + 1) % 256)

OpLdIrrA(op, s) ==
  LET address == IF op = \h02 THEN BC(s) ELSE DE(s)
  IN Keeping(7, [Write(address, RegA(s), s) EXCEPT !.wz = Latched(address, s)])

OpLdAInn(args, s) ==
  LET address == Operand(args)
  IN Keeping(13, [Read(address, s) EXCEPT !.reg[7] = At(address, s), !.wz = Wrap16(address + 1)])

OpLdInnA(args, s) ==
  LET address == Operand(args)
  IN Keeping(13, [Write(address, RegA(s), s) EXCEPT !.wz = Latched(address, s)])

OpLdIA(s) == Keeping(9, [s EXCEPT !.i = RegA(s)])
OpLdRA(s) == Keeping(9, [s EXCEPT !.r = RegA(s)])

(* LD A,I and LD A,R: PV reports IFF2 *)
OpLdAFrom(value, s) ==
  Setting((s.f \cap {"C"}) \cup SZXY(value) \cup On(s.iff2, "PV"), 9, [s EXCEPT !.reg[7] = value])

WordStored(address, value, s) ==
  LET next == Wrap16(address + 1)
  IN [Write(next, Hi(value), Write(address, Lo(value), s)) EXCEPT !.wz = next]

WordLoaded(address, s) == [ReadWord(address, s) EXCEPT !.wz = Wrap16(address + 1)]

OpLdNnHl(args, s) == Keeping(16, WordStored(Operand(args), HL(s), s))

OpLdHlNnFromMem(args, s) ==
  Keeping(16, WritePair(2, WordAt(Operand(args), s), WordLoaded(Operand(args), s)))

OpLdNnRr(op, args, s) == Keeping(20, WordStored(Operand(args), ReadPair(PairOf(op), s), s))

OpLdRrNnFromMem(op, args, s) ==
  Keeping(20, WritePair(PairOf(op), WordAt(Operand(args), s), WordLoaded(Operand(args), s)))

OpLdSpHl(s) == Keeping(6, [s EXCEPT !.sp = HL(s)])

OpPopRr(op, s) == Keeping(10, WritePair(PairOf(op), WordAt(s.sp, s), PopWord(s)))
OpPushRr(op, s) == Keeping(11, PushWord(ReadPair(PairOf(op), s), s))

AF(s) == Word(RegA(s), FromBits({FlagNames[flag] : flag \in s.f}))

OpPopAf(s) ==
  LET value == WordAt(s.sp, s)
  IN Keeping(10, [PopWord(s) EXCEPT !.reg[7] = Hi(value), !.f = FlagsOf(Lo(value))])

OpPushAf(s) == Keeping(11, PushWord(AF(s), s))

OpLdRrNn(op, args, s) == Keeping(10, WritePair(PairOf(op), Operand(args), s))

-----------------------------------------------------------------------------
(* Arithmetic *)

AluOn(op, value, t, s) ==
  LET result == AluA(AluNames[Field(op) + 1], RegA(s), value, s.f)
  IN Setting(result.f, t, [s EXCEPT !.reg[7] = result.r])

OpAluR(op, s) ==
  AluOn(op, Source(Low(op), s), IF Low(op) = 6 THEN 7 ELSE 4, Fetched(Low(op), s))

OpAluN(op, args, s) == AluOn(op, args[1], 7, s)

ToA(result, t, s) == Setting(result.f, t, [s EXCEPT !.reg[7] = result.r])

OpNeg(s) == ToA(Sub(0, RegA(s), 0), 8, s)
OpDaa(s) == ToA(DecimalAdjust(RegA(s), s.f), 4, s)
OpCpl(s) == ToA(Complement(RegA(s), s.f), 4, s)

OpScfCcf(op, s) ==
  Setting(ScfCcfFlags(IF op = \h37 THEN "SCF" ELSE "CCF", RegA(s), s.f, s.q), 4, s)

(* INC r, INC (HL) and DEC r, DEC (HL) *)
OpIncDec(op, s) ==
  LET x      == Source(Field(op), s)
      result == IF Low(op) = 4 THEN Increment(x, s.f) ELSE Decrement(x, s.f)
  IN Setting(result.f, IF Field(op) = 6 THEN 11 ELSE 4,
             Store(Field(op), result.r, Fetched(Field(op), s)))

OntoHl(result, t, s) ==
  Setting(result.f, t, [WritePair(2, result.r, s) EXCEPT !.wz = Wrap16(HL(s) + 1)])

OpAddHlRr(op, s) == OntoHl(Add16KeepSzpv(HL(s), ReadPair(PairOf(op), s), s.f), 11, s)
OpAdcHlRr(op, s) == OntoHl(Add16(HL(s), ReadPair(PairOf(op), s), Carry(s.f)), 15, s)
OpSbcHlRr(op, s) == OntoHl(Sub16(HL(s), ReadPair(PairOf(op), s), Carry(s.f)), 15, s)

(* Mutant of OpIncDecRr: q left as the instruction before set it *)
OpIncDecRrKeepsQ(op, s) ==
  LET by == IF op % 16 = 3 THEN 1 ELSE -1
  IN [WritePair(PairOf(op), ReadPair(PairOf(op), s) + by, s) EXCEPT !.t = @ + 6]

OpIncDecRr(op, s) ==
  LET by == IF op % 16 = 3 THEN 1 ELSE -1
  IN Keeping(6, WritePair(PairOf(op), ReadPair(PairOf(op), s) + by, s))

-----------------------------------------------------------------------------
(* Rotates and bits *)

OpRot(op, s) ==
  LET result == RotApply(RotNames[Field(op) + 1], Source(Low(op), s), s.f)
  IN Setting(result.f, IF Low(op) = 6 THEN 15 ELSE 8, Store(Low(op), result.r, Fetched(Low(op), s)))

OpRotA(op, s) ==
  ToA(RotAccumulator(<<"RLCA", "RRCA", "RLA", "RRA">>[Field(op) + 1], RegA(s), s.f), 4, s)

OpBit(op, s) ==
  LET value == Source(Low(op), s)
  IN Setting(BitFlags(s.f, value, 2 ^ Field(op), IF Low(op) = 6 THEN Hi(s.wz) ELSE value),
             IF Low(op) = 6 THEN 12 ELSE 8, Fetched(Low(op), s))

WithBit(op, x, on) ==
  LET weight == 2 ^ Field(op)
  IN IF Bit(x, weight) = 1 THEN (IF on THEN x ELSE x - weight)
                           ELSE (IF on THEN x + weight ELSE x)

OpResSet(op, s) ==
  Keeping(IF Low(op) = 6 THEN 15 ELSE 8,
          Store(Low(op), WithBit(op, Source(Low(op), s), op >= \hC0), Fetched(Low(op), s)))

(* RRD and RLD: the digits of (HL) and the low digit of A go round *)
Digits(op, s) ==
  LET data == At(HL(s), s)
  IN IF op = \h67 THEN [m |-> 16 * (RegA(s) % 16) + (data \div 16), a |-> data % 16]
                  ELSE [m |-> 16 * (data % 16) + (RegA(s) % 16), a |-> data \div 16]

OpRrdRld(op, s) ==
  LET digits == Digits(op, s)
      r      == 16 * (RegA(s) \div 16) + digits.a
  IN ToA([r |-> r, f |-> (s.f \cap {"C"}) \cup SZXYP(r)], 18,
         [Write(HL(s), digits.m, Read(HL(s), s)) EXCEPT !.wz = Wrap16(HL(s) + 1)])

-----------------------------------------------------------------------------
(* Jumps, calls, exchanges and control *)

Jumped(target, s) == [s EXCEPT !.pc = target, !.wz = target]

OpJr(op, args, s) ==
  IF op = \h18 \/ Holds(Field(op) - 4, s)
    THEN Keeping(12, Jumped(Displaced(s.pc, args[1]), s))
    ELSE Keeping(7, s)

OpDjnz(args, s) ==
  LET counted == WriteReg(0, s.reg[0] - 1, s)
  IN IF counted.reg[0] # 0 THEN Keeping(13, Jumped(Displaced(s.pc, args[1]), counted))
                           ELSE Keeping(8, counted)

OpJp(op, args, s) ==
  LET latched == [s EXCEPT !.wz = Operand(args)]
  IN Keeping(10, IF op = \hC3 \/ Holds(Field(op), s) THEN Jumped(Operand(args), s) ELSE latched)

OpJpHl(s) == Keeping(4, [s EXCEPT !.pc = HL(s)])

OpCall(op, args, s) ==
  IF op = \hCD \/ Holds(Field(op), s)
    THEN Keeping(17, Jumped(Operand(args), PushWord(s.pc, s)))
    ELSE Keeping(10, [s EXCEPT !.wz = Operand(args)])

OpRet(t, s) == Keeping(t, Jumped(WordAt(s.sp, s), PopWord(s)))

OpRetCc(op, s) == IF Holds(Field(op), s) THEN OpRet(11, s) ELSE Keeping(5, s)

RetIff(s) == [OpRet(14, s) EXCEPT !.iff1 = s.iff2]

OpRst(op, s) == Keeping(11, Jumped(8 * Field(op), PushWord(s.pc, s)))

OpInterruptEnable(on, s) ==
  Keeping(4, [s EXCEPT !.iff1 = on, !.iff2 = on, !.delay = IF on THEN 1 ELSE 0])

OpIm(op, s) ==
  Keeping(8, [s EXCEPT !.im = IF Field(op) % 4 < 2 THEN 0 ELSE (Field(op) % 4) - 1])

OpHalt(s) == Keeping(4, [s EXCEPT !.halted = TRUE])

OpExDeHl(s) == Keeping(4, WritePair(1, HL(s), WritePair(2, DE(s), s)))

OpExx(s) ==
  Keeping(4, [s EXCEPT !.reg = [k \in RegisterIndex |-> IF k = 7 THEN @[k] ELSE s.alt[k]],
                       !.alt = [k \in RegisterIndex |-> IF k = 7 THEN @[k] ELSE s.reg[k]]])

OpExAfAf(s) ==
  Keeping(4, [s EXCEPT !.reg[7] = s.alt[7], !.alt[7] = s.reg[7], !.f = s.altf, !.altf = s.f])

(* EX (SP): both bytes read, then the high and the low one written *)
TopExchanged(value, s) ==
  LET next == Wrap16(s.sp + 1)
  IN [Write(s.sp, Lo(value), Write(next, Hi(value), ReadWord(s.sp, s))) EXCEPT !.wz = WordAt(s.sp, s)]

OpExSpHl(s) == Keeping(19, WritePair(2, WordAt(s.sp, s), TopExchanged(HL(s), s)))

-----------------------------------------------------------------------------
(* Ports and blocks *)

OpInAN(args, s) ==
  LET port == Word(RegA(s), args[1])
  IN Keeping(11, [In(port, s) EXCEPT !.reg[7] = PortByte(port), !.wz = Wrap16(port + 1)])

OpOutNA(args, s) ==
  LET port == Word(RegA(s), args[1])
  IN Keeping(11, [Out(port, RegA(s), s) EXCEPT !.wz = Latched(port, s)])

OpInRC(op, s) ==
  LET value  == PortByte(BC(s))
      taken  == [In(BC(s), s) EXCEPT !.wz = Wrap16(BC(s) + 1)]
  IN Setting((s.f \cap {"C"}) \cup SZXYP(value), 12,
             IF Field(op) = 6 THEN taken ELSE WriteReg(Field(op), value, taken))

(* Slot 6 drives 0, or 0FFh on CMOS parts *)
OpOutCR(op, s) ==
  LET value == IF Field(op) = 6 THEN (IF s.cmos THEN 255 ELSE 0) ELSE s.reg[Field(op)]
  IN Keeping(12, [Out(BC(s), value, s) EXCEPT !.wz = Wrap16(BC(s) + 1)])

(* Of a block opcode: which way it goes, and whether it repeats *)
Way(op) == IF Field(op) % 2 = 0 THEN 1 ELSE -1
Repeats(op) == op >= \hB0

Counted(op, k, s) == WritePair(k, ReadPair(k, s) + Way(op), s)

BlockLd(op, s) ==
  LET data  == At(HL(s), s)
      moved == WritePair(0, BC(s) - 1, Counted(op, 1, Counted(op, 2,
                 Write(DE(s), data, Read(HL(s), s)))))
  IN [s |-> [moved EXCEPT !.f = BlockLdFlags(RegA(s), data, BC(moved), s.f)],
      again |-> BC(moved) # 0]

BlockCp(op, s) ==
  LET data  == At(HL(s), s)
      moved == WritePair(0, BC(s) - 1, Counted(op, 2, Read(HL(s), s)))
  IN [s |-> [moved EXCEPT !.f = BlockCpFlags(RegA(s), data, BC(moved), s.f),
                          !.wz = Wrap16(@ + Way(op))],
      again |-> BC(moved) # 0 /\ data # RegA(s)]

BlockIni(op, s) ==
  LET data  == PortByte(BC(s))
      taken == WriteReg(0, s.reg[0] - 1, In(BC(s), s))
      total == ((s.reg[1] + Way(op)) % 256) + data
  IN [s |-> [Counted(op, 2, Write(HL(s), data, taken)) EXCEPT
               !.f = BlockIoFlags(total, data, taken.reg[0]), !.wz = Wrap16(BC(s) + Way(op))],
      again |-> taken.reg[0] # 0, data |-> data]

BlockOuti(op, s) ==
  LET data  == At(HL(s), s)
      moved == WriteReg(0, s.reg[0] - 1, Counted(op, 2, Read(HL(s), s)))
  IN [s |-> [Out(BC(moved), data, moved) EXCEPT
               !.f = BlockIoFlags(moved.reg[5] + data, data, moved.reg[0]),
               !.wz = Wrap16(BC(moved) + Way(op))],
      again |-> moved.reg[0] # 0, data |-> data]

(* _block_repeat *)
Rewound(s) == [s EXCEPT !.pc = Wrap16(@ - 2), !.wz = Wrap16(s.pc - 1),
                        !.f = RepeatFlags(@, Wrap16(s.pc - 2))]

OpBlock(op, step) ==
  IF Repeats(op) /\ step.again
    THEN LET s == Rewound(step.s) IN Setting(s.f, 21, s)
    ELSE Setting(step.s.f, 16, step.s)

OpBlockIo(op, step) ==
  IF Repeats(op) /\ step.again
    THEN LET s == Rewound(step.s)
         IN Setting(RepeatIoFlags(s.f, s.pc, s.reg[0], step.data), 21, s)
    ELSE Setting(step.s.f, 16, step.s)

=============================================================================
