------------------------- MODULE IndexInstructions -------------------------
(***************************************************************************)
(* The handlers of _index.py, which name IX or IY, and the dispatch of all *)
(* five pages.  p is the prefix in force, DD or FD.  Nothing here is built *)
(* on the handlers of InstructionSet for HL: the code has both.            *)
(***************************************************************************)
EXTENDS InstructionSet

GetIndex(p, s) == IF p = \hDD THEN s.ix ELSE s.iy

SetIndex(p, value, s) ==
  IF p = \hDD THEN [s EXCEPT !.ix = Wrap16(value)] ELSE [s EXCEPT !.iy = Wrap16(value)]

(* The half that 4 or 5 in a register field names *)
IndexByte(p, k, s) == IF k = 4 THEN Hi(GetIndex(p, s)) ELSE Lo(GetIndex(p, s))

SetIndexByte(p, k, value, s) ==
  LET index == GetIndex(p, s)
  IN SetIndex(p, IF k = 4 THEN Word(value % 256, Lo(index)) ELSE Word(Hi(index), value % 256), s)

OpAddIndexRr(p, op, s) ==
  LET index  == GetIndex(p, s)
      result == Add16KeepSzpv(index, IF PairOf(op) = 2 THEN index ELSE ReadPair(PairOf(op), s), s.f)
  IN Setting(result.f, 15, [SetIndex(p, result.r, s) EXCEPT !.wz = Wrap16(index + 1)])

OpLdIndexNn(p, args, s) == Keeping(14, SetIndex(p, Operand(args), s))

OpLdNnIndex(p, args, s) ==
  LET address == Operand(args)  index == GetIndex(p, s)  next == Wrap16(address + 1)
  IN Keeping(20, [Write(next, Hi(index), Write(address, Lo(index), s)) EXCEPT !.wz = next])

OpLdIndexNnFromMem(p, args, s) ==
  LET address == Operand(args)  next == Wrap16(address + 1)
  IN Keeping(20, [SetIndex(p, Word(At(next, s), At(address, s)), Read(next, Read(address, s)))
                    EXCEPT !.wz = next])

OpLdRIndexByte(p, op, s) == Keeping(8, WriteReg(Field(op), IndexByte(p, Low(op), s), s))

OpLdIndexByteIndexByte(p, op, s) ==
  Keeping(8, SetIndexByte(p, Field(op), IndexByte(p, Low(op), s), s))

OpLdIndexByteR(p, op, s) == Keeping(8, SetIndexByte(p, Field(op), s.reg[Low(op)], s))

OpLdIndexByteN(p, op, args, s) == Keeping(11, SetIndexByte(p, Field(op), args[1], s))

OpIncDecIndexByte(p, op, s) ==
  LET x      == IndexByte(p, Field(op), s)
      result == IF Low(op) = 4 THEN Increment(x, s.f) ELSE Decrement(x, s.f)
  IN Setting(result.f, 8, SetIndexByte(p, Field(op), result.r, s))

OpAluIndexByte(p, op, s) == AluOn(op, IndexByte(p, Low(op), s), 8, s)

(* Mutant of OpIncDecIndex: set without _set_index *)
OpIncDecIndexUnwrapped(p, op, s) ==
  LET value == GetIndex(p, s) + IF op = \h23 THEN 1 ELSE -1
  IN Keeping(10, IF p = \hDD THEN [s EXCEPT !.ix = value] ELSE [s EXCEPT !.iy = value])

OpIncDecIndex(p, op, s) ==
  Keeping(10, SetIndex(p, GetIndex(p, s) + IF op = \h23 THEN 1 ELSE -1, s))

OpPopIndex(p, s) == Keeping(14, SetIndex(p, WordAt(s.sp, s), PopWord(s)))
OpPushIndex(p, s) == Keeping(15, PushWord(GetIndex(p, s), s))

OpExSpIndex(p, s) ==
  LET value == WordAt(s.sp, s)  index == GetIndex(p, s)
      stored == Write(s.sp, Lo(index), Write(Wrap16(s.sp + 1), Hi(index), ReadWord(s.sp, s)))
  IN Keeping(23, [SetIndex(p, value, stored) EXCEPT !.wz = value])

OpJpIndex(p, s) == Keeping(8, [s EXCEPT !.pc = GetIndex(p, s)])
OpLdSpIndex(p, s) == Keeping(10, [s EXCEPT !.sp = GetIndex(p, s)])

-----------------------------------------------------------------------------
(* (IX+d): the address, latched in WZ *)

(* Mutant of IndexAddress: the displacement taken as unsigned *)
IndexAddressUnsigned(p, d, s) == Wrap16(GetIndex(p, s) + d)

IndexAddress(p, d, s) == Displaced(GetIndex(p, s), d)

OpAluIndexMem(p, op, args, s) ==
  LET address == IndexAddress(p, args[1], s)
  IN AluOn(op, At(address, s), 19, [Read(address, s) EXCEPT !.wz = address])

OpIncDecIndexMem(p, op, args, s) ==
  LET address == IndexAddress(p, args[1], s)
      x       == At(address, s)
      result  == IF op = \h34 THEN Increment(x, s.f) ELSE Decrement(x, s.f)
  IN Setting(result.f, 23, [Write(address, result.r, Read(address, s)) EXCEPT !.wz = address])

OpLdRIndexMem(p, op, args, s) ==
  LET address == IndexAddress(p, args[1], s)
  IN Keeping(19, [WriteReg(Field(op), At(address, s), Read(address, s)) EXCEPT !.wz = address])

OpLdIndexMemR(p, op, args, s) ==
  LET address == IndexAddress(p, args[1], s)
  IN Keeping(19, [Write(address, s.reg[Low(op)], s) EXCEPT !.wz = address])

OpLdIndexMemN(p, args, s) ==
  LET address == IndexAddress(p, args[1], s)
  IN Keeping(19, [Write(address, args[2], s) EXCEPT !.wz = address])

(* The DD CB page: BIT, and the operations that write back, whose low bits *)
(* name a register that gets a copy                                        *)
OpIndexBit(p, d, op, s) ==
  LET address == IndexAddress(p, d, s)
  IN Setting(BitFlags(s.f, At(address, s), 2 ^ Field(op), Hi(address)), 20,
             [Read(address, s) EXCEPT !.wz = address])

WrittenBack(address, value, op, s) ==
  LET stored == [Write(address, value, Read(address, s)) EXCEPT !.wz = address]
  IN IF Low(op) = 6 THEN stored ELSE WriteReg(Low(op), value, stored)

OpIndexRot(p, d, op, s) ==
  LET address == IndexAddress(p, d, s)
      result  == RotApply(RotNames[Field(op) + 1], At(address, s), s.f)
  IN Setting(result.f, 23, WrittenBack(address, result.r, op, s))

OpIndexResSet(p, d, op, s) ==
  LET address == IndexAddress(p, d, s)
  IN Keeping(23, WrittenBack(address, WithBit(op, At(address, s), op >= \hC0), op, s))

-----------------------------------------------------------------------------
(* The dispatch *)

MainEffect(op, args, s) ==
  CASE op = \h00 -> Keeping(4, s)
    [] op \in {\h01, \h11, \h21, \h31} -> OpLdRrNn(op, args, s)
    [] op \in {\h02, \h12} -> OpLdIrrA(op, s)
    [] op \in {\h0A, \h1A} -> OpLdAIrr(op, s)
    [] op \in {\h03, \h13, \h23, \h33, \h0B, \h1B, \h2B, \h3B} -> OpIncDecRr(op, s)
    [] op \in Every8(\h04) \cup Every8(\h05) -> OpIncDec(op, s)
    [] op \in Every8(\h06) -> OpLdRN(op, args, s)
    [] op \in {\h07, \h0F, \h17, \h1F} -> OpRotA(op, s)
    [] op = \h08 -> OpExAfAf(s)
    [] op \in {\h09, \h19, \h29, \h39} -> OpAddHlRr(op, s)
    [] op = \h10 -> OpDjnz(args, s)
    [] op \in {\h18, \h20, \h28, \h30, \h38} -> OpJr(op, args, s)
    [] op = \h22 -> OpLdNnHl(args, s)
    [] op = \h2A -> OpLdHlNnFromMem(args, s)
    [] op = \h32 -> OpLdInnA(args, s)
    [] op = \h3A -> OpLdAInn(args, s)
    [] op = \h27 -> OpDaa(s)
    [] op = \h2F -> OpCpl(s)
    [] op \in {\h37, \h3F} -> OpScfCcf(op, s)
    [] op = \h76 -> OpHalt(s)
    [] op \in (\h40 .. \h7F) \ {\h76} -> OpLdRR(op, s)
    [] op \in \h80 .. \hBF -> OpAluR(op, s)
    [] op \in Every8(\hC0) -> OpRetCc(op, s)
    [] op = \hC9 -> OpRet(10, s)
    [] op \in {\hC1, \hD1, \hE1} -> OpPopRr(op, s)
    [] op = \hF1 -> OpPopAf(s)
    [] op \in {\hC5, \hD5, \hE5} -> OpPushRr(op, s)
    [] op = \hF5 -> OpPushAf(s)
    [] op \in Every8(\hC2) \cup {\hC3} -> OpJp(op, args, s)
    [] op \in Every8(\hC4) \cup {\hCD} -> OpCall(op, args, s)
    [] op \in Every8(\hC6) -> OpAluN(op, args, s)
    [] op \in Every8(\hC7) -> OpRst(op, s)
    [] op = \hD3 -> OpOutNA(args, s)
    [] op = \hDB -> OpInAN(args, s)
    [] op = \hD9 -> OpExx(s)
    [] op = \hE3 -> OpExSpHl(s)
    [] op = \hE9 -> OpJpHl(s)
    [] op = \hEB -> OpExDeHl(s)
    [] op = \hF9 -> OpLdSpHl(s)
    [] op \in {\hF3, \hFB} -> OpInterruptEnable(op = \hFB, s)

CbEffect(op, s) ==
  CASE op < \h40 -> OpRot(op, s) [] op \in \h40 .. \h7F -> OpBit(op, s) [] op >= \h80 -> OpResSet(op, s)

EdEffect(op, args, s) ==
  CASE op \in Every8(\h40) -> OpInRC(op, s)
    [] op \in Every8(\h41) -> OpOutCR(op, s)
    [] op \in {\h42, \h52, \h62, \h72} -> OpSbcHlRr(op, s)
    [] op \in {\h4A, \h5A, \h6A, \h7A} -> OpAdcHlRr(op, s)
    [] op \in {\h43, \h53, \h63, \h73} -> OpLdNnRr(op, args, s)
    [] op \in {\h4B, \h5B, \h6B, \h7B} -> OpLdRrNnFromMem(op, args, s)
    [] op \in Every8(\h44) -> OpNeg(s)
    [] op \in Every8(\h45) -> RetIff(s)
    [] op \in Every8(\h46) -> OpIm(op, s)
    [] op = \h47 -> OpLdIA(s)
    [] op = \h4F -> OpLdRA(s)
    [] op = \h57 -> OpLdAFrom(s.i, s)
    [] op = \h5F -> OpLdAFrom(s.r, s)
    [] op \in {\h67, \h6F} -> OpRrdRld(op, s)
    [] op \in {\hA0, \hA8, \hB0, \hB8} -> OpBlock(op, BlockLd(op, s))
    [] op \in {\hA1, \hA9, \hB1, \hB9} -> OpBlock(op, BlockCp(op, s))
    [] op \in {\hA2, \hAA, \hB2, \hBA} -> OpBlockIo(op, BlockIni(op, s))
    [] op \in {\hA3, \hAB, \hB3, \hBB} -> OpBlockIo(op, BlockOuti(op, s))
    [] OTHER -> Keeping(8, s)

IndexedEffect(p, op, args, s) ==
  CASE op \in {\h09, \h19, \h29, \h39} -> OpAddIndexRr(p, op, s)
    [] op = \h21 -> OpLdIndexNn(p, args, s)
    [] op = \h22 -> OpLdNnIndex(p, args, s)
    [] op = \h2A -> OpLdIndexNnFromMem(p, args, s)
    [] op \in {\h23, \h2B} -> OpIncDecIndex(p, op, s)
    [] op \in {\h24, \h25, \h2C, \h2D} -> OpIncDecIndexByte(p, op, s)
    [] op \in {\h26, \h2E} -> OpLdIndexByteN(p, op, args, s)
    [] op \in {\h34, \h35} -> OpIncDecIndexMem(p, op, args, s)
    [] op = \h36 -> OpLdIndexMemN(p, args, s)
    [] op \in {\h64, \h65, \h6C, \h6D} -> OpLdIndexByteIndexByte(p, op, s)
    [] op \in \h40 .. \h7F /\ Low(op) = 6 -> OpLdRIndexMem(p, op, args, s)
    [] op \in \h70 .. \h77 -> OpLdIndexMemR(p, op, args, s)
    [] op \in \h60 .. \h6F /\ Low(op) \notin {4, 5, 6} -> OpLdIndexByteR(p, op, s)
    [] op \in \h40 .. \h7F /\ Low(op) \in {4, 5} /\ Field(op) \notin {4, 5, 6} -> OpLdRIndexByte(p, op, s)
    [] op \in \h80 .. \hBF /\ Low(op) = 6 -> OpAluIndexMem(p, op, args, s)
    [] op \in \h80 .. \hBF /\ Low(op) \in {4, 5} -> OpAluIndexByte(p, op, s)
    [] op = \hE1 -> OpPopIndex(p, s)
    [] op = \hE3 -> OpExSpIndex(p, s)
    [] op = \hE5 -> OpPushIndex(p, s)
    [] op = \hE9 -> OpJpIndex(p, s)
    [] op = \hF9 -> OpLdSpIndex(p, s)

IndexCbEffect(p, d, op, s) ==
  CASE op < \h40 -> OpIndexRot(p, d, op, s)
    [] op \in \h40 .. \h7F -> OpIndexBit(p, d, op, s)
    [] op >= \h80 -> OpIndexResSet(p, d, op, s)

=============================================================================
