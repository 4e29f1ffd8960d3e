-------------------------- MODULE ExecutionProofs --------------------------
(***************************************************************************)
(* Proofs about single instructions: no handler outgrows a width, from any *)
(* machine, with any operands, on any host whose memory and ports answer   *)
(* with bytes.                                                             *)
(***************************************************************************)
EXTENDS Execution, SequenceTheorems, TLAPS

(* Bytes and words *)

LEMMA Upto ==
  ASSUME NEW last \in Int
  PROVE  \A w : w \in 0 .. last <=> w \in Int /\ w >= 0 /\ w <= last
OBVIOUS

LEMMA WordsAre == \A w : w \in Words <=> w \in Int /\ w >= 0 /\ w <= 65535
<1> DEFINE last == 65535
<1>1. last \in Int /\ Words = 0 .. last
  BY DEF Words
<1> HIDE DEF last
<1>2. \A w : w \in Words <=> w \in Int /\ w >= 0 /\ w <= last
  BY <1>1, Upto
<1> QED
  BY <1>2 DEF last

LEMMA Masked ==
  ASSUME NEW x \in Int
  PROVE  Wrap16(x) \in Words /\ x % 256 \in Bytes
<1>1. x % 65536 \in Int /\ x % 65536 >= 0 /\ x % 65536 <= 65535 /\ x % 256 \in 0 .. 255
  OBVIOUS
<1> QED
  BY <1>1, WordsAre DEF Wrap16, Bytes

LEMMA Halves ==
  ASSUME NEW w \in Words
  PROVE  w \in Int /\ Hi(w) \in Bytes /\ Lo(w) \in Bytes
<1>1. w \in Int /\ w >= 0 /\ w <= 65535
  BY WordsAre
<1>2. w \div 256 \in 0 .. 255 /\ w % 256 \in 0 .. 255
  BY <1>1
<1> QED
  BY <1>1, <1>2 DEF Hi, Lo, Bytes

LEMMA Joins ==
  ASSUME NEW high \in Bytes, NEW low \in Bytes
  PROVE  Word(high, low) \in Words /\ high \in Int
<1>1. high \in Int /\ high >= 0 /\ high <= 255 /\ low \in Int /\ low >= 0 /\ low <= 255
  BY DEF Bytes
<1>2. (256 * high) + low \in Int /\ (256 * high) + low >= 0 /\ (256 * high) + low <= 65535
  BY <1>1
<1> QED
  BY <1>1, <1>2, WordsAre DEF Word

(* What Fits says of one field *)
LEMMA FitsSays ==
  ASSUME NEW s, Fits(s)
  PROVE  /\ s.reg \in [RegisterIndex -> Bytes] /\ s.alt \in [RegisterIndex -> Bytes]
         /\ s.ix \in Words /\ s.iy \in Words /\ s.sp \in Words /\ s.pc \in Words /\ s.wz \in Words
         /\ s.i \in Bytes /\ s.r \in Bytes
         /\ s.bus \in Seq(Accesses)
BY DEF Fits

(* ... and what a change of one field keeps *)
LEMMA FitsUnsized ==
  ASSUME NEW s, Fits(s), NEW v
  PROVE  /\ Fits([s EXCEPT !.f = v]) /\ Fits([s EXCEPT !.q = v]) /\ Fits([s EXCEPT !.t = v])
         /\ Fits([s EXCEPT !.altf = v]) /\ Fits([s EXCEPT !.iff1 = v]) /\ Fits([s EXCEPT !.iff2 = v])
         /\ Fits([s EXCEPT !.im = v]) /\ Fits([s EXCEPT !.halted = v]) /\ Fits([s EXCEPT !.delay = v])
BY DEF Fits

LEMMA FitsWord ==
  ASSUME NEW s, Fits(s), NEW w \in Words
  PROVE  /\ Fits([s EXCEPT !.wz = w]) /\ Fits([s EXCEPT !.pc = w]) /\ Fits([s EXCEPT !.sp = w])
         /\ Fits([s EXCEPT !.ix = w]) /\ Fits([s EXCEPT !.iy = w])
BY DEF Fits

LEMMA FitsReg ==
  ASSUME NEW s, Fits(s), NEW k \in RegisterIndex, NEW b \in Bytes
  PROVE  Fits([s EXCEPT !.reg[k] = b])
BY DEF Fits

Kinds == {"read", "write", "in", "out"}

LEMMA FitsAccess ==
  ASSUME NEW s, Fits(s), NEW kind \in Kinds, NEW address \in Words, NEW b \in Bytes,
         NEW n, n = [s EXCEPT !.bus = Append(@, <<kind, address, b>>)]
  PROVE  Fits(n)
BY DEF Fits, Accesses, Kinds

LEMMA FitsMemory ==
  ASSUME NEW s, Fits(s), NEW g, \A a \in DOMAIN g : g[a] \in Bytes
  PROVE  Fits([s EXCEPT !.mem = g])
BY DEF Fits

-----------------------------------------------------------------------------
(* What the handlers are made of *)

LEMMA RegistersFit ==
  ASSUME NEW s, Fits(s)
  PROVE  /\ RegA(s) \in Bytes /\ BC(s) \in Words /\ DE(s) \in Words /\ HL(s) \in Words
         /\ \A k \in RegisterIndex : s.reg[k] \in Bytes /\ s.alt[k] \in Bytes
         /\ \A k \in 0 .. 3 : ReadPair(k, s) \in Words
<1>1. \A k \in RegisterIndex : s.reg[k] \in Bytes /\ s.alt[k] \in Bytes
  BY FitsSays
<1>2. \A k \in {0, 1, 2} : 2 * k \in RegisterIndex /\ (2 * k) + 1 \in RegisterIndex
  BY DEF RegisterIndex
<1>3. ASSUME NEW k \in {0, 1, 2}
      PROVE  Word(s.reg[2 * k], s.reg[(2 * k) + 1]) \in Words
  BY <1>1, <1>2, Joins
<1>4. RegA(s) \in Bytes /\ BC(s) \in Words /\ DE(s) \in Words /\ HL(s) \in Words
  <2>1. {0, 1, 2, 3, 4, 5, 7} = RegisterIndex
    BY DEF RegisterIndex
  <2> QED
    BY <1>1, <2>1, Joins DEF RegA, BC, DE, HL
<1>5. ASSUME NEW k \in 0 .. 3
      PROVE  ReadPair(k, s) \in Words
  <2>1. k = 3 \/ k \in {0, 1, 2}
    OBVIOUS
  <2>2. CASE k = 3
    BY <2>2, FitsSays DEF ReadPair
  <2>3. CASE k \in {0, 1, 2}
    BY <1>3, <2>3 DEF ReadPair
  <2> QED
    BY <2>1, <2>2, <2>3
<1> QED
  BY <1>1, <1>4, <1>5

LEMMA AtFits ==
  ASSUME NEW s, Fits(s), NEW address \in Words
  PROVE  At(address, s) \in Bytes /\ PortByte(address) \in Bytes
BY BusAssumption DEF At, Fits

LEMMA AccessesFit ==
  ASSUME NEW s, Fits(s), NEW address \in Words, NEW b \in Bytes
  PROVE  /\ Fits(Read(address, s)) /\ Fits(Write(address, b, s))
         /\ Fits(In(address, s)) /\ Fits(Out(address, b, s))
<1>1. At(address, s) \in Bytes /\ PortByte(address) \in Bytes
  BY AtFits
<1>0. "read" \in Kinds /\ "write" \in Kinds /\ "in" \in Kinds /\ "out" \in Kinds
  BY DEF Kinds
<1>2. Fits(Read(address, s)) /\ Fits(In(address, s)) /\ Fits(Out(address, b, s))
  <2>1. Fits(Read(address, s))
    BY <1>0, <1>1, FitsAccess DEF Read
  <2>2. Fits(In(address, s))
    BY <1>0, <1>1, FitsAccess DEF In
  <2>3. Fits(Out(address, b, s))
    BY <1>0, <1>1, FitsAccess DEF Out
  <2> QED
    BY <2>1, <2>2, <2>3
<1>3. Fits(Write(address, b, s))
  <2> DEFINE g == [a \in {address} \cup DOMAIN s.mem |-> IF a = address THEN b ELSE s.mem[a]]
             n == [s EXCEPT !.mem = g]
  <2>1. \A a \in DOMAIN g : g[a] \in Bytes
    BY DEF Fits
  <2>2. Fits(n)
    BY <2>1, FitsMemory
  <2>3. Write(address, b, s) = [n EXCEPT !.bus = Append(@, <<"write", address, b>>)]
    BY DEF Write
  <2> HIDE DEF n
  <2> QED
    BY <1>0, <2>2, <2>3, FitsAccess
<1> QED
  BY <1>2, <1>3

LEMMA EndsFit ==
  ASSUME NEW s, Fits(s), NEW t, NEW fl
  PROVE  Fits(Keeping(t, s)) /\ Fits(Setting(fl, t, s)) /\ Fits(Delayed(t, s))
BY FitsUnsized DEF Keeping, Setting, Delayed

LEMMA WriteRegFits ==
  ASSUME NEW s, Fits(s), NEW k \in RegisterIndex, NEW x \in Int
  PROVE  Fits(WriteReg(k, x, s))
BY Masked, FitsReg DEF WriteReg

LEMMA WritePairFits ==
  ASSUME NEW s, Fits(s), NEW k \in 0 .. 3, NEW x \in Int
  PROVE  Fits(WritePair(k, x, s))
<1> DEFINE w == Wrap16(x)
<1>1. w \in Words /\ Hi(w) \in Bytes /\ Lo(w) \in Bytes
  BY Masked, Halves
<1>2. k = 3 \/ k \in {0, 1, 2}
  OBVIOUS
<1>3. CASE k = 3
  BY <1>1, <1>3, FitsWord DEF WritePair
<1>4. CASE k \in {0, 1, 2}
  <2> DEFINE n == [s EXCEPT !.reg[2 * k] = Hi(w)]
  <2>1. 2 * k \in RegisterIndex /\ (2 * k) + 1 \in RegisterIndex
    BY <1>4 DEF RegisterIndex
  <2>2. Fits(n)
    BY <1>1, <2>1, FitsReg
  <2>3. WritePair(k, x, s) = [n EXCEPT !.reg[(2 * k) + 1] = Lo(w)]
    BY <1>4 DEF WritePair
  <2> HIDE DEF n, w
  <2> QED
    BY <1>1, <2>1, <2>2, <2>3, FitsReg
<1> QED
  BY <1>2, <1>3, <1>4

LEMMA WordAtFits ==
  ASSUME NEW s, Fits(s), NEW address \in Words
  PROVE  /\ WordAt(address, s) \in Words /\ Wrap16(address + 1) \in Words
         /\ Fits(ReadWord(address, s))
<1>1. Wrap16(address + 1) \in Words
  BY Halves, Masked
<1>2. WordAt(address, s) \in Words
  BY <1>1, AtFits, Joins DEF WordAt
<1>3. Fits(Read(address, s))
  BY AccessesFit, AtFits
<1>4. Fits(ReadWord(address, s))
  BY <1>1, <1>3, AccessesFit, AtFits DEF ReadWord
<1> QED
  BY <1>1, <1>2, <1>4

LEMMA StackFits ==
  ASSUME NEW s, Fits(s)
  PROVE  /\ \A value \in Words : Fits(PushWord(value, s))
         /\ Fits(PopWord(s))
         /\ WordAt(s.sp, s) \in Words
<1>1. s.sp \in Words
  BY FitsSays
<1>2. Wrap16(s.sp - 1) \in Words /\ Wrap16(s.sp - 2) \in Words /\ Wrap16(s.sp + 2) \in Words
  BY <1>1, Halves, Masked
<1>3. ASSUME NEW value \in Words
      PROVE  Fits(PushWord(value, s))
  <2> DEFINE high == Write(Wrap16(s.sp - 1), Hi(value), s)
             low  == Write(Wrap16(s.sp - 2), Lo(value), high)
  <2>1. Fits(high)
    BY <1>2, Halves, AccessesFit
  <2>2. Fits(low)
    BY <1>2, <2>1, Halves, AccessesFit
  <2>3. PushWord(value, s) = [low EXCEPT !.sp = Wrap16(s.sp - 2)]
    BY DEF PushWord
  <2> HIDE DEF low
  <2>4. Fits([low EXCEPT !.sp = Wrap16(s.sp - 2)])
    BY <1>2, <2>2, FitsWord
  <2> QED
    BY <2>3, <2>4
<1>4. Fits(PopWord(s))
  <2> DEFINE n == ReadWord(s.sp, s)
  <2>1. Fits(n)
    BY <1>1, WordAtFits
  <2>2. n.sp \in Words
    BY <2>1, FitsSays
  <2>3. PopWord(s) = [n EXCEPT !.sp = Wrap16(n.sp + 2)]
    BY DEF PopWord
  <2>4. Wrap16(n.sp + 2) \in Words
    BY <2>2, Halves, Masked
  <2> HIDE DEF n
  <2>5. Fits([n EXCEPT !.sp = Wrap16(n.sp + 2)])
    BY <2>1, <2>4, FitsWord
  <2> QED
    BY <2>3, <2>5
<1> QED
  BY <1>1, <1>3, <1>4, WordAtFits

LEMMA DisplacedFits ==
  ASSUME NEW address \in Words, NEW d \in Bytes
  PROVE  Displaced(address, d) \in Words
<1>1. address \in Int /\ d \in Int
  BY Halves, Joins
<1>2. address + (IF d >= 128 THEN d - 256 ELSE d) \in Int
  BY <1>1
<1> QED
  BY <1>2, Masked DEF Displaced

LEMMA LatchedFits ==
  ASSUME NEW s, Fits(s), NEW address \in Words
  PROVE  Latched(address, s) \in Words
<1>1. Lo(address) \in Int
  BY Halves, Joins
<1>2. (Lo(address) + 1) % 256 \in Bytes
  BY <1>1, Masked
<1> QED
  BY <1>2, RegistersFit, Joins DEF Latched

LEMMA JumpedFits ==
  ASSUME NEW s, Fits(s), NEW target \in Words
  PROVE  Fits(Jumped(target, s))
BY FitsWord DEF Jumped

(* The fields of an opcode *)
LEMMA FieldsAre ==
  ASSUME NEW op \in Byte
  PROVE  /\ Field(op) \in 0 .. 7 /\ Low(op) \in 0 .. 7 /\ PairOf(op) \in 0 .. 3
         /\ op \in Int
BY DEF Byte, Field, Low, PairOf

(* A register field, 6 being the byte at (HL) *)
LEMMA FieldFits ==
  ASSUME NEW s, Fits(s), NEW k \in 0 .. 7
  PROVE  /\ Source(k, s) \in Bytes /\ Fits(Fetched(k, s))
         /\ \A b \in Bytes : Fits(Store(k, b, s))
<1>1. CASE k = 6
  BY <1>1, AtFits, RegistersFit, AccessesFit DEF Source, Fetched, Store
<1>2. CASE k # 6
  <2>1. k \in RegisterIndex
    BY <1>2 DEF RegisterIndex
  <2>2. \A b \in Bytes : b \in Int
    BY Joins
  <2> QED
    BY <1>2, <2>1, <2>2, RegistersFit, WriteRegFits DEF Source, Fetched, Store
<1> QED
  BY <1>1, <1>2

LEMMA OperandFits ==
  ASSUME NEW args, args[1] \in Bytes, args[2] \in Bytes
  PROVE  Operand(args) \in Words
BY Joins DEF Operand

LEMMA FitsTaken ==
  ASSUME NEW s, Fits(s), NEW b \in Bytes, NEW w \in Words
  PROVE  Fits([s EXCEPT !.reg[7] = b, !.wz = w])
<1> DEFINE n == [s EXCEPT !.reg[7] = b]
<1>1. Fits(n)
  BY FitsReg DEF RegisterIndex
<1>2. [s EXCEPT !.reg[7] = b, !.wz = w] = [n EXCEPT !.wz = w]
  OBVIOUS
<1> HIDE DEF n
<1>3. Fits([n EXCEPT !.wz = w])
  BY <1>1, FitsWord
<1> QED
  BY <1>2, <1>3

-----------------------------------------------------------------------------
(* Loads *)

LEMMA LdRRFits ==
  ASSUME NEW s, Fits(s), NEW op \in Byte
  PROVE  Fits(OpLdRR(op, s))
<1> DEFINE b == Source(Low(op), s)
           n == Fetched(Low(op), s)
<1>1. Field(op) \in 0 .. 7 /\ b \in Bytes /\ Fits(n)
  BY FieldsAre, FieldFits
<1>2. Fits(Store(Field(op), b, n))
  BY <1>1, FieldFits
<1> QED
  BY <1>2, EndsFit DEF OpLdRR

LEMMA LdRNFits ==
  ASSUME NEW s, Fits(s), NEW op \in Byte, NEW args, args[1] \in Bytes
  PROVE  Fits(OpLdRN(op, args, s))
<1>1. Fits(Store(Field(op), args[1], s))
  BY FieldsAre, FieldFits
<1> QED
  BY <1>1, EndsFit DEF OpLdRN

LEMMA AnswersFit ==
  ASSUME NEW s, Fits(s), NEW address \in Words
  PROVE  Fits([Read(address, s) EXCEPT !.reg[7] = At(address, s), !.wz = Wrap16(address + 1)])
BY AtFits, AccessesFit, WordAtFits, FitsTaken

LEMMA StoresFit ==
  ASSUME NEW s, Fits(s), NEW address \in Words
  PROVE  Fits([Write(address, RegA(s), s) EXCEPT !.wz = Latched(address, s)])
<1>1. Fits(Write(address, RegA(s), s)) /\ Latched(address, s) \in Words
  BY RegistersFit, AccessesFit, LatchedFits
<1> QED
  BY <1>1, FitsWord

LEMMA LoadsOfAFit ==
  ASSUME NEW s, Fits(s), NEW op
  PROVE  /\ Fits(OpLdAIrr(op, s)) /\ Fits(OpLdIrrA(op, s))
         /\ \A args : args[1] \in Bytes /\ args[2] \in Bytes =>
              Fits(OpLdAInn(args, s)) /\ Fits(OpLdInnA(args, s))
<1>1. ASSUME NEW address \in Words
      PROVE  /\ Fits(Keeping(7, [Read(address, s) EXCEPT !.reg[7] = At(address, s), !.wz = Wrap16(address + 1)]))
             /\ Fits(Keeping(13, [Read(address, s) EXCEPT !.reg[7] = At(address, s), !.wz = Wrap16(address + 1)]))
             /\ Fits(Keeping(7, [Write(address, RegA(s), s) EXCEPT !.wz = Latched(address, s)]))
             /\ Fits(Keeping(13, [Write(address, RegA(s), s) EXCEPT !.wz = Latched(address, s)]))
  BY AnswersFit, StoresFit, EndsFit
<1>2. BC(s) \in Words /\ DE(s) \in Words
  BY RegistersFit
<1>3. Fits(OpLdAIrr(op, s)) /\ Fits(OpLdIrrA(op, s))
  BY <1>1, <1>2 DEF OpLdAIrr, OpLdIrrA
<1>4. ASSUME NEW args, args[1] \in Bytes, args[2] \in Bytes
      PROVE  Fits(OpLdAInn(args, s)) /\ Fits(OpLdInnA(args, s))
  BY <1>1, <1>4, OperandFits DEF OpLdAInn, OpLdInnA
<1> QED
  BY <1>3, <1>4

LEMMA LdIRFits ==
  ASSUME NEW s, Fits(s)
  PROVE  Fits(OpLdIA(s)) /\ Fits(OpLdRA(s)) /\ Fits(OpLdAFrom(s.i, s)) /\ Fits(OpLdAFrom(s.r, s))
<1>1. RegA(s) \in Bytes /\ s.i \in Bytes /\ s.r \in Bytes
  BY RegistersFit, FitsSays
<1>2. Fits([s EXCEPT !.i = RegA(s)]) /\ Fits([s EXCEPT !.r = RegA(s)])
  BY <1>1 DEF Fits
<1>3. \A b \in Bytes : Fits([s EXCEPT !.reg[7] = b])
  BY FitsReg DEF RegisterIndex
<1>4. Fits([s EXCEPT !.reg[7] = s.i]) /\ Fits([s EXCEPT !.reg[7] = s.r])
  BY <1>1, <1>3
<1> QED
  BY <1>2, <1>4, EndsFit DEF OpLdIA, OpLdRA, OpLdAFrom

LEMMA WordStoredFits ==
  ASSUME NEW s, Fits(s), NEW address \in Words, NEW value \in Words
  PROVE  Fits(WordStored(address, value, s))
<1> DEFINE next == Wrap16(address + 1)
           n == Write(next, Hi(value), Write(address, Lo(value), s))
<1>1. next \in Words /\ Hi(value) \in Bytes /\ Lo(value) \in Bytes
  BY Halves, WordAtFits
<1>2. Fits(Write(address, Lo(value), s))
  BY <1>1, AccessesFit
<1>3. Fits(n)
  BY <1>1, <1>2, AccessesFit
<1>4. WordStored(address, value, s) = [n EXCEPT !.wz = next]
  BY DEF WordStored
<1> HIDE DEF n, next
<1>5. Fits([n EXCEPT !.wz = next])
  BY <1>1, <1>3, FitsWord
<1> QED
  BY <1>4, <1>5

LEMMA WordLoadedFits ==
  ASSUME NEW s, Fits(s), NEW address \in Words, NEW k \in 0 .. 3
  PROVE  Fits(WritePair(k, WordAt(address, s), WordLoaded(address, s)))
<1>1. /\ WordAt(address, s) \in Words /\ Wrap16(address + 1) \in Words
      /\ Fits(ReadWord(address, s))
  BY WordAtFits
<1>2. Fits([ReadWord(address, s) EXCEPT !.wz = Wrap16(address + 1)])
  BY <1>1, FitsWord
<1>3. Fits(WordLoaded(address, s)) /\ WordAt(address, s) \in Int
  BY <1>1, <1>2, Halves DEF WordLoaded
<1> QED
  BY <1>3, WritePairFits

LEMMA WordLoadsFit ==
  ASSUME NEW s, Fits(s), NEW op \in Byte, NEW args, args[1] \in Bytes, args[2] \in Bytes
  PROVE  /\ Fits(OpLdNnHl(args, s)) /\ Fits(OpLdHlNnFromMem(args, s))
         /\ Fits(OpLdNnRr(op, args, s)) /\ Fits(OpLdRrNnFromMem(op, args, s))
         /\ Fits(OpLdRrNn(op, args, s))
<1>1. Operand(args) \in Words /\ PairOf(op) \in 0 .. 3 /\ 2 \in 0 .. 3
  BY OperandFits, FieldsAre
<1>2. HL(s) \in Words /\ ReadPair(PairOf(op), s) \in Words
  BY <1>1, RegistersFit
<1>3. Fits(OpLdNnHl(args, s)) /\ Fits(OpLdNnRr(op, args, s))
  BY <1>1, <1>2, WordStoredFits, EndsFit DEF OpLdNnHl, OpLdNnRr
<1>4. Fits(OpLdHlNnFromMem(args, s)) /\ Fits(OpLdRrNnFromMem(op, args, s))
  BY <1>1, WordLoadedFits, EndsFit DEF OpLdHlNnFromMem, OpLdRrNnFromMem
<1>5. Fits(OpLdRrNn(op, args, s))
  <2>1. Fits(WritePair(PairOf(op), Operand(args), s))
    BY <1>1, Halves, WritePairFits
  <2> QED
    BY <2>1, EndsFit DEF OpLdRrNn
<1> QED
  BY <1>3, <1>4, <1>5

LEMMA FromHlFits ==
  ASSUME NEW s, Fits(s)
  PROVE  Fits(OpLdSpHl(s)) /\ Fits(OpJpHl(s))
<1>1. HL(s) \in Words
  BY RegistersFit
<1>2. Fits([s EXCEPT !.sp = HL(s)]) /\ Fits([s EXCEPT !.pc = HL(s)])
  BY <1>1, FitsWord
<1> QED
  BY <1>2, EndsFit DEF OpLdSpHl, OpJpHl

LEMMA FromBitsFits == \A ws : FromBits(ws) \in Bytes
BY DEF FromBits, Bytes

LEMMA StackLoadsFit ==
  ASSUME NEW s, Fits(s), NEW op \in Byte
  PROVE  /\ Fits(OpPopRr(op, s)) /\ Fits(OpPushRr(op, s))
         /\ Fits(OpPopAf(s)) /\ Fits(OpPushAf(s))
<1>1. /\ WordAt(s.sp, s) \in Words /\ Fits(PopWord(s))
      /\ \A value \in Words : Fits(PushWord(value, s))
  BY StackFits
<1>2. PairOf(op) \in 0 .. 3 /\ WordAt(s.sp, s) \in Int
  BY <1>1, FieldsAre, Halves
<1>3. Fits(WritePair(PairOf(op), WordAt(s.sp, s), PopWord(s)))
  BY <1>1, <1>2, WritePairFits
<1>4. Fits(OpPopRr(op, s))
  BY <1>3, EndsFit DEF OpPopRr
<1>5. ReadPair(PairOf(op), s) \in Words /\ AF(s) \in Words
  BY <1>2, RegistersFit, FromBitsFits, Joins DEF AF
<1>6. Fits(OpPushRr(op, s)) /\ Fits(OpPushAf(s))
  BY <1>1, <1>5, EndsFit DEF OpPushRr, OpPushAf
<1>7. Fits(OpPopAf(s))
  <2> DEFINE b == Hi(WordAt(s.sp, s))
             fl == FlagsOf(Lo(WordAt(s.sp, s)))
             n == [PopWord(s) EXCEPT !.reg[7] = b]
  <2>1. b \in Bytes
    BY <1>1, Halves
  <2>2. Fits(n)
    BY <1>1, <2>1, FitsReg DEF RegisterIndex
  <2>3. OpPopAf(s) = Keeping(10, [n EXCEPT !.f = fl])
    BY DEF OpPopAf
  <2> HIDE DEF n, fl
  <2>4. Fits([n EXCEPT !.f = fl])
    BY <2>2, FitsUnsized
  <2> QED
    BY <2>3, <2>4, EndsFit
<1> QED
  BY <1>4, <1>6, <1>7

-----------------------------------------------------------------------------
(* Arithmetic *)

LEMMA CarryFits == \A fl : Carry(fl) \in {0, 1} /\ Carry(fl) \in Int
BY DEF Carry

LEMMA SumsFit ==
  ASSUME NEW x \in Bytes, NEW y \in Bytes, NEW carry \in Int
  PROVE  Add(x, y, carry).r \in Bytes /\ Sub(x, y, carry).r \in Bytes
<1>1. x + y + carry \in Int /\ x - y - carry \in Int
  BY DEF Bytes
<1> QED
  BY <1>1, Masked DEF Add, Sub

LEMMA AluFits ==
  ASSUME NEW op \in AluOps, NEW x \in Bytes, NEW y \in Bytes, NEW fl
  PROVE  AluA(op, x, y, fl).r \in Bytes
<1> DEFINE zero == 0
<1>1. /\ Add(x, y, zero).r \in Bytes /\ Add(x, y, Carry(fl)).r \in Bytes
      /\ Sub(x, y, zero).r \in Bytes /\ Sub(x, y, Carry(fl)).r \in Bytes
  BY CarryFits, SumsFit
<1>2. And(x, y).r \in Bytes /\ Or(x, y).r \in Bytes /\ Xor(x, y).r \in Bytes /\ Compare(x, y).r \in Bytes
  BY FromBitsFits DEF And, Or, Xor, Compare
<1>3. AluA(op, x, y, fl) \in {Add(x, y, zero), Add(x, y, Carry(fl)), Sub(x, y, zero), Sub(x, y, Carry(fl)),
                              And(x, y), Xor(x, y), Or(x, y), Compare(x, y)}
  BY DEF AluA, AluOps
<1> HIDE DEF zero
<1> QED
  BY <1>1, <1>2, <1>3

LEMMA AluNamed ==
  ASSUME NEW k \in 0 .. 7
  PROVE  AluNames[k + 1] \in AluOps /\ RotNames[k + 1] \in RotOps
<1>1. k = 0 \/ k = 1 \/ k = 2 \/ k = 3 \/ k = 4 \/ k = 5 \/ k = 6 \/ k = 7
  OBVIOUS
<1> QED
  BY <1>1 DEF AluNames, AluOps, RotNames, RotOps

(* A result left in A *)
LEMMA IntoAFits ==
  ASSUME NEW s, Fits(s), NEW b \in Bytes, NEW fl, NEW t
  PROVE  Fits(Setting(fl, t, [s EXCEPT !.reg[7] = b]))
<1>1. Fits([s EXCEPT !.reg[7] = b])
  BY FitsReg DEF RegisterIndex
<1> QED
  BY <1>1, EndsFit

LEMMA AluOnFits ==
  ASSUME NEW s, Fits(s), NEW op \in Byte, NEW value \in Bytes, NEW t
  PROVE  Fits(AluOn(op, value, t, s))
<1>1. AluNames[Field(op) + 1] \in AluOps /\ RegA(s) \in Bytes
  BY FieldsAre, AluNamed, RegistersFit
<1>2. AluA(AluNames[Field(op) + 1], RegA(s), value, s.f).r \in Bytes
  BY <1>1, AluFits
<1> QED
  BY <1>2, IntoAFits DEF AluOn

LEMMA AluHandlersFit ==
  ASSUME NEW s, Fits(s), NEW op \in Byte
  PROVE  /\ Fits(OpAluR(op, s))
         /\ \A args : args[1] \in Bytes => Fits(OpAluN(op, args, s))
<1>1. Source(Low(op), s) \in Bytes /\ Fits(Fetched(Low(op), s))
  BY FieldsAre, FieldFits
<1> QED
  BY <1>1, AluOnFits DEF OpAluR, OpAluN

LEMMA StepsFit ==
  ASSUME NEW x \in Bytes, NEW fl
  PROVE  /\ Increment(x, fl).r \in Bytes /\ Decrement(x, fl).r \in Bytes
         /\ DecimalAdjust(x, fl).r \in Bytes /\ Complement(x, fl).r \in Bytes
<1>1. x \in Int /\ x + 1 \in Int /\ x - 1 \in Int /\ 255 - x \in Bytes
  BY DEF Bytes
<1>2. Increment(x, fl).r \in Bytes /\ Decrement(x, fl).r \in Bytes /\ Complement(x, fl).r \in Bytes
  BY <1>1, Masked DEF Increment, Decrement, Complement
<1>3. DecimalAdjust(x, fl).r \in Bytes
  <2> DEFINE sign == IF "N" \in fl THEN -1 ELSE 1
             tens == IF "C" \in fl \/ x > 153 THEN (x + (96 * sign)) % 256 ELSE x
             r    == IF "H" \in fl \/ tens % 16 > 9 THEN (tens + (6 * sign)) % 256 ELSE tens
  <2>1. DecimalAdjust(x, fl).r = r
    BY DEF DecimalAdjust
  <2>2. x + (96 * sign) \in Int /\ 6 * sign \in Int
    BY <1>1
  <2>3. tens \in Bytes
    BY <2>2, Masked
  <2> HIDE DEF tens, sign
  <2>4. tens + (6 * sign) \in Int
    BY <2>2, <2>3 DEF Bytes
  <2>5. r \in Bytes
    BY <2>3, <2>4, Masked
  <2> QED
    BY <2>1, <2>5
<1> QED
  BY <1>2, <1>3

LEMMA AccumulatorFits ==
  ASSUME NEW s, Fits(s), NEW op
  PROVE  Fits(OpNeg(s)) /\ Fits(OpDaa(s)) /\ Fits(OpCpl(s)) /\ Fits(OpScfCcf(op, s))
<1> DEFINE zero == 0
<1>1. RegA(s) \in Bytes /\ zero \in Bytes /\ zero \in Int
  BY RegistersFit DEF Bytes
<1>2. /\ Sub(zero, RegA(s), zero).r \in Bytes
      /\ DecimalAdjust(RegA(s), s.f).r \in Bytes /\ Complement(RegA(s), s.f).r \in Bytes
  BY <1>1, SumsFit, StepsFit
<1> QED
  BY <1>2, IntoAFits, EndsFit DEF OpNeg, OpDaa, OpCpl, OpScfCcf, ToA

LEMMA IncDecFits ==
  ASSUME NEW s, Fits(s), NEW op \in Byte
  PROVE  Fits(OpIncDec(op, s)) /\ Fits(OpIncDecRr(op, s))
<1> DEFINE x == Source(Field(op), s)
           result == IF Low(op) = 4 THEN Increment(x, s.f) ELSE Decrement(x, s.f)
           n == Store(Field(op), result.r, Fetched(Field(op), s))
<1>1. Field(op) \in 0 .. 7 /\ x \in Bytes /\ Fits(Fetched(Field(op), s))
  BY FieldsAre, FieldFits
<1>2. result.r \in Bytes
  BY <1>1, StepsFit
<1>3. Fits(n)
  BY <1>1, <1>2, FieldFits
<1>4. Fits(OpIncDec(op, s))
  BY <1>3, EndsFit DEF OpIncDec
<1>5. Fits(OpIncDecRr(op, s))
  <2> DEFINE by == IF op % 16 = 3 THEN 1 ELSE -1
  <2>1. PairOf(op) \in 0 .. 3 /\ ReadPair(PairOf(op), s) \in Int /\ by \in Int
    BY FieldsAre, RegistersFit, Halves
  <2>2. ReadPair(PairOf(op), s) + by \in Int
    BY <2>1
  <2>3. Fits(WritePair(PairOf(op), ReadPair(PairOf(op), s) + by, s))
    BY <2>1, <2>2, WritePairFits
  <2> QED
    BY <2>3, EndsFit DEF OpIncDecRr
<1> QED
  BY <1>4, <1>5

LEMMA WideFits ==
  ASSUME NEW x \in Words, NEW y \in Words, NEW carry \in Int, NEW fl
  PROVE  /\ Add16(x, y, carry).r \in Words /\ Sub16(x, y, carry).r \in Words
         /\ Add16KeepSzpv(x, y, fl).r \in Words
<1>1. x \in Int /\ y \in Int
  BY Halves
<1>2. x + y + carry \in Int /\ x - y - carry \in Int /\ x + y \in Int
  BY <1>1
<1>3. /\ (x + y + carry) % 65536 \in Words /\ (x - y - carry) % 65536 \in Words
      /\ (x + y) % 65536 \in Words
  BY <1>2, Masked DEF Wrap16
<1> QED
  BY <1>3 DEF Add16, Sub16, Add16KeepSzpv

LEMMA OntoHlFits ==
  ASSUME NEW s, Fits(s), NEW result, result.r \in Words, NEW t
  PROVE  Fits(OntoHl(result, t, s))
<1> DEFINE n == WritePair(2, result.r, s)
           w == Wrap16(HL(s) + 1)
<1>1. result.r \in Int /\ w \in Words /\ 2 \in 0 .. 3
  BY Halves, RegistersFit, WordAtFits
<1>2. Fits(n)
  BY <1>1, WritePairFits
<1>3. OntoHl(result, t, s) = Setting(result.f, t, [n EXCEPT !.wz = w])
  BY DEF OntoHl
<1> HIDE DEF n, w
<1>4. Fits([n EXCEPT !.wz = w])
  BY <1>1, <1>2, FitsWord
<1> QED
  BY <1>3, <1>4, EndsFit

LEMMA WideHandlersFit ==
  ASSUME NEW s, Fits(s), NEW op \in Byte
  PROVE  Fits(OpAddHlRr(op, s)) /\ Fits(OpAdcHlRr(op, s)) /\ Fits(OpSbcHlRr(op, s))
<1>1. HL(s) \in Words /\ ReadPair(PairOf(op), s) \in Words
  BY FieldsAre, RegistersFit
<1>2. /\ Add16KeepSzpv(HL(s), ReadPair(PairOf(op), s), s.f).r \in Words
      /\ Add16(HL(s), ReadPair(PairOf(op), s), Carry(s.f)).r \in Words
      /\ Sub16(HL(s), ReadPair(PairOf(op), s), Carry(s.f)).r \in Words
  BY <1>1, CarryFits, WideFits
<1> QED
  BY <1>2, OntoHlFits DEF OpAddHlRr, OpAdcHlRr, OpSbcHlRr

-----------------------------------------------------------------------------
(* Rotates and bits *)

LEMMA TurnFits ==
  ASSUME NEW x \in Bytes, NEW in \in {0, 1}
  PROVE  ((2 * x) + in) % 256 \in Bytes /\ (x \div 2) + (128 * in) \in Bytes
BY DEF Bytes

LEMMA BitFits ==
  ASSUME NEW x \in Bytes
  PROVE  Bit(x, 128) \in {0, 1} /\ Bit(x, 1) \in {0, 1}
BY DEF Bit, Bytes

LEMMA RotFits ==
  ASSUME NEW op \in RotOps, NEW x \in Bytes, NEW fl
  PROVE  RotApply(op, x, fl).r \in Bytes
<1> DEFINE none == 0
           one == 1
           doubled(in) == ((2 * x) + in) % 256
           halved(in) == (x \div 2) + (128 * in)
<1>1. /\ Bit(x, 128) \in {0, 1} /\ Bit(x, 1) \in {0, 1} /\ Carry(fl) \in {0, 1}
      /\ none \in {0, 1} /\ one \in {0, 1}
  BY BitFits, CarryFits
<1>2. \A in \in {0, 1} : doubled(in) \in Bytes /\ halved(in) \in Bytes
  BY TurnFits
<1>3. RotApply(op, x, fl).r \in {doubled(Bit(x, 128)), halved(Bit(x, 1)), doubled(Carry(fl)), halved(Carry(fl)),
                                 doubled(none), halved(Bit(x, 128)), doubled(one), halved(none)}
  BY DEF RotApply, RotOps, Rotated
<1> HIDE DEF doubled, halved, none, one
<1> QED
  BY <1>1, <1>2, <1>3

LEMMA RotHandlersFit ==
  ASSUME NEW s, Fits(s), NEW op \in Byte
  PROVE  Fits(OpRot(op, s)) /\ Fits(OpBit(op, s))
<1> DEFINE x == Source(Low(op), s)
           n == Fetched(Low(op), s)
           result == RotApply(RotNames[Field(op) + 1], x, s.f)
<1>1. Low(op) \in 0 .. 7 /\ x \in Bytes /\ Fits(n) /\ RotNames[Field(op) + 1] \in RotOps
  BY FieldsAre, FieldFits, AluNamed
<1>2. result.r \in Bytes
  BY <1>1, RotFits
<1>3. Fits(Store(Low(op), result.r, n))
  BY <1>1, <1>2, FieldFits
<1> QED
  BY <1>1, <1>3, EndsFit DEF OpRot, OpBit

LEMMA RotAFits ==
  ASSUME NEW s, Fits(s), NEW op \in {\h07, \h0F, \h17, \h1F}
  PROVE  Fits(OpRotA(op, s))
<1> DEFINE x == RegA(s)
           doubled(in) == ((2 * x) + in) % 256
           halved(in) == (x \div 2) + (128 * in)
           name == <<"RLCA", "RRCA", "RLA", "RRA">>[Field(op) + 1]
<1>1. name \in AccumulatorOps
  <2>1. op \in {7, 15, 23, 31}
    OBVIOUS
  <2>2. Field(op) \in 0 .. 3
    BY <2>1 DEF Field
  <2> QED
    BY <2>2 DEF AccumulatorOps
<1>2. x \in Bytes
  BY RegistersFit
<1>3. Bit(x, 128) \in {0, 1} /\ Bit(x, 1) \in {0, 1} /\ Carry(s.f) \in {0, 1}
  BY <1>2, BitFits, CarryFits
<1>4. \A in \in {0, 1} : doubled(in) \in Bytes /\ halved(in) \in Bytes
  BY <1>2, TurnFits
<1> HIDE DEF name, x
<1>5. RotAccumulator(name, x, s.f).r \in {doubled(Bit(x, 128)), halved(Bit(x, 1)), doubled(Carry(s.f)), halved(Carry(s.f))}
  BY <1>1 DEF RotAccumulator, AccumulatorOps
<1> HIDE DEF doubled, halved
<1>6. RotAccumulator(name, x, s.f).r \in Bytes
  BY <1>3, <1>4, <1>5
<1>7. OpRotA(op, s) = ToA(RotAccumulator(name, x, s.f), 4, s)
  BY DEF OpRotA, name, x
<1> QED
  BY <1>6, <1>7, IntoAFits DEF ToA

LEMMA PowersAre ==
  ASSUME NEW k \in 0 .. 7
  PROVE  2 ^ k \in Weights
<1> DEFINE weight(n) == 2 ^ n
<1>1. /\ 2 ^ 0 = 1 /\ 2 ^ 1 = 2 /\ 2 ^ 2 = 4 /\ 2 ^ 3 = 8
      /\ 2 ^ 4 = 16 /\ 2 ^ 5 = 32 /\ 2 ^ 6 = 64 /\ 2 ^ 7 = 128
  OBVIOUS
<1>2. /\ weight(0) = 1 /\ weight(1) = 2 /\ weight(2) = 4 /\ weight(3) = 8
      /\ weight(4) = 16 /\ weight(5) = 32 /\ weight(6) = 64 /\ weight(7) = 128
  BY <1>1
<1>3. k = 0 \/ k = 1 \/ k = 2 \/ k = 3 \/ k = 4 \/ k = 5 \/ k = 6 \/ k = 7
  OBVIOUS
<1> HIDE DEF weight
<1>4. weight(k) \in Weights
  BY <1>2, <1>3 DEF Weights
<1> QED
  BY <1>4 DEF weight

LEMMA WithBitFits ==
  ASSUME NEW op \in Byte, NEW x \in Bytes, NEW on
  PROVE  WithBit(op, x, on) \in Bytes
<1> DEFINE weight == 2 ^ Field(op)
<1>1. weight \in {1, 2, 4, 8, 16, 32, 64, 128}
  BY FieldsAre, PowersAre DEF Weights
<1> HIDE DEF weight
<1>2. Bit(x, weight) = 1 => x - weight \in Bytes
  BY <1>1 DEF Bit, Bytes
<1>3. Bit(x, weight) # 1 => x + weight \in Bytes
  BY <1>1 DEF Bit, Bytes
<1>4. WithBit(op, x, on) = IF Bit(x, weight) = 1 THEN (IF on THEN x ELSE x - weight)
                                                ELSE (IF on THEN x + weight ELSE x)
  BY DEF WithBit, weight
<1> QED
  BY <1>2, <1>3, <1>4

LEMMA ResSetFits ==
  ASSUME NEW s, Fits(s), NEW op \in Byte
  PROVE  Fits(OpResSet(op, s))
<1> DEFINE x == Source(Low(op), s)
           b == WithBit(op, x, op >= \hC0)
           n == Fetched(Low(op), s)
<1>1. Low(op) \in 0 .. 7 /\ x \in Bytes /\ Fits(n)
  BY FieldsAre, FieldFits
<1>2. b \in Bytes
  BY <1>1, WithBitFits
<1>3. Fits(Store(Low(op), b, n))
  BY <1>1, <1>2, FieldFits
<1> QED
  BY <1>3, EndsFit DEF OpResSet

LEMMA DigitsFit ==
  ASSUME NEW x \in Bytes, NEW y \in Bytes
  PROVE  /\ (16 * (x % 16)) + (y \div 16) \in Bytes /\ (16 * (x % 16)) + (y % 16) \in Bytes
         /\ (16 * (x \div 16)) + (y \div 16) \in Bytes /\ (16 * (x \div 16)) + (y % 16) \in Bytes
<1>1. \A high, low \in 0 .. 15 : (16 * high) + low \in Bytes
  BY DEF Bytes
<1>2. x \div 16 \in 0 .. 15 /\ x % 16 \in 0 .. 15 /\ y \div 16 \in 0 .. 15 /\ y % 16 \in 0 .. 15
  BY DEF Bytes
<1> QED
  BY <1>1, <1>2

LEMMA RrdRldFits ==
  ASSUME NEW s, Fits(s), NEW op
  PROVE  Fits(OpRrdRld(op, s))
<1> DEFINE digits == Digits(op, s)
           b == (16 * (RegA(s) \div 16)) + digits.a
           fl == (s.f \cap {"C"}) \cup SZXYP(b)
           w == Wrap16(HL(s) + 1)
           n == Write(HL(s), digits.m, Read(HL(s), s))
<1>1. HL(s) \in Words /\ RegA(s) \in Bytes /\ w \in Words
  BY RegistersFit, WordAtFits
<1>2. At(HL(s), s) \in Bytes
  BY <1>1, AtFits
<1>3. digits.m \in Bytes /\ b \in Bytes
  <2> DEFINE x == RegA(s)
             y == At(HL(s), s)
  <2>1. /\ digits.m = IF op = \h67 THEN (16 * (x % 16)) + (y \div 16) ELSE (16 * (y % 16)) + (x % 16)
        /\ digits.a = IF op = \h67 THEN y % 16 ELSE y \div 16
    BY DEF Digits
  <2>2. x \in Bytes /\ y \in Bytes
    BY <1>1, <1>2
  <2> HIDE DEF digits, x, y
  <2>3. digits.m \in Bytes /\ (16 * (x \div 16)) + digits.a \in Bytes
    BY <2>1, <2>2, DigitsFit
  <2> QED
    BY <2>3 DEF x
<1>4. Fits(Read(HL(s), s))
  BY <1>1, <1>3, AccessesFit
<1>5. Fits(n)
  BY <1>1, <1>3, <1>4, AccessesFit
<1>6. OpRrdRld(op, s) = Setting(fl, 18, [[n EXCEPT !.wz = w] EXCEPT !.reg[7] = b])
  BY DEF OpRrdRld, ToA
<1> HIDE DEF n, b, w, fl
<1>7. Fits([n EXCEPT !.wz = w])
  BY <1>1, <1>5, FitsWord
<1>8. b \in Bytes
  BY <1>3 DEF b
<1>9. Fits(Setting(fl, 18, [[n EXCEPT !.wz = w] EXCEPT !.reg[7] = b]))
  BY <1>7, <1>8, IntoAFits
<1> QED
  BY <1>6, <1>9

-----------------------------------------------------------------------------
(* Jumps, calls, exchanges and control *)

LEMMA CountedB ==
  ASSUME NEW s, Fits(s), NEW n, Fits(n)
  PROVE  Fits(WriteReg(0, s.reg[0] - 1, n))
<1>1. 0 \in RegisterIndex
  BY DEF RegisterIndex
<1>2. s.reg[0] \in Bytes
  BY <1>1, RegistersFit
<1>3. s.reg[0] - 1 \in Int
  BY <1>2 DEF Bytes
<1> QED
  BY <1>1, <1>3, WriteRegFits

LEMMA JumpsFit ==
  ASSUME NEW s, Fits(s), NEW op, NEW args, args[1] \in Bytes
  PROVE  /\ Fits(OpJr(op, args, s)) /\ Fits(OpDjnz(args, s))
         /\ args[2] \in Bytes => Fits(OpJp(op, args, s))
<1>1. s.pc \in Words
  BY FitsSays
<1>2. Displaced(s.pc, args[1]) \in Words
  BY <1>1, DisplacedFits
<1>3. Fits(OpJr(op, args, s))
  BY <1>2, JumpedFits, EndsFit DEF OpJr
<1>4. Fits(OpDjnz(args, s))
  <2> DEFINE counted == WriteReg(0, s.reg[0] - 1, s)
  <2>1. Fits(counted)
    BY CountedB
  <2>2. Fits(Jumped(Displaced(s.pc, args[1]), counted))
    BY <1>2, <2>1, JumpedFits
  <2> QED
    BY <2>1, <2>2, EndsFit DEF OpDjnz
<1>5. ASSUME args[2] \in Bytes
      PROVE  Fits(OpJp(op, args, s))
  <2>1. Operand(args) \in Words
    BY <1>5, OperandFits
  <2>2. Fits([s EXCEPT !.wz = Operand(args)]) /\ Fits(Jumped(Operand(args), s))
    BY <2>1, FitsWord, JumpedFits
  <2> QED
    BY <2>2, EndsFit DEF OpJp
<1> QED
  BY <1>3, <1>4, <1>5

LEMMA CallsFit ==
  ASSUME NEW s, Fits(s), NEW op \in Byte
  PROVE  /\ \A args : args[1] \in Bytes /\ args[2] \in Bytes => Fits(OpCall(op, args, s))
         /\ Fits(OpRst(op, s))
<1>1. s.pc \in Words
  BY FitsSays
<1>2. Fits(PushWord(s.pc, s))
  BY <1>1, StackFits
<1>3. ASSUME NEW args, args[1] \in Bytes, args[2] \in Bytes
      PROVE  Fits(OpCall(op, args, s))
  <2>1. Operand(args) \in Words
    BY <1>3, OperandFits
  <2>2. Fits([s EXCEPT !.wz = Operand(args)]) /\ Fits(Jumped(Operand(args), PushWord(s.pc, s)))
    BY <1>2, <2>1, FitsWord, JumpedFits
  <2> QED
    BY <2>2, EndsFit DEF OpCall
<1>4. 8 * Field(op) \in Words
  <2>1. 8 * Field(op) \in Int /\ 8 * Field(op) >= 0 /\ 8 * Field(op) <= 65535
    BY FieldsAre
  <2> QED
    BY <2>1, WordsAre
<1>5. Fits(Jumped(8 * Field(op), PushWord(s.pc, s)))
  BY <1>2, <1>4, JumpedFits
<1>6. Fits(OpRst(op, s))
  BY <1>5, EndsFit DEF OpRst
<1> QED
  BY <1>3, <1>6

LEMMA ReturnsFit ==
  ASSUME NEW s, Fits(s), NEW op, NEW t
  PROVE  Fits(OpRet(t, s)) /\ Fits(OpRetCc(op, s)) /\ Fits(RetIff(s))
<1>1. Fits(Jumped(WordAt(s.sp, s), PopWord(s)))
  BY StackFits, JumpedFits
<1>2. ASSUME NEW u
      PROVE  Fits(OpRet(u, s))
  BY <1>1, EndsFit DEF OpRet
<1>3. Fits(OpRetCc(op, s))
  BY <1>2, EndsFit DEF OpRetCc
<1>4. Fits([OpRet(14, s) EXCEPT !.iff1 = s.iff2])
  BY <1>2, FitsUnsized
<1> QED
  BY <1>2, <1>3, <1>4 DEF RetIff

LEMMA ControlFits ==
  ASSUME NEW s, Fits(s), NEW op, NEW on
  PROVE  Fits(OpInterruptEnable(on, s)) /\ Fits(OpIm(op, s)) /\ Fits(OpHalt(s))
<1>1. Fits([s EXCEPT !.iff1 = on, !.iff2 = on, !.delay = IF on THEN 1 ELSE 0])
  BY DEF Fits
<1>2. Fits([s EXCEPT !.im = IF Field(op) % 4 < 2 THEN 0 ELSE (Field(op) % 4) - 1])
  BY FitsUnsized
<1>3. Fits([s EXCEPT !.halted = TRUE])
  BY FitsUnsized
<1> QED
  BY <1>1, <1>2, <1>3, EndsFit DEF OpInterruptEnable, OpIm, OpHalt

LEMMA ExchangesFit ==
  ASSUME NEW s, Fits(s)
  PROVE  Fits(OpExDeHl(s)) /\ Fits(OpExx(s)) /\ Fits(OpExAfAf(s))
<1>1. Fits(OpExDeHl(s))
  <2>1. HL(s) \in Int /\ DE(s) \in Int /\ 1 \in 0 .. 3 /\ 2 \in 0 .. 3
    BY RegistersFit, Halves
  <2>2. Fits(WritePair(2, DE(s), s))
    BY <2>1, WritePairFits
  <2>3. Fits(WritePair(1, HL(s), WritePair(2, DE(s), s)))
    BY <2>1, <2>2, WritePairFits
  <2> QED
    BY <2>3, EndsFit DEF OpExDeHl
<1>2. \A k \in RegisterIndex : s.reg[k] \in Bytes /\ s.alt[k] \in Bytes
  BY RegistersFit
<1>3. Fits(OpExx(s))
  <2> DEFINE reg == [k \in RegisterIndex |-> IF k = 7 THEN s.reg[k] ELSE s.alt[k]]
             alt == [k \in RegisterIndex |-> IF k = 7 THEN s.alt[k] ELSE s.reg[k]]
             n == [s EXCEPT !.reg = reg, !.alt = alt]
  <2>1. reg \in [RegisterIndex -> Bytes] /\ alt \in [RegisterIndex -> Bytes]
    BY <1>2
  <2>2. OpExx(s) = Keeping(4, n)
    BY DEF OpExx
  <2> HIDE DEF reg, alt
  <2>3. Fits(n)
    BY <2>1 DEF Fits
  <2> HIDE DEF n
  <2> QED
    BY <2>2, <2>3, EndsFit
<1>4. Fits(OpExAfAf(s))
  <2> DEFINE n == [s EXCEPT !.reg[7] = s.alt[7], !.alt[7] = s.reg[7], !.f = s.altf, !.altf = s.f]
  <2>1. s.reg[7] \in Bytes /\ s.alt[7] \in Bytes
    BY <1>2 DEF RegisterIndex
  <2>2. OpExAfAf(s) = Keeping(4, n)
    BY DEF OpExAfAf
  <2>3. Fits(n)
    BY <2>1 DEF Fits
  <2> HIDE DEF n
  <2> QED
    BY <2>2, <2>3, EndsFit
<1> QED
  BY <1>1, <1>3, <1>4

(* Both bytes of the top of the stack written back *)
LEMMA TopFits ==
  ASSUME NEW s, Fits(s), NEW value \in Words
  PROVE  /\ WordAt(s.sp, s) \in Words
         /\ Fits(Write(s.sp, Lo(value), Write(Wrap16(s.sp + 1), Hi(value), ReadWord(s.sp, s))))
<1>1. s.sp \in Words /\ Hi(value) \in Bytes /\ Lo(value) \in Bytes
  BY FitsSays, Halves
<1>2. WordAt(s.sp, s) \in Words /\ Wrap16(s.sp + 1) \in Words /\ Fits(ReadWord(s.sp, s))
  BY <1>1, WordAtFits
<1>3. Fits(Write(Wrap16(s.sp + 1), Hi(value), ReadWord(s.sp, s)))
  BY <1>1, <1>2, AccessesFit
<1> QED
  BY <1>1, <1>2, <1>3, AccessesFit

LEMMA ExSpHlFits ==
  ASSUME NEW s, Fits(s)
  PROVE  Fits(OpExSpHl(s))
<1> DEFINE n == Write(s.sp, Lo(HL(s)), Write(Wrap16(s.sp + 1), Hi(HL(s)), ReadWord(s.sp, s)))
<1>1. WordAt(s.sp, s) \in Words /\ Fits(n)
  BY RegistersFit, TopFits
<1>2. TopExchanged(HL(s), s) = [n EXCEPT !.wz = WordAt(s.sp, s)]
  BY DEF TopExchanged
<1> HIDE DEF n
<1>3. Fits([n EXCEPT !.wz = WordAt(s.sp, s)])
  BY <1>1, FitsWord
<1>4. Fits(TopExchanged(HL(s), s)) /\ WordAt(s.sp, s) \in Int /\ 2 \in 0 .. 3
  BY <1>1, <1>2, <1>3, Halves
<1>5. Fits(WritePair(2, WordAt(s.sp, s), TopExchanged(HL(s), s)))
  BY <1>4, WritePairFits
<1> QED
  BY <1>5, EndsFit DEF OpExSpHl

-----------------------------------------------------------------------------
(* Ports and blocks *)

LEMMA PortsFit ==
  ASSUME NEW s, Fits(s), NEW op \in Byte, NEW args, args[1] \in Bytes
  PROVE  Fits(OpInAN(args, s)) /\ Fits(OpOutNA(args, s))
<1> DEFINE port == Word(RegA(s), args[1])
<1>1. port \in Words /\ RegA(s) \in Bytes
  BY RegistersFit, Joins
<1>2. /\ PortByte(port) \in Bytes /\ Wrap16(port + 1) \in Words /\ Latched(port, s) \in Words
      /\ Fits(In(port, s)) /\ Fits(Out(port, RegA(s), s))
  BY <1>1, AtFits, WordAtFits, LatchedFits, AccessesFit
<1>3. Fits([In(port, s) EXCEPT !.reg[7] = PortByte(port), !.wz = Wrap16(port + 1)])
  BY <1>2, FitsTaken
<1>4. Fits([Out(port, RegA(s), s) EXCEPT !.wz = Latched(port, s)])
  BY <1>2, FitsWord
<1> QED
  BY <1>3, <1>4, EndsFit DEF OpInAN, OpOutNA

LEMMA InOutFit ==
  ASSUME NEW s, Fits(s), NEW op \in Byte
  PROVE  Fits(OpInRC(op, s)) /\ Fits(OpOutCR(op, s))
<1>1. BC(s) \in Words /\ Field(op) \in 0 .. 7
  BY RegistersFit, FieldsAre
<1>2. PortByte(BC(s)) \in Bytes /\ PortByte(BC(s)) \in Int /\ Wrap16(BC(s) + 1) \in Words
  BY <1>1, AtFits, WordAtFits, Joins
<1>3. Field(op) # 6 => Field(op) \in RegisterIndex
  BY <1>1 DEF RegisterIndex
<1>4. Fits(OpInRC(op, s))
  <2> DEFINE taken == [In(BC(s), s) EXCEPT !.wz = Wrap16(BC(s) + 1)]
             n == IF Field(op) = 6 THEN taken ELSE WriteReg(Field(op), PortByte(BC(s)), taken)
             fl == (s.f \cap {"C"}) \cup SZXYP(PortByte(BC(s)))
  <2>0. PortByte(BC(s)) \in Bytes /\ Fits(In(BC(s), s))
    BY <1>1, <1>2, AccessesFit
  <2>1. Fits(taken)
    BY <1>2, <2>0, FitsWord
  <2>2. OpInRC(op, s) = Setting(fl, 12, n)
    BY DEF OpInRC
  <2> HIDE DEF taken, fl
  <2>3. Fits(n)
    BY <1>2, <1>3, <2>1, WriteRegFits
  <2> HIDE DEF n
  <2> QED
    BY <2>2, <2>3, EndsFit
<1>5. Fits(OpOutCR(op, s))
  <2> DEFINE value == IF Field(op) = 6 THEN (IF s.cmos THEN 255 ELSE 0) ELSE s.reg[Field(op)]
  <2>1. value \in Bytes
    BY <1>3, RegistersFit DEF Bytes
  <2>2. OpOutCR(op, s) = Keeping(12, [Out(BC(s), value, s) EXCEPT !.wz = Wrap16(BC(s) + 1)])
    BY DEF OpOutCR
  <2> HIDE DEF value
  <2>3. Fits(Out(BC(s), value, s))
    BY <1>1, <2>1, AccessesFit
  <2>4. Fits([Out(BC(s), value, s) EXCEPT !.wz = Wrap16(BC(s) + 1)])
    BY <1>2, <2>3, FitsWord
  <2> QED
    BY <2>2, <2>4, EndsFit
<1> QED
  BY <1>4, <1>5

LEMMA WayIs == \A op : Way(op) \in {1, -1} /\ Way(op) \in Int
BY DEF Way

LEMMA CountedFits ==
  ASSUME NEW s, Fits(s), NEW op, NEW k \in 0 .. 3
  PROVE  Fits(Counted(op, k, s))
<1>1. ReadPair(k, s) + Way(op) \in Int
  BY RegistersFit, Halves, WayIs
<1> QED
  BY <1>1, WritePairFits DEF Counted

(* The word a little further *)
LEMMA FurtherFits ==
  ASSUME NEW w \in Words, NEW by \in Int
  PROVE  Wrap16(w + by) \in Words /\ w + by \in Int
<1>1. w + by \in Int
  BY Halves
<1> QED
  BY <1>1, Masked

(* A new F alone, and a new F and WZ *)
LEMMA FitsFlags ==
  ASSUME NEW s, Fits(s), NEW fl, NEW w \in Words
  PROVE  Fits([s EXCEPT !.f = fl, !.wz = w]) /\ Fits([s EXCEPT !.f = fl])
BY DEF Fits

LEMMA MovesFit ==
  ASSUME NEW s, Fits(s), NEW op
  PROVE  Fits(BlockLd(op, s).s) /\ Fits(BlockCp(op, s).s)
<1>1. HL(s) \in Words /\ DE(s) \in Words /\ BC(s) \in Int
  BY RegistersFit, Halves
<1>2. At(HL(s), s) \in Bytes /\ BC(s) - 1 \in Int /\ {0, 1, 2} \subseteq 0 .. 3
  BY <1>1, AtFits
<1>3. Fits(Read(HL(s), s))
  BY <1>1, <1>2, AccessesFit
<1>4. Fits(Write(DE(s), At(HL(s), s), Read(HL(s), s)))
  BY <1>1, <1>2, <1>3, AccessesFit
<1>5. Fits(BlockLd(op, s).s)
  <2> DEFINE two == Counted(op, 2, Write(DE(s), At(HL(s), s), Read(HL(s), s)))
             one == Counted(op, 1, two)
             moved == WritePair(0, BC(s) - 1, one)
             fl == BlockLdFlags(RegA(s), At(HL(s), s), BC(moved), s.f)
  <2>1. Fits(two)
    BY <1>2, <1>4, CountedFits
  <2>2. BlockLd(op, s).s = [moved EXCEPT !.f = fl]
    BY DEF BlockLd
  <2> HIDE DEF two, fl
  <2>3. Fits(one)
    BY <1>2, <2>1, CountedFits
  <2> HIDE DEF one
  <2>4. Fits(moved)
    BY <1>2, <2>3, WritePairFits
  <2> HIDE DEF moved
  <2>5. Fits([moved EXCEPT !.f = fl])
    BY <2>4, FitsUnsized
  <2> QED
    BY <2>2, <2>5
<1>6. Fits(BlockCp(op, s).s)
  <2> DEFINE two == Counted(op, 2, Read(HL(s), s))
             moved == WritePair(0, BC(s) - 1, two)
             fl == BlockCpFlags(RegA(s), At(HL(s), s), BC(moved), s.f)
             w == Wrap16(moved.wz + Way(op))
  <2>1. Fits(two)
    BY <1>2, <1>3, CountedFits
  <2>2. BlockCp(op, s).s = [moved EXCEPT !.f = fl, !.wz = w]
    BY DEF BlockCp
  <2> HIDE DEF two, fl
  <2>3. Fits(moved)
    BY <1>2, <2>1, WritePairFits
  <2> HIDE DEF moved
  <2>4. w \in Words
    BY <2>3, FitsSays, WayIs, FurtherFits
  <2> HIDE DEF w
  <2>5. Fits([moved EXCEPT !.f = fl, !.wz = w])
    BY <2>3, <2>4, FitsFlags
  <2> QED
    BY <2>2, <2>5
<1> QED
  BY <1>5, <1>6

LEMMA BlockIoFit ==
  ASSUME NEW s, Fits(s), NEW op
  PROVE  Fits(BlockIni(op, s).s) /\ Fits(BlockOuti(op, s).s)
<1>1. HL(s) \in Words /\ BC(s) \in Words /\ 2 \in 0 .. 3
  BY RegistersFit
<1>2. At(HL(s), s) \in Bytes /\ PortByte(BC(s)) \in Bytes
  BY <1>1, AtFits
<1>3. Fits(Read(HL(s), s)) /\ Fits(In(BC(s), s))
  BY <1>1, <1>2, AccessesFit
<1>4. Fits(BlockIni(op, s).s)
  <2> DEFINE data == PortByte(BC(s))
             taken == WriteReg(0, s.reg[0] - 1, In(BC(s), s))
             written == Write(HL(s), data, taken)
             n == Counted(op, 2, written)
             fl == BlockIoFlags(((s.reg[1] + Way(op)) % 256) + data, data, taken.reg[0])
             w == Wrap16(BC(s) + Way(op))
  <2>1. w \in Words
    BY <1>1, WayIs, FurtherFits
  <2>2. BlockIni(op, s).s = [n EXCEPT !.f = fl, !.wz = w]
    BY DEF BlockIni
  <2> HIDE DEF fl, w
  <2>3. Fits(taken)
    BY <1>3, CountedB
  <2> HIDE DEF taken
  <2>4. Fits(written)
    BY <1>1, <1>2, <2>3, AccessesFit
  <2> HIDE DEF written
  <2>5. Fits(n)
    BY <1>1, <2>4, CountedFits
  <2> HIDE DEF n
  <2>6. Fits([n EXCEPT !.f = fl, !.wz = w])
    BY <2>1, <2>5, FitsFlags
  <2> QED
    BY <2>2, <2>6
<1>5. Fits(BlockOuti(op, s).s)
  <2> DEFINE data == At(HL(s), s)
             two == Counted(op, 2, Read(HL(s), s))
             moved == WriteReg(0, s.reg[0] - 1, two)
             n == Out(BC(moved), data, moved)
             fl == BlockIoFlags(moved.reg[5] + data, data, moved.reg[0])
             w == Wrap16(BC(moved) + Way(op))
  <2>1. BlockOuti(op, s).s = [n EXCEPT !.f = fl, !.wz = w]
    BY DEF BlockOuti
  <2>2. Fits(two)
    BY <1>1, <1>3, CountedFits
  <2> HIDE DEF fl, two
  <2>3. Fits(moved)
    BY <2>2, CountedB
  <2> HIDE DEF moved
  <2>4. BC(moved) \in Words
    BY <2>3, RegistersFit
  <2>5. w \in Words /\ Fits(n)
    BY <1>2, <2>3, <2>4, WayIs, FurtherFits, AccessesFit
  <2> HIDE DEF n, w
  <2>6. Fits([n EXCEPT !.f = fl, !.wz = w])
    BY <2>5, FitsFlags
  <2> QED
    BY <2>1, <2>6
<1> QED
  BY <1>4, <1>5

LEMMA RewoundFits ==
  ASSUME NEW s, Fits(s)
  PROVE  Fits(Rewound(s))
<1> DEFINE back == Wrap16(s.pc - 2)
           w == Wrap16(s.pc - 1)
           fl == RepeatFlags(s.f, Wrap16(s.pc - 2))
<1>1. s.pc - 2 \in Int /\ s.pc - 1 \in Int
  BY FitsSays, Halves
<1>2. back \in Words /\ w \in Words
  BY <1>1, Masked
<1>3. Rewound(s) = [s EXCEPT !.pc = back, !.wz = w, !.f = fl]
  BY DEF Rewound
<1> HIDE DEF back, w, fl
<1>4. Fits([s EXCEPT !.pc = back, !.wz = w, !.f = fl])
  BY <1>2 DEF Fits
<1> QED
  BY <1>3, <1>4

LEMMA BlocksFit ==
  ASSUME NEW s, Fits(s), NEW op
  PROVE  /\ Fits(OpBlock(op, BlockLd(op, s))) /\ Fits(OpBlock(op, BlockCp(op, s)))
         /\ Fits(OpBlockIo(op, BlockIni(op, s))) /\ Fits(OpBlockIo(op, BlockOuti(op, s)))
<1>1. ASSUME NEW step, Fits(step.s)
      PROVE  Fits(OpBlock(op, step)) /\ Fits(OpBlockIo(op, step))
  <2>1. Fits(Rewound(step.s))
    BY <1>1, RewoundFits
  <2> QED
    BY <1>1, <2>1, EndsFit DEF OpBlock, OpBlockIo
<1> QED
  BY <1>1, MovesFit, BlockIoFit

-----------------------------------------------------------------------------
(* IX and IY *)

LEMMA IndexFits ==
  ASSUME NEW s, Fits(s), NEW p
  PROVE  GetIndex(p, s) \in Words
BY FitsSays DEF GetIndex

LEMMA SetIndexFits ==
  ASSUME NEW s, Fits(s), NEW p, NEW x \in Int
  PROVE  Fits(SetIndex(p, x, s))
<1>1. Wrap16(x) \in Words
  BY Masked
<1>2. Fits([s EXCEPT !.ix = Wrap16(x)]) /\ Fits([s EXCEPT !.iy = Wrap16(x)])
  BY <1>1, FitsWord
<1> QED
  BY <1>2 DEF SetIndex

LEMMA IndexByteFits ==
  ASSUME NEW s, Fits(s), NEW p, NEW k
  PROVE  /\ IndexByte(p, k, s) \in Bytes
         /\ \A b \in Bytes : Fits(SetIndexByte(p, k, b, s))
<1> DEFINE index == GetIndex(p, s)
<1>1. index \in Words
  BY IndexFits
<1>2. Hi(index) \in Bytes /\ Lo(index) \in Bytes
  BY <1>1, Halves
<1>3. IndexByte(p, k, s) \in Bytes
  BY <1>2 DEF IndexByte
<1>4. ASSUME NEW b \in Bytes
      PROVE  Fits(SetIndexByte(p, k, b, s))
  <2> DEFINE w == IF k = 4 THEN Word(b % 256, Lo(index)) ELSE Word(Hi(index), b % 256)
  <2>1. b % 256 \in Bytes
    BY Joins, Masked
  <2>2. w \in Words
    BY <1>2, <2>1, Joins
  <2>3. SetIndexByte(p, k, b, s) = SetIndex(p, w, s)
    BY DEF SetIndexByte
  <2> HIDE DEF w
  <2>4. w \in Int
    BY <2>2, Halves
  <2> QED
    BY <2>3, <2>4, SetIndexFits
<1> QED
  BY <1>3, <1>4

LEMMA IndexWordsFit ==
  ASSUME NEW s, Fits(s), NEW p, NEW args, args[1] \in Bytes, args[2] \in Bytes
  PROVE  /\ Fits(OpLdIndexNn(p, args, s)) /\ Fits(OpLdNnIndex(p, args, s))
         /\ Fits(OpLdIndexNnFromMem(p, args, s))
<1> DEFINE address == Operand(args)
           next == Wrap16(address + 1)
           index == GetIndex(p, s)
<1>1. address \in Words /\ next \in Words /\ address \in Int
  BY OperandFits, WordAtFits, Halves
<1>2. Hi(index) \in Bytes /\ Lo(index) \in Bytes
  BY IndexFits, Halves
<1>3. Fits(OpLdIndexNn(p, args, s))
  BY <1>1, SetIndexFits, EndsFit DEF OpLdIndexNn
<1>4. Fits(OpLdNnIndex(p, args, s))
  <2> DEFINE n == Write(next, Hi(index), Write(address, Lo(index), s))
  <2>1. OpLdNnIndex(p, args, s) = Keeping(20, [n EXCEPT !.wz = next])
    BY DEF OpLdNnIndex
  <2> HIDE DEF next, address, index
  <2>2. Fits(Write(address, Lo(index), s))
    BY <1>1, <1>2, AccessesFit
  <2>3. Fits(n)
    BY <1>1, <1>2, <2>2, AccessesFit
  <2> HIDE DEF n
  <2>4. Fits([n EXCEPT !.wz = next])
    BY <1>1, <2>3, FitsWord
  <2> QED
    BY <2>1, <2>4, EndsFit
<1>5. Fits(OpLdIndexNnFromMem(p, args, s))
  <2> DEFINE w == Word(At(next, s), At(address, s))
             n == SetIndex(p, w, Read(next, Read(address, s)))
  <2>1. OpLdIndexNnFromMem(p, args, s) = Keeping(20, [n EXCEPT !.wz = next])
    BY DEF OpLdIndexNnFromMem
  <2> HIDE DEF next, address
  <2>2. At(next, s) \in Bytes /\ At(address, s) \in Bytes
    BY <1>1, AtFits
  <2>3. w \in Int
    BY <2>2, Joins, Halves
  <2>4. Fits(Read(address, s))
    BY <1>1, <2>2, AccessesFit
  <2>5. Fits(Read(next, Read(address, s)))
    BY <1>1, <2>2, <2>4, AccessesFit
  <2> HIDE DEF w
  <2>6. Fits(n)
    BY <2>3, <2>5, SetIndexFits
  <2> HIDE DEF n
  <2>7. Fits([n EXCEPT !.wz = next])
    BY <1>1, <2>6, FitsWord
  <2> QED
    BY <2>1, <2>7, EndsFit
<1> QED
  BY <1>3, <1>4, <1>5

LEMMA IndexBytesFit ==
  ASSUME NEW s, Fits(s), NEW p, NEW op \in Byte
  PROVE  /\ Fits(OpLdIndexByteIndexByte(p, op, s)) /\ Fits(OpIncDecIndexByte(p, op, s))
         /\ Fits(OpAluIndexByte(p, op, s))
         /\ \A args : args[1] \in Bytes => Fits(OpLdIndexByteN(p, op, args, s))
         /\ Low(op) \in RegisterIndex => Fits(OpLdIndexByteR(p, op, s))
         /\ Field(op) \in RegisterIndex => Fits(OpLdRIndexByte(p, op, s))
<1>1. \A k : IndexByte(p, k, s) \in Bytes /\ IndexByte(p, k, s) \in Int
  BY IndexByteFits, Joins
<1>2. \A k, b : b \in Bytes => Fits(SetIndexByte(p, k, b, s))
  BY IndexByteFits
<1>3. Fits(OpLdIndexByteIndexByte(p, op, s))
  BY <1>1, <1>2, EndsFit DEF OpLdIndexByteIndexByte
<1>4. Fits(OpIncDecIndexByte(p, op, s))
  <2> DEFINE x == IndexByte(p, Field(op), s)
             result == IF Low(op) = 4 THEN Increment(x, s.f) ELSE Decrement(x, s.f)
  <2>1. result.r \in Bytes
    BY <1>1, StepsFit
  <2>2. OpIncDecIndexByte(p, op, s) = Setting(result.f, 8, SetIndexByte(p, Field(op), result.r, s))
    BY DEF OpIncDecIndexByte
  <2> HIDE DEF result
  <2> QED
    BY <1>2, <2>1, <2>2, EndsFit
<1>5. Fits(OpAluIndexByte(p, op, s))
  BY <1>1, AluOnFits DEF OpAluIndexByte
<1>6. \A args : args[1] \in Bytes => Fits(OpLdIndexByteN(p, op, args, s))
  BY <1>2, EndsFit DEF OpLdIndexByteN
<1>7. Low(op) \in RegisterIndex => Fits(OpLdIndexByteR(p, op, s))
  BY <1>2, RegistersFit, EndsFit DEF OpLdIndexByteR
<1>8. Field(op) \in RegisterIndex => Fits(OpLdRIndexByte(p, op, s))
  BY <1>1, WriteRegFits, EndsFit DEF OpLdRIndexByte
<1> QED
  BY <1>3, <1>4, <1>5, <1>6, <1>7, <1>8

LEMMA IndexMovesFit ==
  ASSUME NEW s, Fits(s), NEW p, NEW op \in Byte
  PROVE  /\ Fits(OpAddIndexRr(p, op, s)) /\ Fits(OpIncDecIndex(p, op, s))
         /\ Fits(OpPopIndex(p, s)) /\ Fits(OpPushIndex(p, s)) /\ Fits(OpExSpIndex(p, s))
         /\ Fits(OpJpIndex(p, s)) /\ Fits(OpLdSpIndex(p, s))
<1> DEFINE index == GetIndex(p, s)
<1>1. index \in Words /\ index \in Int /\ WordAt(s.sp, s) \in Words /\ WordAt(s.sp, s) \in Int
  BY IndexFits, StackFits, Halves
<1>2. Fits(OpAddIndexRr(p, op, s))
  <2> DEFINE y == IF PairOf(op) = 2 THEN index ELSE ReadPair(PairOf(op), s)
             result == Add16KeepSzpv(index, y, s.f)
             n == SetIndex(p, result.r, s)
             w == Wrap16(index + 1)
  <2>1. y \in Words /\ w \in Words
    BY <1>1, FieldsAre, RegistersFit, WordAtFits
  <2>2. OpAddIndexRr(p, op, s) = Setting(result.f, 15, [n EXCEPT !.wz = w])
    BY DEF OpAddIndexRr
  <2> HIDE DEF index, y, w
  <2>3. result.r \in Int
    BY <1>1, <2>1, CarryFits, WideFits, Halves
  <2>4. Fits(n)
    BY <2>3, SetIndexFits
  <2> HIDE DEF n, result
  <2>5. Fits([n EXCEPT !.wz = w])
    BY <2>1, <2>4, FitsWord
  <2> QED
    BY <2>2, <2>5, EndsFit
<1>3. Fits(OpIncDecIndex(p, op, s))
  <2> DEFINE by == IF op = \h23 THEN 1 ELSE -1
  <2>1. index + by \in Int
    BY <1>1
  <2>2. Fits(SetIndex(p, index + by, s))
    BY <2>1, SetIndexFits
  <2> QED
    BY <2>2, EndsFit DEF OpIncDecIndex
<1>4. Fits(OpPopIndex(p, s)) /\ Fits(OpPushIndex(p, s))
  <2>1. Fits(PopWord(s)) /\ Fits(PushWord(index, s))
    BY <1>1, StackFits
  <2>2. Fits(SetIndex(p, WordAt(s.sp, s), PopWord(s)))
    BY <1>1, <2>1, SetIndexFits
  <2> QED
    BY <2>1, <2>2, EndsFit DEF OpPopIndex, OpPushIndex
<1>5. Fits(OpExSpIndex(p, s))
  <2> DEFINE value == WordAt(s.sp, s)
             stored == Write(s.sp, Lo(index), Write(Wrap16(s.sp + 1), Hi(index), ReadWord(s.sp, s)))
             n == SetIndex(p, value, stored)
  <2>1. Fits(stored)
    BY <1>1, TopFits
  <2>2. OpExSpIndex(p, s) = Keeping(23, [n EXCEPT !.wz = value])
    BY DEF OpExSpIndex
  <2> HIDE DEF stored
  <2>3. Fits(n)
    BY <1>1, <2>1, SetIndexFits
  <2> HIDE DEF n
  <2>4. Fits([n EXCEPT !.wz = value])
    BY <1>1, <2>3, FitsWord
  <2> QED
    BY <2>2, <2>4, EndsFit
<1>6. Fits(OpJpIndex(p, s)) /\ Fits(OpLdSpIndex(p, s))
  <2>1. Fits([s EXCEPT !.pc = index]) /\ Fits([s EXCEPT !.sp = index])
    BY <1>1, FitsWord
  <2> QED
    BY <2>1, EndsFit DEF OpJpIndex, OpLdSpIndex
<1> QED
  BY <1>2, <1>3, <1>4, <1>5, <1>6

-----------------------------------------------------------------------------
(* The displaced address *)

LEMMA IndexAddressFits ==
  ASSUME NEW s, Fits(s), NEW p, NEW d \in Bytes
  PROVE  /\ IndexAddress(p, d, s) \in Words
         /\ At(IndexAddress(p, d, s), s) \in Bytes
         /\ Fits(Read(IndexAddress(p, d, s), s))
<1>1. IndexAddress(p, d, s) \in Words
  BY IndexFits, DisplacedFits DEF IndexAddress
<1>2. At(IndexAddress(p, d, s), s) \in Bytes
  BY <1>1, AtFits
<1> QED
  BY <1>1, <1>2, AccessesFit

LEMMA DisplacedHandlersFit ==
  ASSUME NEW s, Fits(s), NEW p, NEW op \in Byte, NEW args, args[1] \in Bytes
  PROVE  /\ Fits(OpAluIndexMem(p, op, args, s)) /\ Fits(OpIncDecIndexMem(p, op, args, s))
         /\ Field(op) \in RegisterIndex => Fits(OpLdRIndexMem(p, op, args, s))
         /\ Low(op) \in RegisterIndex => Fits(OpLdIndexMemR(p, op, args, s))
         /\ args[2] \in Bytes => Fits(OpLdIndexMemN(p, args, s))
<1> DEFINE address == IndexAddress(p, args[1], s)
<1>1. address \in Words /\ At(address, s) \in Bytes /\ Fits(Read(address, s))
  BY IndexAddressFits
<1>2. Fits(OpAluIndexMem(p, op, args, s))
  <2>1. Fits([Read(address, s) EXCEPT !.wz = address])
    BY <1>1, FitsWord
  <2> QED
    BY <1>1, <2>1, AluOnFits DEF OpAluIndexMem
<1>3. Fits(OpIncDecIndexMem(p, op, args, s))
  <2> DEFINE result == IF op = \h34 THEN Increment(At(address, s), s.f) ELSE Decrement(At(address, s), s.f)
             n == Write(address, result.r, Read(address, s))
  <2>1. result.r \in Bytes
    BY <1>1, StepsFit
  <2>2. OpIncDecIndexMem(p, op, args, s) = Setting(result.f, 23, [n EXCEPT !.wz = address])
    BY DEF OpIncDecIndexMem
  <2> HIDE DEF result, address
  <2>3. Fits(n)
    BY <1>1, <2>1, AccessesFit
  <2> HIDE DEF n
  <2>4. Fits([n EXCEPT !.wz = address])
    BY <1>1, <2>3, FitsWord
  <2> QED
    BY <2>2, <2>4, EndsFit
<1>4. ASSUME Field(op) \in RegisterIndex
      PROVE  Fits(OpLdRIndexMem(p, op, args, s))
  <2> DEFINE n == WriteReg(Field(op), At(address, s), Read(address, s))
  <2>1. At(address, s) \in Int
    BY <1>1, Joins
  <2>2. Fits(n)
    BY <1>1, <1>4, <2>1, WriteRegFits
  <2>3. OpLdRIndexMem(p, op, args, s) = Keeping(19, [n EXCEPT !.wz = address])
    BY DEF OpLdRIndexMem
  <2> HIDE DEF n
  <2>4. Fits([n EXCEPT !.wz = address])
    BY <1>1, <2>2, FitsWord
  <2> QED
    BY <2>3, <2>4, EndsFit
<1>5. ASSUME NEW b \in Bytes
      PROVE  Fits([Write(address, b, s) EXCEPT !.wz = address])
  <2>1. Fits(Write(address, b, s))
    BY <1>1, AccessesFit
  <2> QED
    BY <1>1, <2>1, FitsWord
<1>6. Low(op) \in RegisterIndex => Fits(OpLdIndexMemR(p, op, args, s))
  BY <1>5, RegistersFit, EndsFit DEF OpLdIndexMemR
<1>7. args[2] \in Bytes => Fits(OpLdIndexMemN(p, args, s))
  BY <1>5, EndsFit DEF OpLdIndexMemN
<1> QED
  BY <1>2, <1>3, <1>4, <1>6, <1>7

LEMMA WrittenBackFits ==
  ASSUME NEW s, Fits(s), NEW address \in Words, NEW value \in Bytes, NEW op \in Byte
  PROVE  Fits(WrittenBack(address, value, op, s))
<1> DEFINE n == Write(address, value, Read(address, s))
           stored == [n EXCEPT !.wz = address]
<1>1. Fits(Read(address, s))
  BY AccessesFit, AtFits
<1>2. Fits(n)
  BY <1>1, AccessesFit
<1>3. WrittenBack(address, value, op, s) = IF Low(op) = 6 THEN stored ELSE WriteReg(Low(op), value, stored)
  BY DEF WrittenBack
<1> HIDE DEF n
<1>4. Fits(stored)
  BY <1>2, FitsWord
<1> HIDE DEF stored
<1>5. value \in Int /\ (Low(op) # 6 => Low(op) \in RegisterIndex)
  BY FieldsAre, Joins DEF RegisterIndex
<1> QED
  BY <1>3, <1>4, <1>5, WriteRegFits

LEMMA IndexCbHandlersFit ==
  ASSUME NEW s, Fits(s), NEW p, NEW d \in Bytes, NEW op \in Byte
  PROVE  /\ Fits(OpIndexBit(p, d, op, s)) /\ Fits(OpIndexRot(p, d, op, s))
         /\ Fits(OpIndexResSet(p, d, op, s))
<1> DEFINE address == IndexAddress(p, d, s)
           x == At(address, s)
           result == RotApply(RotNames[Field(op) + 1], x, s.f)
<1>1. address \in Words /\ x \in Bytes /\ Fits(Read(address, s))
  BY IndexAddressFits
<1>2. RotNames[Field(op) + 1] \in RotOps
  BY FieldsAre, AluNamed
<1>3. result.r \in Bytes /\ WithBit(op, x, op >= \hC0) \in Bytes
  BY <1>1, <1>2, RotFits, WithBitFits
<1>4. Fits([Read(address, s) EXCEPT !.wz = address])
  BY <1>1, FitsWord
<1>5. Fits(OpIndexBit(p, d, op, s))
  BY <1>4, EndsFit DEF OpIndexBit
<1>6. /\ Fits(WrittenBack(address, result.r, op, s))
      /\ Fits(WrittenBack(address, WithBit(op, x, op >= \hC0), op, s))
  BY <1>1, <1>3, WrittenBackFits
<1> QED
  BY <1>5, <1>6, EndsFit DEF OpIndexRot, OpIndexResSet

-----------------------------------------------------------------------------
(* The pages *)

LEMMA Every8Is ==
  ASSUME NEW first \in Int
  PROVE  Every8(first) = {first, first + 8, first + 16, first + 24,
                          first + 32, first + 40, first + 48, first + 56}
BY DEF Every8

(* The opcodes whose handlers read operands *)
MainTwo == {\h01, \h11, \h21, \h31, \h22, \h2A, \h32, \h3A}
             \cup Every8(\hC2) \cup {\hC3} \cup Every8(\hC4) \cup {\hCD}
MainOne == Every8(\h06) \cup {\h10, \h18, \h20, \h28, \h30, \h38} \cup Every8(\hC6) \cup {\hD3, \hDB}

LEMMA CbFits ==
  ASSUME NEW s, Fits(s), NEW op \in Byte
  PROVE  Fits(CbEffect(op, s))
<1>1. op < \h40 \/ op \in \h40 .. \h7F \/ op >= \h80
  BY FieldsAre
<1>2. Fits(OpRot(op, s)) /\ Fits(OpBit(op, s)) /\ Fits(OpResSet(op, s))
  BY RotHandlersFit, ResSetFits
<1> QED
  BY <1>1, <1>2 DEF CbEffect

LEMMA IndexCbFits ==
  ASSUME NEW s, Fits(s), NEW p, NEW d \in Bytes, NEW op \in Byte
  PROVE  Fits(IndexCbEffect(p, d, op, s))
<1>1. op < \h40 \/ op \in \h40 .. \h7F \/ op >= \h80
  BY FieldsAre
<1> QED
  BY <1>1, IndexCbHandlersFit DEF IndexCbEffect

LEMMA MainFits ==
  ASSUME NEW s, Fits(s), NEW op \in Byte \ {\hCB, \hDD, \hED, \hFD}, NEW args,
         op \in MainOne \cup MainTwo => args[1] \in Bytes,
         op \in MainTwo => args[2] \in Bytes
  PROVE  Fits(MainEffect(op, args, s))
<1>0. op \in Byte
  OBVIOUS
<1>1. op \in MainTwo =>
        /\ Fits(OpLdRrNn(op, args, s)) /\ Fits(OpLdNnHl(args, s)) /\ Fits(OpLdHlNnFromMem(args, s))
        /\ Fits(OpLdInnA(args, s)) /\ Fits(OpLdAInn(args, s))
        /\ Fits(OpJp(op, args, s)) /\ Fits(OpCall(op, args, s))
  BY <1>0, WordLoadsFit, LoadsOfAFit, JumpsFit, CallsFit
<1>2. op \in MainOne =>
        /\ Fits(OpLdRN(op, args, s)) /\ Fits(OpDjnz(args, s)) /\ Fits(OpJr(op, args, s))
        /\ Fits(OpAluN(op, args, s)) /\ Fits(OpOutNA(args, s)) /\ Fits(OpInAN(args, s))
  BY <1>0, LdRNFits, JumpsFit, AluHandlersFit, PortsFit
<1>3. /\ Fits(Keeping(4, s)) /\ Fits(OpLdIrrA(op, s)) /\ Fits(OpLdAIrr(op, s)) /\ Fits(OpLdRR(op, s))
      /\ Fits(OpPopRr(op, s)) /\ Fits(OpPushRr(op, s)) /\ Fits(OpPopAf(s)) /\ Fits(OpPushAf(s))
  BY <1>0, EndsFit, LoadsOfAFit, LdRRFits, StackLoadsFit
<1>4. /\ Fits(OpIncDec(op, s)) /\ Fits(OpIncDecRr(op, s)) /\ Fits(OpAddHlRr(op, s)) /\ Fits(OpAluR(op, s))
      /\ Fits(OpDaa(s)) /\ Fits(OpCpl(s)) /\ Fits(OpScfCcf(op, s))
  BY <1>0, IncDecFits, WideHandlersFit, AluHandlersFit, AccumulatorFits
<1>5. /\ Fits(OpHalt(s)) /\ Fits(OpInterruptEnable(op = \hFB, s))
      /\ Fits(OpExDeHl(s)) /\ Fits(OpExx(s)) /\ Fits(OpExAfAf(s)) /\ Fits(OpExSpHl(s))
  BY ControlFits, ExchangesFit, ExSpHlFits
<1>6. /\ Fits(OpRetCc(op, s)) /\ Fits(OpRet(10, s)) /\ Fits(OpRst(op, s))
      /\ Fits(OpJpHl(s)) /\ Fits(OpLdSpHl(s))
  BY <1>0, ReturnsFit, CallsFit, FromHlFits
<1>7. ASSUME op \in {\h07, \h0F, \h17, \h1F}
      PROVE  Fits(OpRotA(op, s))
  BY <1>7, RotAFits
<1> QED
  BY <1>1, <1>2, <1>3, <1>4, <1>5, <1>6, <1>7, Every8Is DEF MainEffect, MainOne, MainTwo, Byte

EdTwo == {\h43, \h53, \h63, \h73, \h4B, \h5B, \h6B, \h7B}

LEMMA EdFits ==
  ASSUME NEW s, Fits(s), NEW op \in Byte, NEW args,
         op \in EdTwo => args[1] \in Bytes /\ args[2] \in Bytes
  PROVE  Fits(EdEffect(op, args, s))
<1>1. op \in EdTwo => Fits(OpLdNnRr(op, args, s)) /\ Fits(OpLdRrNnFromMem(op, args, s))
  BY WordLoadsFit
<1>2. /\ Fits(OpInRC(op, s)) /\ Fits(OpOutCR(op, s)) /\ Fits(OpSbcHlRr(op, s)) /\ Fits(OpAdcHlRr(op, s))
      /\ Fits(OpNeg(s)) /\ Fits(RetIff(s)) /\ Fits(OpIm(op, s)) /\ Fits(OpRrdRld(op, s))
  BY InOutFit, WideHandlersFit, AccumulatorFits, ReturnsFit, ControlFits, RrdRldFits
<1>3. Fits(OpLdIA(s)) /\ Fits(OpLdRA(s)) /\ Fits(OpLdAFrom(s.i, s)) /\ Fits(OpLdAFrom(s.r, s))
  BY LdIRFits
<1>4. /\ Fits(OpBlock(op, BlockLd(op, s))) /\ Fits(OpBlock(op, BlockCp(op, s)))
      /\ Fits(OpBlockIo(op, BlockIni(op, s))) /\ Fits(OpBlockIo(op, BlockOuti(op, s)))
  BY BlocksFit
<1>5. Fits(Keeping(8, s))
  BY EndsFit
<1> QED
  BY <1>1, <1>2, <1>3, <1>4, <1>5, Every8Is DEF EdEffect, EdTwo

(* The opcodes a prefix gives a handler of its own, by what they read *)
IndexTwo  == {\h21, \h22, \h2A, \h36}
IndexOne  == {\h26, \h2E, \h34, \h35}
               \cup {op \in \h40 .. \hBF : Low(op) = 6 /\ op # \h76}
               \cup {op \in \h70 .. \h77 : op # \h76}
IndexNone == {\h09, \h19, \h29, \h39, \h23, \h2B, \h24, \h25, \h2C, \h2D,
              \hE1, \hE3, \hE5, \hE9, \hF9}
               \cup {op \in \h40 .. \hBF : Low(op) \in {4, 5} /\ op \notin \h70 .. \h77}
               \cup {op \in \h60 .. \h6F : Low(op) # 6}

LEMMA IndexedFits ==
  ASSUME NEW s, Fits(s), NEW p, NEW op \in IndexTwo \cup IndexOne \cup IndexNone, NEW args,
         op \in IndexOne \cup IndexTwo => args[1] \in Bytes,
         op \in IndexTwo => args[2] \in Bytes
  PROVE  Fits(IndexedEffect(p, op, args, s))
<1>0. op \in Byte
  BY DEF IndexTwo, IndexOne, IndexNone, Byte
<1>1. op \in IndexTwo =>
        /\ Fits(OpLdIndexNn(p, args, s)) /\ Fits(OpLdNnIndex(p, args, s))
        /\ Fits(OpLdIndexNnFromMem(p, args, s)) /\ Fits(OpLdIndexMemN(p, args, s))
  BY <1>0, IndexWordsFit, DisplacedHandlersFit
<1>2. op \in IndexOne =>
        /\ Fits(OpLdIndexByteN(p, op, args, s)) /\ Fits(OpIncDecIndexMem(p, op, args, s))
        /\ Fits(OpAluIndexMem(p, op, args, s))
        /\ Field(op) \in RegisterIndex => Fits(OpLdRIndexMem(p, op, args, s))
        /\ Low(op) \in RegisterIndex => Fits(OpLdIndexMemR(p, op, args, s))
  BY <1>0, IndexBytesFit, DisplacedHandlersFit
<1>3. /\ Fits(OpLdIndexByteIndexByte(p, op, s)) /\ Fits(OpIncDecIndexByte(p, op, s))
      /\ Fits(OpAluIndexByte(p, op, s))
      /\ Low(op) \in RegisterIndex => Fits(OpLdIndexByteR(p, op, s))
      /\ Field(op) \in RegisterIndex => Fits(OpLdRIndexByte(p, op, s))
  BY <1>0, IndexBytesFit
<1>4. /\ Fits(OpAddIndexRr(p, op, s)) /\ Fits(OpIncDecIndex(p, op, s))
      /\ Fits(OpPopIndex(p, s)) /\ Fits(OpPushIndex(p, s)) /\ Fits(OpExSpIndex(p, s))
      /\ Fits(OpJpIndex(p, s)) /\ Fits(OpLdSpIndex(p, s))
  BY <1>0, IndexMovesFit
<1> QED
  BY <1>1, <1>2, <1>3, <1>4 DEF IndexedEffect, IndexTwo, IndexOne, IndexNone, Field, Low, RegisterIndex

-----------------------------------------------------------------------------
(* What the rules of a page say of an opcode, and that one always does *)

LEMMA ByFieldHas ==
  ASSUME NEW names, NEW ops, NEW operands, NEW index, NEW op \in ops, Field(op) \in 0 .. 7
  PROVE  \E rule \in ByField(names, ops, operands, index) : op \in rule.ops
<1> DEFINE k == Field(op)
           r == [ops |-> {o \in ops : Field(o) = k}, mnemonic |-> names[k + 1],
                 operands |-> operands, index |-> index]
<1>1. r \in ByField(names, ops, operands, index)
  BY DEF ByField
<1>2. op \in r.ops
  OBVIOUS
<1> QED
  BY <1>1, <1>2

(* A handler of the main page reads the operands its code uses *)
PlainRule(rule, op) ==
  /\ op \in Byte \ {\hCB, \hDD, \hED, \hFD}
  /\ rule.operands \in {0, 1, 2} /\ rule.index = FALSE
  /\ op \in MainOne => rule.operands = 1
  /\ op \in MainTwo => rule.operands = 2

(* ... and so does one of _index.py *)
IndexRule(rule, op) ==
  /\ op \in IndexTwo \cup IndexOne \cup IndexNone
  /\ rule.operands \in {0, 1, 2} /\ rule.index = TRUE
  /\ op \in IndexOne => rule.operands = 1
  /\ op \in IndexTwo => rule.operands = 2

LEMMA MainSays ==
  ASSUME NEW rule \in MainRules, NEW op \in rule.ops
  PROVE  PlainRule(rule, op)
<1>1. ASSUME rule \in MainListed
      PROVE  PlainRule(rule, op)
  <2>1. rule.operands \in {0, 1, 2} /\ rule.index = FALSE
    BY <1>1 DEF MainListed, Rule
  <2>2. op \in Byte \ {\hCB, \hDD, \hED, \hFD}
    BY <1>1, Every8Is DEF MainListed, Rule, Byte
  <2>3. op \in MainOne => rule.operands = 1
    BY <1>1, Every8Is DEF MainListed, Rule, MainOne
  <2>4. op \in MainTwo => rule.operands = 2
    BY <1>1, Every8Is DEF MainListed, Rule, MainTwo
  <2> QED
    BY <2>1, <2>2, <2>3, <2>4 DEF PlainRule
<1>2. ASSUME rule \in ByField(AluNames, \h80 .. \hBF, 0, FALSE)
      PROVE  PlainRule(rule, op)
  <2>1. op \in \h80 .. \hBF /\ rule.operands = 0 /\ rule.index = FALSE
    BY <1>2 DEF ByField
  <2>2. op \in Byte \ {\hCB, \hDD, \hED, \hFD} /\ op \notin MainOne /\ op \notin MainTwo
    BY <2>1, Every8Is DEF Byte, MainOne, MainTwo
  <2> QED
    BY <2>1, <2>2 DEF PlainRule
<1>3. ASSUME rule \in ByField(AluNames, Every8(\hC6), 1, FALSE)
      PROVE  PlainRule(rule, op)
  <2>1. op \in Every8(\hC6) /\ rule.operands = 1 /\ rule.index = FALSE
    BY <1>3 DEF ByField
  <2>2. op \in Byte \ {\hCB, \hDD, \hED, \hFD} /\ op \notin MainTwo
    BY <2>1, Every8Is DEF Byte, MainTwo
  <2> QED
    BY <2>1, <2>2 DEF PlainRule
<1> QED
  BY <1>1, <1>2, <1>3 DEF MainRules

LEMMA MainHas ==
  ASSUME NEW op \in Byte \ {\hCB, \hDD, \hED, \hFD}
  PROVE  \E rule \in MainRules : op \in rule.ops
<1> DEFINE registers == \h80 .. \hBF
           operand   == Every8(\hC6)
           alu       == ByField(AluNames, registers, 0, FALSE)
           immediate == ByField(AluNames, operand, 1, FALSE)
<1>0. MainRules = MainListed \cup alu \cup immediate
  BY DEF MainRules
<1>1. op \notin registers \cup operand => \E rule \in MainListed : op \in rule.ops
  BY Every8Is DEF MainListed, Rule, Byte
<1>2. Field(op) \in 0 .. 7
  BY FieldsAre
<1> HIDE DEF registers, operand
<1>3. op \in registers => \E rule \in alu : op \in rule.ops
  BY <1>2, ByFieldHas
<1>4. op \in operand => \E rule \in immediate : op \in rule.ops
  BY <1>2, ByFieldHas
<1> HIDE DEF alu, immediate
<1> QED
  BY <1>0, <1>1, <1>3, <1>4

LEMMA CbSays ==
  ASSUME NEW rule \in CbRules \cup IndexCbRules, NEW op \in rule.ops
  PROVE  op \in Byte /\ rule.operands = 0
<1>1. CASE rule \in CbRules
  BY <1>1 DEF CbRules, ByField, Rule, Byte
<1>2. CASE rule \in IndexCbRules
  BY <1>2 DEF IndexCbRules, ByField, Indexed, Byte
<1> QED
  BY <1>1, <1>2

LEMMA CbHas ==
  ASSUME NEW op \in Byte
  PROVE  /\ \E rule \in CbRules : op \in rule.ops
         /\ \E rule \in IndexCbRules : op \in rule.ops
<1> DEFINE turned == \h00 .. \h3F
           rotates == ByField(RotNames, turned, 0, FALSE)
           indexed == ByField(RotNames, turned, 0, TRUE)
           bits    == {Rule(\h40 .. \h7F, "BIT", 0), Rule(\h80 .. \hBF, "RES", 0), Rule(\hC0 .. \hFF, "SET", 0)}
           indexedBits == {Indexed(\h40 .. \h7F, "BIT", 0), Indexed(\h80 .. \hBF, "RES", 0),
                           Indexed(\hC0 .. \hFF, "SET", 0)}
<1>0. CbRules = rotates \cup bits /\ IndexCbRules = indexed \cup indexedBits
  BY DEF CbRules, IndexCbRules
<1>1. Field(op) \in 0 .. 7
  BY FieldsAre
<1>2. op \notin turned => \E rule \in bits : op \in rule.ops
  BY DEF Rule, Byte
<1>3. op \notin turned => \E rule \in indexedBits : op \in rule.ops
  BY DEF Indexed, Byte
<1> HIDE DEF turned, bits, indexedBits
<1>4. op \in turned => \E rule \in rotates : op \in rule.ops
  BY <1>1, ByFieldHas
<1>5. op \in turned => \E rule \in indexed : op \in rule.ops
  BY <1>1, ByFieldHas
<1> HIDE DEF rotates, indexed
<1> QED
  BY <1>0, <1>2, <1>3, <1>4, <1>5

LEMMA EdSays ==
  ASSUME NEW rule \in EdRules, NEW op \in rule.ops
  PROVE  op \in Byte /\ rule.operands \in {0, 2} /\ (op \in EdTwo => rule.operands = 2)
<1>1. CASE rule \in EdListed
  BY <1>1, Every8Is DEF EdListed, Rule, EdTwo, Byte
<1>2. CASE rule = Rule(Byte \ Claimed(EdListed), "NOP", 0)
  <2>1. op \in Byte \ Claimed(EdListed) /\ rule.operands = 0
    BY <1>2 DEF Rule
  <2>2. op \in EdTwo => \E other \in EdListed : op \in other.ops
    BY DEF EdListed, Rule, EdTwo
  <2>3. op \notin EdTwo
    BY <2>1, <2>2 DEF Claimed
  <2> QED
    BY <2>1, <2>3
<1> QED
  BY <1>1, <1>2 DEF EdRules

LEMMA EdHas ==
  ASSUME NEW op \in Byte
  PROVE  \E rule \in EdRules : op \in rule.ops
<1> DEFINE other == Rule(Byte \ Claimed(EdListed), "NOP", 0)
<1>1. other.ops = Byte \ Claimed(EdListed)
  BY DEF Rule
<1>2. op \in Claimed(EdListed) => \E rule \in EdListed : op \in rule.ops
  BY DEF Claimed
<1> HIDE DEF other
<1>3. EdRules = EdListed \cup {other}
  BY DEF EdRules, other
<1> QED
  BY <1>1, <1>2, <1>3

LEMMA IndexSays ==
  ASSUME NEW rule \in IndexRules, NEW op \in rule.ops
  PROVE  PlainRule(rule, op) \/ IndexRule(rule, op)
<1> DEFINE halves == {o \in \h80 .. \hBF : Low(o) \in {4, 5}}
           memory == {o \in \h80 .. \hBF : Low(o) = 6}
           plain  == {o \in \h80 .. \hBF : Low(o) \in Plain}
<1>0. \/ rule \in IndexListed \/ rule \in IgnoringListed
      \/ rule \in ByField(AluNames, halves, 0, TRUE) \/ rule \in ByField(AluNames, memory, 1, TRUE)
      \/ rule \in ByField(AluNames, plain, 0, FALSE) \/ rule \in ByField(AluNames, Every8(\hC6), 1, FALSE)
  BY DEF IndexRules, IndexPrefixed, IndexIgnoring
<1>1. ASSUME rule \in IndexListed
      PROVE  IndexRule(rule, op)
  <2>1. rule.operands \in {0, 1, 2} /\ rule.index = TRUE
    BY <1>1 DEF IndexListed, Indexed
  <2>2. op \in IndexTwo \cup IndexOne \cup IndexNone
    BY <1>1 DEF IndexListed, Indexed, IndexTwo, IndexOne, IndexNone, Low, Plain
  <2>3. op \in IndexOne => rule.operands = 1
    BY <1>1 DEF IndexListed, Indexed, IndexOne, Low, Plain
  <2>4. op \in IndexTwo => rule.operands = 2
    BY <1>1 DEF IndexListed, Indexed, IndexTwo, Low, Plain
  <2> QED
    BY <2>1, <2>2, <2>3, <2>4 DEF IndexRule
<1>2. ASSUME rule \in IgnoringListed
      PROVE  PlainRule(rule, op)
  <2>1. rule.operands \in {0, 1, 2} /\ rule.index = FALSE
    BY <1>2 DEF IgnoringListed, Rule
  <2>2. op \in Byte \ {\hCB, \hDD, \hED, \hFD}
    BY <1>2, Every8Is DEF IgnoringListed, Rule, Byte, PlainLoads
  <2>3. op \in MainOne => rule.operands = 1
    BY <1>2, Every8Is DEF IgnoringListed, Rule, MainOne, PlainLoads
  <2>4. op \in MainTwo => rule.operands = 2
    BY <1>2, Every8Is DEF IgnoringListed, Rule, MainTwo, PlainLoads
  <2> QED
    BY <2>1, <2>2, <2>3, <2>4 DEF PlainRule
<1>3. ASSUME rule \in ByField(AluNames, halves, 0, TRUE)
      PROVE  IndexRule(rule, op)
  <2>1. op \in halves /\ rule.operands = 0 /\ rule.index = TRUE
    BY <1>3 DEF ByField
  <2>2. op \in IndexNone /\ op \notin IndexOne \cup IndexTwo
    BY <2>1 DEF IndexNone, IndexOne, IndexTwo, Low
  <2> QED
    BY <2>1, <2>2 DEF IndexRule
<1>4. ASSUME rule \in ByField(AluNames, memory, 1, TRUE)
      PROVE  IndexRule(rule, op)
  <2>1. op \in memory /\ rule.operands = 1 /\ rule.index = TRUE
    BY <1>4 DEF ByField
  <2>2. op \in IndexOne /\ op \notin IndexTwo
    BY <2>1 DEF IndexOne, IndexTwo, Low
  <2> QED
    BY <2>1, <2>2 DEF IndexRule
<1>5. ASSUME rule \in ByField(AluNames, plain, 0, FALSE)
      PROVE  PlainRule(rule, op)
  <2>1. op \in \h80 .. \hBF /\ rule.operands = 0 /\ rule.index = FALSE
    BY <1>5 DEF ByField
  <2>2. op \in Byte \ {\hCB, \hDD, \hED, \hFD} /\ op \notin MainOne /\ op \notin MainTwo
    BY <2>1, Every8Is DEF Byte, MainOne, MainTwo
  <2> QED
    BY <2>1, <2>2 DEF PlainRule
<1>6. ASSUME rule \in ByField(AluNames, Every8(\hC6), 1, FALSE)
      PROVE  PlainRule(rule, op)
  <2>1. op \in Every8(\hC6) /\ rule.operands = 1 /\ rule.index = FALSE
    BY <1>6 DEF ByField
  <2>2. op \in Byte \ {\hCB, \hDD, \hED, \hFD} /\ op \notin MainTwo
    BY <2>1, Every8Is DEF Byte, MainTwo
  <2> QED
    BY <2>1, <2>2 DEF PlainRule
<1> HIDE DEF halves, memory, plain
<1> QED
  BY <1>0, <1>1, <1>2, <1>3, <1>4, <1>5, <1>6

LEMMA IndexHas ==
  ASSUME NEW op \in Byte \ {\hCB, \hDD, \hED, \hFD}
  PROVE  \E rule \in IndexRules : op \in rule.ops
<1> DEFINE halves  == {o \in \h80 .. \hBF : Low(o) \in {4, 5}}
           memory  == {o \in \h80 .. \hBF : Low(o) = 6}
           plain   == {o \in \h80 .. \hBF : Low(o) \in Plain}
           operand == Every8(\hC6)
           ofHalves == ByField(AluNames, halves, 0, TRUE)
           ofMemory == ByField(AluNames, memory, 1, TRUE)
           ofPlain  == ByField(AluNames, plain, 0, FALSE)
           immediate == ByField(AluNames, operand, 1, FALSE)
<1>0. IndexRules = IndexListed \cup ofHalves \cup ofMemory \cup IgnoringListed \cup ofPlain \cup immediate
  BY DEF IndexRules, IndexPrefixed, IndexIgnoring
<1>1. op \in \h80 .. \hBF => op \in halves \cup memory \cup plain
  BY DEF Low, Plain
<1>2. op \notin (\h80 .. \hBF) \cup operand => \E rule \in IndexListed \cup IgnoringListed : op \in rule.ops
  BY Every8Is DEF IndexListed, IgnoringListed, Indexed, Rule, Byte, PlainLoads, Plain, Field, Low
<1>3. Field(op) \in 0 .. 7
  BY FieldsAre
<1> HIDE DEF halves, memory, plain, operand
<1>4. op \in halves => \E rule \in ofHalves : op \in rule.ops
  BY <1>3, ByFieldHas
<1>5. op \in memory => \E rule \in ofMemory : op \in rule.ops
  BY <1>3, ByFieldHas
<1>6. op \in plain => \E rule \in ofPlain : op \in rule.ops
  BY <1>3, ByFieldHas
<1>7. op \in operand => \E rule \in immediate : op \in rule.ops
  BY <1>3, ByFieldHas
<1> HIDE DEF ofHalves, ofMemory, ofPlain, immediate
<1> QED
  BY <1>0, <1>1, <1>2, <1>4, <1>5, <1>6, <1>7

-----------------------------------------------------------------------------
(* One instruction *)

(* The fetches fit: the bytes in memory, their addresses and what R counts *)
LEMMA RefreshedFits ==
  ASSUME NEW r \in Bytes, NEW n \in Nat
  PROVE  Refreshed(r, n) \in Bytes
<1>1. r \div 128 \in {0, 1} /\ r + n \in Int
  BY DEF Bytes
<1>2. (r + n) % 128 \in 0 .. 127
  BY <1>1
<1>3. \A high \in {0, 1}, low \in 0 .. 127 : (128 * high) + low \in Bytes
  BY DEF Bytes
<1> QED
  BY <1>1, <1>2, <1>3 DEF Refreshed

LEMMA BytesOfCode ==
  ASSUME NEW bytes \in Seq(Byte)
  PROVE  /\ DOMAIN bytes = 1 .. Len(bytes) /\ Len(bytes) \in Nat
         /\ \A k \in 1 .. Len(bytes) : bytes[k] \in Bytes
<1>1. Byte = Bytes
  BY DEF Byte, Bytes
<1>2. \A k \in 1 .. Len(bytes) : bytes[k] \in Byte
  OBVIOUS
<1> QED
  BY <1>1, <1>2

LEMMA LastOnes ==
  ASSUME NEW c \in Seq(Byte), NEW n \in Nat, n < Len(c), NEW k \in 1 .. n
  PROVE  /\ SubSeq(c, Len(c) - n + 1, Len(c))[k] = c[Len(c) - n + k]
         /\ Len(c) - n + k \in 1 .. Len(c)
<1> DEFINE first == Len(c) - n + 1
           last == Len(c)
<1>1. first \in 1 .. last /\ last \in Nat /\ k \in 1 .. (last - first) + 1
  OBVIOUS
<1>2. first + k - 1 = Len(c) - n + k /\ Len(c) - n + k \in 1 .. Len(c)
  OBVIOUS
<1> HIDE DEF first, last
<1>3. SubSeq(c, first, last)[k] = c[first + k - 1]
  BY <1>1
<1> QED
  BY <1>2, <1>3 DEF first, last

LEMMA BehindFits ==
  ASSUME NEW s, Fits(s), NEW bytes \in Seq(Byte), NEW n \in Nat
  PROVE  Fits(Behind(bytes, n, s))
<1> DEFINE address(k) == Wrap16(s.pc + k - 1)
           places == {address(k) : k \in DOMAIN bytes}
           placed == [a \in places |-> bytes[CHOOSE k \in DOMAIN bytes : address(k) = a]]
           mem == [a \in DOMAIN placed \cup DOMAIN s.mem |->
                     IF a \in DOMAIN placed THEN placed[a] ELSE s.mem[a]]
           bus == [k \in DOMAIN bytes |-> <<"read", address(k), bytes[k]>>]
           pc  == Wrap16(s.pc + Len(bytes))
           r   == Refreshed(s.r, n)
<1>1. DOMAIN bytes = 1 .. Len(bytes) /\ Len(bytes) \in Nat /\ \A k \in DOMAIN bytes : bytes[k] \in Bytes
  BY BytesOfCode
<1>2. s.pc \in Int /\ s.r \in Bytes
  BY FitsSays, Halves
<1>3. ASSUME NEW k \in DOMAIN bytes
      PROVE  address(k) \in Words
  <2>1. s.pc + k - 1 \in Int
    BY <1>1, <1>2
  <2> QED
    BY <2>1, Masked
<1>4. pc \in Words /\ r \in Bytes
  <2>1. s.pc + Len(bytes) \in Int
    BY <1>1, <1>2
  <2>2. pc \in Words
    BY <2>1, Masked
  <2> QED
    BY <1>2, <2>2, RefreshedFits
<1>5. ASSUME NEW a \in places
      PROVE  placed[a] \in Bytes
  <2>1. \E k \in DOMAIN bytes : address(k) = a
    OBVIOUS
  <2>2. (CHOOSE k \in DOMAIN bytes : address(k) = a) \in DOMAIN bytes
    BY <2>1
  <2> QED
    BY <1>1, <2>2
<1>6. bus \in Seq(Accesses)
  <2>1. \A k \in DOMAIN bytes : <<"read", address(k), bytes[k]>> \in Accesses
    BY <1>1, <1>3 DEF Accesses
  <2> HIDE DEF address
  <2> QED
    BY <1>1, <2>1
<1>7. Behind(bytes, n, s) = [s EXCEPT !.mem = mem, !.bus = bus, !.pc = pc, !.r = r]
  BY DEF Behind
<1> HIDE DEF bus, pc, r, address
<1>8. \A a \in DOMAIN mem : mem[a] \in Bytes
  BY <1>5 DEF Fits
<1> HIDE DEF mem, placed
<1>9. Fits([s EXCEPT !.mem = mem, !.bus = bus, !.pc = pc, !.r = r])
  BY <1>4, <1>6, <1>8 DEF Fits
<1> QED
  BY <1>7, <1>9

Pages == {"main", "cb", "ed", "index", "index_cb"}

(* The handler is the one of the opcode, behind which its operands are     *)
(* read, all but the last left of them                                     *)
Found ==
  /\ opened \in Pages /\ handler \in RulesOf(opened)
  /\ handler.operands \in 0 .. 2 /\ left \in 0 .. handler.operands
  /\ Len(code) > handler.operands - left
  /\ code[Len(code) - (handler.operands - left)] \in handler.ops
  /\ opened = "index_cb" => handler.operands = 0 /\ Len(code) >= 2

LEMMA EffectFits ==
  ASSUME NEW s, Fits(s), code \in Seq(Byte), Found, left = 0
  PROVE  Fits(Effect(s))
<1> DEFINE n  == handler.operands
           op == code[Len(code) - n]
           u  == [s EXCEPT !.q = {}]
<1>1. /\ opened \in Pages /\ handler \in RulesOf(opened) /\ n \in 0 .. 2
      /\ Len(code) \in Nat /\ Len(code) > n /\ op \in handler.ops
      /\ opened = "index_cb" => n = 0 /\ Len(code) >= 2
  BY DEF Found
<1>2. Opcode = op
  BY <1>1 DEF Opcode, Last
<1>3. \A k \in 1 .. n : Args[k] \in Bytes
  <2>0. Args = SubSeq(code, Len(code) - n + 1, Len(code)) /\ n \in Nat /\ n < Len(code)
    BY <1>1 DEF Args
  <2> HIDE DEF n
  <2>1. ASSUME NEW k \in 1 .. n
        PROVE  Args[k] = code[Len(code) - n + k] /\ Len(code) - n + k \in 1 .. Len(code)
    BY <2>0, LastOnes
  <2> QED
    BY <2>1, BytesOfCode
<1>4. Fits(u)
  BY FitsUnsized
<1> HIDE DEF op, n, u
<1>5. ASSUME PlainRule(handler, op), NEW v, Fits(v)
      PROVE  Fits(MainEffect(op, Args, v))
  <2>1. op \in MainOne \cup MainTwo => Args[1] \in Bytes
    BY <1>3, <1>5 DEF PlainRule, n
  <2>2. op \in MainTwo => Args[2] \in Bytes
    BY <1>3, <1>5 DEF PlainRule, n
  <2>3. op \in Byte \ {\hCB, \hDD, \hED, \hFD}
    BY <1>5 DEF PlainRule
  <2> QED
    BY <1>5, <2>1, <2>2, <2>3, MainFits
<1>6. ASSUME opened = "main"
      PROVE  Fits(MainEffect(op, Args, s))
  <2>1. handler \in MainRules
    BY <1>1, <1>6 DEF RulesOf
  <2> QED
    BY <1>1, <1>5, <2>1, MainSays
<1>7. ASSUME opened = "cb"
      PROVE  Fits(CbEffect(op, s))
  <2>1. handler \in CbRules
    BY <1>1, <1>7 DEF RulesOf
  <2> QED
    BY <1>1, <2>1, CbSays, CbFits
<1>8. ASSUME opened = "ed"
      PROVE  Fits(EdEffect(op, Args, s))
  <2>1. handler \in EdRules
    BY <1>1, <1>8 DEF RulesOf
  <2>2. op \in Byte /\ (op \in EdTwo => n = 2)
    BY <1>1, <2>1, EdSays DEF n
  <2>3. op \in EdTwo => Args[1] \in Bytes /\ Args[2] \in Bytes
    BY <1>3, <2>2
  <2> QED
    BY <2>2, <2>3, EdFits
<1>9. ASSUME opened = "index"
      PROVE  Fits(IndexPage(s))
  <2>1. handler \in IndexRules
    BY <1>1, <1>9 DEF RulesOf
  <2>2. PlainRule(handler, op) \/ IndexRule(handler, op)
    BY <1>1, <2>1, IndexSays
  <2>3. ASSUME PlainRule(handler, op)
        PROVE  Fits(IndexPage(s))
    <3>1. handler.index = FALSE
      BY <2>3 DEF PlainRule
    <3>2. Fits(MainEffect(op, Args, u))
      BY <1>4, <1>5, <2>3
    <3>3. IndexPage(s) = Delayed(4, MainEffect(op, Args, u))
      BY <1>2, <3>1 DEF IndexPage, u
    <3> QED
      BY <3>2, <3>3, EndsFit
  <2>4. ASSUME IndexRule(handler, op)
        PROVE  Fits(IndexPage(s))
    <3>1. handler.index = TRUE /\ op \in IndexTwo \cup IndexOne \cup IndexNone
      BY <2>4 DEF IndexRule
    <3>2. op \in IndexOne \cup IndexTwo => Args[1] \in Bytes
      BY <1>3, <2>4 DEF IndexRule, n
    <3>3. op \in IndexTwo => Args[2] \in Bytes
      BY <1>3, <2>4 DEF IndexRule, n
    <3>4. Fits(IndexedEffect(prefix, op, Args, u))
      BY <1>4, <3>1, <3>2, <3>3, IndexedFits
    <3> QED
      BY <1>2, <3>1, <3>4 DEF IndexPage, u
  <2> QED
    BY <2>2, <2>3, <2>4
<1>10. ASSUME opened = "index_cb"
       PROVE  Fits(IndexCbPage(s))
  <2>1. handler \in IndexCbRules
    BY <1>1, <1>10 DEF RulesOf
  <2>2. op \in Byte
    BY <1>1, <2>1, CbSays
  <2>3. code[Len(code) - 1] \in Bytes
    <3>1. Len(code) - 1 \in 1 .. Len(code)
      BY <1>1, <1>10
    <3> QED
      BY <3>1, BytesOfCode
  <2>4. Fits(IndexCbEffect(prefix, code[Len(code) - 1], op, u))
    BY <1>4, <2>2, <2>3, IndexCbFits
  <2> QED
    BY <1>2, <2>4 DEF IndexCbPage, u
<1> QED
  BY <1>1, <1>2, <1>6, <1>7, <1>8, <1>9, <1>10, EndsFit DEF Effect, Pages

(* Strengthening: at every byte, the handler that is reading is one the    *)
(* page has for the opcode, and the opcode is where the operands say       *)
ReadingInv ==
  /\ code \in Seq(Byte) /\ m1 \in Nat /\ cpu \in Machines
  /\ page \in Pages \cup {"operands", "done"}
  /\ page \in {"operands", "done"} => Found
  /\ page = "index_cb" => Len(code) >= 1
  /\ page = "done" => left = 0 /\ Fits(after)

(* The handler of an opcode starts with all of its operands to read *)
LEMMA RunFinds ==
  ASSUME NEW op \in Byte, page \in Pages, page \in {"main", "index"} => op \notin {\hCB, \hDD, \hED, \hFD},
         Run(op), opened' = page, code' \in Seq(Byte), Len(code') >= 1, code'[Len(code')] = op,
         page = "index_cb" => Len(code') >= 2
  PROVE  Found'
<1>1. \E rule \in RulesOf(page) : op \in rule.ops
  BY MainHas, CbHas, EdHas, IndexHas DEF RulesOf, Pages
<1>2. handler' \in RulesOf(page) /\ op \in handler'.ops /\ left' = handler'.operands
  BY <1>1 DEF Run
<1>3. handler'.operands \in 0 .. 2 /\ (page = "index_cb" => handler'.operands = 0)
  <2>1. ASSUME NEW rule \in RulesOf(page), op \in rule.ops
        PROVE  rule.operands \in {0, 1, 2} /\ (page = "index_cb" => rule.operands = 0)
    <3>1. CASE page = "main"
      <4>1. rule \in MainRules
        BY <3>1 DEF RulesOf
      <4>2. PlainRule(rule, op)
        BY <2>1, <3>1, <4>1, MainSays
      <4> QED
        BY <3>1, <4>2 DEF PlainRule
    <3>2. CASE page = "cb" \/ page = "index_cb"
      <4>1. rule \in CbRules \cup IndexCbRules
        BY <3>2 DEF RulesOf
      <4> QED
        BY <2>1, <4>1, CbSays
    <3>3. CASE page = "ed"
      <4>1. rule \in EdRules
        BY <3>3 DEF RulesOf
      <4> QED
        BY <2>1, <3>3, <4>1, EdSays
    <3>4. CASE page = "index"
      <4>1. rule \in IndexRules
        BY <3>4 DEF RulesOf
      <4>2. PlainRule(rule, op) \/ IndexRule(rule, op)
        BY <2>1, <3>4, <4>1, IndexSays
      <4> QED
        BY <3>4, <4>2 DEF PlainRule, IndexRule
    <3> QED
      BY <3>1, <3>2, <3>3, <3>4 DEF Pages
  <2> QED
    BY <1>2, <2>1
<1> DEFINE n == Len(code')
<1>4. n \in Nat /\ n >= 1 /\ n - (handler'.operands - left') = n
  BY <1>2, <1>3
<1>5. code'[n - (handler'.operands - left')] \in handler'.ops
  BY <1>2, <1>4
<1> QED
  BY <1>2, <1>3, <1>4, <1>5 DEF Found

LEMMA ByteRead ==
  ASSUME NEW c \in Seq(Byte), NEW byte \in Byte
  PROVE  /\ Append(c, byte) \in Seq(Byte) /\ Len(Append(c, byte)) = Len(c) + 1
         /\ Append(c, byte)[Len(c) + 1] = byte
         /\ \A k \in 1 .. Len(c) : Append(c, byte)[k] = c[k]
         /\ Len(c) \in Nat
OBVIOUS

LEMMA FetchKeeps ==
  ASSUME ReadingInv, FetchMain \/ FetchPage \/ FetchIndex,
         opened' = IF page' = "operands" /\ page # "operands" THEN page ELSE opened,
         UNCHANGED <<cpu, after>>
  PROVE  ReadingInv'
<1>1. page \in Pages /\ code \in Seq(Byte) /\ m1 \in Nat /\ cpu \in Machines
  BY DEF ReadingInv, FetchMain, FetchPage, FetchIndex, Pages
<1>2. PICK op \in Byte :
        /\ Fetch(op)
        /\ \/ page' \in {"cb", "ed", "index", "index_cb"}
           \/ Run(op) /\ (page \in {"main", "index"} => op \notin {\hCB, \hDD, \hED, \hFD})
        /\ page # "index_cb"
  BY DEF FetchMain, FetchPage, FetchIndex, Into
<1>3. /\ code' \in Seq(Byte) /\ Len(code') = Len(code) + 1 /\ code'[Len(code')] = op
      /\ Len(code') >= 1 /\ m1' \in Nat
  BY <1>1, <1>2, ByteRead DEF Fetch
<1>4. CASE page' \in {"cb", "ed", "index", "index_cb"}
  BY <1>1, <1>3, <1>4 DEF ReadingInv, Pages
<1>5. CASE Run(op) /\ (page \in {"main", "index"} => op \notin {\hCB, \hDD, \hED, \hFD})
  <2>1. page' = "operands" /\ opened' = page
    BY <1>1, <1>5 DEF Run, Pages
  <2>2. Found'
    BY <1>1, <1>2, <1>3, <1>5, <2>1, RunFinds
  <2> QED
    BY <1>1, <1>3, <2>1, <2>2 DEF ReadingInv
<1> QED
  BY <1>2, <1>4, <1>5

LEMMA IndexCbKeeps ==
  ASSUME ReadingInv, ReadIndexCb,
         opened' = IF page' = "operands" /\ page # "operands" THEN page ELSE opened,
         UNCHANGED <<cpu, after>>
  PROVE  ReadingInv'
<1>1. page = "index_cb" /\ code \in Seq(Byte) /\ m1' \in Nat /\ cpu \in Machines
  BY DEF ReadingInv, ReadIndexCb
<1>2. PICK d \in OperandBytes, op \in Byte : code' = Append(Append(code, d), op) /\ Run(op)
  BY DEF ReadIndexCb
<1>3. d \in Byte
  BY DecodingAssumption
<1>4. Append(code, d) \in Seq(Byte) /\ Len(Append(code, d)) = Len(code) + 1 /\ Len(code) \in Nat
  BY <1>1, <1>3, ByteRead
<1>5. code' \in Seq(Byte) /\ Len(code') = Len(code) + 2 /\ code'[Len(code')] = op
  BY <1>2, <1>4, ByteRead
<1>6. page' = "operands" /\ opened' = page
  BY <1>1, <1>2 DEF Run
<1>7. Found'
  BY <1>1, <1>2, <1>4, <1>5, <1>6, RunFinds DEF Pages
<1> QED
  BY <1>1, <1>5, <1>6, <1>7 DEF ReadingInv

LEMMA OperandKeeps ==
  ASSUME ReadingInv, ReadOperand,
         opened' = IF page' = "operands" /\ page # "operands" THEN page ELSE opened,
         UNCHANGED <<cpu, after>>
  PROVE  ReadingInv'
<1>1. page = "operands" /\ page' = "operands" /\ opened' = opened /\ Found /\ left > 0
  BY DEF ReadingInv, ReadOperand
<1>2. /\ code \in Seq(Byte) /\ m1' \in Nat /\ cpu' \in Machines
      /\ handler' = handler /\ left' = left - 1
  BY DEF ReadingInv, ReadOperand
<1>3. PICK byte \in OperandBytes : code' = Append(code, byte)
  BY DEF ReadOperand
<1>4. /\ code' \in Seq(Byte) /\ Len(code') = Len(code) + 1 /\ Len(code) \in Nat
      /\ \A k \in 1 .. Len(code) : code'[k] = code[k]
  BY <1>2, <1>3, ByteRead, DecodingAssumption
<1> DEFINE n == handler.operands
           at == Len(code) - (n - left)
<1>5. /\ n \in 0 .. 2 /\ left \in 0 .. n /\ Len(code) > n - left /\ code[at] \in handler.ops
      /\ opened \in Pages /\ handler \in RulesOf(opened)
      /\ opened = "index_cb" => n = 0 /\ Len(code) >= 2
  BY <1>1 DEF Found
<1>6. /\ at \in 1 .. Len(code) /\ Len(code') - (n - left') = at
      /\ left' \in 0 .. n /\ Len(code') > n - left'
  BY <1>1, <1>2, <1>4, <1>5
<1>7. code'[Len(code') - (n - left')] \in handler.ops
  BY <1>4, <1>5, <1>6
<1>8. Found'
  BY <1>1, <1>2, <1>4, <1>5, <1>6, <1>7 DEF Found
<1> QED
  BY <1>1, <1>2, <1>4, <1>8 DEF ReadingInv

LEMMA ExecuteKeeps ==
  ASSUME ReadingInv, Execute
  PROVE  ReadingInv'
<1>1. /\ page = "operands" /\ left = 0 /\ page' = "done"
      /\ code' = code /\ handler' = handler /\ left' = left /\ m1' = m1
      /\ opened' = opened /\ cpu' = cpu /\ after' = Effect(Behind(code, m1, cpu))
  BY DEF Execute, Finish
<1>2. code \in Seq(Byte) /\ m1 \in Nat /\ cpu \in Machines /\ Found
  BY <1>1 DEF ReadingInv
<1>3. Fits(cpu)
  BY <1>2, MachinesAssumption
<1>4. Fits(Behind(code, m1, cpu))
  BY <1>2, <1>3, BehindFits
<1>5. Fits(after')
  BY <1>1, <1>2, <1>4, EffectFits
<1>6. Found'
  BY <1>1, <1>2 DEF Found
<1>7. ReadingInv' <=> /\ code' \in Seq(Byte) /\ m1' \in Nat /\ cpu' \in Machines
                      /\ page' \in Pages \cup {"operands", "done"}
                      /\ page' \in {"operands", "done"} => Found'
                      /\ page' = "index_cb" => Len(code') >= 1
                      /\ page' = "done" => left' = 0 /\ (Fits(after))'
  BY DEF ReadingInv
<1> QED
  BY <1>1, <1>2, <1>5, <1>6, <1>7

LEMMA ReadingHolds == ExecutionSpec => []ReadingInv
<1>1. ExecutionInit => ReadingInv
  BY DEF ExecutionInit, DecodingInit, ReadingInv, Pages
<1>2. ReadingInv /\ [ExecutionNext]_evars => ReadingInv'
  <2>1. SUFFICES ASSUME ReadingInv, [ExecutionNext]_evars
                 PROVE  ReadingInv'
    OBVIOUS
  <2>2. CASE UNCHANGED evars
    BY <2>1, <2>2 DEF ReadingInv, Found, evars, cvars
  <2>3. CASE DecodeByte
    BY <2>1, <2>3, FetchKeeps, IndexCbKeeps, OperandKeeps DEF DecodeByte, Decode
  <2>4. CASE Execute
    BY <2>1, <2>4, ExecuteKeeps
  <2> QED
    BY <2>1, <2>2, <2>3, <2>4 DEF ExecutionNext
<1> QED
  BY <1>1, <1>2, PTL DEF ExecutionSpec

(* No register, latch, address or byte outgrows its width: whatever the    *)
(* instruction, its prefixes and operands, the machine it starts from and  *)
(* the bytes memory and ports answer with, every handler masks what it     *)
(* leaves, and the host's callables get 16-bit addresses and 8-bit values. *)
THEOREM InstructionsKeepWidths == ExecutionSpec => []WidthsKept
<1>1. ReadingInv => WidthsKept
  BY DEF ReadingInv, WidthsKept, Done
<1> QED
  BY <1>1, ReadingHolds, PTL

-----------------------------------------------------------------------------
(* F and Q behind a handler *)

(* n has F as s has it *)
SameF(n, s) == {"f", "q"} \subseteq DOMAIN n /\ n.f = s.f

(* Not all flags on: S and Z are of one result, or N is off *)
Partial(fl) == "N" \notin fl \/ ~({"S", "Z"} \subseteq fl)

(* What a handler leaves that computes no flags, and one that does *)
KeptF(n, s) == {"f", "q"} \subseteq DOMAIN n /\ n.f = s.f /\ n.q = {}
WroteF(n) == {"f", "q"} \subseteq DOMAIN n /\ n.q = n.f /\ Partial(n.f)

LEMMA MovesKeepF ==
  ASSUME NEW s, NEW n, SameF(n, s), NEW a, NEW v
  PROVE  /\ SameF(Read(a, n), s) /\ SameF(Write(a, v, n), s)
         /\ SameF(In(a, n), s) /\ SameF(Out(a, v, n), s)
         /\ SameF(WriteReg(a, v, n), s) /\ SameF(WritePair(a, v, n), s)
         /\ SameF(SetIndex(a, v, n), s)
         /\ SameF([n EXCEPT !.wz = v], s) /\ SameF([n EXCEPT !.pc = v], s) /\ SameF([n EXCEPT !.sp = v], s)
         /\ SameF([n EXCEPT !.i = v], s) /\ SameF([n EXCEPT !.r = v], s) /\ SameF([n EXCEPT !.im = v], s)
         /\ SameF([n EXCEPT !.iff1 = v], s) /\ SameF([n EXCEPT !.iff2 = v], s)
         /\ SameF([n EXCEPT !.delay = v], s) /\ SameF([n EXCEPT !.halted = v], s)
         /\ SameF([n EXCEPT !.reg = v], s) /\ SameF([n EXCEPT !.alt = v], s)
         /\ SameF([n EXCEPT !.q = v], s) /\ SameF([n EXCEPT !.altf = v], s)
         /\ SameF([n EXCEPT !.reg[a] = v], s) /\ SameF([n EXCEPT !.alt[a] = v], s)
<1>1. /\ SameF(Read(a, n), s) /\ SameF(Write(a, v, n), s) /\ SameF(In(a, n), s) /\ SameF(Out(a, v, n), s)
  BY DEF SameF, Read, Write, In, Out
<1>2. SameF(WriteReg(a, v, n), s) /\ SameF(WritePair(a, v, n), s) /\ SameF(SetIndex(a, v, n), s)
  BY DEF SameF, WriteReg, WritePair, SetIndex
<1>3. /\ SameF([n EXCEPT !.wz = v], s) /\ SameF([n EXCEPT !.pc = v], s) /\ SameF([n EXCEPT !.sp = v], s)
      /\ SameF([n EXCEPT !.i = v], s) /\ SameF([n EXCEPT !.r = v], s) /\ SameF([n EXCEPT !.im = v], s)
      /\ SameF([n EXCEPT !.iff1 = v], s) /\ SameF([n EXCEPT !.iff2 = v], s)
      /\ SameF([n EXCEPT !.delay = v], s) /\ SameF([n EXCEPT !.halted = v], s)
  BY DEF SameF
<1>4. /\ SameF([n EXCEPT !.reg = v], s) /\ SameF([n EXCEPT !.alt = v], s)
      /\ SameF([n EXCEPT !.q = v], s) /\ SameF([n EXCEPT !.altf = v], s)
      /\ SameF([n EXCEPT !.reg[a] = v], s) /\ SameF([n EXCEPT !.alt[a] = v], s)
  BY DEF SameF
<1> QED
  BY <1>1, <1>2, <1>3, <1>4

LEMMA StackKeepsF ==
  ASSUME NEW s, NEW n, SameF(n, s), NEW a, NEW v, NEW k
  PROVE  /\ SameF(PushWord(v, n), s) /\ SameF(PopWord(n), s) /\ SameF(Jumped(a, n), s)
         /\ SameF(ReadWord(a, n), s) /\ SameF(WordStored(a, v, n), s) /\ SameF(WordLoaded(a, n), s)
         /\ SameF(TopExchanged(v, n), s) /\ SameF(Fetched(a, n), s) /\ SameF(Store(a, v, n), s)
         /\ SameF(SetIndexByte(a, k, v, n), s)
<1>1. SameF(PushWord(v, n), s) /\ SameF(Jumped(a, n), s) /\ SameF(ReadWord(a, n), s)
  BY DEF SameF, PushWord, Jumped, ReadWord, Write, Read
<1>2. SameF(Fetched(a, n), s) /\ SameF(Store(a, v, n), s) /\ SameF(SetIndexByte(a, k, v, n), s)
  BY MovesKeepF DEF Fetched, Store, SetIndexByte
<1>3. /\ SameF(PopWord(n), s) /\ SameF(WordStored(a, v, n), s) /\ SameF(WordLoaded(a, n), s)
      /\ SameF(TopExchanged(v, n), s)
  BY MovesKeepF DEF PopWord, ReadWord, WordStored, WordLoaded, TopExchanged
<1> QED
  BY <1>1, <1>2, <1>3

LEMMA EndsOfF ==
  ASSUME NEW s, NEW n, SameF(n, s), NEW t, NEW fl
  PROVE  /\ KeptF(Keeping(t, n), s)
         /\ Partial(fl) => WroteF(Setting(fl, t, n))
BY DEF SameF, KeptF, WroteF, Keeping, Setting

(* The flags of every operation are partial, CPL's apart *)
LEMMA FromResult ==
  ASSUME NEW x
  PROVE  /\ ~({"S", "Z"} \subseteq SZXY(x)) /\ ~({"S", "Z"} \subseteq SZXYP(x))
         /\ "N" \notin SZXY(x) /\ "N" \notin SZXYP(x) /\ "N" \notin XY(x)
<1>1. ~(x >= 128 /\ x = 0)
  OBVIOUS
<1> QED
  BY <1>1 DEF SZXYP, SZXY, XY, Parity, On

LEMMA SumsPartial ==
  ASSUME NEW x, NEW y, NEW c
  PROVE  /\ Partial(Add(x, y, c).f) /\ Partial(Sub(x, y, c).f) /\ Partial(Compare(x, y).f)
<1>1. Partial(Add(x, y, c).f)
  BY FromResult DEF Add, Partial, On
<1>2. Partial(Sub(x, y, c).f)
  BY FromResult DEF Sub, BorrowFlags, Partial, On
<1>3. Partial(Compare(x, y).f)
  BY FromResult DEF Compare, BorrowFlags, XY, Partial, On
<1> QED
  BY <1>1, <1>2, <1>3

LEMMA BytewisePartial ==
  ASSUME NEW x, NEW y, NEW fl
  PROVE  /\ Partial(And(x, y).f) /\ Partial(Or(x, y).f) /\ Partial(Xor(x, y).f)
         /\ Partial(Increment(x, fl).f) /\ Partial(Decrement(x, fl).f)
         /\ Partial(DecimalAdjust(x, fl).f)
<1>1. Partial(And(x, y).f) /\ Partial(Or(x, y).f) /\ Partial(Xor(x, y).f)
  BY FromResult DEF And, Or, Xor, Partial
<1>2. Partial(Increment(x, fl).f) /\ Partial(Decrement(x, fl).f)
  BY FromResult DEF Increment, Decrement, Partial, On
<1>3. Partial(DecimalAdjust(x, fl).f)
  BY FromResult DEF DecimalAdjust, Partial, On
<1> QED
  BY <1>1, <1>2, <1>3

LEMMA AluPartial ==
  ASSUME NEW op \in AluOps, NEW x, NEW y, NEW fl
  PROVE  Partial(AluA(op, x, y, fl).f)
BY SumsPartial, BytewisePartial DEF AluA, AluOps

LEMMA WidePartial ==
  ASSUME NEW x, NEW y, NEW c, NEW fl
  PROVE  /\ Partial(Add16(x, y, c).f) /\ Partial(Sub16(x, y, c).f)
         /\ Partial(Add16KeepSzpv(x, y, fl).f)
<1>1. ASSUME NEW r
      PROVE  ~(r = 0 /\ "S" \in SZXY(Hi(r))) /\ "N" \notin SZXY(Hi(r))
  BY DEF SZXY, Hi, On, XY
<1>2. Partial(Add16(x, y, c).f)
  BY <1>1 DEF Add16, Partial, On
<1>3. Partial(Sub16(x, y, c).f)
  BY <1>1 DEF Sub16, Partial, On
<1>4. Partial(Add16KeepSzpv(x, y, fl).f)
  BY DEF Add16KeepSzpv, Partial, XY, On
<1> QED
  BY <1>2, <1>3, <1>4

LEMMA TurnsPartial ==
  ASSUME NEW op, NEW x, NEW fl
  PROVE  /\ op \in RotOps => Partial(RotApply(op, x, fl).f)
         /\ Partial(RotAccumulator(op, x, fl).f)
<1>1. \A r, out : Partial(Rotated(r, out).f)
  BY FromResult DEF Rotated, Partial, On
<1>2. op \in RotOps => Partial(RotApply(op, x, fl).f)
  BY <1>1 DEF RotApply, RotOps
<1>3. \A r, out : Partial(AccumulatorFlags(r, out, fl))
  BY FromResult DEF AccumulatorFlags, Partial, On
<1>4. Partial(RotAccumulator(op, x, fl).f)
  BY <1>3 DEF RotAccumulator
<1> QED
  BY <1>2, <1>4

LEMMA OthersPartial ==
  ASSUME NEW fl, NEW x, NEW y, NEW z, NEW op, NEW weight
  PROVE  /\ Partial(ScfCcfFlags(op, x, fl, y)) /\ Partial(BitFlags(fl, x, weight, y))
         /\ Partial((fl \cap {"C"}) \cup SZXYP(x))
         /\ Partial((fl \cap {"C"}) \cup SZXY(x) \cup On(y, "PV"))
<1>1. Partial(ScfCcfFlags(op, x, fl, y))
  BY FromResult DEF ScfCcfFlags, Partial
<1>2. Partial(BitFlags(fl, x, weight, y))
  BY FromResult DEF BitFlags, Partial, On
<1>3. Partial((fl \cap {"C"}) \cup SZXYP(x)) /\ Partial((fl \cap {"C"}) \cup SZXY(x) \cup On(y, "PV"))
  BY FromResult DEF Partial, On
<1> QED
  BY <1>1, <1>2, <1>3

LEMMA BlocksPartial ==
  ASSUME NEW fl, NEW x, NEW y, NEW z
  PROVE  /\ Partial(BlockLdFlags(x, y, z, fl)) /\ Partial(BlockCpFlags(x, y, z, fl))
         /\ Partial(BlockIoFlags(x, y, z))
<1>1. Partial(BlockLdFlags(x, y, z, fl))
  BY DEF BlockLdFlags, BlockXY, Partial, On
<1>2. Partial(BlockCpFlags(x, y, z, fl))
  BY FromResult DEF BlockCpFlags, BlockXY, Partial, On
<1>3. Partial(BlockIoFlags(x, y, z))
  BY FromResult DEF BlockIoFlags, Parity, Partial, On
<1> QED
  BY <1>1, <1>2, <1>3

LEMMA RepeatsPartial ==
  ASSUME NEW fl, Partial(fl), NEW pc, NEW b, NEW data
  PROVE  Partial(RepeatFlags(fl, pc)) /\ Partial(RepeatIoFlags(fl, pc, b, data))
<1>1. Partial(RepeatFlags(fl, pc))
  BY FromResult DEF RepeatFlags, XY, On, Partial
<1>2. ASSUME NEW g, Partial(g)
      PROVE  \A even, half : /\ Partial(PvFlippedUnless(even, g))
                             /\ Partial((PvFlippedUnless(even, g) \ {"H"}) \cup On(half, "H"))
  BY <1>2 DEF PvFlippedUnless, Partial, On
<1> QED
  BY <1>1, <1>2 DEF RepeatIoFlags

-----------------------------------------------------------------------------
(* Handlers that compute no flags *)

LEMMA LoadsKeepF ==
  ASSUME NEW s, SameF(s, s), NEW op, NEW args
  PROVE  /\ KeptF(OpLdRR(op, s), s) /\ KeptF(OpLdRN(op, args, s), s)
         /\ KeptF(OpLdAIrr(op, s), s) /\ KeptF(OpLdIrrA(op, s), s)
         /\ KeptF(OpLdAInn(args, s), s) /\ KeptF(OpLdInnA(args, s), s)
         /\ KeptF(OpLdIA(s), s) /\ KeptF(OpLdRA(s), s)
         /\ KeptF(OpLdNnHl(args, s), s) /\ KeptF(OpLdHlNnFromMem(args, s), s)
         /\ KeptF(OpLdNnRr(op, args, s), s) /\ KeptF(OpLdRrNnFromMem(op, args, s), s)
         /\ KeptF(OpLdSpHl(s), s) /\ KeptF(OpLdRrNn(op, args, s), s)
         /\ KeptF(OpPopRr(op, s), s) /\ KeptF(OpPushRr(op, s), s) /\ KeptF(OpPushAf(s), s)
<1>1. KeptF(OpLdRR(op, s), s) /\ KeptF(OpLdRN(op, args, s), s)
  BY StackKeepsF, EndsOfF DEF OpLdRR, OpLdRN
<1>2. KeptF(OpLdAIrr(op, s), s) /\ KeptF(OpLdAInn(args, s), s)
  <2>1. ASSUME NEW a, NEW v, NEW w
        PROVE  SameF([Read(a, s) EXCEPT !.reg[7] = v, !.wz = w], s)
    BY DEF SameF, Read
  <2> QED
    BY <2>1, EndsOfF DEF OpLdAIrr, OpLdAInn
<1>3. KeptF(OpLdIrrA(op, s), s) /\ KeptF(OpLdInnA(args, s), s)
  BY MovesKeepF, EndsOfF DEF OpLdIrrA, OpLdInnA
<1>4. KeptF(OpLdIA(s), s) /\ KeptF(OpLdRA(s), s) /\ KeptF(OpLdSpHl(s), s)
  BY MovesKeepF, EndsOfF DEF OpLdIA, OpLdRA, OpLdSpHl
<1>5. KeptF(OpLdNnHl(args, s), s) /\ KeptF(OpLdNnRr(op, args, s), s)
  BY StackKeepsF, EndsOfF DEF OpLdNnHl, OpLdNnRr
<1>6. KeptF(OpLdHlNnFromMem(args, s), s) /\ KeptF(OpLdRrNnFromMem(op, args, s), s)
  BY StackKeepsF, MovesKeepF, EndsOfF DEF OpLdHlNnFromMem, OpLdRrNnFromMem
<1>7. KeptF(OpLdRrNn(op, args, s), s) /\ KeptF(OpPopRr(op, s), s)
  BY StackKeepsF, MovesKeepF, EndsOfF DEF OpLdRrNn, OpPopRr
<1>8. KeptF(OpPushRr(op, s), s) /\ KeptF(OpPushAf(s), s)
  BY StackKeepsF, EndsOfF DEF OpPushRr, OpPushAf
<1> QED
  BY <1>1, <1>2, <1>3, <1>4, <1>5, <1>6, <1>7, <1>8

LEMMA JumpsKeepF ==
  ASSUME NEW s, SameF(s, s), NEW op, NEW args, NEW t
  PROVE  /\ KeptF(OpJr(op, args, s), s) /\ KeptF(OpDjnz(args, s), s) /\ KeptF(OpJp(op, args, s), s)
         /\ KeptF(OpJpHl(s), s) /\ KeptF(OpCall(op, args, s), s) /\ KeptF(OpRet(t, s), s)
         /\ KeptF(OpRetCc(op, s), s) /\ KeptF(RetIff(s), s) /\ KeptF(OpRst(op, s), s)
<1>1. KeptF(OpJr(op, args, s), s)
  BY StackKeepsF, EndsOfF DEF OpJr
<1>2. KeptF(OpDjnz(args, s), s)
  BY MovesKeepF, StackKeepsF, EndsOfF DEF OpDjnz
<1>3. KeptF(OpJp(op, args, s), s) /\ KeptF(OpJpHl(s), s)
  BY MovesKeepF, StackKeepsF, EndsOfF DEF OpJp, OpJpHl
<1>4. KeptF(OpCall(op, args, s), s) /\ KeptF(OpRst(op, s), s)
  BY MovesKeepF, StackKeepsF, EndsOfF DEF OpCall, OpRst
<1>5. \A v : KeptF(OpRet(v, s), s)
  BY StackKeepsF, EndsOfF DEF OpRet
<1>6. KeptF(OpRetCc(op, s), s) /\ KeptF(RetIff(s), s)
  BY <1>5, EndsOfF DEF OpRetCc, RetIff, KeptF
<1> QED
  BY <1>1, <1>2, <1>3, <1>4, <1>5, <1>6

LEMMA ControlKeepsF ==
  ASSUME NEW s, SameF(s, s), NEW op, NEW args, NEW on
  PROVE  /\ KeptF(OpInterruptEnable(on, s), s) /\ KeptF(OpIm(op, s), s) /\ KeptF(OpHalt(s), s)
         /\ KeptF(OpExDeHl(s), s) /\ KeptF(OpExx(s), s) /\ KeptF(OpExSpHl(s), s)
         /\ KeptF(OpInAN(args, s), s) /\ KeptF(OpOutNA(args, s), s) /\ KeptF(OpOutCR(op, s), s)
         /\ KeptF(OpIncDecRr(op, s), s) /\ KeptF(OpResSet(op, s), s)
<1>1. KeptF(OpInterruptEnable(on, s), s) /\ KeptF(OpIm(op, s), s) /\ KeptF(OpHalt(s), s)
  BY DEF OpInterruptEnable, OpIm, OpHalt, Keeping, KeptF, SameF
<1>2. KeptF(OpExDeHl(s), s) /\ KeptF(OpExSpHl(s), s)
  BY MovesKeepF, StackKeepsF, EndsOfF DEF OpExDeHl, OpExSpHl
<1>3. KeptF(OpExx(s), s)
  BY DEF OpExx, Keeping, KeptF, SameF
<1>4. KeptF(OpInAN(args, s), s)
  BY DEF OpInAN, In, Keeping, KeptF, SameF
<1>5. KeptF(OpOutNA(args, s), s)
  <2> DEFINE port == Word(RegA(s), args[1])
             n    == [Out(port, RegA(s), s) EXCEPT !.wz = Latched(port, s)]
  <2>1. SameF(n, s)
    BY DEF SameF, Out
  <2>2. OpOutNA(args, s) = Keeping(11, n)
    BY DEF OpOutNA
  <2> HIDE DEF n
  <2>3. KeptF(Keeping(11, n), s)
    BY <2>1, EndsOfF
  <2> QED
    BY <2>2, <2>3
<1>6. KeptF(OpOutCR(op, s), s)
  <2>1. ASSUME NEW value
        PROVE  KeptF(Keeping(12, [Out(BC(s), value, s) EXCEPT !.wz = Wrap16(BC(s) + 1)]), s)
    <3> DEFINE n == [Out(BC(s), value, s) EXCEPT !.wz = Wrap16(BC(s) + 1)]
    <3>1. SameF(n, s)
      BY DEF SameF, Out
    <3> HIDE DEF n
    <3>2. KeptF(Keeping(12, n), s)
      BY <3>1, EndsOfF
    <3> QED
      BY <3>2 DEF n
  <2> QED
    BY <2>1 DEF OpOutCR
<1>7. KeptF(OpIncDecRr(op, s), s)
  BY MovesKeepF, EndsOfF DEF OpIncDecRr
<1>8. KeptF(OpResSet(op, s), s)
  BY StackKeepsF, EndsOfF DEF OpResSet
<1> QED
  BY <1>1, <1>2, <1>3, <1>4, <1>5, <1>6, <1>7, <1>8

LEMMA IndexKeepsF ==
  ASSUME NEW s, SameF(s, s), NEW p, NEW op, NEW args, NEW d
  PROVE  /\ KeptF(OpLdIndexNn(p, args, s), s) /\ KeptF(OpLdNnIndex(p, args, s), s)
         /\ KeptF(OpLdIndexNnFromMem(p, args, s), s) /\ KeptF(OpLdRIndexByte(p, op, s), s)
         /\ KeptF(OpLdIndexByteIndexByte(p, op, s), s) /\ KeptF(OpLdIndexByteR(p, op, s), s)
         /\ KeptF(OpLdIndexByteN(p, op, args, s), s) /\ KeptF(OpIncDecIndex(p, op, s), s)
         /\ KeptF(OpPopIndex(p, s), s) /\ KeptF(OpPushIndex(p, s), s) /\ KeptF(OpExSpIndex(p, s), s)
         /\ KeptF(OpJpIndex(p, s), s) /\ KeptF(OpLdSpIndex(p, s), s)
         /\ KeptF(OpLdRIndexMem(p, op, args, s), s) /\ KeptF(OpLdIndexMemR(p, op, args, s), s)
         /\ KeptF(OpLdIndexMemN(p, args, s), s) /\ KeptF(OpIndexResSet(p, d, op, s), s)
<1>1. \A k, v : SameF(SetIndexByte(p, k, v, s), s)
  BY StackKeepsF
<1>2. /\ KeptF(OpLdIndexByteIndexByte(p, op, s), s) /\ KeptF(OpLdIndexByteR(p, op, s), s)
      /\ KeptF(OpLdIndexByteN(p, op, args, s), s)
  BY <1>1, EndsOfF DEF OpLdIndexByteIndexByte, OpLdIndexByteR, OpLdIndexByteN
<1>3. /\ KeptF(OpLdIndexNn(p, args, s), s) /\ KeptF(OpLdRIndexByte(p, op, s), s)
      /\ KeptF(OpIncDecIndex(p, op, s), s)
  BY MovesKeepF, EndsOfF DEF OpLdIndexNn, OpLdRIndexByte, OpIncDecIndex
<1>4. KeptF(OpLdNnIndex(p, args, s), s) /\ KeptF(OpLdIndexNnFromMem(p, args, s), s)
  BY MovesKeepF, EndsOfF DEF OpLdNnIndex, OpLdIndexNnFromMem
<1>5. KeptF(OpPopIndex(p, s), s) /\ KeptF(OpPushIndex(p, s), s)
  BY MovesKeepF, StackKeepsF, EndsOfF DEF OpPopIndex, OpPushIndex
<1>6. KeptF(OpExSpIndex(p, s), s)
  BY MovesKeepF, StackKeepsF, EndsOfF DEF OpExSpIndex
<1>7. KeptF(OpJpIndex(p, s), s) /\ KeptF(OpLdSpIndex(p, s), s)
  BY MovesKeepF, EndsOfF DEF OpJpIndex, OpLdSpIndex
<1>8. KeptF(OpLdRIndexMem(p, op, args, s), s)
  BY MovesKeepF, EndsOfF DEF OpLdRIndexMem
<1>9. KeptF(OpLdIndexMemR(p, op, args, s), s) /\ KeptF(OpLdIndexMemN(p, args, s), s)
  BY MovesKeepF, EndsOfF DEF OpLdIndexMemR, OpLdIndexMemN
<1>10. KeptF(OpIndexResSet(p, d, op, s), s)
  <2>1. \A a, v : SameF(WrittenBack(a, v, op, s), s)
    BY MovesKeepF DEF WrittenBack
  <2> QED
    BY <2>1, EndsOfF DEF OpIndexResSet
<1> QED
  BY <1>1, <1>2, <1>3, <1>4, <1>5, <1>6, <1>7, <1>8, <1>9, <1>10

-----------------------------------------------------------------------------
(* Handlers that compute flags *)

LEMMA AluWritesF ==
  ASSUME NEW s, SameF(s, s), NEW op \in Byte, NEW args, NEW p, NEW value, NEW t, NEW n, SameF(n, s)
  PROVE  /\ WroteF(AluOn(op, value, t, n)) /\ WroteF(OpAluR(op, s)) /\ WroteF(OpAluN(op, args, s))
         /\ WroteF(OpAluIndexByte(p, op, s)) /\ WroteF(OpAluIndexMem(p, op, args, s))
<1>1. AluNames[Field(op) + 1] \in AluOps
  BY FieldsAre, AluNamed
<1>2. ASSUME NEW x, NEW y, NEW u, SameF(u, s)
      PROVE  WroteF(AluOn(op, x, y, u))
  <2>1. Partial(AluA(AluNames[Field(op) + 1], RegA(u), x, u.f).f)
    BY <1>1, AluPartial
  <2>2. \A v : SameF([u EXCEPT !.reg[7] = v], s)
    BY <1>2, MovesKeepF
  <2> QED
    BY <2>1, <2>2, EndsOfF DEF AluOn
<1>3. SameF(Fetched(Low(op), s), s) /\ (\A a, w : SameF([Read(a, s) EXCEPT !.wz = w], s))
  BY StackKeepsF, MovesKeepF
<1> QED
  BY <1>2, <1>3 DEF OpAluR, OpAluN, OpAluIndexByte, OpAluIndexMem

LEMMA AccumulatorWritesF ==
  ASSUME NEW s, SameF(s, s), NEW op, NEW value
  PROVE  /\ WroteF(OpNeg(s)) /\ WroteF(OpDaa(s)) /\ WroteF(OpScfCcf(op, s)) /\ WroteF(OpRotA(op, s))
         /\ WroteF(OpLdAFrom(value, s)) /\ WroteF(OpRrdRld(op, s))
<1>1. ASSUME NEW result, Partial(result.f), NEW t, NEW n, SameF(n, s)
      PROVE  WroteF(ToA(result, t, n))
  <2>1. \A v : SameF([n EXCEPT !.reg[7] = v], s)
    BY <1>1, MovesKeepF
  <2> QED
    BY <1>1, <2>1, EndsOfF DEF ToA
<1>2. WroteF(OpNeg(s)) /\ WroteF(OpDaa(s))
  BY <1>1, SumsPartial, BytewisePartial DEF OpNeg, OpDaa
<1>3. WroteF(OpRotA(op, s))
  BY <1>1, TurnsPartial DEF OpRotA
<1>4. WroteF(OpScfCcf(op, s))
  <2>1. \A name, x, q : Partial(ScfCcfFlags(name, x, s.f, q))
    BY OthersPartial
  <2> QED
    BY <2>1, EndsOfF DEF OpScfCcf
<1>5. WroteF(OpLdAFrom(value, s))
  <2>1. SameF([s EXCEPT !.reg[7] = value], s)
    BY MovesKeepF
  <2> QED
    BY <2>1, OthersPartial, EndsOfF DEF OpLdAFrom
<1>6. WroteF(OpRrdRld(op, s))
  <2>1. \A a, v, w : SameF([Write(a, v, Read(a, s)) EXCEPT !.wz = w], s)
    BY MovesKeepF
  <2>2. \A r : Partial([r |-> r, f |-> (s.f \cap {"C"}) \cup SZXYP(r)].f)
    BY OthersPartial
  <2> QED
    BY <1>1, <2>1, <2>2 DEF OpRrdRld
<1> QED
  BY <1>2, <1>3, <1>4, <1>5, <1>6

(* CPL alone may leave every flag on, and never leaves none *)
LEMMA CplWritesF ==
  ASSUME NEW s, SameF(s, s)
  PROVE  {"f", "q"} \subseteq DOMAIN OpCpl(s) /\ OpCpl(s).q = OpCpl(s).f /\ "N" \in OpCpl(s).f
BY DEF SameF, OpCpl, ToA, Setting, Complement

LEMMA StepsWriteF ==
  ASSUME NEW s, SameF(s, s), NEW op, NEW args, NEW p
  PROVE  /\ WroteF(OpIncDec(op, s)) /\ WroteF(OpIncDecIndexByte(p, op, s))
         /\ WroteF(OpIncDecIndexMem(p, op, args, s))
<1>1. \A x : Partial(Increment(x, s.f).f) /\ Partial(Decrement(x, s.f).f)
  BY BytewisePartial
<1>2. /\ \A k, v : SameF(Store(k, v, Fetched(k, s)), s)
      /\ \A k, v : SameF(SetIndexByte(p, k, v, s), s)
  BY StackKeepsF
<1>3. \A a, v, w : SameF([Write(a, v, Read(a, s)) EXCEPT !.wz = w], s)
  BY MovesKeepF
<1>4. WroteF(OpIncDec(op, s))
  BY <1>1, <1>2, EndsOfF DEF OpIncDec
<1>5. WroteF(OpIncDecIndexByte(p, op, s))
  BY <1>1, <1>2, EndsOfF DEF OpIncDecIndexByte
<1>6. WroteF(OpIncDecIndexMem(p, op, args, s))
  <2>1. ASSUME NEW fl, Partial(fl), NEW a, NEW v, NEW w
        PROVE  WroteF(Setting(fl, 23, [Write(a, v, Read(a, s)) EXCEPT !.wz = w]))
    BY <1>3, <2>1, EndsOfF
  <2> QED
    BY <1>1, <2>1 DEF OpIncDecIndexMem
<1> QED
  BY <1>4, <1>5, <1>6

LEMMA WideWritesF ==
  ASSUME NEW s, SameF(s, s), NEW op, NEW p
  PROVE  /\ WroteF(OpAddHlRr(op, s)) /\ WroteF(OpAdcHlRr(op, s)) /\ WroteF(OpSbcHlRr(op, s))
         /\ WroteF(OpAddIndexRr(p, op, s))
<1>1. ASSUME NEW result, Partial(result.f), NEW t
      PROVE  WroteF(OntoHl(result, t, s))
  <2>1. \A v, w : SameF([WritePair(2, v, s) EXCEPT !.wz = w], s)
    BY MovesKeepF
  <2> QED
    BY <1>1, <2>1, EndsOfF DEF OntoHl
<1>2. WroteF(OpAddHlRr(op, s))
  BY <1>1, WidePartial DEF OpAddHlRr
<1>3. WroteF(OpAdcHlRr(op, s)) /\ WroteF(OpSbcHlRr(op, s))
  BY <1>1, WidePartial DEF OpAdcHlRr, OpSbcHlRr
<1>4. WroteF(OpAddIndexRr(p, op, s))
  <2>1. \A v, w : SameF([SetIndex(p, v, s) EXCEPT !.wz = w], s)
    BY MovesKeepF
  <2> QED
    BY <2>1, WidePartial, EndsOfF DEF OpAddIndexRr
<1> QED
  BY <1>2, <1>3, <1>4

LEMMA TurnsWriteF ==
  ASSUME NEW s, SameF(s, s), NEW op \in Byte, NEW p, NEW d
  PROVE  /\ WroteF(OpRot(op, s)) /\ WroteF(OpBit(op, s))
         /\ WroteF(OpIndexRot(p, d, op, s)) /\ WroteF(OpIndexBit(p, d, op, s))
<1>1. RotNames[Field(op) + 1] \in RotOps
  BY FieldsAre, AluNamed
<1>2. \A x : Partial(RotApply(RotNames[Field(op) + 1], x, s.f).f)
  BY <1>1, TurnsPartial
<1>3. WroteF(OpRot(op, s))
  <2>1. \A k, v : SameF(Store(k, v, Fetched(k, s)), s)
    BY StackKeepsF
  <2> QED
    BY <1>2, <2>1, EndsOfF DEF OpRot
<1>4. WroteF(OpBit(op, s))
  BY StackKeepsF, OthersPartial, EndsOfF DEF OpBit
<1>5. WroteF(OpIndexRot(p, d, op, s))
  <2>1. \A a, v : SameF(WrittenBack(a, v, op, s), s)
    BY MovesKeepF DEF WrittenBack
  <2> QED
    BY <1>2, <2>1, EndsOfF DEF OpIndexRot
<1>6. WroteF(OpIndexBit(p, d, op, s))
  BY MovesKeepF, OthersPartial, EndsOfF DEF OpIndexBit
<1> QED
  BY <1>3, <1>4, <1>5, <1>6

LEMMA InWritesF ==
  ASSUME NEW s, SameF(s, s), NEW op
  PROVE  WroteF(OpInRC(op, s))
<1>1. \A a, w : SameF([In(a, s) EXCEPT !.wz = w], s)
  BY MovesKeepF
<1>2. \A a, w, k, v : SameF(WriteReg(k, v, [In(a, s) EXCEPT !.wz = w]), s)
  BY <1>1, MovesKeepF
<1> QED
  BY <1>1, <1>2, OthersPartial, EndsOfF DEF OpInRC

(* What a block instruction leaves before it is known to repeat *)
Stepped(n) == {"f", "q"} \subseteq DOMAIN n /\ Partial(n.f)

LEMMA BlockEndsWriteF ==
  ASSUME NEW step, Stepped(step.s), NEW op
  PROVE  WroteF(OpBlock(op, step)) /\ WroteF(OpBlockIo(op, step))
<1> DEFINE n == step.s
           again == Rewound(n)
<1>1. /\ SameF(n, n) /\ Partial(n.f)
  BY DEF Stepped, SameF
<1>2. SameF(again, again) /\ Partial(again.f)
  <2>1. {"f", "q"} \subseteq DOMAIN again /\ again.f = RepeatFlags(n.f, Wrap16(n.pc - 2))
    BY <1>1 DEF Rewound, SameF
  <2> QED
    BY <1>1, <2>1, RepeatsPartial DEF SameF
<1> HIDE DEF n, again
<1>3. \A t : WroteF(Setting(n.f, t, n)) /\ WroteF(Setting(again.f, t, again))
  BY <1>1, <1>2, EndsOfF
<1>4. \A b, data, t : WroteF(Setting(RepeatIoFlags(again.f, again.pc, b, data), t, again))
  BY <1>2, RepeatsPartial, EndsOfF
<1> QED
  BY <1>3, <1>4 DEF OpBlock, OpBlockIo, n, again

LEMMA BlocksWriteF ==
  ASSUME NEW s, SameF(s, s), NEW op
  PROVE  /\ WroteF(OpBlock(op, BlockLd(op, s))) /\ WroteF(OpBlock(op, BlockCp(op, s)))
         /\ WroteF(OpBlockIo(op, BlockIni(op, s))) /\ WroteF(OpBlockIo(op, BlockOuti(op, s)))
<1>1. ASSUME NEW n, SameF(n, s), NEW fl, Partial(fl), NEW w
      PROVE  Stepped([n EXCEPT !.f = fl]) /\ Stepped([n EXCEPT !.f = fl, !.wz = w])
  BY <1>1 DEF SameF, Stepped
<1>2. ASSUME NEW n, SameF(n, s), NEW k
      PROVE  SameF(Counted(op, k, n), s)
  BY <1>2, MovesKeepF DEF Counted
<1>3. Stepped(BlockLd(op, s).s)
  BY <1>1, <1>2, MovesKeepF, BlocksPartial DEF BlockLd
<1>4. Stepped(BlockCp(op, s).s)
  BY <1>1, <1>2, MovesKeepF, BlocksPartial DEF BlockCp
<1>5. Stepped(BlockIni(op, s).s)
  BY <1>1, <1>2, MovesKeepF, BlocksPartial DEF BlockIni
<1>6. Stepped(BlockOuti(op, s).s)
  BY <1>1, <1>2, MovesKeepF, BlocksPartial DEF BlockOuti
<1> QED
  BY <1>3, <1>4, <1>5, <1>6, BlockEndsWriteF

-----------------------------------------------------------------------------
(* What an opcode does with the flags, whatever the machine *)

Leaves(way, n, s) ==
  CASE way = "keeps"       -> KeptF(n, s)
    [] way = "writes"      -> WroteF(n)
    [] way = "complements" -> {"f", "q"} \subseteq DOMAIN n /\ n.q = n.f /\ "N" \in n.f
    [] way = "moves"       -> {"f", "q"} \subseteq DOMAIN n /\ n.q = {}

LEMMA LeavesAre ==
  ASSUME NEW n, NEW s
  PROVE  /\ Leaves("keeps", n, s) <=> KeptF(n, s)
         /\ Leaves("writes", n, s) <=> WroteF(n)
         /\ Leaves("complements", n, s) <=> {"f", "q"} \subseteq DOMAIN n /\ n.q = n.f /\ "N" \in n.f
         /\ Leaves("moves", n, s) <=> {"f", "q"} \subseteq DOMAIN n /\ n.q = {}
BY DEF Leaves

MainWriters ==
  Every8(\h04) \cup Every8(\h05) \cup Every8(\hC6) \cup \h80 .. \hBF
    \cup {\h07, \h0F, \h17, \h1F, \h09, \h19, \h29, \h39, \h27, \h37, \h3F}

MainWay(op) ==
  CASE op \in MainWriters -> "writes"
    [] op = \h2F -> "complements"
    [] op \in {\hF1, \h08} -> "moves"
    [] OTHER -> "keeps"

LEMMA WaysAre ==
  ASSUME NEW op
  PROVE  /\ MainWay(op) \in {"keeps", "writes", "complements", "moves"}
         /\ MainWay(op) = "moves" <=> op \in {\hF1, \h08}
<1>1. \hF1 \notin MainWriters /\ \h08 \notin MainWriters
  BY Every8Is DEF MainWriters
<1>2. op \in MainWriters => op \notin {\hF1, \h08}
  BY <1>1
<1> QED
  BY <1>2 DEF MainWay

LEMMA MainLeaves ==
  ASSUME NEW s, SameF(s, s), NEW op \in Byte \ {\hCB, \hDD, \hED, \hFD}, NEW args
  PROVE  Leaves(MainWay(op), MainEffect(op, args, s), s)
<1>0. op \in Byte
  OBVIOUS
<1>1. ASSUME op \in MainWriters
      PROVE  WroteF(MainEffect(op, args, s))
  <2>1. /\ WroteF(OpIncDec(op, s)) /\ WroteF(OpRotA(op, s)) /\ WroteF(OpAddHlRr(op, s)) /\ WroteF(OpDaa(s))
        /\ WroteF(OpScfCcf(op, s)) /\ WroteF(OpAluR(op, s)) /\ WroteF(OpAluN(op, args, s))
    BY <1>0, StepsWriteF, AccumulatorWritesF, WideWritesF, AluWritesF
  <2> QED
    BY <1>1, <2>1, Every8Is DEF MainEffect, MainWriters, Byte
<1>2. ASSUME op = \h2F
      PROVE  MainEffect(op, args, s) = OpCpl(s)
  BY <1>2, Every8Is DEF MainEffect
<1>3. ASSUME op \in {\hF1, \h08}
      PROVE  {"f", "q"} \subseteq DOMAIN MainEffect(op, args, s) /\ MainEffect(op, args, s).q = {}
  <2>1. {"f", "q"} \subseteq DOMAIN OpPopAf(s) /\ OpPopAf(s).q = {}
    BY MovesKeepF, StackKeepsF DEF OpPopAf, Keeping, SameF
  <2>2. {"f", "q"} \subseteq DOMAIN OpExAfAf(s) /\ OpExAfAf(s).q = {}
    BY DEF OpExAfAf, Keeping, SameF
  <2>3. op = \hF1 => MainEffect(op, args, s) = OpPopAf(s)
    BY Every8Is DEF MainEffect
  <2>4. op = \h08 => MainEffect(op, args, s) = OpExAfAf(s)
    BY Every8Is DEF MainEffect
  <2> QED
    BY <1>3, <2>1, <2>2, <2>3, <2>4
<1>4. ASSUME op \notin MainWriters \cup {\h2F, \hF1, \h08}
      PROVE  KeptF(MainEffect(op, args, s), s)
  <2>1. /\ KeptF(OpLdRrNn(op, args, s), s) /\ KeptF(OpLdIrrA(op, s), s) /\ KeptF(OpLdAIrr(op, s), s)
        /\ KeptF(OpLdRN(op, args, s), s) /\ KeptF(OpLdNnHl(args, s), s) /\ KeptF(OpLdHlNnFromMem(args, s), s)
        /\ KeptF(OpLdInnA(args, s), s) /\ KeptF(OpLdAInn(args, s), s) /\ KeptF(OpLdRR(op, s), s)
        /\ KeptF(OpPopRr(op, s), s) /\ KeptF(OpPushRr(op, s), s) /\ KeptF(OpPushAf(s), s) /\ KeptF(OpLdSpHl(s), s)
    BY LoadsKeepF
  <2>2. /\ KeptF(OpDjnz(args, s), s) /\ KeptF(OpJr(op, args, s), s) /\ KeptF(OpRetCc(op, s), s)
        /\ KeptF(OpRet(10, s), s) /\ KeptF(OpJp(op, args, s), s) /\ KeptF(OpCall(op, args, s), s)
        /\ KeptF(OpRst(op, s), s) /\ KeptF(OpJpHl(s), s)
    BY JumpsKeepF
  <2>3. /\ KeptF(OpIncDecRr(op, s), s) /\ KeptF(OpHalt(s), s) /\ KeptF(OpOutNA(args, s), s)
        /\ KeptF(OpInAN(args, s), s) /\ KeptF(OpExx(s), s) /\ KeptF(OpExSpHl(s), s) /\ KeptF(OpExDeHl(s), s)
        /\ KeptF(OpInterruptEnable(op = \hFB, s), s) /\ KeptF(Keeping(4, s), s)
    BY ControlKeepsF, EndsOfF
  <2>4. CASE op < \h40
    BY <1>4, <2>1, <2>2, <2>3, <2>4, Every8Is DEF MainEffect, MainWriters, Byte
  <2>5. CASE op \in \h40 .. \hBF
    <3>1. op \in \h40 .. \h7F
      BY <1>4, <2>5 DEF MainWriters, Byte
    <3> QED
      BY <2>1, <2>3, <3>1, Every8Is DEF MainEffect, Byte
  <2>6. CASE op > \hBF
    <3>1. op \notin Every8(\hC6) /\ op # \hF1
      BY <1>4 DEF MainWriters
    <3> QED
      BY <2>1, <2>2, <2>3, <2>6, <3>1, Every8Is DEF MainEffect, Byte
  <2>7. op < \h40 \/ op \in \h40 .. \hBF \/ op > \hBF
    BY <1>0 DEF Byte
  <2> QED
    BY <2>4, <2>5, <2>6, <2>7
<1>5. CASE op \in MainWriters
  <2>0. op \notin {\h2F, \hF1, \h08}
    BY <1>5, Every8Is DEF MainWriters
  <2>1. MainWay(op) = "writes"
    BY <1>5, <2>0 DEF MainWay
  <2>2. WroteF(MainEffect(op, args, s))
    BY <1>1, <1>5
  <2> QED
    BY <2>1, <2>2, LeavesAre
<1>6. CASE op = \h2F
  <2>1. op \notin MainWriters
    BY <1>6, Every8Is DEF MainWriters
  <2>2. MainWay(op) = "complements"
    BY <1>6, <2>1 DEF MainWay
  <2>3. MainEffect(op, args, s) = OpCpl(s)
    BY <1>2, <1>6
  <2>4. Leaves("complements", OpCpl(s), s)
    BY CplWritesF, LeavesAre
  <2> QED
    BY <2>2, <2>3, <2>4
<1>7. CASE op \in {\hF1, \h08}
  <2>1. op \notin MainWriters
    BY <1>7, Every8Is DEF MainWriters
  <2>2. MainWay(op) = "moves"
    BY <1>7, <2>1 DEF MainWay
  <2> QED
    BY <1>3, <1>7, <2>2, LeavesAre
<1>8. CASE op \notin MainWriters \cup {\h2F, \hF1, \h08}
  <2>1. MainWay(op) = "keeps"
    BY <1>8 DEF MainWay
  <2> QED
    BY <1>4, <1>8, <2>1, LeavesAre
<1> QED
  BY <1>5, <1>6, <1>7, <1>8

EdKeepers ==
  Byte \ (Every8(\h40) \cup Every8(\h44) \cup \hA0 .. \hA3 \cup \hA8 .. \hAB \cup \hB0 .. \hB3
            \cup \hB8 .. \hBB
            \cup {\h42, \h52, \h62, \h72, \h4A, \h5A, \h6A, \h7A, \h57, \h5F, \h67, \h6F})

EdWay(op) == IF op \in EdKeepers THEN "keeps" ELSE "writes"

LEMMA EdLeaves ==
  ASSUME NEW s, SameF(s, s), NEW op \in Byte, NEW args
  PROVE  Leaves(EdWay(op), EdEffect(op, args, s), s)
<1>1. ASSUME op \notin EdKeepers
      PROVE  WroteF(EdEffect(op, args, s))
  <2>1. /\ WroteF(OpInRC(op, s)) /\ WroteF(OpSbcHlRr(op, s)) /\ WroteF(OpAdcHlRr(op, s)) /\ WroteF(OpNeg(s))
        /\ WroteF(OpLdAFrom(s.i, s)) /\ WroteF(OpLdAFrom(s.r, s)) /\ WroteF(OpRrdRld(op, s))
    BY InWritesF, WideWritesF, AccumulatorWritesF
  <2>2. /\ WroteF(OpBlock(op, BlockLd(op, s))) /\ WroteF(OpBlock(op, BlockCp(op, s)))
        /\ WroteF(OpBlockIo(op, BlockIni(op, s))) /\ WroteF(OpBlockIo(op, BlockOuti(op, s)))
    BY BlocksWriteF
  <2> QED
    BY <1>1, <2>1, <2>2, Every8Is DEF EdEffect, EdKeepers, Byte
<1>2. ASSUME op \in EdKeepers
      PROVE  KeptF(EdEffect(op, args, s), s)
  <2>1. /\ KeptF(OpOutCR(op, s), s) /\ KeptF(OpLdNnRr(op, args, s), s) /\ KeptF(OpLdRrNnFromMem(op, args, s), s)
        /\ KeptF(RetIff(s), s) /\ KeptF(OpIm(op, s), s) /\ KeptF(OpLdIA(s), s) /\ KeptF(OpLdRA(s), s)
        /\ KeptF(Keeping(8, s), s)
    BY LoadsKeepF, JumpsKeepF, ControlKeepsF, EndsOfF
  <2> QED
    BY <1>2, <2>1, Every8Is DEF EdEffect, EdKeepers, Byte
<1> QED
  BY <1>1, <1>2, LeavesAre DEF EdWay

CbWay(op) == IF op < \h80 THEN "writes" ELSE "keeps"

LEMMA CbLeaves ==
  ASSUME NEW s, SameF(s, s), NEW op \in Byte, NEW p, NEW d
  PROVE  /\ Leaves(CbWay(op), CbEffect(op, s), s)
         /\ Leaves(CbWay(op), IndexCbEffect(p, d, op, s), s)
<1>1. op < \h40 \/ op \in \h40 .. \h7F \/ op >= \h80
  BY FieldsAre
<1>2. /\ WroteF(OpRot(op, s)) /\ WroteF(OpBit(op, s)) /\ KeptF(OpResSet(op, s), s)
      /\ WroteF(OpIndexRot(p, d, op, s)) /\ WroteF(OpIndexBit(p, d, op, s)) /\ KeptF(OpIndexResSet(p, d, op, s), s)
  BY TurnsWriteF, ControlKeepsF, IndexKeepsF
<1>3. CASE op < \h80
  <2>1. WroteF(CbEffect(op, s)) /\ WroteF(IndexCbEffect(p, d, op, s))
    BY <1>1, <1>2, <1>3 DEF CbEffect, IndexCbEffect, Byte
  <2> QED
    BY <1>3, <2>1 DEF Leaves, CbWay
<1>4. CASE ~(op < \h80)
  <2>1. KeptF(CbEffect(op, s), s) /\ KeptF(IndexCbEffect(p, d, op, s), s)
    BY <1>1, <1>2, <1>4 DEF CbEffect, IndexCbEffect, Byte
  <2> QED
    BY <1>4, <2>1 DEF Leaves, CbWay
<1> QED
  BY <1>3, <1>4

IndexWriters ==
  {\h09, \h19, \h29, \h39, \h24, \h25, \h2C, \h2D, \h34, \h35} \cup \h80 .. \hBF

IndexWay(op) == IF op \in IndexWriters THEN "writes" ELSE "keeps"

LEMMA IndexLeaves ==
  ASSUME NEW s, SameF(s, s), NEW op \in IndexTwo \cup IndexOne \cup IndexNone, NEW args, NEW p
  PROVE  Leaves(IndexWay(op), IndexedEffect(p, op, args, s), s)
<1>0. op \in Byte
  BY DEF IndexTwo, IndexOne, IndexNone, Byte
<1>1. ASSUME op \in IndexWriters
      PROVE  WroteF(IndexedEffect(p, op, args, s))
  <2>1. /\ WroteF(OpAddIndexRr(p, op, s)) /\ WroteF(OpIncDecIndexByte(p, op, s))
        /\ WroteF(OpIncDecIndexMem(p, op, args, s)) /\ WroteF(OpAluIndexMem(p, op, args, s))
        /\ WroteF(OpAluIndexByte(p, op, s))
    BY <1>0, WideWritesF, StepsWriteF, AluWritesF
  <2> QED
    BY <1>1, <2>1 DEF IndexedEffect, IndexWriters, IndexTwo, IndexOne, IndexNone, Low, Field
<1>2. ASSUME op \notin IndexWriters
      PROVE  KeptF(IndexedEffect(p, op, args, s), s)
  <2>1. /\ KeptF(OpLdIndexNn(p, args, s), s) /\ KeptF(OpLdNnIndex(p, args, s), s)
        /\ KeptF(OpLdIndexNnFromMem(p, args, s), s) /\ KeptF(OpLdRIndexByte(p, op, s), s)
        /\ KeptF(OpLdIndexByteIndexByte(p, op, s), s) /\ KeptF(OpLdIndexByteR(p, op, s), s)
        /\ KeptF(OpLdIndexByteN(p, op, args, s), s) /\ KeptF(OpIncDecIndex(p, op, s), s)
        /\ KeptF(OpPopIndex(p, s), s) /\ KeptF(OpPushIndex(p, s), s) /\ KeptF(OpExSpIndex(p, s), s)
        /\ KeptF(OpJpIndex(p, s), s) /\ KeptF(OpLdSpIndex(p, s), s)
        /\ KeptF(OpLdRIndexMem(p, op, args, s), s) /\ KeptF(OpLdIndexMemR(p, op, args, s), s)
        /\ KeptF(OpLdIndexMemN(p, args, s), s)
    BY IndexKeepsF
  <2> QED
    BY <1>2, <2>1 DEF IndexedEffect, IndexWriters, IndexTwo, IndexOne, IndexNone, Low, Field
<1> QED
  BY <1>1, <1>2, LeavesAre DEF IndexWay

(* T-states more or less do not matter, nor that a prefix cleared q *)
LEMMA LeavesFurther ==
  ASSUME NEW s, NEW n, NEW t, NEW way \in {"keeps", "writes", "complements", "moves"}
  PROVE  /\ Leaves(way, n, s) => Leaves(way, Delayed(t, n), s)
         /\ SameF(s, s) => SameF([s EXCEPT !.q = {}], [s EXCEPT !.q = {}])
         /\ SameF(s, s) /\ Leaves(way, n, [s EXCEPT !.q = {}]) => Leaves(way, n, s)
<1>1. KeptF(n, s) => KeptF(Delayed(t, n), s)
  BY DEF KeptF, Delayed
<1>2. WroteF(n) => WroteF(Delayed(t, n))
  BY DEF WroteF, Delayed
<1>3. /\ Delayed(t, n).q = n.q /\ Delayed(t, n).f = n.f
      /\ {"f", "q"} \subseteq DOMAIN n => {"f", "q"} \subseteq DOMAIN Delayed(t, n)
  BY DEF Delayed
<1>4. Leaves(way, n, s) => Leaves(way, Delayed(t, n), s)
  BY <1>1, <1>2, <1>3 DEF Leaves
<1>5. SameF(s, s) => SameF([s EXCEPT !.q = {}], [s EXCEPT !.q = {}]) /\ [s EXCEPT !.q = {}].f = s.f
  BY DEF SameF
<1>6. SameF(s, s) /\ KeptF(n, [s EXCEPT !.q = {}]) => KeptF(n, s)
  BY <1>5 DEF KeptF
<1>7. SameF(s, s) /\ Leaves(way, n, [s EXCEPT !.q = {}]) => Leaves(way, n, s)
  BY <1>6 DEF Leaves
<1> QED
  BY <1>4, <1>5, <1>7

MovesAF == opened \in {"main", "index"} /\ Opcode \in {\hF1, \h08}

(* The handler found does one thing with the flags, whatever the machine; *)
(* POP AF and EX AF,AF' alone move them                                    *)
LEMMA EffectLeaves ==
  ASSUME code \in Seq(Byte), Found, left = 0
  PROVE  \E way \in {"keeps", "writes", "complements", "moves"} :
           /\ way = "moves" <=> MovesAF
           /\ \A s : SameF(s, s) => Leaves(way, Effect(s), s)
<1> DEFINE n  == handler.operands
           op == code[Len(code) - n]
           Ways == {"keeps", "writes", "complements", "moves"}
<1>1. /\ opened \in Pages /\ handler \in RulesOf(opened) /\ n \in 0 .. 2
      /\ Len(code) \in Nat /\ Len(code) > n /\ op \in handler.ops
      /\ opened = "index_cb" => n = 0 /\ Len(code) >= 2
  BY DEF Found
<1>2. Opcode = op
  BY <1>1 DEF Opcode, Last
<1> HIDE DEF op, n
<1>3. /\ MainWay(op) \in Ways /\ EdWay(op) \in Ways \ {"moves"} /\ CbWay(op) \in Ways \ {"moves"}
      /\ IndexWay(op) \in Ways \ {"moves"}
  BY WaysAre DEF EdWay, CbWay, IndexWay
<1>4. MainWay(op) = "moves" <=> op \in {\hF1, \h08}
  BY WaysAre
<1> HIDE DEF Ways
<1>5. CASE opened = "main"
  <2>1. handler \in MainRules
    BY <1>1, <1>5 DEF RulesOf
  <2>2. PlainRule(handler, op)
    BY <1>1, <2>1, MainSays
  <2>3. ASSUME NEW s, SameF(s, s)
        PROVE  Leaves(MainWay(op), Effect(s), s)
    <3>1. Leaves(MainWay(op), MainEffect(op, Args, s), s)
      BY <2>2, <2>3, MainLeaves DEF PlainRule
    <3>2. Leaves(MainWay(op), Delayed(stray, MainEffect(op, Args, s)), s)
      BY <1>3, <3>1, LeavesFurther DEF Ways
    <3> QED
      BY <1>2, <1>5, <3>2 DEF Effect
  <2>4. MovesAF <=> MainWay(op) = "moves"
    BY <1>2, <1>4, <1>5 DEF MovesAF
  <2> QED
    BY <1>3, <2>3, <2>4 DEF Ways
<1>6. CASE opened = "cb"
  <2>1. handler \in CbRules
    BY <1>1, <1>6 DEF RulesOf
  <2>2. op \in Byte
    BY <1>1, <2>1, CbSays
  <2>3. ASSUME NEW s, SameF(s, s)
        PROVE  Leaves(CbWay(op), Effect(s), s)
    <3>1. Leaves(CbWay(op), CbEffect(op, s), s)
      BY <2>2, <2>3, CbLeaves
    <3>2. Leaves(CbWay(op), Delayed(stray, CbEffect(op, s)), s)
      BY <1>3, <3>1, LeavesFurther DEF Ways
    <3> QED
      BY <1>2, <1>6, <3>2 DEF Effect
  <2>4. ~MovesAF
    BY <1>6 DEF MovesAF
  <2> QED
    BY <1>3, <2>3, <2>4 DEF Ways
<1>7. CASE opened = "ed"
  <2>1. handler \in EdRules
    BY <1>1, <1>7 DEF RulesOf
  <2>2. op \in Byte
    BY <1>1, <2>1, EdSays
  <2>3. ASSUME NEW s, SameF(s, s)
        PROVE  Leaves(EdWay(op), Effect(s), s)
    <3>1. Leaves(EdWay(op), EdEffect(op, Args, s), s)
      BY <2>2, <2>3, EdLeaves
    <3>2. Leaves(EdWay(op), Delayed(stray, EdEffect(op, Args, s)), s)
      BY <1>3, <3>1, LeavesFurther DEF Ways
    <3> QED
      BY <1>2, <1>7, <3>2 DEF Effect
  <2>4. ~MovesAF
    BY <1>7 DEF MovesAF
  <2> QED
    BY <1>3, <2>3, <2>4 DEF Ways
<1>8. CASE opened = "index_cb"
  <2>1. handler \in IndexCbRules
    BY <1>1, <1>8 DEF RulesOf
  <2>2. op \in Byte
    BY <1>1, <2>1, CbSays
  <2>3. ASSUME NEW s, SameF(s, s)
        PROVE  Leaves(CbWay(op), Effect(s), s)
    <3> DEFINE u == [s EXCEPT !.q = {}]
               d == code[Len(code) - 1]
    <3>1. SameF(u, u)
      BY <1>3, <2>3, LeavesFurther DEF Ways
    <3>2. Leaves(CbWay(op), IndexCbEffect(prefix, d, op, u), u)
      BY <2>2, <3>1, CbLeaves
    <3>3. Leaves(CbWay(op), IndexCbEffect(prefix, d, op, u), s)
      BY <1>3, <2>3, <3>2, LeavesFurther DEF Ways
    <3>4. Leaves(CbWay(op), Delayed(stray, IndexCbEffect(prefix, d, op, u)), s)
      BY <1>3, <3>3, LeavesFurther DEF Ways
    <3> QED
      BY <1>2, <1>8, <3>4 DEF Effect, IndexCbPage
  <2>4. ~MovesAF
    BY <1>8 DEF MovesAF
  <2> QED
    BY <1>3, <2>3, <2>4 DEF Ways
<1>9. CASE opened = "index"
  <2>1. handler \in IndexRules
    BY <1>1, <1>9 DEF RulesOf
  <2>2. PlainRule(handler, op) \/ IndexRule(handler, op)
    BY <1>1, <2>1, IndexSays
  <2>3. ASSUME NEW s, SameF(s, s), NEW way \in Ways, NEW e, Leaves(way, e, [s EXCEPT !.q = {}]),
               Effect(s) = Delayed(stray, e) \/ Effect(s) = Delayed(stray, Delayed(4, e))
        PROVE  Leaves(way, Effect(s), s)
    <3>1. Leaves(way, e, s)
      BY <2>3, LeavesFurther DEF Ways
    <3>2. Leaves(way, Delayed(4, e), s) /\ Leaves(way, Delayed(stray, e), s)
      BY <3>1, LeavesFurther DEF Ways
    <3>3. Leaves(way, Delayed(stray, Delayed(4, e)), s)
      BY <3>2, LeavesFurther DEF Ways
    <3> QED
      BY <2>3, <3>2, <3>3
  <2>4. CASE PlainRule(handler, op)
    <3>1. handler.index = FALSE /\ op \in Byte \ {\hCB, \hDD, \hED, \hFD}
      BY <2>4 DEF PlainRule
    <3>2. ASSUME NEW s, SameF(s, s)
          PROVE  Leaves(MainWay(op), Effect(s), s)
      <4> DEFINE u == [s EXCEPT !.q = {}]
      <4>1. SameF(u, u)
        BY <1>3, <3>2, LeavesFurther DEF Ways
      <4>2. Leaves(MainWay(op), MainEffect(op, Args, u), u)
        BY <3>1, <4>1, MainLeaves
      <4>3. Effect(s) = Delayed(stray, Delayed(4, MainEffect(op, Args, u)))
        BY <1>2, <1>9, <3>1 DEF Effect, IndexPage
      <4> QED
        BY <1>3, <2>3, <3>2, <4>2, <4>3
    <3>3. MovesAF <=> MainWay(op) = "moves"
      BY <1>2, <1>4, <1>9 DEF MovesAF
    <3> QED
      BY <1>3, <3>2, <3>3 DEF Ways
  <2>5. CASE IndexRule(handler, op)
    <3>1. handler.index = TRUE /\ op \in IndexTwo \cup IndexOne \cup IndexNone
      BY <2>5 DEF IndexRule
    <3>2. ASSUME NEW s, SameF(s, s)
          PROVE  Leaves(IndexWay(op), Effect(s), s)
      <4> DEFINE u == [s EXCEPT !.q = {}]
      <4>1. SameF(u, u)
        BY <1>3, <3>2, LeavesFurther DEF Ways
      <4>2. Leaves(IndexWay(op), IndexedEffect(prefix, op, Args, u), u)
        BY <3>1, <4>1, IndexLeaves
      <4>3. Effect(s) = Delayed(stray, IndexedEffect(prefix, op, Args, u))
        BY <1>2, <1>9, <3>1 DEF Effect, IndexPage
      <4> QED
        BY <1>3, <2>3, <3>2, <4>2, <4>3
    <3>3. ~MovesAF
      BY <1>2, <3>1 DEF MovesAF, IndexTwo, IndexOne, IndexNone
    <3> QED
      BY <1>3, <3>2, <3>3 DEF Ways
  <2> QED
    BY <2>2, <2>4, <2>5
<1> QED
  BY <1>1, <1>5, <1>6, <1>7, <1>8, <1>9 DEF Pages

(* Strengthening: the machine behind the instruction is what its handler *)
(* made of the one in front                                              *)
EffectInv == Done => after = Effect(Ready)

LEMMA EffectHolds == ExecutionSpec => []EffectInv
<1>1. ExecutionInit => EffectInv
  BY DEF ExecutionInit, DecodingInit, EffectInv, Done
<1>2. EffectInv /\ [ExecutionNext]_evars => EffectInv'
  <2>1. SUFFICES ASSUME EffectInv, [ExecutionNext]_evars
                 PROVE  EffectInv'
    OBVIOUS
  <2>2. CASE UNCHANGED evars
    BY <2>1, <2>2 DEF EffectInv, Done, evars, cvars, Effect, IndexPage, IndexCbPage, Opcode, Args, Ready
  <2>3. CASE DecodeByte
    <3>1. page' # "done"
      BY <2>3 DEF DecodeByte, Decode, FetchMain, FetchPage, FetchIndex, ReadIndexCb, ReadOperand, Run, Into
    <3> QED
      BY <3>1 DEF EffectInv, Done
  <2>4. CASE Execute
    <3>1. (Effect(Ready))' = Effect(Behind(code, m1, cpu))
      BY <2>4 DEF Execute, Finish, Effect, IndexPage, IndexCbPage, Opcode, Args, Ready
    <3> QED
      BY <2>4, <3>1 DEF Execute, EffectInv
  <2> QED
    BY <2>1, <2>2, <2>3, <2>4 DEF ExecutionNext
<1> QED
  BY <1>1, <1>2, PTL DEF ExecutionSpec

(* The machine whose handler is about to run has F as the instruction      *)
(* before left it                                                          *)
LEMMA ReadyHasF ==
  ASSUME ReadingInv
  PROVE  /\ SameF(Ready, Ready) /\ Ready.f = cpu.f
         /\ \A fl : SameF([Ready EXCEPT !.f = fl], [Ready EXCEPT !.f = fl]) /\ [Ready EXCEPT !.f = fl].f = fl
<1>1. {"f", "q"} \subseteq DOMAIN cpu
  BY MachinesAssumption DEF ReadingInv
<1>2. {"f", "q"} \subseteq DOMAIN Ready /\ Ready.f = cpu.f
  BY <1>1 DEF Ready, Behind
<1> QED
  BY <1>2 DEF SameF

(* q is F behind an instruction that computes flags and empty behind any   *)
(* other, whatever the machine: no handler forgets to set it, and none     *)
(* leaves it from the instruction before, which SCF and CCF would see.     *)
(* The proof goes by what a handler does with F for every F it may find:   *)
(* what computes flags leaves neither all of them on nor, CPL, all off, so *)
(* it is told from what passes F on.                                       *)
THEOREM FlagsLeaveQ == ExecutionSpec => []QTellsWhoWroteF
<1>1. ReadingInv /\ EffectInv => QTellsWhoWroteF
  <2>1. SUFFICES ASSUME ReadingInv, EffectInv, Done
                 PROVE  QTellsWhoWroteF
    BY DEF QTellsWhoWroteF
  <2>2. code \in Seq(Byte) /\ Found /\ left = 0 /\ after = Effect(Ready)
    BY <2>1 DEF ReadingInv, EffectInv, Done
  <2>3. PICK way \in {"keeps", "writes", "complements", "moves"} :
          /\ way = "moves" <=> MovesAF
          /\ \A s : SameF(s, s) => Leaves(way, Effect(s), s)
    BY <2>2, EffectLeaves
  <2>4. Leaves(way, after, Ready) /\ Ready.f = cpu.f
    BY <2>1, <2>2, <2>3, ReadyHasF
  <2> DEFINE passes == \A fl \in {{}, DOMAIN FlagNames} : Effect([Ready EXCEPT !.f = fl]).f = fl
  <2>5. ASSUME NEW fl
        PROVE  Leaves(way, Effect([Ready EXCEPT !.f = fl]), [Ready EXCEPT !.f = fl]) /\ [Ready EXCEPT !.f = fl].f = fl
    BY <2>1, <2>3, ReadyHasF
  <2>6. QTellsWhoWroteF <=> /\ MovesAF \/ passes => after.q = {}
                            /\ ~MovesAF /\ ~passes => after.q = after.f
                            /\ ~MovesAF /\ passes => after.f = cpu.f
    BY <2>1 DEF QTellsWhoWroteF, MovesAF
  <2>7. CASE way = "keeps"
    <3>1. passes
      BY <2>5, <2>7, LeavesAre DEF KeptF
    <3>2. after.q = {} /\ after.f = cpu.f
      BY <2>4, <2>7, LeavesAre DEF KeptF
    <3> QED
      BY <2>6, <3>1, <3>2
  <2>8. CASE way = "writes"
    <3>1. \A fl : Partial(Effect([Ready EXCEPT !.f = fl]).f)
      BY <2>5, <2>8, LeavesAre DEF WroteF
    <3>2. ~Partial(DOMAIN FlagNames)
      BY DEF Partial, FlagNames
    <3>3. ~passes
      BY <3>1, <3>2
    <3>4. after.q = after.f /\ ~MovesAF
      BY <2>3, <2>4, <2>8, LeavesAre DEF WroteF
    <3> QED
      BY <2>6, <3>3, <3>4
  <2>9. CASE way = "complements"
    <3>1. "N" \in Effect([Ready EXCEPT !.f = {}]).f
      BY <2>5, <2>9, LeavesAre
    <3>2. ~passes
      BY <3>1
    <3>3. after.q = after.f /\ ~MovesAF
      BY <2>3, <2>4, <2>9, LeavesAre
    <3> QED
      BY <2>6, <3>2, <3>3
  <2>10. CASE way = "moves"
    <3>1. after.q = {} /\ MovesAF
      BY <2>3, <2>4, <2>10, LeavesAre
    <3> QED
      BY <2>6, <3>1
  <2> QED
    BY <2>7, <2>8, <2>9, <2>10
<1> QED
  BY <1>1, ReadingHolds, EffectHolds, PTL

Fields == {"reg", "alt", "ix", "iy", "sp", "pc", "wz", "i", "r", "mem", "bus", "f", "altf", "q", "t",
           "iff1", "iff2", "im", "halted", "delay", "cmos"}

IsRecord(s) == Fields \subseteq DOMAIN s /\ s = [x \in DOMAIN s |-> s[x]]

Twins(p, n, m, d) ==
  /\ IsRecord(n) /\ IsRecord(m) /\ DOMAIN n = DOMAIN m
  /\ \A x \in DOMAIN m \ {"reg", "ix", "iy", "t"} : n[x] = m[x]
  /\ n.t \in Int /\ m.t = n.t + d
  /\ DOMAIN n.reg = RegisterIndex /\ DOMAIN m.reg = RegisterIndex
  /\ \A k \in RegisterIndex \ {4, 5} : n.reg[k] = m.reg[k]
  /\ n.reg[4] = Hi(GetIndex(p, m)) /\ n.reg[5] = Lo(GetIndex(p, m))
  /\ GetIndex(p, n) = HL(m)
  /\ IF p = \hDD THEN n.iy = m.iy ELSE n.ix = m.ix

LEMMA TwinSays ==
  ASSUME NEW p, NEW n, NEW m, NEW d, Twins(p, n, m, d)
  PROVE  /\ n.alt = m.alt /\ n.sp = m.sp /\ n.pc = m.pc /\ n.wz = m.wz /\ n.i = m.i /\ n.r = m.r
         /\ n.mem = m.mem /\ n.bus = m.bus /\ n.f = m.f /\ n.altf = m.altf /\ n.q = m.q
         /\ n.iff1 = m.iff1 /\ n.iff2 = m.iff2 /\ n.cmos = m.cmos
BY DEF Twins, IsRecord, Fields

Shared == Fields \ {"reg", "ix", "iy", "t"}

LEMMA RecordKept ==
  ASSUME NEW n, IsRecord(n), NEW x, NEW v
  PROVE  IsRecord([n EXCEPT ![x] = v])
BY DEF IsRecord

LEMMA TwinField ==
  ASSUME NEW p, NEW n, NEW m, NEW d, Twins(p, n, m, d), NEW x \in Shared, NEW v
  PROVE  Twins(p, [n EXCEPT ![x] = v], [m EXCEPT ![x] = v], d)
<1> DEFINE n_ == [n EXCEPT ![x] = v]
           m_ == [m EXCEPT ![x] = v]
<1>1. DOMAIN n_ = DOMAIN n /\ DOMAIN m_ = DOMAIN m
  OBVIOUS
<1>a. IsRecord(n_) /\ IsRecord(m_)
  BY RecordKept DEF Twins
<1>2. \A y \in DOMAIN m \ {"reg", "ix", "iy", "t"} : n_[y] = m_[y]
  BY DEF Twins, IsRecord, Shared
<1>3. n_.t = n.t /\ n_.reg = n.reg /\ n_.ix = n.ix /\ n_.iy = n.iy
  BY DEF Twins, IsRecord, Shared, Fields
<1>4. m_.t = m.t /\ m_.reg = m.reg /\ m_.ix = m.ix /\ m_.iy = m.iy
  BY DEF Twins, IsRecord, Shared, Fields
<1> QED
  BY <1>1, <1>a, <1>2, <1>3, <1>4 DEF Twins, GetIndex, HL

(* A register that is not a half of HL *)
LEMMA TwinRegister ==
  ASSUME NEW p, NEW n, NEW m, NEW d, Twins(p, n, m, d), NEW k \in RegisterIndex \ {4, 5}, NEW v
  PROVE  Twins(p, [n EXCEPT !.reg[k] = v], [m EXCEPT !.reg[k] = v], d)
<1> DEFINE n_ == [n EXCEPT !.reg[k] = v]
           m_ == [m EXCEPT !.reg[k] = v]
<1>1. IsRecord(n_) /\ IsRecord(m_) /\ DOMAIN n_ = DOMAIN m_
  BY DEF Twins, IsRecord
<1>2. \A y \in DOMAIN m \ {"reg", "ix", "iy", "t"} : n_[y] = m_[y]
  BY DEF Twins, IsRecord
<1>3. n_.t = n.t /\ n_.ix = n.ix /\ n_.iy = n.iy /\ m_.t = m.t /\ m_.ix = m.ix /\ m_.iy = m.iy
  BY DEF Twins, IsRecord, Fields
<1>4. n_.reg = [n.reg EXCEPT ![k] = v] /\ m_.reg = [m.reg EXCEPT ![k] = v]
  BY DEF Twins, IsRecord, Fields
<1>5. /\ DOMAIN n_.reg = RegisterIndex /\ DOMAIN m_.reg = RegisterIndex
      /\ n_.reg[4] = n.reg[4] /\ n_.reg[5] = n.reg[5] /\ m_.reg[4] = m.reg[4] /\ m_.reg[5] = m.reg[5]
      /\ \A j \in RegisterIndex \ {4, 5} : n_.reg[j] = m_.reg[j]
  BY <1>4 DEF Twins, RegisterIndex
<1> QED
  BY <1>1, <1>2, <1>3, <1>5 DEF Twins, GetIndex, HL

(* The time, by which the two may differ *)
LEMMA TwinTime ==
  ASSUME NEW p, NEW n, NEW m, NEW d \in Int, Twins(p, n, m, d), NEW a \in Int, NEW b \in Int
  PROVE  Twins(p, [n EXCEPT !.t = @ + a], [m EXCEPT !.t = @ + b], d + b - a)
<1> DEFINE n_ == [n EXCEPT !.t = @ + a]
           m_ == [m EXCEPT !.t = @ + b]
<1>1. IsRecord(n_) /\ IsRecord(m_) /\ DOMAIN n_ = DOMAIN m_
  BY DEF Twins, IsRecord
<1>2. \A y \in DOMAIN m \ {"reg", "ix", "iy", "t"} : n_[y] = m_[y]
  BY DEF Twins, IsRecord
<1>3. n_.reg = n.reg /\ n_.ix = n.ix /\ n_.iy = n.iy /\ m_.reg = m.reg /\ m_.ix = m.ix /\ m_.iy = m.iy
  BY DEF Twins, IsRecord, Fields
<1>4. n_.t = n.t + a /\ m_.t = m.t + b /\ n.t \in Int /\ m.t = n.t + d
  BY DEF Twins, IsRecord, Fields
<1>5. n_.t \in Int /\ m_.t = n_.t + (d + b - a)
  BY <1>4
<1> QED
  BY <1>1, <1>2, <1>3, <1>5 DEF Twins, GetIndex, HL

(* What goes into HL goes into the index register *)
LEMMA IntoHl ==
  ASSUME NEW v, NEW n
  PROVE  WritePair(2, v, n) = [[n EXCEPT !.reg[4] = Hi(Wrap16(v))] EXCEPT !.reg[5] = Lo(Wrap16(v))]
<1> DEFINE w == Wrap16(v)
<1>1. WritePair(2, v, n) = [n EXCEPT !.reg[2 * 2] = Hi(w), !.reg[2 * 2 + 1] = Lo(w)]
  <2>1. 2 # 3
    OBVIOUS
  <2> QED
    BY <2>1, Zenon DEF WritePair
<1> HIDE DEF w
<1>2. 2 * 2 = 4 /\ 2 * 2 + 1 = 5
  OBVIOUS
<1>3. [n EXCEPT !.reg[2 * 2] = Hi(w), !.reg[2 * 2 + 1] = Lo(w)] = [n EXCEPT !.reg[4] = Hi(w), !.reg[5] = Lo(w)]
  BY <1>2, Zenon
<1>4. [n EXCEPT !.reg[4] = Hi(w), !.reg[5] = Lo(w)] = [[n EXCEPT !.reg[4] = Hi(w)] EXCEPT !.reg[5] = Lo(w)]
  OBVIOUS
<1> QED
  BY <1>1, <1>3, <1>4 DEF w

LEMMA TwinIndex ==
  ASSUME NEW p, NEW n, NEW m, NEW d, Twins(p, n, m, d), NEW v
  PROVE  Twins(p, WritePair(2, v, n), SetIndex(p, v, m), d)
<1> DEFINE w == Wrap16(v)
           h_ == [n EXCEPT !.reg[4] = Hi(w)]
           n_ == [h_ EXCEPT !.reg[5] = Lo(w)]
           m_ == SetIndex(p, v, m)
<1>0. WritePair(2, v, n) = n_
  BY IntoHl
<1>1. IsRecord(n_) /\ DOMAIN n_ = DOMAIN n
  <2>1. IsRecord(h_) /\ DOMAIN h_ = DOMAIN n
    BY DEF Twins, IsRecord
  <2> HIDE DEF h_
  <2> QED
    BY <2>1 DEF IsRecord
<1>2. IsRecord(m_) /\ DOMAIN m_ = DOMAIN m
  BY DEF Twins, IsRecord, SetIndex
<1>3. ASSUME NEW y \in DOMAIN m \ {"reg", "ix", "iy", "t"}
      PROVE  n_[y] = m_[y]
  <2>1. n_[y] = n[y]
    BY <1>3 DEF Twins
  <2>2. m_[y] = m[y]
    BY <1>3 DEF Twins, SetIndex
  <2> QED
    BY <1>3, <2>1, <2>2 DEF Twins
<1>4. n_.t = n.t /\ n_.ix = n.ix /\ n_.iy = n.iy
  BY DEF Twins, IsRecord, Fields
<1>5. /\ m_.t = m.t /\ m_.reg = m.reg
      /\ IF p = \hDD THEN m_.ix = w /\ m_.iy = m.iy ELSE m_.ix = m.ix /\ m_.iy = w
  BY DEF Twins, IsRecord, Fields, SetIndex
<1>6. n_.reg = [[n.reg EXCEPT ![4] = Hi(w)] EXCEPT ![5] = Lo(w)]
  BY DEF Twins, IsRecord, Fields
<1>7. /\ DOMAIN n_.reg = RegisterIndex /\ n_.reg[4] = Hi(w) /\ n_.reg[5] = Lo(w)
      /\ \A j \in RegisterIndex \ {4, 5} : n_.reg[j] = n.reg[j]
  BY <1>6 DEF Twins, RegisterIndex
<1> HIDE DEF n_, m_, h_, w
<1>8. GetIndex(p, m_) = w
  BY <1>5 DEF GetIndex
<1>9. GetIndex(p, n_) = GetIndex(p, n) /\ HL(m_) = HL(m)
  BY <1>4, <1>5 DEF GetIndex, HL
<1>10. IF p = \hDD THEN n_.iy = m_.iy ELSE n_.ix = m_.ix
  BY <1>4, <1>5 DEF Twins
<1>11. /\ IsRecord(n_) /\ IsRecord(m_) /\ DOMAIN n_ = DOMAIN m_ 
       /\ \A y \in DOMAIN m_ \ {"reg", "ix", "iy", "t"} : n_[y] = m_[y]
  BY <1>1, <1>2, <1>3 DEF Twins
<1>12. n_.t \in Int /\ m_.t = n_.t + d
  BY <1>4, <1>5 DEF Twins
<1>13. /\ DOMAIN m_.reg = RegisterIndex
       /\ \A j \in RegisterIndex \ {4, 5} : n_.reg[j] = m_.reg[j]
  BY <1>5, <1>7 DEF Twins
<1>14. GetIndex(p, n_) = HL(m_) /\ n_.reg[4] = Hi(GetIndex(p, m_)) /\ n_.reg[5] = Lo(GetIndex(p, m_))
  BY <1>7, <1>8, <1>9 DEF Twins
<1>15. Twins(p, n_, m_, d)
  BY <1>7, <1>10, <1>11, <1>12, <1>13, <1>14 DEF Twins
<1> QED
  BY <1>0, <1>15 DEF m_

LEMMA JoinsBack ==
  ASSUME NEW high \in Bytes, NEW low \in Bytes
  PROVE  /\ Word(high, low) \in Words /\ Wrap16(Word(high, low)) = Word(high, low)
         /\ Hi(Word(high, low)) = high /\ Lo(Word(high, low)) = low
<1>1. high \in Int /\ high >= 0 /\ high <= 255 /\ low \in Int /\ low >= 0 /\ low <= 255
  BY DEF Bytes
<1>2. /\ ((256 * high) + low) \div 256 = high /\ ((256 * high) + low) % 256 = low
      /\ ((256 * high) + low) % 65536 = (256 * high) + low
  BY <1>1
<1> QED
  BY <1>2, Joins DEF Word, Hi, Lo, Wrap16

LEMMA HalvesBack ==
  ASSUME NEW w \in Words
  PROVE  Word(Hi(w), Lo(w)) = w
<1>1. w \in Int /\ w >= 0 /\ w <= 65535
  BY WordsAre
<1>2. (256 * (w \div 256)) + (w % 256) = w
  BY <1>1
<1> QED
  BY <1>2 DEF Word, Hi, Lo

(* A register written back as it was *)
SetReg(k, b, n) == [n EXCEPT !.reg[k] = b]

LEMMA WrittenAsItWas ==
  ASSUME NEW n, IsRecord(n), DOMAIN n.reg = RegisterIndex, n.reg = [k \in RegisterIndex |-> n.reg[k]],
         NEW i \in RegisterIndex, NEW j \in RegisterIndex, i # j, NEW b
  PROVE  SetReg(j, n.reg[j], SetReg(i, b, n)) = SetReg(i, b, n)
<1>0. PICK h : h = [n EXCEPT !.reg[i] = b]
  OBVIOUS
<1>1. h.reg = [n.reg EXCEPT ![i] = b] /\ IsRecord(h) /\ DOMAIN h = DOMAIN n
  BY <1>0 DEF IsRecord, Fields
<1>2. [h.reg EXCEPT ![j] = n.reg[j]] = h.reg
  BY <1>1
<1>3. [h EXCEPT !.reg = h.reg] = h
  BY <1>1 DEF IsRecord, Fields
<1>4. [h EXCEPT !.reg[j] = n.reg[j]] = h
  BY <1>2, <1>3, Zenon
<1>5. SetReg(i, b, n) = h
  BY <1>0 DEF SetReg
<1>6. SetReg(j, n.reg[j], h) = h
  BY <1>4 DEF SetReg
<1> QED
  BY <1>5, <1>6

LEMMA SetAsItWas ==
  ASSUME NEW n, IsRecord(n), DOMAIN n.reg = RegisterIndex, n.reg = [k \in RegisterIndex |-> n.reg[k]],
         NEW i \in RegisterIndex
  PROVE  SetReg(i, n.reg[i], n) = n
<1>1. [n.reg EXCEPT ![i] = n.reg[i]] = n.reg
  OBVIOUS
<1>2. [n EXCEPT !.reg = n.reg] = n
  BY DEF IsRecord, Fields
<1>3. [n EXCEPT !.reg[i] = n.reg[i]] = n
  BY <1>1, <1>2, Zenon
<1> QED
  BY <1>3 DEF SetReg

LEMMA HalvesInto ==
  ASSUME NEW w, NEW n
  PROVE  WritePair(2, w, n) = SetReg(5, Lo(Wrap16(w)), SetReg(4, Hi(Wrap16(w)), n))
BY IntoHl DEF SetReg

(* A half of HL, where the index register is a word *)
LEMMA TwinHalf ==
  ASSUME NEW p, NEW n, NEW m, NEW d, Twins(p, n, m, d), GetIndex(p, m) \in Words,
         n.reg = [k \in RegisterIndex |-> n.reg[k]], NEW k \in {4, 5}, NEW v \in Int
  PROVE  Twins(p, WriteReg(k, v, n), SetIndexByte(p, k, v, m), d)
<1>1. PICK index : index = GetIndex(p, m)
  OBVIOUS
<1>2. PICK b : b = v % 256
  OBVIOUS
<1>3. b \in Bytes /\ Hi(index) \in Bytes /\ Lo(index) \in Bytes
  BY <1>1, <1>2, Halves DEF Bytes
<1>4. /\ n.reg[4] = Hi(index) /\ n.reg[5] = Lo(index)
      /\ 4 \in RegisterIndex /\ 5 \in RegisterIndex /\ IsRecord(n) /\ DOMAIN n.reg = RegisterIndex
  BY <1>1 DEF Twins, RegisterIndex
<1>5. CASE k = 4
  <2>1. PICK w : w = Word(b, Lo(index))
    OBVIOUS
  <2>2. Wrap16(w) = w /\ Hi(w) = b /\ Lo(w) = Lo(index)
    <3>1. LET x == Word(b, Lo(index)) IN Wrap16(x) = x /\ Hi(x) = b /\ Lo(x) = Lo(index)
      BY <1>3, JoinsBack
    <3> QED
      BY <2>1, <3>1
  <2>3. WritePair(2, w, n) = SetReg(5, n.reg[5], SetReg(4, b, n))
    BY <1>4, <2>2, HalvesInto
  <2>4. WritePair(2, w, n) = SetReg(4, b, n)
    BY <1>4, <2>3, 4 # 5, WrittenAsItWas
  <2>5. WriteReg(4, v, n) = SetReg(4, b, n) /\ SetIndexByte(p, 4, v, m) = SetIndex(p, w, m)
    BY <1>1, <1>2, <2>1 DEF WriteReg, SetIndexByte, SetReg
  <2>6. Twins(p, WritePair(2, w, n), SetIndex(p, w, m), d)
    BY TwinIndex
  <2> QED
    BY <1>5, <2>4, <2>5, <2>6
<1>6. CASE k = 5
  <2>1. PICK w : w = Word(Hi(index), b)
    OBVIOUS
  <2>2. Wrap16(w) = w /\ Hi(w) = Hi(index) /\ Lo(w) = b
    <3>1. LET x == Word(Hi(index), b) IN Wrap16(x) = x /\ Hi(x) = Hi(index) /\ Lo(x) = b
      BY <1>3, JoinsBack
    <3> QED
      BY <2>1, <3>1
  <2>3. WritePair(2, w, n) = SetReg(5, b, SetReg(4, n.reg[4], n))
    BY <1>4, <2>2, HalvesInto
  <2>4. WritePair(2, w, n) = SetReg(5, b, n)
    BY <1>4, <2>3, SetAsItWas
  <2>5. WriteReg(5, v, n) = SetReg(5, b, n) /\ SetIndexByte(p, 5, v, m) = SetIndex(p, w, m)
    BY <1>1, <1>2, <2>1 DEF WriteReg, SetIndexByte, SetReg
  <2>6. Twins(p, WritePair(2, w, n), SetIndex(p, w, m), d)
    BY TwinIndex
  <2> QED
    BY <1>6, <2>4, <2>5, <2>6
<1> QED
  BY <1>5, <1>6

(* What the two have in common, and what one has in the other's place *)
LEMMA TwinValues ==
  ASSUME NEW p, NEW n, NEW m, NEW d, Twins(p, n, m, d), NEW a
  PROVE  /\ RegA(n) = RegA(m) /\ BC(n) = BC(m) /\ DE(n) = DE(m)
         /\ At(a, n) = At(a, m) /\ WordAt(a, n) = WordAt(a, m)
         /\ Latched(a, n) = Latched(a, m) /\ Holds(a, n) = Holds(a, m) /\ AF(n) = AF(m)
         /\ a \in {0, 1, 3} => ReadPair(a, n) = ReadPair(a, m)
         /\ IndexByte(p, 4, m) = n.reg[4] /\ IndexByte(p, 5, m) = n.reg[5]
         /\ GetIndex(p, m) \in Words => HL(n) = GetIndex(p, m) /\ ReadPair(2, n) = GetIndex(p, m)
<1>1. {0, 1, 2, 3, 7} = RegisterIndex \ {4, 5}
  BY DEF RegisterIndex
<1>2. \A k \in {0, 1, 2, 3, 7} : n.reg[k] = m.reg[k]
  BY <1>1 DEF Twins
<1>3. RegA(n) = RegA(m) /\ BC(n) = BC(m) /\ DE(n) = DE(m)
  BY <1>2 DEF RegA, BC, DE
<1>4. \A b : At(b, n) = At(b, m)
  BY TwinSays DEF At
<1>5. WordAt(a, n) = WordAt(a, m)
  BY <1>4 DEF WordAt
<1>6. n.f = m.f
  BY TwinSays
<1>a. Latched(a, n) = Latched(a, m)
  BY <1>3, Zenon DEF Latched
<1>b. Holds(a, n) = Holds(a, m)
  BY <1>6, Zenon DEF Holds
<1>c. AF(n) = AF(m)
  BY <1>3, <1>6, Zenon DEF AF
<1>7. a \in {0, 1, 3} => ReadPair(a, n) = ReadPair(a, m)
  BY <1>2, TwinSays DEF ReadPair
<1>8. IndexByte(p, 4, m) = n.reg[4] /\ IndexByte(p, 5, m) = n.reg[5]
  BY DEF Twins, IndexByte
<1>9. ASSUME GetIndex(p, m) \in Words
      PROVE  HL(n) = GetIndex(p, m) /\ ReadPair(2, n) = GetIndex(p, m)
  <2>1. Word(Hi(GetIndex(p, m)), Lo(GetIndex(p, m))) = GetIndex(p, m)
    BY <1>9, HalvesBack
  <2>2. n.reg[4] = Hi(GetIndex(p, m)) /\ n.reg[5] = Lo(GetIndex(p, m))
    BY DEF Twins
  <2>3. HL(n) = GetIndex(p, m)
    BY <2>1, <2>2 DEF HL
  <2>4. ReadPair(2, n) = HL(n)
    BY DEF ReadPair, HL
  <2> QED
    BY <2>3, <2>4
<1> QED
  BY <1>3, <1>4, <1>5, <1>a, <1>b, <1>c, <1>7, <1>8, <1>9
(* One field, by name *)
Put(x, v, n) == [n EXCEPT ![x] = v]

LEMMA TwinPut ==
  ASSUME NEW p, NEW n, NEW m, NEW d, Twins(p, n, m, d), NEW x \in Shared, NEW v
  PROVE  Twins(p, Put(x, v, n), Put(x, v, m), d)
BY TwinField DEF Put

LEMMA SharedAre ==
  {"alt", "sp", "pc", "wz", "i", "r", "mem", "bus", "f", "altf", "q", "iff1", "iff2", "im", "halted",
   "delay"} \subseteq Shared
BY DEF Shared, Fields

(* The accesses *)
LEMMA TwinAccesses ==
  ASSUME NEW p, NEW n, NEW m, NEW d, Twins(p, n, m, d), NEW a, NEW v
  PROVE  /\ Twins(p, Read(a, n), Read(a, m), d) /\ Twins(p, Write(a, v, n), Write(a, v, m), d)
         /\ Twins(p, In(a, n), In(a, m), d) /\ Twins(p, Out(a, v, n), Out(a, v, m), d)
<1>1. n.bus = m.bus /\ n.mem = m.mem /\ At(a, n) = At(a, m) /\ IsRecord(n) /\ IsRecord(m)
  BY TwinSays, TwinValues DEF Twins
<1>2. ASSUME NEW w
      PROVE  Twins(p, Put("bus", w, n), Put("bus", w, m), d)
  BY TwinPut, SharedAre
<1>3. Twins(p, Read(a, n), Read(a, m), d)
  <2>1. PICK w : w = Append(n.bus, <<"read", a, At(a, n)>>)
    OBVIOUS
  <2>2. Read(a, n) = Put("bus", w, n) /\ Read(a, m) = Put("bus", w, m)
    BY <1>1, <2>1 DEF Read, Put
  <2> QED
    BY <1>2, <2>2
<1>4. Twins(p, In(a, n), In(a, m), d)
  <2>1. PICK w : w = Append(n.bus, <<"in", a, PortByte(a)>>)
    OBVIOUS
  <2>2. In(a, n) = Put("bus", w, n) /\ In(a, m) = Put("bus", w, m)
    BY <1>1, <2>1 DEF In, Put
  <2> QED
    BY <1>2, <2>2
<1>5. Twins(p, Out(a, v, n), Out(a, v, m), d)
  <2>1. PICK w : w = Append(n.bus, <<"out", a, v>>)
    OBVIOUS
  <2>2. Out(a, v, n) = Put("bus", w, n) /\ Out(a, v, m) = Put("bus", w, m)
    BY <1>1, <2>1 DEF Out, Put
  <2> QED
    BY <1>2, <2>2
<1>6. Twins(p, Write(a, v, n), Write(a, v, m), d)
  <2>1. PICK w : w = Append(n.bus, <<"write", a, v>>)
    OBVIOUS
  <2>2. PICK z : z = [b \in {a} \cup DOMAIN n.mem |-> IF b = a THEN v ELSE n.mem[b]]
    OBVIOUS
  <2>3. Write(a, v, n) = [n EXCEPT !.mem = z, !.bus = w] /\ Write(a, v, m) = [m EXCEPT !.mem = z, !.bus = w]
    BY <1>1, <2>1, <2>2, Zenon DEF Write
  <2>4. \A h : [h EXCEPT !.mem = z, !.bus = w] = Put("bus", w, Put("mem", z, h))
    BY DEF Put
  <2>5. Twins(p, Put("mem", z, n), Put("mem", z, m), d)
    BY TwinPut, SharedAre
  <2>6. Twins(p, Put("bus", w, Put("mem", z, n)), Put("bus", w, Put("mem", z, m)), d)
    BY <2>5, TwinPut, SharedAre
  <2> QED
    BY <2>3, <2>4, <2>6
<1> QED
  BY <1>3, <1>4, <1>5, <1>6

LEMMA TwinEnds ==
  ASSUME NEW p, NEW n, NEW m, NEW d \in Int, Twins(p, n, m, d), NEW a \in Int, NEW b \in Int, NEW fl
  PROVE  /\ Twins(p, Keeping(a, n), Keeping(b, m), d + b - a)
         /\ Twins(p, Setting(fl, a, n), Setting(fl, b, m), d + b - a)
<1> DEFINE Later(u, h) == [h EXCEPT !.t = @ + u]
<1>1. ASSUME NEW h, NEW u
      PROVE  /\ Keeping(u, h) = Later(u, Put("q", {}, h))
             /\ Setting(fl, u, h) = Later(u, Put("q", fl, Put("f", fl, h)))
  BY DEF Keeping, Setting, Put
<1>2. Twins(p, Put("q", {}, n), Put("q", {}, m), d)
  BY TwinPut, SharedAre
<1>3. Twins(p, Put("f", fl, n), Put("f", fl, m), d)
  BY TwinPut, SharedAre
<1>4. Twins(p, Put("q", fl, Put("f", fl, n)), Put("q", fl, Put("f", fl, m)), d)
  BY <1>3, TwinPut, SharedAre
<1>5. ASSUME NEW g, NEW h, Twins(p, g, h, d)
      PROVE  Twins(p, Later(a, g), Later(b, h), d + b - a)
  BY <1>5, TwinTime
<1> HIDE DEF Later
<1> QED
  BY <1>1, <1>2, <1>4, <1>5

(* Ends that take the same time, and those of a prefixed handler *)
LEMMA TwinEnd ==
  ASSUME NEW p, NEW n, NEW m, Twins(p, n, m, 0), NEW a \in Int, NEW fl
  PROVE  /\ Twins(p, Keeping(a, n), Keeping(a, m), 0)
         /\ Twins(p, Setting(fl, a, n), Setting(fl, a, m), 0)
<1>1. 0 + a - a = 0 /\ 0 \in Int
  OBVIOUS
<1>2. /\ Twins(p, Keeping(a, n), Keeping(a, m), 0 + a - a)
      /\ Twins(p, Setting(fl, a, n), Setting(fl, a, m), 0 + a - a)
  BY <1>1, TwinEnds
<1> QED
  BY <1>1, <1>2

LEMMA TwinEndPrefixed ==
  ASSUME NEW p, NEW n, NEW m, Twins(p, n, m, 0), NEW a \in Int, NEW b \in Int, b = a + 4, NEW fl
  PROVE  /\ Twins(p, Keeping(a, n), Keeping(b, m), 4)
         /\ Twins(p, Setting(fl, a, n), Setting(fl, b, m), 4)
<1>1. 0 + b - a = 4 /\ 0 \in Int
  OBVIOUS
<1>2. /\ Twins(p, Keeping(a, n), Keeping(b, m), 0 + b - a)
      /\ Twins(p, Setting(fl, a, n), Setting(fl, b, m), 0 + b - a)
  BY <1>1, TwinEnds
<1> QED
  BY <1>1, <1>2

LEMMA TwinPutsOf ==
  ASSUME NEW h, NEW v
  PROVE  /\ [h EXCEPT !.wz = v] = Put("wz", v, h) /\ [h EXCEPT !.pc = v] = Put("pc", v, h)
         /\ [h EXCEPT !.sp = v] = Put("sp", v, h) /\ [h EXCEPT !.halted = v] = Put("halted", v, h)
         /\ \A w : [h EXCEPT !.pc = v, !.wz = w] = Put("wz", w, Put("pc", v, h))
BY DEF Put

(* Words that go to memory and come from it *)
LEMMA TwinWords ==
  ASSUME NEW p, NEW n, NEW m, NEW d, Twins(p, n, m, d), NEW a, NEW v
  PROVE  /\ Twins(p, ReadWord(a, n), ReadWord(a, m), d)
         /\ Twins(p, PushWord(v, n), PushWord(v, m), d)
         /\ Twins(p, PopWord(n), PopWord(m), d)
         /\ Twins(p, WordStored(a, v, n), WordStored(a, v, m), d)
         /\ Twins(p, WordLoaded(a, n), WordLoaded(a, m), d)
         /\ Twins(p, Jumped(a, n), Jumped(a, m), d)
<1>0. n.sp = m.sp /\ n.pc = m.pc
  BY TwinSays
<1>1. ASSUME NEW b
      PROVE  Twins(p, ReadWord(b, n), ReadWord(b, m), d)
  <2>1. Twins(p, Read(b, n), Read(b, m), d)
    BY TwinAccesses
  <2> QED
    BY <2>1, TwinAccesses DEF ReadWord
<1>2. Twins(p, PushWord(v, n), PushWord(v, m), d)
  <2>1. PICK w : w = Wrap16(n.sp - 2)
    OBVIOUS
  <2>2. Twins(p, Write(Wrap16(n.sp - 1), Hi(v), n), Write(Wrap16(n.sp - 1), Hi(v), m), d)
    BY TwinAccesses
  <2>3. Twins(p, Write(w, Lo(v), Write(Wrap16(n.sp - 1), Hi(v), n)), Write(w, Lo(v), Write(Wrap16(n.sp - 1), Hi(v), m)), d)
    BY <2>2, TwinAccesses
  <2>4. Twins(p, Put("sp", w, Write(w, Lo(v), Write(Wrap16(n.sp - 1), Hi(v), n))),
                 Put("sp", w, Write(w, Lo(v), Write(Wrap16(n.sp - 1), Hi(v), m))), d)
    BY <2>3, TwinPut, SharedAre
  <2>5. \A h : PushWord(v, h) = Put("sp", Wrap16(h.sp - 2), Write(Wrap16(h.sp - 2), Lo(v), Write(Wrap16(h.sp - 1), Hi(v), h)))
    BY Zenon DEF PushWord, Put
  <2>6. /\ PushWord(v, n) = Put("sp", w, Write(w, Lo(v), Write(Wrap16(n.sp - 1), Hi(v), n)))
        /\ PushWord(v, m) = Put("sp", w, Write(w, Lo(v), Write(Wrap16(n.sp - 1), Hi(v), m)))
    BY <1>0, <2>1, <2>5
  <2> QED
    BY <2>4, <2>6
<1>3. Twins(p, PopWord(n), PopWord(m), d)
  <2>1. Twins(p, ReadWord(n.sp, n), ReadWord(n.sp, m), d)
    BY <1>1
  <2>2. ReadWord(n.sp, n).sp = n.sp /\ ReadWord(n.sp, m).sp = n.sp
    BY <1>0 DEF ReadWord, Read
  <2>3. PICK w : w = Wrap16(n.sp + 2)
    OBVIOUS
  <2>4. \A h : PopWord(h) = Put("sp", Wrap16(ReadWord(h.sp, h).sp + 2), ReadWord(h.sp, h))
    BY DEF PopWord, Put
  <2>5. PopWord(n) = Put("sp", w, ReadWord(n.sp, n)) /\ PopWord(m) = Put("sp", w, ReadWord(n.sp, m))
    BY <1>0, <2>2, <2>3, <2>4
  <2> QED
    BY <2>1, <2>5, TwinPut, SharedAre
<1>4. PICK next : next = Wrap16(a + 1)
  OBVIOUS
<1>5. Twins(p, WordStored(a, v, n), WordStored(a, v, m), d)
  <2>1. Twins(p, Write(a, Lo(v), n), Write(a, Lo(v), m), d)
    BY TwinAccesses
  <2>2. Twins(p, Write(next, Hi(v), Write(a, Lo(v), n)), Write(next, Hi(v), Write(a, Lo(v), m)), d)
    BY <2>1, TwinAccesses
  <2>3. \A h : WordStored(a, v, h) = Put("wz", next, Write(next, Hi(v), Write(a, Lo(v), h)))
    BY <1>4, TwinPutsOf DEF WordStored
  <2> QED
    BY <2>2, <2>3, TwinPut, SharedAre
<1>6. Twins(p, WordLoaded(a, n), WordLoaded(a, m), d)
  <2>1. \A h : WordLoaded(a, h) = Put("wz", next, ReadWord(a, h))
    BY <1>4, TwinPutsOf DEF WordLoaded
  <2> QED
    BY <1>1, <2>1, TwinPut, SharedAre
<1>7. Twins(p, Jumped(a, n), Jumped(a, m), d)
  <2>1. Twins(p, Put("pc", a, n), Put("pc", a, m), d)
    BY TwinPut, SharedAre
  <2>2. \A h : Jumped(a, h) = Put("wz", a, Put("pc", a, h))
    BY TwinPutsOf DEF Jumped
  <2> QED
    BY <2>1, <2>2, TwinPut, SharedAre
<1> QED
  BY <1>1, <1>2, <1>3, <1>5, <1>6, <1>7

(* The registers but H and L *)
LEMMA TwinRegisters ==
  ASSUME NEW p, NEW n, NEW m, NEW d, Twins(p, n, m, d), NEW v
  PROVE  /\ \A k \in RegisterIndex \ {4, 5} : Twins(p, WriteReg(k, v, n), WriteReg(k, v, m), d)
         /\ \A k \in RegisterIndex \ {4, 5} : Twins(p, SetReg(k, v, n), SetReg(k, v, m), d)
         /\ \A k \in {0, 1, 3} : Twins(p, WritePair(k, v, n), WritePair(k, v, m), d)
<1>1. ASSUME NEW k \in RegisterIndex \ {4, 5}, NEW b, NEW g, NEW h, Twins(p, g, h, d)
      PROVE  Twins(p, SetReg(k, b, g), SetReg(k, b, h), d)
  BY <1>1, TwinRegister DEF SetReg
<1>2. ASSUME NEW k \in RegisterIndex \ {4, 5}
      PROVE  Twins(p, WriteReg(k, v, n), WriteReg(k, v, m), d)
  <2>1. \A h : WriteReg(k, v, h) = SetReg(k, v % 256, h)
    BY DEF WriteReg, SetReg
  <2> QED
    BY <1>1, <2>1
<1>3. PICK w : w = Wrap16(v)
  OBVIOUS
<1>4. {0, 1, 2, 3, 7} = RegisterIndex \ {4, 5}
  BY DEF RegisterIndex
<1>5. Twins(p, WritePair(3, v, n), WritePair(3, v, m), d)
  <2>1. \A h : WritePair(3, v, h) = Put("sp", w, h)
    BY <1>3, TwinPutsOf DEF WritePair
  <2> QED
    BY <2>1, TwinPut, SharedAre
<1>6. ASSUME NEW k \in {0, 1}
      PROVE  Twins(p, WritePair(k, v, n), WritePair(k, v, m), d)
  <2>1. k # 3 /\ 2 * k \in RegisterIndex \ {4, 5} /\ (2 * k) + 1 \in RegisterIndex \ {4, 5}
    BY <1>4
  <2>2. PICK i : i = 2 * k
    OBVIOUS
  <2>3. PICK j : j = (2 * k) + 1
    OBVIOUS
  <2>4. \A h : WritePair(k, v, h) = SetReg(j, Lo(w), SetReg(i, Hi(w), h))
    <3>1. TAKE h
    <3>2. WritePair(k, v, h) = [h EXCEPT !.reg[i] = Hi(w), !.reg[j] = Lo(w)]
      BY <1>3, <2>1, <2>2, <2>3, Zenon DEF WritePair
    <3>3. [h EXCEPT !.reg[i] = Hi(w), !.reg[j] = Lo(w)] = SetReg(j, Lo(w), SetReg(i, Hi(w), h))
      BY DEF SetReg
    <3> QED
      BY <3>2, <3>3
  <2>5. Twins(p, SetReg(i, Hi(w), n), SetReg(i, Hi(w), m), d)
    BY <1>1, <2>1, <2>2
  <2>6. Twins(p, SetReg(j, Lo(w), SetReg(i, Hi(w), n)), SetReg(j, Lo(w), SetReg(i, Hi(w), m)), d)
    BY <1>1, <2>1, <2>3, <2>5
  <2> QED
    BY <2>4, <2>6
<1> QED
  BY <1>1, <1>2, <1>5, <1>6

(* The handlers a prefix leaves alone do not tell the two apart *)
LEMMA TwinLoads ==
  ASSUME NEW p, NEW n, NEW m, Twins(p, n, m, 0), NEW op, NEW args
  PROVE  /\ Twins(p, OpLdIrrA(op, n), OpLdIrrA(op, m), 0) /\ Twins(p, OpLdAIrr(op, n), OpLdAIrr(op, m), 0)
         /\ Twins(p, OpLdAInn(args, n), OpLdAInn(args, m), 0) /\ Twins(p, OpLdInnA(args, n), OpLdInnA(args, m), 0)
         /\ Twins(p, OpPopAf(n), OpPopAf(m), 0) /\ Twins(p, OpPushAf(n), OpPushAf(m), 0)
<1> DEFINE FromMemory(a, h) == Put("wz", Wrap16(a + 1), SetReg(7, At(a, h), Read(a, h)))
           ToMemory(a, h) == Put("wz", Latched(a, h), Write(a, RegA(h), h))
<1>0. 7 \in RegisterIndex \ {4, 5} /\ BC(n) = BC(m) /\ DE(n) = DE(m) /\ n.sp = m.sp
  BY TwinValues, TwinSays DEF RegisterIndex
<1>1. ASSUME NEW a
      PROVE  Twins(p, FromMemory(a, n), FromMemory(a, m), 0)
  <2>1. Twins(p, Read(a, n), Read(a, m), 0) /\ At(a, n) = At(a, m)
    BY TwinAccesses, TwinValues
  <2>2. Twins(p, SetReg(7, At(a, n), Read(a, n)), SetReg(7, At(a, m), Read(a, m)), 0)
    BY <1>0, <2>1, TwinRegisters
  <2> QED
    BY <2>2, TwinPut, SharedAre
<1>2. ASSUME NEW a
      PROVE  Twins(p, ToMemory(a, n), ToMemory(a, m), 0)
  <2>1. RegA(n) = RegA(m) /\ Latched(a, n) = Latched(a, m)
    BY TwinValues
  <2>2. Twins(p, Write(a, RegA(n), n), Write(a, RegA(m), m), 0)
    BY <2>1, TwinAccesses
  <2> QED
    BY <2>1, <2>2, TwinPut, SharedAre
<1>3. \A h : /\ OpLdIrrA(op, h) = Keeping(7, ToMemory(IF op = \h02 THEN BC(h) ELSE DE(h), h))
             /\ OpLdInnA(args, h) = Keeping(13, ToMemory(Operand(args), h))
  BY Zenon DEF OpLdIrrA, OpLdInnA, Put
<1>4. \A h : OpLdAIrr(op, h) = Keeping(7, FromMemory(IF op = \h0A THEN BC(h) ELSE DE(h), h))
  BY Zenon DEF OpLdAIrr, Put, SetReg
<1>5. \A h : OpLdAInn(args, h) = Keeping(13, FromMemory(Operand(args), h))
  BY Zenon DEF OpLdAInn, Put, SetReg
<1> HIDE DEF FromMemory, ToMemory
<1>6. Twins(p, OpLdIrrA(op, n), OpLdIrrA(op, m), 0) /\ Twins(p, OpLdInnA(args, n), OpLdInnA(args, m), 0)
  BY <1>0, <1>2, <1>3, TwinEnd
<1>7. Twins(p, OpLdAIrr(op, n), OpLdAIrr(op, m), 0) /\ Twins(p, OpLdAInn(args, n), OpLdAInn(args, m), 0)
  BY <1>0, <1>1, <1>4, <1>5, TwinEnd
<1>8. Twins(p, OpPushAf(n), OpPushAf(m), 0)
  <2>1. AF(n) = AF(m)
    BY TwinValues
  <2>2. Twins(p, PushWord(AF(n), n), PushWord(AF(m), m), 0)
    BY <2>1, TwinWords
  <2> QED
    BY <2>2, TwinEnd DEF OpPushAf
<1>9. Twins(p, OpPopAf(n), OpPopAf(m), 0)
  <2>1. PICK w : w = WordAt(n.sp, n)
    OBVIOUS
  <2>2. w = WordAt(m.sp, m)
    BY <1>0, <2>1, TwinValues
  <2>3. Twins(p, PopWord(n), PopWord(m), 0)
    BY TwinWords
  <2>4. Twins(p, SetReg(7, Hi(w), PopWord(n)), SetReg(7, Hi(w), PopWord(m)), 0)
    BY <1>0, <2>3, TwinRegisters
  <2>5. Twins(p, Put("f", FlagsOf(Lo(w)), SetReg(7, Hi(w), PopWord(n))), Put("f", FlagsOf(Lo(w)), SetReg(7, Hi(w), PopWord(m))), 0)
    BY <2>4, TwinPut, SharedAre
  <2>6. \A h : OpPopAf(h) = Keeping(10, Put("f", FlagsOf(Lo(WordAt(h.sp, h))), SetReg(7, Hi(WordAt(h.sp, h)), PopWord(h))))
    BY Zenon DEF OpPopAf, Put, SetReg
  <2>7. OpPopAf(n) = Keeping(10, Put("f", FlagsOf(Lo(w)), SetReg(7, Hi(w), PopWord(n))))
    BY <2>1, <2>6
  <2>8. OpPopAf(m) = Keeping(10, Put("f", FlagsOf(Lo(w)), SetReg(7, Hi(w), PopWord(m))))
    BY <2>2, <2>6
  <2> QED
    BY <2>5, <2>7, <2>8, TwinEnd
<1> QED
  BY <1>6, <1>7, <1>8, <1>9

(* The opcodes that name a register or a pair, none of them HL's *)
LEMMA TwinNamed ==
  ASSUME NEW p, NEW n, NEW m, Twins(p, n, m, 0), NEW op, NEW args
  PROVE  /\ Field(op) \in Plain => /\ Twins(p, OpLdRN(op, args, n), OpLdRN(op, args, m), 0)
                                    /\ Twins(p, OpIncDec(op, n), OpIncDec(op, m), 0)
         /\ Field(op) \in Plain /\ Low(op) \in Plain => Twins(p, OpLdRR(op, n), OpLdRR(op, m), 0)
         /\ PairOf(op) \in {0, 1, 3} => /\ Twins(p, OpLdRrNn(op, args, n), OpLdRrNn(op, args, m), 0)
                                        /\ Twins(p, OpIncDecRr(op, n), OpIncDecRr(op, m), 0)
         /\ PairOf(op) \in {0, 1} => /\ Twins(p, OpPopRr(op, n), OpPopRr(op, m), 0)
                                     /\ Twins(p, OpPushRr(op, n), OpPushRr(op, m), 0)
<1>0. Plain = RegisterIndex \ {4, 5} /\ 6 \notin Plain
  BY DEF Plain, RegisterIndex
<1>1. ASSUME NEW k \in Plain
      PROVE  \A h : Source(k, h) = h.reg[k] /\ Fetched(k, h) = h /\ \A b : Store(k, b, h) = WriteReg(k, b, h)
  BY <1>0 DEF Source, Fetched, Store
<1>2. ASSUME NEW k \in Plain
      PROVE  n.reg[k] = m.reg[k] /\ \A b : Twins(p, WriteReg(k, b, n), WriteReg(k, b, m), 0)
  <2>1. n.reg[k] = m.reg[k]
    BY <1>0 DEF Twins
  <2> QED
    BY <1>0, <2>1, TwinRegisters
<1>3. n.f = m.f
  BY TwinSays
<1>4. ASSUME Field(op) \in Plain
      PROVE  /\ Twins(p, OpLdRN(op, args, n), OpLdRN(op, args, m), 0)
             /\ Twins(p, OpIncDec(op, n), OpIncDec(op, m), 0)
  <2>1. Twins(p, WriteReg(Field(op), args[1], n), WriteReg(Field(op), args[1], m), 0)
    BY <1>2, <1>4
  <2>2. \A h : OpLdRN(op, args, h) = Keeping(7, WriteReg(Field(op), args[1], h))
    BY <1>0, <1>1, <1>4 DEF OpLdRN
  <2>3. PICK result : result = IF Low(op) = 4 THEN Increment(n.reg[Field(op)], n.f) ELSE Decrement(n.reg[Field(op)], n.f)
    OBVIOUS
  <2>4. \A h : h.reg[Field(op)] = n.reg[Field(op)] /\ h.f = n.f
               => OpIncDec(op, h) = Setting(result.f, 4, WriteReg(Field(op), result.r, h))
    BY <1>0, <1>1, <1>4, <2>3 DEF OpIncDec
  <2>5. Twins(p, WriteReg(Field(op), result.r, n), WriteReg(Field(op), result.r, m), 0)
    BY <1>2, <1>4
  <2>6. Twins(p, Keeping(7, WriteReg(Field(op), args[1], n)), Keeping(7, WriteReg(Field(op), args[1], m)), 0)
    BY <2>1, TwinEnd
  <2>7. Twins(p, Setting(result.f, 4, WriteReg(Field(op), result.r, n)), Setting(result.f, 4, WriteReg(Field(op), result.r, m)), 0)
    BY <2>5, TwinEnd
  <2> QED
    BY <1>2, <1>3, <1>4, <2>2, <2>4, <2>6, <2>7
<1>5. ASSUME Field(op) \in Plain, Low(op) \in Plain
      PROVE  Twins(p, OpLdRR(op, n), OpLdRR(op, m), 0)
  <2>1. \A h : OpLdRR(op, h) = Keeping(4, WriteReg(Field(op), h.reg[Low(op)], h))
    BY <1>0, <1>1, <1>5 DEF OpLdRR
  <2>2. Twins(p, WriteReg(Field(op), n.reg[Low(op)], n), WriteReg(Field(op), n.reg[Low(op)], m), 0)
    BY <1>2, <1>5
  <2>3. n.reg[Low(op)] = m.reg[Low(op)]
    BY <1>2, <1>5
  <2> QED
    BY <2>1, <2>2, <2>3, TwinEnd
<1>6. ASSUME NEW k \in {0, 1, 3}
      PROVE  ReadPair(k, n) = ReadPair(k, m) /\ \A w : Twins(p, WritePair(k, w, n), WritePair(k, w, m), 0)
  BY TwinValues, TwinRegisters
<1>7. ASSUME PairOf(op) \in {0, 1, 3}
      PROVE  /\ Twins(p, OpLdRrNn(op, args, n), OpLdRrNn(op, args, m), 0)
             /\ Twins(p, OpIncDecRr(op, n), OpIncDecRr(op, m), 0)
  <2>1. PICK k \in {0, 1, 3} : k = PairOf(op)
    BY <1>7
  <2>2. PICK by : by = IF op % 16 = 3 THEN 1 ELSE -1
    OBVIOUS
  <2>3. \A h : /\ OpLdRrNn(op, args, h) = Keeping(10, WritePair(k, Operand(args), h))
               /\ OpIncDecRr(op, h) = Keeping(6, WritePair(k, ReadPair(k, h) + by, h))
    BY <2>1, <2>2 DEF OpLdRrNn, OpIncDecRr
  <2>a. Twins(p, WritePair(k, Operand(args), n), WritePair(k, Operand(args), m), 0)
    BY <1>6
  <2>4. Twins(p, Keeping(10, WritePair(k, Operand(args), n)), Keeping(10, WritePair(k, Operand(args), m)), 0)
    BY <2>a, TwinEnd
  <2>5. Twins(p, WritePair(k, ReadPair(k, n) + by, n), WritePair(k, ReadPair(k, m) + by, m), 0)
    BY <1>6
  <2>6. Twins(p, Keeping(6, WritePair(k, ReadPair(k, n) + by, n)), Keeping(6, WritePair(k, ReadPair(k, m) + by, m)), 0)
    BY <2>5, TwinEnd
  <2> QED
    BY <2>3, <2>4, <2>6
<1>8. ASSUME PairOf(op) \in {0, 1}
      PROVE  /\ Twins(p, OpPopRr(op, n), OpPopRr(op, m), 0)
             /\ Twins(p, OpPushRr(op, n), OpPushRr(op, m), 0)
  <2>1. WordAt(n.sp, n) = WordAt(m.sp, m) /\ Twins(p, PopWord(n), PopWord(m), 0)
    BY TwinWords, TwinSays, TwinValues
  <2>2. \A w : Twins(p, WritePair(PairOf(op), w, PopWord(n)), WritePair(PairOf(op), w, PopWord(m)), 0)
    BY <1>8, <2>1, TwinRegisters
  <2>3. \A w : Twins(p, PushWord(w, n), PushWord(w, m), 0)
    BY TwinWords
  <2>4. Twins(p, OpPopRr(op, n), OpPopRr(op, m), 0)
    BY <2>1, <2>2, TwinEnd DEF OpPopRr
  <2> QED
    BY <1>6, <1>8, <2>3, <2>4, TwinEnd DEF OpPushRr
<1> QED
  BY <1>4, <1>5, <1>7, <1>8

LEMMA TwinAlu ==
  ASSUME NEW p, NEW n, NEW m, Twins(p, n, m, 0), NEW op, NEW args
  PROVE  /\ \A v : Twins(p, AluOn(op, v, 4, n), AluOn(op, v, 4, m), 0) /\ Twins(p, AluOn(op, v, 4, n), AluOn(op, v, 8, m), 4)
         /\ Low(op) \in Plain => Twins(p, OpAluR(op, n), OpAluR(op, m), 0)
         /\ Twins(p, OpAluN(op, args, n), OpAluN(op, args, m), 0)
<1>0. RegA(n) = RegA(m) /\ n.f = m.f /\ 7 \in RegisterIndex \ {4, 5}
  BY TwinValues, TwinSays DEF RegisterIndex
<1>1. ASSUME NEW v, NEW t \in Int
      PROVE  Twins(p, AluOn(op, v, t, n), AluOn(op, v, t, m), 0)
  <2>1. PICK result : result = AluA(AluNames[Field(op) + 1], RegA(n), v, n.f)
    OBVIOUS
  <2>2. \A h : AluOn(op, v, t, h) = Setting(AluA(AluNames[Field(op) + 1], RegA(h), v, h.f).f, t,
                                           SetReg(7, AluA(AluNames[Field(op) + 1], RegA(h), v, h.f).r, h))
    BY DEF AluOn, SetReg
  <2>3. AluOn(op, v, t, n) = Setting(result.f, t, SetReg(7, result.r, n)) /\ AluOn(op, v, t, m) = Setting(result.f, t, SetReg(7, result.r, m))
    BY <1>0, <2>1, <2>2
  <2>4. Twins(p, SetReg(7, result.r, n), SetReg(7, result.r, m), 0)
    BY <1>0, TwinRegisters
  <2>5. Twins(p, Setting(result.f, t, SetReg(7, result.r, n)), Setting(result.f, t, SetReg(7, result.r, m)), 0)
    BY <2>4, TwinEnd
  <2> QED
    BY <2>3, <2>5
<1>2. ASSUME NEW v
      PROVE  Twins(p, AluOn(op, v, 4, n), AluOn(op, v, 8, m), 4)
  <2>1. PICK result : result = AluA(AluNames[Field(op) + 1], RegA(n), v, n.f)
    OBVIOUS
  <2>2. \A h, t : AluOn(op, v, t, h) = Setting(AluA(AluNames[Field(op) + 1], RegA(h), v, h.f).f, t,
                                           SetReg(7, AluA(AluNames[Field(op) + 1], RegA(h), v, h.f).r, h))
    BY DEF AluOn, SetReg
  <2>3. AluOn(op, v, 4, n) = Setting(result.f, 4, SetReg(7, result.r, n)) /\ AluOn(op, v, 8, m) = Setting(result.f, 8, SetReg(7, result.r, m))
    BY <1>0, <2>1, <2>2
  <2>4. Twins(p, SetReg(7, result.r, n), SetReg(7, result.r, m), 0)
    BY <1>0, TwinRegisters
  <2>5. Twins(p, Setting(result.f, 4, SetReg(7, result.r, n)), Setting(result.f, 8, SetReg(7, result.r, m)), 4)
    BY <2>4, TwinEndPrefixed
  <2> QED
    BY <2>3, <2>5
<1>3. ASSUME Low(op) \in Plain
      PROVE  Twins(p, OpAluR(op, n), OpAluR(op, m), 0)
  <2>1. Low(op) # 6 /\ Low(op) \in RegisterIndex \ {4, 5}
    BY <1>3 DEF Plain, RegisterIndex
  <2>2. \A h : OpAluR(op, h) = AluOn(op, h.reg[Low(op)], 4, h)
    BY <2>1 DEF OpAluR, Source, Fetched
  <2>3. n.reg[Low(op)] = m.reg[Low(op)]
    BY <2>1 DEF Twins
  <2> QED
    BY <1>1, <2>2, <2>3
<1>4. Twins(p, OpAluN(op, args, n), OpAluN(op, args, m), 0)
  BY <1>1 DEF OpAluN
<1> QED
  BY <1>1, <1>2, <1>3, <1>4

LEMMA TwinAccumulator ==
  ASSUME NEW p, NEW n, NEW m, Twins(p, n, m, 0), NEW op
  PROVE  /\ Twins(p, OpDaa(n), OpDaa(m), 0) /\ Twins(p, OpCpl(n), OpCpl(m), 0)
         /\ Twins(p, OpScfCcf(op, n), OpScfCcf(op, m), 0) /\ Twins(p, OpRotA(op, n), OpRotA(op, m), 0)
<1>0. RegA(n) = RegA(m) /\ n.f = m.f /\ n.q = m.q /\ 7 \in RegisterIndex \ {4, 5}
  BY TwinValues, TwinSays DEF RegisterIndex
<1>1. ASSUME NEW result
      PROVE  Twins(p, ToA(result, 4, n), ToA(result, 4, m), 0)
  <2>1. \A h : ToA(result, 4, h) = Setting(result.f, 4, SetReg(7, result.r, h))
    BY DEF ToA, SetReg
  <2>2. Twins(p, SetReg(7, result.r, n), SetReg(7, result.r, m), 0)
    BY <1>0, TwinRegisters
  <2>3. Twins(p, Setting(result.f, 4, SetReg(7, result.r, n)), Setting(result.f, 4, SetReg(7, result.r, m)), 0)
    BY <2>2, TwinEnd
  <2> QED
    BY <2>1, <2>3
<1>2. Twins(p, OpDaa(n), OpDaa(m), 0)
  BY <1>0, <1>1 DEF OpDaa
<1>3. Twins(p, OpCpl(n), OpCpl(m), 0)
  BY <1>0, <1>1 DEF OpCpl
<1>4. Twins(p, OpRotA(op, n), OpRotA(op, m), 0)
  BY <1>0, <1>1 DEF OpRotA
<1>5. Twins(p, OpScfCcf(op, n), OpScfCcf(op, m), 0)
  <2>1. PICK fl : fl = ScfCcfFlags(IF op = \h37 THEN "SCF" ELSE "CCF", RegA(n), n.f, n.q)
    OBVIOUS
  <2>2. OpScfCcf(op, n) = Setting(fl, 4, n) /\ OpScfCcf(op, m) = Setting(fl, 4, m)
    BY <1>0, <2>1 DEF OpScfCcf
  <2> QED
    BY <2>2, TwinEnd
<1> QED
  BY <1>2, <1>3, <1>4, <1>5

LEMMA TwinJumps ==
  ASSUME NEW p, NEW n, NEW m, Twins(p, n, m, 0), NEW op, NEW args, NEW t \in Int
  PROVE  /\ Twins(p, OpJr(op, args, n), OpJr(op, args, m), 0) /\ Twins(p, OpDjnz(args, n), OpDjnz(args, m), 0)
         /\ Twins(p, OpJp(op, args, n), OpJp(op, args, m), 0) /\ Twins(p, OpCall(op, args, n), OpCall(op, args, m), 0)
         /\ Twins(p, OpRet(t, n), OpRet(t, m), 0) /\ Twins(p, OpRetCc(op, n), OpRetCc(op, m), 0)
         /\ Twins(p, OpRst(op, n), OpRst(op, m), 0)
<1>0. /\ \A cc : Holds(cc, n) = Holds(cc, m)
      /\ n.pc = m.pc /\ n.sp = m.sp /\ WordAt(n.sp, n) = WordAt(m.sp, m)
  BY TwinValues, TwinSays
<1>1. ASSUME NEW a
      PROVE  /\ Twins(p, Jumped(a, n), Jumped(a, m), 0) /\ Twins(p, PushWord(a, n), PushWord(a, m), 0)
             /\ Twins(p, Put("wz", a, n), Put("wz", a, m), 0)
  BY TwinWords, TwinPut, SharedAre
<1>2. ASSUME NEW a, NEW g, NEW h, Twins(p, g, h, 0)
      PROVE  Twins(p, Jumped(a, g), Jumped(a, h), 0)
  BY <1>2, TwinWords
<1>3. ASSUME NEW g, NEW h, Twins(p, g, h, 0), NEW u \in Int
      PROVE  Twins(p, Keeping(u, g), Keeping(u, h), 0)
  BY <1>3, TwinEnd
<1>4. Twins(p, OpJr(op, args, n), OpJr(op, args, m), 0)
  BY <1>0, <1>1, <1>3 DEF OpJr
<1>5. Twins(p, OpDjnz(args, n), OpDjnz(args, m), 0)
  <2>1. PICK v : v = n.reg[0] - 1
    OBVIOUS
  <2>2. 0 \in RegisterIndex \ {4, 5} /\ m.reg[0] = n.reg[0]
    BY DEF Twins, RegisterIndex
  <2>3. PICK g : g = WriteReg(0, v, n)
    OBVIOUS
  <2>4. PICK h : h = WriteReg(0, v, m)
    OBVIOUS
  <2>5. Twins(p, g, h, 0)
    BY <2>2, <2>3, <2>4, TwinRegisters
  <2>6. g.reg[0] = h.reg[0]
    BY <2>2, <2>5 DEF Twins
  <2>7. /\ OpDjnz(args, n) = IF g.reg[0] # 0 THEN Keeping(13, Jumped(Displaced(n.pc, args[1]), g)) ELSE Keeping(8, g)
        /\ OpDjnz(args, m) = IF h.reg[0] # 0 THEN Keeping(13, Jumped(Displaced(n.pc, args[1]), h)) ELSE Keeping(8, h)
    BY <1>0, <2>1, <2>2, <2>3, <2>4 DEF OpDjnz
  <2> QED
    BY <1>2, <1>3, <2>5, <2>6, <2>7
<1>6. Twins(p, OpJp(op, args, n), OpJp(op, args, m), 0)
  <2>1. \A h : OpJp(op, args, h) = Keeping(10, IF op = \hC3 \/ Holds(Field(op), h) THEN Jumped(Operand(args), h)
                                              ELSE Put("wz", Operand(args), h))
    BY Zenon DEF OpJp, Put
  <2> QED
    BY <1>0, <1>1, <1>3, <2>1
<1>7. Twins(p, OpCall(op, args, n), OpCall(op, args, m), 0)
  <2>1. \A h : OpCall(op, args, h) = IF op = \hCD \/ Holds(Field(op), h)
                                      THEN Keeping(17, Jumped(Operand(args), PushWord(h.pc, h)))
                                      ELSE Keeping(10, Put("wz", Operand(args), h))
    BY Zenon DEF OpCall, Put
  <2>2. Twins(p, Jumped(Operand(args), PushWord(n.pc, n)), Jumped(Operand(args), PushWord(m.pc, m)), 0)
    BY <1>0, <1>1, <1>2
  <2> QED
    BY <1>0, <1>1, <1>3, <2>1, <2>2
<1>8. ASSUME NEW u \in Int
      PROVE  Twins(p, OpRet(u, n), OpRet(u, m), 0)
  <2>1. Twins(p, PopWord(n), PopWord(m), 0)
    BY TwinWords
  <2>2. Twins(p, Jumped(WordAt(n.sp, n), PopWord(n)), Jumped(WordAt(m.sp, m), PopWord(m)), 0)
    BY <1>0, <1>2, <2>1
  <2> QED
    BY <1>3, <2>2 DEF OpRet
<1>9. Twins(p, OpRetCc(op, n), OpRetCc(op, m), 0)
  BY <1>0, <1>3, <1>8 DEF OpRetCc
<1>10. Twins(p, OpRst(op, n), OpRst(op, m), 0)
  <2>1. Twins(p, Jumped(8 * Field(op), PushWord(n.pc, n)), Jumped(8 * Field(op), PushWord(m.pc, m)), 0)
    BY <1>0, <1>1, <1>2
  <2> QED
    BY <1>3, <2>1 DEF OpRst
<1> QED
  BY <1>4, <1>5, <1>6, <1>7, <1>8, <1>9, <1>10

LEMMA TwinControl ==
  ASSUME NEW p, NEW n, NEW m, Twins(p, n, m, 0), NEW on, NEW args
  PROVE  /\ Twins(p, OpHalt(n), OpHalt(m), 0) /\ Twins(p, OpInterruptEnable(on, n), OpInterruptEnable(on, m), 0)
         /\ Twins(p, OpInAN(args, n), OpInAN(args, m), 0) /\ Twins(p, OpOutNA(args, n), OpOutNA(args, m), 0)
         /\ Twins(p, OpExAfAf(n), OpExAfAf(m), 0)
<1>0. RegA(n) = RegA(m) /\ 7 \in RegisterIndex \ {4, 5} /\ n.alt = m.alt /\ n.f = m.f /\ n.altf = m.altf
  BY TwinValues, TwinSays DEF RegisterIndex
<1>1. Twins(p, OpHalt(n), OpHalt(m), 0)
  <2>1. PICK yes : yes = TRUE
    OBVIOUS
  <2>2. Twins(p, Put("halted", yes, n), Put("halted", yes, m), 0)
    BY TwinPut, SharedAre
  <2>3. Twins(p, Keeping(4, Put("halted", yes, n)), Keeping(4, Put("halted", yes, m)), 0)
    BY <2>2, TwinEnd
  <2>4. \A h : OpHalt(h) = Keeping(4, Put("halted", yes, h))
    BY <2>1, Zenon DEF OpHalt, Put
  <2> QED
    BY <2>3, <2>4
<1>2. Twins(p, OpInterruptEnable(on, n), OpInterruptEnable(on, m), 0)
  <2>1. PICK later : later = IF on THEN 1 ELSE 0
    OBVIOUS
  <2>2. Twins(p, Put("iff1", on, n), Put("iff1", on, m), 0)
    BY TwinPut, SharedAre
  <2>3. Twins(p, Put("iff2", on, Put("iff1", on, n)), Put("iff2", on, Put("iff1", on, m)), 0)
    BY <2>2, TwinPut, SharedAre
  <2>4. Twins(p, Put("delay", later, Put("iff2", on, Put("iff1", on, n))),
                 Put("delay", later, Put("iff2", on, Put("iff1", on, m))), 0)
    BY <2>3, TwinPut, SharedAre
  <2>5. \A h : OpInterruptEnable(on, h) = Keeping(4, Put("delay", later, Put("iff2", on, Put("iff1", on, h))))
    BY <2>1, Zenon DEF OpInterruptEnable, Put
  <2> QED
    BY <2>4, <2>5, TwinEnd
<1>3. PICK port : port = Word(RegA(n), args[1])
  OBVIOUS
<1>4. Twins(p, OpInAN(args, n), OpInAN(args, m), 0)
  <2>1. Twins(p, In(port, n), In(port, m), 0)
    BY TwinAccesses
  <2>2. Twins(p, SetReg(7, PortByte(port), In(port, n)), SetReg(7, PortByte(port), In(port, m)), 0)
    BY <1>0, <2>1, TwinRegisters
  <2>3. Twins(p, Put("wz", Wrap16(port + 1), SetReg(7, PortByte(port), In(port, n))),
                 Put("wz", Wrap16(port + 1), SetReg(7, PortByte(port), In(port, m))), 0)
    BY <2>2, TwinPut, SharedAre
  <2>4. \A h : OpInAN(args, h) = Keeping(11, Put("wz", Wrap16(Word(RegA(h), args[1]) + 1),
                   SetReg(7, PortByte(Word(RegA(h), args[1])), In(Word(RegA(h), args[1]), h))))
    BY Zenon DEF OpInAN, Put, SetReg
  <2>5. /\ OpInAN(args, n) = Keeping(11, Put("wz", Wrap16(port + 1), SetReg(7, PortByte(port), In(port, n))))
        /\ OpInAN(args, m) = Keeping(11, Put("wz", Wrap16(port + 1), SetReg(7, PortByte(port), In(port, m))))
    BY <1>0, <1>3, <2>4
  <2> QED
    BY <2>3, <2>5, TwinEnd
<1>5. Twins(p, OpOutNA(args, n), OpOutNA(args, m), 0)
  <2>1. Twins(p, Out(port, RegA(n), n), Out(port, RegA(m), m), 0) /\ Latched(port, n) = Latched(port, m)
    BY <1>0, TwinAccesses, TwinValues
  <2>2. Twins(p, Put("wz", Latched(port, n), Out(port, RegA(n), n)), Put("wz", Latched(port, m), Out(port, RegA(m), m)), 0)
    BY <2>1, TwinPut, SharedAre
  <2>3. \A h : OpOutNA(args, h) = Keeping(11, Put("wz", Latched(Word(RegA(h), args[1]), h), Out(Word(RegA(h), args[1]), RegA(h), h)))
    BY Zenon DEF OpOutNA, Put
  <2>4. /\ OpOutNA(args, n) = Keeping(11, Put("wz", Latched(port, n), Out(port, RegA(n), n)))
        /\ OpOutNA(args, m) = Keeping(11, Put("wz", Latched(port, m), Out(port, RegA(m), m)))
    BY <1>0, <1>3, <2>3
  <2> QED
    BY <2>2, <2>4, TwinEnd
<1>6. Twins(p, OpExAfAf(n), OpExAfAf(m), 0)
  <2>1. PICK b : b = n.alt[7]
    OBVIOUS
  <2>2. PICK alt : alt = [n.alt EXCEPT ![7] = RegA(n)]
    OBVIOUS
  <2>3. Twins(p, SetReg(7, b, n), SetReg(7, b, m), 0)
    BY <1>0, TwinRegisters
  <2>4. Twins(p, Put("alt", alt, SetReg(7, b, n)), Put("alt", alt, SetReg(7, b, m)), 0)
    BY <2>3, TwinPut, SharedAre
  <2>5. Twins(p, Put("f", n.altf, Put("alt", alt, SetReg(7, b, n))), Put("f", n.altf, Put("alt", alt, SetReg(7, b, m))), 0)
    BY <2>4, TwinPut, SharedAre
  <2>6. Twins(p, Put("altf", n.f, Put("f", n.altf, Put("alt", alt, SetReg(7, b, n)))),
                 Put("altf", n.f, Put("f", n.altf, Put("alt", alt, SetReg(7, b, m)))), 0)
    BY <2>5, TwinPut, SharedAre
  <2>7. ASSUME NEW h, IsRecord(h), h.alt = n.alt, h.f = n.f, h.altf = n.altf, RegA(h) = RegA(n)
        PROVE  OpExAfAf(h) = Keeping(4, Put("altf", n.f, Put("f", n.altf, Put("alt", alt, SetReg(7, b, h)))))
    <3>1. PICK g : g = [h EXCEPT !.reg[7] = b]
      OBVIOUS
    <3>2. g.alt = h.alt /\ IsRecord(g)
      BY <2>7, <3>1 DEF IsRecord, Fields
    <3>3. [g EXCEPT !.alt[7] = h.reg[7]] = Put("alt", alt, g)
      BY <2>2, <2>7, <3>2 DEF Put, RegA
    <3>4. OpExAfAf(h) = Keeping(4, [[[[h EXCEPT !.reg[7] = h.alt[7]] EXCEPT !.alt[7] = h.reg[7]] EXCEPT !.f = h.altf] EXCEPT !.altf = h.f])
      BY Zenon DEF OpExAfAf
    <3>5. OpExAfAf(h) = Keeping(4, [[Put("alt", alt, g) EXCEPT !.f = h.altf] EXCEPT !.altf = h.f])
      BY <2>1, <2>7, <3>1, <3>3, <3>4, Zenon
    <3>6. OpExAfAf(h) = Keeping(4, Put("altf", h.f, Put("f", h.altf, Put("alt", alt, g))))
      BY <3>5, Zenon DEF Put
    <3>7. g = SetReg(7, b, h)
      BY <3>1 DEF SetReg
    <3> QED
      BY <2>7, <3>6, <3>7
  <2>8. IsRecord(n) /\ IsRecord(m)
    BY DEF Twins
  <2>9. /\ OpExAfAf(n) = Keeping(4, Put("altf", n.f, Put("f", n.altf, Put("alt", alt, SetReg(7, b, n)))))
        /\ OpExAfAf(m) = Keeping(4, Put("altf", n.f, Put("f", n.altf, Put("alt", alt, SetReg(7, b, m)))))
    BY <1>0, <2>7, <2>8
  <2> QED
    BY <2>6, <2>9, TwinEnd
<1> QED
  BY <1>1, <1>2, <1>4, <1>5, <1>6

(* The opcodes that have the handler of the main page behind a prefix *)
Untouched ==
  {\h00, \h01, \h11, \h31, \h02, \h12, \h0A, \h1A, \h32, \h3A, \h03, \h13, \h33, \h0B, \h1B, \h3B,
   \h04, \h0C, \h14, \h1C, \h3C, \h05, \h0D, \h15, \h1D, \h3D, \h06, \h0E, \h16, \h1E, \h3E,
   \h07, \h0F, \h17, \h1F, \h27, \h2F, \h37, \h3F, \h08, \h10, \h18, \h20, \h28, \h30, \h38}
  \cup PlainLoads \cup {\h76} \cup {op \in \h80 .. \hBF : Low(op) \in Plain}
  \cup Every8(\hC0) \cup {\hC9, \hC1, \hD1, \hF1} \cup Every8(\hC2) \cup {\hC3} \cup Every8(\hC4)
  \cup {\hCD, \hC5, \hD5, \hF5} \cup Every8(\hC6) \cup Every8(\hC7) \cup {\hD3, \hDB, \hF3, \hFB}

LEMMA TwinUntouched ==
  ASSUME NEW p, NEW n, NEW m, Twins(p, n, m, 0), NEW op \in Untouched, NEW args
  PROVE  Twins(p, MainEffect(op, args, n), MainEffect(op, args, m), 0)
<1>1. /\ Twins(p, OpLdIrrA(op, n), OpLdIrrA(op, m), 0) /\ Twins(p, OpLdAIrr(op, n), OpLdAIrr(op, m), 0)
      /\ Twins(p, OpLdAInn(args, n), OpLdAInn(args, m), 0) /\ Twins(p, OpLdInnA(args, n), OpLdInnA(args, m), 0)
      /\ Twins(p, OpPopAf(n), OpPopAf(m), 0) /\ Twins(p, OpPushAf(n), OpPushAf(m), 0)
  BY TwinLoads
<1>2. /\ Field(op) \in Plain => /\ Twins(p, OpLdRN(op, args, n), OpLdRN(op, args, m), 0)
                                 /\ Twins(p, OpIncDec(op, n), OpIncDec(op, m), 0)
      /\ Field(op) \in Plain /\ Low(op) \in Plain => Twins(p, OpLdRR(op, n), OpLdRR(op, m), 0)
      /\ PairOf(op) \in {0, 1, 3} => /\ Twins(p, OpLdRrNn(op, args, n), OpLdRrNn(op, args, m), 0)
                                     /\ Twins(p, OpIncDecRr(op, n), OpIncDecRr(op, m), 0)
      /\ PairOf(op) \in {0, 1} => /\ Twins(p, OpPopRr(op, n), OpPopRr(op, m), 0)
                                  /\ Twins(p, OpPushRr(op, n), OpPushRr(op, m), 0)
  BY TwinNamed
<1>3. /\ Low(op) \in Plain => Twins(p, OpAluR(op, n), OpAluR(op, m), 0)
      /\ Twins(p, OpAluN(op, args, n), OpAluN(op, args, m), 0)
  BY TwinAlu
<1>4. /\ Twins(p, OpDaa(n), OpDaa(m), 0) /\ Twins(p, OpCpl(n), OpCpl(m), 0)
      /\ Twins(p, OpScfCcf(op, n), OpScfCcf(op, m), 0) /\ Twins(p, OpRotA(op, n), OpRotA(op, m), 0)
  BY TwinAccumulator
<1>5. /\ Twins(p, OpJr(op, args, n), OpJr(op, args, m), 0) /\ Twins(p, OpDjnz(args, n), OpDjnz(args, m), 0)
      /\ Twins(p, OpJp(op, args, n), OpJp(op, args, m), 0) /\ Twins(p, OpCall(op, args, n), OpCall(op, args, m), 0)
      /\ Twins(p, OpRet(10, n), OpRet(10, m), 0) /\ Twins(p, OpRetCc(op, n), OpRetCc(op, m), 0)
      /\ Twins(p, OpRst(op, n), OpRst(op, m), 0)
  BY TwinJumps
<1>6. /\ Twins(p, OpHalt(n), OpHalt(m), 0) /\ Twins(p, OpInterruptEnable(op = \hFB, n), OpInterruptEnable(op = \hFB, m), 0)
      /\ Twins(p, OpInAN(args, n), OpInAN(args, m), 0) /\ Twins(p, OpOutNA(args, n), OpOutNA(args, m), 0)
      /\ Twins(p, OpExAfAf(n), OpExAfAf(m), 0) /\ Twins(p, Keeping(4, n), Keeping(4, m), 0)
  <2>1. Twins(p, Keeping(4, n), Keeping(4, m), 0)
    BY TwinEnd
  <2>2. \A on : Twins(p, OpInterruptEnable(on, n), OpInterruptEnable(on, m), 0)
    BY TwinControl
  <2> QED
    BY <2>1, <2>2, TwinControl
<1>7. CASE op < \h40
  BY <1>1, <1>2, <1>4, <1>5, <1>6, <1>7, Every8Is DEF MainEffect, Untouched, PlainLoads, Plain, Field, Low, PairOf
<1>8. CASE op \in \h40 .. \hBF
  BY <1>2, <1>3, <1>6, <1>8, Every8Is DEF MainEffect, Untouched, PlainLoads
<1>9. CASE op > \hBF
  BY <1>1, <1>2, <1>3, <1>5, <1>6, <1>9, Every8Is DEF MainEffect, Untouched, PlainLoads, PairOf
<1>10. op \in Int
  BY Every8Is DEF Untouched, PlainLoads
<1> QED
  BY <1>7, <1>8, <1>9, <1>10

(* WZ before or after the index register *)
LEMMA LatchCommutes ==
  ASSUME NEW p, NEW m, IsRecord(m), NEW v, NEW w
  PROVE  Put("wz", w, SetIndex(p, v, m)) = SetIndex(p, v, Put("wz", w, m))
BY DEF Put, SetIndex, IsRecord, Fields

(* What the two make of the same fields *)
LEMMA TwinIndexWords ==
  ASSUME NEW p, NEW n, NEW m, Twins(p, n, m, 0), GetIndex(p, m) \in Words, NEW op, NEW args
  PROVE  /\ PairOf(op) \in 0 .. 3 => Twins(p, OpAddHlRr(op, n), OpAddIndexRr(p, op, m), 4)
         /\ PairOf(op) = 2 => /\ Twins(p, OpLdRrNn(op, args, n), OpLdIndexNn(p, args, m), 4)
                              /\ Twins(p, OpPopRr(op, n), OpPopIndex(p, m), 4)
                              /\ Twins(p, OpPushRr(op, n), OpPushIndex(p, m), 4)
         /\ Twins(p, OpLdNnHl(args, n), OpLdNnIndex(p, args, m), 4)
         /\ Twins(p, OpLdHlNnFromMem(args, n), OpLdIndexNnFromMem(p, args, m), 4)
         /\ op \in {\h23, \h2B} => Twins(p, OpIncDecRr(op, n), OpIncDecIndex(p, op, m), 4)
         /\ Twins(p, OpExSpHl(n), OpExSpIndex(p, m), 4)
         /\ Twins(p, OpJpHl(n), OpJpIndex(p, m), 4) /\ Twins(p, OpLdSpHl(n), OpLdSpIndex(p, m), 4)
<1>0. PICK index : index = GetIndex(p, m)
  OBVIOUS
<1>1. HL(n) = index /\ ReadPair(2, n) = index /\ n.f = m.f /\ n.sp = m.sp
  BY <1>0, TwinValues, TwinSays
<1>2. ASSUME NEW g, NEW h, Twins(p, g, h, 0), NEW v
      PROVE  /\ Twins(p, WritePair(2, v, g), SetIndex(p, v, h), 0)
             /\ Twins(p, Put("wz", v, g), Put("wz", v, h), 0)
  BY <1>2, TwinIndex, TwinPut, SharedAre
<1>3. PairOf(op) \in 0 .. 3 => Twins(p, OpAddHlRr(op, n), OpAddIndexRr(p, op, m), 4)
  <2>1. SUFFICES ASSUME PairOf(op) \in 0 .. 3
                 PROVE  Twins(p, OpAddHlRr(op, n), OpAddIndexRr(p, op, m), 4)
    OBVIOUS
  <2>2. ReadPair(PairOf(op), n) = IF PairOf(op) = 2 THEN index ELSE ReadPair(PairOf(op), m)
    <3>1. PairOf(op) \in {0, 1, 3} \/ PairOf(op) = 2
      BY <2>1
    <3> QED
      BY <1>1, <3>1, TwinValues
  <2>3. PICK result : result = Add16KeepSzpv(index, ReadPair(PairOf(op), n), n.f)
    OBVIOUS
  <2>4. Twins(p, WritePair(2, result.r, n), SetIndex(p, result.r, m), 0)
    BY <1>2
  <2>5. Twins(p, Put("wz", Wrap16(index + 1), WritePair(2, result.r, n)), Put("wz", Wrap16(index + 1), SetIndex(p, result.r, m)), 0)
    BY <1>2, <2>4
  <2>6. Twins(p, Setting(result.f, 11, Put("wz", Wrap16(index + 1), WritePair(2, result.r, n))),
                 Setting(result.f, 15, Put("wz", Wrap16(index + 1), SetIndex(p, result.r, m))), 4)
    BY <2>5, TwinEndPrefixed
  <2>7. ASSUME NEW res, NEW t, NEW h
        PROVE  OntoHl(res, t, h) = Setting(res.f, t, Put("wz", Wrap16(HL(h) + 1), WritePair(2, res.r, h)))
    BY Zenon DEF OntoHl, Put
  <2>8. OpAddHlRr(op, n) = Setting(result.f, 11, Put("wz", Wrap16(index + 1), WritePair(2, result.r, n)))
    BY <1>1, <2>3, <2>7 DEF OpAddHlRr
  <2>9. OpAddIndexRr(p, op, m) = Setting(result.f, 15, Put("wz", Wrap16(index + 1), SetIndex(p, result.r, m)))
    <3>0. PICK other : other = ReadPair(PairOf(op), n)
      OBVIOUS
    <3>a. result = Add16KeepSzpv(index, other, m.f)
      BY <1>1, <2>3, <3>0
    <3>b. other = IF PairOf(op) = 2 THEN index ELSE ReadPair(PairOf(op), m)
      BY <2>2, <3>0
    <3>1. result = Add16KeepSzpv(index, IF PairOf(op) = 2 THEN index ELSE ReadPair(PairOf(op), m), m.f)
      BY <3>a, <3>b, Zenon
    <3> QED
      BY <1>0, <3>1, Zenon DEF OpAddIndexRr, Put
  <2> QED
    BY <2>6, <2>8, <2>9
<1>4. ASSUME PairOf(op) = 2
      PROVE  /\ Twins(p, OpLdRrNn(op, args, n), OpLdIndexNn(p, args, m), 4)
             /\ Twins(p, OpPopRr(op, n), OpPopIndex(p, m), 4)
             /\ Twins(p, OpPushRr(op, n), OpPushIndex(p, m), 4)
  <2>1. Twins(p, OpLdRrNn(op, args, n), OpLdIndexNn(p, args, m), 4)
    <3>0. PICK v : v = Operand(args)
      OBVIOUS
    <3>1. Twins(p, WritePair(2, v, n), SetIndex(p, v, m), 0)
      BY <1>2
    <3>2. Twins(p, Keeping(10, WritePair(2, v, n)), Keeping(14, SetIndex(p, v, m)), 4)
      BY <3>1, TwinEndPrefixed
    <3> QED
      BY <1>4, <3>0, <3>2 DEF OpLdRrNn, OpLdIndexNn
  <2>2. Twins(p, OpPopRr(op, n), OpPopIndex(p, m), 4)
    <3>1. Twins(p, PopWord(n), PopWord(m), 0) /\ WordAt(n.sp, n) = WordAt(m.sp, m)
      BY <1>1, TwinWords, TwinValues
    <3>2. Twins(p, WritePair(2, WordAt(n.sp, n), PopWord(n)), SetIndex(p, WordAt(m.sp, m), PopWord(m)), 0)
      BY <1>2, <3>1
    <3>3. Twins(p, Keeping(10, WritePair(2, WordAt(n.sp, n), PopWord(n))), Keeping(14, SetIndex(p, WordAt(m.sp, m), PopWord(m))), 4)
      BY <3>2, TwinEndPrefixed
    <3> QED
      BY <1>4, <3>3 DEF OpPopRr, OpPopIndex
  <2>3. Twins(p, OpPushRr(op, n), OpPushIndex(p, m), 4)
    <3>1. Twins(p, PushWord(index, n), PushWord(index, m), 0)
      BY TwinWords
    <3>2. Twins(p, Keeping(11, PushWord(index, n)), Keeping(15, PushWord(index, m)), 4)
      BY <3>1, TwinEndPrefixed
    <3> QED
      BY <1>0, <1>1, <1>4, <3>2 DEF OpPushRr, OpPushIndex
  <2> QED
    BY <2>1, <2>2, <2>3
<1>5. PICK address : address = Operand(args)
  OBVIOUS
<1>6. PICK next : next = Wrap16(address + 1)
  OBVIOUS
<1>7. Twins(p, OpLdNnHl(args, n), OpLdNnIndex(p, args, m), 4)
  <2>1. Twins(p, WordStored(address, index, n), WordStored(address, index, m), 0)
    BY TwinWords
  <2>2. Twins(p, Keeping(16, WordStored(address, index, n)), Keeping(20, WordStored(address, index, m)), 4)
    BY <2>1, TwinEndPrefixed
  <2>3. OpLdNnIndex(p, args, m) = Keeping(20, WordStored(address, index, m))
    BY <1>0, <1>5, Zenon DEF OpLdNnIndex, WordStored
  <2>4. OpLdNnHl(args, n) = Keeping(16, WordStored(address, index, n))
    BY <1>1, <1>5 DEF OpLdNnHl
  <2> QED
    BY <2>2, <2>3, <2>4
<1>8. Twins(p, OpLdHlNnFromMem(args, n), OpLdIndexNnFromMem(p, args, m), 4)
  <2>1. PICK value : value = WordAt(address, n)
    OBVIOUS
  <2>2. value = WordAt(address, m) /\ Twins(p, ReadWord(address, n), ReadWord(address, m), 0)
    BY <2>1, TwinValues, TwinWords
  <2>3. Twins(p, Put("wz", next, ReadWord(address, n)), Put("wz", next, ReadWord(address, m)), 0)
    BY <1>2, <2>2
  <2>4. Twins(p, WritePair(2, value, Put("wz", next, ReadWord(address, n))), SetIndex(p, value, Put("wz", next, ReadWord(address, m))), 0)
    BY <1>2, <2>3
  <2>5. SetIndex(p, value, Put("wz", next, ReadWord(address, m))) = Put("wz", next, SetIndex(p, value, ReadWord(address, m)))
    BY <2>2, LatchCommutes DEF Twins
  <2>6. Twins(p, Keeping(16, WritePair(2, value, Put("wz", next, ReadWord(address, n)))),
                 Keeping(20, Put("wz", next, SetIndex(p, value, ReadWord(address, m)))), 4)
    BY <2>4, <2>5, TwinEndPrefixed
  <2>7. OpLdHlNnFromMem(args, n) = Keeping(16, WritePair(2, value, Put("wz", next, ReadWord(address, n))))
    BY <1>5, <1>6, <2>1, Zenon DEF OpLdHlNnFromMem, WordLoaded, Put
  <2>8. OpLdIndexNnFromMem(p, args, m) = Keeping(20, Put("wz", next, SetIndex(p, value, ReadWord(address, m))))
    BY <1>5, <1>6, <2>2, Zenon DEF OpLdIndexNnFromMem, ReadWord, WordAt, Put
  <2> QED
    BY <2>6, <2>7, <2>8
<1>9. ASSUME op \in {\h23, \h2B}
      PROVE  Twins(p, OpIncDecRr(op, n), OpIncDecIndex(p, op, m), 4)
  <2>1. PairOf(op) = 2 /\ (op % 16 = 3 <=> op = \h23)
    BY <1>9 DEF PairOf
  <2>2. PICK by : by = IF op = \h23 THEN 1 ELSE -1
    OBVIOUS
  <2>3. Twins(p, WritePair(2, index + by, n), SetIndex(p, index + by, m), 0)
    BY <1>2
  <2>4. Twins(p, Keeping(6, WritePair(2, index + by, n)), Keeping(10, SetIndex(p, index + by, m)), 4)
    BY <2>3, TwinEndPrefixed
  <2>5. OpIncDecRr(op, n) = Keeping(6, WritePair(2, index + by, n))
    BY <1>1, <2>1, <2>2 DEF OpIncDecRr
  <2>6. OpIncDecIndex(p, op, m) = Keeping(10, SetIndex(p, index + by, m))
    BY <1>0, <2>2 DEF OpIncDecIndex
  <2> QED
    BY <2>4, <2>5, <2>6
<1>10. Twins(p, OpExSpHl(n), OpExSpIndex(p, m), 4)
  <2>1. PICK value : value = WordAt(n.sp, n)
    OBVIOUS
  <2>2. value = WordAt(m.sp, m) /\ Twins(p, ReadWord(n.sp, n), ReadWord(m.sp, m), 0)
    BY <1>1, <2>1, TwinValues, TwinWords
  <2>3. PICK above : above = Wrap16(n.sp + 1)
    OBVIOUS
  <2>4. Twins(p, Write(above, Hi(index), ReadWord(n.sp, n)), Write(above, Hi(index), ReadWord(m.sp, m)), 0)
    BY <2>2, TwinAccesses
  <2>5. PICK g : g = Write(n.sp, Lo(index), Write(above, Hi(index), ReadWord(n.sp, n)))
    OBVIOUS
  <2>6. PICK h : h = Write(m.sp, Lo(index), Write(above, Hi(index), ReadWord(m.sp, m)))
    OBVIOUS
  <2>7. Twins(p, g, h, 0)
    BY <1>1, <2>4, <2>5, <2>6, TwinAccesses
  <2>8. Twins(p, Put("wz", value, g), Put("wz", value, h), 0)
    BY <1>2, <2>7
  <2>9. Twins(p, WritePair(2, value, Put("wz", value, g)), SetIndex(p, value, Put("wz", value, h)), 0)
    BY <1>2, <2>8
  <2>10. SetIndex(p, value, Put("wz", value, h)) = Put("wz", value, SetIndex(p, value, h))
    BY <2>7, LatchCommutes DEF Twins
  <2>11. Twins(p, Keeping(19, WritePair(2, value, Put("wz", value, g))), Keeping(23, Put("wz", value, SetIndex(p, value, h))), 4)
    BY <2>9, <2>10, TwinEndPrefixed
  <2>12. OpExSpHl(n) = Keeping(19, WritePair(2, value, Put("wz", value, g)))
    <3>1. TopExchanged(index, n) = Put("wz", value, g)
      BY <2>1, <2>3, <2>5, Zenon DEF TopExchanged, Put
    <3> QED
      BY <1>1, <2>1, <3>1 DEF OpExSpHl
  <2>13. OpExSpIndex(p, m) = Keeping(23, Put("wz", value, SetIndex(p, value, h)))
    <3>1. above = Wrap16(m.sp + 1)
      BY <1>1, <2>3
    <3> QED
      BY <1>0, <2>2, <2>6, <3>1, Zenon DEF OpExSpIndex, Put
  <2> QED
    BY <2>11, <2>12, <2>13
<1>11. Twins(p, OpJpHl(n), OpJpIndex(p, m), 4)
  <2>1. Twins(p, Put("pc", index, n), Put("pc", index, m), 0)
    BY TwinPut, SharedAre
  <2>2. Twins(p, Keeping(4, Put("pc", index, n)), Keeping(8, Put("pc", index, m)), 4)
    BY <2>1, TwinEndPrefixed
  <2>3. OpJpHl(n) = Keeping(4, Put("pc", index, n)) /\ OpJpIndex(p, m) = Keeping(8, Put("pc", index, m))
    BY <1>0, <1>1, Zenon DEF OpJpHl, OpJpIndex, Put
  <2> QED
    BY <2>2, <2>3
<1>12. Twins(p, OpLdSpHl(n), OpLdSpIndex(p, m), 4)
  <2>1. Twins(p, Put("sp", index, n), Put("sp", index, m), 0)
    BY TwinPut, SharedAre
  <2>2. Twins(p, Keeping(6, Put("sp", index, n)), Keeping(10, Put("sp", index, m)), 4)
    BY <2>1, TwinEndPrefixed
  <2>3. OpLdSpHl(n) = Keeping(6, Put("sp", index, n)) /\ OpLdSpIndex(p, m) = Keeping(10, Put("sp", index, m))
    BY <1>0, <1>1, Zenon DEF OpLdSpHl, OpLdSpIndex, Put
  <2> QED
    BY <2>2, <2>3
<1> QED
  BY <1>3, <1>4, <1>7, <1>8, <1>9, <1>10, <1>11, <1>12

(* The halves of the index register in the place of H and L *)
LEMMA TwinIndexBytes ==
  ASSUME NEW p, NEW n, NEW m, Twins(p, n, m, 0), Fits(n), Fits(m), NEW op, NEW args
  PROVE  /\ Field(op) \in {4, 5} => /\ args[1] \in Bytes => Twins(p, OpLdRN(op, args, n), OpLdIndexByteN(p, op, args, m), 4)
                                    /\ Twins(p, OpIncDec(op, n), OpIncDecIndexByte(p, op, m), 4)
         /\ Field(op) \in {4, 5} /\ Low(op) \in {4, 5} => Twins(p, OpLdRR(op, n), OpLdIndexByteIndexByte(p, op, m), 4)
         /\ Field(op) \in {4, 5} /\ Low(op) \in Plain => Twins(p, OpLdRR(op, n), OpLdIndexByteR(p, op, m), 4)
         /\ Field(op) \in Plain /\ Low(op) \in {4, 5} => Twins(p, OpLdRR(op, n), OpLdRIndexByte(p, op, m), 4)
         /\ Low(op) \in {4, 5} => Twins(p, OpAluR(op, n), OpAluIndexByte(p, op, m), 4)
<1>0. Plain = RegisterIndex \ {4, 5} /\ 6 \notin Plain /\ {4, 5} \subseteq RegisterIndex
  BY DEF Plain, RegisterIndex
<1>1. GetIndex(p, m) \in Words /\ n.reg = [k \in RegisterIndex |-> n.reg[k]] /\ n.f = m.f
      /\ \A k \in RegisterIndex : n.reg[k] \in Bytes /\ n.reg[k] \in Int
  <2>1. n.reg \in [RegisterIndex -> Bytes]
    BY DEF Fits
  <2>2. \A k \in RegisterIndex : n.reg[k] \in Bytes /\ n.reg[k] \in Int
    BY <2>1 DEF Bytes
  <2> QED
    BY <2>1, <2>2, IndexFits, TwinSays
<1>2. ASSUME NEW k \in {4, 5}
      PROVE  IndexByte(p, k, m) = n.reg[k]
  BY <1>2, TwinValues
<1>3. ASSUME NEW k \in {4, 5}, NEW v \in Int
      PROVE  Twins(p, WriteReg(k, v, n), SetIndexByte(p, k, v, m), 0)
  BY <1>1, TwinHalf
<1>4. ASSUME NEW k \in Plain \cup {4, 5}
      PROVE  \A h : Source(k, h) = h.reg[k] /\ Fetched(k, h) = h /\ \A b : Store(k, b, h) = WriteReg(k, b, h)
  BY <1>0 DEF Source, Fetched, Store
<1>5. ASSUME NEW g, NEW h, Twins(p, g, h, 0)
      PROVE  Twins(p, Keeping(4, g), Keeping(8, h), 4) /\ Twins(p, Keeping(7, g), Keeping(11, h), 4)
             /\ \A fl : Twins(p, Setting(fl, 4, g), Setting(fl, 8, h), 4)
  BY <1>5, TwinEndPrefixed
<1>6. ASSUME Field(op) \in {4, 5}
      PROVE  /\ args[1] \in Bytes => Twins(p, OpLdRN(op, args, n), OpLdIndexByteN(p, op, args, m), 4)
             /\ Twins(p, OpIncDec(op, n), OpIncDecIndexByte(p, op, m), 4)
  <2>1. ASSUME args[1] \in Bytes
        PROVE  Twins(p, OpLdRN(op, args, n), OpLdIndexByteN(p, op, args, m), 4)
    <3>1. args[1] \in Int
      BY <2>1 DEF Bytes
    <3>2. Twins(p, WriteReg(Field(op), args[1], n), SetIndexByte(p, Field(op), args[1], m), 0)
      BY <1>3, <1>6, <3>1
    <3>b. PICK v : v = args[1]
      OBVIOUS
    <3>c. Store(Field(op), v, n) = WriteReg(Field(op), v, n)
      BY <1>4, <1>6
    <3>d. Field(op) # 6
      BY <1>6
    <3>a. Field(op) # 6 /\ Store(Field(op), args[1], n) = WriteReg(Field(op), args[1], n)
      BY <3>b, <3>c, <3>d
    <3>3. OpLdRN(op, args, n) = Keeping(7, WriteReg(Field(op), args[1], n))
      <4>1. OpLdRN(op, args, n) = Keeping(7, Store(Field(op), args[1], n))
        BY <3>a DEF OpLdRN
      <4> QED
        BY <3>a, <4>1
    <3> QED
      BY <1>5, <3>2, <3>3 DEF OpLdIndexByteN
  <2>2. Twins(p, OpIncDec(op, n), OpIncDecIndexByte(p, op, m), 4)
    <3>1. PICK x : x = n.reg[Field(op)]
      OBVIOUS
    <3>2. PICK result : result = IF Low(op) = 4 THEN Increment(x, n.f) ELSE Decrement(x, n.f)
      OBVIOUS
    <3>3. result.r \in Int
      <4>1. x \in Bytes
        BY <1>0, <1>1, <1>6, <3>1
      <4>2. Increment(x, n.f).r \in Bytes /\ Decrement(x, n.f).r \in Bytes
        BY <4>1, StepsFit
      <4>3. result.r \in Bytes
        BY <3>2, <4>2
      <4> QED
        BY <4>3 DEF Bytes
    <3>4. Twins(p, WriteReg(Field(op), result.r, n), SetIndexByte(p, Field(op), result.r, m), 0)
      BY <1>3, <1>6, <3>3
    <3>a. /\ Field(op) # 6 /\ Source(Field(op), n) = x /\ Fetched(Field(op), n) = n
          /\ Store(Field(op), result.r, n) = WriteReg(Field(op), result.r, n)
      BY <1>4, <1>6, <3>1
    <3>5. OpIncDec(op, n) = Setting(result.f, 4, WriteReg(Field(op), result.r, n))
      BY <3>a, <3>2, Zenon DEF OpIncDec
    <3>6. OpIncDecIndexByte(p, op, m) = Setting(result.f, 8, SetIndexByte(p, Field(op), result.r, m))
      <4>1. x = IndexByte(p, Field(op), m)
        BY <1>2, <1>6, <3>1
      <4> QED
        BY <1>1, <3>2, <4>1 DEF OpIncDecIndexByte
    <3>7. Twins(p, Setting(result.f, 4, WriteReg(Field(op), result.r, n)), Setting(result.f, 8, SetIndexByte(p, Field(op), result.r, m)), 4)
      BY <1>5, <3>4
    <3> QED
      BY <3>5, <3>6, <3>7
  <2> QED
    BY <2>1, <2>2
<1>7. ASSUME Field(op) \in Plain \cup {4, 5}, Low(op) \in Plain \cup {4, 5}
      PROVE  OpLdRR(op, n) = Keeping(4, WriteReg(Field(op), n.reg[Low(op)], n))
  <2>1. Low(op) # 6 /\ Field(op) # 6
    BY <1>0, <1>7
  <2>2. OpLdRR(op, n) = Keeping(4, Store(Field(op), Source(Low(op), n), Fetched(Low(op), n)))
    BY <2>1 DEF OpLdRR
  <2> QED
    BY <1>4, <1>7, <2>2
<1>8. ASSUME Field(op) \in {4, 5}, Low(op) \in {4, 5}
      PROVE  Twins(p, OpLdRR(op, n), OpLdIndexByteIndexByte(p, op, m), 4)
  <2>1. n.reg[Low(op)] \in Int /\ IndexByte(p, Low(op), m) = n.reg[Low(op)]
    BY <1>0, <1>1, <1>2, <1>8
  <2>2. Twins(p, WriteReg(Field(op), n.reg[Low(op)], n), SetIndexByte(p, Field(op), n.reg[Low(op)], m), 0)
    BY <1>3, <1>8, <2>1
  <2>3. Twins(p, Keeping(4, WriteReg(Field(op), n.reg[Low(op)], n)), Keeping(8, SetIndexByte(p, Field(op), n.reg[Low(op)], m)), 4)
    BY <1>5, <2>2
  <2> QED
    BY <1>7, <1>8, <2>1, <2>3 DEF OpLdIndexByteIndexByte
<1>9. ASSUME Field(op) \in {4, 5}, Low(op) \in Plain
      PROVE  Twins(p, OpLdRR(op, n), OpLdIndexByteR(p, op, m), 4)
  <2>1. n.reg[Low(op)] \in Int
    BY <1>0, <1>1, <1>9
  <2>a. m.reg[Low(op)] = n.reg[Low(op)]
    BY <1>0, <1>9 DEF Twins
  <2>2. Twins(p, WriteReg(Field(op), n.reg[Low(op)], n), SetIndexByte(p, Field(op), n.reg[Low(op)], m), 0)
    BY <1>3, <1>9, <2>1
  <2>3. Twins(p, Keeping(4, WriteReg(Field(op), n.reg[Low(op)], n)), Keeping(8, SetIndexByte(p, Field(op), n.reg[Low(op)], m)), 4)
    BY <1>5, <2>2
  <2> QED
    BY <1>7, <1>9, <2>a, <2>3 DEF OpLdIndexByteR
<1>10. ASSUME Field(op) \in Plain, Low(op) \in {4, 5}
       PROVE  Twins(p, OpLdRR(op, n), OpLdRIndexByte(p, op, m), 4)
  <2>1. IndexByte(p, Low(op), m) = n.reg[Low(op)]
    BY <1>2, <1>10
  <2>2. Twins(p, WriteReg(Field(op), n.reg[Low(op)], n), WriteReg(Field(op), n.reg[Low(op)], m), 0)
    BY <1>0, <1>10, TwinRegisters
  <2>3. Twins(p, Keeping(4, WriteReg(Field(op), n.reg[Low(op)], n)), Keeping(8, WriteReg(Field(op), n.reg[Low(op)], m)), 4)
    BY <1>5, <2>2
  <2> QED
    BY <1>7, <1>10, <2>1, <2>3 DEF OpLdRIndexByte
<1>11. ASSUME Low(op) \in {4, 5}
       PROVE  Twins(p, OpAluR(op, n), OpAluIndexByte(p, op, m), 4)
  <2>1. OpAluR(op, n) = AluOn(op, n.reg[Low(op)], 4, n)
    BY <1>4, <1>11 DEF OpAluR
  <2>2. IndexByte(p, Low(op), m) = n.reg[Low(op)]
    BY <1>2, <1>11
  <2>3. \A v : Twins(p, AluOn(op, v, 4, n), AluOn(op, v, 8, m), 4)
    BY TwinAlu
  <2> QED
    BY <2>1, <2>2, <2>3 DEF OpAluIndexByte
<1> QED
  BY <1>6, <1>8, <1>9, <1>10, <1>11

(* The opcodes a prefix gives a handler of its own that reaches no memory through the index register *)
Renamed ==
  {\h09, \h19, \h29, \h39, \h21, \h22, \h2A, \h23, \h2B, \h24, \h25, \h2C, \h2D, \h26, \h2E,
   \hE1, \hE3, \hE5, \hE9, \hF9}
  \cup {op \in \h40 .. \hBF : Low(op) \in {4, 5} /\ op \notin \h70 .. \h77}
  \cup {op \in \h60 .. \h6F : Low(op) # 6}

LEMMA TwinRenamed ==
  ASSUME NEW p, NEW n, NEW m, Twins(p, n, m, 0), Fits(n), Fits(m), NEW op \in Renamed, NEW args,
         op \in IndexOne \cup IndexTwo => args[1] \in Bytes
  PROVE  Twins(p, MainEffect(op, args, n), IndexedEffect(p, op, args, m), 4)
<1>0. GetIndex(p, m) \in Words
  BY IndexFits
<1>1. /\ PairOf(op) \in 0 .. 3 => Twins(p, OpAddHlRr(op, n), OpAddIndexRr(p, op, m), 4)
      /\ PairOf(op) = 2 => /\ Twins(p, OpLdRrNn(op, args, n), OpLdIndexNn(p, args, m), 4)
                           /\ Twins(p, OpPopRr(op, n), OpPopIndex(p, m), 4)
                           /\ Twins(p, OpPushRr(op, n), OpPushIndex(p, m), 4)
      /\ Twins(p, OpLdNnHl(args, n), OpLdNnIndex(p, args, m), 4)
      /\ Twins(p, OpLdHlNnFromMem(args, n), OpLdIndexNnFromMem(p, args, m), 4)
      /\ op \in {\h23, \h2B} => Twins(p, OpIncDecRr(op, n), OpIncDecIndex(p, op, m), 4)
      /\ Twins(p, OpExSpHl(n), OpExSpIndex(p, m), 4)
      /\ Twins(p, OpJpHl(n), OpJpIndex(p, m), 4) /\ Twins(p, OpLdSpHl(n), OpLdSpIndex(p, m), 4)
  BY <1>0, TwinIndexWords
<1>2. /\ Field(op) \in {4, 5} => /\ args[1] \in Bytes => Twins(p, OpLdRN(op, args, n), OpLdIndexByteN(p, op, args, m), 4)
                                 /\ Twins(p, OpIncDec(op, n), OpIncDecIndexByte(p, op, m), 4)
      /\ Field(op) \in {4, 5} /\ Low(op) \in {4, 5} => Twins(p, OpLdRR(op, n), OpLdIndexByteIndexByte(p, op, m), 4)
      /\ Field(op) \in {4, 5} /\ Low(op) \in Plain => Twins(p, OpLdRR(op, n), OpLdIndexByteR(p, op, m), 4)
      /\ Field(op) \in Plain /\ Low(op) \in {4, 5} => Twins(p, OpLdRR(op, n), OpLdRIndexByte(p, op, m), 4)
      /\ Low(op) \in {4, 5} => Twins(p, OpAluR(op, n), OpAluIndexByte(p, op, m), 4)
  BY TwinIndexBytes
<1>3. CASE op < \h40
  <2>1. op \in {\h09, \h19, \h29, \h39, \h21, \h22, \h2A, \h23, \h2B, \h24, \h25, \h2C, \h2D, \h26, \h2E}
    BY <1>3 DEF Renamed
  <2>2. op \in {\h26, \h2E} => args[1] \in Bytes
    BY DEF IndexOne
  <2> QED
    BY <1>1, <1>2, <2>1, <2>2, Every8Is DEF MainEffect, IndexedEffect, Field, Low, PairOf
<1>4. CASE op \in \h40 .. \h7F
  <2>1. op # \h76 /\ MainEffect(op, args, n) = OpLdRR(op, n)
    BY <1>4, Every8Is DEF MainEffect, Renamed, Low
  <2>2. \/ op \in {\h64, \h65, \h6C, \h6D}
        \/ op \in \h60 .. \h6F /\ Low(op) \in Plain
        \/ op \notin \h60 .. \h6F /\ op \notin \h70 .. \h77 /\ Low(op) \in {4, 5}
    BY <1>4 DEF Renamed, Low, Plain
  <2>3. CASE op \in {\h64, \h65, \h6C, \h6D}
    <3>1. IndexedEffect(p, op, args, m) = OpLdIndexByteIndexByte(p, op, m)
      BY <2>3 DEF IndexedEffect, Low, Field
    <3>2. Field(op) \in {4, 5} /\ Low(op) \in {4, 5}
      BY <2>3 DEF Field, Low
    <3> QED
      BY <1>2, <2>1, <3>1, <3>2
  <2>4. CASE op \in \h60 .. \h6F /\ Low(op) \in Plain
    <3>1. IndexedEffect(p, op, args, m) = OpLdIndexByteR(p, op, m)
      BY <2>4 DEF IndexedEffect, Plain, Low
    <3>2. Field(op) \in {4, 5}
      BY <2>4 DEF Field
    <3> QED
      BY <1>2, <2>1, <2>4, <3>1, <3>2
  <2>5. CASE op \notin \h60 .. \h6F /\ op \notin \h70 .. \h77 /\ Low(op) \in {4, 5}
    <3>1. Field(op) \in Plain
      BY <1>4, <2>5 DEF Field, Plain
    <3>2. IndexedEffect(p, op, args, m) = OpLdRIndexByte(p, op, m)
      BY <1>4, <2>5, <3>1 DEF IndexedEffect, Plain, Low
    <3> QED
      BY <1>2, <2>1, <2>5, <3>1, <3>2
  <2> QED
    BY <2>2, <2>3, <2>4, <2>5
<1>5. CASE op \in \h80 .. \hBF
  <2>1. Low(op) \in {4, 5}
    BY <1>5 DEF Renamed
  <2>2. MainEffect(op, args, n) = OpAluR(op, n)
    BY <1>5, Every8Is DEF MainEffect
  <2>3. IndexedEffect(p, op, args, m) = OpAluIndexByte(p, op, m)
    BY <1>5, <2>1 DEF IndexedEffect
  <2> QED
    BY <1>2, <2>1, <2>2, <2>3
<1>6. CASE op > \hBF
  <2>1. op \in {\hE1, \hE3, \hE5, \hE9, \hF9}
    BY <1>6 DEF Renamed
  <2> QED
    BY <1>1, <2>1, Every8Is DEF MainEffect, IndexedEffect, PairOf
<1>7. op \in Int
  BY DEF Renamed
<1> QED
  BY <1>3, <1>4, <1>5, <1>6, <1>7

(* LD R,A alone writes R, and no page but ED's has it *)
SameR(n, s) == "r" \in DOMAIN n /\ n.r = s.r

LEMMA MovesKeepR ==
  ASSUME NEW s, NEW n, SameR(n, s), NEW a, NEW v
  PROVE  /\ SameR(Read(a, n), s) /\ SameR(Write(a, v, n), s)
         /\ SameR(In(a, n), s) /\ SameR(Out(a, v, n), s)
         /\ SameR(WriteReg(a, v, n), s) /\ SameR(WritePair(a, v, n), s)
         /\ SameR(Keeping(a, n), s) /\ SameR(Setting(v, a, n), s) /\ SameR(Delayed(a, n), s)
         /\ SameR([n EXCEPT !.wz = v], s) /\ SameR([n EXCEPT !.pc = v], s) /\ SameR([n EXCEPT !.sp = v], s)
         /\ SameR([n EXCEPT !.halted = v], s) /\ SameR([n EXCEPT !.q = v], s)
         /\ SameR([n EXCEPT !.reg[a] = v], s)
<1>1. SameR(Read(a, n), s) /\ SameR(Write(a, v, n), s) /\ SameR(In(a, n), s) /\ SameR(Out(a, v, n), s)
  BY DEF SameR, Read, Write, In, Out
<1>2. SameR(WriteReg(a, v, n), s) /\ SameR(WritePair(a, v, n), s)
  BY DEF SameR, WriteReg, WritePair
<1>3. SameR(Keeping(a, n), s) /\ SameR(Setting(v, a, n), s) /\ SameR(Delayed(a, n), s)
  BY DEF SameR, Keeping, Setting, Delayed
<1>4. /\ SameR([n EXCEPT !.wz = v], s) /\ SameR([n EXCEPT !.pc = v], s) /\ SameR([n EXCEPT !.sp = v], s)
      /\ SameR([n EXCEPT !.halted = v], s) /\ SameR([n EXCEPT !.q = v], s)
      /\ SameR([n EXCEPT !.reg[a] = v], s)
  BY DEF SameR
<1> QED
  BY <1>1, <1>2, <1>3, <1>4

LEMMA StackKeepsR ==
  ASSUME NEW s, NEW n, SameR(n, s), NEW a, NEW v
  PROVE  /\ SameR(PushWord(v, n), s) /\ SameR(PopWord(n), s) /\ SameR(Jumped(a, n), s)
         /\ SameR(ReadWord(a, n), s) /\ SameR(WordStored(a, v, n), s) /\ SameR(WordLoaded(a, n), s)
         /\ SameR(TopExchanged(v, n), s) /\ SameR(Fetched(a, n), s) /\ SameR(Store(a, v, n), s)
<1>1. SameR(PushWord(v, n), s) /\ SameR(Jumped(a, n), s) /\ SameR(ReadWord(a, n), s)
  BY DEF SameR, PushWord, Jumped, ReadWord, Write, Read
<1>2. SameR(Fetched(a, n), s) /\ SameR(Store(a, v, n), s)
  BY MovesKeepR DEF Fetched, Store
<1>3. /\ SameR(PopWord(n), s) /\ SameR(WordStored(a, v, n), s) /\ SameR(WordLoaded(a, n), s)
      /\ SameR(TopExchanged(v, n), s)
  BY MovesKeepR DEF PopWord, ReadWord, WordStored, WordLoaded, TopExchanged
<1> QED
  BY <1>1, <1>2, <1>3

LEMMA LoadsKeepR ==
  ASSUME NEW s, SameR(s, s), NEW op, NEW args
  PROVE  /\ SameR(OpLdRR(op, s), s) /\ SameR(OpLdRN(op, args, s), s)
         /\ SameR(OpLdAIrr(op, s), s) /\ SameR(OpLdIrrA(op, s), s)
         /\ SameR(OpLdAInn(args, s), s) /\ SameR(OpLdInnA(args, s), s)
         /\ SameR(OpLdNnHl(args, s), s) /\ SameR(OpLdHlNnFromMem(args, s), s)
         /\ SameR(OpLdSpHl(s), s) /\ SameR(OpLdRrNn(op, args, s), s)
         /\ SameR(OpPopRr(op, s), s) /\ SameR(OpPushRr(op, s), s)
         /\ SameR(OpPopAf(s), s) /\ SameR(OpPushAf(s), s)
<1>1. SameR(OpLdRR(op, s), s) /\ SameR(OpLdRN(op, args, s), s)
  BY StackKeepsR, MovesKeepR DEF OpLdRR, OpLdRN
<1>2. SameR(OpLdAIrr(op, s), s) /\ SameR(OpLdAInn(args, s), s)
  <2>1. ASSUME NEW a, NEW v, NEW w
        PROVE  SameR([Read(a, s) EXCEPT !.reg[7] = v, !.wz = w], s)
    BY DEF SameR, Read
  <2> QED
    BY <2>1, MovesKeepR DEF OpLdAIrr, OpLdAInn
<1>3. SameR(OpLdIrrA(op, s), s) /\ SameR(OpLdInnA(args, s), s) /\ SameR(OpLdSpHl(s), s)
  BY MovesKeepR DEF OpLdIrrA, OpLdInnA, OpLdSpHl
<1>4. SameR(OpLdNnHl(args, s), s) /\ SameR(OpLdHlNnFromMem(args, s), s)
  BY StackKeepsR, MovesKeepR DEF OpLdNnHl, OpLdHlNnFromMem
<1>5. SameR(OpLdRrNn(op, args, s), s) /\ SameR(OpPopRr(op, s), s)
  BY StackKeepsR, MovesKeepR DEF OpLdRrNn, OpPopRr
<1>6. SameR(OpPushRr(op, s), s) /\ SameR(OpPushAf(s), s)
  BY StackKeepsR, MovesKeepR DEF OpPushRr, OpPushAf
<1>7. SameR(OpPopAf(s), s)
  <2>1. \A v, fl : SameR([PopWord(s) EXCEPT !.reg[7] = v, !.f = fl], s)
    BY StackKeepsR DEF SameR
  <2> QED
    BY <2>1, MovesKeepR DEF OpPopAf
<1> QED
  BY <1>1, <1>2, <1>3, <1>4, <1>5, <1>6, <1>7

LEMMA AluKeepsR ==
  ASSUME NEW s, SameR(s, s), NEW op, NEW args
  PROVE  /\ SameR(OpAluR(op, s), s) /\ SameR(OpAluN(op, args, s), s) /\ SameR(OpIncDec(op, s), s)
         /\ SameR(OpRotA(op, s), s) /\ SameR(OpDaa(s), s) /\ SameR(OpCpl(s), s)
         /\ SameR(OpScfCcf(op, s), s) /\ SameR(OpAddHlRr(op, s), s) /\ SameR(OpIncDecRr(op, s), s)
         /\ SameR(OpRot(op, s), s) /\ SameR(OpBit(op, s), s) /\ SameR(OpResSet(op, s), s)
<1>1. ASSUME NEW n, SameR(n, s), NEW v, NEW t
      PROVE  SameR(AluOn(op, v, t, n), s) /\ SameR(ToA(v, t, n), s)
  BY <1>1, MovesKeepR DEF AluOn, ToA
<1>2. SameR(OpAluR(op, s), s) /\ SameR(OpAluN(op, args, s), s)
  BY <1>1, StackKeepsR DEF OpAluR, OpAluN
<1>3. SameR(OpRotA(op, s), s) /\ SameR(OpDaa(s), s) /\ SameR(OpCpl(s), s)
  BY <1>1 DEF OpRotA, OpDaa, OpCpl
<1>4. SameR(OpScfCcf(op, s), s) /\ SameR(OpIncDecRr(op, s), s)
  BY MovesKeepR DEF OpScfCcf, OpIncDecRr
<1>5. SameR(OpIncDec(op, s), s)
  BY StackKeepsR, MovesKeepR DEF OpIncDec
<1>6. SameR(OpAddHlRr(op, s), s)
  <2>1. \A result, t : SameR(OntoHl(result, t, s), s)
    BY MovesKeepR DEF OntoHl
  <2> QED
    BY <2>1 DEF OpAddHlRr
<1>7. SameR(OpRot(op, s), s) /\ SameR(OpBit(op, s), s) /\ SameR(OpResSet(op, s), s)
  BY StackKeepsR, MovesKeepR DEF OpRot, OpBit, OpResSet
<1> QED
  BY <1>2, <1>3, <1>4, <1>5, <1>6, <1>7

LEMMA ControlKeepsR ==
  ASSUME NEW s, SameR(s, s), NEW op, NEW args, NEW v
  PROVE  /\ SameR(OpJr(op, args, s), s) /\ SameR(OpDjnz(args, s), s) /\ SameR(OpJp(op, args, s), s)
         /\ SameR(OpJpHl(s), s) /\ SameR(OpCall(op, args, s), s) /\ SameR(OpRet(v, s), s)
         /\ SameR(OpRetCc(op, s), s) /\ SameR(OpRst(op, s), s)
         /\ SameR(OpInterruptEnable(v, s), s) /\ SameR(OpHalt(s), s)
         /\ SameR(OpExDeHl(s), s) /\ SameR(OpExx(s), s) /\ SameR(OpExAfAf(s), s) /\ SameR(OpExSpHl(s), s)
         /\ SameR(OpInAN(args, s), s) /\ SameR(OpOutNA(args, s), s)
<1>1. SameR(OpJr(op, args, s), s) /\ SameR(OpDjnz(args, s), s)
  BY StackKeepsR, MovesKeepR DEF OpJr, OpDjnz
<1>2. SameR(OpJp(op, args, s), s) /\ SameR(OpJpHl(s), s)
  BY StackKeepsR, MovesKeepR DEF OpJp, OpJpHl
<1>3. SameR(OpCall(op, args, s), s) /\ SameR(OpRst(op, s), s)
  BY StackKeepsR, MovesKeepR DEF OpCall, OpRst
<1>4. \A t : SameR(OpRet(t, s), s)
  BY StackKeepsR, MovesKeepR DEF OpRet
<1>5. SameR(OpRetCc(op, s), s)
  BY <1>4, MovesKeepR DEF OpRetCc
<1>6. /\ SameR(OpInterruptEnable(v, s), s) /\ SameR(OpHalt(s), s)
      /\ SameR(OpExx(s), s) /\ SameR(OpExAfAf(s), s) /\ SameR(OpInAN(args, s), s)
  BY DEF OpInterruptEnable, OpHalt, OpExx, OpExAfAf, OpInAN, In, Keeping, SameR
<1>7. SameR(OpExDeHl(s), s) /\ SameR(OpExSpHl(s), s)
  BY StackKeepsR, MovesKeepR DEF OpExDeHl, OpExSpHl
<1>8. SameR(OpOutNA(args, s), s)
  <2>1. \A port, value, latch : SameR([Out(port, value, s) EXCEPT !.wz = latch], s)
    BY DEF SameR, Out
  <2> QED
    BY <2>1, MovesKeepR DEF OpOutNA
<1> QED
  BY <1>1, <1>2, <1>3, <1>4, <1>5, <1>6, <1>7, <1>8

LEMMA MainKeepsR ==
  ASSUME NEW s, SameR(s, s), NEW op \in Byte \ {\hCB, \hDD, \hED, \hFD}, NEW args
  PROVE  SameR(MainEffect(op, args, s), s)
<1>1. /\ \A t : SameR(Keeping(t, s), s)
      /\ SameR(OpLdRR(op, s), s) /\ SameR(OpLdRN(op, args, s), s)
      /\ SameR(OpLdAIrr(op, s), s) /\ SameR(OpLdIrrA(op, s), s)
      /\ SameR(OpLdAInn(args, s), s) /\ SameR(OpLdInnA(args, s), s)
      /\ SameR(OpLdNnHl(args, s), s) /\ SameR(OpLdHlNnFromMem(args, s), s)
      /\ SameR(OpLdSpHl(s), s) /\ SameR(OpLdRrNn(op, args, s), s)
      /\ SameR(OpPopRr(op, s), s) /\ SameR(OpPushRr(op, s), s)
      /\ SameR(OpPopAf(s), s) /\ SameR(OpPushAf(s), s)
  BY LoadsKeepR, MovesKeepR
<1>2. /\ SameR(OpAluR(op, s), s) /\ SameR(OpAluN(op, args, s), s) /\ SameR(OpIncDec(op, s), s)
      /\ SameR(OpRotA(op, s), s) /\ SameR(OpDaa(s), s) /\ SameR(OpCpl(s), s)
      /\ SameR(OpScfCcf(op, s), s) /\ SameR(OpAddHlRr(op, s), s) /\ SameR(OpIncDecRr(op, s), s)
  BY AluKeepsR
<1>3. /\ SameR(OpJr(op, args, s), s) /\ SameR(OpDjnz(args, s), s) /\ SameR(OpJp(op, args, s), s)
      /\ SameR(OpJpHl(s), s) /\ SameR(OpCall(op, args, s), s) /\ SameR(OpRet(10, s), s)
      /\ SameR(OpRetCc(op, s), s) /\ SameR(OpRst(op, s), s)
      /\ SameR(OpHalt(s), s)
      /\ SameR(OpExDeHl(s), s) /\ SameR(OpExx(s), s) /\ SameR(OpExAfAf(s), s) /\ SameR(OpExSpHl(s), s)
      /\ SameR(OpInAN(args, s), s) /\ SameR(OpOutNA(args, s), s)
  BY ControlKeepsR
<1>4. SameR(OpInterruptEnable(op = \hFB, s), s)
  <2>1. PICK on : on = (op = \hFB)
    OBVIOUS
  <2>2. SameR(OpInterruptEnable(on, s), s)
    BY ControlKeepsR
  <2> QED
    BY <2>1, <2>2
<1>5. CASE op < \h40
  BY <1>1, <1>2, <1>3, <1>5, Every8Is DEF MainEffect, Byte
<1>6. CASE op \in \h40 .. \hBF
  BY <1>1, <1>2, <1>3, <1>6, Every8Is DEF MainEffect, Byte
<1>7. CASE op > \hBF
  BY <1>1, <1>2, <1>3, <1>4, <1>7, Every8Is DEF MainEffect, Byte
<1> QED
  BY <1>5, <1>6, <1>7 DEF Byte

LEMMA ExchangedIs ==
  ASSUME NEW s, GetIndex(prefix, s) \in Words
  PROVE  Exchanged(s) = SetIndex(prefix, HL(s), WritePair(2, GetIndex(prefix, s), s))
<1>1. PICK index : index = GetIndex(prefix, s)
  OBVIOUS
<1>2. Wrap16(index) = index
  BY <1>1, WordsAre DEF Wrap16
<1>3. WritePair(2, index, s) = [[s EXCEPT !.reg[4] = Hi(index)] EXCEPT !.reg[5] = Lo(index)]
  BY <1>2, IntoHl
<1>4. [s EXCEPT !.reg[4] = Hi(index), !.reg[5] = Lo(index)] = [[s EXCEPT !.reg[4] = Hi(index)] EXCEPT !.reg[5] = Lo(index)]
  OBVIOUS
<1>5. Exchanged(s) = SetIndex(prefix, HL(s), [s EXCEPT !.reg[4] = Hi(index), !.reg[5] = Lo(index)])
  BY <1>1, Zenon DEF Exchanged
<1> QED
  BY <1>1, <1>3, <1>4, <1>5

LEMMA TwinMade ==
  ASSUME NEW s, Fits(s), IsRecord(s), s.t \in Int
  PROVE  /\ Twins(prefix, Exchanged(s), s, 0)
         /\ Exchanged(s).reg = [k \in RegisterIndex |-> Exchanged(s).reg[k]]
<1> DEFINE index == GetIndex(prefix, s)
           g_ == [s EXCEPT !.reg[4] = Hi(index)]
           h_ == [g_ EXCEPT !.reg[5] = Lo(index)]
<1>1. index \in Words /\ Wrap16(index) = index
  BY IndexFits, WordsAre DEF Wrap16
<1>2. HL(s) \in Words /\ Wrap16(HL(s)) = HL(s)
  <2>1. s.reg[4] \in Bytes /\ s.reg[5] \in Bytes
    BY DEF Fits, RegisterIndex
  <2> QED
    BY <2>1, JoinsBack DEF HL
<1>3. Exchanged(s) = SetIndex(prefix, HL(s), h_)
  <2>1. WritePair(2, index, s) = h_
    BY <1>1, IntoHl
  <2> QED
    BY <1>1, <2>1, ExchangedIs
<1>4. /\ DOMAIN h_ = DOMAIN s /\ IsRecord(h_)
      /\ \A x \in DOMAIN s \ {"reg"} : h_[x] = s[x]
      /\ h_.reg = [[s.reg EXCEPT ![4] = Hi(index)] EXCEPT ![5] = Lo(index)]
  <2>1. /\ DOMAIN g_ = DOMAIN s /\ IsRecord(g_) /\ \A x \in DOMAIN s \ {"reg"} : g_[x] = s[x]
        /\ g_.reg = [s.reg EXCEPT ![4] = Hi(index)]
    BY DEF IsRecord, Fields
  <2> HIDE DEF g_, index
  <2> QED
    BY <2>1 DEF IsRecord, Fields
<1> HIDE DEF h_, g_, index
<1>5. s.reg \in [RegisterIndex -> Bytes]
  BY DEF Fits
<1>6. /\ DOMAIN h_.reg = RegisterIndex /\ h_.reg = [k \in RegisterIndex |-> h_.reg[k]]
      /\ h_.reg[4] = Hi(index) /\ h_.reg[5] = Lo(index)
      /\ \A k \in RegisterIndex \ {4, 5} : h_.reg[k] = s.reg[k]
  BY <1>4, <1>5 DEF RegisterIndex
<1>7. PICK e : e = SetIndex(prefix, HL(s), h_)
  OBVIOUS
<1>8. /\ IsRecord(e) /\ DOMAIN e = DOMAIN h_ /\ e.reg = h_.reg /\ e.t = h_.t
      /\ \A x \in DOMAIN h_ \ {"ix", "iy"} : e[x] = h_[x]
      /\ IF prefix = \hDD THEN e.ix = Wrap16(HL(s)) /\ e.iy = h_.iy ELSE e.iy = Wrap16(HL(s)) /\ e.ix = h_.ix
  BY <1>4, <1>7 DEF SetIndex, IsRecord, Fields
<1>9. h_.ix = s.ix /\ h_.iy = s.iy /\ h_.t = s.t
  BY <1>4 DEF IsRecord, Fields
<1>10. GetIndex(prefix, e) = HL(s)
  BY <1>2, <1>8 DEF GetIndex
<1>11. IF prefix = \hDD THEN e.iy = s.iy ELSE e.ix = s.ix
  BY <1>8, <1>9
<1>12. \A x \in DOMAIN s \ {"reg", "ix", "iy", "t"} : e[x] = s[x]
  BY <1>4, <1>8
<1>13. Exchanged(s) = e
  BY <1>3, <1>7
<1>14. s.t = e.t + 0 /\ e.t \in Int
  BY <1>8, <1>9
<1>15. e.reg = [k \in RegisterIndex |-> e.reg[k]]
  BY <1>6, <1>8
<1>16. /\ DOMAIN e.reg = RegisterIndex /\ e.reg[4] = Hi(index) /\ e.reg[5] = Lo(index)
       /\ \A k \in RegisterIndex \ {4, 5} : e.reg[k] = s.reg[k]
  BY <1>6, <1>8
<1>17. DOMAIN s.reg = RegisterIndex /\ IsRecord(e) /\ DOMAIN e = DOMAIN s
  BY <1>4, <1>5, <1>8
<1>18. Twins(prefix, e, s, 0)
  BY <1>10, <1>11, <1>12, <1>14, <1>16, <1>17 DEF Twins, index
<1> QED
  BY <1>13, <1>15, <1>18

LEMMA TwinBack ==
  ASSUME NEW n, NEW m, NEW d \in Int, Twins(prefix, n, m, d), Fits(n), Fits(m)
  PROVE  /\ m = Delayed(d, Exchanged(n)) /\ Exchanged(n).t \in Int
         /\ "t" \in DOMAIN Exchanged(n)
<1>1. m.reg \in [RegisterIndex -> Bytes] /\ GetIndex(prefix, m) \in Words
  BY IndexFits DEF Fits
<1>2. /\ GetIndex(prefix, n) = HL(m) /\ n.t \in Int /\ m.t = n.t + d
      /\ IsRecord(n) /\ IsRecord(m) /\ DOMAIN n = DOMAIN m
      /\ \A x \in DOMAIN m \ {"reg", "ix", "iy", "t"} : n[x] = m[x]
      /\ \A k \in RegisterIndex \ {4, 5} : n.reg[k] = m.reg[k]
      /\ n.reg[4] = Hi(GetIndex(prefix, m)) /\ n.reg[5] = Lo(GetIndex(prefix, m))
      /\ IF prefix = \hDD THEN n.iy = m.iy ELSE n.ix = m.ix
  BY DEF Twins
<1>3. Hi(HL(m)) = m.reg[4] /\ Lo(HL(m)) = m.reg[5]
  <2>1. m.reg[4] \in Bytes /\ m.reg[5] \in Bytes
    BY <1>1 DEF RegisterIndex
  <2> QED
    BY <2>1, JoinsBack DEF HL
<1>4. HL(n) = GetIndex(prefix, m)
  BY <1>1, <1>2, HalvesBack DEF HL
<1>5. PICK e : e = Exchanged(n)
  OBVIOUS
<1>a. IsRecord(n) /\ n.t \in Int
  BY <1>2
<1>b. Twins(prefix, e, n, 0) /\ e.reg = [k \in RegisterIndex |-> e.reg[k]]
  BY <1>a, <1>5, TwinMade
<1>6. /\ IsRecord(e) /\ DOMAIN e = DOMAIN n /\ e.t \in Int /\ n.t = e.t + 0
      /\ \A x \in DOMAIN n \ {"reg", "ix", "iy", "t"} : e[x] = n[x]
      /\ e.reg[4] = Hi(GetIndex(prefix, n)) /\ e.reg[5] = Lo(GetIndex(prefix, n))
      /\ \A k \in RegisterIndex \ {4, 5} : e.reg[k] = n.reg[k]
      /\ GetIndex(prefix, e) = HL(n)
      /\ IF prefix = \hDD THEN e.iy = n.iy ELSE e.ix = n.ix
  BY <1>b DEF Twins
<1>7. e.reg = m.reg
  <2>1. ASSUME NEW k \in RegisterIndex
        PROVE  e.reg[k] = m.reg[k]
    <3>1. k \in RegisterIndex \ {4, 5} => e.reg[k] = m.reg[k]
      BY <1>2, <1>6
    <3>2. e.reg[4] = m.reg[4] /\ e.reg[5] = m.reg[5]
      BY <1>2, <1>3, <1>6
    <3> QED
      BY <3>1, <3>2
  <2>2. m.reg = [k \in RegisterIndex |-> m.reg[k]]
    BY <1>1
  <2>3. [k \in RegisterIndex |-> e.reg[k]] = [k \in RegisterIndex |-> m.reg[k]]
    BY <2>1
  <2> QED
    BY <1>b, <2>2, <2>3, Zenon
<1>8. e.ix = m.ix /\ e.iy = m.iy
  <2>1. GetIndex(prefix, e) = GetIndex(prefix, m)
    BY <1>4, <1>6
  <2>2. IF prefix = \hDD THEN e.iy = m.iy ELSE e.ix = m.ix
    BY <1>2, <1>6
  <2> QED
    BY <2>1, <2>2 DEF GetIndex
<1>9. PICK l : l = Delayed(d, e)
  OBVIOUS
<1>10. /\ l = [x \in DOMAIN l |-> l[x]] /\ DOMAIN l = DOMAIN m
  BY <1>2, <1>6, <1>9 DEF Delayed, IsRecord
<1>15. "t" \in DOMAIN e /\ m.t = e.t + d
  <2>1. m.t = n.t + d /\ n.t = e.t + 0 /\ e.t \in Int
    BY <1>2, <1>6
  <2>2. m.t = e.t + d
    BY <2>1
  <2> QED
    BY <1>6, <2>2 DEF IsRecord, Fields
<1>16. \A x \in DOMAIN e \ {"t"} : l[x] = e[x]
  BY <1>9 DEF Delayed
<1>17. l.t = m.t
  BY <1>9, <1>15 DEF Delayed
<1>11. ASSUME NEW x \in DOMAIN m
       PROVE  l[x] = m[x]
  <2>1. CASE x \in DOMAIN m \ {"reg", "ix", "iy", "t"}
    BY <1>2, <1>6, <1>16, <2>1
  <2>2. CASE x \in {"reg", "ix", "iy"}
    BY <1>2, <1>6, <1>7, <1>8, <1>11, <1>16, <2>2
  <2> QED
    BY <1>17, <1>11, <2>1, <2>2
<1>12. m = [x \in DOMAIN m |-> m[x]]
  BY <1>2 DEF IsRecord
<1>13. l = m
  <2>1. l = [x \in DOMAIN m |-> l[x]]
    BY <1>10
  <2>2. [x \in DOMAIN m |-> l[x]] = [x \in DOMAIN m |-> m[x]]
    BY <1>11
  <2> QED
    BY <1>12, <2>1, <2>2, Zenon
<1>14. e.t \in Int /\ "t" \in DOMAIN e
  BY <1>2, <1>6, <1>15
<1> QED
  BY <1>5, <1>9, <1>13, <1>14

LEMMA DelayedTwice ==
  ASSUME NEW s, s.t \in Int, NEW a \in Int, NEW b \in Int
  PROVE  Delayed(a, Delayed(b, s)) = Delayed(a + b, s)
<1>1. PICK u : u = [s EXCEPT !.t = @ + b]
  OBVIOUS
<1>2. [u EXCEPT !.t = @ + a] = [s EXCEPT !.t = @ + (a + b)]
  <2>1. CASE "t" \in DOMAIN s
    <3>1. u.t = s.t + b
      BY <1>1, <2>1
    <3>2. (s.t + b) + a = s.t + (a + b)
      OBVIOUS
    <3> QED
      BY <1>1, <3>1, <3>2
  <2>2. CASE "t" \notin DOMAIN s
    BY <1>1, <2>2
  <2> QED
    BY <2>1, <2>2
<1>3. Delayed(b, s) = u
  BY <1>1 DEF Delayed
<1>4. Delayed(a, u) = Delayed(a + b, s)
  BY <1>2 DEF Delayed
<1> QED
  BY <1>3, <1>4

(* A handler of _index.py that reaches no memory through the index         *)
(* register is one of Renamed, and a handler of the main page one of       *)
(* Untouched, but for the two exchanges                                    *)
IndexKind(rule, op) ==
  \/ rule.index = TRUE /\ (Displaces(op) \/ op \in Renamed)
  \/ rule.index = FALSE /\ op \in Untouched \cup {\hEB, \hD9}

LEMMA IndexKinds ==
  ASSUME NEW rule \in IndexRules, NEW op \in rule.ops
  PROVE  IndexKind(rule, op)
<1> DEFINE halves == {o \in \h80 .. \hBF : Low(o) \in {4, 5}}
           memory == {o \in \h80 .. \hBF : Low(o) = 6}
           plain  == {o \in \h80 .. \hBF : Low(o) \in Plain}
<1>0. \/ rule \in IndexListed \/ rule \in IgnoringListed
      \/ rule \in ByField(AluNames, halves, 0, TRUE) \/ rule \in ByField(AluNames, memory, 1, TRUE)
      \/ rule \in ByField(AluNames, plain, 0, FALSE) \/ rule \in ByField(AluNames, Every8(\hC6), 1, FALSE)
  BY DEF IndexRules, IndexPrefixed, IndexIgnoring
<1>1. ASSUME rule \in IndexListed
      PROVE  IndexKind(rule, op)
  <2>1. rule.index = TRUE
    BY <1>1 DEF IndexListed, Indexed
  <2>2. \/ op \in {\h09, \h19, \h29, \h39, \h21, \h22, \h2A, \h23, \h2B, \h24, \h25, \h2C, \h2D, \h26, \h2E,
                   \hE1, \hE3, \hE5, \hE9, \hF9}
        \/ op \in {\h34, \h35, \h36}
        \/ op \in {\h44, \h45, \h4C, \h4D, \h54, \h55, \h5C, \h5D, \h7C, \h7D}
        \/ op \in {\h46, \h4E, \h56, \h5E, \h66, \h6E, \h7E}
        \/ op \in \h60 .. \h6F /\ Low(op) \in Plain
        \/ op \in {\h64, \h65, \h6C, \h6D}
        \/ op \in {\h70, \h71, \h72, \h73, \h74, \h75, \h77}
    BY <1>1 DEF IndexListed, Indexed
  <2>3. Displaces(op) \/ op \in Renamed
    BY <2>2 DEF Displaces, Renamed, Low, Plain
  <2> QED
    BY <2>1, <2>3 DEF IndexKind
<1>2. ASSUME rule \in IgnoringListed
      PROVE  IndexKind(rule, op)
  <2>1. rule.index = FALSE
    BY <1>2 DEF IgnoringListed, Rule
  <2>2. op \in Untouched \cup {\hEB, \hD9}
    BY <1>2 DEF IgnoringListed, Rule, Untouched
  <2> QED
    BY <2>1, <2>2 DEF IndexKind
<1>3. ASSUME rule \in ByField(AluNames, halves, 0, TRUE)
      PROVE  IndexKind(rule, op)
  <2>1. op \in halves /\ rule.index = TRUE
    BY <1>3 DEF ByField
  <2>2. op \in Renamed
    BY <2>1 DEF Renamed
  <2> QED
    BY <2>1, <2>2 DEF IndexKind
<1>4. ASSUME rule \in ByField(AluNames, memory, 1, TRUE)
      PROVE  IndexKind(rule, op)
  <2>1. op \in memory /\ rule.index = TRUE
    BY <1>4 DEF ByField
  <2>2. Displaces(op)
    BY <2>1 DEF Displaces
  <2> QED
    BY <2>1, <2>2 DEF IndexKind
<1>5. ASSUME rule \in ByField(AluNames, plain, 0, FALSE)
      PROVE  IndexKind(rule, op)
  <2>1. op \in plain /\ rule.index = FALSE
    BY <1>5 DEF ByField
  <2>2. op \in Untouched
    BY <2>1 DEF Untouched
  <2> QED
    BY <2>1, <2>2 DEF IndexKind
<1>6. ASSUME rule \in ByField(AluNames, Every8(\hC6), 1, FALSE)
      PROVE  IndexKind(rule, op)
  <2>1. op \in Every8(\hC6) /\ rule.index = FALSE
    BY <1>6 DEF ByField
  <2>2. op \in Untouched
    BY <2>1 DEF Untouched
  <2> QED
    BY <2>1, <2>2 DEF IndexKind
<1> HIDE DEF halves, memory, plain
<1> QED
  BY <1>0, <1>1, <1>2, <1>3, <1>4, <1>5, <1>6

(* Strengthening: on the pages behind DD and FD every byte so far but the  *)
(* operands was a fetch, and every prefix but the last a stray one         *)
FetchedInv ==
  /\ page \in Pages => m1 = Len(code)
  /\ page = "main" => m1 = 0 /\ stray = 0
  /\ page = "index" => stray = 4 * (m1 - 1)
  /\ page = "index_cb" => stray = 4 * (m1 - 2)
  /\ page \in {"operands", "done"} =>
       /\ opened = "index" => stray = 4 * (m1 - 2) /\ m1 = Len(code) - (handler.operands - left)
       /\ opened = "index_cb" => stray = 4 * (m1 - 2) /\ m1 = Len(code) - 2

LEMMA FetchedHolds == ExecutionSpec => []FetchedInv
<1>1. ExecutionInit => FetchedInv
  BY DEF ExecutionInit, DecodingInit, FetchedInv
<1>2. ReadingInv /\ ReadingInv' /\ FetchedInv /\ [ExecutionNext]_evars => FetchedInv'
  <2>1. SUFFICES ASSUME ReadingInv, ReadingInv', FetchedInv, [ExecutionNext]_evars
                 PROVE  FetchedInv'
    OBVIOUS
  <2>a. code \in Seq(Byte) /\ m1 \in Nat /\ Len(code) \in Nat /\ page \in Pages \cup {"operands", "done"}
    BY <2>1 DEF ReadingInv
  <2>2. CASE UNCHANGED evars
    BY <2>1, <2>2 DEF FetchedInv, evars, cvars
  <2>3. CASE Execute
    BY <2>1, <2>3 DEF FetchedInv, Execute, Finish, Pages
  <2>4. CASE DecodeByte
    <3>0. opened' = IF page' = "operands" /\ page # "operands" THEN page ELSE opened
      BY <2>4 DEF DecodeByte
    <3>1. ASSUME FetchMain \/ FetchPage \/ FetchIndex
          PROVE  FetchedInv'
      <4>1. PICK op \in Byte : Fetch(op)
        BY <3>1 DEF FetchMain, FetchPage, FetchIndex
      <4>2. Len(code') = Len(code) + 1 /\ m1' = m1 + 1
        BY <2>a, <4>1, ByteRead DEF Fetch
      <4>3. page \in Pages /\ m1' = Len(code')
        BY <2>1, <3>1, <4>2 DEF FetchedInv, FetchMain, FetchPage, FetchIndex, Pages
      <4>4. /\ page' # "main" /\ page' # "done"
            /\ page' = "operands" => opened' = page /\ page # "index_cb" /\ stray' = stray /\ left' = handler'.operands
            /\ page' = "index" => \/ page = "main" /\ stray' = stray
                                  \/ page = "index" /\ stray' = stray + 4
            /\ page' = "index_cb" => page = "index" /\ stray' = stray
        BY <3>0, <3>1, <4>3 DEF FetchMain, FetchPage, FetchIndex, Run, Into, Pages
      <4>5. page' = "operands" => handler'.operands - left' = 0
        BY <2>1, <4>4 DEF ReadingInv, Found
      <4>6. page' = "index" => stray' = 4 * (m1' - 1)
        BY <2>1, <2>a, <4>2, <4>4 DEF FetchedInv
      <4>7. page' = "index_cb" => stray' = 4 * (m1' - 2)
        BY <2>1, <2>a, <4>2, <4>4 DEF FetchedInv
      <4>8. page' = "operands" /\ opened' = "index" => stray' = 4 * (m1' - 2) /\ m1' = Len(code') - (handler'.operands - left')
        BY <2>1, <2>a, <4>2, <4>3, <4>4, <4>5 DEF FetchedInv
      <4> QED
        BY <4>3, <4>4, <4>6, <4>7, <4>8 DEF FetchedInv
    <3>2. ASSUME ReadIndexCb
          PROVE  FetchedInv'
      <4>1. PICK d \in OperandBytes, op \in Byte : code' = Append(Append(code, d), op) /\ Run(op)
        BY <3>2 DEF ReadIndexCb
      <4>2. Append(code, d) \in Seq(Byte) /\ Len(Append(code, d)) = Len(code) + 1
        BY <2>a, DecodingAssumption, ByteRead
      <4>3. Len(code') = Len(code) + 2
        BY <2>a, <4>1, <4>2, ByteRead
      <4>4. page = "index_cb" /\ page' = "operands" /\ opened' = "index_cb" /\ m1' = m1 /\ stray' = stray
        BY <3>0, <3>2, <4>1 DEF ReadIndexCb, Run
      <4>5. m1 = Len(code) /\ stray = 4 * (m1 - 2)
        BY <2>1, <4>4 DEF FetchedInv, Pages
      <4> QED
        BY <2>a, <4>3, <4>4, <4>5 DEF FetchedInv, Pages
    <3>3. ASSUME ReadOperand
          PROVE  FetchedInv'
      <4>1. /\ page = "operands" /\ page' = "operands" /\ opened' = opened /\ m1' = m1 /\ stray' = stray
            /\ handler' = handler /\ left' = left - 1
        BY <3>0, <3>3 DEF ReadOperand
      <4>2. PICK value \in OperandBytes : code' = Append(code, value)
        BY <3>3 DEF ReadOperand
      <4>3. Len(code') = Len(code) + 1
        BY <2>a, <4>2, DecodingAssumption, ByteRead
      <4>4. handler.operands \in 0 .. 2 /\ left \in 0 .. handler.operands
            /\ (opened = "index_cb" => handler.operands = 0) /\ left > 0
        BY <2>1, <3>3, <4>1 DEF ReadingInv, Found, ReadOperand
      <4>5. opened # "index_cb"
        BY <4>4
      <4>6. opened = "index" => stray = 4 * (m1 - 2) /\ m1 = Len(code) - (handler.operands - left)
        BY <2>1, <4>1 DEF FetchedInv
      <4>7. Len(code) - (handler.operands - left) = Len(code') - (handler.operands - left')
        BY <2>a, <4>1, <4>3, <4>4
      <4> QED
        BY <4>1, <4>5, <4>6, <4>7 DEF FetchedInv, Pages
    <3> QED
      BY <2>4, <3>1, <3>2, <3>3 DEF DecodeByte, Decode
  <2> QED
    BY <2>1, <2>2, <2>3, <2>4 DEF ExecutionNext
<1> QED
  BY <1>1, <1>2, ReadingHolds, PTL DEF ExecutionSpec

(* The machine that has read the instruction *)
LEMMA ReadyIs ==
  ASSUME ReadingInv
  PROVE  LET s == [Ready EXCEPT !.q = {}]
         IN Fits(s) /\ IsRecord(s) /\ s.t \in Int /\ s.r = Refreshed(cpu.r, m1) /\ SameR(s, s)
<1>1. cpu \in Machines /\ code \in Seq(Byte) /\ m1 \in Nat
  BY DEF ReadingInv
<1>2. Fits(cpu) /\ IsRecord(cpu) /\ cpu.t = 0
  BY <1>1, MachinesAssumption DEF IsRecord, Fields, Fits
<1>3. Fits(Ready)
  BY <1>1, <1>2, BehindFits DEF Ready
<1>4. Ready.t = 0 /\ Ready.r = Refreshed(cpu.r, m1) /\ IsRecord(Ready)
  BY <1>2 DEF Ready, Behind, IsRecord, Fields
<1>5. PICK s : s = [Ready EXCEPT !.q = {}]
  OBVIOUS
<1>6. Fits(s)
  BY <1>3, <1>5, FitsUnsized
<1>7. IsRecord(s) /\ s.t \in Int /\ s.r = Refreshed(cpu.r, m1)
  BY <1>4, <1>5 DEF IsRecord, Fields
<1>8. SameR(s, s)
  BY <1>7 DEF IsRecord, Fields, SameR
<1> QED
  BY <1>5, <1>6, <1>7, <1>8

LEMMA ExchangedFits ==
  ASSUME NEW s, Fits(s)
  PROVE  Fits(Exchanged(s))
<1>1. GetIndex(prefix, s) \in Words /\ HL(s) \in Words
  BY IndexFits, RegistersFit
<1>2. GetIndex(prefix, s) \in Int /\ HL(s) \in Int
  BY <1>1, WordsAre
<1>3. Fits(WritePair(2, GetIndex(prefix, s), s))
  BY <1>2, WritePairFits
<1>4. Fits(SetIndex(prefix, HL(s), WritePair(2, GetIndex(prefix, s), s)))
  BY <1>2, <1>3, SetIndexFits
<1> QED
  BY <1>1, <1>4, ExchangedIs

(* A handler of the prefix and the unprefixed one, machine for machine *)
LEMMA RenamedInPlace ==
  ASSUME NEW s, Fits(s), IsRecord(s), s.t \in Int, SameR(s, s), NEW op \in Renamed, NEW args,
         op \in IndexOne \cup IndexTwo => args[1] \in Bytes, op \in IndexTwo => args[2] \in Bytes
  PROVE  LET plain == Exchanged(MainEffect(op, args, Exchanged(s)))
         IN /\ IndexedEffect(prefix, op, args, s) = Delayed(4, plain)
            /\ plain.t \in Int /\ IndexedEffect(prefix, op, args, s).r = s.r
<1>1. PICK e : e = Exchanged(s)
  OBVIOUS
<1>2. Twins(prefix, e, s, 0) /\ Fits(e)
  BY <1>1, TwinMade, ExchangedFits
<1>3. PICK n : n = MainEffect(op, args, e)
  OBVIOUS
<1>4. PICK m : m = IndexedEffect(prefix, op, args, s)
  OBVIOUS
<1>5. Twins(prefix, n, m, 4)
  BY <1>2, <1>3, <1>4, TwinRenamed
<1>6. /\ op \in Byte \ {\hCB, \hDD, \hED, \hFD} /\ op \in IndexTwo \cup IndexOne \cup IndexNone
      /\ op \in MainOne \cup MainTwo => op \in IndexOne \cup IndexTwo
      /\ op \in MainTwo => op \in IndexTwo
  <2>1. op \in Byte \ {\hCB, \hDD, \hED, \hFD}
    BY DEF Renamed, Byte
  <2>2. op \in IndexTwo \cup IndexOne \cup IndexNone
    BY DEF Renamed, IndexTwo, IndexOne, IndexNone
  <2>3. op \in MainOne => op \in IndexOne
    BY Every8Is DEF Renamed, MainOne, IndexOne
  <2>4. op \in MainTwo => op \in IndexTwo
    BY Every8Is DEF Renamed, MainTwo, IndexTwo
  <2> QED
    BY <2>1, <2>2, <2>3, <2>4
<1>7. Fits(m)
  BY <1>4, <1>6, IndexedFits
<1>8. Fits(n)
  BY <1>2, <1>3, <1>6, MainFits
<1>9. m = Delayed(4, Exchanged(n)) /\ Exchanged(n).t \in Int
  BY <1>5, <1>7, <1>8, TwinBack
<1>10. m.r = s.r
  <2>1. e.r = s.r /\ n.r = m.r
    BY <1>2, <1>5, TwinSays
  <2>2. SameR(e, e)
    BY <1>2 DEF Twins, IsRecord, Fields, SameR
  <2>3. SameR(n, e)
    BY <1>3, <1>6, <2>2, MainKeepsR
  <2> QED
    BY <2>1, <2>3 DEF SameR
<1> QED
  BY <1>1, <1>3, <1>4, <1>9, <1>10

LEMMA UntouchedInPlace ==
  ASSUME NEW s, Fits(s), IsRecord(s), s.t \in Int, NEW op \in Untouched, NEW args,
         op \in MainOne \cup MainTwo => args[1] \in Bytes, op \in MainTwo => args[2] \in Bytes
  PROVE  LET plain == Exchanged(MainEffect(op, args, Exchanged(s)))
         IN Delayed(4, MainEffect(op, args, s)) = Delayed(4, plain) /\ plain.t \in Int
<1>1. PICK e : e = Exchanged(s)
  OBVIOUS
<1>2. Twins(prefix, e, s, 0) /\ Fits(e)
  BY <1>1, TwinMade, ExchangedFits
<1>3. PICK n : n = MainEffect(op, args, e)
  OBVIOUS
<1>4. PICK m : m = MainEffect(op, args, s)
  OBVIOUS
<1>5. Twins(prefix, n, m, 0)
  BY <1>2, <1>3, <1>4, TwinUntouched
<1>6. op \in Byte \ {\hCB, \hDD, \hED, \hFD}
  BY Every8Is DEF Untouched, PlainLoads, Byte
<1>7. Fits(m) /\ Fits(n)
  BY <1>2, <1>3, <1>4, <1>6, MainFits
<1>8. m = Delayed(0, Exchanged(n)) /\ Exchanged(n).t \in Int
  BY <1>5, <1>7, TwinBack
<1>9. Delayed(4, Delayed(0, Exchanged(n))) = Delayed(4 + 0, Exchanged(n))
  BY <1>8, DelayedTwice
<1>10. Delayed(4, m) = Delayed(4, Exchanged(n))
  BY <1>8, <1>9
<1> QED
  BY <1>1, <1>3, <1>4, <1>8, <1>10

LEMMA ArgsAre ==
  ASSUME code \in Seq(Byte), Found, left = 0
  PROVE  /\ Opcode \in handler.ops /\ handler \in RulesOf(opened)
         /\ Len(Args) = handler.operands /\ Len(Args) \in 0 .. 2
         /\ \A k \in 1 .. handler.operands : Args[k] \in Bytes
<1> DEFINE n == handler.operands
<1>1. /\ opened \in Pages /\ handler \in RulesOf(opened) /\ n \in 0 .. 2
      /\ Len(code) \in Nat /\ Len(code) > n /\ code[Len(code) - n] \in handler.ops
      /\ opened = "index_cb" => n = 0
  BY DEF Found
<1>2. Opcode \in handler.ops
  BY <1>1 DEF Opcode, Last
<1> HIDE DEF n
<1>3. Args = SubSeq(code, Len(code) - n + 1, Len(code)) /\ n \in Nat /\ n < Len(code)
  BY <1>1 DEF Args, n
<1>4. ASSUME NEW k \in 1 .. n
      PROVE  Args[k] = code[Len(code) - n + k] /\ Len(code) - n + k \in 1 .. Len(code)
  BY <1>3, LastOnes
<1>5. Len(Args) = n
  <2>1. PICK a : a = Len(code) - n + 1
    OBVIOUS
  <2>2. PICK b : b = Len(code)
    OBVIOUS
  <2>3. a \in 1 .. b + 1 /\ b \in Nat /\ b - a + 1 = n /\ b <= Len(code) /\ a \in Int
    BY <1>1, <1>3, <2>1, <2>2
  <2>4. Len(SubSeq(code, a, b)) = b - a + 1
    BY <2>2, <2>3
  <2> QED
    BY <1>3, <2>1, <2>2, <2>3, <2>4
<1> QED
  BY <1>1, <1>2, <1>4, <1>5, BytesOfCode DEF n

(* Of every opcode behind DD or FD that reaches no memory through HL, the  *)
(* prefixed instruction is the plain one with IX or IY in the place of HL  *)
THEOREM IndexReplacesHl == ExecutionSpec => []IndexInPlaceOfHl
<1>1. ReadingInv /\ EffectInv /\ FetchedInv => IndexInPlaceOfHl
  <2>1. SUFFICES ASSUME ReadingInv, EffectInv, FetchedInv, Done, opened = "index", ~Displaces(Opcode)
                 PROVE  IndexInPlaceOfHl
    BY DEF IndexInPlaceOfHl
  <2>2. /\ code \in Seq(Byte) /\ Found /\ left = 0 /\ after = Effect(Ready)
        /\ m1 \in Nat /\ cpu \in Machines /\ Len(code) \in Nat
    BY <2>1 DEF ReadingInv, EffectInv, Done
  <2>3. PICK op : op = Opcode
    OBVIOUS
  <2>4. /\ op \in handler.ops /\ handler \in IndexRules
        /\ Len(Args) = handler.operands /\ \A k \in 1 .. handler.operands : Args[k] \in Bytes
    BY <2>1, <2>2, <2>3, ArgsAre DEF RulesOf
  <2>5. stray = 4 * (m1 - 2) /\ m1 = Len(code) - Len(Args)
    BY <2>1, <2>2, <2>4 DEF FetchedInv, Done, Found
  <2>6. PICK s : s = [Ready EXCEPT !.q = {}]
    OBVIOUS
  <2>7. Fits(s) /\ IsRecord(s) /\ s.t \in Int /\ s.r = Refreshed(cpu.r, m1) /\ SameR(s, s)
    BY <2>1, <2>6, ReadyIs
  <2>8. PICK plain : plain = IF op \in {\hEB, \hD9} THEN MainEffect(op, Args, s)
                             ELSE Exchanged(MainEffect(op, Args, Exchanged(s)))
    OBVIOUS
  <2>9. IndexInPlaceOfHl <=> after = Delayed(4 * (m1 - 1), plain) /\ RefreshedBy(Len(code) - Len(Args))
    BY <2>1, <2>3, <2>6, <2>8 DEF IndexInPlaceOfHl
  <2>10. IndexKind(handler, op)
    BY <2>4, IndexKinds
  <2>11. after = Delayed(stray, IndexPage(Ready))
    BY <2>1, <2>2 DEF Effect
  <2>12. ASSUME NEW page_, page_ = IndexPage(Ready), page_ = Delayed(4, plain), plain.t \in Int, page_.r = s.r, SameR(page_, page_)
         PROVE  IndexInPlaceOfHl
    <3>1. Delayed(stray, Delayed(4, plain)) = Delayed(stray + 4, plain)
      BY <2>2, <2>5, <2>12, DelayedTwice
    <3>2. stray + 4 = 4 * (m1 - 1)
      BY <2>2, <2>5
    <3>3. after = Delayed(4 * (m1 - 1), plain)
      BY <2>11, <2>12, <3>1, <3>2
    <3>4. SameR(Delayed(stray, page_), page_)
      BY <2>12, MovesKeepR
    <3>5. after.r = Refreshed(cpu.r, m1)
      BY <2>7, <2>11, <2>12, <3>4 DEF SameR
    <3> QED
      BY <2>5, <2>9, <3>3, <3>5 DEF RefreshedBy
  <2>13. CASE handler.index = TRUE
    <3>1. op \in Renamed
      BY <2>1, <2>3, <2>10, <2>13 DEF IndexKind
    <3>2. IndexRule(handler, op)
      BY <2>4, <2>13, IndexSays DEF PlainRule
    <3>3. op \in IndexOne \cup IndexTwo => Args[1] \in Bytes
      BY <2>4, <3>2 DEF IndexRule
    <3>4. op \in IndexTwo => Args[2] \in Bytes
      BY <2>4, <3>2 DEF IndexRule
    <3>5. PICK m : m = IndexedEffect(prefix, op, Args, s)
      OBVIOUS
    <3>6. m = IndexPage(Ready)
      BY <2>3, <2>6, <2>13, <3>5 DEF IndexPage
    <3>7. op \notin {\hEB, \hD9}
      BY <3>1 DEF Renamed
    <3>8. m = Delayed(4, plain) /\ plain.t \in Int /\ m.r = s.r
      BY <2>7, <2>8, <3>1, <3>3, <3>4, <3>5, <3>7, RenamedInPlace
    <3>9. SameR(m, m)
      <4>1. Fits(m)
        <5>1. op \in IndexTwo \cup IndexOne \cup IndexNone
          BY <3>2 DEF IndexRule
        <5> QED
          BY <2>7, <3>3, <3>4, <3>5, <5>1, IndexedFits
      <4> QED
        BY <4>1 DEF Fits, SameR
    <3> QED
      BY <2>12, <3>6, <3>8, <3>9
  <2>14. CASE handler.index = FALSE
    <3>1. op \in Untouched \cup {\hEB, \hD9}
      BY <2>10, <2>14 DEF IndexKind
    <3>2. PlainRule(handler, op)
      BY <2>4, <2>14, IndexSays DEF IndexRule
    <3>3. /\ op \in Byte \ {\hCB, \hDD, \hED, \hFD}
          /\ op \in MainOne \cup MainTwo => Args[1] \in Bytes
          /\ op \in MainTwo => Args[2] \in Bytes
      BY <2>4, <3>2 DEF PlainRule
    <3>4. PICK m : m = Delayed(4, MainEffect(op, Args, s))
      OBVIOUS
    <3>5. m = IndexPage(Ready)
      BY <2>3, <2>6, <2>14, <3>4 DEF IndexPage
    <3>6. m.r = s.r /\ SameR(m, m)
      <4>1. SameR(MainEffect(op, Args, s), s)
        BY <2>7, <3>3, MainKeepsR
      <4>2. SameR(m, s)
        BY <3>4, <4>1, MovesKeepR
      <4> QED
        BY <4>2 DEF SameR
    <3>7. m = Delayed(4, plain) /\ plain.t \in Int
      <4>1. CASE op \in {\hEB, \hD9}
        <5>1. plain = MainEffect(op, Args, s)
          BY <2>8, <4>1
        <5>2. MainEffect(op, Args, s) = OpExDeHl(s) \/ MainEffect(op, Args, s) = OpExx(s)
          <6>1. CASE op = \hEB
            BY <6>1, Every8Is DEF MainEffect
          <6>2. CASE op = \hD9
            BY <6>2, Every8Is DEF MainEffect
          <6> QED
            BY <4>1, <6>1, <6>2
        <5>3. OpExDeHl(s).t \in Int
          <6>1. \A k, v, g : "t" \in DOMAIN g => "t" \in DOMAIN WritePair(k, v, g) /\ WritePair(k, v, g).t = g.t
            BY DEF WritePair
          <6>2. "t" \in DOMAIN s
            BY <2>7 DEF IsRecord, Fields
          <6>3. PICK g : g = WritePair(1, HL(s), WritePair(2, DE(s), s))
            OBVIOUS
          <6>4. "t" \in DOMAIN g /\ g.t = s.t
            BY <6>1, <6>2, <6>3
          <6>5. Keeping(4, g).t = s.t + 4
            BY <6>4 DEF Keeping
          <6>6. OpExDeHl(s) = Keeping(4, g)
            BY <6>3 DEF OpExDeHl
          <6> QED
            BY <2>7, <6>5, <6>6
        <5>4. OpExx(s).t \in Int
          BY <2>7 DEF OpExx, Keeping, IsRecord, Fields
        <5> QED
          BY <3>4, <5>1, <5>2, <5>3, <5>4
      <4>2. CASE op \notin {\hEB, \hD9}
        <5>1. op \in Untouched
          BY <3>1, <4>2
        <5> QED
          BY <2>7, <2>8, <3>3, <3>4, <4>2, <5>1, UntouchedInPlace
      <4> QED
        BY <4>1, <4>2
    <3> QED
      BY <2>12, <3>5, <3>6, <3>7
  <2> QED
    BY <2>10, <2>13, <2>14 DEF IndexKind
<1> QED
  BY <1>1, ReadingHolds, EffectHolds, FetchedHolds, PTL

(* n and m are one machine but for the registers, and but for WZ *)
Level(n, m) ==
  /\ IsRecord(n) /\ IsRecord(m) /\ DOMAIN n = DOMAIN m /\ n.t \in Int
  /\ \A x \in DOMAIN m \ {"reg"} : n[x] = m[x]

Beside(n, m) ==
  /\ IsRecord(n) /\ IsRecord(m) /\ DOMAIN n = DOMAIN m /\ n.t \in Int
  /\ \A x \in DOMAIN m \ {"reg", "wz"} : n[x] = m[x]

LEMMA BesideAccesses ==
  ASSUME NEW n, NEW m, Beside(n, m), NEW a, NEW v
  PROVE  /\ At(a, n) = At(a, m) /\ n.f = m.f
         /\ Beside(Read(a, n), Read(a, m)) /\ Beside(Write(a, v, n), Write(a, v, m))
<1>1. n.mem = m.mem /\ n.bus = m.bus /\ n.f = m.f
  BY DEF Beside, IsRecord, Fields
<1>2. At(a, n) = At(a, m)
  BY <1>1 DEF At
<1>3. Beside(Read(a, n), Read(a, m))
  <2>1. PICK b : b = Append(n.bus, <<"read", a, At(a, n)>>)
    OBVIOUS
  <2>2. Beside([n EXCEPT !.bus = b], [m EXCEPT !.bus = b])
    BY DEF Beside, IsRecord, Fields
  <2>3. Read(a, n) = [n EXCEPT !.bus = b] /\ Read(a, m) = [m EXCEPT !.bus = b]
    BY <1>1, <1>2, <2>1 DEF Read
  <2> QED
    BY <2>2, <2>3
<1>4. Beside(Write(a, v, n), Write(a, v, m))
  <2>1. PICK b : b = Append(n.bus, <<"write", a, v>>)
    OBVIOUS
  <2>2. PICK w : w = [c \in {a} \cup DOMAIN n.mem |-> IF c = a THEN v ELSE n.mem[c]]
    OBVIOUS
  <2>3. Beside([n EXCEPT !.mem = w, !.bus = b], [m EXCEPT !.mem = w, !.bus = b])
    BY DEF Beside, IsRecord, Fields
  <2>4. Write(a, v, n) = [n EXCEPT !.mem = w, !.bus = b] /\ Write(a, v, m) = [m EXCEPT !.mem = w, !.bus = b]
    BY <1>1, <2>1, <2>2 DEF Write
  <2> QED
    BY <2>3, <2>4
<1> QED
  BY <1>1, <1>2, <1>3, <1>4

(* What an access leaves alone, and finds *)
LEMMA AccessesLeave ==
  ASSUME NEW n, IsRecord(n), NEW a, NEW v
  PROVE  /\ Read(a, n).reg = n.reg /\ Read(a, n).wz = n.wz /\ Read(a, n).f = n.f
         /\ Write(a, v, n).reg = n.reg /\ Write(a, v, n).wz = n.wz /\ Write(a, v, n).f = n.f
         /\ At(a, Write(a, v, n)) = v
         /\ \A c : At(c, Read(a, n)) = At(c, n)
<1>1. /\ Read(a, n).reg = n.reg /\ Read(a, n).wz = n.wz /\ Read(a, n).f = n.f /\ Read(a, n).mem = n.mem
  BY DEF Read, IsRecord, Fields
<1>2. /\ Write(a, v, n).reg = n.reg /\ Write(a, v, n).wz = n.wz /\ Write(a, v, n).f = n.f
  BY DEF Write, IsRecord, Fields
<1>3. Write(a, v, n).mem = [c \in {a} \cup DOMAIN n.mem |-> IF c = a THEN v ELSE n.mem[c]]
  BY DEF Write, IsRecord, Fields
<1> QED
  BY <1>1, <1>2, <1>3 DEF At

LEMMA Levelled ==
  ASSUME NEW n, NEW m, Beside(n, m), NEW a, n.wz = a
  PROVE  LET l == [m EXCEPT !.wz = a] IN Level(n, l) /\ l.reg = m.reg /\ l.f = m.f
BY DEF Beside, Level, IsRecord, Fields

Changed(registers, k, v) == [registers EXCEPT ![k] = v]

LEMMA LevelWrite ==
  ASSUME NEW n, NEW m, Level(n, m), NEW k, NEW v \in Bytes
  PROVE  /\ Level(n, WriteReg(k, v, m)) /\ WriteReg(k, v, m).reg = Changed(m.reg, k, v)
         /\ Level(WriteReg(k, v, n), m) /\ WriteReg(k, v, n).reg = Changed(n.reg, k, v)
<1>1. v % 256 = v
  BY DEF Bytes
<1>2. Level(n, WriteReg(k, v, m)) /\ WriteReg(k, v, m).reg = [m.reg EXCEPT ![k] = v]
  BY <1>1 DEF Level, IsRecord, Fields, WriteReg
<1>3. Level(WriteReg(k, v, n), m) /\ WriteReg(k, v, n).reg = [n.reg EXCEPT ![k] = v]
  BY <1>1 DEF Level, IsRecord, Fields, WriteReg
<1> QED
  BY <1>2, <1>3 DEF Changed

(* One ending that takes t T-states and one that takes d more *)
EndsLater(m, t, registers, d) ==
  m = Delayed(d, [t EXCEPT !.reg = registers]) /\ [t EXCEPT !.reg = registers].t \in Int

LEMMA Ended ==
  ASSUME NEW n, NEW m, Level(n, m), NEW t \in Int, NEW d \in Int, NEW late, late = t + d, NEW fl
  PROVE  /\ EndsLater(Setting(fl, late, m), Setting(fl, t, n), m.reg, d) /\ Setting(fl, t, n).reg = n.reg
         /\ EndsLater(Keeping(late, m), Keeping(t, n), m.reg, d) /\ Keeping(t, n).reg = n.reg
<1>1. /\ m = [x \in DOMAIN m |-> m[x]] /\ n = [x \in DOMAIN m |-> n[x]]
      /\ \A x \in DOMAIN m \ {"reg"} : n[x] = m[x]
      /\ n.t \in Int /\ m.t = n.t /\ {"reg", "t", "q", "f"} \subseteq DOMAIN m /\ DOMAIN n = DOMAIN m
  BY DEF Level, IsRecord, Fields
<1>2. (m.t + (t + d)) = ((n.t + t) + d) /\ n.t + t \in Int
  BY <1>1
<1>3. PICK end : end = m.t + (t + d)
  OBVIOUS
<1>4. ASSUME NEW e, DOMAIN e = DOMAIN m, e.t = n.t + t,
             NEW g, NEW h, h = [e EXCEPT !.reg = m.reg], g = [h EXCEPT !.t = @ + d]
      PROVE  /\ DOMAIN g = DOMAIN m /\ g = [x \in DOMAIN m |-> g[x]] /\ g.t = end /\ g.reg = m.reg /\ h.t \in Int
             /\ \A x \in DOMAIN m \ {"reg", "t"} : g[x] = e[x]
  BY <1>1, <1>2, <1>3, <1>4
<1>6. Setting(fl, t + d, m) = Delayed(d, [Setting(fl, t, n) EXCEPT !.reg = m.reg])
      /\ [Setting(fl, t, n) EXCEPT !.reg = m.reg].t \in Int
  <2>1. PICK e : e = Setting(fl, t, n)
    OBVIOUS
  <2>2. /\ DOMAIN e = DOMAIN m /\ e.t = n.t + t /\ e.f = fl /\ e.q = fl
        /\ \A x \in DOMAIN m \ {"t", "f", "q"} : e[x] = n[x]
    BY <1>1, <2>1 DEF Setting
  <2>3. PICK h : h = [e EXCEPT !.reg = m.reg]
    OBVIOUS
  <2>4. PICK g : g = [h EXCEPT !.t = @ + d]
    OBVIOUS
  <2>5. PICK l : l = Setting(fl, t + d, m)
    OBVIOUS
  <2>6. /\ DOMAIN l = DOMAIN m /\ l = [x \in DOMAIN m |-> l[x]] /\ l.t = end /\ l.f = fl /\ l.q = fl
        /\ \A x \in DOMAIN m \ {"t", "f", "q"} : l[x] = m[x]
    BY <1>1, <1>3, <2>5 DEF Setting
  <2>7. /\ DOMAIN g = DOMAIN m /\ g = [x \in DOMAIN m |-> g[x]] /\ g.t = end /\ g.reg = m.reg /\ h.t \in Int
        /\ \A x \in DOMAIN m \ {"reg", "t"} : g[x] = e[x]
    BY <1>4, <2>2, <2>3, <2>4, Zenon
  <2>8. \A x \in DOMAIN m : l[x] = g[x]
    BY <1>1, <2>2, <2>6, <2>7
  <2>9. l = g
    BY <2>6, <2>7, <2>8
  <2> QED
    BY <2>1, <2>3, <2>4, <2>5, <2>7, <2>9 DEF Delayed
<1>7. Keeping(t + d, m) = Delayed(d, [Keeping(t, n) EXCEPT !.reg = m.reg])
      /\ [Keeping(t, n) EXCEPT !.reg = m.reg].t \in Int
  <2>1. PICK e : e = Keeping(t, n)
    OBVIOUS
  <2>2. /\ DOMAIN e = DOMAIN m /\ e.t = n.t + t /\ e.q = {}
        /\ \A x \in DOMAIN m \ {"t", "q"} : e[x] = n[x]
    BY <1>1, <2>1 DEF Keeping
  <2>3. PICK h : h = [e EXCEPT !.reg = m.reg]
    OBVIOUS
  <2>4. PICK g : g = [h EXCEPT !.t = @ + d]
    OBVIOUS
  <2>5. PICK l : l = Keeping(t + d, m)
    OBVIOUS
  <2>6. /\ DOMAIN l = DOMAIN m /\ l = [x \in DOMAIN m |-> l[x]] /\ l.t = end /\ l.q = {}
        /\ \A x \in DOMAIN m \ {"t", "q"} : l[x] = m[x]
    BY <1>1, <1>3, <2>5 DEF Keeping
  <2>7. /\ DOMAIN g = DOMAIN m /\ g = [x \in DOMAIN m |-> g[x]] /\ g.t = end /\ g.reg = m.reg /\ h.t \in Int
        /\ \A x \in DOMAIN m \ {"reg", "t"} : g[x] = e[x]
    BY <1>4, <2>2, <2>3, <2>4, Zenon
  <2>8. \A x \in DOMAIN m : l[x] = g[x]
    BY <1>1, <2>2, <2>6, <2>7
  <2>9. l = g
    BY <2>6, <2>7, <2>8
  <2> QED
    BY <2>1, <2>3, <2>4, <2>5, <2>7, <2>9 DEF Delayed
<1>8. Setting(fl, t, n).reg = n.reg /\ Keeping(t, n).reg = n.reg
  BY <1>1 DEF Setting, Keeping
<1> QED
  BY <1>6, <1>7, <1>8 DEF EndsLater

LEMMA AimedIs ==
  ASSUME NEW u, Fits(u), IsRecord(u), u.t \in Int, NEW a \in Words
  PROVE  /\ Beside(Aimed(a, u), u) /\ Aimed(a, u).wz = a /\ HL(Aimed(a, u)) = a
         /\ Aimed(a, u).reg \in [RegisterIndex -> Bytes]
         /\ Aimed(a, u).reg[4] = Hi(a) /\ Aimed(a, u).reg[5] = Lo(a)
         /\ \A k \in RegisterIndex \ {4, 5} : Aimed(a, u).reg[k] = u.reg[k]
<1>1. PICK g : g = [u EXCEPT !.wz = a]
  OBVIOUS
<1>2. PICK h : h = [g EXCEPT !.reg[4] = Hi(a)]
  OBVIOUS
<1>3. PICK n : n = [h EXCEPT !.reg[5] = Lo(a)]
  OBVIOUS
<1>4. Aimed(a, u) = n
  BY <1>1, <1>2, <1>3 DEF Aimed
<1>5. u.reg \in [RegisterIndex -> Bytes] /\ Hi(a) \in Bytes /\ Lo(a) \in Bytes
  BY WordsAre, Halves DEF Fits
<1>6. IsRecord(g) /\ DOMAIN g = DOMAIN u /\ g.wz = a /\ \A x \in DOMAIN u \ {"reg", "wz"} : g[x] = u[x]
  BY <1>1 DEF IsRecord, Fields
<1>7. g.reg = u.reg
  BY <1>1 DEF IsRecord, Fields
<1>8. IsRecord(h) /\ DOMAIN h = DOMAIN u /\ h.wz = a /\ \A x \in DOMAIN u \ {"reg", "wz"} : h[x] = u[x]
  BY <1>2, <1>6 DEF IsRecord, Fields
<1>9. h.reg = [u.reg EXCEPT ![4] = Hi(a)]
  BY <1>2, <1>6, <1>7 DEF IsRecord, Fields
<1>10. IsRecord(n) /\ DOMAIN n = DOMAIN u /\ n.wz = a /\ \A x \in DOMAIN u \ {"reg", "wz"} : n[x] = u[x]
  BY <1>3, <1>8 DEF IsRecord, Fields
<1>11. n.reg = [[u.reg EXCEPT ![4] = Hi(a)] EXCEPT ![5] = Lo(a)]
  BY <1>3, <1>8, <1>9 DEF IsRecord, Fields
<1>12. /\ n.reg \in [RegisterIndex -> Bytes] /\ n.reg[4] = Hi(a) /\ n.reg[5] = Lo(a)
       /\ \A k \in RegisterIndex \ {4, 5} : n.reg[k] = u.reg[k]
  BY <1>5, <1>11 DEF RegisterIndex
<1>13. HL(n) = a
  BY <1>12, HalvesBack DEF HL
<1>14. n.t \in Int
  BY <1>10 DEF IsRecord, Fields
<1>15. Beside(n, u)
  BY <1>10, <1>14 DEF Beside
<1> QED
  BY <1>4, <1>10, <1>12, <1>13, <1>15

(* m is what t left but for the registers and d further T-states, R as u had it *)
Through(m, t, registers, d, u) == EndsLater(m, t, registers, d) /\ SameR(m, u)

LEMMA SetThrough ==
  ASSUME NEW u, NEW n, NEW m, Level(n, m), SameR(m, u), NEW t \in Int, NEW d \in Int, NEW late, late = t + d,
         NEW fl
  PROVE  Through(Setting(fl, late, m), Setting(fl, t, n), m.reg, d, u) /\ Setting(fl, t, n).reg = n.reg
<1>1. SameR(Setting(fl, late, m), u)
  BY MovesKeepR
<1>2. EndsLater(Setting(fl, late, m), Setting(fl, t, n), m.reg, d) /\ Setting(fl, t, n).reg = n.reg
  BY Ended
<1> QED
  BY <1>1, <1>2 DEF Through

LEMMA KeptThrough ==
  ASSUME NEW u, NEW n, NEW m, Level(n, m), SameR(m, u), NEW t \in Int, NEW d \in Int, NEW late, late = t + d
  PROVE  Through(Keeping(late, m), Keeping(t, n), m.reg, d, u) /\ Keeping(t, n).reg = n.reg
<1>1. SameR(Keeping(late, m), u)
  BY MovesKeepR
<1>2. EndsLater(Keeping(late, m), Keeping(t, n), m.reg, d) /\ Keeping(t, n).reg = n.reg
  BY Ended
<1> QED
  BY <1>1, <1>2 DEF Through

(* The byte at a is v, and stays so when memory is left alone *)
Bears(a, v, g) == "mem" \in DOMAIN g /\ At(a, g) = v

LEMMA HoldsKept ==
  ASSUME NEW a, NEW v, NEW g, Bears(a, v, g), NEW x, NEW k
  PROVE  /\ Bears(a, v, Setting(x, k, g)) /\ Bears(a, v, Keeping(k, g)) /\ Bears(a, v, Delayed(k, g))
         /\ Bears(a, v, Put("wz", x, g)) /\ Bears(a, v, WriteReg(k, x, g))
<1>1. ASSUME NEW h, "mem" \in DOMAIN h, h.mem = g.mem
      PROVE  Bears(a, v, h)
  BY <1>1 DEF Bears, At
<1>2. "mem" \in DOMAIN g
  BY DEF Bears
<1>3. "mem" \in DOMAIN Setting(x, k, g) /\ Setting(x, k, g).mem = g.mem
  BY <1>2 DEF Setting
<1>4. "mem" \in DOMAIN Keeping(k, g) /\ Keeping(k, g).mem = g.mem
  BY <1>2 DEF Keeping
<1>5. "mem" \in DOMAIN Delayed(k, g) /\ Delayed(k, g).mem = g.mem
  BY <1>2 DEF Delayed
<1>6. "mem" \in DOMAIN Put("wz", x, g) /\ Put("wz", x, g).mem = g.mem
  BY <1>2 DEF Put
<1>7. "mem" \in DOMAIN WriteReg(k, x, g) /\ WriteReg(k, x, g).mem = g.mem
  BY <1>2 DEF WriteReg
<1> QED
  BY <1>1, <1>3, <1>4, <1>5, <1>6, <1>7

(* n is u with HL and WZ at (IX+d), which is a *)
Aims(p, d, a, n, u) ==
  /\ Fits(u) /\ IsRecord(u) /\ u.t \in Int /\ SameR(u, u) /\ d \in Bytes
  /\ a = IndexAddress(p, d, u) /\ a \in Words /\ n = Aimed(a, u)

(* x, that n reads and writes through HL, and y, that u does through IX *)
Paired(a, x, y, n, u) ==
  /\ Beside(x, y) /\ x.wz = a /\ x.reg = n.reg /\ y.reg = u.reg /\ x.f = u.f /\ y.f = u.f
  /\ HL(x) = a /\ IsRecord(x) /\ IsRecord(y) /\ SameR(y, u)

LEMMA ReachedAt ==
  ASSUME NEW p, NEW d, NEW a, NEW n, NEW u, Aims(p, d, a, n, u)
  PROVE  /\ HL(n) = a /\ n.wz = a /\ RegA(n) = RegA(u) /\ n.f = u.f
         /\ Source(6, n) = At(a, u) /\ Fetched(6, n) = Read(a, n)
         /\ Paired(a, n, u, n, u)
<1>1. Beside(n, u) /\ n.wz = a /\ HL(n) = a /\ n.reg[7] = u.reg[7] /\ IsRecord(n) /\ IsRecord(u)
  BY AimedIs DEF Aims, RegisterIndex, Beside
<1>2. At(a, n) = At(a, u) /\ n.f = u.f
  BY <1>1, BesideAccesses
<1>3. SameR(u, u)
  BY DEF Aims
<1> QED
  BY <1>1, <1>2, <1>3 DEF Paired, RegA, Source, Fetched

LEMMA PairedOn ==
  ASSUME NEW a, NEW x, NEW y, NEW n, NEW u, Paired(a, x, y, n, u), NEW v
  PROVE  /\ Paired(a, Read(a, x), Read(a, y), n, u)
         /\ Paired(a, Write(a, v, x), Write(a, v, y), n, u)
         /\ Store(6, v, x) = Write(a, v, x)
<1>1. PICK xr : xr = Read(a, x)
  OBVIOUS
<1>2. PICK yr : yr = Read(a, y)
  OBVIOUS
<1>3. PICK xw : xw = Write(a, v, x)
  OBVIOUS
<1>4. PICK yw : yw = Write(a, v, y)
  OBVIOUS
<1>5. Beside(xr, yr) /\ Beside(xw, yw)
  BY <1>1, <1>2, <1>3, <1>4, BesideAccesses DEF Paired
<1>6. /\ xr.reg = x.reg /\ xr.wz = x.wz /\ xr.f = x.f /\ xw.reg = x.reg /\ xw.wz = x.wz /\ xw.f = x.f
      /\ yr.reg = y.reg /\ yr.f = y.f /\ yw.reg = y.reg /\ yw.f = y.f
  BY <1>1, <1>2, <1>3, <1>4, AccessesLeave DEF Paired
<1>7. SameR(yr, u) /\ SameR(yw, u)
  BY <1>2, <1>4, MovesKeepR DEF Paired
<1>8. IsRecord(xr) /\ IsRecord(yr) /\ IsRecord(xw) /\ IsRecord(yw)
  BY <1>5 DEF Beside
<1>9. HL(xr) = a /\ HL(xw) = a
  BY <1>6 DEF Paired, HL
<1>10. Paired(a, xr, yr, n, u) /\ Paired(a, xw, yw, n, u)
  BY <1>5, <1>6, <1>7, <1>8, <1>9 DEF Paired
<1> QED
  BY <1>1, <1>2, <1>3, <1>4, <1>10 DEF Store, Paired

LEMMA PairedLevel ==
  ASSUME NEW a, NEW x, NEW y, NEW n, NEW u, Paired(a, x, y, n, u)
  PROVE  /\ Level(x, Put("wz", a, y)) /\ Put("wz", a, y).reg = u.reg /\ x.reg = n.reg
         /\ SameR(Put("wz", a, y), u)
<1>1. Level(x, Put("wz", a, y)) /\ Put("wz", a, y).reg = y.reg
  BY Levelled DEF Put, Paired
<1>2. SameR(Put("wz", a, y), u)
  BY MovesKeepR DEF Put, Paired
<1> QED
  BY <1>1, <1>2 DEF Paired

LEMMA IncDecThrough ==
  ASSUME NEW p, NEW d, NEW a, NEW n, NEW u, Aims(p, d, a, n, u), NEW args, args[1] = d,
         NEW op \in {\h34, \h35}
  PROVE  /\ Through(OpIncDecIndexMem(p, op, args, u), OpIncDec(op, n), u.reg, 12, u)
         /\ OpIncDec(op, n).reg = n.reg
<1>1. a = IndexAddress(p, args[1], u)
  BY DEF Aims
<1>2. PICK x : x = At(a, u)
  OBVIOUS
<1>3. PICK result : result = IF op = \h34 THEN Increment(x, u.f) ELSE Decrement(x, u.f)
  OBVIOUS
<1>4. PICK v : v = result.r
  OBVIOUS
<1>5. PICK fl : fl = result.f
  OBVIOUS
<1>6. PICK g : g = Write(a, v, Read(a, n))
  OBVIOUS
<1>7. PICK y : y = Write(a, v, Read(a, u))
  OBVIOUS
<1>8. PICK h : h = Put("wz", a, y)
  OBVIOUS
<1>9. Source(6, n) = x /\ Fetched(6, n) = Read(a, n) /\ n.f = u.f /\ Paired(a, n, u, n, u)
  BY <1>2, ReachedAt
<1>10. Paired(a, Read(a, n), Read(a, u), n, u)
  BY <1>9, PairedOn
<1>11. Paired(a, g, y, n, u) /\ Store(6, v, Read(a, n)) = g
  BY <1>6, <1>7, <1>10, PairedOn
<1>12. Level(g, h) /\ h.reg = u.reg /\ g.reg = n.reg /\ SameR(h, u)
  BY <1>8, <1>11, PairedLevel
<1>13. Through(Setting(fl, 23, h), Setting(fl, 11, g), h.reg, 12, u) /\ Setting(fl, 11, g).reg = g.reg
  BY <1>12, SetThrough
<1>14. OpIncDec(op, n) = Setting(fl, 11, g)
  <2>1. Field(op) = 6 /\ (Low(op) = 4 <=> op = \h34)
    BY DEF Field, Low
  <2> QED
    BY <1>3, <1>4, <1>5, <1>9, <1>11, <2>1 DEF OpIncDec
<1>15. OpIncDecIndexMem(p, op, args, u) = Setting(fl, 23, h)
  BY <1>1, <1>2, <1>3, <1>4, <1>5, <1>7, <1>8, Zenon DEF OpIncDecIndexMem, Put
<1> QED
  BY <1>12, <1>13, <1>14, <1>15

LEMMA BackThrough ==
  ASSUME NEW p, NEW d, NEW a, NEW n, NEW u, Aims(p, d, a, n, u), NEW v \in Bytes, NEW op \in Byte,
         NEW g, g = Write(a, v, Read(a, n)), NEW b, b = WrittenBack(a, v, op, u)
  PROVE  /\ Store(6, v, Read(a, n)) = g /\ Level(g, b) /\ SameR(b, u) /\ Bears(a, v, b)
         /\ g.reg = n.reg
         /\ b.reg = IF Low(op) = 6 THEN u.reg ELSE Changed(u.reg, Low(op), v)
<1>1. PICK y : y = Write(a, v, Read(a, u))
  OBVIOUS
<1>2. PICK h : h = Put("wz", a, y)
  OBVIOUS
<1>3. Paired(a, n, u, n, u)
  BY ReachedAt
<1>4. Paired(a, Read(a, n), Read(a, u), n, u)
  BY <1>3, PairedOn
<1>5. Paired(a, g, y, n, u) /\ Store(6, v, Read(a, n)) = g
  BY <1>1, <1>4, PairedOn
<1>6. Level(g, h) /\ h.reg = u.reg /\ g.reg = n.reg /\ SameR(h, u)
  BY <1>2, <1>5, PairedLevel
<1>7. Bears(a, v, h)
  <2>1. IsRecord(Read(a, u))
    BY <1>4 DEF Paired
  <2>2. At(a, y) = v
    BY <1>1, <2>1, AccessesLeave
  <2>3. Bears(a, v, y)
    BY <1>5, <2>2 DEF Bears, Paired, IsRecord, Fields
  <2> QED
    BY <1>2, <2>3, HoldsKept
<1>8. PICK k : k = Low(op)
  OBVIOUS
<1>9. b = IF k = 6 THEN h ELSE WriteReg(k, v, h)
  BY <1>1, <1>2, <1>8, Zenon DEF WrittenBack, Put
<1>10. CASE k = 6
  BY <1>5, <1>6, <1>7, <1>8, <1>9, <1>10
<1>11. CASE k # 6
  <2>1. Level(g, WriteReg(k, v, h)) /\ WriteReg(k, v, h).reg = Changed(h.reg, k, v)
    BY <1>6, LevelWrite
  <2>3. SameR(WriteReg(k, v, h), u) /\ Bears(a, v, WriteReg(k, v, h))
    <3>1. SameR(WriteReg(k, v, h), u)
      BY <1>6, MovesKeepR
    <3>2. Bears(a, v, WriteReg(k, v, h))
      BY <1>7, HoldsKept
    <3> QED
      BY <3>1, <3>2
  <2>4. b = WriteReg(k, v, h)
    BY <1>9, <1>11
  <2>5. WriteReg(k, v, h).reg = Changed(u.reg, k, v)
    BY <1>6, <2>1
  <2>6. Level(g, b) /\ SameR(b, u) /\ Bears(a, v, b) /\ b.reg = Changed(u.reg, k, v)
    BY <2>1, <2>3, <2>4, <2>5
  <2> QED
    BY <1>5, <1>6, <1>8, <1>11, <2>6
<1> QED
  BY <1>10, <1>11

(* The low bits of the opcode aside, the page behind DD CB is the CB page *)
LEMMA CbOf ==
  ASSUME NEW op \in Byte, NEW base, base = op - Low(op) + 6
  PROVE  /\ base \in Byte /\ Low(base) = 6 /\ Field(base) = Field(op) /\ Field(op) \in 0 .. 7
         /\ (base < \h40 <=> op < \h40) /\ (base >= \h80 <=> op >= \h80) /\ (base >= \hC0 <=> op >= \hC0)
<1>1. PICK e : e = op \div 8
  OBVIOUS
<1>2. PICK l : l = op % 8
  OBVIOUS
<1>3. e \in 0 .. 31 /\ l \in 0 .. 7 /\ op = 8 * e + l
  BY <1>1, <1>2 DEF Byte
<1>4. base = 8 * e + 6
  BY <1>2, <1>3 DEF Low
<1>5. base % 8 = 6 /\ base \div 8 = e /\ base \in Byte
  BY <1>3, <1>4 DEF Byte
<1>7. (base < 64 <=> op < 64) /\ (base >= 128 <=> op >= 128) /\ (base >= 192 <=> op >= 192)
  BY <1>3, <1>4
<1>8. Field(base) = Field(op) /\ Field(op) \in 0 .. 7 /\ Low(base) = 6
  BY <1>1, <1>2, <1>3, <1>5 DEF Field, Low
<1>9. base < \h40 <=> op < \h40
  BY <1>7
<1>10. base >= \h80 <=> op >= \h80
  BY <1>7
<1>11. base >= \hC0 <=> op >= \hC0
  BY <1>7
<1>12. base \in Byte
  BY <1>5
<1> QED
  BY <1>8, <1>9, <1>10, <1>11, <1>12, Zenon

LEMMA RotThrough ==
  ASSUME NEW p, NEW d, NEW a, NEW n, NEW u, Aims(p, d, a, n, u), NEW op \in Byte,
         NEW base, base = op - Low(op) + 6, NEW m, m = OpIndexRot(p, d, op, u)
  PROVE  /\ Through(m, OpRot(base, n), IF Low(op) = 6 THEN u.reg ELSE Changed(u.reg, Low(op), At(a, m)), 8, u)
         /\ OpRot(base, n).reg = n.reg
<1>1. a = IndexAddress(p, d, u) /\ Fits(u) /\ a \in Words
  BY DEF Aims
<1>2. PICK x : x = At(a, u)
  OBVIOUS
<1>3. PICK result : result = RotApply(RotNames[Field(op) + 1], x, u.f)
  OBVIOUS
<1>4. PICK v : v = result.r
  OBVIOUS
<1>5. PICK fl : fl = result.f
  OBVIOUS
<1>6. PICK g : g = Write(a, v, Read(a, n))
  OBVIOUS
<1>7. PICK b : b = WrittenBack(a, v, op, u)
  OBVIOUS
<1>8. Low(base) = 6 /\ Field(base) = Field(op) /\ Field(op) \in 0 .. 7
  BY CbOf
<1>9. v \in Bytes
  BY <1>1, <1>2, <1>3, <1>4, <1>8, AtFits, AluNamed, RotFits
<1>10. Source(6, n) = x /\ Fetched(6, n) = Read(a, n) /\ n.f = u.f
  BY <1>2, ReachedAt
<1>11. /\ Store(6, v, Read(a, n)) = g /\ Level(g, b) /\ SameR(b, u) /\ Bears(a, v, b) /\ g.reg = n.reg
       /\ b.reg = IF Low(op) = 6 THEN u.reg ELSE Changed(u.reg, Low(op), v)
  BY <1>6, <1>7, <1>9, BackThrough
<1>12. Through(Setting(fl, 23, b), Setting(fl, 15, g), b.reg, 8, u) /\ Setting(fl, 15, g).reg = g.reg
  BY <1>11, SetThrough
<1>13. m = Setting(fl, 23, b)
  BY <1>1, <1>2, <1>3, <1>4, <1>5, <1>7, Zenon DEF OpIndexRot
<1>14. OpRot(base, n) = Setting(fl, 15, g)
  BY <1>3, <1>4, <1>5, <1>8, <1>10, <1>11 DEF OpRot
<1>15. At(a, m) = v
  BY <1>11, <1>13, HoldsKept DEF Bears
<1> QED
  BY <1>11, <1>12, <1>13, <1>14, <1>15

LEMMA ResSetThrough ==
  ASSUME NEW p, NEW d, NEW a, NEW n, NEW u, Aims(p, d, a, n, u), NEW op \in Byte,
         NEW base, base = op - Low(op) + 6, NEW m, m = OpIndexResSet(p, d, op, u)
  PROVE  /\ Through(m, OpResSet(base, n), IF Low(op) = 6 THEN u.reg ELSE Changed(u.reg, Low(op), At(a, m)), 8, u)
         /\ OpResSet(base, n).reg = n.reg
<1>1. a = IndexAddress(p, d, u) /\ Fits(u) /\ a \in Words
  BY DEF Aims
<1>2. PICK x : x = At(a, u)
  OBVIOUS
<1>3. PICK on : on = (op >= \hC0)
  OBVIOUS
<1>4. PICK v : v = WithBit(op, x, on)
  OBVIOUS
<1>6. PICK g : g = Write(a, v, Read(a, n))
  OBVIOUS
<1>7. PICK b : b = WrittenBack(a, v, op, u)
  OBVIOUS
<1>8. /\ Low(base) = 6 /\ Field(base) = Field(op) /\ Field(op) \in 0 .. 7
      /\ (base >= \hC0) = on
  BY <1>3, CbOf
<1>9. v \in Bytes
  BY <1>1, <1>2, <1>4, AtFits, WithBitFits
<1>10. Source(6, n) = x /\ Fetched(6, n) = Read(a, n)
  BY <1>2, ReachedAt
<1>11. /\ Store(6, v, Read(a, n)) = g /\ Level(g, b) /\ SameR(b, u) /\ Bears(a, v, b) /\ g.reg = n.reg
       /\ b.reg = IF Low(op) = 6 THEN u.reg ELSE Changed(u.reg, Low(op), v)
  BY <1>6, <1>7, <1>9, BackThrough
<1>12. Through(Keeping(23, b), Keeping(15, g), b.reg, 8, u) /\ Keeping(15, g).reg = g.reg
  <2>1. PICK late : late = 23
    OBVIOUS
  <2>2. PICK early : early = 15
    OBVIOUS
  <2>3. PICK extra : extra = 8
    OBVIOUS
  <2>4. late = early + extra /\ early \in Int /\ extra \in Int
    BY <2>1, <2>2, <2>3
  <2>5. Through(Keeping(late, b), Keeping(early, g), b.reg, extra, u) /\ Keeping(early, g).reg = g.reg
    BY <1>11, <2>4, KeptThrough
  <2> QED
    BY <2>1, <2>2, <2>3, <2>5
<1>13. m = Keeping(23, b)
  BY <1>1, <1>2, <1>3, <1>4, <1>7, Zenon DEF OpIndexResSet
<1>14. WithBit(base, x, on) = v
  BY <1>4, <1>8 DEF WithBit
<1>16. OpResSet(base, n) = Keeping(15, g)
  BY <1>8, <1>10, <1>11, <1>14 DEF OpResSet
<1>15. At(a, m) = v
  BY <1>11, <1>13, HoldsKept DEF Bears
<1> QED
  BY <1>11, <1>12, <1>13, <1>15, <1>16

LEMMA BitThrough ==
  ASSUME NEW p, NEW d, NEW a, NEW n, NEW u, Aims(p, d, a, n, u), NEW op \in Byte,
         NEW base, base = op - Low(op) + 6
  PROVE  Through(OpIndexBit(p, d, op, u), OpBit(base, n), u.reg, 8, u) /\ OpBit(base, n).reg = n.reg
<1>1. a = IndexAddress(p, d, u)
  BY DEF Aims
<1>2. PICK x : x = At(a, u)
  OBVIOUS
<1>3. PICK fl : fl = BitFlags(u.f, x, 2 ^ Field(op), Hi(a))
  OBVIOUS
<1>4. PICK g : g = Read(a, n)
  OBVIOUS
<1>5. PICK y : y = Read(a, u)
  OBVIOUS
<1>6. PICK h : h = Put("wz", a, y)
  OBVIOUS
<1>7. Source(6, n) = x /\ Fetched(6, n) = g /\ n.f = u.f /\ n.wz = a /\ Paired(a, n, u, n, u)
  BY <1>2, <1>4, ReachedAt
<1>8. Paired(a, g, y, n, u)
  BY <1>4, <1>5, <1>7, PairedOn
<1>9. Level(g, h) /\ h.reg = u.reg /\ g.reg = n.reg /\ SameR(h, u)
  BY <1>6, <1>8, PairedLevel
<1>10. Through(Setting(fl, 20, h), Setting(fl, 12, g), h.reg, 8, u) /\ Setting(fl, 12, g).reg = g.reg
  BY <1>9, SetThrough
<1>11. Low(base) = 6 /\ Field(base) = Field(op)
  BY CbOf
<1>12. OpIndexBit(p, d, op, u) = Setting(fl, 20, h)
  BY <1>1, <1>2, <1>3, <1>5, <1>6, Zenon DEF OpIndexBit, Put
<1>13. OpBit(base, n) = Setting(fl, 12, g)
  BY <1>3, <1>7, <1>11 DEF OpBit
<1> QED
  BY <1>9, <1>10, <1>12, <1>13

LEMMA LdNThrough ==
  ASSUME NEW p, NEW d, NEW a, NEW n, NEW u, Aims(p, d, a, n, u), NEW args, args[1] = d,
         NEW rest, rest[1] = args[2]
  PROVE  Through(OpLdIndexMemN(p, args, u), OpLdRN(\h36, rest, n), u.reg, 9, u) /\ OpLdRN(\h36, rest, n).reg = n.reg
<1>1. a = IndexAddress(p, args[1], u)
  BY DEF Aims
<1>2. PICK v : v = args[2]
  OBVIOUS
<1>3. PICK g : g = Write(a, v, n)
  OBVIOUS
<1>4. PICK y : y = Write(a, v, u)
  OBVIOUS
<1>5. PICK h : h = Put("wz", a, y)
  OBVIOUS
<1>6. Paired(a, n, u, n, u)
  BY ReachedAt
<1>7. Paired(a, g, y, n, u) /\ Store(6, v, n) = g
  BY <1>3, <1>4, <1>6, PairedOn
<1>8. Level(g, h) /\ h.reg = u.reg /\ g.reg = n.reg /\ SameR(h, u)
  BY <1>5, <1>7, PairedLevel
<1>9. Through(Keeping(19, h), Keeping(10, g), h.reg, 9, u) /\ Keeping(10, g).reg = g.reg
  <2>1. PICK late : late = 19
    OBVIOUS
  <2>2. PICK early : early = 10
    OBVIOUS
  <2>3. PICK extra : extra = 9
    OBVIOUS
  <2>4. late = early + extra /\ early \in Int /\ extra \in Int
    BY <2>1, <2>2, <2>3
  <2>5. Through(Keeping(late, h), Keeping(early, g), h.reg, extra, u) /\ Keeping(early, g).reg = g.reg
    BY <1>8, <2>4, KeptThrough
  <2> QED
    BY <2>1, <2>2, <2>3, <2>5
<1>10. OpLdIndexMemN(p, args, u) = Keeping(19, h)
  BY <1>1, <1>2, <1>4, <1>5, Zenon DEF OpLdIndexMemN, Put
<1>11. OpLdRN(\h36, rest, n) = Keeping(10, g)
  <2>1. Field(\h36) = 6
    BY DEF Field
  <2> QED
    BY <1>2, <1>7, <2>1 DEF OpLdRN
<1> QED
  BY <1>8, <1>9, <1>10, <1>11

LEMMA LdMemRThrough ==
  ASSUME NEW p, NEW d, NEW a, NEW n, NEW u, Aims(p, d, a, n, u), NEW args, args[1] = d,
         NEW op \in \h70 .. \h77, Low(op) # 6, NEW w, w = Put("reg", Changed(n.reg, 7, u.reg[Low(op)]), n)
  PROVE  /\ Through(OpLdIndexMemR(p, op, args, u), OpLdRR(\h77, w), u.reg, 12, u)
         /\ OpLdRR(\h77, w).reg = w.reg /\ w.reg = Changed(n.reg, 7, u.reg[Low(op)])
<1>1. a = IndexAddress(p, args[1], u)
  BY DEF Aims
<1>2. PICK v : v = u.reg[Low(op)]
  OBVIOUS
<1>3. PICK g : g = Write(a, v, w)
  OBVIOUS
<1>4. PICK y : y = Write(a, v, u)
  OBVIOUS
<1>5. PICK h : h = Put("wz", a, y)
  OBVIOUS
<1>6. Paired(a, n, u, n, u) /\ HL(n) = a
  BY ReachedAt
<1>12. PICK registers : registers = Changed(n.reg, 7, v)
  OBVIOUS
<1>13. w = Put("reg", registers, n)
  BY <1>2, <1>12
<1>14. Beside(w, u) /\ w.wz = a /\ w.reg = registers /\ w.f = u.f /\ IsRecord(w)
  <2>1. w = [n EXCEPT !.reg = registers] /\ IsRecord(n) /\ IsRecord(u)
    BY <1>6, <1>13 DEF Put, Paired
  <2>2. DOMAIN w = DOMAIN n /\ w.reg = registers /\ \A x \in DOMAIN n \ {"reg"} : w[x] = n[x]
    BY <2>1 DEF IsRecord, Fields
  <2>3. IsRecord(w)
    BY <2>1, <2>2 DEF IsRecord
  <2>4. w.wz = n.wz /\ w.f = n.f /\ w.t = n.t
    BY <2>1, <2>2 DEF IsRecord, Fields
  <2>5. Beside(w, u)
    BY <1>6, <2>1, <2>2, <2>3, <2>4 DEF Paired, Beside
  <2> QED
    BY <1>6, <2>2, <2>3, <2>4, <2>5 DEF Paired
<1>15. w.reg[7] = v /\ w.reg[4] = n.reg[4] /\ w.reg[5] = n.reg[5]
  <2>1. n.reg \in [RegisterIndex -> Bytes]
    BY AimedIs DEF Aims
  <2> QED
    BY <1>12, <1>14, <2>1 DEF Changed, RegisterIndex
<1>16. HL(w) = a
  BY <1>6, <1>15 DEF HL
<1>17. Paired(a, w, u, w, u)
  BY <1>6, <1>14, <1>16 DEF Paired
<1>7. Paired(a, g, y, w, u) /\ Store(6, v, w) = g
  BY <1>3, <1>4, <1>17, PairedOn
<1>8. Level(g, h) /\ h.reg = u.reg /\ g.reg = w.reg /\ SameR(h, u)
  BY <1>5, <1>7, PairedLevel
<1>9. Through(Keeping(19, h), Keeping(7, g), h.reg, 12, u) /\ Keeping(7, g).reg = g.reg
  <2>1. PICK late : late = 19
    OBVIOUS
  <2>2. PICK early : early = 7
    OBVIOUS
  <2>3. PICK extra : extra = 12
    OBVIOUS
  <2>4. late = early + extra /\ early \in Int /\ extra \in Int
    BY <2>1, <2>2, <2>3
  <2>5. Through(Keeping(late, h), Keeping(early, g), h.reg, extra, u) /\ Keeping(early, g).reg = g.reg
    BY <1>8, <2>4, KeptThrough
  <2> QED
    BY <2>1, <2>2, <2>3, <2>5
<1>10. OpLdIndexMemR(p, op, args, u) = Keeping(19, h)
  BY <1>1, <1>2, <1>4, <1>5, Zenon DEF OpLdIndexMemR, Put
<1>11. OpLdRR(\h77, w) = Keeping(7, g)
  <2>1. Field(\h77) = 6 /\ Low(\h77) = 7
    BY DEF Field, Low
  <2>2. Source(7, w) = v /\ Fetched(7, w) = w
    BY <1>15 DEF Source, Fetched
  <2> QED
    BY <1>7, <2>1, <2>2 DEF OpLdRR
<1> QED
  BY <1>2, <1>8, <1>9, <1>10, <1>11, <1>12, <1>14

LEMMA LatchedAfter ==
  ASSUME NEW y, IsRecord(y), NEW k, NEW x \in Bytes, NEW a
  PROVE  /\ Put("wz", a, WriteReg(k, x, y)) = WriteReg(k, x, Put("wz", a, y))
         /\ [y EXCEPT !.reg[k] = x] = WriteReg(k, x, y)
<1>1. x % 256 = x
  BY DEF Bytes
<1>2. [y EXCEPT !.reg[k] = x] = WriteReg(k, x, y)
  BY <1>1, Zenon DEF WriteReg
<1>3. PICK b : b = [y.reg EXCEPT ![k] = x]
  OBVIOUS
<1>4. ASSUME NEW e, IsRecord(e), e.reg = y.reg
      PROVE  WriteReg(k, x, e) = [e EXCEPT !.reg = b]
  BY <1>1, <1>3, <1>4 DEF WriteReg, IsRecord, Fields
<1>5. WriteReg(k, x, y) = [y EXCEPT !.reg = b]
  BY <1>4
<1>6. IsRecord(Put("wz", a, y)) /\ Put("wz", a, y).reg = y.reg
  BY DEF Put, IsRecord, Fields
<1>7. WriteReg(k, x, Put("wz", a, y)) = [Put("wz", a, y) EXCEPT !.reg = b]
  BY <1>4, <1>6
<1>8. [[y EXCEPT !.wz = a] EXCEPT !.reg = b] = [[y EXCEPT !.reg = b] EXCEPT !.wz = a]
  BY DEF IsRecord, Fields
<1> QED
  BY <1>2, <1>5, <1>7, <1>8 DEF Put

LEMMA LdRMemThrough ==
  ASSUME NEW p, NEW d, NEW a, NEW n, NEW u, Aims(p, d, a, n, u), NEW args, args[1] = d,
         NEW op \in Byte, NEW k, k = Field(op), NEW m, m = OpLdRIndexMem(p, op, args, u)
  PROVE  /\ Through(m, OpLdRR(\h7E, n), Changed(u.reg, k, At(a, m)), 12, u)
         /\ OpLdRR(\h7E, n).reg = Changed(n.reg, 7, At(a, m))
<1>1. a = IndexAddress(p, args[1], u) /\ Fits(u) /\ a \in Words /\ IsRecord(u)
  BY DEF Aims
<1>2. PICK x : x = At(a, u)
  OBVIOUS
<1>3. x \in Bytes
  BY <1>1, <1>2, AtFits
<1>4. PICK g : g = Read(a, n)
  OBVIOUS
<1>5. PICK y : y = Read(a, u)
  OBVIOUS
<1>6. PICK h : h = Put("wz", a, y)
  OBVIOUS
<1>7. Source(6, n) = x /\ Fetched(6, n) = g /\ Paired(a, n, u, n, u)
  BY <1>2, <1>4, ReachedAt
<1>8. Paired(a, g, y, n, u)
  BY <1>4, <1>5, <1>7, PairedOn
<1>9. Level(g, h) /\ h.reg = u.reg /\ g.reg = n.reg /\ SameR(h, u)
  BY <1>6, <1>8, PairedLevel
<1>10. PICK gx : gx = WriteReg(7, x, g)
  OBVIOUS
<1>11. PICK hx : hx = WriteReg(k, x, h)
  OBVIOUS
<1>12. Level(g, hx) /\ hx.reg = Changed(u.reg, k, x)
  BY <1>3, <1>9, <1>11, LevelWrite
<1>13. Level(gx, hx)
  BY <1>3, <1>10, <1>12, LevelWrite
<1>14. gx.reg = Changed(n.reg, 7, x)
  BY <1>3, <1>9, <1>10, LevelWrite
<1>15. SameR(hx, u)
  BY <1>9, <1>11, MovesKeepR
<1>16. Through(Keeping(19, hx), Keeping(7, gx), hx.reg, 12, u) /\ Keeping(7, gx).reg = gx.reg
  <2>1. PICK late : late = 19
    OBVIOUS
  <2>2. PICK early : early = 7
    OBVIOUS
  <2>3. PICK extra : extra = 12
    OBVIOUS
  <2>4. late = early + extra /\ early \in Int /\ extra \in Int
    BY <2>1, <2>2, <2>3
  <2>5. Through(Keeping(late, hx), Keeping(early, gx), hx.reg, extra, u) /\ Keeping(early, gx).reg = gx.reg
    BY <1>13, <1>15, <2>4, KeptThrough
  <2> QED
    BY <2>1, <2>2, <2>3, <2>5
<1>17. m = Keeping(19, hx)
  <2>1. m = Keeping(19, Put("wz", a, WriteReg(k, x, y)))
    BY <1>1, <1>2, <1>5, Zenon DEF OpLdRIndexMem, Put
  <2>2. Put("wz", a, WriteReg(k, x, y)) = hx
    BY <1>3, <1>6, <1>8, <1>11, LatchedAfter DEF Paired
  <2> QED
    BY <2>1, <2>2
<1>18. OpLdRR(\h7E, n) = Keeping(7, gx)
  <2>1. Field(\h7E) = 7 /\ Low(\h7E) = 6
    BY DEF Field, Low
  <2>2. Store(7, x, g) = gx
    BY <1>10 DEF Store
  <2> QED
    BY <1>7, <2>1, <2>2 DEF OpLdRR
<1>19. At(a, m) = x
  <2>1. At(a, y) = x
    BY <1>1, <1>2, <1>5, AccessesLeave
  <2>2. Bears(a, x, y)
    BY <1>8, <2>1 DEF Bears, Paired, IsRecord, Fields
  <2>3. Bears(a, x, h)
    BY <1>6, <2>2, HoldsKept
  <2>4. Bears(a, x, hx)
    BY <1>11, <2>3, HoldsKept
  <2>5. Bears(a, x, m)
    BY <1>17, <2>4, HoldsKept
  <2> QED
    BY <2>5 DEF Bears
<1> QED
  BY <1>12, <1>14, <1>16, <1>17, <1>18, <1>19

LEMMA AluThrough ==
  ASSUME NEW p, NEW d, NEW a, NEW n, NEW u, Aims(p, d, a, n, u), NEW args, args[1] = d,
         NEW op \in Byte, Low(op) = 6, NEW t, t = OpAluR(op, n)
  PROVE  /\ Through(OpAluIndexMem(p, op, args, u), t, Changed(u.reg, 7, t.reg[7]), 12, u)
         /\ t.reg = Changed(n.reg, 7, t.reg[7])
<1>1. a = IndexAddress(p, args[1], u) /\ Fits(u) /\ a \in Words /\ IsRecord(u)
  BY DEF Aims
<1>2. PICK x : x = At(a, u)
  OBVIOUS
<1>3. PICK result : result = AluA(AluNames[Field(op) + 1], RegA(u), x, u.f)
  OBVIOUS
<1>4. PICK r : r = result.r
  OBVIOUS
<1>5. PICK fl : fl = result.f
  OBVIOUS
<1>6. r \in Bytes
  <2>1. x \in Bytes /\ RegA(u) \in Bytes
    BY <1>1, <1>2, AtFits DEF RegA, Fits, RegisterIndex
  <2>2. Field(op) \in 0 .. 7
    BY DEF Field, Byte
  <2>3. AluNames[Field(op) + 1] \in AluOps
    BY <2>2, AluNamed
  <2> QED
    BY <1>3, <1>4, <2>1, <2>3, AluFits
<1>7. PICK g : g = Read(a, n)
  OBVIOUS
<1>8. PICK y : y = Read(a, u)
  OBVIOUS
<1>9. PICK h : h = Put("wz", a, y)
  OBVIOUS
<1>10. Source(6, n) = x /\ Fetched(6, n) = g /\ n.f = u.f /\ RegA(n) = RegA(u) /\ Paired(a, n, u, n, u)
  BY <1>2, <1>7, ReachedAt
<1>11. Paired(a, g, y, n, u)
  BY <1>7, <1>8, <1>10, PairedOn
<1>12. Level(g, h) /\ h.reg = u.reg /\ g.reg = n.reg /\ SameR(h, u) /\ g.f = u.f
  BY <1>9, <1>11, PairedLevel DEF Paired
<1>13. PICK gr : gr = WriteReg(7, r, g)
  OBVIOUS
<1>14. PICK hr : hr = WriteReg(7, r, h)
  OBVIOUS
<1>15. Level(g, hr) /\ hr.reg = Changed(u.reg, 7, r)
  BY <1>6, <1>12, <1>14, LevelWrite
<1>16. Level(gr, hr)
  BY <1>6, <1>13, <1>15, LevelWrite
<1>17. gr.reg = Changed(n.reg, 7, r)
  BY <1>6, <1>12, <1>13, LevelWrite
<1>18. SameR(hr, u)
  BY <1>12, <1>14, MovesKeepR
<1>19. Through(Setting(fl, 19, hr), Setting(fl, 7, gr), hr.reg, 12, u) /\ Setting(fl, 7, gr).reg = gr.reg
  BY <1>16, <1>18, SetThrough
<1>20. OpAluIndexMem(p, op, args, u) = Setting(fl, 19, hr)
  <2>1. OpAluIndexMem(p, op, args, u) = AluOn(op, x, 19, h)
    BY <1>1, <1>2, <1>8, <1>9, Zenon DEF OpAluIndexMem, Put
  <2>2. RegA(h) = RegA(u) /\ h.f = u.f
    BY <1>12 DEF RegA, Level, IsRecord, Fields
  <2>3. AluOn(op, x, 19, h) = Setting(fl, 19, [h EXCEPT !.reg[7] = r])
    BY <1>3, <1>4, <1>5, <2>2, Zenon DEF AluOn
  <2>4. [h EXCEPT !.reg[7] = r] = hr
    BY <1>6, <1>12, <1>14, LatchedAfter DEF Level
  <2> QED
    BY <2>1, <2>3, <2>4
<1>21. t = Setting(fl, 7, gr)
  <2>1. t = AluOn(op, x, 7, g)
    BY <1>10, Zenon DEF OpAluR
  <2>2. RegA(g) = RegA(u)
    BY <1>10, <1>12 DEF RegA
  <2>3. AluOn(op, x, 7, g) = Setting(fl, 7, [g EXCEPT !.reg[7] = r])
    BY <1>3, <1>4, <1>5, <1>12, <2>2, Zenon DEF AluOn
  <2>4. [g EXCEPT !.reg[7] = r] = gr
    BY <1>6, <1>12, <1>13, LatchedAfter DEF Level
  <2> QED
    BY <2>1, <2>3, <2>4
<1>22. t.reg[7] = r
  <2>1. t.reg = Changed(n.reg, 7, r)
    BY <1>17, <1>19, <1>21
  <2>2. n.reg \in [RegisterIndex -> Bytes]
    BY AimedIs DEF Aims
  <2> QED
    BY <2>1, <2>2 DEF Changed, RegisterIndex
<1> QED
  BY <1>15, <1>17, <1>19, <1>20, <1>21, <1>22

LEMMA PutBack ==
  ASSUME NEW u, u \in [RegisterIndex -> Bytes], u = cpu.reg, NEW n, n \in [RegisterIndex -> Bytes],
         \A k \in RegisterIndex \ {4, 5} : n[k] = u[k], NEW v
  PROVE  /\ PutBackHl(n) = u
         /\ PutBackHl(Changed(n, 7, v)) = Changed(u, 7, v)
         /\ PutBackHlA(Changed(n, 7, v)) = u
<1>1. RegisterIndex = {0, 1, 2, 3, 4, 5, 7}
  BY DEF RegisterIndex
<1>2. PutBackHl(n) = u
  BY <1>1 DEF PutBackHl
<1>3. PutBackHl(Changed(n, 7, v)) = Changed(u, 7, v)
  <2>1. PICK c : c = [k \in RegisterIndex |-> IF k = 7 THEN v ELSE n[k]]
    OBVIOUS
  <2>2. Changed(n, 7, v) = c /\ Changed(u, 7, v) = [k \in RegisterIndex |-> IF k = 7 THEN v ELSE u[k]]
    BY <2>1 DEF Changed
  <2>3. PutBackHl(c) = [k \in RegisterIndex |-> IF k = 4 THEN u[4] ELSE IF k = 5 THEN u[5] ELSE c[k]]
    BY <1>1, <2>1 DEF PutBackHl
  <2> QED
    BY <1>1, <2>1, <2>2, <2>3
<1>4. PutBackHlA(Changed(n, 7, v)) = u
  <2>1. PutBackHlA(Changed(n, 7, v)) = [Changed(u, 7, v) EXCEPT ![7] = u[7]]
    BY <1>3 DEF PutBackHlA
  <2> QED
    BY <1>1, <2>1 DEF Changed
<1> QED
  BY <1>2, <1>3, <1>4

LEMMA AfterIs ==
  ASSUME NEW m, after = Delayed(stray, m), NEW t, NEW registers, NEW e \in Int, NEW u, Through(m, t, registers, e, u),
         stray \in Int, u.r = Refreshed(cpu.r, m1), Fits(after), NEW a
  PROVE  /\ after = Delayed(stray + e, [t EXCEPT !.reg = registers])
         /\ after.r = Refreshed(cpu.r, m1) /\ At(a, after) = At(a, m)
<1>1. PICK h : h = [t EXCEPT !.reg = registers]
  OBVIOUS
<1>2. m = Delayed(e, h) /\ h.t \in Int /\ SameR(m, u)
  BY <1>1 DEF Through, EndsLater
<1>3. Delayed(stray, Delayed(e, h)) = Delayed(stray + e, h)
  BY <1>2, DelayedTwice
<1>4. SameR(after, u)
  BY <1>2, MovesKeepR
<1>5. "mem" \in DOMAIN m
  BY DEF Fits, Delayed
<1>6. Bears(a, At(a, m), m)
  BY <1>5 DEF Bears
<1>7. Bears(a, At(a, m), Delayed(stray, m))
  BY <1>6, HoldsKept
<1> QED
  BY <1>1, <1>2, <1>3, <1>4, <1>7 DEF SameR, Bears

LEMMA ReadyAims ==
  ASSUME ReadingInv, NEW d \in Bytes, NEW u, u = [Ready EXCEPT !.q = {}],
         NEW a, a = DisplacedBy(d), NEW n, n = Aimed(a, u)
  PROVE  Aims(prefix, d, a, n, u) /\ u.reg = cpu.reg /\ u.r = Refreshed(cpu.r, m1)
<1>1. Fits(u) /\ IsRecord(u) /\ u.t \in Int /\ u.r = Refreshed(cpu.r, m1) /\ SameR(u, u)
  BY ReadyIs
<1>2. Fits(cpu) /\ IsRecord(cpu)
  BY MachinesAssumption DEF IsRecord, Fields, Fits, ReadingInv
<1>3. u.reg = cpu.reg /\ u.ix = cpu.ix /\ u.iy = cpu.iy
  BY <1>2 DEF Ready, Behind, IsRecord, Fields
<1>4. PICK index : index = GetIndex(prefix, cpu)
  OBVIOUS
<1>5. GetIndex(prefix, u) = index /\ index \in Words
  BY <1>2, <1>3, <1>4, IndexFits DEF GetIndex
<1>6. (index + d - IF d > 127 THEN 256 ELSE 0) = index + IF d >= 128 THEN d - 256 ELSE d
  <2>1. index \in Int
    BY <1>5, WordsAre
  <2> QED
    BY <2>1 DEF Bytes
<1>7. a = IndexAddress(prefix, d, u)
  BY <1>4, <1>5, <1>6 DEF IndexAddress, Displaced, Wrap16, DisplacedBy
<1>8. a \in Words
  BY <1>1, <1>7, IndexAddressFits
<1> QED
  BY <1>1, <1>3, <1>7, <1>8 DEF Aims

LEMMA DisplacedDispatch ==
  ASSUME NEW op \in Byte, NEW p, NEW args, NEW others, NEW s, NEW n
  PROVE  /\ op \in {\h34, \h35} => /\ IndexedEffect(p, op, args, s) = OpIncDecIndexMem(p, op, args, s)
                                   /\ MainEffect(op, others, n) = OpIncDec(op, n)
         /\ op = \h36 => /\ IndexedEffect(p, op, args, s) = OpLdIndexMemN(p, args, s)
                         /\ MainEffect(op, others, n) = OpLdRN(op, others, n)
         /\ op \in \h40 .. \h7F /\ Low(op) = 6 /\ op # \h76 => IndexedEffect(p, op, args, s) = OpLdRIndexMem(p, op, args, s)
         /\ op \in \h70 .. \h77 /\ Low(op) # 6 => IndexedEffect(p, op, args, s) = OpLdIndexMemR(p, op, args, s)
         /\ op \in \h80 .. \hBF /\ Low(op) = 6 => /\ IndexedEffect(p, op, args, s) = OpAluIndexMem(p, op, args, s)
                                                  /\ MainEffect(op, others, n) = OpAluR(op, n)
         /\ MainEffect(\h7E, others, n) = OpLdRR(\h7E, n) /\ MainEffect(\h77, others, n) = OpLdRR(\h77, n)
<1>1. ASSUME op \in {\h34, \h35} PROVE IndexedEffect(p, op, args, s) = OpIncDecIndexMem(p, op, args, s)
  BY <1>1 DEF IndexedEffect
<1>2. ASSUME op = \h36 PROVE IndexedEffect(p, op, args, s) = OpLdIndexMemN(p, args, s)
  BY <1>2 DEF IndexedEffect
<1>3. ASSUME op \in \h40 .. \h7F, Low(op) = 6, op # \h76
      PROVE  IndexedEffect(p, op, args, s) = OpLdRIndexMem(p, op, args, s)
  <2>1. op \in {\h46, \h4E, \h56, \h5E, \h66, \h6E, \h7E}
    BY <1>3 DEF Low
  <2> QED
    BY <1>3, <2>1 DEF IndexedEffect
<1>4. ASSUME op \in \h70 .. \h77, Low(op) # 6 PROVE IndexedEffect(p, op, args, s) = OpLdIndexMemR(p, op, args, s)
  <2>1. op \in {\h70, \h71, \h72, \h73, \h74, \h75, \h77} /\ Field(op) = 6
    BY <1>4 DEF Low, Field
  <2> QED
    BY <1>4, <2>1 DEF IndexedEffect
<1>5. ASSUME op \in \h80 .. \hBF, Low(op) = 6 PROVE IndexedEffect(p, op, args, s) = OpAluIndexMem(p, op, args, s)
  BY <1>5 DEF IndexedEffect, Low
<1>6. ASSUME op \in {\h34, \h35} PROVE MainEffect(op, others, n) = OpIncDec(op, n)
  BY <1>6, Every8Is DEF MainEffect
<1>7. ASSUME op = \h36 PROVE MainEffect(op, others, n) = OpLdRN(op, others, n)
  BY <1>7, Every8Is DEF MainEffect
<1>8. ASSUME op \in \h80 .. \hBF, Low(op) = 6 PROVE MainEffect(op, others, n) = OpAluR(op, n)
  BY <1>8, Every8Is DEF MainEffect
<1>9. MainEffect(\h7E, others, n) = OpLdRR(\h7E, n)
  BY Every8Is DEF MainEffect
<1>10. MainEffect(\h77, others, n) = OpLdRR(\h77, n)
  BY Every8Is DEF MainEffect
<1> QED
  BY <1>1, <1>2, <1>3, <1>4, <1>5, <1>6, <1>7, <1>8, <1>9, <1>10

(* The displaced operation, shown as the property states it *)
LEMMA ReachedIs ==
  ASSUME NEW m, after = Delayed(stray, m), NEW t, NEW registers, NEW e \in Int, NEW u, Through(m, t, registers, e, u),
         stray \in Int, u.r = Refreshed(cpu.r, m1), Fits(after), NEW a, NEW kept, NEW copied,
         registers = IF copied = 6 THEN kept ELSE Changed(kept, copied, At(a, m))
  PROVE  Reached(a, t, kept, copied, e) /\ after.r = Refreshed(cpu.r, m1)
<1>1. /\ after = Delayed(stray + e, [t EXCEPT !.reg = registers])
      /\ after.r = Refreshed(cpu.r, m1) /\ At(a, after) = At(a, m)
  BY AfterIs
<1>2. registers = IF copied = 6 THEN kept ELSE [kept EXCEPT ![copied] = At(a, after)]
  BY <1>1 DEF Changed
<1> QED
  BY <1>1, <1>2 DEF Reached

LEMMA CbReached ==
  ASSUME ReadingInv, EffectInv, FetchedInv, Done, opened = "index_cb"
  PROVE  ReachedByCb
<1>1. /\ code \in Seq(Byte) /\ Found /\ left = 0 /\ after = Effect(Ready) /\ Fits(after)
      /\ m1 \in Nat /\ cpu \in Machines /\ Len(code) \in Nat
  BY DEF ReadingInv, EffectInv, Done
<1>2. PICK op : op = Opcode
  OBVIOUS
<1>3. op \in handler.ops /\ handler \in IndexCbRules
  BY <1>1, <1>2, ArgsAre DEF RulesOf
<1>4. op \in Byte
  BY <1>3, CbSays
<1>5. stray = 4 * (m1 - 2) /\ m1 = Len(code) - 2 /\ stray \in Int
  BY <1>1 DEF FetchedInv, Done
<1>6. PICK d : d = code[Len(code) - 1]
  OBVIOUS
<1>7. d \in Bytes
  <2>1. Len(code) >= 2
    BY <1>1 DEF Found
  <2>2. d \in Byte
    BY <1>1, <1>6, <2>1
  <2> QED
    BY <2>2 DEF Byte, Bytes
<1>8. PICK u : u = [Ready EXCEPT !.q = {}]
  OBVIOUS
<1>9. PICK a : a = DisplacedBy(d)
  OBVIOUS
<1>10. PICK n : n = Aimed(a, u)
  OBVIOUS
<1>11. Aims(prefix, d, a, n, u) /\ u.reg = cpu.reg /\ u.r = Refreshed(cpu.r, m1)
  BY <1>7, <1>8, <1>9, <1>10, ReadyAims
<1>12. PICK base : base = op - Low(op) + 6
  OBVIOUS
<1>13. PICK t : t = CbEffect(base, n)
  OBVIOUS
<1>14. PICK m : m = IndexCbEffect(prefix, d, op, u)
  OBVIOUS
<1>15. after = Delayed(stray, m)
  BY <1>1, <1>2, <1>6, <1>8, <1>14 DEF Effect, IndexCbPage
<1>16. /\ u.reg \in [RegisterIndex -> Bytes] /\ n.reg \in [RegisterIndex -> Bytes]
       /\ \A k \in RegisterIndex \ {4, 5} : n.reg[k] = u.reg[k]
  BY <1>11, AimedIs DEF Aims, Fits
<1>17. PutBackHl(n.reg) = u.reg
  BY <1>11, <1>16, PutBack
<1>18. PICK copied : copied = IF op \in \h40 .. \h7F THEN 6 ELSE Low(op)
  OBVIOUS
<1>19. PICK registers : registers = IF copied = 6 THEN u.reg ELSE Changed(u.reg, copied, At(a, m))
  OBVIOUS
<1>20. base \in Byte /\ (base < \h40 <=> op < \h40) /\ (base >= \h80 <=> op >= \h80)
  BY <1>4, <1>12, CbOf
<1>21. Through(m, t, registers, 8, u) /\ t.reg = n.reg
  <2>1. CASE op < \h40
    <3>1. m = OpIndexRot(prefix, d, op, u) /\ copied = Low(op)
      BY <1>4, <1>14, <1>18, <2>1 DEF IndexCbEffect, Byte
    <3>2. t = OpRot(base, n)
      BY <1>13, <1>20, <2>1 DEF CbEffect, Byte
    <3> QED
      BY <1>4, <1>11, <1>12, <1>19, <3>1, <3>2, RotThrough
  <2>2. CASE op \in \h40 .. \h7F
    <3>1. m = OpIndexBit(prefix, d, op, u) /\ copied = 6
      BY <1>4, <1>14, <1>18, <2>2 DEF IndexCbEffect, Byte
    <3>2. t = OpBit(base, n)
      BY <1>4, <1>13, <1>20, <2>2 DEF CbEffect, Byte
    <3> QED
      BY <1>4, <1>11, <1>12, <1>19, <3>1, <3>2, BitThrough
  <2>3. CASE op >= \h80
    <3>1. m = OpIndexResSet(prefix, d, op, u) /\ copied = Low(op)
      BY <1>4, <1>14, <1>18, <2>3 DEF IndexCbEffect, Byte
    <3>2. t = OpResSet(base, n)
      BY <1>13, <1>20, <2>3 DEF CbEffect, Byte
    <3> QED
      BY <1>4, <1>11, <1>12, <1>19, <3>1, <3>2, ResSetThrough
  <2> QED
    BY <1>4, <2>1, <2>2, <2>3 DEF Byte
<1>22. PICK kept : kept = PutBackHl(t.reg)
  OBVIOUS
<1>23. Reached(a, t, kept, copied, 8) /\ after.r = Refreshed(cpu.r, m1)
  BY <1>1, <1>5, <1>11, <1>15, <1>17, <1>19, <1>21, <1>22, ReachedIs
<1>24. RefreshedBy(Len(code) - 2)
  BY <1>5, <1>23 DEF RefreshedBy
<1> QED
  BY <1>2, <1>6, <1>8, <1>9, <1>10, <1>12, <1>13, <1>18, <1>22, <1>23, <1>24 DEF ReachedByCb

(* Which of the displacing opcodes it is, and the operands it has *)
LEMMA DisplacingIs ==
  ASSUME NEW rule \in IndexRules, NEW op \in rule.ops, Displaces(op)
  PROVE  /\ rule.index = TRUE /\ op \in Byte
         /\ \/ op \in {\h34, \h35} /\ rule.operands = 1
            \/ op = \h36 /\ rule.operands = 2
            \/ op \in \h40 .. \h7F /\ Low(op) = 6 /\ op # \h76 /\ rule.operands = 1
            \/ op \in \h70 .. \h77 /\ Low(op) # 6 /\ rule.operands = 1
            \/ op \in \h80 .. \hBF /\ Low(op) = 6 /\ rule.operands = 1
<1>1. op \notin Untouched \cup {\hEB, \hD9}
  <2>1. CASE op \in \h34 .. \h36
    BY <2>1, Every8Is DEF Untouched, PlainLoads
  <2>2. CASE op \in \h40 .. \hBF /\ op # \h76 /\ (Low(op) = 6 \/ op \in \h70 .. \h77)
    <3>1. Low(op) = 6 \/ Field(op) = 6
      BY <2>2 DEF Field
    <3>2. op \notin PlainLoads /\ op \notin {o \in \h80 .. \hBF : Low(o) \in Plain}
      BY <2>2, <3>1 DEF PlainLoads, Plain
    <3> QED
      BY <2>2, <3>2, Every8Is DEF Untouched
  <2> QED
    BY <2>1, <2>2 DEF Displaces
<1>2. rule.index = TRUE
  <2>1. IndexKind(rule, op)
    BY IndexKinds
  <2> QED
    BY <1>1, <2>1 DEF IndexKind
<1>3. IndexRule(rule, op)
  <2>1. PlainRule(rule, op) \/ IndexRule(rule, op)
    BY IndexSays
  <2> QED
    BY <1>2, <2>1 DEF PlainRule
<1>4. \/ op \in {\h34, \h35, \h36}
      \/ op \in \h40 .. \hBF /\ op # \h76 /\ (Low(op) = 6 \/ op \in \h70 .. \h77)
  BY DEF Displaces
<1>5. CASE op \in {\h34, \h35, \h36}
  BY <1>2, <1>3, <1>5 DEF IndexRule, IndexOne, IndexTwo, Byte
<1>6. CASE op \in \h40 .. \hBF /\ op # \h76 /\ (Low(op) = 6 \/ op \in \h70 .. \h77)
  <2>1. op \in IndexOne /\ op \in Byte
    BY <1>6 DEF IndexOne, Byte
  <2>2. rule.operands = 1
    BY <1>3, <2>1 DEF IndexRule
  <2>3. op \in \h40 .. \h7F \/ op \in \h80 .. \hBF
    BY <1>6
  <2>4. op \in \h70 .. \h77 => Low(op) # 6
    BY <1>6 DEF Low
  <2>5. op \in \h80 .. \hBF => op \notin \h70 .. \h77
    OBVIOUS
  <2> QED
    BY <1>2, <1>6, <2>1, <2>2, <2>3, <2>4, <2>5
<1> QED
  BY <1>4, <1>5, <1>6

LEMMA MainReached ==
  ASSUME ReadingInv, EffectInv, FetchedInv, Done, opened = "index", Displaces(Opcode)
  PROVE  ReachedByMain
<1>1. /\ code \in Seq(Byte) /\ Found /\ left = 0 /\ after = Effect(Ready) /\ Fits(after)
      /\ m1 \in Nat /\ cpu \in Machines /\ Len(code) \in Nat
  BY DEF ReadingInv, EffectInv, Done
<1>2. PICK op : op = Opcode
  OBVIOUS
<1>3. /\ op \in handler.ops /\ handler \in IndexRules
      /\ Len(Args) = handler.operands /\ \A k \in 1 .. handler.operands : Args[k] \in Bytes
  BY <1>1, <1>2, ArgsAre DEF RulesOf
<1>4. /\ handler.index = TRUE /\ op \in Byte
      /\ \/ op \in {\h34, \h35} /\ handler.operands = 1
         \/ op = \h36 /\ handler.operands = 2
         \/ op \in \h40 .. \h7F /\ Low(op) = 6 /\ op # \h76 /\ handler.operands = 1
         \/ op \in \h70 .. \h77 /\ Low(op) # 6 /\ handler.operands = 1
         \/ op \in \h80 .. \hBF /\ Low(op) = 6 /\ handler.operands = 1
  <2>1. Displaces(op)
    BY <1>2
  <2> QED
    BY <1>3, <2>1, DisplacingIs
<1>5. stray = 4 * (m1 - 2) /\ m1 = Len(code) - Len(Args) /\ stray \in Int
  BY <1>1, <1>3 DEF FetchedInv, Done, Found
<1>6. PICK d : d = Args[1]
  OBVIOUS
<1>7. d \in Bytes
  BY <1>3, <1>4, <1>6
<1>8. PICK u : u = [Ready EXCEPT !.q = {}]
  OBVIOUS
<1>9. PICK a : a = DisplacedBy(d)
  OBVIOUS
<1>10. PICK n : n = Aimed(a, u)
  OBVIOUS
<1>11. Aims(prefix, d, a, n, u) /\ u.reg = cpu.reg /\ u.r = Refreshed(cpu.r, m1)
  BY <1>7, <1>8, <1>9, <1>10, ReadyAims
<1>12. PICK m : m = IndexedEffect(prefix, op, Args, u)
  OBVIOUS
<1>13. after = Delayed(stray, m)
  BY <1>1, <1>2, <1>4, <1>8, <1>12 DEF Effect, IndexPage
<1>14. /\ u.reg \in [RegisterIndex -> Bytes] /\ n.reg \in [RegisterIndex -> Bytes]
       /\ \A k \in RegisterIndex \ {4, 5} : n.reg[k] = u.reg[k]
  BY <1>11, AimedIs DEF Aims, Fits
<1>15. /\ PutBackHl(n.reg) = u.reg
       /\ \A v : PutBackHl(Changed(n.reg, 7, v)) = Changed(u.reg, 7, v) /\ PutBackHlA(Changed(n.reg, 7, v)) = u.reg
  BY <1>11, <1>14, PutBack
<1>16. ASSUME NEW t, NEW kept, NEW copied, NEW e \in Int,
              Through(m, t, IF copied = 6 THEN kept ELSE Changed(kept, copied, At(a, m)), e, u)
       PROVE  Reached(a, t, kept, copied, e) /\ RefreshedBy(Len(code) - Len(Args))
  <2>1. PICK registers : registers = IF copied = 6 THEN kept ELSE Changed(kept, copied, At(a, m))
    OBVIOUS
  <2>2. Reached(a, t, kept, copied, e) /\ after.r = Refreshed(cpu.r, m1)
    BY <1>1, <1>5, <1>11, <1>13, <1>16, <2>1, ReachedIs
  <2> QED
    BY <1>5, <2>2 DEF RefreshedBy
<1>17. CASE op \in \h40 .. \h7F /\ Low(op) = 6 /\ op # \h76
  <2>1. PICK t : t = MainEffect(\h7E, <<>>, n)
    OBVIOUS
  <2>2. PICK k : k = Field(op)
    OBVIOUS
  <2>3. m = OpLdRIndexMem(prefix, op, Args, u) /\ t = OpLdRR(\h7E, n)
    <3>1. PICK others : others = <<>>
      OBVIOUS
    <3>2. MainEffect(\h7E, others, n) = OpLdRR(\h7E, n)
      BY <1>4, DisplacedDispatch
    <3>3. IndexedEffect(prefix, op, Args, u) = OpLdRIndexMem(prefix, op, Args, u)
      BY <1>4, <1>17, DisplacedDispatch
    <3> QED
      BY <1>12, <2>1, <3>1, <3>2, <3>3
  <2>4. Through(m, t, Changed(u.reg, k, At(a, m)), 12, u) /\ t.reg = Changed(n.reg, 7, At(a, m))
    BY <1>4, <1>6, <1>11, <2>2, <2>3, LdRMemThrough
  <2>5. k # 6
    BY <1>17, <2>2 DEF Field, Low
  <2>6. PICK kept : kept = PutBackHlA(t.reg)
    OBVIOUS
  <2>7. kept = u.reg
    BY <1>15, <2>4, <2>6
  <2>8. Reached(a, t, kept, k, 12) /\ RefreshedBy(Len(code) - Len(Args))
    BY <1>16, <2>4, <2>5, <2>7
  <2>9. op \notin \h70 .. \h77
    BY <1>17 DEF Low
  <2> QED
    BY <1>2, <1>6, <1>8, <1>9, <1>10, <1>17, <2>1, <2>2, <2>6, <2>8, <2>9 DEF ReachedByMain
<1>18. CASE op \in \h70 .. \h77 /\ Low(op) # 6
  <2>1. PICK w : w = [n EXCEPT !.reg[7] = u.reg[Low(op)]]
    OBVIOUS
  <2>2. PICK t : t = MainEffect(\h77, <<>>, w)
    OBVIOUS
  <2>3. m = OpLdIndexMemR(prefix, op, Args, u) /\ t = OpLdRR(\h77, w)
    BY <1>4, <1>12, <1>18, <2>2, DisplacedDispatch
  <2>4. w = Put("reg", Changed(n.reg, 7, u.reg[Low(op)]), n)
    BY <2>1, Zenon DEF Put, Changed
  <2>5. /\ Through(m, t, u.reg, 12, u) /\ t.reg = Changed(n.reg, 7, u.reg[Low(op)])
    BY <1>6, <1>11, <1>18, <2>3, <2>4, LdMemRThrough
  <2>6. PICK kept : kept = PutBackHlA(t.reg)
    OBVIOUS
  <2>7. kept = u.reg
    BY <1>15, <2>5, <2>6
  <2>8. Reached(a, t, kept, 6, 12) /\ RefreshedBy(Len(code) - Len(Args))
    BY <1>16, <2>5, <2>7
  <2>9. ~(op \in \h40 .. \h7F /\ Low(op) = 6)
    BY <1>18
  <2>10. w = [n EXCEPT !.reg[7] = cpu.reg[Low(op)]]
    BY <1>11, <2>1
  <2> QED
    BY <1>2, <1>6, <1>8, <1>9, <1>10, <1>18, <2>2, <2>6, <2>8, <2>9, <2>10 DEF ReachedByMain
<1>19. PICK t : t = MainEffect(op, Tail(Args), n)
  OBVIOUS
<1>20. PICK kept : kept = PutBackHl(t.reg)
  OBVIOUS
<1>21. ASSUME ~(op \in \h40 .. \h7F /\ Low(op) = 6), op \notin \h70 .. \h77,
              NEW e \in Int, e = IF op = \h36 THEN 9 ELSE 12, Through(m, t, kept, e, u)
       PROVE  ReachedByMain
  <2>1. Reached(a, t, kept, 6, e) /\ RefreshedBy(Len(code) - Len(Args))
    BY <1>16, <1>21
  <2> QED
    BY <1>2, <1>6, <1>8, <1>9, <1>10, <1>19, <1>20, <1>21, <2>1 DEF ReachedByMain
<1>22. CASE op \in {\h34, \h35}
  <2>1. m = OpIncDecIndexMem(prefix, op, Args, u) /\ t = OpIncDec(op, n)
    BY <1>4, <1>12, <1>19, <1>22, DisplacedDispatch
  <2>2. Through(m, t, u.reg, 12, u) /\ t.reg = n.reg
    BY <1>6, <1>11, <1>22, <2>1, IncDecThrough
  <2>3. kept = u.reg
    BY <1>15, <1>20, <2>2
  <2> QED
    BY <1>21, <1>22, <2>2, <2>3
<1>23. CASE op = \h36
  <2>1. handler.operands = 2
    BY <1>4, <1>23
  <2>2. PICK rest : rest = Tail(Args)
    OBVIOUS
  <2>3. rest[1] = Args[2]
    <3>1. Args \in Seq(Byte)
      <4>1. handler.operands \in 0 .. 2 /\ Len(code) > handler.operands
        BY <1>1 DEF Found
      <4>2. PICK first : first = Len(code) - handler.operands + 1
        OBVIOUS
      <4>3. PICK final : final = Len(code)
        OBVIOUS
      <4>4. first \in 1 .. final + 1 /\ final \in Nat
        BY <1>1, <4>1, <4>2, <4>3
      <4>5. SubSeq(code, first, final) \in Seq(Byte)
        BY <1>1, <4>3, <4>4
      <4> QED
        BY <4>2, <4>3, <4>5 DEF Args
    <3>2. PICK bytes : bytes = Args
      OBVIOUS
    <3>3. bytes \in Seq(Byte) /\ Len(bytes) = 2
      BY <1>3, <2>1, <3>1, <3>2
    <3>4. bytes # <<>>
      BY <3>3
    <3>5. Len(Tail(bytes)) = 1 /\ Tail(bytes)[1] = bytes[1 + 1]
      BY <3>3, <3>4, HeadTailProperties
    <3> QED
      BY <2>2, <3>2, <3>5
  <2>4. m = OpLdIndexMemN(prefix, Args, u) /\ t = OpLdRN(\h36, rest, n)
    BY <1>4, <1>12, <1>19, <1>23, <2>2, DisplacedDispatch
  <2>5. Through(m, t, u.reg, 9, u) /\ t.reg = n.reg
    BY <1>6, <1>11, <2>3, <2>4, LdNThrough
  <2>6. kept = u.reg
    BY <1>15, <1>20, <2>5
  <2> QED
    BY <1>21, <1>23, <2>5, <2>6
<1>24. CASE op \in \h80 .. \hBF /\ Low(op) = 6
  <2>1. m = OpAluIndexMem(prefix, op, Args, u) /\ t = OpAluR(op, n)
    BY <1>4, <1>12, <1>19, <1>24, DisplacedDispatch
  <2>2. Through(m, t, Changed(u.reg, 7, t.reg[7]), 12, u) /\ t.reg = Changed(n.reg, 7, t.reg[7])
    BY <1>4, <1>6, <1>11, <1>24, <2>1, AluThrough
  <2>3. PICK v : v = t.reg[7]
    OBVIOUS
  <2>4. kept = Changed(u.reg, 7, v)
    BY <1>15, <1>20, <2>2, <2>3
  <2> QED
    BY <1>21, <1>24, <2>2, <2>3, <2>4
<1> QED
  BY <1>4, <1>17, <1>18, <1>22, <1>23, <1>24

(* Of every opcode that has a displacement, the instruction does what its  *)
(* form on (HL) does at the displaced address: value, flags, accesses and  *)
(* copy, the T-states more that the manual gives, and the fetches in R     *)
THEOREM DisplacementsReach == ExecutionSpec => []DisplacedReachesAddress
<1>1. ReadingInv /\ EffectInv /\ FetchedInv => DisplacedReachesAddress
  BY CbReached, MainReached DEF DisplacedReachesAddress
<1> QED
  BY <1>1, ReadingHolds, EffectHolds, FetchedHolds, PTL

-----------------------------------------------------------------------------
(* Two decoders of one instruction set *)

(* What the disassembler says of a handler *)
Named(rule) == [mnemonic |-> rule.mnemonic, operands |-> rule.operands, index |-> rule.index]

(* What it makes of each of these opcodes *)
MainNamed(rule) == \A op \in rule.ops : DisMain(op) = Dis(rule.mnemonic, rule.operands)
EdNamed(rule) == \A op \in rule.ops : DisEd(op) = Dis(rule.mnemonic, rule.operands)
IndexNamed(rule) == \A op \in rule.ops : DisIndex(op) = DisWithIndex(rule.mnemonic, rule.operands)
IgnoringNamed(rule) == \A op \in rule.ops : DisIndex(op) = Dis(rule.mnemonic, rule.operands)

LEMMA MainListedNamed ==
  ASSUME NEW rule \in MainListed
  PROVE  MainNamed(rule)
<1> USE DEF MainNamed, Rule, DisMain, DisLowQuarter, DisHighQuarter, Field, Low
<1>1. /\ MainNamed(Rule({\h00}, "NOP", 0)) /\ MainNamed(Rule({\h08, \hE3, \hEB}, "EX", 0))
      /\ MainNamed(Rule({\h10}, "DJNZ", 1)) /\ MainNamed(Rule({\h18, \h20, \h28, \h30, \h38}, "JR", 1))
  OBVIOUS
<1>2. /\ MainNamed(Rule({\h01, \h11, \h21, \h31}, "LD", 2)) /\ MainNamed(Rule({\h09, \h19, \h29, \h39}, "ADD", 0))
      /\ MainNamed(Rule({\h02, \h12, \h0A, \h1A, \hF9}, "LD", 0)) /\ MainNamed(Rule({\h22, \h2A, \h32, \h3A}, "LD", 2))
  OBVIOUS
<1>3. /\ MainNamed(Rule({\h03, \h13, \h23, \h33}, "INC", 0)) /\ MainNamed(Rule({\h0B, \h1B, \h2B, \h3B}, "DEC", 0))
  OBVIOUS
<1>4. MainNamed(Rule(Every8(\h04), "INC", 0)) /\ MainNamed(Rule(Every8(\h05), "DEC", 0)) /\ MainNamed(Rule(Every8(\h06), "LD", 1))
  BY Every8Is
<1>5. /\ MainNamed(Rule({\h07}, "RLCA", 0)) /\ MainNamed(Rule({\h0F}, "RRCA", 0))
      /\ MainNamed(Rule({\h17}, "RLA", 0)) /\ MainNamed(Rule({\h1F}, "RRA", 0))
  OBVIOUS
<1>6. MainNamed(Rule({\h27}, "DAA", 0))
  OBVIOUS
<1>7. MainNamed(Rule({\h2F}, "CPL", 0))
  OBVIOUS
<1>8. MainNamed(Rule({\h37}, "SCF", 0))
  OBVIOUS
<1>9. MainNamed(Rule({\h3F}, "CCF", 0))
  OBVIOUS
<1>10. MainNamed(Rule((\h40 .. \h7F) \ {\h76}, "LD", 0)) /\ MainNamed(Rule({\h76}, "HALT", 0))
  OBVIOUS
<1>11. MainNamed(Rule(Every8(\hC0) \cup {\hC9}, "RET", 0)) /\ MainNamed(Rule({\hC1, \hD1, \hE1, \hF1}, "POP", 0))
  BY Every8Is
<1>12. MainNamed(Rule(Every8(\hC2) \cup {\hC3}, "JP", 2)) /\ MainNamed(Rule({\hE9}, "JP", 0))
  BY Every8Is
<1>13. MainNamed(Rule(Every8(\hC4) \cup {\hCD}, "CALL", 2)) /\ MainNamed(Rule({\hC5, \hD5, \hE5, \hF5}, "PUSH", 0))
  BY Every8Is
<1>14. MainNamed(Rule(Every8(\hC7), "RST", 0))
  BY Every8Is
<1>15. /\ MainNamed(Rule({\hD3}, "OUT", 1)) /\ MainNamed(Rule({\hDB}, "IN", 1)) /\ MainNamed(Rule({\hD9}, "EXX", 0))
       /\ MainNamed(Rule({\hF3}, "DI", 0)) /\ MainNamed(Rule({\hFB}, "EI", 0))
  OBVIOUS
<1> HIDE DEF MainNamed, Rule, DisMain, DisLowQuarter, DisHighQuarter, Field, Low
<1> QED
  BY <1>1, <1>2, <1>3, <1>4, <1>5, <1>6, <1>7, <1>8, <1>9, <1>10, <1>11, <1>12, <1>13,
     <1>14, <1>15
  DEF MainListed

LEMMA EdListedNamed ==
  ASSUME NEW rule \in EdListed
  PROVE  EdNamed(rule)
<1> DEFINE blocks == {\hA0, \hA1, \hA2, \hA3, \hA8, \hA9, \hAA, \hAB,
                      \hB0, \hB1, \hB2, \hB3, \hB8, \hB9, \hBA, \hBB}
<1>1. DOMAIN BlockNames = blocks
  BY DEF BlockNames
<1> USE <1>1, Every8Is DEF EdNamed, Rule, DisEd, Low
<1>2. EdNamed(Rule(Every8(\h40), "IN", 0)) /\ EdNamed(Rule(Every8(\h41), "OUT", 0))
  BY Every8Is
<1>3. EdNamed(Rule({\h42, \h52, \h62, \h72}, "SBC", 0)) /\ EdNamed(Rule({\h4A, \h5A, \h6A, \h7A}, "ADC", 0))
  OBVIOUS
<1>4. EdNamed(Rule({\h43, \h53, \h63, \h73}, "LD", 2)) /\ EdNamed(Rule({\h4B, \h5B, \h6B, \h7B}, "LD", 2))
  OBVIOUS
<1>5. /\ EdNamed(Rule(Every8(\h44), "NEG", 0)) /\ EdNamed(Rule({\h45, \h55, \h65, \h75}, "RETN", 0))
      /\ EdNamed(Rule({\h4D, \h5D, \h6D, \h7D}, "RETI", 0))
  BY Every8Is
<1>6. EdNamed(Rule({\h46, \h4E, \h66, \h6E, \h56, \h76, \h5E, \h7E}, "IM", 0))
  BY Every8Is
<1>7. EdNamed(Rule({\h47, \h4F, \h57, \h5F}, "LD", 0)) /\ EdNamed(Rule({\h67}, "RRD", 0)) /\ EdNamed(Rule({\h6F}, "RLD", 0))
  OBVIOUS
<1>8. ASSUME NEW op \in blocks
      PROVE  DisEd(op) = Dis(BlockNames[op], 0)
  BY Every8Is
<1> HIDE <1>1, Every8Is DEF DisEd, Low
<1>9. /\ EdNamed(Rule({\hA0}, "LDI", 0)) /\ EdNamed(Rule({\hA1}, "CPI", 0)) /\ EdNamed(Rule({\hA2}, "INI", 0))
      /\ EdNamed(Rule({\hA3}, "OUTI", 0)) /\ EdNamed(Rule({\hA8}, "LDD", 0)) /\ EdNamed(Rule({\hA9}, "CPD", 0))
      /\ EdNamed(Rule({\hAA}, "IND", 0)) /\ EdNamed(Rule({\hAB}, "OUTD", 0))
  BY <1>8 DEF BlockNames
<1>10. /\ EdNamed(Rule({\hB0}, "LDIR", 0)) /\ EdNamed(Rule({\hB1}, "CPIR", 0)) /\ EdNamed(Rule({\hB2}, "INIR", 0))
       /\ EdNamed(Rule({\hB3}, "OTIR", 0)) /\ EdNamed(Rule({\hB8}, "LDDR", 0)) /\ EdNamed(Rule({\hB9}, "CPDR", 0))
       /\ EdNamed(Rule({\hBA}, "INDR", 0)) /\ EdNamed(Rule({\hBB}, "OTDR", 0))
  BY <1>8 DEF BlockNames
<1> HIDE DEF EdNamed, Rule, blocks
<1> QED
  BY <1>2, <1>3, <1>4, <1>5, <1>6, <1>7, <1>9, <1>10 DEF EdListed

LEMMA IndexListedNamed ==
  ASSUME NEW rule \in IndexListed
  PROVE  IndexNamed(rule)
<1> USE DEF IndexNamed, Indexed, DisIndex, Ignored, PlainLoads, Plain, Field, Low
<1>1. /\ IndexNamed(Indexed({\h09, \h19, \h29, \h39}, "ADD", 0)) /\ IndexNamed(Indexed({\h21, \h22, \h2A}, "LD", 2))
      /\ IndexNamed(Indexed({\h26, \h2E}, "LD", 1)) /\ IndexNamed(Indexed({\h36}, "LD", 2))
  BY Every8Is
<1>2. \A op \in {\h24, \h2C} : DisIndex(op) = DisWithIndex("INC", 0)
  BY Every8Is
<1>3. \A op \in {\h25, \h2D} : DisIndex(op) = DisWithIndex("DEC", 0)
  BY Every8Is
<1>4. DisIndex(\h23) = DisWithIndex("INC", 0) /\ DisIndex(\h2B) = DisWithIndex("DEC", 0)
  BY Every8Is
<1>5. IndexNamed(Indexed({\h34}, "INC", 1)) /\ IndexNamed(Indexed({\h35}, "DEC", 1))
  BY Every8Is
<1>6. /\ IndexNamed(Indexed({\h44, \h45, \h4C, \h4D, \h54, \h55, \h5C, \h5D, \h7C, \h7D}, "LD", 0))
      /\ IndexNamed(Indexed({\h64, \h65, \h6C, \h6D}, "LD", 0))
  BY Every8Is
<1>7. IndexNamed(Indexed({op \in \h60 .. \h6F : Low(op) \in Plain}, "LD", 0))
  BY Every8Is
<1>8. /\ IndexNamed(Indexed({\h46, \h4E, \h56, \h5E, \h66, \h6E, \h7E}, "LD", 1))
      /\ IndexNamed(Indexed({\h70, \h71, \h72, \h73, \h74, \h75, \h77}, "LD", 1))
  BY Every8Is
<1>9. /\ IndexNamed(Indexed({\hE1}, "POP", 0)) /\ IndexNamed(Indexed({\hE3}, "EX", 0))
      /\ IndexNamed(Indexed({\hE5}, "PUSH", 0)) /\ IndexNamed(Indexed({\hE9}, "JP", 0))
      /\ IndexNamed(Indexed({\hF9}, "LD", 0))
  BY Every8Is
<1> HIDE DEF DisIndex, Ignored, PlainLoads, Plain, Field, Low
<1>10. IndexNamed(Indexed({\h23, \h24, \h2C}, "INC", 0)) /\ IndexNamed(Indexed({\h2B, \h25, \h2D}, "DEC", 0))
  BY <1>2, <1>3, <1>4
<1> HIDE DEF IndexNamed, Indexed
<1> QED
  BY <1>1, <1>5, <1>6, <1>7, <1>8, <1>9, <1>10 DEF IndexListed

LEMMA IgnoringListedNamed ==
  ASSUME NEW rule \in IgnoringListed
  PROVE  IgnoringNamed(rule)
<1> USE Every8Is DEF IgnoringNamed, Rule, DisIndex, Ignored, DisMain, DisLowQuarter, DisHighQuarter, PlainLoads,
                     Plain, Field, Low
<1>1. /\ IgnoringNamed(Rule({\h00}, "NOP", 0))
      /\ IgnoringNamed(Rule({\h01, \h11, \h31}, "LD", 2))
  OBVIOUS
<1>2. /\ IgnoringNamed(Rule({\h02, \h12, \h0A, \h1A}, "LD", 0))
      /\ IgnoringNamed(Rule({\h32, \h3A}, "LD", 2))
  OBVIOUS
<1>3. /\ IgnoringNamed(Rule({\h03, \h13, \h33}, "INC", 0))
      /\ IgnoringNamed(Rule({\h0B, \h1B, \h3B}, "DEC", 0))
  OBVIOUS
<1>4. /\ IgnoringNamed(Rule({\h04, \h0C, \h14, \h1C, \h3C}, "INC", 0))
      /\ IgnoringNamed(Rule({\h05, \h0D, \h15, \h1D, \h3D}, "DEC", 0))
  OBVIOUS
<1>5. /\ IgnoringNamed(Rule({\h06, \h0E, \h16, \h1E, \h3E}, "LD", 1))
      /\ IgnoringNamed(Rule({\h07}, "RLCA", 0))
  OBVIOUS
<1>6. /\ IgnoringNamed(Rule({\h0F}, "RRCA", 0))
      /\ IgnoringNamed(Rule({\h17}, "RLA", 0))
  OBVIOUS
<1>7. /\ IgnoringNamed(Rule({\h1F}, "RRA", 0))
      /\ IgnoringNamed(Rule({\h27}, "DAA", 0))
  OBVIOUS
<1>8. /\ IgnoringNamed(Rule({\h2F}, "CPL", 0))
      /\ IgnoringNamed(Rule({\h37}, "SCF", 0))
  OBVIOUS
<1>9. /\ IgnoringNamed(Rule({\h3F}, "CCF", 0))
      /\ IgnoringNamed(Rule({\h08, \hEB}, "EX", 0))
  OBVIOUS
<1>10. /\ IgnoringNamed(Rule({\h10}, "DJNZ", 1))
       /\ IgnoringNamed(Rule({\h18, \h20, \h28, \h30, \h38}, "JR", 1))
  OBVIOUS
<1>11. /\ IgnoringNamed(Rule(PlainLoads, "LD", 0))
       /\ IgnoringNamed(Rule({\h76}, "HALT", 0))
  OBVIOUS
<1>12. /\ IgnoringNamed(Rule({\hC1, \hD1, \hF1}, "POP", 0))
       /\ IgnoringNamed(Rule(Every8(\hC2) \cup {\hC3}, "JP", 2))
  OBVIOUS
<1>13. /\ IgnoringNamed(Rule(Every8(\hC4) \cup {\hCD}, "CALL", 2))
       /\ IgnoringNamed(Rule({\hC5, \hD5, \hF5}, "PUSH", 0))
  OBVIOUS
<1>14. /\ IgnoringNamed(Rule(Every8(\hC7), "RST", 0))
       /\ IgnoringNamed(Rule({\hD3}, "OUT", 1))
  OBVIOUS
<1>15. /\ IgnoringNamed(Rule({\hDB}, "IN", 1))
       /\ IgnoringNamed(Rule({\hD9}, "EXX", 0))
  OBVIOUS
<1>16. /\ IgnoringNamed(Rule({\hF3}, "DI", 0))
       /\ IgnoringNamed(Rule({\hFB}, "EI", 0))
  OBVIOUS
<1>17. \A op \in Every8(\hC0) : DisIndex(op) = Dis("RET", 0)
  OBVIOUS
<1>18. DisIndex(\hC9) = Dis("RET", 0)
  OBVIOUS
<1> HIDE Every8Is DEF IgnoringNamed, Rule, DisIndex, Ignored, DisMain, DisLowQuarter, DisHighQuarter, PlainLoads,
                      Plain, Field, Low
<1>19. IgnoringNamed(Rule(Every8(\hC0) \cup {\hC9}, "RET", 0))
  BY <1>17, <1>18 DEF IgnoringNamed, Rule
<1> QED
  BY <1>1, <1>2, <1>3, <1>4, <1>5, <1>6, <1>7, <1>8, <1>9, <1>10, <1>11, <1>12, <1>13,
     <1>14, <1>15, <1>16, <1>19
  DEF IgnoringListed

LEMMA AluDisassembled ==
  ASSUME NEW op \in \h80 .. \hBF
  PROVE  /\ DisMain(op) = Dis(AluNames[Field(op) + 1], 0)
         /\ Low(op) \in {4, 5} => DisIndex(op) = DisWithIndex(AluNames[Field(op) + 1], 0)
         /\ Low(op) = 6 => DisIndex(op) = DisWithIndex(AluNames[Field(op) + 1], 1)
         /\ Low(op) \in Plain => DisIndex(op) = DisMain(op)
<1>1. DisAlu = AluNames
  BY DEF DisAlu, AluNames
<1>2. op \div 64 = 2
  OBVIOUS
<1>3. DisMain(op) = Dis(DisAlu[Field(op) + 1], 0)
  BY <1>2 DEF DisMain
<1>4. Low(op) \in {4, 5} => DisIndex(op) = DisWithIndex(DisAlu[Field(op) + 1], 0)
  BY Every8Is DEF DisIndex, Ignored, PlainLoads, Plain, Low
<1>5. Low(op) = 6 => DisIndex(op) = DisWithIndex(DisAlu[Field(op) + 1], 1)
  BY Every8Is DEF DisIndex, Ignored, PlainLoads, Plain, Low
<1>6. Low(op) \in Plain => DisIndex(op) = DisMain(op)
  BY Every8Is DEF DisIndex, Ignored, PlainLoads, Plain, Low
<1> QED
  BY <1>1, <1>3, <1>4, <1>5, <1>6

(* Every rule of a page names what the disassembler names, its operands    *)
(* too, and whether it is IX or IY                                         *)
LEMMA MainDisassembled ==
  ASSUME NEW rule \in MainRules, NEW op \in rule.ops
  PROVE  DisMain(op) = Named(rule)
<1>1. CASE rule \in MainListed
  <2>1. rule.index = FALSE
    BY <1>1 DEF MainListed, Rule
  <2> QED
    BY <1>1, <2>1, MainListedNamed DEF MainNamed, Named, Dis
<1>2. CASE rule \in ByField(AluNames, \h80 .. \hBF, 0, FALSE)
  <2>1. op \in \h80 .. \hBF /\ rule.mnemonic = AluNames[Field(op) + 1] /\ rule.operands = 0 /\ rule.index = FALSE
    BY <1>2 DEF ByField
  <2> QED
    BY <2>1, AluDisassembled DEF Named, Dis
<1>3. CASE rule \in ByField(AluNames, Every8(\hC6), 1, FALSE)
  <2>1. op \in Every8(\hC6) /\ rule.mnemonic = AluNames[Field(op) + 1] /\ rule.operands = 1 /\ rule.index = FALSE
    BY <1>3 DEF ByField
  <2>2. DisMain(op) = Dis(DisAlu[Field(op) + 1], 1)
    BY <2>1, Every8Is DEF DisMain, DisHighQuarter, Low
  <2> QED
    BY <2>1, <2>2 DEF DisAlu, AluNames, Named, Dis
<1> QED
  BY <1>1, <1>2, <1>3 DEF MainRules

LEMMA CbDisassembled ==
  ASSUME NEW rule, NEW op \in rule.ops
  PROVE  /\ rule \in CbRules => DisCb(op) = Named(rule)
         /\ rule \in IndexCbRules => DisWithIndex(DisCb(op).mnemonic, 0) = Named(rule)
<1>1. op \in \h40 .. \h7F => DisCb(op) = Dis("BIT", 0)
  BY DEF DisCb
<1>2. op \in \h80 .. \hBF => DisCb(op) = Dis("RES", 0)
  BY DEF DisCb
<1>3. op \in \hC0 .. \hFF => DisCb(op) = Dis("SET", 0)
  BY DEF DisCb
<1>4. op \in \h00 .. \h3F => DisCb(op) = Dis(RotNames[Field(op) + 1], 0)
  BY DEF DisCb, DisRotates, RotNames
<1>5. ASSUME rule \in CbRules
      PROVE  DisCb(op) = Named(rule)
  <2>1. CASE rule \in ByField(RotNames, \h00 .. \h3F, 0, FALSE)
    <3>1. op \in \h00 .. \h3F /\ rule.mnemonic = RotNames[Field(op) + 1] /\ rule.operands = 0 /\ rule.index = FALSE
      BY <2>1 DEF ByField
    <3>2. DisCb(op) = Dis(rule.mnemonic, 0)
      BY <1>4, <3>1
    <3> QED
      BY <3>1, <3>2 DEF Named, Dis
  <2>2. CASE rule \notin ByField(RotNames, \h00 .. \h3F, 0, FALSE)
    <3>1. rule \in {Rule(\h40 .. \h7F, "BIT", 0), Rule(\h80 .. \hBF, "RES", 0), Rule(\hC0 .. \hFF, "SET", 0)}
      BY <1>5, <2>2 DEF CbRules
    <3>2. DisCb(op) = Dis(rule.mnemonic, 0)
      BY <1>1, <1>2, <1>3, <3>1 DEF Rule
    <3>3. rule.operands = 0 /\ rule.index = FALSE
      BY <3>1 DEF Rule
    <3> QED
      BY <3>2, <3>3 DEF Named, Dis
  <2> QED
    BY <2>1, <2>2
<1>6. ASSUME rule \in IndexCbRules
      PROVE  DisWithIndex(DisCb(op).mnemonic, 0) = Named(rule)
  <2>1. CASE rule \in ByField(RotNames, \h00 .. \h3F, 0, TRUE)
    <3>1. op \in \h00 .. \h3F /\ rule.mnemonic = RotNames[Field(op) + 1] /\ rule.operands = 0 /\ rule.index = TRUE
      BY <2>1 DEF ByField
    <3>2. DisCb(op) = Dis(rule.mnemonic, 0)
      BY <1>4, <3>1
    <3>4. DisCb(op).mnemonic = rule.mnemonic
      BY <3>2 DEF Dis
    <3> QED
      BY <3>1, <3>4 DEF Named, DisWithIndex
  <2>2. CASE rule \notin ByField(RotNames, \h00 .. \h3F, 0, TRUE)
    <3>1. rule \in {Indexed(\h40 .. \h7F, "BIT", 0), Indexed(\h80 .. \hBF, "RES", 0), Indexed(\hC0 .. \hFF, "SET", 0)}
      BY <1>6, <2>2 DEF IndexCbRules
    <3>2. DisCb(op) = Dis(rule.mnemonic, 0)
      BY <1>1, <1>2, <1>3, <3>1 DEF Indexed
    <3>3. rule.operands = 0 /\ rule.index = TRUE
      BY <3>1 DEF Indexed
    <3>4. DisCb(op).mnemonic = rule.mnemonic
      BY <3>2 DEF Dis
    <3> QED
      BY <3>3, <3>4 DEF Named, DisWithIndex
  <2> QED
    BY <2>1, <2>2
<1> QED
  BY <1>5, <1>6

LEMMA EdDisassembled ==
  ASSUME NEW rule \in EdRules, NEW op \in rule.ops
  PROVE  DisEd(op) = Named(rule)
<1>1. CASE rule \in EdListed
  <2>1. rule.index = FALSE
    BY <1>1 DEF EdListed, Rule
  <2> QED
    BY <1>1, <2>1, EdListedNamed DEF EdNamed, Named, Dis
<1>2. CASE rule = Rule(Byte \ Claimed(EdListed), "NOP", 0)
  <2>1. \A other \in EdListed : op \notin other.ops
    BY <1>2 DEF Rule, Claimed
  <2>2. /\ op \notin Every8(\h40) \cup Every8(\h41) \cup Every8(\h44)
        /\ op \notin {\h42, \h52, \h62, \h72} \cup {\h4A, \h5A, \h6A, \h7A}
        /\ op \notin {\h43, \h53, \h63, \h73} \cup {\h4B, \h5B, \h6B, \h7B}
        /\ op \notin {\h45, \h55, \h65, \h75} \cup {\h4D, \h5D, \h6D, \h7D}
        /\ op \notin {\h46, \h4E, \h66, \h6E, \h56, \h76, \h5E, \h7E}
        /\ op \notin {\h47, \h4F, \h57, \h5F} \cup {\h67} \cup {\h6F}
    BY <2>1 DEF EdListed, Rule
  <2>3. op \notin DOMAIN BlockNames
    BY <2>1 DEF EdListed, Rule, BlockNames
  <2>4. op \in Byte
    BY <1>2 DEF Rule
  <2>5. DisEd(op) = Dis("NOP", 0)
    BY <2>2, <2>3, <2>4, Every8Is DEF DisEd, Low, Byte
  <2> QED
    BY <1>2, <2>5 DEF Rule, Named, Dis
<1> QED
  BY <1>1, <1>2 DEF EdRules

LEMMA IndexDisassembled ==
  ASSUME NEW rule \in IndexRules, NEW op \in rule.ops
  PROVE  DisIndex(op) = Named(rule)
<1> DEFINE halves == {o \in \h80 .. \hBF : Low(o) \in {4, 5}}
           memory == {o \in \h80 .. \hBF : Low(o) = 6}
           plain  == {o \in \h80 .. \hBF : Low(o) \in Plain}
<1>0. \/ rule \in IndexListed \/ rule \in IgnoringListed
      \/ rule \in ByField(AluNames, halves, 0, TRUE) \/ rule \in ByField(AluNames, memory, 1, TRUE)
      \/ rule \in ByField(AluNames, plain, 0, FALSE) \/ rule \in ByField(AluNames, Every8(\hC6), 1, FALSE)
  BY DEF IndexRules, IndexPrefixed, IndexIgnoring
<1>1. CASE rule \in IndexListed
  <2>1. rule.index = TRUE
    BY <1>1 DEF IndexListed, Indexed
  <2> QED
    BY <1>1, <2>1, IndexListedNamed DEF IndexNamed, DisWithIndex, Named
<1>2. CASE rule \in IgnoringListed
  <2>1. rule.index = FALSE
    BY <1>2 DEF IgnoringListed, Rule
  <2> QED
    BY <1>2, <2>1, IgnoringListedNamed DEF IgnoringNamed, Dis, Named
<1>3. CASE rule \in ByField(AluNames, halves, 0, TRUE)
  <2>1. op \in halves /\ rule.mnemonic = AluNames[Field(op) + 1] /\ rule.operands = 0 /\ rule.index = TRUE
    BY <1>3 DEF ByField
  <2> QED
    BY <2>1, AluDisassembled DEF DisWithIndex, Named
<1>4. CASE rule \in ByField(AluNames, memory, 1, TRUE)
  <2>1. op \in memory /\ rule.mnemonic = AluNames[Field(op) + 1] /\ rule.operands = 1 /\ rule.index = TRUE
    BY <1>4 DEF ByField
  <2> QED
    BY <2>1, AluDisassembled DEF DisWithIndex, Named
<1>5. CASE rule \in ByField(AluNames, plain, 0, FALSE)
  <2>1. op \in plain /\ rule.mnemonic = AluNames[Field(op) + 1] /\ rule.operands = 0 /\ rule.index = FALSE
    BY <1>5 DEF ByField
  <2> QED
    BY <2>1, AluDisassembled DEF Dis, Named
<1>6. CASE rule \in ByField(AluNames, Every8(\hC6), 1, FALSE)
  <2>1. op \in Every8(\hC6) /\ rule.mnemonic = AluNames[Field(op) + 1] /\ rule.operands = 1 /\ rule.index = FALSE
    BY <1>6 DEF ByField
  <2>2. op \in Ignored
    BY <2>1 DEF Ignored
  <2>3. DisIndex(op) = DisMain(op)
    BY <2>1, <2>2, Every8Is DEF DisIndex, Low
  <2>4. DisMain(op) = Dis(DisAlu[Field(op) + 1], 1)
    BY <2>1, Every8Is DEF DisMain, DisHighQuarter, Low
  <2> QED
    BY <2>1, <2>3, <2>4 DEF DisAlu, AluNames, Dis, Named
<1> QED
  BY <1>0, <1>1, <1>2, <1>3, <1>4, <1>5, <1>6

(* The first n bytes of c have opened page p *)
Opens(p, n, c) ==
  LET prefixes(k) == \A j \in 1 .. k : c[j] \in {\hDD, \hFD}
  IN /\ p = "main" => n = 0
     /\ p = "cb" => n = 1 /\ c[n] = \hCB
     /\ p = "ed" => n >= 1 /\ prefixes(n - 1) /\ c[n] = \hED
     /\ p = "index" => n >= 1 /\ prefixes(n)
     /\ p = "index_cb" => n >= 2 /\ prefixes(n - 1) /\ c[n] = \hCB

(* How many bytes are before the opcode of the handler, or of DD CB d op   *)
(* before the displacement                                                 *)
Opening == Len(code) - (handler.operands - left) - (IF opened = "index_cb" THEN 2 ELSE 1)

(* Strengthening: the bytes before the opcode are what led to its page *)
OpeningInv ==
  /\ page \in Pages => Opens(page, Len(code), code)
  /\ page \in {"operands", "done"} => Opening \in 0 .. Len(code) /\ Opens(opened, Opening, code)

LEMMA StaysOpened ==
  ASSUME NEW c \in Seq(Byte), NEW d, NEW n \in 0 .. Len(c), \A k \in 1 .. Len(c) : d[k] = c[k],
         NEW p, Opens(p, n, c)
  PROVE  Opens(p, n, d)
BY DEF Opens

LEMMA OpeningHolds == ExecutionSpec => []OpeningInv
<1>1. ExecutionInit => OpeningInv
  BY DEF ExecutionInit, DecodingInit, OpeningInv, Opens
<1>2. ReadingInv /\ ReadingInv' /\ OpeningInv /\ [ExecutionNext]_evars => OpeningInv'
  <2>1. SUFFICES ASSUME ReadingInv, ReadingInv', OpeningInv, [ExecutionNext]_evars
                 PROVE  OpeningInv'
    OBVIOUS
  <2>2. code \in Seq(Byte) /\ Len(code) \in Nat /\ page \in Pages \cup {"operands", "done"}
    BY <2>1 DEF ReadingInv
  <2>3. CASE UNCHANGED evars
    BY <2>1, <2>3 DEF OpeningInv, Opening, evars, cvars
  <2>4. CASE Execute
    BY <2>1, <2>4 DEF OpeningInv, Opening, Execute, Finish, Pages
  <2>5. CASE DecodeByte
    <3>0. opened' = IF page' = "operands" /\ page # "operands" THEN page ELSE opened
      BY <2>5 DEF DecodeByte
    <3>1. ASSUME FetchMain \/ FetchPage \/ FetchIndex
          PROVE  OpeningInv'
      <4>1. PICK op \in Byte :
              /\ Fetch(op) /\ page \in Pages /\ page # "index_cb"
              /\ \/ page' = "cb" /\ page = "main" /\ op = \hCB
                 \/ page' = "ed" /\ page \in {"main", "index"} /\ op = \hED
                 \/ page' = "index" /\ page \in {"main", "index"} /\ op \in {\hDD, \hFD}
                 \/ page' = "index_cb" /\ page = "index" /\ op = \hCB
                 \/ page' = "operands" /\ left' = handler'.operands
        BY <3>1 DEF FetchMain, FetchPage, FetchIndex, Into, Run, Pages
      <4>2. /\ Len(code') = Len(code) + 1 /\ code'[Len(code) + 1] = op
            /\ \A k \in 1 .. Len(code) : code'[k] = code[k]
        BY <2>2, <4>1, ByteRead DEF Fetch
      <4>3. Opens(page, Len(code), code)
        BY <2>1, <4>1 DEF OpeningInv
      <4>4. Opens(page, Len(code), code')
        BY <2>2, <4>2, <4>3, StaysOpened
      <4>5. CASE page' = "operands"
        <5>1. opened' = page /\ opened' # "index_cb" /\ left' = handler'.operands
          BY <3>0, <4>1, <4>5 DEF Pages
        <5>2. handler'.operands \in 0 .. 2
          BY <2>1, <4>5 DEF ReadingInv, Found
        <5>3. Opening' = Len(code)
          BY <2>2, <4>2, <5>1, <5>2 DEF Opening
        <5>4. Opening' \in 0 .. Len(code') /\ Opens(opened', Opening', code')
          BY <2>2, <4>2, <4>4, <5>1, <5>3
        <5> QED
          BY <4>5, <5>4 DEF OpeningInv, Pages
      <4>6. CASE page' = "cb" \/ page' = "ed"
        BY <2>2, <4>1, <4>2, <4>4, <4>6 DEF OpeningInv, Opens, Pages
      <4>7. CASE page' = "index" \/ page' = "index_cb"
        BY <2>2, <4>1, <4>2, <4>4, <4>7 DEF OpeningInv, Opens, Pages
      <4> QED
        BY <4>1, <4>5, <4>6, <4>7
    <3>2. ASSUME ReadIndexCb
          PROVE  OpeningInv'
      <4>1. PICK d \in OperandBytes, op \in Byte : code' = Append(Append(code, d), op) /\ Run(op)
        BY <3>2 DEF ReadIndexCb
      <4>2. /\ Append(code, d) \in Seq(Byte) /\ Len(Append(code, d)) = Len(code) + 1
            /\ \A k \in 1 .. Len(code) : Append(code, d)[k] = code[k]
        BY <2>2, DecodingAssumption, ByteRead
      <4>3. Len(code') = Len(code) + 2 /\ \A k \in 1 .. Len(code) + 1 : code'[k] = Append(code, d)[k]
        BY <2>2, <4>1, <4>2, ByteRead
      <4>4. page = "index_cb" /\ page' = "operands" /\ opened' = "index_cb" /\ left' = handler'.operands
        BY <3>0, <3>2, <4>1 DEF ReadIndexCb, Run
      <4>5. handler'.operands \in 0 .. 2
        BY <2>1, <4>4 DEF ReadingInv, Found
      <4>6. Opening' = Len(code)
        BY <2>2, <4>3, <4>4, <4>5 DEF Opening
      <4>7. Opens("index_cb", Len(code), code)
        BY <2>1, <4>4 DEF OpeningInv, Pages
      <4>8. \A k \in 1 .. Len(code) : code'[k] = code[k]
        BY <2>2, <4>2, <4>3
      <4>9. Opens("index_cb", Len(code), code')
        BY <2>2, <4>7, <4>8, StaysOpened
      <4>10. Opening' \in 0 .. Len(code') /\ Opens(opened', Opening', code')
        BY <2>2, <4>3, <4>4, <4>6, <4>9
      <4> QED
        BY <4>4, <4>10 DEF OpeningInv, Pages
    <3>3. ASSUME ReadOperand
          PROVE  OpeningInv'
      <4>1. /\ page = "operands" /\ page' = "operands" /\ opened' = opened
            /\ handler' = handler /\ left' = left - 1
        BY <3>0, <3>3 DEF ReadOperand
      <4>2. PICK value \in OperandBytes : code' = Append(code, value)
        BY <3>3 DEF ReadOperand
      <4>3. Len(code') = Len(code) + 1 /\ \A k \in 1 .. Len(code) : code'[k] = code[k]
        BY <2>2, <4>2, DecodingAssumption, ByteRead
      <4>4. handler.operands \in 0 .. 2 /\ left \in 0 .. handler.operands
        BY <2>1, <4>1 DEF ReadingInv, Found
      <4>5. Opening \in 0 .. Len(code) /\ Opens(opened, Opening, code)
        BY <2>1, <4>1 DEF OpeningInv
      <4>6. Opening' = Opening
        BY <2>2, <4>1, <4>3, <4>4 DEF Opening
      <4>7. Opens(opened, Opening, code')
        BY <2>2, <4>3, <4>5, StaysOpened
      <4>8. Opening' \in 0 .. Len(code') /\ Opens(opened', Opening', code')
        BY <2>2, <4>1, <4>3, <4>5, <4>6, <4>7
      <4> QED
        BY <4>1, <4>8 DEF OpeningInv, Pages
    <3> QED
      BY <2>5, <3>1, <3>2, <3>3 DEF DecodeByte, Decode
  <2> QED
    BY <2>1, <2>3, <2>4, <2>5 DEF ExecutionNext
<1> QED
  BY <1>1, <1>2, ReadingHolds, PTL DEF ExecutionSpec

LEMMA PrefixRunIs ==
  ASSUME NEW bytes \in Seq(Byte), NEW n \in Nat, n < Len(bytes),
         \A k \in 1 .. n : bytes[k] \in {\hDD, \hFD}, bytes[n + 1] \notin {\hDD, \hFD}
  PROVE  PrefixRun(bytes) = n
<1> DEFINE others == {k \in 1 .. Len(bytes) : bytes[k] \notin {\hDD, \hFD}}
<1>1. PrefixRun(bytes) = (IF others # {} THEN Min(others) ELSE 0) - 1
  BY DEF PrefixRun, SelectInSeq
<1>2. n + 1 \in others /\ \A k \in others : n + 1 <= k
  OBVIOUS
<1> HIDE DEF others
<1>3. Min(others) = n + 1
  <2>1. \A k \in others : (\A j \in others : k <= j) => k = n + 1
    <3>1. others \subseteq Int
      BY DEF others
    <3> QED
      BY <1>2, <3>1
  <2> QED
    BY <1>2, <2>1 DEF Min
<1> QED
  BY <1>1, <1>2, <1>3

(* What disassemble() finds behind n prefixes, page by page *)
Consumed(bytes, found, size) ==
  Disassembled(bytes).found = found /\ Disassembled(bytes).size = size + found.operands

LEMMA NamedAlike ==
  ASSUME NEW size, Consumed(code, Named(handler), size), size + handler.operands = Len(code)
  PROVE  DecodersAgree
BY DEF Consumed, Named, DecodersAgree

LEMMA IndexOpcodes ==
  ASSUME NEW op \in IndexTwo \cup IndexOne \cup IndexNone
  PROVE  op \notin {\hCB, \hDD, \hED, \hFD}
BY DEF IndexTwo, IndexOne, IndexNone, Low, Plain

LEMMA OpeningDisassembled ==
  ASSUME ReadingInv, OpeningInv, Done
  PROVE  DecodersAgree
<1>1. /\ code \in Seq(Byte) /\ Len(code) \in Nat /\ left = 0 /\ handler.operands \in 0 .. 2
      /\ Len(code) > handler.operands /\ code[Len(code) - handler.operands] \in handler.ops
      /\ opened \in Pages /\ handler \in RulesOf(opened)
  BY DEF ReadingInv, Found, Done
<1>2. PICK at \in 1 .. Len(code) : at = Len(code) - handler.operands
  BY <1>1
<1>3. PICK op \in handler.ops : op = code[at]
  BY <1>1, <1>2
<1>4. /\ at + handler.operands = Len(code) /\ at \in Nat /\ Opens(opened, Opening, code)
      /\ opened # "index_cb" => Opening = at - 1
      /\ opened = "index_cb" => Opening = at - 2
  BY <1>1, <1>2 DEF OpeningInv, Opening, Done
<1>5. CASE opened = "main"
  <2>1. handler \in MainRules
    BY <1>1, <1>5 DEF RulesOf
  <2>2. op \notin {\hCB, \hDD, \hED, \hFD}
    BY <1>3, <2>1, MainSays DEF PlainRule
  <2>3. DisMain(op) = Named(handler)
    BY <1>3, <2>1, MainDisassembled
  <2>4. at = 1
    BY <1>4, <1>5 DEF Opens
  <2>5. PICK run \in Nat : run = 0 /\ run + 1 = at
    BY <2>4
  <2>6. PrefixRun(code) = run
    BY <1>1, <1>3, <2>2, <2>5, PrefixRunIs
  <2>7. Consumed(code, DisMain(op), run + 1)
    BY <1>3, <2>2, <2>5, <2>6 DEF Disassembled, Consumed
  <2> QED
    BY <1>4, <2>3, <2>5, <2>7, NamedAlike
<1>6. CASE opened = "cb"
  <2>1. handler \in CbRules
    BY <1>1, <1>6 DEF RulesOf
  <2>2. DisCb(op) = Named(handler)
    BY <1>3, <2>1, CbDisassembled
  <2>3. at = 2 /\ code[1] = \hCB
    BY <1>4, <1>6 DEF Opens
  <2>4. PICK run \in Nat : run = 0 /\ run < Len(code) /\ code[run + 1] = \hCB /\ code[2] = op /\ run + 2 = at
    BY <1>1, <1>2, <1>3, <2>3
  <2>5. PrefixRun(code) = run
    BY <1>1, <2>4, PrefixRunIs
  <2>6. Consumed(code, DisCb(op), run + 2)
    BY <2>4, <2>5 DEF Disassembled, Consumed
  <2> QED
    BY <1>4, <2>2, <2>4, <2>6, NamedAlike
<1>7. CASE opened = "ed"
  <2>1. handler \in EdRules
    BY <1>1, <1>7 DEF RulesOf
  <2>2. DisEd(op) = Named(handler)
    BY <1>3, <2>1, EdDisassembled
  <2>3. at >= 2 /\ code[at - 1] = \hED /\ \A k \in 1 .. (at - 1) - 1 : code[k] \in {\hDD, \hFD}
    BY <1>4, <1>7 DEF Opens
  <2>4. PICK run \in Nat : run = (at - 1) - 1 /\ run + 1 = at - 1 /\ run + 2 = at
    BY <1>4, <2>3
  <2>a. /\ run < Len(code) /\ code[run + 1] = \hED /\ code[run + 2] = op
        /\ \A k \in 1 .. run : code[k] \in {\hDD, \hFD}
    BY <1>1, <1>2, <1>3, <2>3, <2>4
  <2>5. PrefixRun(code) = run
    BY <1>1, <2>a, PrefixRunIs
  <2>6. Consumed(code, DisEd(op), run + 2)
    BY <2>a, <2>4, <2>5 DEF Disassembled, Consumed
  <2> QED
    BY <1>4, <2>2, <2>4, <2>6, NamedAlike
<1>8. CASE opened = "index"
  <2>1. handler \in IndexRules
    BY <1>1, <1>8 DEF RulesOf
  <2>2. op \notin {\hCB, \hDD, \hED, \hFD}
    BY <1>3, <2>1, IndexSays, IndexOpcodes DEF PlainRule, IndexRule
  <2>3. DisIndex(op) = Named(handler)
    BY <1>3, <2>1, IndexDisassembled
  <2>4. at >= 2 /\ \A k \in 1 .. at - 1 : code[k] \in {\hDD, \hFD}
    BY <1>4, <1>8 DEF Opens
  <2>5. PICK run \in Nat : run = at - 1 /\ run > 0 /\ run + 1 = at
    BY <1>4, <2>4
  <2>6. PrefixRun(code) = run
    BY <1>1, <1>2, <1>3, <2>2, <2>4, <2>5, PrefixRunIs
  <2>7. Consumed(code, DisIndex(op), run + 1)
    BY <1>3, <2>2, <2>5, <2>6 DEF Disassembled, Consumed
  <2> QED
    BY <1>4, <2>3, <2>5, <2>7, NamedAlike
<1>9. CASE opened = "index_cb"
  <2>1. handler \in IndexCbRules
    BY <1>1, <1>9 DEF RulesOf
  <2>2. DisWithIndex(DisCb(op).mnemonic, 0) = Named(handler)
    BY <1>3, <2>1, CbDisassembled
  <2>3. /\ at >= 4 /\ code[at - 2] = \hCB
        /\ \A k \in 1 .. (at - 2) - 1 : code[k] \in {\hDD, \hFD}
    BY <1>4, <1>9 DEF Opens
  <2>4. PICK run \in Nat : run = (at - 2) - 1 /\ run > 0 /\ run + 1 = at - 2 /\ run + 3 = at
    BY <1>4, <2>3
  <2>a. /\ run < Len(code) /\ code[run + 1] = \hCB /\ code[run + 3] = op
        /\ \A k \in 1 .. run : code[k] \in {\hDD, \hFD}
    BY <1>1, <1>2, <1>3, <2>3, <2>4
  <2>5. PrefixRun(code) = run
    BY <1>1, <2>a, PrefixRunIs
  <2>b. Consumed(code, DisWithIndex(DisCb(code[run + 3]).mnemonic, 0), run + 3)
    BY <2>a, <2>4, <2>5 DEF Disassembled, Consumed
  <2>6. Consumed(code, DisWithIndex(DisCb(op).mnemonic, 0), run + 3)
    BY <2>a, <2>b
  <2> QED
    BY <1>4, <2>2, <2>4, <2>6, NamedAlike
<1> QED
  BY <1>1, <1>5, <1>6, <1>7, <1>8, <1>9 DEF Pages

(* The disassembler consumes the bytes the CPU moves PC over and names the *)
(* handler that runs, behind any number of DD and FD prefixes and whatever *)
(* the operands are: disasm.py's bit fields and the pages of _dispatch.py  *)
(* and _index_dispatch.py are two decoders of one instruction set.         *)
THEOREM DecodersNameAlike == ExecutionSpec => []DecodersAgree
<1>1. ReadingInv /\ OpeningInv => DecodersAgree
  <2>1. ~Done => DecodersAgree
    BY DEF DecodersAgree, Done
  <2> QED
    BY <2>1, OpeningDisassembled
<1> QED
  BY <1>1, ReadingHolds, OpeningHolds, PTL

====
