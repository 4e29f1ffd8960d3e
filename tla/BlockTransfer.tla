--------------------------- MODULE BlockTransfer ---------------------------
(***************************************************************************)
(* The block instructions of _blocks.py and _io.py: LDI, CPI, INI, OUTI,   *)
(* the forms that go down, and those that repeat.  A repeating form does   *)
(* one byte per step() and rewinds PC, so interrupts are accepted between  *)
(* two bytes and the next byte is fetched and decoded afresh: from memory  *)
(* the transfer itself may have written over.                              *)
(*                                                                         *)
(* Addresses are two bytes of ByteRadix.  A stored byte is a name: an      *)
(* opcode byte or a datum.  Of F there are Z and PV (PV of block I/O is a  *)
(* parity, any value here).  The handler keeps the registers and the stack *)
(* lies outside this memory.                                               *)
(***************************************************************************)
EXTENDS Integers, Sequences

CONSTANTS
  ByteRadix,      \* values of a byte of an address, 256 in the code
  Byte,           \* what a cell may hold
  Memories,       \* what memory may hold besides the instruction
  Site,           \* where the instruction is
  HandlerEntry,   \* where an interrupt leads
  Accumulators,   \* values of A
  Operations,     \* the instructions tried
  Stream,         \* the bytes the device at the port has to give, in order
  MaxInterrupts   \* bound: interrupts accepted in one behaviour

Size == ByteRadix * ByteRadix
Addr == 0 .. Size - 1

LoadOps   == {"LDI", "LDD", "LDIR", "LDDR"}
SearchOps == {"CPI", "CPD", "CPIR", "CPDR"}
InOps     == {"INI", "IND", "INIR", "INDR"}
OutOps    == {"OUTI", "OUTD", "OTIR", "OTDR"}
Repeating == {"LDIR", "LDDR", "CPIR", "CPDR", "INIR", "INDR", "OTIR", "OTDR"}
Downward  == {"LDD", "LDDR", "CPD", "CPDR", "IND", "INDR", "OUTD", "OTDR"}
BlockOps  == LoadOps \cup SearchOps \cup InOps \cup OutOps

ASSUME BlockAssumption ==
  /\ ByteRadix \in Nat /\ ByteRadix > 1
  /\ Site \in Addr /\ HandlerEntry \in Addr
  /\ Operations \subseteq BlockOps
  /\ {"ED"} \cup Operations \subseteq Byte
  /\ \A m \in Memories : m \in [Addr -> Byte]
  /\ MaxInterrupts \in Nat
  /\ Stream \in Seq(Byte) /\ Len(Stream) >= ByteRadix

VARIABLES
  mem, bc, hl, de, a, pc,
  z, pv,      \* two flags of F
  stack,      \* return addresses
  ports,      \* history: port accesses <<address, byte>> in order
  done,       \* history: bytes done
  interrupts, \* history: interrupts accepted
  start       \* history: the operation and the registers it started with

bvars == <<mem, bc, hl, de, a, pc, z, pv, stack, ports, done, interrupts, start>>

-----------------------------------------------------------------------------

B(pair) == pair \div ByteRadix
C(pair) == pair % ByteRadix

Move(address, op) == (address + IF op \in Downward THEN -1 ELSE 1) % Size

BcLess == (bc - 1) % Size

BLess == ((B(bc) - 1) % ByteRadix) * ByteRadix + C(bc)

(* What the next fetch decodes to, if a block instruction *)
Fetched(op) == mem[pc] = "ED" /\ mem[(pc + 1) % Size] = op

(* Mutant of Advance: PC rewound by the operand byte alone *)
AdvanceRewindsOne(op, repeat) ==
  /\ pc' = IF repeat /\ op \in Repeating THEN ((pc + 2) - 1) % Size ELSE (pc + 2) % Size
  /\ done' = done + 1
  /\ UNCHANGED <<a, stack, interrupts, start>>

(* Two opcode bytes fetched; on a repeat _block_repeat takes PC back *)
Advance(op, repeat) ==
  /\ pc' = IF repeat /\ op \in Repeating THEN ((pc + 2) - 2) % Size ELSE (pc + 2) % Size
  /\ done' = done + 1
  /\ UNCHANGED <<a, stack, interrupts, start>>

(* Mutant of BlockLd: DE counts up in the forms that go down *)
BlockLdDeUp(op) ==
  /\ mem' = [mem EXCEPT ![de] = mem[hl]]
  /\ hl' = Move(hl, op) /\ de' = (de + 1) % Size /\ bc' = BcLess
  /\ pv' = (bc' # 0)
  /\ Advance(op, bc' # 0)
  /\ UNCHANGED <<z, ports>>

BlockLd(op) ==
  /\ mem' = [mem EXCEPT ![de] = mem[hl]]
  /\ hl' = Move(hl, op) /\ de' = Move(de, op) /\ bc' = BcLess
  /\ pv' = (bc' # 0)
  /\ Advance(op, bc' # 0)
  /\ UNCHANGED <<z, ports>>

(* Mutant of BlockCp: goes on after a match *)
BlockCpPastMatch(op) ==
  /\ z' = (a = mem[hl])
  /\ hl' = Move(hl, op) /\ bc' = BcLess
  /\ pv' = (bc' # 0)
  /\ Advance(op, bc' # 0)
  /\ UNCHANGED <<mem, de, ports>>

BlockCp(op) ==
  /\ z' = (a = mem[hl])
  /\ hl' = Move(hl, op) /\ bc' = BcLess
  /\ pv' = (bc' # 0)
  /\ Advance(op, bc' # 0 /\ ~z')
  /\ UNCHANGED <<mem, de, ports>>

(* Mutant of BlockIni: B counted before it goes on the address bus *)
BlockIniBFirst(op) ==
  LET data == Stream[Len(ports) + 1] IN
  /\ ports' = Append(ports, <<BLess, data>>)
  /\ bc' = BLess
  /\ mem' = [mem EXCEPT ![hl] = data]
  /\ hl' = Move(hl, op)
  /\ z' = (B(bc') = 0) /\ pv' \in BOOLEAN
  /\ Advance(op, B(bc') # 0)
  /\ UNCHANGED de

(* IN: the port address is BC, then B is counted *)
BlockIni(op) ==
  LET data == Stream[Len(ports) + 1] IN
  /\ ports' = Append(ports, <<bc, data>>)
  /\ bc' = BLess
  /\ mem' = [mem EXCEPT ![hl] = data]
  /\ hl' = Move(hl, op)
  /\ z' = (B(bc') = 0) /\ pv' \in BOOLEAN
  /\ Advance(op, B(bc') # 0)
  /\ UNCHANGED de

(* OUT: B is counted, then the port address is BC *)
BlockOuti(op) ==
  /\ bc' = BLess
  /\ ports' = Append(ports, <<BLess, mem[hl]>>)
  /\ hl' = Move(hl, op)
  /\ z' = (B(bc') = 0) /\ pv' \in BOOLEAN
  /\ Advance(op, B(bc') # 0)
  /\ UNCHANGED <<mem, de>>

Transfer == \E op \in LoadOps : Fetched(op) /\ BlockLd(op)
Search   == \E op \in SearchOps : Fetched(op) /\ BlockCp(op)
Input    == \E op \in InOps : Fetched(op) /\ BlockIni(op)
Output   == \E op \in OutOps : Fetched(op) /\ BlockOuti(op)

(* One step() of the instruction; where it is over, or written over, what  *)
(* follows is not modelled                                                 *)
BlockStep ==
  /\ stack = <<>> /\ pc = Site /\ Fetched(start.op)
  /\ Transfer \/ Search \/ Input \/ Output

(* Mutant of AcceptInterrupt: the address of the next instruction pushed *)
AcceptPushesNext ==
  /\ stack = <<>> /\ interrupts < MaxInterrupts
  /\ stack' = <<IF pc = Site THEN (pc + 2) % Size ELSE pc>>
  /\ pc' = HandlerEntry
  /\ interrupts' = interrupts + 1
  /\ UNCHANGED <<mem, bc, hl, de, a, z, pv, ports, done, start>>

(* step() accepts at a boundary, between two bytes or after the last *)
AcceptInterrupt ==
  /\ stack = <<>> /\ interrupts < MaxInterrupts
  /\ stack' = <<pc>>
  /\ pc' = HandlerEntry
  /\ interrupts' = interrupts + 1
  /\ UNCHANGED <<mem, bc, hl, de, a, z, pv, ports, done, start>>

(* The handler, down to its RETI or RETN *)
HandlerReturns ==
  /\ stack # <<>>
  /\ pc' = Head(stack) /\ stack' = Tail(stack)
  /\ UNCHANGED <<mem, bc, hl, de, a, z, pv, ports, done, interrupts, start>>

BlockInit ==
  /\ \E op \in Operations, m \in Memories :
       mem = [m EXCEPT ![Site] = "ED", ![(Site + 1) % Size] = op]
  /\ bc \in Addr /\ hl \in Addr /\ a \in Accumulators
  /\ de \in IF mem[(Site + 1) % Size] \in LoadOps THEN Addr ELSE {0}
  /\ pc = Site
  /\ z = FALSE /\ pv = FALSE
  /\ stack = <<>> /\ ports = <<>>
  /\ done = 0 /\ interrupts = 0
  /\ start = [op |-> mem[(Site + 1) % Size], mem |-> mem, bc |-> bc, hl |-> hl,
              de |-> de]

BlockNext == BlockStep \/ AcceptInterrupt \/ HandlerReturns

BlockSpec == BlockInit /\ [][BlockNext]_bvars

(* The host's loop goes on stepping *)
FairBlock == BlockSpec /\ WF_bvars(BlockStep) /\ WF_bvars(HandlerReturns)

-----------------------------------------------------------------------------
(* Properties *)

Sign == IF start.op \in Downward THEN -1 ELSE 1

Place(from, k) == (from + Sign * k) % Size

Left    == stack = <<>> /\ pc = (Site + 2) % Size
Intact  == mem[Site] = "ED" /\ mem[(Site + 1) % Size] = start.op

(* How many bytes the operation is asked for: a count of 0 is the largest *)
Asked ==
  IF start.op \notin Repeating THEN 1
  ELSE IF start.op \in LoadOps \cup SearchOps
         THEN IF start.bc = 0 THEN Size ELSE start.bc
         ELSE IF B(start.bc) = 0 THEN ByteRadix ELSE B(start.bc)

(* Between any two bytes of a transfer, interrupted or not, the first      *)
(* `done` destination bytes hold what a byte-by-byte copy gives, also when *)
(* the regions overlap (a destination `gap` ahead of the source repeats    *)
(* its first `gap` bytes) or wrap round memory; the rest of memory is      *)
(* untouched and HL, DE, BC and PV agree with how far it is.               *)
CopiedExactly ==
  start.op \in LoadOps =>
    LET gap == (Sign * (start.de - start.hl)) % Size
        copied(k) == IF gap = 0 THEN start.mem[Place(start.hl, k)]
                                ELSE start.mem[Place(start.hl, k % gap)]
        reached == {Place(start.de, k) : k \in 0 .. done - 1}
    IN /\ \A k \in 0 .. done - 1 : mem[Place(start.de, k)] = copied(k)
       /\ \A x \in Addr \ reached : mem[x] = start.mem[x]
       /\ hl = Place(start.hl, done) /\ de = Place(start.de, done)
       /\ bc = (start.bc - done) % Size
       /\ done > 0 => (pv <=> bc # 0)

(* The instruction is left only when all it was asked for is done, or a    *)
(* search has found its byte; until then PC is at it or the handler will   *)
(* return to it: interrupts lose and repeat nothing.                       *)
LeftOnlyWhenDone ==
  /\ done <= Asked
  /\ Left => done = Asked \/ (start.op \in SearchOps /\ z)

(* A search stops at the first byte that equals A, with HL past it and Z   *)
(* set; without one it has looked at all it was asked to.                  *)
StopsAtFirstMatch ==
  (start.op \in SearchOps /\ done > 0) =>
    /\ \A k \in 0 .. done - 2 : mem[Place(start.hl, k)] # a
    /\ z <=> mem[Place(start.hl, done - 1)] = a
    /\ hl = Place(start.hl, done)
    /\ pv <=> (start.bc - done) % Size # 0
    /\ Left /\ start.op \in Repeating => z \/ done = Asked

(* Block I/O moves each byte once and in order: the k-th byte read lands   *)
(* k places from HL, the k-th written comes from there, the device sees B  *)
(* count down on the address bus (from B for IN, from B - 1 for OUT) over  *)
(* a constant C, and Z tells the end.                                      *)
PortsSeeEachByteOnce ==
  start.op \in InOps \cup OutOps =>
    LET b0 == B(start.bc)
        first == IF start.op \in InOps THEN 0 ELSE 1
    IN /\ Len(ports) = done
       /\ \A k \in 0 .. done - 1 :
            /\ ports[k + 1][1] =
                 ((b0 - first - k) % ByteRadix) * ByteRadix + C(start.bc)
            /\ ports[k + 1][2] =
                 IF start.op \in InOps THEN mem[Place(start.hl, k)]
                                       ELSE start.mem[Place(start.hl, k)]
            /\ start.op \in InOps => ports[k + 1][2] = Stream[k + 1]
       /\ start.op \in Repeating /\ done > 0 => (z <=> done = Asked)

(* An instruction that does not write over itself comes to its end *)
BlockEnds == <>(Left \/ ~Intact)

=============================================================================
