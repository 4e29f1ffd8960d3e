----------------------------- MODULE Execution -----------------------------
(***************************************************************************)
(* One instruction from its first fetch to the machine it leaves: the      *)
(* decoding of Decoding, then the handler it found.  The DD and FD forms   *)
(* have handlers of their own in the code, and timing.py a table made      *)
(* elsewhere; the properties hold the copies against each other.           *)
(***************************************************************************)
EXTENDS Decoding, IndexInstructions, AccessTable

CONSTANTS
  Machines  \* the states an instruction is tried from

VARIABLES
  opened,  \* the page the handler was found in
  cpu,     \* the machine before the instruction
  after    \* and behind it

evars == <<cvars, opened, cpu, after>>

Accesses == {"read", "write", "in", "out"} \X Words \X Bytes

(* Everything that has a width is within it *)
Fits(s) ==
  /\ {"reg", "alt", "ix", "iy", "sp", "pc", "wz", "i", "r", "mem", "bus"} \subseteq DOMAIN s
  /\ s.reg \in [RegisterIndex -> Bytes] /\ s.alt \in [RegisterIndex -> Bytes]
  /\ {s.ix, s.iy, s.sp, s.pc, s.wz} \subseteq Words
  /\ {s.i, s.r} \subseteq Bytes
  /\ \A address \in DOMAIN s.mem : s.mem[address] \in Bytes
  /\ s.bus \in Seq(Accesses)

ASSUME MachinesAssumption ==
  \A s \in Machines :
    /\ s = [field \in DOMAIN s |-> s[field]]
    /\ {"f", "altf", "q", "t", "iff1", "iff2", "im", "halted", "delay", "cmos"} \subseteq DOMAIN s
    /\ Fits(s) /\ s.q \in {{}, s.f} /\ s.bus = <<>> /\ s.t = 0 /\ ~s.halted

-----------------------------------------------------------------------------
(* The opcode the handler was found by, its operands, the displacement *)

Opcode == IF opened = "index_cb" THEN Last(code) ELSE code[Len(code) - handler.operands]
Args   == SubSeq(code, Len(code) - handler.operands + 1, Len(code))

(* _inc_r: the low seven bits count *)
Refreshed(r, fetches) == 128 * (r \div 128) + ((r + fetches) % 128)

(* The machine when its handler has read all of the instruction *)
Behind(bytes, fetches, s) ==
  LET address(k) == Wrap16(s.pc + k - 1)
      placed     == [a \in {address(k) : k \in DOMAIN bytes} |->
                       bytes[CHOOSE k \in DOMAIN bytes : address(k) = a]]
  IN [s EXCEPT !.mem = [a \in DOMAIN placed \cup DOMAIN @ |->
                          IF a \in DOMAIN placed THEN placed[a] ELSE @[a]],
               !.bus = [k \in DOMAIN bytes |-> <<"read", address(k), bytes[k]>>],
               !.pc  = Wrap16(@ + Len(bytes)),
               !.r   = Refreshed(@, fetches)]

Delayed(t, s) == [s EXCEPT !.t = @ + t]

(* Mutant of IndexPage: q as the instruction before left it *)
IndexPageStaleQ(s) ==
  IF handler.index THEN IndexedEffect(prefix, Opcode, Args, s)
                   ELSE Delayed(4, MainEffect(Opcode, Args, s))

(* _execute_index: the prefix wrote no flags, and costs an unindexed       *)
(* handler 4 T-states                                                      *)
IndexPage(s) ==
  LET cleared == [s EXCEPT !.q = {}]
  IN IF handler.index THEN IndexedEffect(prefix, Opcode, Args, cleared)
                      ELSE Delayed(4, MainEffect(Opcode, Args, cleared))

IndexCbPage(s) ==
  IndexCbEffect(prefix, code[Len(code) - 1], Opcode, [s EXCEPT !.q = {}])

(* What the handler makes of a machine that has read the instruction *)
Effect(s) ==
  Delayed(stray,
    CASE opened = "main"     -> MainEffect(Opcode, Args, s)
      [] opened = "cb"       -> CbEffect(Opcode, s)
      [] opened = "ed"       -> EdEffect(Opcode, Args, s)
      [] opened = "index"    -> IndexPage(s)
      [] opened = "index_cb" -> IndexCbPage(s))

ExecutionInit ==
  /\ DecodingInit
  /\ opened = "none" /\ cpu \in Machines /\ after = cpu

DecodeByte ==
  /\ Decode
  /\ opened' = IF page' = "operands" /\ page # "operands" THEN page ELSE opened
  /\ UNCHANGED <<cpu, after>>

Execute ==
  /\ Finish
  /\ after' = Effect(Behind(code, m1, cpu))
  /\ UNCHANGED <<opened, cpu>>

ExecutionNext == DecodeByte \/ Execute

ExecutionSpec == ExecutionInit /\ [][ExecutionNext]_evars

-----------------------------------------------------------------------------
(* timing.py: what it answers for the bytes at PC *)

InstructionTiming(bytes) ==
  LET key    == Timing(bytes).key
      stray4 == Timing(bytes).stray
      strays == stray4 \div 4
      rows   == CASE key[1] = \hCB -> CbTimes
                  [] key[1] = \hED -> EdTimes
                  [] key[1] \in {\hDD, \hFD} /\ Len(key) = 2 -> IndexTimes
                  [] key[1] \in {\hDD, \hFD} /\ Len(key) = 3 -> IndexCbTimes
                  [] OTHER -> MainTimes
      row    == CHOOSE r \in rows : Last(key) \in r.ops
  IN [accesses |-> [k \in 1 .. strays |-> <<"read", 4 * k - 3>>]
                     \o [k \in DOMAIN row.accesses |->
                           <<row.accesses[k][1], row.accesses[k][2] + stray4>>],
      shapes   |-> {<<shape[1] + stray4, shape[2] + strays>> : shape \in row.shapes}]

-----------------------------------------------------------------------------
(* Properties *)

Done == page = "done"

(* What the machine was when the handler had its operands *)
Ready == Behind(code, m1, cpu)

(* R has counted n fetches: bit 7 is LD R,A's alone *)
RefreshedBy(n) == after.r = Refreshed(cpu.r, n)

Displaces(op) ==
  \/ op \in \h34 .. \h36
  \/ op \in \h40 .. \hBF /\ op # \h76 /\ (Low(op) = 6 \/ op \in \h70 .. \h77)

(* HL and the index register in each other's place *)
Exchanged(s) ==
  LET index == GetIndex(prefix, s)
  IN SetIndex(prefix, HL(s), [s EXCEPT !.reg[4] = Hi(index), !.reg[5] = Lo(index)])

(* An instruction behind DD or FD that does not address memory through HL  *)
(* is the unprefixed one with IX or IY in the place of HL: same registers, *)
(* flags, accesses and PC, 4 T-states a prefix, and each prefix counts in  *)
(* R.  EX DE,HL and EXX alone keep HL.  _index.py and the IGNORED rows of  *)
(* _index_dispatch.py say it a second time, handler by handler.            *)
IndexInPlaceOfHl ==
  Done /\ opened = "index" /\ ~Displaces(Opcode) =>
    LET s     == [Ready EXCEPT !.q = {}]
        plain == IF Opcode \in {\hEB, \hD9} THEN MainEffect(Opcode, Args, s)
                 ELSE Exchanged(MainEffect(Opcode, Args, Exchanged(s)))
    IN after = Delayed(4 * (m1 - 1), plain) /\ RefreshedBy(Len(code) - Len(Args))

(* What the displacement makes of the index register, HL there and WZ *)
DisplacedBy(d) == (GetIndex(prefix, cpu) + d - IF d > 127 THEN 256 ELSE 0) % 65536

Aimed(address, s) == [s EXCEPT !.wz = address, !.reg[4] = Hi(address), !.reg[5] = Lo(address)]

(* H and L put back, and A where it only carried the byte *)
PutBackHl(reg)  == [reg EXCEPT ![4] = cpu.reg[4], ![5] = cpu.reg[5]]
PutBackHlA(reg) == [PutBackHl(reg) EXCEPT ![7] = cpu.reg[7]]

(* What through left, a copy of the byte in a register (6: in none), later *)
Reached(address, through, kept, copied, extra) ==
  after = Delayed(stray + extra,
            [through EXCEPT !.reg = IF copied = 6 THEN kept ELSE [kept EXCEPT ![copied] = At(address, after)]])

(* (IX+d) is (HL) with HL at the displaced address, which wraps, and is    *)
(* latched in WZ: same value, flags and accesses, and the extra T-states   *)
(* of the manual.  H and L as operands stay H and L; a DD CB instruction   *)
(* that writes back gives the register of its low bits a copy, and its     *)
(* opcode is not a fetch that R counts.                                    *)
ReachedByCb ==
  LET address == DisplacedBy(code[Len(code) - 1])
      through == CbEffect(Opcode - Low(Opcode) + 6, Aimed(address, [Ready EXCEPT !.q = {}]))
      copied  == IF Opcode \in \h40 .. \h7F THEN 6 ELSE Low(Opcode)
  IN Reached(address, through, PutBackHl(through.reg), copied, 8) /\ RefreshedBy(Len(code) - 2)

ReachedByMain ==
  LET address == DisplacedBy(Args[1])
      s       == Aimed(address, [Ready EXCEPT !.q = {}])
      loaded  == MainEffect(\h7E, <<>>, s)
      stored  == MainEffect(\h77, <<>>, [s EXCEPT !.reg[7] = cpu.reg[Low(Opcode)]])
      other   == MainEffect(Opcode, Tail(Args), s)
  IN /\ CASE Opcode \in \h40 .. \h7F /\ Low(Opcode) = 6 ->
                Reached(address, loaded, PutBackHlA(loaded.reg), Field(Opcode), 12)
           [] Opcode \in \h70 .. \h77 -> Reached(address, stored, PutBackHlA(stored.reg), 6, 12)
           [] OTHER -> Reached(address, other, PutBackHl(other.reg), 6, IF Opcode = \h36 THEN 9 ELSE 12)
     /\ RefreshedBy(Len(code) - Len(Args))

DisplacedReachesAddress ==
  Done => /\ opened = "index_cb" => ReachedByCb
          /\ opened = "index" /\ Displaces(Opcode) => ReachedByMain

(* The accesses step() makes are the first ones of timing.py's, of those   *)
(* kinds and in that order, and with its T-states they are one of the      *)
(* shapes; the offsets grow and stay inside the instruction.  The corpus   *)
(* that gave the table has neither the undefined ED opcodes nor runs of    *)
(* prefixes: for those timing.py adds up what it has.                      *)
AccessesAsTimed ==
  Done =>
    LET timing == InstructionTiming(code)  offset(k) == timing.accesses[k][2]
    IN /\ <<after.t, Len(after.bus)>> \in timing.shapes
       /\ \A k \in DOMAIN after.bus :
            /\ after.bus[k][1] = timing.accesses[k][1]
            /\ offset(k) < after.t
            /\ k > 1 => offset(k - 1) < offset(k)

(* q is F where the instruction computed flags and 0 where it did not, so  *)
(* SCF and CCF see the last instruction alone.  An instruction computes    *)
(* flags when what it leaves in F is not F as it was, whatever F was; POP  *)
(* AF and EX AF,AF' move F and compute none.                               *)
QTellsWhoWroteF ==
  Done =>
    LET moves  == opened \in {"main", "index"} /\ Opcode \in {\hF1, \h08}
        passes == \A fl \in {{}, DOMAIN FlagNames} : Effect([Ready EXCEPT !.f = fl]).f = fl
    IN /\ moves \/ passes => after.q = {}
       /\ ~moves /\ ~passes => after.q = after.f
       /\ ~moves /\ passes => after.f = cpu.f

(* Python integers have no width: a register, latch, address or byte that  *)
(* outgrows its own is masked by the handler or by nobody.  Z80 promises   *)
(* its callables a 16-bit address and an 8-bit value.                      *)
WidthsKept == Done => Fits(after)

=============================================================================
