------------------------------ MODULE Decoding ------------------------------
(***************************************************************************)
(* Three readers of the same instruction bytes: the CPU, which fetches an  *)
(* opcode, looks its handler up in the pages of _dispatch.py and           *)
(* _index_dispatch.py and lets it read its operands; the disassembler of   *)
(* disasm.py, which decodes bit fields; and timing.py, which picks a key   *)
(* of its table.  Nothing in the code ties one to another.                 *)
(*                                                                         *)
(* A behaviour is one instruction.  Its bytes are chosen as the CPU        *)
(* fetches them; the other two then read what was fetched.  A handler is   *)
(* its mnemonic, the operand bytes it reads and whether it names IX or IY. *)
(* What it then does is in Execution, which extends this module.           *)
(***************************************************************************)
EXTENDS Opcodes, Sequences, FiniteSets, SequencesExt

CONSTANTS
  OperandBytes,  \* values tried for operands and displacements
  MaxPrefixes    \* bound: DD and FD bytes in a row

Byte == 0 .. 255

ASSUME DecodingAssumption == OperandBytes \subseteq Byte /\ MaxPrefixes \in Nat

VARIABLES
  code,     \* the bytes read so far, from PC on
  page,     \* the page the next opcode is looked up in, or "operands", "done"
  prefix,   \* the DD or FD in force, 0 for none
  handler,  \* the rule found
  left,     \* operand bytes the handler has still to read
  stray,    \* stray_t_states
  m1        \* opcode and prefix fetches so far, each of which counts R up

cvars == <<code, page, prefix, handler, left, stray, m1>>

-----------------------------------------------------------------------------
(* The pages *)

Rule(ops, mnemonic, operands) ==
  [ops |-> ops, mnemonic |-> mnemonic, operands |-> operands, index |-> FALSE]

Indexed(ops, mnemonic, operands) ==
  [ops |-> ops, mnemonic |-> mnemonic, operands |-> operands, index |-> TRUE]

(* The handlers of the 8-bit ALU and of the rotates choose by bits 5-3 *)
ByField(names, ops, operands, index) ==
  {[ops |-> {op \in ops : Field(op) = k}, mnemonic |-> names[k + 1],
    operands |-> operands, index |-> index] : k \in 0 .. 7}

MainListed ==
  {Rule({\h00}, "NOP", 0), Rule({\h01, \h11, \h21, \h31}, "LD", 2),
   Rule({\h02, \h12, \h0A, \h1A, \hF9}, "LD", 0), Rule({\h22, \h2A, \h32, \h3A}, "LD", 2),
   Rule({\h03, \h13, \h23, \h33}, "INC", 0), Rule({\h0B, \h1B, \h2B, \h3B}, "DEC", 0),
   Rule(Every8(\h04), "INC", 0), Rule(Every8(\h05), "DEC", 0), Rule(Every8(\h06), "LD", 1),
   Rule({\h07}, "RLCA", 0), Rule({\h0F}, "RRCA", 0), Rule({\h17}, "RLA", 0),
   Rule({\h1F}, "RRA", 0), Rule({\h27}, "DAA", 0), Rule({\h2F}, "CPL", 0),
   Rule({\h37}, "SCF", 0), Rule({\h3F}, "CCF", 0), Rule({\h08, \hE3, \hEB}, "EX", 0),
   Rule({\h09, \h19, \h29, \h39}, "ADD", 0), Rule({\h10}, "DJNZ", 1),
   Rule({\h18, \h20, \h28, \h30, \h38}, "JR", 1),
   Rule((\h40 .. \h7F) \ {\h76}, "LD", 0), Rule({\h76}, "HALT", 0),
   Rule(Every8(\hC0) \cup {\hC9}, "RET", 0), Rule({\hC1, \hD1, \hE1, \hF1}, "POP", 0),
   Rule(Every8(\hC2) \cup {\hC3}, "JP", 2), Rule({\hE9}, "JP", 0),
   Rule(Every8(\hC4) \cup {\hCD}, "CALL", 2), Rule({\hC5, \hD5, \hE5, \hF5}, "PUSH", 0),
   Rule(Every8(\hC7), "RST", 0), Rule({\hD3}, "OUT", 1), Rule({\hDB}, "IN", 1),
   Rule({\hD9}, "EXX", 0), Rule({\hF3}, "DI", 0), Rule({\hFB}, "EI", 0)}

MainRules ==
  MainListed \cup ByField(AluNames, \h80 .. \hBF, 0, FALSE)
             \cup ByField(AluNames, Every8(\hC6), 1, FALSE)

CbRules ==
  ByField(RotNames, \h00 .. \h3F, 0, FALSE)
  \cup {Rule(\h40 .. \h7F, "BIT", 0), Rule(\h80 .. \hBF, "RES", 0), Rule(\hC0 .. \hFF, "SET", 0)}

EdListed ==
  {Rule(Every8(\h40), "IN", 0), Rule(Every8(\h41), "OUT", 0),
   Rule({\h42, \h52, \h62, \h72}, "SBC", 0), Rule({\h4A, \h5A, \h6A, \h7A}, "ADC", 0),
   Rule({\h43, \h53, \h63, \h73}, "LD", 2), Rule({\h4B, \h5B, \h6B, \h7B}, "LD", 2),
   Rule(Every8(\h44), "NEG", 0), Rule({\h45, \h55, \h65, \h75}, "RETN", 0),
   Rule({\h4D, \h5D, \h6D, \h7D}, "RETI", 0),
   Rule({\h46, \h4E, \h66, \h6E, \h56, \h76, \h5E, \h7E}, "IM", 0),
   Rule({\h47, \h4F, \h57, \h5F}, "LD", 0), Rule({\h67}, "RRD", 0), Rule({\h6F}, "RLD", 0)}
  \cup {Rule({\hA0}, "LDI", 0), Rule({\hA1}, "CPI", 0), Rule({\hA2}, "INI", 0), Rule({\hA3}, "OUTI", 0),
        Rule({\hA8}, "LDD", 0), Rule({\hA9}, "CPD", 0), Rule({\hAA}, "IND", 0), Rule({\hAB}, "OUTD", 0),
        Rule({\hB0}, "LDIR", 0), Rule({\hB1}, "CPIR", 0), Rule({\hB2}, "INIR", 0), Rule({\hB3}, "OTIR", 0),
        Rule({\hB8}, "LDDR", 0), Rule({\hB9}, "CPDR", 0), Rule({\hBA}, "INDR", 0), Rule({\hBB}, "OTDR", 0)}

Claimed(rules) == UNION {rule.ops : rule \in rules}

EdRules == EdListed \cup {Rule(Byte \ Claimed(EdListed), "NOP", 0)}

Plain == {0, 1, 2, 3, 7}

PlainLoads == {op \in \h40 .. \h7F : Field(op) \in Plain /\ Low(op) \in Plain}

IndexListed ==
  {Indexed({\h09, \h19, \h29, \h39}, "ADD", 0), Indexed({\h21, \h22, \h2A}, "LD", 2),
   Indexed({\h23, \h24, \h2C}, "INC", 0), Indexed({\h2B, \h25, \h2D}, "DEC", 0),
   Indexed({\h26, \h2E}, "LD", 1), Indexed({\h34}, "INC", 1), Indexed({\h35}, "DEC", 1),
   Indexed({\h36}, "LD", 2),
   Indexed({\h44, \h45, \h4C, \h4D, \h54, \h55, \h5C, \h5D, \h7C, \h7D}, "LD", 0),
   Indexed({\h46, \h4E, \h56, \h5E, \h66, \h6E, \h7E}, "LD", 1),
   Indexed({op \in \h60 .. \h6F : Low(op) \in Plain}, "LD", 0),
   Indexed({\h64, \h65, \h6C, \h6D}, "LD", 0),
   Indexed({\h70, \h71, \h72, \h73, \h74, \h75, \h77}, "LD", 1),
   Indexed({\hE1}, "POP", 0), Indexed({\hE3}, "EX", 0), Indexed({\hE5}, "PUSH", 0),
   Indexed({\hE9}, "JP", 0), Indexed({\hF9}, "LD", 0)}

IndexPrefixed ==
  IndexListed
  \cup ByField(AluNames, {op \in \h80 .. \hBF : Low(op) \in {4, 5}}, 0, TRUE)
  \cup ByField(AluNames, {op \in \h80 .. \hBF : Low(op) = 6}, 1, TRUE)

(* Opcodes the prefix does not change: the handler of the main page *)
IgnoringListed ==
  {Rule({\h00}, "NOP", 0), Rule({\h01, \h11, \h31}, "LD", 2),
   Rule({\h02, \h12, \h0A, \h1A}, "LD", 0), Rule({\h32, \h3A}, "LD", 2),
   Rule({\h03, \h13, \h33}, "INC", 0), Rule({\h0B, \h1B, \h3B}, "DEC", 0),
   Rule({\h04, \h0C, \h14, \h1C, \h3C}, "INC", 0), Rule({\h05, \h0D, \h15, \h1D, \h3D}, "DEC", 0),
   Rule({\h06, \h0E, \h16, \h1E, \h3E}, "LD", 1),
   Rule({\h07}, "RLCA", 0), Rule({\h0F}, "RRCA", 0), Rule({\h17}, "RLA", 0),
   Rule({\h1F}, "RRA", 0), Rule({\h27}, "DAA", 0), Rule({\h2F}, "CPL", 0),
   Rule({\h37}, "SCF", 0), Rule({\h3F}, "CCF", 0), Rule({\h08, \hEB}, "EX", 0),
   Rule({\h10}, "DJNZ", 1), Rule({\h18, \h20, \h28, \h30, \h38}, "JR", 1),
   Rule(PlainLoads, "LD", 0), Rule({\h76}, "HALT", 0),
   Rule(Every8(\hC0) \cup {\hC9}, "RET", 0), Rule({\hC1, \hD1, \hF1}, "POP", 0),
   Rule(Every8(\hC2) \cup {\hC3}, "JP", 2), Rule(Every8(\hC4) \cup {\hCD}, "CALL", 2),
   Rule({\hC5, \hD5, \hF5}, "PUSH", 0), Rule(Every8(\hC7), "RST", 0),
   Rule({\hD3}, "OUT", 1), Rule({\hDB}, "IN", 1), Rule({\hD9}, "EXX", 0),
   Rule({\hF3}, "DI", 0), Rule({\hFB}, "EI", 0)}

IndexIgnoring ==
  IgnoringListed
  \cup ByField(AluNames, {op \in \h80 .. \hBF : Low(op) \in Plain}, 0, FALSE)
  \cup ByField(AluNames, Every8(\hC6), 1, FALSE)

IndexRules == IndexPrefixed \cup IndexIgnoring

IndexCbRules ==
  ByField(RotNames, \h00 .. \h3F, 0, TRUE)
  \cup {Indexed(\h40 .. \h7F, "BIT", 0), Indexed(\h80 .. \hBF, "RES", 0),
        Indexed(\hC0 .. \hFF, "SET", 0)}

RulesOf(p) == CASE p = "main" -> MainRules [] p = "cb" -> CbRules [] p = "ed" -> EdRules
                [] p = "index" -> IndexRules [] p = "index_cb" -> IndexCbRules

NoHandler == Rule({}, "none", 0)

-----------------------------------------------------------------------------
(* The CPU *)

Fetch(byte) == code' = Append(code, byte) /\ m1' = m1 + 1

(* The handler of the page entry starts, and reads its operands *)
Run(op) ==
  /\ handler' = CHOOSE rule \in RulesOf(page) : op \in rule.ops
  /\ left' = handler'.operands
  /\ page' = "operands"
  /\ UNCHANGED <<prefix, stray>>

Into(next) == page' = next /\ UNCHANGED <<handler, left>>

FetchMain ==
  /\ page = "main"
  /\ \E op \in Byte :
       /\ Fetch(op)
       /\ \/ op = \hCB /\ Into("cb") /\ UNCHANGED <<prefix, stray>>
          \/ op = \hED /\ Into("ed") /\ UNCHANGED <<prefix, stray>>
          \/ op \in {\hDD, \hFD} /\ Into("index") /\ prefix' = op /\ UNCHANGED stray
          \/ op \notin {\hCB, \hED, \hDD, \hFD} /\ Run(op)

FetchPage ==
  /\ page \in {"cb", "ed"}
  /\ \E op \in Byte : Fetch(op) /\ Run(op)

(* A further DD or FD replaces the one before; ED takes no notice of them *)
FetchIndex ==
  /\ page = "index"
  /\ \E op \in Byte :
       /\ Fetch(op)
       /\ \/ /\ op \in {\hDD, \hFD} /\ Len(code) < MaxPrefixes
             /\ prefix' = op /\ stray' = stray + 4
             /\ UNCHANGED <<page, handler, left>>
          \/ op = \hED /\ Into("ed") /\ prefix' = 0 /\ stray' = stray + 4
          \/ op = \hCB /\ Into("index_cb") /\ UNCHANGED <<prefix, stray>>
          \/ op \notin {\hDD, \hFD, \hED, \hCB} /\ Run(op)

(* Mutant of ReadIndexCb: the opcode after the displacement fetched as one *)
ReadIndexCbFetched ==
  /\ page = "index_cb"
  /\ \E d \in OperandBytes, op \in Byte :
       code' = Append(Append(code, d), op) /\ m1' = m1 + 1 /\ Run(op)

(* DD CB d op: displacement and opcode are read as operands *)
ReadIndexCb ==
  /\ page = "index_cb"
  /\ \E d \in OperandBytes, op \in Byte :
       code' = Append(Append(code, d), op) /\ Run(op)
  /\ UNCHANGED m1

ReadOperand ==
  /\ page = "operands" /\ left > 0
  /\ \E value \in OperandBytes : code' = Append(code, value)
  /\ left' = left - 1
  /\ UNCHANGED <<page, prefix, handler, stray, m1>>

Finish ==
  /\ page = "operands" /\ left = 0
  /\ page' = "done"
  /\ UNCHANGED <<code, prefix, handler, left, stray, m1>>

DecodingInit ==
  /\ code = <<>> /\ page = "main" /\ prefix = 0
  /\ handler = NoHandler /\ left = 0 /\ stray = 0 /\ m1 = 0

Decode == FetchMain \/ FetchPage \/ FetchIndex \/ ReadIndexCb \/ ReadOperand

-----------------------------------------------------------------------------
(* The disassembler: mnemonic and operand bytes by bit fields *)

Dis(mnemonic, operands) == [mnemonic |-> mnemonic, operands |-> operands, index |-> FALSE]

DisAlu     == <<"ADD", "ADC", "SUB", "SBC", "AND", "XOR", "OR", "CP">>
DisRotates == <<"RLC", "RRC", "RL", "RR", "SLA", "SRA", "SLL", "SRL">>

(* The dictionary of block instructions *)
BlockNames == [op \in {\hA0, \hA1, \hA2, \hA3, \hA8, \hA9, \hAA, \hAB,
                       \hB0, \hB1, \hB2, \hB3, \hB8, \hB9, \hBA, \hBB} |->
  CASE op = \hA0 -> "LDI"  [] op = \hA1 -> "CPI"  [] op = \hA2 -> "INI"  [] op = \hA3 -> "OUTI"
    [] op = \hA8 -> "LDD"  [] op = \hA9 -> "CPD"  [] op = \hAA -> "IND"  [] op = \hAB -> "OUTD"
    [] op = \hB0 -> "LDIR" [] op = \hB1 -> "CPIR" [] op = \hB2 -> "INIR" [] op = \hB3 -> "OTIR"
    [] op = \hB8 -> "LDDR" [] op = \hB9 -> "CPDR" [] op = \hBA -> "INDR" [] op = \hBB -> "OTDR"]

DisCb(op) ==
  Dis(IF op \div 64 = 0 THEN DisRotates[Field(op) + 1]
                        ELSE <<"BIT", "RES", "SET">>[op \div 64], 0)

DisEd(op) ==
  CASE op \in \h40 .. \h78 /\ Low(op) = 0 -> Dis("IN", 0)
    [] op \in \h41 .. \h79 /\ Low(op) = 1 -> Dis("OUT", 0)
    [] op \in {\h42, \h52, \h62, \h72} -> Dis("SBC", 0)
    [] op \in {\h4A, \h5A, \h6A, \h7A} -> Dis("ADC", 0)
    [] op \in {\h43, \h53, \h63, \h73, \h4B, \h5B, \h6B, \h7B} -> Dis("LD", 2)
    [] op \in Every8(\h44) -> Dis("NEG", 0)
    [] op \in {\h45, \h55, \h65, \h75} -> Dis("RETN", 0)
    [] op \in {\h4D, \h5D, \h6D, \h7D} -> Dis("RETI", 0)
    [] op \in {\h47, \h4F, \h57, \h5F} -> Dis("LD", 0)
    [] op = \h67 -> Dis("RRD", 0)
    [] op = \h6F -> Dis("RLD", 0)
    [] op \in Every8(\h46) -> Dis("IM", 0)
    [] op \in DOMAIN BlockNames -> Dis(BlockNames[op], 0)
    [] OTHER -> Dis("NOP", 0)

DisLowQuarter(y, z) ==
  CASE z = 0 -> (CASE y = 0 -> Dis("NOP", 0) [] y = 1 -> Dis("EX", 0)
                   [] y = 2 -> Dis("DJNZ", 1) [] OTHER -> Dis("JR", 1))
    [] z = 1 -> IF y % 2 = 0 THEN Dis("LD", 2) ELSE Dis("ADD", 0)
    [] z = 2 -> Dis("LD", IF y \div 2 < 2 THEN 0 ELSE 2)
    [] z = 3 -> Dis(IF y % 2 = 0 THEN "INC" ELSE "DEC", 0)
    [] z = 4 -> Dis("INC", 0)
    [] z = 5 -> Dis("DEC", 0)
    [] z = 6 -> Dis("LD", 1)
    [] z = 7 -> Dis(<<"RLCA", "RRCA", "RLA", "RRA", "DAA", "CPL", "SCF", "CCF">>[y + 1], 0)

DisHighQuarter(y, z) ==
  CASE z = 0 -> Dis("RET", 0)
    [] z = 1 -> Dis(IF y % 2 = 0 THEN "POP" ELSE <<"RET", "EXX", "JP", "LD">>[(y \div 2) + 1], 0)
    [] z = 2 -> Dis("JP", 2)
    [] z = 3 -> (CASE y = 0 -> Dis("JP", 2) [] y = 2 -> Dis("OUT", 1) [] y = 3 -> Dis("IN", 1)
                   [] y \in {4, 5} -> Dis("EX", 0) [] y = 6 -> Dis("DI", 0) [] y = 7 -> Dis("EI", 0))
    [] z = 4 -> Dis("CALL", 2)
    [] z = 5 -> IF y % 2 = 0 THEN Dis("PUSH", 0) ELSE Dis("CALL", 2)
    [] z = 6 -> Dis(DisAlu[y + 1], 1)
    [] z = 7 -> Dis("RST", 0)

DisMain(op) ==
  CASE op \div 64 = 0 -> DisLowQuarter(Field(op), Low(op))
    [] op \div 64 = 1 -> Dis(IF op = \h76 THEN "HALT" ELSE "LD", 0)
    [] op \div 64 = 2 -> Dis(DisAlu[Field(op) + 1], 0)
    [] op \div 64 = 3 -> DisHighQuarter(Field(op), Low(op))

Ignored ==
  {\h00, \h01, \h08, \h10, \h11, \h31, \h76}
    \cup PlainLoads
    \cup {op \in \h80 .. \hBF : Low(op) \in Plain}
    \cup {\h04, \h0C, \h14, \h1C, \h3C, \h05, \h0D, \h15, \h1D, \h3D}
    \cup {\h03, \h13, \h33, \h0B, \h1B, \h3B}
    \cup {\h06, \h0E, \h16, \h1E, \h3E, \h0A, \h1A, \h02, \h12}
    \cup {\h3A, \h32, \hDB, \hD3, \h18, \h20, \h28, \h30, \h38}
    \cup {\h27, \h2F, \h37, \h3F, \h07, \h0F, \h17, \h1F}
    \cup Every8(\hC0) \cup Every8(\hC2) \cup {\hC3} \cup Every8(\hC4) \cup {\hCD}
    \cup Every8(\hC7) \cup Every8(\hC6)
    \cup {\hC1, \hC5, \hC9, \hD1, \hD5, \hD9, \hEB, \hF1, \hF3, \hF5, \hFB}

DisWithIndex(mnemonic, operands) ==
  [mnemonic |-> mnemonic, operands |-> operands, index |-> TRUE]

DisIndex(op) ==
  CASE op \in Ignored -> DisMain(op)
    [] op \in {\h7C, \h7D, \h44, \h45, \h4C, \h4D, \h54, \h55, \h5C, \h5D, \h64, \h65, \h6C, \h6D,
               \h60, \h61, \h62, \h63, \h67, \h68, \h69, \h6A, \h6B, \h6F} -> DisWithIndex("LD", 0)
    [] op \in {\h26, \h2E} -> DisWithIndex("LD", 1)
    [] op \in {\h24, \h25, \h2C, \h2D} -> DisWithIndex(IF Low(op) = 4 THEN "INC" ELSE "DEC", 0)
    [] op \in \h80 .. \hBF /\ Low(op) \in {4, 5} -> DisWithIndex(DisAlu[Field(op) + 1], 0)
    [] op \in {\h09, \h19, \h29, \h39} -> DisWithIndex("ADD", 0)
    [] op \in {\h21, \h22, \h2A} -> DisWithIndex("LD", 2)
    [] op \in {\h23, \h2B} -> DisWithIndex(IF op = \h23 THEN "INC" ELSE "DEC", 0)
    [] op \in {\h34, \h35} -> DisWithIndex(IF op = \h34 THEN "INC" ELSE "DEC", 1)
    [] op = \h36 -> DisWithIndex("LD", 2)
    [] op \in {\h46, \h4E, \h56, \h5E, \h66, \h6E, \h7E} -> DisWithIndex("LD", 1)
    [] op \in {\h70, \h71, \h72, \h73, \h74, \h75, \h77} -> DisWithIndex("LD", 1)
    [] op \in \h80 .. \hBF /\ Low(op) = 6 -> DisWithIndex(DisAlu[Field(op) + 1], 1)
    [] op = \hE1 -> DisWithIndex("POP", 0)
    [] op = \hE3 -> DisWithIndex("EX", 0)
    [] op = \hE5 -> DisWithIndex("PUSH", 0)
    [] op = \hE9 -> DisWithIndex("JP", 0)
    [] op = \hF9 -> DisWithIndex("LD", 0)
    [] OTHER -> Dis("unhandled", 0)

(* Mutant of PrefixRun: one prefix byte only *)
PrefixRunOne(bytes) == IF bytes[1] \in {\hDD, \hFD} THEN 1 ELSE 0

(* How many DD and FD bytes come first *)
PrefixRun(bytes) == SelectInSeq(bytes, LAMBDA byte : byte \notin {\hDD, \hFD}) - 1

(* What disassemble() decodes, with the bytes it has consumed *)
Disassembled(bytes) ==
  LET n     == PrefixRun(bytes)
      first == bytes[n + 1]
      consumed(found, opcodes) == [found |-> found, size |-> n + opcodes + found.operands]
  IN CASE first = \hED            -> consumed(DisEd(bytes[n + 2]), 2)
       [] first = \hCB /\ n = 0   -> consumed(DisCb(bytes[2]), 2)
       [] first = \hCB /\ n > 0   -> consumed(DisWithIndex(DisCb(bytes[n + 3]).mnemonic, 0), 3)
       [] OTHER -> consumed(IF n = 0 THEN DisMain(first) ELSE DisIndex(first), 1)

-----------------------------------------------------------------------------
(* timing.py: the key it looks up, and the T-states of stray prefixes *)

(* Mutant of Timing: the prefix in force counted as a stray too *)
TimingAllStray(bytes) ==
  LET n     == PrefixRun(bytes)
      first == bytes[n + 1]
  IN IF n = 0 \/ first = \hED
       THEN [key |-> IF first \in {\hCB, \hED} THEN <<first, bytes[n + 2]>> ELSE <<first>>,
             stray |-> 4 * n]
       ELSE [key |-> IF first = \hCB THEN <<bytes[n], first, bytes[n + 3]>> ELSE <<bytes[n], first>>,
             stray |-> 4 * n]

Timing(bytes) ==
  LET n     == PrefixRun(bytes)
      first == bytes[n + 1]
  IN IF n = 0 \/ first = \hED
       THEN [key |-> IF first \in {\hCB, \hED} THEN <<first, bytes[n + 2]>> ELSE <<first>>,
             stray |-> 4 * n]
       ELSE [key |-> IF first = \hCB THEN <<bytes[n], first, bytes[n + 3]>> ELSE <<bytes[n], first>>,
             stray |-> 4 * (n - 1)]

-----------------------------------------------------------------------------
(* Properties *)

(* The disassembler consumes exactly the bytes the CPU moves PC over and   *)
(* gives the mnemonic of the handler that runs, of all pages, through runs *)
(* of prefixes and whatever the operands are; it shows IX or IY where the  *)
(* handler uses it.  StepRecord, over and the listings count on that.      *)
DecodersAgree ==
  page = "done" =>
    /\ Disassembled(code).size = Len(code)
    /\ Disassembled(code).found.mnemonic = handler.mnemonic
    /\ Disassembled(code).found.index = handler.index

=============================================================================
