------------------------------- MODULE LlvmMC -------------------------------
(***************************************************************************)
(* LLVM's assembler for the same instructions (lib/Target/Dadao: AsmParser *)
(* MCTargetDesc and Disassembler): operands parsed one by one, candidates  *)
(* of a name tried in the order TableGen sorts them, encoding, fixups, and *)
(* the way back through decoder and printer. Text is that of GasInsns,     *)
(* except that a memory operand is bracketed and a register may have a     *)
(* percent sign. The build enables assertions: one that fails stops the    *)
(* assembler.                                                              *)
(***************************************************************************)
EXTENDS GasInsns

Mem(base, off) == [k |-> "mem", base |-> base, off |-> off]

(* GNU text as LLVM writes it: no block count, it is always zero. *)
Bracketed(text) ==
  LET o == text.ops IN
  CASE text.name \in {"ldo", "sto"} /\ Len(o) = 3 -> Text(text.name, <<o[1], Mem(o[2], o[3])>>)
    [] text.name \in {"ldmo", "stmo"} /\ Len(o) = 4 ->
         Text(text.name, <<o[1], Mem(o[2], o[3])>> \o SelectSeq(<<o[4]>>, LAMBDA c : c # Imm(0)))
    [] OTHER -> text

-----------------------------------------------------------------------------
(* Instructions: the classes of their operands as written, where each goes *)
(* in the word, and the bits that are fixed.                               *)

Op(cls, at, bits) == [cls |-> cls, at |-> at, bits |-> bits]
RdA == Op("GPRD", Ha, 6)
RdB == Op("GPRD", Hb, 6)
RdC == Op("GPRD", Hc, 6)
RdD == Op("GPRD", 1, 6)
RbA == Op("GPRB", Ha, 6)
RbB == Op("GPRB", Hb, 6)
RbC == Op("GPRB", Hc, 6)
MemI == Op("MemRegImm", 1, 18)
MemR == Op("MemRegReg", 1, 18)
Insn(name, id, fixed, ops) == [name |-> name, id |-> id, fixed |-> fixed, ops |-> ops, ww |-> 0]
Minor(op, minor) == Major(op) + minor * Ha

Wydes(name, id, op, reg) ==
  [k \in 1..4 |-> [Insn(name, id, Major(op) + (k - 1) * 2^16,
                        <<reg, Op("WydePosition", 0, 0), Op("ImmWyde", 1, 16)>>) EXCEPT !.ww = k - 1]]

MatchTable ==
  << Insn("add", "ADD", Major(26), <<RdA, RdB, RdC, RdD>>),
     Insn("add", "ADD_RB", Minor(16, 46), <<RbB, RbC, RdD>>),
     Insn("addi", "ADDI", Major(25), <<RdA, RdB, Op("Imm12", 1, 12)>>),
     Insn("addi", "ADDI_RB", Major(73), <<RbA, RbB, Op("Imm12", 1, 12)>>),
     Insn("andi", "ANDI", Major(24), <<RdA, RdB, Op("LoImm12And", 1, 12)>>),
     Insn("breq", "BREQ", Major(46), <<RdA, RdB, Op("BrTarget", 1, 12)>>),
     Insn("brn", "BRN", Major(40), <<RdA, Op("BrTarget", 1, 18)>>),
     Insn("call", "CALL", Major(108), <<Op("CallTarget", 1, 24)>>),
     Insn("call", "CALL_RRII", Major(109), <<RbA, RdB, Op("LoImm12", 1, 12)>>),
     Insn("cmps", "CMPS", Minor(16, 36), <<RdB, RdC, RdD>>),
     Insn("cmps", "CMPS_RRII", Major(18), <<RdA, RdB, Op("LoImm12", 1, 12)>>),
     Insn("cmpu", "CMPU", Minor(16, 37), <<RdB, RdC, RdD>>),
     Insn("cmpu", "CMPU_RRII", Major(19), <<RdA, RdB, Op("LoImm12", 1, 12)>>),
     Insn("csn", "CSN", Major(32), <<RdA, RdB, RdC, RdD>>),
     Insn("jump", "JUMP", Major(100), <<Op("BrTarget", 1, 24)>>),
     Insn("jump", "JUMP_RRII", Major(101), <<RbA, RdB, Op("LoImm12", 1, 12)>>),
     Insn("ldmo", "LDMO", Major(55), <<RdA, MemR>>),
     Insn("ldmo", "LDMO_RB", Major(71), <<RbA, MemR>>),
     Insn("ldo", "LDO", Major(51), <<RdA, MemI>>),
     Insn("ldo", "LDO_RB", Major(67), <<RbA, MemI>>),
     Insn("ret", "RET", Major(110), <<>>),
     Insn("setrb", "RD2RB", Minor(16, 41) + 1, <<RbB, RdC>>),
     Insn("setrb", "RB2RB", Minor(16, 43) + 1, <<RbB, RbC>>),
     Insn("setrb", "PseudoSETRB", 0, <<RbB, Op("BareSymbol", 0, 0)>>),
     Insn("setrd", "RD2RD", Minor(16, 40) + 1, <<RdB, RdC>>),
     Insn("setrd", "RB2RD", Minor(16, 42) + 1, <<RdB, RbC>>),
     Insn("setrd", "PseudoSETRD", 0, <<RdB, Op("BareSymbol", 0, 0)>>),
     Insn("shlu", "SHLU", Minor(16, 17), <<RdB, RdC, RdD>>),
     Insn("shlu", "SHLU_ORRI", Minor(16, 25), <<RdB, RdC, Op("ImmHex1", 1, 6)>>),
     Insn("stmo", "STMO", Major(63), <<RdA, MemR>>),
     Insn("stmo", "STMO_RB", Major(79), <<RbA, MemR>>),
     Insn("sto", "STO", Major(59), <<RdA, MemI>>),
     Insn("sto", "STO_RB", Major(75), <<RbA, MemI>>),
     Insn("swym", "SWYM", Major(16), <<Op("LoImm18", 1, 18)>>) >>
  \o Wydes("orw", "ORW", 20, RdA) \o Wydes("orw", "ORW_RB", 76, RbA)
  \o Wydes("setzw", "SETZW", 22, RdA) \o Wydes("setzw", "SETZW_RB", 78, RbA)

Candidates(name) == SelectSeq(MatchTable, LAMBDA r : r.name = name)

(* The register classes; rd15 is in none. *)
InClass(cls, f, n) ==
  \/ cls = "GPRD" /\ f = "rd" /\ n # 15
  \/ cls = "GPRB" /\ f = "rb"

-----------------------------------------------------------------------------
(* Parsing. An operand is a register, an immediate (constant or symbol) or *)
(* a memory operand; "fail" ends the statement.                            *)

createReg(r) == [kind |-> "REG", f |-> r.f, v |-> r.v]
createConst(v) == [kind |-> "IMM", const |-> TRUE, v |-> v]
createSym(d) == [kind |-> "IMM", const |-> FALSE, v |-> d]
ParseFail == [kind |-> "fail"]

Known(r) == r.k = "reg" /\ r.f \in {"rd", "rb", "ra"}

isConst(o) == o.kind = "IMM" /\ o.const
isBrImm(o) == o.kind = "IMM" /\ (o.const => o.v >= 0 /\ o.v < 2^25 /\ o.v % 4 = 0)
isLoImm16Signed(o) == isConst(o) /\ o.v \in -(2^15) .. 2^15 - 1
isImm12(o) == isConst(o) /\ o.v \in -(2^11) .. 2^11 - 1
isLoImm12(o) == isConst(o) /\ o.v \in 0 .. 2^12 - 1
isLoImm12And(o) == isConst(o) /\ o.v \in -(2^12) .. -1
isLoImm18(o) == isConst(o) /\ o.v \in 0 .. 2^18 - 1
isImmWyde(o) == isConst(o) /\ o.v \in 0 .. 2^16 - 1
isImmHex1(o) == isConst(o) /\ o.v <= 63
isWydePosition(o) == isConst(o) /\ o.v \in 0..3

(* A name that is no register is a wyde position or else a symbol. *)
parseIdentifier(e) == IF e.k = "ww" THEN createConst(e.v) ELSE createSym(e.v)
parseImmediate(e) == IF e.k = "imm" THEN createConst(e.v) ELSE parseIdentifier(e)
parseRegister(e) == IF Known(e) THEN createReg(e) ELSE ParseFail

(* Register files are not checked here, nor later. *)
parseMemoryOperand(e) ==
  LET off == IF Known(e.off) THEN parseRegister(e.off) ELSE parseImmediate(e.off)
  IN CASE ~Known(e.base) -> ParseFail
       [] Known(e.base) /\ off.kind = "REG" -> [kind |-> "MEMORY_REG_REG", base |-> e.base.v, off |-> off.v]
       [] Known(e.base) /\ off.kind = "IMM" ->
            IF isLoImm16Signed(off) THEN [kind |-> "MEMORY_REG_IMM", base |-> e.base.v, off |-> off.v]
            ELSE ParseFail

(* A name where a symbol may stand is a symbol, even a register's: only a  *)
(* percent sign keeps it from being read as one.                           *)
parseBareSymbol(e) == createSym(IF e.k = "sym" THEN e.v ELSE 0)

ClassesAt(name, i) == {r.ops[i].cls : r \in {r \in ToSet(Candidates(name)) : i <= Len(r.ops)}}

parseOperand(name, i, e, pct) ==
  CASE e.k = "mem" ->
         IF ClassesAt(name, i) \cap {"MemRegImm", "MemRegReg"} # {} THEN parseMemoryOperand(e) ELSE ParseFail
    [] e.k = "shl" -> ParseFail
    [] e.k \notin {"mem", "shl"} /\ "BareSymbol" \in ClassesAt(name, i)
       /\ (e.k \in {"sym", "ww"} \/ (e.k = "reg" /\ ~pct)) -> parseBareSymbol(e)
    [] e.k \notin {"mem", "shl"} /\ ~("BareSymbol" \in ClassesAt(name, i)
       /\ (e.k \in {"sym", "ww"} \/ (e.k = "reg" /\ ~pct))) ->
         IF Known(e) THEN parseRegister(e) ELSE parseImmediate(e)

-----------------------------------------------------------------------------
(* Matching. *)

validateOperandClass(cls, o) ==
  CASE cls \in {"GPRD", "GPRB"} -> o.kind = "REG" /\ InClass(cls, o.f, o.v)
    [] cls = "BrTarget" -> isBrImm(o)
    [] cls = "CallTarget" -> o.kind = "IMM"
    [] cls = "Imm12" -> isImm12(o)
    [] cls = "LoImm12" -> isLoImm12(o)
    [] cls = "LoImm12And" -> isLoImm12And(o)
    [] cls = "LoImm18" -> isLoImm18(o)
    [] cls = "ImmWyde" -> isImmWyde(o)
    [] cls = "ImmHex1" -> isImmHex1(o)
    [] cls = "WydePosition" -> isWydePosition(o)
    [] cls = "MemRegImm" -> o.kind = "MEMORY_REG_IMM"
    [] cls = "MemRegReg" -> o.kind = "MEMORY_REG_REG"
    [] cls = "BareSymbol" -> TRUE

(* The wyde position picks one of four instructions; only those of data    *)
(* registers are checked.                                                  *)
checkOpcodeWydeposMatch(row, v) == row.ww = v
checkEarlyTargetMatchPredicate(row, ops) ==
  row.id \in {"ORW", "SETZW"} => checkOpcodeWydeposMatch(row, ops[2].v)

MatchesRow(row, ops) ==
  /\ Len(ops) = Len(row.ops)
  /\ \A i \in 1..Len(ops) : validateOperandClass(row.ops[i].cls, ops[i])
  /\ checkEarlyTargetMatchPredicate(row, ops)

-----------------------------------------------------------------------------
(* Encoding, and what fixups of symbols in this section add. *)

addLoImm12AndOperands(v) == v % 2^12
addImmOperands(cls, v) == IF cls = "LoImm12And" THEN addLoImm12AndOperands(v) ELSE v

getRRIIMemoryOpValue(o) == o.base * Hb + (o.off % 2^12)
getRRRIMemoryOpValue(o) == o.base * Hb + o.off * Hc

getMachineOpValue(slot, o) ==
  CASE o.kind = "REG" -> o.v * slot.at
    [] o.kind = "IMM" -> IF o.const THEN (addImmOperands(slot.cls, o.v) * slot.at) % 2^slot.bits ELSE 0
    [] o.kind = "MEMORY_REG_IMM" -> getRRIIMemoryOpValue(o)
    [] o.kind = "MEMORY_REG_REG" -> getRRRIMemoryOpValue(o)

(* Mutant of adjustFixupValue: offsets count bytes. *)
adjustFixupValueBytes(d) == 4 * d

(* A distance of d instructions is 4 * d bytes. *)
adjustFixupValue(d) == (4 * d) \div 4

getBranchTargetOpValue(row) == CASE row.id = "BRN" -> 18 [] row.id = "BREQ" -> 12 [] OTHER -> 24
applyFixup(row, d) == adjustFixupValue(d) % 2^getBranchTargetOpValue(row)

Stops(row, ops) ==
  \/ row.id = "PseudoSETRB"
  \/ row.id = "PseudoSETRD" /\ ~(ops[2].kind = "IMM" /\ ~ops[2].const)
  \/ \E i \in 1..Len(ops) : ops[i].kind = "MEMORY_REG_IMM" /\ ops[i].off \notin -(2^11) .. 2^11 - 1

encodeInstruction(row, ops) ==
  LET value(i) == getMachineOpValue(row.ops[i], ops[i])
      symbols == {i \in 1..Len(ops) : ops[i].kind = "IMM" /\ ~ops[i].const}
      word == FoldLeft(LAMBDA w, i : w + value(i), row.fixed, [i \in 1..Len(ops) |-> i])
      fixed == FoldSet(LAMBDA i, w : w + applyFixup(row, ops[i].v), word, symbols)
  IN CASE Stops(row, ops) -> Refused
       [] ~Stops(row, ops) /\ row.id = "PseudoSETRD" ->
            Accepted(<<Major(22) + ops[1].v * Ha, Swym, Swym, Swym>>)
       [] ~Stops(row, ops) /\ row.id # "PseudoSETRD" -> Accepted(<<fixed>>)

-----------------------------------------------------------------------------
(* Decoding and printing. The wydes are left out: TableGen decides what    *)
(* becomes of a position that is no field.                                 *)

Decodable(row, w) ==
  LET lowest == IF \E i \in 1..Len(row.ops) : row.ops[i].cls \in {"MemRegReg"} THEN 63 ELSE 0
  IN  /\ row.name \notin {"orw", "setzw"}
      /\ row.id \notin {"PseudoSETRD", "PseudoSETRB"}
      /\ CASE row.id = "RET" -> w = row.fixed
           [] row.id \in {"RD2RD", "RB2RD", "RD2RB", "RB2RB"} -> w \div Ha = row.fixed \div Ha /\ w % 64 = 1
           [] row.id \notin {"RET", "RD2RD", "RB2RD", "RD2RB", "RB2RB"} ->
                /\ IF row.fixed % 2^24 = 0 /\ row.id # "SWYM" THEN w \div 2^24 = row.fixed \div 2^24
                   ELSE w \div Ha = row.fixed \div Ha
                /\ lowest = 63 => w % 64 = 0

decodeRRIIMemoryValue(w) == Mem(Reg("rb", Field(w, Hb, 6)), Imm(SignedField(w, 12)))
decodeRRRIMemoryValue(w) == Mem(Reg("rb", Field(w, Hb, 6)), Reg("rd", Field(w, Hc, 6)))

(* Mutant of decodeBranch: the offset is shown in bytes. *)
decodeBranchBytes(w, bits) == Imm(4 * (w % 2^bits))

(* The field as it stands. *)
decodeBranch(w, bits) == Imm(w % 2^bits)

printLo12AndImmOperand(v) == Imm(v - 2^12)

printOperand(slot, w) ==
  CASE slot.cls = "GPRD" -> <<Reg("rd", Field(w, slot.at, 6))>>
    [] slot.cls = "GPRB" -> <<Reg("rb", Field(w, slot.at, 6))>>
    [] slot.cls = "MemRegImm" -> <<decodeRRIIMemoryValue(w)>>
    [] slot.cls = "MemRegReg" -> <<decodeRRRIMemoryValue(w), Imm(0)>>
    [] slot.cls = "LoImm12And" -> <<printLo12AndImmOperand(w % 2^12)>>
    [] slot.cls \in {"BrTarget", "CallTarget"} -> <<decodeBranch(w, slot.bits)>>
    [] slot.cls \in {"Imm12", "LoImm12", "LoImm18", "ImmHex1"} -> <<Imm(w % 2^slot.bits)>>

getInstruction(w) == SelectSeq(MatchTable, LAMBDA r : Decodable(r, w))
printInst(row, w) == Text(row.name, FlattenSeq([i \in 1..Len(row.ops) |-> printOperand(row.ops[i], w)]))
============================================================================
