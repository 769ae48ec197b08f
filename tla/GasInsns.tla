------------------------------ MODULE GasInsns ------------------------------
(***************************************************************************)
(* From text to instruction words and back in binutils: operand matching   *)
(* of the assembler (gas/config/tc-dadao.c) and the disassembler           *)
(* (opcodes/dadao-dis.c, which disas/dadao.c of QEMU repeats). Widths are  *)
(* the source's: an opcode of 8 bits over four fields of 6. Of the opcode  *)
(* table there is one row for each shape of instruction and each name      *)
(* that several rows share.                                                *)
(***************************************************************************)
EXTENDS Integers, Sequences, SequencesExt

(* Text: a name and its operands. A symbol stands for its distance from    *)
(* the instruction, in instructions; "rg << n" is an operand of its own.   *)
Reg(f, n) == [k |-> "reg", f |-> f, v |-> n]
Imm(v) == [k |-> "imm", v |-> v]
Ww(n) == [k |-> "ww", v |-> n]
Sym(d) == [k |-> "sym", v |-> d]
Shl(r, n) == [k |-> "shl", r |-> r, n |-> n]
Text(name, ops) == [name |-> name, ops |-> ops]

Refused == [ok |-> FALSE, words |-> <<>>]
Accepted(ws) == [ok |-> TRUE, words |-> ws]

(* Fields of a word. *)
Ha == 2^18
Hb == 2^12
Hc == 2^6
Major(op) == op * 2^24
Field(w, at, bits) == (w \div at) % 2^bits
SignedField(w, bits) == LET v == w % 2^bits IN IF v >= 2^(bits-1) THEN v - 2^bits ELSE v

-----------------------------------------------------------------------------
(* The opcode table. Fields are register files, kinds of immediates, "op"  *)
(* (the minor opcode) or "none".                                           *)

Row(name, n, op, minor, fa, fb, fc, fd, type) ==
  [name |-> name, n |-> n, op |-> op, minor |-> minor,
   fa |-> fa, fb |-> fb, fc |-> fc, fd |-> fd, type |-> type]

dadao_opcodes ==
  LET normal(name, n, op, minor, fa, fb, fc, fd) == Row(name, n, op, minor, fa, fb, fc, fd, "normal")
      orr(name, minor, b, c, d) == normal(name, 3, 16, minor, "op", b, c, d)
      memory(name, op, file) == Row(name, 3, op, 0, file, "rb", "imms12", "none", "dref")
      block(name, op, file) == Row(name, 4, op, 0, file, "rb", "rd", "immu6", "dref")
      wyde(name, op, file) == normal(name, 3, op, 0, file, "ww", "immu16", "none")
  IN  << memory("ldo", 51, "rd"), memory("sto", 59, "rd"), memory("ldo", 67, "rb"),
         memory("sto", 75, "rb"), memory("ldo", 83, "rf"), memory("sto", 91, "rf"),
         block("ldmo", 55, "rd"), block("stmo", 63, "rd"), block("ldmo", 71, "rb"),
         block("stmo", 79, "rb"), block("ldmo", 87, "rf"), block("stmo", 95, "rf"),
         block("ldmo", 103, "ra"), block("stmo", 111, "ra"),
         orr("rd2rd", 40, "rd", "rd", "immu6"), orr("rd2rb", 41, "rb", "rd", "immu6"),
         orr("rb2rd", 42, "rd", "rb", "immu6"), orr("rb2rb", 43, "rb", "rb", "immu6"),
         orr("ra2rd", 58, "rd", "ra", "immu6"), orr("rf2rd", 50, "rd", "rf", "immu6"),
         normal("csn", 4, 32, 0, "rd", "rd", "rd", "rd"),
         normal("csn", 4, 33, 0, "rd", "rf", "rf", "rf"),
         wyde("orw", 20, "rd"), wyde("setzw", 22, "rd"), wyde("orw", 76, "rb"),
         wyde("setzw", 78, "rb"), wyde("setw", 84, "rf"),
         normal("add", 4, 26, 0, "rd", "rd", "rd", "rd"),
         normal("adrp", 2, 72, 0, "rb", "imms18", "none", "none"),
         normal("addi", 3, 25, 0, "rd", "rd", "imms12", "none"),
         normal("addi", 3, 73, 0, "rb", "rb", "imms12", "none"),
         normal("cmps", 3, 18, 0, "rd", "rd", "imms12", "none"),
         normal("andi", 3, 24, 0, "rd", "rd", "immu12", "none"),
         normal("cmpu", 3, 19, 0, "rd", "rd", "immu12", "none"),
         orr("add", 46, "rb", "rb", "rd"), orr("cmps", 36, "rd", "rd", "rd"),
         orr("cmpu", 37, "rd", "rd", "rd"), orr("shlu", 17, "rd", "rd", "rd"),
         orr("shlu", 25, "rd", "rd", "immu6"),
         normal("swym", 1, 16, 0, "op", "immu18", "none", "none"),
         Row("brn", 2, 40, 0, "rd", "imms18", "none", "none", "condbranch"),
         Row("ret", 2, 110, 0, "rd", "imms18", "none", "none", "jsr"),
         Row("breq", 3, 46, 0, "rd", "rd", "imms12", "none", "condbranch12"),
         Row("jump", 1, 100, 0, "imms24", "none", "none", "none", "branch"),
         Row("call", 1, 108, 0, "imms24", "none", "none", "none", "jsr"),
         Row("jump", 3, 101, 0, "rb", "rd", "imms12", "none", "branch"),
         Row("call", 3, 109, 0, "rb", "rd", "imms12", "none", "jsr"),
         Row("trap", 2, 118, 0, "cp", "immu18", "none", "none", "branch"),
         normal("cprd", 4, 114, 0, "cp", "cr", "cr", "rd") >>

(* The n-th row of a name goes into the n-th of five hash tables. *)
hash_find(n, name) ==
  LET rows == SelectSeq(dadao_opcodes, LAMBDA r : r.name = name)
  IN  IF n <= 5 /\ n <= Len(rows) THEN <<rows[n]>> ELSE <<>>

-----------------------------------------------------------------------------
(* Operands against the fields of a row. *)

RegFiles == {"rd", "rb", "rf", "ra", "cp", "cr"}
Width == [immu6 |-> 6, immu12 |-> 12, immu16 |-> 16, immu18 |-> 18,
          imms12 |-> 12, imms18 |-> 18, imms24 |-> 24]
Unsigned == {"immu6", "immu12", "immu16", "immu18"}
Bounds(kind) == IF kind \in Unsigned THEN 0 .. 2^Width[kind] - 1
                ELSE -(2^(Width[kind]-1)) .. 2^(Width[kind]-1) - 1

(* The fields that take an operand, with their places in the word. *)
Slots(row) ==
  LET at(kind, place) == [kind |-> kind,
                          at |-> IF kind = "ww" THEN 2^16 ELSE IF kind \in DOMAIN Width THEN 1 ELSE place]
  IN  SelectSeq(<<at(row.fa, Ha), at(row.fb, Hb), at(row.fc, Hc), at(row.fd, 1)>>,
                LAMBDA s : s.kind \notin {"op", "none"})

(* What is not a constant is left to relaxation, if the field is one that  *)
(* can hold a distance; a shift or count that is not a constant is zero.   *)
SHOULD_BE(kind, e) ==
  \/ kind \in RegFiles /\ e.k = "reg" /\ e.f = kind
  \/ kind = "ww" /\ e.k = "ww"
  \/ kind \in DOMAIN Width /\ e.k = "imm" /\ e.v \in Bounds(kind)
  \/ kind \in {"imms18", "imms24", "immu6"} /\ e.k # "imm"
  \/ kind = "imms12" /\ e.k = "sym"

FieldValue(kind, e) ==
  CASE kind \notin DOMAIN Width -> e.v
    [] kind \in DOMAIN Width /\ e.k = "imm" -> e.v % 2^Width[kind]
    [] kind \in DOMAIN Width /\ e.k # "imm" -> 0

(* "rg << n" stands for the last two fields, if they are a register and a  *)
(* shift, and hides the operand before it.                                 *)
Shifted(ops) == Len(ops) = 3 /\ ops[3].k = "shl"
Spread(ops) == IF Shifted(ops) THEN <<ops[1], ops[3].r, Imm(ops[3].n)>> ELSE ops

dd_get_insn_code(row, ops) ==
  LET exp == Spread(ops)
      slots == Slots(row)
      head == Major(row.op) + IF row.fa = "op" THEN row.minor * Ha ELSE 0
      sum == FoldLeft(LAMBDA w, i : w + slots[i].at * FieldValue(slots[i].kind, exp[i]), head,
                      [i \in 1..Len(slots) |-> i])
      last == Len(slots)
      matches == /\ Len(ops) = row.n
                 /\ Shifted(ops) => row.fc = "rd" /\ row.fd = "immu6"
                 /\ \A i \in 1..last : SHOULD_BE(slots[i].kind, exp[i])
  IN  IF ~matches \/ (row.op = 109 /\ exp[3].k = "imm" /\ sum = Major(109))
      THEN [ret |-> "fail", word |-> 0]
      ELSE [word |-> sum,
            ret |-> IF slots[last].kind \in {"imms12", "imms18", "imms24"} /\ exp[last].k # "imm"
                    THEN row.type ELSE "normal"]

-----------------------------------------------------------------------------
(* Statements. *)

Swym == Major(16)

(* setrd, setrb and setrf of a register, or of a symbol's address, which   *)
(* the linker fills into the first of four words.                          *)
PseudoSet == [setrd |-> "rd", setrb |-> "rb", setrf |-> "rf"]
R2R == [rd |-> [rd |-> 40, rb |-> 42, rf |-> 50, ra |-> 58],
        rb |-> [rd |-> 41, rb |-> 43], rf |-> [rd |-> 49, rf |-> 51]]

pseudo_set(ops) ==
  LET dst == ops[1]
      src == ops[2]
  IN CASE src.k = "reg" /\ src.f \in DOMAIN R2R[dst.f] ->
            Accepted(<<Swym + R2R[dst.f][src.f] * Ha + dst.v * Hb + src.v * Hc + 1>>)
       [] src.k = "sym" ->
            Accepted(<<Major([rd |-> 22, rb |-> 78, rf |-> 84][dst.f]) + dst.v * Ha, Swym, Swym, Swym>>)
       [] OTHER -> Refused

IsPseudo(text) == text.name \in DOMAIN PseudoSet

(* More registers than the file has are refused before any row is tried. *)
TooManyRegisters(text) ==
  LET num(e) == IF e.k \in {"reg", "imm"} THEN e.v ELSE 0
      over(i, n) == num(text.ops[i]) + num(text.ops[n]) > 64
  IN  \/ text.name \in {"ldmo", "stmo"} /\ Len(text.ops) = 4 /\ over(1, 4)
      \/ text.name \in {"rd2rd", "rd2rb", "rb2rd", "rb2rb", "ra2rd", "rf2rd"} /\ Len(text.ops) = 3
         /\ (over(1, 3) \/ over(2, 3))

(* The word a matched row is emitted as. Distances are short enough here   *)
(* for the branch itself (relaxation is Gas's). A symbol in a field whose  *)
(* instruction is of no branching type is dropped, that of a load refused. *)
Emitted(code, text) ==
  LET d == Last(text.ops).v
      bits == [condbranch |-> 18, condbranch12 |-> 12, branch |-> 24, jsr |-> 24]
  IN CASE code.ret = "normal" -> Accepted(<<code.word>>)
       [] code.ret \in DOMAIN bits -> Accepted(<<code.word + (d % 2^bits[code.ret])>>)
       [] OTHER -> Refused

-----------------------------------------------------------------------------
(* The disassembler. Its table is made from the same rows, in their order. *)

(* Mutant of analyze_operand: immediates of 12 bits are not extended. *)
analyze_operand_raw(kind, w, at) ==
  CASE kind \in RegFiles -> Reg(kind, Field(w, at, 6))
    [] kind = "ww" -> Ww(Field(w, at, 2))
    [] kind \in DOMAIN Width -> Imm(w % 2^Width[kind])

analyze_operand(kind, w, at) ==
  CASE kind \in RegFiles -> Reg(kind, Field(w, at, 6))
    [] kind = "ww" -> Ww(Field(w, at, 2))
    [] kind \in Unsigned -> Imm(w % 2^Width[kind])
    [] kind \in {"imms12", "imms18", "imms24"} -> Imm(SignedField(w, Width[kind]))

(* Branches show the address they reach. *)
IsOffset(row, kind) == kind = "imms24" \/ (row.type \in {"condbranch", "condbranch12"} /\ kind \in {"imms18", "imms12"})

Matches(row, w) == IF row.fa = "op" THEN w \div Ha = row.op * 64 + row.minor ELSE w \div 2^24 = row.op

print_insn_dadao(w) ==
  LET row == SelectSeq(dadao_opcodes, LAMBDA r : Matches(r, w))[1]
      shown(s) == IF IsOffset(row, s.kind) THEN Sym(analyze_operand(s.kind, w, s.at).v)
                  ELSE analyze_operand(s.kind, w, s.at)
      slots == Slots(row)
  IN  Text(row.name, [i \in 1..Len(slots) |-> shown(slots[i])])
============================================================================
