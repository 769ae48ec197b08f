-------------------------------- MODULE Gas --------------------------------
(***************************************************************************)
(* The assembler (gas/config/tc-dadao.c): pseudo instructions, the frags   *)
(* that instructions with symbols end, their relaxation and conversion.    *)
(* A statement is a record; instructions are the records of QemuInsns, so  *)
(* what is assembled can be run. A frag is a run of words of which the     *)
(* last may grow; a word remembers its statement. Expansion is on, as it   *)
(* is unless --no-expand is given.                                         *)
(***************************************************************************)
EXTENDS QemuInsns, SequencesExt, FiniteSets

CONSTANTS
  BRCC, BRCC12, JUMPI,  \* bits of the branches' fields: 18, 12 and 24 in the source
  Bind                  \* of every symbol: "local", "global", "weak" (all three
                        \* defined in this section) or "undef"

Insn(form) ==
  [form |-> form, ha |-> 0, hb |-> 0, hc |-> 0, hd |-> 0, imm |-> 0, ww |-> 0,
   file |-> "rd", from |-> "rd", mop |-> "UQ", cond |-> "EQ", alu |-> "add", sign |-> "s"]

-----------------------------------------------------------------------------
(* Pseudo instructions. *)

SetWyde(form, file, reg, w, x) ==
  [Insn(form) EXCEPT !.file = file, !.ha = reg, !.ww = w, !.imm = x]

(* A data register starts from ones if that saves instructions. *)
dd_pseudo_set_imm(file, reg, x) ==
  LET w(k) == Wyde(x, k)
      flag == Cardinality({k \in 1..3 : w(k) = 0}) < Cardinality({k \in 1..3 : w(k) = Ones})
      rest(code(_)) == code(1) \o code(2) \o code(3)
  IN CASE file = "rd" /\ flag ->
            <<SetWyde("SETOW", file, reg, 0, w(0))>>
            \o rest(LAMBDA k : When(w(k) # Ones, <<SetWyde("ANDNW", file, reg, k, Ones - w(k))>>))
       [] file = "rb" \/ (file = "rd" /\ ~flag) ->
            <<SetWyde("SETZW", file, reg, 0, w(0))>>
            \o rest(LAMBDA k : When(w(k) # 0, <<SetWyde("ORW", file, reg, k, w(k))>>))
       [] file = "rf" -> [k \in 1..4 |-> SetWyde("SETW", file, reg, k - 1, w(k - 1))]

(* The word of a set whose value the linker fills in. *)
dd_pseudo_set_symbol(file, reg) ==
  SetWyde(IF file = "rf" THEN "SETW" ELSE "SETZW", file, reg, 0, 0)

dd_pseudo_set_register(file, dst, from, src) ==
  <<[Insn("R2R") EXCEPT !.file = file, !.hb = dst, !.from = from, !.hc = src, !.imm = 1]>>

(* Mutant of SingleLdm: the index is not set back. *)
SingleLdmForward(i) ==
  LET step(n) == [Insn("ADDI") EXCEPT !.ha = i.hc, !.hb = i.hc, !.imm = n]
      one(k) == [i EXCEPT !.ha = @ + k, !.imm = 1]
  IN  <<one(0)>> \o FlattenSeq([k \in 1 .. i.imm - 1 |-> <<step(Size(i.mop)), one(k)>>])

(* -multiple-to-single: block loads and stores step their index register   *)
(* and set it back; block moves copy upwards.                              *)
SingleLdm(i) ==
  LET step(n) == [Insn("ADDI") EXCEPT !.ha = i.hc, !.hb = i.hc, !.imm = n]
      one(k) == [i EXCEPT !.ha = @ + k, !.imm = 1]
  IN  <<one(0)>> \o FlattenSeq([k \in 1 .. i.imm - 1 |-> <<step(Size(i.mop)), one(k)>>])
      \o <<step(-(Size(i.mop) * (i.imm - 1)))>>

SingleMove(i) == [k \in 1..i.imm |-> [i EXCEPT !.hb = @ + k - 1, !.hc = @ + k - 1, !.imm = 1]]

(* The test before a block move looks at a fourth operand, which a move    *)
(* does not have: left is whether what an earlier line left there is       *)
(* positive.                                                               *)
multiple_to_single(i, left) ==
  CASE i.form \in {"LDM", "STM"} /\ i.imm > 1 -> SingleLdm(i)
    [] i.form = "R2R" /\ left -> SingleMove(i)
    [] OTHER -> <<i>>

-----------------------------------------------------------------------------
(* Assembling one statement: its words, and the relaxation state it ends   *)
(* its frag with. Conditions come in pairs of opposites.                   *)

Conditional == {"BRCC", "BRCC12"}
Relaxable == {"ABS", "CALL", "JUMP", "HI18", "LO12"} \cup Conditional

Opcode(st) ==
  CASE st.op = "ABS" -> dd_pseudo_set_symbol(st.file, st.reg)
    [] st.op = "BRCC" -> [Insn("BR1") EXCEPT !.cond = st.cond, !.ha = st.reg]
    [] st.op = "BRCC12" -> [Insn("BR2") EXCEPT !.cond = st.cond, !.ha = st.reg, !.hb = st.reg2]
    [] st.op = "JUMP" -> Insn("JUMPi")
    [] st.op = "CALL" -> Insn("CALLi")
    [] st.op = "HI18" -> [Insn("ADRP") EXCEPT !.ha = st.reg]
    [] st.op = "LO12" -> [Insn("ADDI") EXCEPT !.ha = st.reg, !.hb = st.reg, !.file = "rb"]

md_assemble(st, left) ==
  CASE st.op \in Relaxable -> <<Opcode(st)>>
    [] st.op = "setimm" -> dd_pseudo_set_imm(st.file, st.reg, st.imm)
    [] st.op = "setreg" -> dd_pseudo_set_register(st.file, st.reg, st.from, st.reg2)
    [] st.op = "multi" -> multiple_to_single(st.insn, left)
    [] st.op = "insn" -> <<st.insn>>

Frag == [words |-> <<>>, kind |-> "fill", sym |-> "none", state |-> "MAX",
         address |-> 0, fr_var |-> 0]

(* The frags after statement number n. *)
Assembled(fs, n, st, left) ==
  LET last == Len(fs)
      insns == md_assemble(st, left)
      new == [k \in 1 .. Len(insns) |-> [insn |-> insns[k], st |-> n]]
      grown == [fs EXCEPT ![last].words = @ \o new]
  IN  IF st.op \in Relaxable
      THEN Append([grown EXCEPT ![last].kind = st.op, ![last].sym = st.sym], Frag)
      ELSE grown

-----------------------------------------------------------------------------
(* x, f(x, 1), f(f(x, 1), 2) ...: the last of n steps, each from the value *)
(* of the one before.                                                      *)
Stepped(f(_, _), x, n) ==
  FoldLeft(LAMBDA acc, k : CHOOSE y \in {f(a, k) : a \in {acc}} : TRUE, x, [k \in 1..n |-> k])

(* Relaxation. A symbol is a place: a frag and a word in it. *)

fr_fix(f) == 4 * Len(f.words)
S_GET_VALUE(fs, place) == fs[place[1]].address + 4 * place[2]

(* Is the symbol of the frag one the assembler may resolve? *)
Here(f) == Bind[f.sym] \in {"local", "global"}

BranchRange(f) == CASE f.kind = "BRCC" -> 2^BRCC [] f.kind = "BRCC12" -> 2^BRCC12 [] OTHER -> 0

(* Mutant of relaxed_branch_length: one instruction too far forwards. *)
relaxed_branch_length_far(fs, k, places) ==
  LET f == fs[k]
      val == (S_GET_VALUE(fs, places[f.sym]) - f.address) \div 4
      half == BranchRange(f) \div 2
  IN  IF f.kind \in Conditional /\ Here(f) /\ (val > half \/ -val > half) THEN 4 ELSE 0

(* Distances are counted from the start of the frag. *)
relaxed_branch_length(fs, k, places) ==
  LET f == fs[k]
      val == (S_GET_VALUE(fs, places[f.sym]) - f.address) \div 4
      half == BranchRange(f) \div 2
  IN  IF f.kind \in Conditional /\ Here(f) /\ (val >= half \/ -val > half) THEN 4 ELSE 0

(* relax_segment (write.c) first lays the frags out by estimates: symbols  *)
(* that follow still have the addresses of the layout before.              *)
md_estimate_size_before_relax(fs, k, places) ==
  LET f == fs[k]
      zero == f.kind # "ABS" /\ Here(f)
      g == [fs EXCEPT ![k].state = IF zero THEN "ZERO" ELSE @]
  IN  IF f.kind = "fill" THEN fs ELSE [g EXCEPT ![k].fr_var = relaxed_branch_length(g, k, places)]

Estimated(fs, places) ==
  LET place(acc, k) ==
        LET at == [acc.fs EXCEPT ![k].address = acc.next]
            es == md_estimate_size_before_relax(at, k, places)
        IN  [fs |-> es, next |-> acc.next + fr_fix(es[k]) + es[k].fr_var]
  IN  Stepped(place, [fs |-> fs, next |-> 0], Len(fs)).fs

(* Mutant of dadao_relax_frag: a branch that had to grow is tried again. *)
dadao_relax_frag_again(fs, k, places) ==
  LET f == fs[k]
  IN CASE f.kind = "BRCC12" ->
            IF f.fr_var = 4 THEN 0 ELSE relaxed_branch_length(fs, k, places)
       [] f.kind = "ABS" -> 12
       [] OTHER -> f.fr_var

(* Mutant of dadao_relax_frag: a set of a symbol grows in every pass. *)
dadao_relax_frag_more(fs, k, places) ==
  LET f == fs[k]
  IN CASE f.kind = "BRCC12" -> relaxed_branch_length(fs, k, places)
       [] f.kind = "ABS" -> f.fr_var + 12
       [] OTHER -> f.fr_var

(* Then it lets every frag grow, again and again until none does. *)
dadao_relax_frag(fs, k, places) ==
  LET f == fs[k]
  IN CASE f.kind = "BRCC12" -> relaxed_branch_length(fs, k, places)
       [] f.kind = "ABS" -> 12
       [] OTHER -> f.fr_var

Relaxed(fs, places) ==
  LET grow(acc, k) ==
        LET at == [acc.fs EXCEPT ![k].address = @ + acc.stretch]
            var == dadao_relax_frag(at, k, places)
        IN  [fs |-> [at EXCEPT ![k].fr_var = var],
             stretch |-> acc.stretch + var - at[k].fr_var]
  IN  Stepped(grow, [fs |-> fs, stretch |-> 0], Len(fs)).fs

-----------------------------------------------------------------------------
(* Conversion. *)

(* The offset field reads as a signed number; the check lets twice its     *)
(* range pass.                                                             *)
dd_set_addr_offset(value, bits) ==
  LET v == value \div 4
  IN  [ok |-> ~(v > 0 /\ v >= 2^bits) /\ ~(v < 0 /\ -v > 2^bits),
       imm |-> SignedIn(bits, CutTo(bits, v))]

Nop == Insn("SWYM")
dd_fill_nops(n) == [k \in 1..n |-> Nop]

Opposite == [EQ |-> "NE", NE |-> "EQ", LT |-> "GE", GE |-> "LT", GT |-> "LE", LE |-> "GT"]

(* A far branch: the opposite condition skips a jump. *)
md_convert_frag_branch(i) == <<[i EXCEPT !.cond = Opposite[@], !.imm = 2], Insn("JUMPi")>>

(* The frag's last instruction, converted: the instructions in its place,  *)
(* whether the offsets were accepted, and whether a relocation remains.    *)
md_convert_frag(fs, k, places) ==
  LET f == fs[k]
      i == Last(f.words).insn
      dist == S_GET_VALUE(fs, places[f.sym]) - (f.address + fr_fix(f) - 4)
      plain(bits) == LET o == dd_set_addr_offset(dist, bits)
                     IN  [insns |-> <<[i EXCEPT !.imm = o.imm]>>, ok |-> o.ok, reloc |-> FALSE]
      long == LET o == dd_set_addr_offset(dist - 4, JUMPI)
              IN  [insns |-> [md_convert_frag_branch(i) EXCEPT ![2].imm = o.imm],
                   ok |-> o.ok, reloc |-> FALSE]
      fix(insns) == [insns |-> insns, ok |-> TRUE, reloc |-> TRUE]
      Z == f.state = "ZERO"
  IN CASE Z /\ f.kind \in {"CALL", "JUMP"} -> plain(JUMPI)
       [] Z /\ f.kind \in Conditional ->
            IF f.fr_var = 4 /\ fr_fix(f) = 4 THEN long
            ELSE plain(IF f.kind = "BRCC" THEN BRCC ELSE BRCC12)
       [] Z /\ f.kind \in {"HI18", "LO12"} -> [insns |-> <<i>>, ok |-> FALSE, reloc |-> FALSE]
       [] f.kind = "ABS" -> fix(<<i>> \o dd_fill_nops(3))
       [] ~Z /\ f.kind # "ABS" -> fix(<<i>>)

(* A relocation lies after its instruction; a local symbol is replaced by  *)
(* its section and an addend.                                              *)
tc_gen_reloc(fs, k, places) ==
  LET f == fs[k]
      local == Bind[f.sym] = "local"
  IN  [r_offset |-> f.address + fr_fix(f), type |-> f.kind,
       sym |-> IF local THEN "section" ELSE f.sym,
       addend |-> IF local THEN S_GET_VALUE(fs, places[f.sym]) ELSE 0]

(* cvt_frag_to_fill (write.c) asserts that a frag has the size it was      *)
(* given.                                                                  *)
Converted(fs, k, places) ==
  LET f == fs[k]
      c == md_convert_frag(fs, k, places)
      n == Last(f.words).st
      words == Front(f.words) \o [j \in 1 .. Len(c.insns) |-> [insn |-> c.insns[j], st |-> n]]
  IN  IF f.kind = "fill" THEN [words |-> f.words, relocs |-> <<>>, ok |-> TRUE]
      ELSE [words |-> words,
            ok |-> c.ok /\ fs[k + 1].address - f.address = 4 * Len(words),
            relocs |-> When(c.reloc, <<tc_gen_reloc(fs, k, places)>>)]

(* The object file: text, relocations, and the offsets of its symbols. *)
Object(fs, places) ==
  LET all == [k \in 1..Len(fs) |-> Converted(fs, k, places)]
  IN  [text |-> FlattenSeq([k \in 1..Len(fs) |-> all[k].words]),
       relocs |-> FlattenSeq([k \in 1..Len(fs) |-> all[k].relocs]),
       syms |-> [y \in DOMAIN places |-> S_GET_VALUE(fs, places[y])],
       ok |-> \A k \in 1..Len(fs) : all[k].ok]
============================================================================
