-------------------------------- MODULE Bfd --------------------------------
(***************************************************************************)
(* The linker's part (bfd/elf64-dadao.c): relaxation, which deletes words  *)
(* a relocation keeps in reserve, and the final relocations. An object is  *)
(* what the assembler's Object gives. A relocation's r_offset is the byte  *)
(* after its instruction, which is also the index of that instruction's    *)
(* word times four.                                                        *)
(***************************************************************************)
EXTENDS Gas, TLC

CONSTANTS
  HI18, LO12,     \* bits of the fields of adrp and of offsets: 18 and 12
  Vma,            \* where the section lies
  Elsewhere       \* the addresses of the symbols other objects define

Index(r) == r.r_offset \div 4
Opc(obj, r) == obj.text[Index(r)].insn

SymVal(obj, r) ==
  Cut(r.addend + (CASE r.sym = "section" -> Vma
                    [] r.sym \in DOMAIN obj.syms -> Vma + obj.syms[r.sym]
                    [] OTHER -> Elsewhere[r.sym]))

(* Words of a statement over the words from index k on. *)
PutWords(obj, k, insns) ==
  [obj EXCEPT !.text = [j \in DOMAIN @ |-> IF j \in k .. k + Len(insns) - 1
                                           THEN [insn |-> insns[j - k + 1], st |-> @[k].st]
                                           ELSE @[j]]]

(* Mutant of dd_fill_abs: later wydes are always added to the register. *)
dd_fill_abs_or(i, addr) ==
  LET more == IF i.form = "SETOW" THEN "ANDNW" ELSE "ORW"
      ws == SelectSeq(<<0, 1, 2, 3>>, LAMBDA w : Wyde(addr, w) # 0)
      form(k) == IF ws[k] = 0 THEN i.form ELSE more
  IN  IF ws = <<>> THEN <<SetWyde(i.form, i.file, i.ha, 0, 0)>>
      ELSE [k \in 1..Len(ws) |-> SetWyde(form(k), i.file, i.ha, ws[k], Wyde(addr, ws[k]))]

(* The wydes that are not zero, lowest first; the first sets the register. *)
(* For rf registers the instruction of the others is never chosen.         *)
dd_fill_abs(i, addr) ==
  LET more == CASE i.form = "SETZW" -> "ORW" [] i.form = "SETOW" -> "ANDNW" [] OTHER -> "UNSET"
      ws == SelectSeq(<<0, 1, 2, 3>>, LAMBDA w : Wyde(addr, w) # 0)
      form(k) == IF k = 1 THEN i.form ELSE more
  IN  IF ws = <<>> THEN <<SetWyde(i.form, i.file, i.ha, 0, 0)>>
      ELSE [k \in 1..Len(ws) |-> SetWyde(form(k), i.file, i.ha, ws[k], Wyde(addr, ws[k]))]

-----------------------------------------------------------------------------
(* First phase: the relocations are put in the order of their places (by   *)
(* word, then by byte). No program here has a table of virtual functions.  *)

dadao_elf_sort_relocs(r1, r2) == r1.r_offset < r2.r_offset
dadao_elf_check_relocs(obj) == [obj EXCEPT !.relocs = SortSeq(@, dadao_elf_sort_relocs)]

-----------------------------------------------------------------------------
(* Relaxation. *)

(* Mutant of dadao_elf_relax_delete_bytes: relocations keep their places. *)
delete_keeping_relocs(obj, addr, count) ==
  LET w == addr \div 4
  IN  [obj EXCEPT !.text = SubSeq(@, 1, w) \o SubSeq(@, w + count + 1, Len(@)),
                  !.syms = [y \in DOMAIN @ |-> IF @[y] > addr THEN @[y] - 4 * count ELSE @[y]]]

(* Delete count words from byte addr on. *)
dadao_elf_relax_delete_bytes(obj, addr, count) ==
  LET w == addr \div 4
      moved(a) == IF a > addr THEN a - 4 * count ELSE a
  IN  [obj EXCEPT !.text = SubSeq(@, 1, w) \o SubSeq(@, w + count + 1, Len(@)),
                  !.relocs = [k \in DOMAIN @ |-> [@[k] EXCEPT !.r_offset = moved(@)]],
                  !.syms = [y \in DOMAIN @ |-> moved(@[y])]]

(* The words a relocation of this type has in reserve. *)
delcnt(obj, r) ==
  LET i == Opc(obj, r)
  IN CASE r.type = "CALL" /\ i.form = "CALLi" -> 4
       [] r.type = "BRCC" /\ i.form = "BR1" -> 5
       [] r.type = "JUMP" /\ i.form = "JUMPi" -> 4
       [] r.type = "ABS" /\ i.form \in {"SETZW", "SETOW"} -> 4 - Len(dd_fill_abs(i, SymVal(obj, r)))
       [] OTHER -> 0

(* Only symbols other files can see are looked at, and only if the next    *)
(* word is zero.                                                           *)
LookedAt(obj, r) ==
  /\ r.sym # "section"
  /\ Index(r) < Len(obj.text) /\ obj.text[Index(r) + 1].insn.form = "ZERO"

Relaxes(obj, r) == LookedAt(obj, r) /\ delcnt(obj, r) # 0

(* Counting the words of an address writes them; they stay if there is     *)
(* nothing to delete.                                                      *)
dadao_elf_relax_section(obj, k) ==
  LET r == obj.relocs[k]
      i == Opc(obj, r)
      filled == IF LookedAt(obj, r) /\ r.type = "ABS" /\ i.form \in {"SETZW", "SETOW"}
                THEN PutWords(obj, Index(r), dd_fill_abs(i, SymVal(obj, r)))
                ELSE obj
  IN  IF Relaxes(obj, r) THEN dadao_elf_relax_delete_bytes(filled, r.r_offset, delcnt(obj, r)) ELSE filled

-----------------------------------------------------------------------------
(* Final relocation. A bitfield of n bits takes -2^n to 2^n - 1. *)

(* Bits of the value a relocation takes; a branch's are of its distance in *)
(* bytes.                                                                  *)
elf_dadao_howto_table ==
  [ABS |-> WydeBits, BRCC |-> BRCC + 2, BRCC12 |-> BRCC12 + 2, CALL |-> JUMPI + 2,
   JUMP |-> JUMPI + 2]

bfd_check_overflow(n, x) == Signed(Cut(x)) \in -(2^n) .. 2^n - 1

(* The instructions in place of the relocated one; none if it is refused.  *)
(* Conditional branches lose their registers.                              *)
dadao_elf_perform_relocation(i, type, addr, value) ==
  LET branch(bits) == SignedIn(bits, CutTo(bits, value \div 4))
      takes == value % 4 = 0 /\ bfd_check_overflow(elf_dadao_howto_table[type], value)
  IN CASE type = "ABS" ->
            IF ~bfd_check_overflow(elf_dadao_howto_table[type], addr) THEN dd_fill_abs(i, addr)
            ELSE IF addr < 2^WydeBits THEN <<[i EXCEPT !.imm = @ | addr]>>
            ELSE <<Insn("GARBLED")>>
       [] type = "BRCC" /\ takes -> <<[i EXCEPT !.ha = 0, !.imm = branch(BRCC)]>>
       [] type = "BRCC12" /\ takes -> <<[i EXCEPT !.ha = 0, !.hb = 0, !.imm = branch(BRCC12)]>>
       [] type \in {"CALL", "JUMP"} /\ takes -> <<[i EXCEPT !.imm = branch(JUMPI)]>>
       [] type = "HI18" ->
            LET pages == (addr \div Page) - (Cut(addr - value) \div Page)
            IN  <<[i EXCEPT !.imm = SignedIn(HI18, CutTo(HI18, pages))]>>
       [] type = "LO12" -> <<[i EXCEPT !.imm = SignedIn(LO12, CutTo(LO12, addr))]>>
       [] OTHER -> <<>>

(* A refused relocation is a warning. *)
dadao_final_link_relocate(obj, k) ==
  LET r == obj.relocs[k]
      addr == SymVal(obj, r)
      insns == dadao_elf_perform_relocation(Opc(obj, r), r.type, addr, addr - (Vma + r.r_offset) + 4)
  IN  [PutWords(obj, Index(r), insns) EXCEPT !.ok = @ /\ insns # <<>>]
============================================================================
