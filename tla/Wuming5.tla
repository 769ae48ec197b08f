------------------------------ MODULE Wuming5 ------------------------------
(***************************************************************************)
(* The five-stage wuming core (IF, DEC, EXE, MEM, WB) built without        *)
(* bypassing: operands are read in DEC and the control path alone keeps a  *)
(* stale operand from being used.  One step of the specification is one    *)
(* clock cycle: all registers are updated together from their old values.  *)
(*                                                                         *)
(* Code and data live behind ports: the instruction port answers in the    *)
(* cycle of the request (scratchpad), a data access may take up to         *)
(* MaxMiss more cycles (bus).  Words are modulo M and a code address       *)
(* counts instructions.  Beside the core runs the sequential machine       *)
(* "arch", which executes one instruction whenever the core retires one or *)
(* takes an exception; the properties compare the two.                     *)
(***************************************************************************)
EXTENDS Integers, Sequences, FiniteSets

CONSTANTS
  M,              \* words are 0..M-1
  NRegs,          \* registers 0..NRegs-1 of each bank (64)
  RasSize,        \* entries of the return-address file, entry 0 unused (64)
  Last,           \* code addresses are 0..Last, fetching wraps around
  End,            \* the program proper is 0..End-1, the rest is padding
  MaxMiss,        \* longest wait of a data access, in cycles
  Evec,           \* code address of the exception handler
  Misaligned,     \* the data addresses an access may not use
  Programs        \* the programs to run, functions from code addresses

ASSUME ConstAssumption ==
  /\ M \in Nat \ {0, 1} /\ NRegs \in Nat \ {0} /\ RasSize \in Nat \ {0}
  /\ Last \in Nat /\ End \in 1..Last /\ Evec \in 0..Last
  /\ M <= Last + 1              \* every word is a code address
  /\ MaxMiss \in Nat /\ Misaligned \subseteq 0..(M - 1)

VARIABLES
  prog,           \* the program: code address -> instruction
  if_pc,          \* if_reg_pc
  if_buf,         \* the one-entry fetch queue: <<>> or <<code address>>
  if_killed,      \* if_reg_killed
  dec,            \* dec_reg_*: [valid, pc, inst]
  exe,            \* exe_reg_*: [valid, pc, inst, op1, op2, c1, c2, st]
  ret_target,     \* exe_reg_ret_target
  mem,            \* mem_reg_*: [valid, pc, inst, alu, alu2, st]
  wb,             \* wb_reg_*: [valid, inst, data, data2]
  track,          \* control path: destinations in EXE, MEM and WB
  ctl,            \* control path: [is_csr, illegal, illegal1, fencei1]
  rf,             \* register banks "D" and "B"
  ras,            \* [top, a]: RASR_TOP and regfileA
  dmem,           \* data memory
  csr,            \* the one CSR the model has, the exception pc
  dwait,          \* cycles the access in MEM still waits for its answer
  arch            \* the sequential machine: [pc, rf, ras, dmem, csr]

vars == <<prog, if_pc, if_buf, if_killed, dec, exe, ret_target, mem, wb,
          track, ctl, rf, ras, dmem, csr, dwait, arch>>

Word == 0..(M - 1)
Pc == 0..Last
Bank == {"D", "B"}
Reg == 0..(NRegs - 1)

Plus(pc, n) == (pc + n) % (Last + 1)

-----------------------------------------------------------------------------
(***************************************************************************)
(* Instructions and the decode table                                       *)
(***************************************************************************)

(* An instruction has four register fields and an immediate. *)
Inst(op, ha, hb, hc, hd, imm) ==
  [op |-> op, ha |-> ha, hb |-> hb, hc |-> hc, hd |-> hd, imm |-> imm]

BUBBLE == Inst("BUBBLE", 0, 0, 0, 0, 0)

Row(cf, cond, grp, op1, op2, alu, dst, m, cmd) ==
  [val |-> TRUE, cf |-> cf, cond |-> cond, grp |-> grp, op1 |-> op1,
   op2 |-> op2, alu |-> alu, wb |-> dst, mem |-> m, csr |-> cmd,
   fencei |-> FALSE]

Plain == Row("X", "X", "X", "X", "X", "X", "X", "X", "N")

(* csignals: one row per kind of instruction the table tells apart; BUBBLE *)
(* and every other encoding take the default row.                          *)
Op == {"SWYM", "FENCE", "RD2RD", "RD2RB", "RB2RD", "ADDIrd", "ADDIrb", "ADDrd",
       "LDOrd", "LDOrb", "STOrd", "STOrb", "CSZrd", "CSEQ",
       "BREQ", "BRNE", "BRZ", "BRNZ", "JUMPi", "JUMPr", "CALLi", "CALLr", "RET",
       "CPRD", "CPWR", "TRAP", "ESCAPE", "ILL", "BUBBLE"}

csignals == [op \in Op |->
  CASE op = "SWYM"   -> Plain
    [] op = "FENCE"  -> [Plain EXCEPT !.fencei = TRUE]
    [] op = "RD2RD"  -> Row("X", "X", "RD", "X", "RDHC", "COPY2", "RDHB", "X", "N")
    [] op = "RD2RB"  -> Row("X", "X", "RB", "X", "RDHC", "COPY2", "RBHB", "X", "N")
    [] op = "RB2RD"  -> Row("X", "X", "RD", "X", "RBHC", "COPY2", "RDHB", "X", "N")
    [] op = "ADDIrd"   -> Row("X", "X", "RD", "RDHB", "IMM", "ADD", "RDHA", "X", "N")
    [] op = "ADDIrb" -> Row("X", "X", "RB", "RBHB", "IMM", "ADD", "RBHA", "X", "N")
    [] op = "ADDrd"  -> Row("X", "X", "RD", "RDHC", "RDHD", "ADD", "HAHB", "X", "N")
    [] op = "LDOrd"  -> Row("X", "X", "RD", "RBHB", "IMM", "ADD", "RDMM", "XRD", "N")
    [] op = "LDOrb"  -> Row("X", "X", "RB", "RBHB", "IMM", "ADD", "RBMM", "XRD", "N")
    [] op = "STOrd"  -> Row("X", "X", "RD", "RBHB", "IMM", "ADD", "X", "XWR", "N")
    [] op = "STOrb"  -> Row("X", "X", "RB", "RBHB", "IMM", "ADD", "X", "XWR", "N")
    [] op = "CSZrd"  -> Row("X", "Z", "RD", "RDHC", "RDHD", "CSET", "RDHB", "X", "N")
    [] op = "CSEQ"   -> Row("X", "NE", "RD", "RDHC", "RDHD", "CSET", "RDHC", "X", "N")
    [] op = "BREQ"   -> Row("BR", "EQ", "X", "X", "X", "X", "X", "X", "N")
    [] op = "BRNE"   -> Row("BR", "NE", "X", "X", "X", "X", "X", "X", "N")
    [] op = "BRZ"    -> Row("BR", "Z", "X", "X", "X", "X", "X", "X", "N")
    [] op = "BRNZ"   -> Row("BR", "NZ", "X", "X", "X", "X", "X", "X", "N")
    [] op = "JUMPi"  -> Row("IIII", "X", "X", "X", "X", "X", "X", "X", "N")
    [] op = "JUMPr"  -> Row("RRII", "X", "X", "RBHA", "RDHB", "ADD", "X", "X", "N")
    [] op = "CALLi"  -> Row("IIII", "X", "PUSH", "X", "X", "X", "RA", "X", "N")
    [] op = "CALLr"  -> Row("RRII", "X", "PUSH", "RBHA", "RDHB", "ADD", "RA", "X", "N")
    [] op = "RET"    -> Row("RET", "X", "POP", "X", "IMM", "COPY2", "RDHA", "X", "N")
    [] op = "CPRD"   -> Row("X", "X", "CSR", "X", "X", "X", "CSR", "X", "R")
    [] op = "CPWR"   -> Row("X", "X", "CSR", "X", "RDHD", "COPY2", "X", "X", "W")
    [] op \in {"TRAP", "ESCAPE"} -> [Plain EXCEPT !.csr = "I"]
    [] OTHER         -> [Plain EXCEPT !.val = FALSE]]

(* A register named by a selector: <<bank, number>>.  None stands for the  *)
(* codes RFX and RFX2, which match nothing.                                *)
None == <<"none", 0>>

Source(i, sel) ==
  CASE sel = "RDHA" -> <<"D", i.ha>> [] sel = "RDHB" -> <<"D", i.hb>>
    [] sel = "RDHC" -> <<"D", i.hc>> [] sel = "RDHD" -> <<"D", i.hd>>
    [] sel = "RBHA" -> <<"B", i.ha>> [] sel = "RBHB" -> <<"B", i.hb>>
    [] sel = "RBHC" -> <<"B", i.hc>> [] OTHER -> None

(* dec_wb_addr / dec_wb_rf, the first destination. *)
Dest(i) ==
  LET w == csignals[i.op].wb
  IN  CASE w \in {"RDHA", "RDMM"} -> <<"D", i.ha>>
        [] w \in {"RBHA", "RBMM"} -> <<"B", i.ha>>
        [] w \in {"RDHB", "HAHB"} -> <<"D", i.hb>>
        [] w = "RBHB" -> <<"B", i.hb>>
        [] w = "RDHC" -> <<"D", i.hc>>
        [] w = "CSR" -> <<"D", i.hd>>
        [] OTHER -> None

(* dec_wb2_addr / dec_wb2_rf: the upper half of a two-word result. *)
Dest2(i) == IF csignals[i.op].wb = "HAHB" THEN <<"D", i.ha>> ELSE None

(* dec_cond1_rf and dec_cond2_rf: what a condition compares. *)
Cond1(i) == IF csignals[i.op].cond = "X" THEN None ELSE <<"D", i.ha>>
Cond2(i) ==
  IF csignals[i.op].cond \in {"EQ", "NE"} THEN <<"D", i.hb>> ELSE None

(* dec_st_rf: the register a store writes to memory. *)
Stored(i) ==
  IF csignals[i.op].mem # "XWR" THEN None
  ELSE <<IF csignals[i.op].grp = "RB" THEN "B" ELSE "D", i.ha>>

-----------------------------------------------------------------------------
(***************************************************************************)
(* The regular programs: those the core runs like the sequential machine,  *)
(* because they do not meet one of its deviations from it                  *)
(***************************************************************************)

Instruction ==
  [op : Op \ {"BUBBLE"}, ha : Reg, hb : Reg, hc : Reg, hd : Reg, imm : Int]

IsRas(i) == csignals[i.op].grp \in {"PUSH", "POP"}
IsMem(i) == csignals[i.op].mem # "X"
IsFence(i) == csignals[i.op].fencei
IsLegal(i) == csignals[i.op].val

(* An instruction j that may directly follow i.  One that is held or       *)
(* killed in EXE by a miss or an exception of i must not be a CALL or RET, *)
(* whose effect is not undone; a FENCE must not be held; an illegal        *)
(* instruction must not be held or killed.                                 *)
MayFollow(i, j) ==
  /\ IsMem(i) \/ ~IsLegal(i) => IsLegal(j)
  /\ IsMem(i) \/ ~IsLegal(i) \/ csignals[i.op].csr = "I" => ~IsRas(j)
  /\ IsMem(i) \/ csignals[i.op].csr \in {"R", "W"} => ~IsFence(j)

(* The upper half of a result goes to a register that no condition tests   *)
(* and no store writes to memory: the interlock does not compare those.    *)
HalvesApart(i, j) ==
  Dest2(i) \in {None, <<"D", 0>>} \/ Dest2(i) \notin {Cond1(j), Cond2(j), Stored(j)}

Regular(p) ==
  /\ \A a \in Pc : LET b == Plus(a, 1) IN
       /\ MayFollow(p[a], p[b])
       /\ IsMem(p[a]) => ~IsFence(p[Plus(b, 1)])
  /\ \A a, b \in Pc : HalvesApart(p[a], p[b])

RegularPrograms == {p \in [Pc -> Instruction] : Regular(p)}

-----------------------------------------------------------------------------
(***************************************************************************)
(* Execution units, shared with the sequential machine                     *)
(***************************************************************************)

(* Register 0 of both banks reads 0 and ignores writes. *)
Read(f, r) == IF r[1] \notin Bank \/ r[2] = 0 THEN 0 ELSE f[r[1]][r[2]]

Write(f, r, v) ==
  IF r[1] \notin Bank \/ r[2] = 0 THEN f ELSE [f EXCEPT ![r[1]][r[2]] = v]

Operand(f, i, sel) == IF sel = "IMM" THEN i.imm % M ELSE Read(f, Source(i, sel))

CondTrue(c, x, y) ==
  CASE c = "Z" -> x = 0 [] c = "NZ" -> x # 0
    [] c = "EQ" -> x = y [] c = "NE" -> x # y [] OTHER -> FALSE

Signed(x) == IF 2 * x >= M THEN x - M ELSE x

(* Mutant of Alu: a sum is not cut to the word.                            *)
AluTooWide(i, a, b, yes) ==
  CASE csignals[i.op].alu = "ADD" -> a + b
    [] csignals[i.op].alu = "CSET" -> IF yes THEN a ELSE b
    [] csignals[i.op].alu = "COPY2" -> b
    [] OTHER -> 0

Alu(i, a, b, yes) ==
  CASE csignals[i.op].alu = "ADD" -> (a + b) % M
    [] csignals[i.op].alu = "CSET" -> IF yes THEN a ELSE b
    [] csignals[i.op].alu = "COPY2" -> b
    [] OTHER -> 0

(* The upper word of the sign-extended sum. *)
Alu2(i, a, b) ==
  IF csignals[i.op].alu = "ADD" /\ Signed(a) + Signed(b) < 0 THEN M - 1 ELSE 0

PushRas(r, pc) ==
  LET p == (r.top + 1) % RasSize
  IN  [top |-> p, a |-> IF p = 0 THEN r.a ELSE [r.a EXCEPT ![p] = Plus(pc, 1)]]

TopRas(r) == IF r.top = 0 THEN 0 ELSE r.a[r.top]

PopRas(r) == [r EXCEPT !.top = (r.top + RasSize - 1) % RasSize]

-----------------------------------------------------------------------------
(***************************************************************************)
(* The sequential machine: one instruction at a time                       *)
(***************************************************************************)

Traps(i, addr) ==
  \/ ~csignals[i.op].val
  \/ i.op = "TRAP"
  \/ csignals[i.op].mem # "X" /\ addr \in Misaligned

IsaStep(p, s) ==
  LET i == p[s.pc]
      d == csignals[i.op]
      a == Operand(s.rf, i, d.op1)
      b == Operand(s.rf, i, d.op2)
      yes == CondTrue(d.cond, Read(s.rf, <<"D", i.ha>>), Read(s.rf, <<"D", i.hb>>))
      out == Alu(i, a, b, yes)
      data == CASE d.mem = "XRD" -> s.dmem[out] [] d.csr = "R" -> s.csr % M [] OTHER -> out
  IN  IF Traps(i, out) THEN [s EXCEPT !.pc = Evec, !.csr = s.pc]
      ELSE [pc   |-> CASE d.cf = "BR" /\ yes -> Plus(s.pc, i.imm)
                       [] d.cf = "IIII" -> Plus(s.pc, i.imm)
                       [] d.cf = "RRII" -> Plus(out, i.imm)
                       [] d.cf = "RET" -> TopRas(s.ras)
                       [] i.op = "ESCAPE" -> s.csr
                       [] OTHER -> Plus(s.pc, 1),
            rf   |-> Write(Write(s.rf, Dest(i), data), Dest2(i), Alu2(i, a, b)),
            ras  |-> CASE d.grp = "PUSH" -> PushRas(s.ras, s.pc)
                       [] d.grp = "POP" -> PopRas(s.ras)
                       [] OTHER -> s.ras,
            dmem |-> IF d.mem = "XWR"
                     THEN [s.dmem EXCEPT ![out] = Read(s.rf, Stored(i))] ELSE s.dmem,
            csr  |-> IF d.csr = "W" THEN out ELSE s.csr]

-----------------------------------------------------------------------------
(***************************************************************************)
(* Control signals of the current cycle (cpath.scala)                      *)
(***************************************************************************)

(* The access in MEM: does it have its answer, is its address legal?       *)
mem_val == csignals[mem.inst.op].mem # "X"
mem_data_misaligned == mem_val /\ mem.alu \in Misaligned
dmem_resp == mem_val /\ ~mem_data_misaligned /\ dwait = 0
full_stall == mem_val /\ ~dmem_resp

csr_eret == mem.inst.op \in {"TRAP", "ESCAPE"}
mem_exception == ctl.illegal1 \/ mem_data_misaligned
pipeline_kill == csr_eret \/ mem_exception

cond_yes == CondTrue(csignals[exe.inst.op].cond, exe.c1, exe.c2)

exe_redirects ==
  LET f == csignals[exe.inst.op].cf
  IN  f # "X" /\ (f = "BR" => cond_yes)

fencei == csignals[dec.inst.op].fencei \/ ctl.fencei1

Conflicts(regs, dests) == (regs \ {None}) \cap dests # {}

(* Mutant of stall: the destination in WB is not compared.                 *)
stall_not_wb ==
  LET i == dec.inst
      operands == {Source(i, csignals[i.op].op1), Source(i, csignals[i.op].op2)}
  IN  \/ Conflicts(operands \cup {Cond1(i), Cond2(i), Stored(i)},
                   {track.exe.wb, track.mem.wb})
      \/ Conflicts(operands, {track.exe.wb2, track.mem.wb2})
      \/ ctl.is_csr

(* stall := ... in the build without bypassing.  The second destination is *)
(* compared with the ALU operands only.                                    *)
stall ==
  LET i == dec.inst
      operands == {Source(i, csignals[i.op].op1), Source(i, csignals[i.op].op2)}
  IN  \/ Conflicts(operands \cup {Cond1(i), Cond2(i), Stored(i)},
                   {track.exe.wb, track.mem.wb, track.wb.wb})
      \/ Conflicts(operands, {track.exe.wb2, track.mem.wb2, track.wb.wb2})
      \/ ctl.is_csr

(* All of them, as the stages see them; dec_kill is exe_pc_sel =/= PC_4.   *)
Signals ==
  LET kill == pipeline_kill
      redirect == kill \/ exe_redirects
      fs == full_stall
      st == stall
  IN  [stall |-> st, full_stall |-> fs, dec_moves |-> ~st /\ ~fs,
       pipeline_kill |-> kill, dec_kill |-> redirect,
       if_kill |-> redirect \/ fencei]

exe_alu_out == Alu(exe.inst, exe.op1, exe.op2, cond_yes)

exception_target == IF mem.inst.op = "ESCAPE" /\ ~mem_exception THEN csr ELSE Evec

if_pc_next(c) ==
  LET f == csignals[exe.inst.op].cf
  IN  IF c.pipeline_kill THEN exception_target
      ELSE IF c.dec_kill
      THEN CASE f = "RRII" -> Plus(exe_alu_out, exe.inst.imm)
             [] f = "RET" -> ret_target
             [] OTHER -> Plus(exe.pc, exe.inst.imm)
      ELSE IF fencei /\ c.dec_moves THEN if_pc
      ELSE Plus(if_pc, 1)

-----------------------------------------------------------------------------
(***************************************************************************)
(* The stages (dpath.scala)                                                *)
(***************************************************************************)

(* The queue holds one instruction and lets one flow through; a fetch is   *)
(* made, and answered, exactly when it is empty.                           *)
Fetch(c) ==
  LET in_fire == if_buf = << >>
      out_fire == c.dec_moves
  IN  /\ if_buf' = CASE in_fire /\ ~out_fire -> <<if_pc>>
                     [] ~in_fire /\ out_fire -> << >>
                     [] OTHER -> if_buf
      /\ if_killed' = IF out_fire THEN FALSE ELSE if_killed \/ c.if_kill
      /\ if_pc' = IF (in_fire /\ ~if_killed) \/ c.if_kill THEN if_pc_next(c) ELSE if_pc

FetchedPc == IF if_buf = << >> THEN if_pc ELSE if_buf[1]

(* Mutant of Decode: a kill that arrived while DEC could not move is       *)
(* forgotten.                                                              *)
DecodeForgetsKill(c) ==
  LET empty == [dec EXCEPT !.valid = FALSE, !.inst = BUBBLE]
  IN  dec' = CASE c.pipeline_kill -> empty
               [] ~c.pipeline_kill /\ c.dec_moves ->
                    IF c.if_kill THEN [empty EXCEPT !.pc = FetchedPc]
                    ELSE [valid |-> TRUE, pc |-> FetchedPc, inst |-> prog[FetchedPc]]
               [] OTHER -> IF c.if_kill THEN empty ELSE dec

Decode(c) ==
  LET kill == c.if_kill \/ if_killed
      empty == [dec EXCEPT !.valid = FALSE, !.inst = BUBBLE]
  IN  dec' = CASE c.pipeline_kill -> empty
               [] ~c.pipeline_kill /\ c.dec_moves ->
                    IF kill THEN [empty EXCEPT !.pc = FetchedPc]
                    ELSE [valid |-> TRUE, pc |-> FetchedPc, inst |-> prog[FetchedPc]]
               [] OTHER -> IF kill THEN empty ELSE dec

Execute(c) ==
  LET i == dec.inst
      d == csignals[i.op]
      bubble == [exe EXCEPT !.valid = FALSE, !.inst = BUBBLE]
      latched == [valid |-> dec.valid, pc |-> dec.pc, inst |-> i,
                  op1 |-> Operand(rf, i, d.op1), op2 |-> Operand(rf, i, d.op2),
                  c1 |-> Read(rf, <<"D", i.ha>>), c2 |-> Read(rf, <<"D", i.hb>>),
                  st |-> Read(rf, <<IF d.grp = "RB" THEN "B" ELSE "D", i.ha>>)]
  IN  exe' = CASE c.pipeline_kill \/ (c.stall /\ ~c.full_stall) -> bubble
               [] ~c.pipeline_kill /\ c.dec_moves ->
                    IF c.dec_kill
                    THEN [latched EXCEPT !.valid = FALSE, !.inst = BUBBLE]
                    ELSE latched
               [] OTHER -> exe

(* Mutant of ReturnAddressFile: a killed CALL or RET changes it too.       *)
ReturnAddressFileUnkilled(c) ==
  LET grp == IF c.dec_moves THEN csignals[dec.inst.op].grp ELSE "X"
  IN  /\ ras' = CASE grp = "PUSH" -> PushRas(ras, dec.pc)
                  [] grp = "POP" -> PopRas(ras)
                  [] OTHER -> ras
      /\ ret_target' = TopRas(ras)

(* CALL and RET change the return-address file as they leave DEC; the      *)
(* popped address is clocked into EXE in every cycle.                      *)
ReturnAddressFile(c) ==
  LET grp == IF c.dec_moves /\ ~c.dec_kill THEN csignals[dec.inst.op].grp ELSE "X"
  IN  /\ ras' = CASE grp = "PUSH" -> PushRas(ras, dec.pc)
                  [] grp = "POP" -> PopRas(ras)
                  [] OTHER -> ras
      /\ ret_target' = TopRas(ras)

Memory(c) ==
  /\ mem' = CASE c.pipeline_kill -> [mem EXCEPT !.valid = FALSE, !.inst = BUBBLE]
              [] ~c.pipeline_kill /\ ~c.full_stall ->
                   [valid |-> exe.valid, pc |-> exe.pc, inst |-> exe.inst,
                    alu |-> exe_alu_out,
                    alu2 |-> Alu2(exe.inst, exe.op1, exe.op2),
                    st |-> exe.st]
              [] OTHER -> mem
  /\ dmem' = IF dmem_resp /\ csignals[mem.inst.op].mem = "XWR"
             THEN [dmem EXCEPT ![mem.alu] = mem.st] ELSE dmem
  /\ dwait' \in IF c.full_stall THEN {IF dwait > 0 THEN dwait - 1 ELSE 0}
                ELSE IF c.pipeline_kill \/ csignals[exe.inst.op].mem = "X" THEN {0}
                ELSE 0..MaxMiss

(* CSRFile (rocket-chip): an exception or TRAP saves the pc in MEM.        *)
CsrFile ==
  csr' = CASE mem_exception \/ mem.inst.op = "TRAP" -> mem.pc
           [] ~mem_exception /\ mem.inst.op = "CPWR" -> mem.alu
           [] OTHER -> csr

WriteBack(c) ==
  LET d == csignals[mem.inst.op]
  IN  wb' = [valid |-> ~c.full_stall /\ mem.valid /\ ~mem_exception,
             inst  |-> IF c.full_stall THEN BUBBLE ELSE mem.inst,
             data  |-> CASE d.mem = "XRD" -> dmem[mem.alu]
                         [] d.csr = "R" -> csr % M
                         [] OTHER -> mem.alu,
             data2 |-> mem.alu2]

(* The register file as the writes of the instruction in WB leave it.      *)
Written == Write(Write(rf, Dest(wb.inst), wb.data), Dest2(wb.inst), wb.data2)

NoDest == [wb |-> None, wb2 |-> None]

(* Mutant of Control: a stalled instruction leaves its predecessor's       *)
(* destination in the shadow of EXE.                                       *)
ControlKeepsShadow(c) ==
  LET go == c.dec_moves /\ ~c.dec_kill
      d == csignals[dec.inst.op]
      new == IF go THEN [wb |-> Dest(dec.inst), wb2 |-> Dest2(dec.inst)] ELSE track.exe
  IN  /\ track' = IF c.full_stall THEN track
                  ELSE [exe |-> new, mem |-> track.exe, wb |-> track.mem]
      /\ ctl' = [is_csr   |-> IF c.full_stall THEN ctl.is_csr
                              ELSE go /\ d.csr \in {"R", "W"},
                 illegal  |-> ~csr_eret /\ IF c.full_stall THEN ctl.illegal
                                           ELSE go /\ ~d.val /\ dec.valid,
                 illegal1 |-> ctl.illegal /\ ~csr_eret,
                 fencei1  |-> d.fencei]

(* The control path's own registers. *)
Control(c) ==
  LET go == c.dec_moves /\ ~c.dec_kill
      d == csignals[dec.inst.op]
      new == IF go THEN [wb |-> Dest(dec.inst), wb2 |-> Dest2(dec.inst)] ELSE NoDest
  IN  /\ track' = IF c.full_stall THEN track
                  ELSE [exe |-> new, mem |-> track.exe, wb |-> track.mem]
      /\ ctl' = [is_csr   |-> IF c.full_stall THEN ctl.is_csr
                              ELSE go /\ d.csr \in {"R", "W"},
                 illegal  |-> ~csr_eret /\ IF c.full_stall THEN ctl.illegal
                                           ELSE go /\ ~d.val /\ dec.valid,
                 illegal1 |-> ctl.illegal /\ ~csr_eret,
                 fencei1  |-> d.fencei]

(* The instruction in MEM is retired, or stops with an exception. *)
Retires == mem.valid /\ ~full_stall /\ ~mem_exception
Excepts == mem_exception

Cycle ==
  /\ arch.pc < End
  /\ LET c == Signals
     IN  /\ Fetch(c) /\ Decode(c) /\ Execute(c) /\ ReturnAddressFile(c)
         /\ Memory(c) /\ CsrFile /\ WriteBack(c) /\ Control(c)
  /\ rf' = Written
  /\ arch' = IF Retires \/ Excepts THEN IsaStep(prog, arch) ELSE arch
  /\ UNCHANGED prog

Init ==
  /\ prog \in Programs
  /\ if_pc = 0 /\ if_buf = << >> /\ if_killed = FALSE
  /\ dec = [valid |-> FALSE, pc |-> 0, inst |-> BUBBLE]
  /\ exe = [valid |-> FALSE, pc |-> 0, inst |-> BUBBLE, op1 |-> 0, op2 |-> 0,
            c1 |-> 0, c2 |-> 0, st |-> 0]
  /\ ret_target = 0
  /\ mem = [valid |-> FALSE, pc |-> 0, inst |-> BUBBLE, alu |-> 0, alu2 |-> 0, st |-> 0]
  /\ wb = [valid |-> FALSE, inst |-> BUBBLE, data |-> 0, data2 |-> 0]
  /\ track = [exe |-> NoDest, mem |-> NoDest, wb |-> NoDest]
  /\ ctl = [is_csr |-> FALSE, illegal |-> FALSE, illegal1 |-> FALSE, fencei1 |-> FALSE]
  /\ rf = [b \in Bank |-> [r \in Reg |-> 0]]
  /\ ras = [top |-> 0, a |-> [n \in 1..(RasSize - 1) |-> 0]]
  /\ dmem = [a \in Word |-> 0]
  /\ csr = 0
  /\ dwait = 0
  /\ arch = [pc |-> 0, rf |-> rf, ras |-> ras, dmem |-> dmem, csr |-> 0]

Next == Cycle

Spec == Init /\ [][Next]_vars

(* The clock never stops. *)
FairSpec == Spec /\ WF_vars(Cycle)

-----------------------------------------------------------------------------
(***************************************************************************)
(* Properties                                                              *)
(***************************************************************************)

(* Type invariant of the core's registers. *)
TypeOK ==
  /\ if_pc \in Pc /\ if_buf \in {<< >>} \cup {<<a>> : a \in Pc} /\ if_killed \in BOOLEAN
  /\ dec.pc \in Pc /\ exe.pc \in Pc /\ mem.pc \in Pc /\ ret_target \in Pc
  /\ {dec.valid, exe.valid, mem.valid, wb.valid} \subseteq BOOLEAN
  /\ {exe.op1, exe.op2, exe.c1, exe.c2, exe.st, mem.alu, mem.alu2, mem.st} \subseteq Word
  /\ rf \in [Bank -> [Reg -> Word]]
  /\ ras.top \in 0..(RasSize - 1) /\ ras.a \in [1..(RasSize - 1) -> Pc]
  /\ dmem \in [Word -> Word] /\ csr \in Nat /\ dwait \in 0..MaxMiss

(* Instructions leave MEM in program order: what the core retires, and     *)
(* what it blames for an exception, is the next instruction of the         *)
(* sequential machine.  No wrong-path instruction survives a taken branch, *)
(* none is lost or repeated by a stall, a miss, a kill or a refetch.       *)
RetiresInOrder == Retires \/ Excepts => mem.pc = arch.pc

(* Once the write in WB is done, the register banks, the data memory and   *)
(* the CSR are those of the sequential machine: no operand was read before *)
(* its producer wrote it, no killed instruction wrote anything.            *)
StateMatchesIsa ==
  /\ Written = arch.rf
  /\ dmem = arch.dmem
  /\ csr = arch.csr

UsesRas(s) == s.valid /\ csignals[s.inst.op].grp \in {"PUSH", "POP"}

(* CALL and RET change the return-address file early, in DEC; when none is *)
(* in flight the file is the one of the sequential machine.                *)
RasMatchesIsa == ~UsesRas(exe) /\ ~UsesRas(mem) => ras = arch.ras

(* The core never hangs: until the program is left, another instruction is *)
(* always retired or stopped by an exception.  No interlock holds for      *)
(* good, none waits for itself, and every killed fetch is made again.      *)
Progress == []<>(Retires \/ Excepts \/ arch.pc >= End)
=============================================================================
