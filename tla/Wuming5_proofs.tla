--------------------------- MODULE Wuming5_proofs ---------------------------
(***************************************************************************)
(* Proofs about Wuming5, for every regular program of any length, any word *)
(* size, any number of registers and any memory latency.                   *)
(***************************************************************************)
EXTENDS Wuming5, TLAPS

(***************************************************************************)
(* The parts of Wuming5 that have no state: the decode table, the register *)
(* files and the sequential machine.                                       *)
(***************************************************************************)

Inflight == Instruction \cup {BUBBLE}
RegName == {None} \cup (Bank \X Reg)
RasState == [top : 0..(RasSize - 1), a : [1..(RasSize - 1) -> Pc]]
Files == [Bank -> [Reg -> Word]]
ArchState == [pc : Pc, rf : Files, ras : RasState, dmem : [Word -> Word], csr : Pc]

(* The operands and the result of the sequential machine.                  *)
Op1(p, s) == Operand(s.rf, p[s.pc], csignals[p[s.pc].op].op1)
Op2(p, s) == Operand(s.rf, p[s.pc], csignals[p[s.pc].op].op2)
Yes(p, s) == CondTrue(csignals[p[s.pc].op].cond,
                      Read(s.rf, <<"D", p[s.pc].ha>>), Read(s.rf, <<"D", p[s.pc].hb>>))
Out(p, s) == Alu(p[s.pc], Op1(p, s), Op2(p, s), Yes(p, s))
Result(p, s) ==
  CASE csignals[p[s.pc].op].mem = "XRD" -> s.dmem[Out(p, s)]
    [] csignals[p[s.pc].op].csr = "R" -> s.csr % M
    [] OTHER -> Out(p, s)

-----------------------------------------------------------------------------
(***************************************************************************)
(* Arithmetic                                                              *)
(***************************************************************************)

(* What a remainder is.                                                    *)
LEMMA ModType ==
  ASSUME NEW a \in Int, NEW m \in Nat \ {0}
  PROVE  a % m \in 0..(m - 1)
  OBVIOUS

(* The constants are as ConstAssumption says.                              *)
LEMMA Constants ==
  /\ M \in Nat \ {0} /\ Last + 1 \in Nat \ {0} /\ NRegs \in Nat \ {0} /\ RasSize \in Nat \ {0}
  /\ Last \in Nat /\ MaxMiss \in Nat
  /\ Evec \in Pc /\ 0 \in Pc /\ 0 \in Word /\ Word \subseteq Pc /\ Pc \subseteq Int
  /\ 0 \in Reg /\ Word \subseteq Int
  BY ConstAssumption DEF Word, Pc, Reg

(* A code address stays one.                                               *)
LEMMA PlusType == \A a, n \in Int : Plus(a, n) \in Pc
  BY Constants, ModType DEF Plus, Pc

-----------------------------------------------------------------------------
(***************************************************************************)
(* The decode table                                                        *)
(***************************************************************************)

(* What the rows of csignals have in common.                               *)
LEMMA Table ==
  ASSUME NEW op \in Op, NEW d, d = csignals[op]
  PROVE  /\ d.val \in BOOLEAN /\ d.fencei \in BOOLEAN
         /\ d.mem # "X" => d.cf = "X" /\ d.csr = "N" /\ d.val /\ ~d.fencei /\ d.alu = "ADD"
         /\ d.mem # "X" => d.grp \in {"RD", "RB"}
         /\ ~d.val => d.cf = "X" /\ d.csr = "N" /\ d.mem = "X" /\ d.wb = "X" /\ d.grp = "X"
         /\ ~d.val => ~d.fencei
         /\ d.csr = "I" <=> op \in {"TRAP", "ESCAPE"}
         /\ d.csr = "W" <=> op = "CPWR"
         /\ d.csr = "I" => d.cf = "X" /\ d.wb = "X" /\ d.mem = "X" /\ d.grp = "X" /\ d.val
         /\ d.csr # "N" => ~d.fencei
         /\ d.cf # "X" => d.csr = "N" /\ d.mem = "X" /\ d.val
         /\ d.fencei => d.op1 = "X" /\ d.op2 = "X" /\ d.cond = "X" /\ d.mem = "X"
         /\ d.fencei => d.cf = "X" /\ d.csr = "N" /\ d.val
         /\ d.cf \in {"X", "BR", "IIII", "RRII", "RET"}
         /\ d.cf = "RET" => d.grp = "POP"
         /\ d.cond \in {"X", "Z", "NZ", "EQ", "NE"}
<1> USE DEF csignals, Op, Row, Plain
<1>1. d.val \in BOOLEAN /\ d.fencei \in BOOLEAN
  OBVIOUS
<1>2. d.mem # "X" => d.cf = "X" /\ d.csr = "N" /\ d.val /\ ~d.fencei /\ d.alu = "ADD"
  OBVIOUS
<1>3. d.mem # "X" => d.grp \in {"RD", "RB"}
  OBVIOUS
<1>4. ~d.val => d.cf = "X" /\ d.csr = "N" /\ d.mem = "X" /\ d.wb = "X" /\ d.grp = "X"
  OBVIOUS
<1>5. ~d.val => ~d.fencei
  OBVIOUS
<1>6. d.csr = "I" <=> op \in {"TRAP", "ESCAPE"}
  OBVIOUS
<1>7. d.csr = "W" <=> op = "CPWR"
  OBVIOUS
<1>8. d.csr = "I" => d.cf = "X" /\ d.wb = "X" /\ d.mem = "X" /\ d.grp = "X" /\ d.val
  <2>1. CASE op \in {"TRAP", "ESCAPE"}
    BY <2>1
  <2> QED BY <1>6, <2>1
<1>9. d.csr # "N" => ~d.fencei
  OBVIOUS
<1>10. d.cf # "X" => d.csr = "N" /\ d.mem = "X" /\ d.val
  OBVIOUS
<1>11. d.fencei => d.op1 = "X" /\ d.op2 = "X" /\ d.cond = "X" /\ d.mem = "X"
  OBVIOUS
<1>12. d.fencei => d.cf = "X" /\ d.csr = "N" /\ d.val
  OBVIOUS
<1>13. d.cf \in {"X", "BR", "IIII", "RRII", "RET"}
  OBVIOUS
<1>14. d.cf = "RET" => d.grp = "POP"
  OBVIOUS
<1>15. d.cond \in {"X", "Z", "NZ", "EQ", "NE"}
  OBVIOUS
<1> HIDE DEF csignals, Op, Row, Plain
<1> QED
  BY <1>1, <1>2, <1>3, <1>4, <1>5, <1>6, <1>7, <1>8, <1>9, <1>10, <1>11, <1>12, <1>13,
     <1>14, <1>15

(* The row of a bubble.                                                    *)
LEMMA BubbleRow ==
  LET d == csignals["BUBBLE"] IN
  /\ ~d.val /\ ~d.fencei /\ d.cf = "X" /\ d.csr = "N" /\ d.mem = "X" /\ d.wb = "X"
  /\ d.grp = "X" /\ d.op1 = "X" /\ d.op2 = "X" /\ d.cond = "X"
  BY DEF csignals, Op, Row, Plain

(* The fields of an instruction in flight.                                 *)
LEMMA Fields ==
  ASSUME NEW i \in Inflight
  PROVE  /\ i.op \in Op /\ i.ha \in Reg /\ i.hb \in Reg /\ i.hc \in Reg /\ i.hd \in Reg
         /\ i.imm \in Int
<1>1. CASE i \in Instruction
  BY <1>1 DEF Instruction
<1>2. CASE i = BUBBLE
  BY <1>2, Constants DEF BUBBLE, Inst, Op
<1> QED BY <1>1, <1>2 DEF Inflight

(* An instruction of a program is no bubble.                               *)
LEMMA NoBubble == \A i \in Instruction : i # BUBBLE /\ i.op # "BUBBLE" /\ i \in Inflight
  BY DEF Instruction, BUBBLE, Inst, Inflight

(* A bubble changes nothing.                                               *)
LEMMA BubbleIs ==
  /\ BUBBLE \in Inflight /\ BUBBLE.op = "BUBBLE"
  /\ Dest(BUBBLE) = None /\ Dest2(BUBBLE) = None
  /\ ~IsMem(BUBBLE) /\ ~IsFence(BUBBLE) /\ ~IsRas(BUBBLE) /\ ~IsLegal(BUBBLE)
<1>1. BUBBLE \in Inflight /\ BUBBLE.op = "BUBBLE"
  BY DEF Inflight, BUBBLE, Inst
<1> QED BY <1>1, BubbleRow DEF Dest, Dest2, IsMem, IsFence, IsRas, IsLegal

-----------------------------------------------------------------------------
(***************************************************************************)
(* The register files                                                      *)
(***************************************************************************)

(* Selectors and destinations name a register or nothing.                  *)
LEMMA NamesType ==
  ASSUME NEW i \in Inflight
  PROVE  /\ \A sel : Source(i, sel) \in RegName
         /\ Dest(i) \in RegName /\ Dest2(i) \in RegName /\ Stored(i) \in RegName
         /\ <<"D", i.ha>> \in RegName /\ <<"D", i.hb>> \in RegName
         /\ <<"B", i.ha>> \in RegName
<1>1. i.ha \in Reg /\ i.hb \in Reg /\ i.hc \in Reg /\ i.hd \in Reg
  BY Fields
<1>2. \A b \in Bank, r \in Reg : <<b, r>> \in RegName
  BY DEF RegName
<1>3. None \in RegName /\ "D" \in Bank /\ "B" \in Bank
  BY DEF RegName, Bank
<1>4. ASSUME NEW sel PROVE Source(i, sel) \in RegName
  BY <1>1, <1>2, <1>3 DEF Source
<1>5. Dest(i) \in RegName
  BY <1>1, <1>2, <1>3 DEF Dest
<1>6. Dest2(i) \in RegName /\ Stored(i) \in RegName
  BY <1>1, <1>2, <1>3 DEF Dest2, Stored
<1> QED BY <1>1, <1>2, <1>3, <1>4, <1>5, <1>6

(* A name is nothing, or a bank and a number.                              *)
LEMMA NameCases ==
  ASSUME NEW r \in RegName
  PROVE  \/ r = None /\ r[1] \notin Bank
         \/ r = <<r[1], r[2]>> /\ r[1] \in Bank /\ r[2] \in Reg
  BY DEF RegName, None, Bank

(* Reading gives a word, writing a register file.                          *)
LEMMA ReadType == \A f \in Files, r \in RegName : Read(f, r) \in Word
<1> SUFFICES ASSUME NEW f \in Files, NEW r \in RegName PROVE Read(f, r) \in Word
  OBVIOUS
<1> QED BY NameCases, Constants DEF Read, Files

LEMMA WriteType == \A f \in Files, r \in RegName, v \in Word : Write(f, r, v) \in Files
<1> SUFFICES ASSUME NEW f \in Files, NEW r \in RegName, NEW v \in Word PROVE Write(f, r, v) \in Files
  OBVIOUS
<1> QED BY NameCases DEF Write, Files

(* A write is not seen through another name.                               *)
LEMMA ReadWrite ==
  ASSUME NEW f \in Files, NEW r \in RegName, NEW q \in RegName, NEW v \in Word, r # q
  PROVE  Read(Write(f, q, v), r) = Read(f, r)
<1>1. CASE q[1] \notin Bank \/ q[2] = 0 \/ r[1] \notin Bank \/ r[2] = 0
  BY <1>1 DEF Read, Write
<1>2. CASE ~(q[1] \notin Bank \/ q[2] = 0 \/ r[1] \notin Bank \/ r[2] = 0)
  <2>1. r[1] \in Bank /\ q[1] \in Bank /\ r[2] \in Reg /\ q[2] \in Reg
    BY <1>2, NameCases
  <2>2. r[1] # q[1] \/ r[2] # q[2]
    BY <1>2, NameCases
  <2>3. [f EXCEPT ![q[1]][q[2]] = v][r[1]][r[2]] = f[r[1]][r[2]]
    BY <2>1, <2>2 DEF Files
  <2> QED BY <1>2, <2>3 DEF Read, Write
<1> QED BY <1>1, <1>2

-----------------------------------------------------------------------------
(***************************************************************************)
(* The execution units                                                     *)
(***************************************************************************)

(* Operands are words.                                                     *)
LEMMA OperandType ==
  ASSUME NEW f \in Files, NEW i \in Inflight, NEW sel
  PROVE  Operand(f, i, sel) \in Word
<1>1. i.imm % M \in Word
  BY Fields, Constants, ModType DEF Word
<1>2. Read(f, Source(i, sel)) \in Word
  BY ReadType, NamesType
<1> QED BY <1>1, <1>2 DEF Operand

(* So are results.                                                         *)
LEMMA AluType ==
  ASSUME NEW i, NEW a \in Word, NEW b \in Word, NEW yes
  PROVE  Alu(i, a, b, yes) \in Word /\ Alu2(i, a, b) \in Word
<1>1. (a + b) % M \in Word
  BY Constants, ModType DEF Word
<1>2. 0 \in Word /\ M - 1 \in Word
  BY Constants DEF Word
<1> QED BY <1>1, <1>2 DEF Alu, Alu2

(* The return-address file keeps its type.                                 *)
LEMMA RasType ==
  ASSUME NEW r \in RasState, NEW pc \in Pc
  PROVE  PushRas(r, pc) \in RasState /\ PopRas(r) \in RasState /\ TopRas(r) \in Pc
<1>1. r.top \in 0..(RasSize - 1) /\ r.a \in [1..(RasSize - 1) -> Pc]
  BY DEF RasState
<1>2. (r.top + 1) % RasSize \in 0..(RasSize - 1)
  <2>1. r.top + 1 \in Int
    BY <1>1, Constants
  <2> QED BY <2>1, Constants, ModType
<1>3. (r.top + RasSize - 1) % RasSize \in 0..(RasSize - 1)
  <2>1. r.top + RasSize - 1 \in Int
    BY <1>1, Constants
  <2> QED BY <2>1, Constants, ModType
<1>4. Plus(pc, 1) \in Pc
  BY PlusType, Constants
<1>5. PushRas(r, pc) \in RasState
  <2> DEFINE q == (r.top + 1) % RasSize
  <2>1. q \in 0..(RasSize - 1)
    BY <1>2
  <2> HIDE DEF q
  <2>2. (IF q = 0 THEN r.a ELSE [r.a EXCEPT ![q] = Plus(pc, 1)]) \in [1..(RasSize - 1) -> Pc]
    BY <1>1, <1>4
  <2>3. [top |-> q, a |-> IF q = 0 THEN r.a ELSE [r.a EXCEPT ![q] = Plus(pc, 1)]] \in RasState
    BY <2>1, <2>2 DEF RasState
  <2> QED BY <2>3 DEF PushRas, q
<1>6. PopRas(r) \in RasState
  BY <1>3 DEF PopRas, RasState
<1>7. TopRas(r) \in Pc
  BY <1>1, Constants DEF TopRas
<1> QED BY <1>5, <1>6, <1>7

-----------------------------------------------------------------------------
(***************************************************************************)
(* The sequential machine                                                  *)
(***************************************************************************)

(* The state it works on, and the values it computes.                      *)
LEMMA IsaTypes ==
  ASSUME NEW p \in [Pc -> Instruction], NEW s \in ArchState
  PROVE  /\ s.pc \in Pc /\ s.rf \in Files /\ s.ras \in RasState
         /\ s.dmem \in [Word -> Word] /\ s.csr \in Pc
         /\ p[s.pc] \in Instruction /\ p[s.pc] \in Inflight
         /\ Op1(p, s) \in Word /\ Op2(p, s) \in Word
         /\ Out(p, s) \in Word /\ Result(p, s) \in Word
         /\ Alu2(p[s.pc], Op1(p, s), Op2(p, s)) \in Word
<1>1. /\ s.pc \in Pc /\ s.rf \in Files /\ s.ras \in RasState
      /\ s.dmem \in [Word -> Word] /\ s.csr \in Pc
  BY DEF ArchState
<1>2. p[s.pc] \in Instruction /\ p[s.pc] \in Inflight
  BY <1>1, NoBubble
<1>3. Op1(p, s) \in Word /\ Op2(p, s) \in Word
  BY <1>1, <1>2, OperandType DEF Op1, Op2
<1>4. Out(p, s) \in Word /\ Alu2(p[s.pc], Op1(p, s), Op2(p, s)) \in Word
  BY <1>3, AluType DEF Out
<1>5. s.csr % M \in Word
  BY <1>1, Constants, ModType DEF Word
<1>6. Result(p, s) \in Word
  BY <1>1, <1>4, <1>5 DEF Result
<1> QED BY <1>1, <1>2, <1>3, <1>4, <1>6

(* An instruction that traps changes the pc and saves the old one.         *)
LEMMA IsaTraps ==
  ASSUME NEW p, NEW s \in ArchState, Traps(p[s.pc], Out(p, s)), NEW t, t = IsaStep(p, s)
  PROVE  /\ t \in ArchState /\ t.pc = Evec /\ t.csr = s.pc
         /\ t.rf = s.rf /\ t.ras = s.ras /\ t.dmem = s.dmem
<1>1. t = [s EXCEPT !.pc = Evec, !.csr = s.pc]
  BY DEF IsaStep, Out, Op1, Op2, Yes
<1>2. s.pc \in Pc /\ Evec \in Pc
  BY Constants DEF ArchState
<1> QED BY <1>1, <1>2 DEF ArchState

(* Where the sequential machine goes next.                                 *)
IsaPc(p, s) ==
  CASE csignals[p[s.pc].op].cf = "BR" /\ Yes(p, s) -> Plus(s.pc, p[s.pc].imm)
    [] csignals[p[s.pc].op].cf = "IIII" -> Plus(s.pc, p[s.pc].imm)
    [] csignals[p[s.pc].op].cf = "RRII" -> Plus(Out(p, s), p[s.pc].imm)
    [] csignals[p[s.pc].op].cf = "RET" -> TopRas(s.ras)
    [] p[s.pc].op = "ESCAPE" -> s.csr
    [] OTHER -> Plus(s.pc, 1)

(* Where a transfer of control goes.                                       *)
LEMMA IsaGoes ==
  ASSUME NEW p, NEW s, NEW f, f = csignals[p[s.pc].op].cf,
         p[s.pc].op # "ESCAPE"
  PROVE  /\ (f = "BR" /\ Yes(p, s)) \/ f = "IIII" => IsaPc(p, s) = Plus(s.pc, p[s.pc].imm)
         /\ f = "RRII" => IsaPc(p, s) = Plus(Out(p, s), p[s.pc].imm)
         /\ f = "RET" => IsaPc(p, s) = TopRas(s.ras)
  BY DEF IsaPc

(* Its return-address file.                                                *)
RasStep(i, pc, r) ==
  CASE csignals[i.op].grp = "PUSH" -> PushRas(r, pc)
    [] csignals[i.op].grp = "POP" -> PopRas(r)
    [] OTHER -> r

(* An instruction that does not trap, one component at a time.             *)
IsaRf(p, s) ==
  Write(Write(s.rf, Dest(p[s.pc]), Result(p, s)), Dest2(p[s.pc]),
        Alu2(p[s.pc], Op1(p, s), Op2(p, s)))

IsaMem(p, s) ==
  IF csignals[p[s.pc].op].mem = "XWR"
  THEN [s.dmem EXCEPT ![Out(p, s)] = Read(s.rf, Stored(p[s.pc]))] ELSE s.dmem

IsaCsr(p, s) == IF csignals[p[s.pc].op].csr = "W" THEN Out(p, s) ELSE s.csr

LEMMA IsaRuns ==
  ASSUME NEW p, NEW s, ~Traps(p[s.pc], Out(p, s))
  PROVE  IsaStep(p, s) = [pc |-> IsaPc(p, s), rf |-> IsaRf(p, s),
                          ras |-> RasStep(p[s.pc], s.pc, s.ras),
                          dmem |-> IsaMem(p, s), csr |-> IsaCsr(p, s)]
  BY DEF IsaStep, Out, Op1, Op2, Yes, Result, IsaPc, RasStep, IsaRf, IsaMem, IsaCsr

(* The sequential machine keeps its type.                                  *)
LEMMA IsaStepType ==
  ASSUME NEW p \in [Pc -> Instruction], NEW s \in ArchState
  PROVE  IsaStep(p, s) \in ArchState
<1>1. CASE Traps(p[s.pc], Out(p, s))
  BY <1>1, IsaTraps
<1>2. CASE ~Traps(p[s.pc], Out(p, s))
  <2> DEFINE t == IsaStep(p, s)
             i == p[s.pc]
  <2>0. /\ s.pc \in Pc /\ s.rf \in Files /\ s.ras \in RasState /\ i \in Inflight
        /\ s.dmem \in [Word -> Word] /\ s.csr \in Pc /\ i.imm \in Int
        /\ Out(p, s) \in Word /\ Result(p, s) \in Word
        /\ Alu2(i, Op1(p, s), Op2(p, s)) \in Word
    BY IsaTypes, Fields
  <2>1. Plus(s.pc, i.imm) \in Pc /\ Plus(s.pc, 1) \in Pc /\ Plus(Out(p, s), i.imm) \in Pc
    <3>1. s.pc \in Int /\ Out(p, s) \in Int /\ i.imm \in Int /\ 1 \in Int
      BY <2>0 DEF Pc, Word
    <3> QED BY <3>1, PlusType
  <2>2. TopRas(s.ras) \in Pc /\ PushRas(s.ras, s.pc) \in RasState /\ PopRas(s.ras) \in RasState
    BY <2>0, RasType
  <2>3. t = [pc |-> IsaPc(p, s), rf |-> IsaRf(p, s), ras |-> RasStep(i, s.pc, s.ras),
             dmem |-> IsaMem(p, s), csr |-> IsaCsr(p, s)]
    BY <1>2, IsaRuns
  <2>4. IsaPc(p, s) \in Pc
    BY <2>0, <2>1, <2>2 DEF IsaPc
  <2>5. IsaRf(p, s) \in Files
    <3>1. Dest(i) \in RegName /\ Dest2(i) \in RegName
      BY <2>0, NamesType
    <3> QED BY <2>0, <3>1, WriteType DEF IsaRf
  <2>6. RasStep(i, s.pc, s.ras) \in RasState
    BY <2>0, <2>2 DEF RasStep
  <2>7. IsaMem(p, s) \in [Word -> Word]
    <3>1. Read(s.rf, Stored(i)) \in Word
      BY <2>0, NamesType, ReadType
    <3> QED BY <2>0, <3>1 DEF IsaMem
  <2>8. IsaCsr(p, s) \in Pc
    BY <2>0, Constants DEF IsaCsr
  <2> HIDE DEF t, i
  <2>9. t \in ArchState
    BY <2>3, <2>4, <2>5, <2>6, <2>7, <2>8 DEF ArchState
  <2> QED BY <2>9 DEF t
<1> QED BY <1>1, <1>2

(* It changes no register but the destinations of the instruction.         *)
LEMMA IsaReads ==
  ASSUME NEW p \in [Pc -> Instruction], NEW s \in ArchState, NEW r \in RegName,
         \/ r[1] \notin Bank \/ r[2] = 0
         \/ r # Dest(p[s.pc]) /\ r # Dest2(p[s.pc])
  PROVE  Read(IsaStep(p, s).rf, r) = Read(s.rf, r)
<1>1. CASE r[1] \notin Bank \/ r[2] = 0
  BY <1>1 DEF Read
<1>2. CASE Traps(p[s.pc], Out(p, s))
  BY <1>2, IsaTraps
<1>3. CASE ~Traps(p[s.pc], Out(p, s)) /\ r # Dest(p[s.pc]) /\ r # Dest2(p[s.pc])
  <2> DEFINE i == p[s.pc]
             v == Result(p, s)
             v2 == Alu2(i, Op1(p, s), Op2(p, s))
  <2>1. s.rf \in Files /\ v \in Word /\ v2 \in Word /\ Dest(i) \in RegName /\ Dest2(i) \in RegName
    BY IsaTypes, NamesType
  <2>2. IsaStep(p, s).rf = Write(Write(s.rf, Dest(i), v), Dest2(i), v2)
    <3>1. IsaStep(p, s).rf = IsaRf(p, s)
      BY <1>3, IsaRuns
    <3> QED BY <3>1 DEF IsaRf
  <2>3. r # Dest(i) /\ r # Dest2(i)
    BY <1>3
  <2> HIDE DEF i, v, v2
  <2>4. Write(s.rf, Dest(i), v) \in Files
    BY <2>1, WriteType
  <2>5. Read(Write(Write(s.rf, Dest(i), v), Dest2(i), v2), r) = Read(Write(s.rf, Dest(i), v), r)
    BY <2>1, <2>3, <2>4, ReadWrite
  <2>6. Read(Write(s.rf, Dest(i), v), r) = Read(s.rf, r)
    BY <2>1, <2>3, ReadWrite
  <2> QED BY <2>2, <2>5, <2>6
<1> QED BY <1>1, <1>2, <1>3

-----------------------------------------------------------------------------
(***************************************************************************)
(* The inductive invariant                                                 *)
(***************************************************************************)

DestPair == [wb : RegName, wb2 : RegName]

Types ==
  /\ prog \in RegularPrograms
  /\ if_pc \in Pc /\ if_buf \in {<< >>} \cup {<<a>> : a \in Pc} /\ if_killed \in BOOLEAN
  /\ dec \in [valid : BOOLEAN, pc : Pc, inst : Inflight]
  /\ exe \in [valid : BOOLEAN, pc : Pc, inst : Inflight,
              op1 : Word, op2 : Word, c1 : Word, c2 : Word, st : Word]
  /\ ret_target \in Pc
  /\ mem \in [valid : BOOLEAN, pc : Pc, inst : Inflight, alu : Word, alu2 : Word, st : Word]
  /\ wb \in [valid : BOOLEAN, inst : Inflight, data : Word, data2 : Word]
  /\ track \in [exe : DestPair, mem : DestPair, wb : DestPair]
  /\ ctl \in [is_csr : BOOLEAN, illegal : BOOLEAN, illegal1 : BOOLEAN, fencei1 : BOOLEAN]
  /\ rf \in Files /\ ras \in RasState /\ dmem \in [Word -> Word] /\ csr \in Pc
  /\ dwait \in 0..MaxMiss
  /\ arch \in ArchState

(* A stage holds an instruction of the program or a bubble.                *)
Holds(s) == s.inst = IF s.valid THEN prog[s.pc] ELSE BUBBLE

FromProgram ==
  /\ Holds(dec) /\ Holds(exe) /\ Holds(mem)
  /\ wb.inst = BUBBLE \/ \E a \in Pc : wb.inst = prog[a]

(* The control path knows every destination in flight; it may still know   *)
(* one that a kill has removed.                                            *)
Shadows(i, t) == Dest(i) \in {None, t.wb} /\ Dest2(i) \in {None, t.wb2}

TrackInv ==
  Shadows(exe.inst, track.exe) /\ Shadows(mem.inst, track.mem) /\ Shadows(wb.inst, track.wb)

(* The exception registers belong to the instructions in EXE and MEM.      *)
IllegalInv ==
  /\ ctl.illegal = (exe.valid /\ ~IsLegal(exe.inst))
  /\ ctl.illegal1 = (mem.valid /\ ~IsLegal(mem.inst))

(* Neighbours in the pipeline are neighbours in the program, unless the    *)
(* elder transfers control: then the younger is dropped.                   *)
Sequential(i) == csignals[i.op].cf = "X"

NeighbourInv ==
  /\ mem.valid /\ Sequential(mem.inst) /\ exe.valid => exe.pc = Plus(mem.pc, 1)
  /\ exe.valid /\ dec.valid => dec.pc = Plus(exe.pc, 1)
  /\ mem.valid /\ Sequential(mem.inst) /\ ~exe.valid /\ dec.valid => dec.pc = Plus(mem.pc, 1)

(* A FENCE is never held.                                                  *)
FenceInv ==
  /\ ctl.fencei1 => ~dec.valid /\ ~mem_val
  /\ fencei => if_buf = << >> /\ ~ctl.is_csr
  /\ if_killed => ~dec.valid /\ if_buf # << >>

(* MEM holds what the sequential machine executes next, with its result.   *)
MemInv ==
  mem.valid =>
    /\ mem.pc = arch.pc
    /\ mem.alu = Out(prog, arch)
    /\ mem.alu2 = Alu2(mem.inst, Op1(prog, arch), Op2(prog, arch))
    /\ csignals[mem.inst.op].mem = "XWR" => mem.st = Read(arch.rf, Stored(mem.inst))

(* The sequential machine after the instruction in MEM.                    *)
Later == IF mem.valid THEN IsaStep(prog, arch) ELSE arch

(* EXE holds the instruction after that, with its operands.                *)
ExeInv ==
  exe.valid /\ ~pipeline_kill =>
    /\ exe.pc = Later.pc
    /\ exe.op1 = Op1(prog, Later) /\ exe.op2 = Op2(prog, Later)
    /\ cond_yes = Yes(prog, Later)
    /\ csignals[exe.inst.op].mem = "XWR" => exe.st = Read(Later.rf, Stored(exe.inst))
    /\ csignals[exe.inst.op].cf = "RET" => ret_target = TopRas(Later.ras)

(* DEC, and behind it the fetch, follow EXE if nothing redirects them.     *)
AfterExe == IF exe.valid THEN Plus(exe.pc, 1) ELSE Later.pc
AfterDec == IF dec.valid THEN Plus(dec.pc, 1) ELSE AfterExe

PathInv ==
  /\ ~pipeline_kill /\ ~exe_redirects =>
       /\ dec.valid => dec.pc = AfterExe
       /\ (IF if_killed THEN if_pc ELSE FetchedPc) = AfterDec
       /\ if_buf # << >> /\ ~if_killed => if_pc = Plus(FetchedPc, 1)

(* The return-address file is ahead of the sequential machine by the       *)
(* instructions in EXE and MEM.                                            *)
RasAfter(s, r) == IF s.valid THEN RasStep(s.inst, s.pc, r) ELSE r

RasInv == ras = RasAfter(exe, RasAfter(mem, arch.ras))

IInv ==
  /\ Types /\ FromProgram /\ TrackInv /\ IllegalInv /\ NeighbourInv /\ FenceInv
  /\ MemInv /\ ExeInv /\ PathInv /\ RasInv /\ StateMatchesIsa

-----------------------------------------------------------------------------
(***************************************************************************)
(* What the invariant says of the instructions in flight                   *)
(***************************************************************************)

(* Every stage holds a decodable instruction.                              *)
LEMMA Stages ==
  ASSUME IInv
  PROVE  /\ prog \in [Pc -> Instruction] /\ arch \in ArchState
         /\ dec.inst \in Inflight /\ exe.inst \in Inflight
         /\ mem.inst \in Inflight /\ wb.inst \in Inflight
         /\ dec.pc \in Pc /\ exe.pc \in Pc /\ mem.pc \in Pc
         /\ {dec.valid, exe.valid, mem.valid} \subseteq BOOLEAN
         /\ dec.inst = IF dec.valid THEN prog[dec.pc] ELSE BUBBLE
         /\ exe.inst = IF exe.valid THEN prog[exe.pc] ELSE BUBBLE
         /\ mem.inst = IF mem.valid THEN prog[mem.pc] ELSE BUBBLE
  BY DEF IInv, Types, RegularPrograms, FromProgram, Holds

(* The state after the instruction in MEM.                                 *)
LEMMA LaterType == IInv => Later \in ArchState
  BY Stages, IsaStepType DEF Later

(* Only a valid instruction waits, traps or returns from a trap.           *)
LEMMA MemValid ==
  ASSUME IInv
  PROVE  /\ mem_val => mem.valid
         /\ full_stall => mem_val
         /\ pipeline_kill => mem.valid
         /\ mem_val => ~csr_eret /\ ~ctl.illegal1
         /\ csr_eret => ~mem_exception
<1>1. mem.inst \in Inflight /\ mem.inst.op \in Op /\ (~mem.valid => mem.inst = BUBBLE)
  BY Stages, Fields
<1>2. mem.valid \in BOOLEAN /\ (mem.valid \/ ~mem.valid)
  BY Stages
<1>3. mem_val => mem.valid
  BY <1>1, BubbleIs DEF mem_val, IsMem
<1>4. csr_eret => mem.valid
  BY <1>1, BubbleIs DEF csr_eret
<1>5. ctl.illegal1 => mem.valid /\ ~IsLegal(mem.inst)
  BY DEF IInv, IllegalInv
<1>6. mem_val => ~csr_eret /\ IsLegal(mem.inst)
  BY <1>1, Table DEF mem_val, csr_eret, IsLegal
<1>7. csr_eret => IsLegal(mem.inst) /\ ~mem_val
  BY <1>1, Table DEF mem_val, csr_eret, IsLegal
<1> QED BY <1>3, <1>4, <1>5, <1>6, <1>7
        DEF full_stall, pipeline_kill, mem_exception, mem_data_misaligned

(* The sequential machine traps exactly when the core does.                *)
LEMMA MemTraps ==
  ASSUME IInv, mem.valid
  PROVE  Traps(prog[arch.pc], Out(prog, arch)) <=> mem_exception \/ mem.inst.op = "TRAP"
<1>1. mem.inst = prog[arch.pc] /\ mem.alu = Out(prog, arch)
  BY Stages DEF IInv, MemInv
<1>2. ctl.illegal1 <=> ~csignals[mem.inst.op].val
  BY DEF IInv, IllegalInv, IsLegal
<1> QED BY <1>1, <1>2 DEF Traps, mem_exception, mem_data_misaligned, mem_val

(* What may follow an instruction in MEM.                                  *)
LEMMA MemFollowed ==
  ASSUME IInv, mem.valid, Sequential(mem.inst)
  PROVE  /\ exe.valid => MayFollow(mem.inst, exe.inst)
         /\ dec.valid /\ ~exe.valid => MayFollow(mem.inst, dec.inst)
         /\ exe.valid /\ dec.valid /\ IsMem(mem.inst) => ~IsFence(dec.inst)
<1>1. \A a \in Pc : /\ MayFollow(prog[a], prog[Plus(a, 1)])
                    /\ IsMem(prog[a]) => ~IsFence(prog[Plus(Plus(a, 1), 1)])
  BY DEF IInv, Types, RegularPrograms, Regular
<1>2. mem.pc \in Pc /\ mem.inst = prog[mem.pc]
  BY Stages
<1>3. exe.valid => exe.inst = prog[Plus(mem.pc, 1)]
  BY Stages DEF IInv, NeighbourInv
<1>4. dec.valid /\ ~exe.valid => dec.inst = prog[Plus(mem.pc, 1)]
  BY Stages DEF IInv, NeighbourInv
<1>5. dec.valid /\ exe.valid => dec.inst = prog[Plus(Plus(mem.pc, 1), 1)]
  BY Stages DEF IInv, NeighbourInv
<1> QED BY <1>1, <1>2, <1>3, <1>4, <1>5

(* What may follow an instruction in EXE.                                  *)
LEMMA ExeFollowed ==
  ASSUME IInv, exe.valid, dec.valid
  PROVE  MayFollow(exe.inst, dec.inst)
<1>1. \A a \in Pc : MayFollow(prog[a], prog[Plus(a, 1)])
  BY DEF IInv, Types, RegularPrograms, Regular
<1> QED BY <1>1, Stages DEF IInv, NeighbourInv

(* While a memory access is in MEM, no FENCE, CALL, RET or illegal         *)
(* instruction is behind it.                                               *)
LEMMA BehindAccess ==
  ASSUME IInv, mem_val
  PROVE  /\ exe.valid => IsLegal(exe.inst) /\ ~IsRas(exe.inst) /\ ~IsFence(exe.inst)
         /\ ~IsFence(dec.inst) /\ ~fencei
<1>1. mem.valid /\ IsMem(mem.inst) /\ mem.inst.op \in Op
  BY MemValid, Stages, Fields DEF mem_val, IsMem
<1>2. Sequential(mem.inst)
  BY <1>1, Table DEF Sequential, IsMem
<1>3. exe.valid => IsLegal(exe.inst) /\ ~IsRas(exe.inst) /\ ~IsFence(exe.inst)
  BY <1>1, <1>2, MemFollowed DEF MayFollow
<1>4. ~IsFence(dec.inst)
  <2>1. CASE dec.valid /\ exe.valid
    BY <1>1, <1>2, <2>1, MemFollowed
  <2>2. CASE dec.valid /\ ~exe.valid
    BY <1>1, <1>2, <2>2, MemFollowed DEF MayFollow
  <2>3. CASE ~dec.valid
    BY <2>3, Stages, BubbleIs
  <2> QED BY <2>1, <2>2, <2>3
<1>5. ~ctl.fencei1
  BY DEF IInv, FenceInv
<1> QED BY <1>3, <1>4, <1>5 DEF fencei, IsFence

(* When the instruction in MEM stops the pipeline, the one behind it has   *)
(* left no trace.                                                          *)
LEMMA BehindKill ==
  ASSUME IInv, pipeline_kill, exe.valid
  PROVE  ~IsRas(exe.inst) /\ (mem_exception => IsLegal(exe.inst))
<1>1. mem.valid /\ mem.inst.op \in Op
  BY MemValid, Stages, Fields
<1>2. CASE mem_val
  BY <1>2, BehindAccess
<1>3. CASE ~mem_val
  <2>1. csr_eret \/ ~IsLegal(mem.inst)
    BY <1>3 DEF pipeline_kill, mem_exception, mem_data_misaligned, IInv, IllegalInv
  <2>2. Sequential(mem.inst) /\ (csr_eret => csignals[mem.inst.op].csr = "I")
    BY <1>1, <2>1, Table DEF Sequential, IsLegal, csr_eret
  <2>3. MayFollow(mem.inst, exe.inst)
    BY <1>1, <2>2, MemFollowed
  <2>4. mem_exception => ~IsLegal(mem.inst)
    BY <1>3 DEF mem_exception, mem_data_misaligned, IInv, IllegalInv
  <2> QED BY <2>1, <2>2, <2>3, <2>4 DEF MayFollow
<1> QED BY <1>2, <1>3

(* A FENCE, and the cycle after it, never meet a stall.                    *)
LEMMA FenceMoves ==
  ASSUME IInv, fencei
  PROVE  ~stall /\ ~full_stall
<1>1. ~full_stall
  BY MemValid, BehindAccess
<1>2. ~ctl.is_csr
  BY DEF IInv, FenceInv
<1>3. dec.inst.op \in Op /\ dec.inst \in Inflight
  BY Stages, Fields
<1>4. LET d == csignals[dec.inst.op] IN
      d.op1 = "X" /\ d.op2 = "X" /\ d.cond = "X" /\ d.mem = "X"
  <2>1. CASE IsFence(dec.inst)
    BY <1>3, <2>1, Table DEF IsFence
  <2>2. CASE ctl.fencei1
    <3>1. dec.inst = BUBBLE
      BY <2>2, Stages DEF IInv, FenceInv
    <3> QED BY <3>1, BubbleIs, BubbleRow
  <2> QED BY <2>1, <2>2 DEF fencei, IsFence
<1>5. /\ Source(dec.inst, csignals[dec.inst.op].op1) = None
      /\ Source(dec.inst, csignals[dec.inst.op].op2) = None
      /\ Cond1(dec.inst) = None /\ Cond2(dec.inst) = None /\ Stored(dec.inst) = None
  BY <1>4 DEF Source, Cond1, Cond2, Stored
<1> QED BY <1>1, <1>2, <1>5 DEF stall, Conflicts

-----------------------------------------------------------------------------
(***************************************************************************)
(* One clock cycle, stage by stage: the pipeline is killed, held by an     *)
(* access in MEM, stalled in DEC, or moves                                 *)
(***************************************************************************)

Moves == ~stall /\ ~full_stall
Redirects == pipeline_kill \/ exe_redirects
FetchKilled == Redirects \/ fencei

(* The control signals, by name.                                           *)
LEMMA SignalsAre ==
  /\ Signals.stall <=> stall
  /\ Signals.full_stall <=> full_stall
  /\ Signals.dec_moves <=> Moves
  /\ Signals.pipeline_kill <=> pipeline_kill
  /\ Signals.dec_kill <=> Redirects
  /\ Signals.if_kill <=> FetchKilled
  BY DEF Signals, Moves, Redirects, FetchKilled

Emptied == [dec EXCEPT !.valid = FALSE, !.inst = BUBBLE]
ExeBubble == [exe EXCEPT !.valid = FALSE, !.inst = BUBBLE]
Latched ==
  LET i == dec.inst
      d == csignals[i.op]
  IN  [valid |-> dec.valid, pc |-> dec.pc, inst |-> i,
       op1 |-> Operand(rf, i, d.op1), op2 |-> Operand(rf, i, d.op2),
       c1 |-> Read(rf, <<"D", i.ha>>), c2 |-> Read(rf, <<"D", i.hb>>),
       st |-> Read(rf, <<IF d.grp = "RB" THEN "B" ELSE "D", i.ha>>)]
MemNext ==
  [valid |-> exe.valid, pc |-> exe.pc, inst |-> exe.inst, alu |-> exe_alu_out,
   alu2 |-> Alu2(exe.inst, exe.op1, exe.op2), st |-> exe.st]

(* The next content of DEC.                                                *)
LEMMA DecNext ==
  ASSUME Cycle
  PROVE  /\ pipeline_kill => dec' = Emptied
         /\ ~pipeline_kill /\ Moves /\ (FetchKilled \/ if_killed) =>
              dec' = [Emptied EXCEPT !.pc = FetchedPc]
         /\ ~pipeline_kill /\ Moves /\ ~(FetchKilled \/ if_killed) =>
              dec' = [valid |-> TRUE, pc |-> FetchedPc, inst |-> prog[FetchedPc]]
         /\ ~pipeline_kill /\ ~Moves =>
              dec' = IF FetchKilled \/ if_killed THEN Emptied ELSE dec
<1>1. Decode(Signals)
  BY DEF Cycle
<1> QED BY <1>1, SignalsAre DEF Decode, Emptied

(* The next content of EXE.                                                *)
LEMMA ExeNext ==
  ASSUME Cycle
  PROVE  /\ pipeline_kill \/ (stall /\ ~full_stall) => exe' = ExeBubble
         /\ ~pipeline_kill /\ Moves /\ Redirects =>
              exe' = [Latched EXCEPT !.valid = FALSE, !.inst = BUBBLE]
         /\ ~pipeline_kill /\ Moves /\ ~Redirects => exe' = Latched
         /\ ~pipeline_kill /\ full_stall => exe' = exe
<1>1. Execute(Signals)
  BY DEF Cycle
<1> QED BY <1>1, SignalsAre DEF Execute, Latched, ExeBubble, Moves

(* The return-address file moves with an instruction that leaves DEC.      *)
LEMMA RasNext ==
  ASSUME Cycle
  PROVE  /\ Moves /\ ~Redirects => ras' = RasStep(dec.inst, dec.pc, ras)
         /\ ~(Moves /\ ~Redirects) => ras' = ras
         /\ ret_target' = TopRas(ras)
<1>1. ReturnAddressFile(Signals)
  BY DEF Cycle
<1> QED BY <1>1, SignalsAre DEF ReturnAddressFile, RasStep

(* The next content of MEM, and the data memory.                           *)
LEMMA MemNextIs ==
  ASSUME Cycle
  PROVE  /\ pipeline_kill => mem' = [mem EXCEPT !.valid = FALSE, !.inst = BUBBLE]
         /\ ~pipeline_kill /\ ~full_stall => mem' = MemNext
         /\ ~pipeline_kill /\ full_stall => mem' = mem
         /\ dmem' = IF dmem_resp /\ csignals[mem.inst.op].mem = "XWR"
                    THEN [dmem EXCEPT ![mem.alu] = mem.st] ELSE dmem
<1>1. Memory(Signals)
  BY DEF Cycle
<1> QED BY <1>1, SignalsAre DEF Memory, MemNext

(* The next content of WB.                                                 *)
LEMMA WbNext ==
  ASSUME Cycle
  PROVE  /\ full_stall => wb'.inst = BUBBLE
         /\ ~full_stall => wb'.inst = mem.inst
         /\ wb'.data = CASE csignals[mem.inst.op].mem = "XRD" -> dmem[mem.alu]
                         [] csignals[mem.inst.op].csr = "R" -> csr % M
                         [] OTHER -> mem.alu
         /\ wb'.data2 = mem.alu2
<1>1. WriteBack(Signals)
  BY DEF Cycle
<1> QED BY <1>1, SignalsAre DEF WriteBack

(* The destinations the control path keeps.                                *)
LEMMA TrackNext ==
  ASSUME Cycle
  PROVE  LET new == IF Moves /\ ~Redirects
                    THEN [wb |-> Dest(dec.inst), wb2 |-> Dest2(dec.inst)] ELSE NoDest
         IN  track' = IF full_stall THEN track
                      ELSE [exe |-> new, mem |-> track.exe, wb |-> track.mem]
<1>1. Control(Signals)
  BY DEF Cycle
<1> QED BY <1>1, SignalsAre DEF Control

(* Its flags.                                                              *)
LEMMA FlagsNext ==
  ASSUME IInv, Cycle
  PROVE  /\ ctl' \in [is_csr : BOOLEAN, illegal : BOOLEAN, illegal1 : BOOLEAN, fencei1 : BOOLEAN]
         /\ ctl'.is_csr <=> IF full_stall THEN ctl.is_csr
                            ELSE Moves /\ ~Redirects /\ csignals[dec.inst.op].csr \in {"R", "W"}
         /\ ctl'.illegal <=> ~csr_eret /\ IF full_stall THEN ctl.illegal
                                          ELSE Moves /\ ~Redirects /\ ~IsLegal(dec.inst) /\ dec.valid
         /\ ctl'.illegal1 <=> ctl.illegal /\ ~csr_eret
         /\ ctl'.fencei1 <=> IsFence(dec.inst)
<1> DEFINE f1 == IF full_stall THEN ctl.is_csr
                 ELSE Moves /\ ~Redirects /\ csignals[dec.inst.op].csr \in {"R", "W"}
           f2 == ~csr_eret /\ IF full_stall THEN ctl.illegal
                              ELSE Moves /\ ~Redirects /\ ~IsLegal(dec.inst) /\ dec.valid
           f3 == ctl.illegal /\ ~csr_eret
           f4 == IsFence(dec.inst)
<1>1. ctl \in [is_csr : BOOLEAN, illegal : BOOLEAN, illegal1 : BOOLEAN, fencei1 : BOOLEAN]
  BY DEF IInv, Types
<1>2. f4 \in BOOLEAN /\ csignals[dec.inst.op].val \in BOOLEAN
  BY Stages, Fields, Table DEF IsFence
<1>3. f1 \in BOOLEAN
  BY <1>1
<1>4. f2 \in BOOLEAN /\ f3 \in BOOLEAN
  OBVIOUS
<1>5. ctl' = [is_csr |-> f1, illegal |-> f2, illegal1 |-> f3, fencei1 |-> f4]
  <2>1. Control(Signals)
    BY DEF Cycle
  <2> QED BY <2>1, SignalsAre DEF Control, IsFence, IsLegal
<1> HIDE DEF f1, f2, f3, f4
<1>6. ctl' \in [is_csr : BOOLEAN, illegal : BOOLEAN, illegal1 : BOOLEAN, fencei1 : BOOLEAN]
  BY <1>2, <1>3, <1>4, <1>5
<1>7. ctl'.is_csr = f1 /\ ctl'.illegal = f2 /\ ctl'.illegal1 = f3 /\ ctl'.fencei1 = f4
  BY <1>5
<1> QED BY <1>6, <1>7 DEF f1, f2, f3, f4

(* The fetch: where it goes and what waits in front of DEC.                *)
LEMMA FetchNext ==
  ASSUME Cycle, if_buf \in {<< >>} \cup {<<a>> : a \in Pc}
  PROVE  /\ Moves => if_buf' = << >> /\ if_killed' = FALSE
         /\ ~Moves => if_buf' = <<FetchedPc>> /\ (if_killed' <=> if_killed \/ FetchKilled)
         /\ (if_buf = << >> /\ ~if_killed) \/ FetchKilled => if_pc' = if_pc_next(Signals)
         /\ ~((if_buf = << >> /\ ~if_killed) \/ FetchKilled) => if_pc' = if_pc
<1>1. Fetch(Signals)
  BY DEF Cycle
<1>2. if_buf # << >> => if_buf = <<if_buf[1]>>
  OBVIOUS
<1> QED BY <1>1, <1>2, SignalsAre DEF Fetch, FetchedPc

LEMMA FetchTarget ==
  /\ pipeline_kill => if_pc_next(Signals) = exception_target
  /\ ~pipeline_kill /\ exe_redirects =>
       if_pc_next(Signals) =
         CASE csignals[exe.inst.op].cf = "RRII" -> Plus(exe_alu_out, exe.inst.imm)
           [] csignals[exe.inst.op].cf = "RET" -> ret_target
           [] OTHER -> Plus(exe.pc, exe.inst.imm)
  /\ ~Redirects /\ fencei /\ Moves => if_pc_next(Signals) = if_pc
  /\ ~Redirects /\ ~fencei => if_pc_next(Signals) = Plus(if_pc, 1)
  BY SignalsAre DEF if_pc_next, Redirects

-----------------------------------------------------------------------------
(***************************************************************************)
(* Types                                                                   *)
(***************************************************************************)

(* The records the stages hold.                                            *)
LEMMA StageTypes ==
  ASSUME IInv
  PROVE  /\ {exe.op1, exe.op2, exe.c1, exe.c2, exe.st, mem.alu, mem.alu2, mem.st} \subseteq Word
         /\ wb.data \in Word /\ wb.data2 \in Word
         /\ FetchedPc \in Pc /\ if_pc \in Pc /\ exe_alu_out \in Word
<1>1. /\ {exe.op1, exe.op2, exe.c1, exe.c2, exe.st, mem.alu, mem.alu2, mem.st} \subseteq Word
      /\ wb.data \in Word /\ wb.data2 \in Word /\ if_pc \in Pc
  BY DEF IInv, Types
<1>2. FetchedPc \in Pc
  <2>1. if_buf = << >> \/ \E a \in Pc : if_buf = <<a>>
    BY DEF IInv, Types
  <2> QED BY <1>1, <2>1 DEF FetchedPc
<1>3. exe_alu_out \in Word
  BY <1>1, AluType DEF exe_alu_out
<1> QED BY <1>1, <1>2, <1>3

(* DEC keeps its type.                                                     *)
LEMMA DecType ==
  ASSUME IInv, Cycle
  PROVE  dec' \in [valid : BOOLEAN, pc : Pc, inst : Inflight]
<1> DEFINE T == [valid : BOOLEAN, pc : Pc, inst : Inflight]
<1>1. dec \in T /\ BUBBLE \in Inflight /\ FetchedPc \in Pc
  BY StageTypes, BubbleIs DEF IInv, Types
<1>2. Emptied \in T /\ [Emptied EXCEPT !.pc = FetchedPc] \in T
  BY <1>1 DEF Emptied
<1>3. prog[FetchedPc] \in Inflight
  BY <1>1, Stages, NoBubble
<1>4. [valid |-> TRUE, pc |-> FetchedPc, inst |-> prog[FetchedPc]] \in T
  BY <1>1, <1>3
<1> HIDE DEF T
<1>5. dec' \in T
  BY <1>1, <1>2, <1>4, DecNext
<1> QED BY <1>5 DEF T

(* EXE keeps its type.                                                     *)
LEMMA ExeType ==
  ASSUME IInv, Cycle
  PROVE  exe' \in [valid : BOOLEAN, pc : Pc, inst : Inflight,
                   op1 : Word, op2 : Word, c1 : Word, c2 : Word, st : Word]
<1> DEFINE T == [valid : BOOLEAN, pc : Pc, inst : Inflight,
                 op1 : Word, op2 : Word, c1 : Word, c2 : Word, st : Word]
<1>1. /\ exe \in T /\ BUBBLE \in Inflight /\ dec.inst \in Inflight /\ dec.pc \in Pc
      /\ dec.valid \in BOOLEAN /\ rf \in Files
  BY BubbleIs, Stages DEF IInv, Types
<1>2. ExeBubble \in T
  BY <1>1 DEF ExeBubble
<1>3. /\ <<"D", dec.inst.ha>> \in RegName /\ <<"D", dec.inst.hb>> \in RegName
      /\ <<"B", dec.inst.ha>> \in RegName
  BY <1>1, NamesType
<1>4. /\ Read(rf, <<"D", dec.inst.ha>>) \in Word /\ Read(rf, <<"D", dec.inst.hb>>) \in Word
      /\ Read(rf, <<"B", dec.inst.ha>>) \in Word
  BY <1>1, <1>3, ReadType
<1>5. \A sel : Operand(rf, dec.inst, sel) \in Word
  BY <1>1, OperandType
<1>6. Latched \in T
  BY <1>1, <1>4, <1>5 DEF Latched
<1>7. [Latched EXCEPT !.valid = FALSE, !.inst = BUBBLE] \in T
  BY <1>1, <1>6
<1> HIDE DEF T
<1>8. exe' \in T
  BY <1>1, <1>2, <1>6, <1>7, ExeNext DEF Moves
<1> QED BY <1>8 DEF T

(* MEM and WB keep their types.                                            *)
LEMMA MemType ==
  ASSUME IInv, Cycle
  PROVE  mem' \in [valid : BOOLEAN, pc : Pc, inst : Inflight,
                   alu : Word, alu2 : Word, st : Word]
<1> DEFINE T == [valid : BOOLEAN, pc : Pc, inst : Inflight, alu : Word, alu2 : Word, st : Word]
<1>1. /\ mem \in T /\ BUBBLE \in Inflight /\ exe.inst \in Inflight /\ exe.pc \in Pc
      /\ exe.valid \in BOOLEAN /\ exe.st \in Word /\ exe.op1 \in Word /\ exe.op2 \in Word
      /\ exe_alu_out \in Word
  BY BubbleIs, Stages, StageTypes DEF IInv, Types
<1>2. [mem EXCEPT !.valid = FALSE, !.inst = BUBBLE] \in T
  BY <1>1
<1>3. Alu2(exe.inst, exe.op1, exe.op2) \in Word
  BY <1>1, AluType
<1>4. MemNext \in T
  BY <1>1, <1>3 DEF MemNext
<1> HIDE DEF T
<1>5. mem' \in T
  BY <1>1, <1>2, <1>4, MemNextIs
<1> QED BY <1>5 DEF T

LEMMA WbType ==
  ASSUME IInv, Cycle
  PROVE  wb' \in [valid : BOOLEAN, inst : Inflight, data : Word, data2 : Word]
<1>1. WriteBack(Signals)
  BY DEF Cycle
<1>2. /\ mem.inst \in Inflight /\ BUBBLE \in Inflight /\ mem.valid \in BOOLEAN
      /\ mem.alu \in Word /\ mem.alu2 \in Word
  BY BubbleIs, Stages, StageTypes
<1>3. dmem[mem.alu] \in Word /\ csr % M \in Word
  BY <1>2, Constants, ModType DEF IInv, Types, Word
<1> QED BY <1>1, <1>2, <1>3 DEF WriteBack

(* So does the control path.                                               *)
LEMMA TrackType ==
  ASSUME IInv, Cycle
  PROVE  track' \in [exe : DestPair, mem : DestPair, wb : DestPair]
<1>1. Dest(dec.inst) \in RegName /\ Dest2(dec.inst) \in RegName /\ None \in RegName
  BY Stages, NamesType DEF RegName
<1>2. NoDest \in DestPair /\ [wb |-> Dest(dec.inst), wb2 |-> Dest2(dec.inst)] \in DestPair
  BY <1>1 DEF NoDest, DestPair
<1>3. track \in [exe : DestPair, mem : DestPair, wb : DestPair]
  BY DEF IInv, Types
<1> QED BY <1>2, <1>3, TrackNext

(* The fetch address stays one.                                            *)
LEMMA FetchType ==
  ASSUME IInv, Cycle
  PROVE  /\ if_pc' \in Pc /\ if_buf' \in {<< >>} \cup {<<a>> : a \in Pc}
         /\ if_killed' \in BOOLEAN
<1>1. /\ if_pc \in Pc /\ if_buf \in {<< >>} \cup {<<a>> : a \in Pc} /\ if_killed \in BOOLEAN
      /\ FetchedPc \in Pc /\ csr \in Pc /\ ret_target \in Pc
  BY StageTypes DEF IInv, Types
<1>2. exception_target \in Pc
  BY <1>1, Constants DEF exception_target
<1>3. Plus(exe_alu_out, exe.inst.imm) \in Pc /\ Plus(exe.pc, exe.inst.imm) \in Pc
  <2>1. exe_alu_out \in Int /\ exe.inst.imm \in Int /\ exe.pc \in Int
    BY Stages, StageTypes, Fields DEF Word, Pc
  <2> QED BY <2>1, PlusType
<1>4. Plus(if_pc, 1) \in Pc
  <2>1. if_pc \in Int /\ 1 \in Int
    BY <1>1 DEF Pc
  <2> QED BY <2>1, PlusType
<1>5. if_pc_next(Signals) \in Pc
  BY <1>1, <1>2, <1>3, <1>4 DEF if_pc_next
<1>6. if_pc' \in Pc
  BY <1>1, <1>5, FetchNext
<1>7. if_buf' \in {<< >>} \cup {<<a>> : a \in Pc}
  BY <1>1, FetchNext
<1>8. if_killed' \in BOOLEAN
  <2>1. Fetch(Signals)
    BY DEF Cycle
  <2> QED BY <2>1, <1>1 DEF Fetch
<1> QED BY <1>6, <1>7, <1>8

(* All registers of the core and of the sequential machine.                *)
LEMMA TypesNext ==
  ASSUME IInv, Cycle
  PROVE  Types'
<1>1. /\ prog \in RegularPrograms /\ rf \in Files /\ ras \in RasState /\ csr \in Pc
      /\ dmem \in [Word -> Word] /\ dwait \in 0..MaxMiss /\ arch \in ArchState
  BY DEF IInv, Types
<1>2. prog' \in RegularPrograms
  BY <1>1 DEF Cycle
<1>3. rf' \in Files
  <2>1. Dest(wb.inst) \in RegName /\ Dest2(wb.inst) \in RegName /\ wb.data \in Word /\ wb.data2 \in Word
    BY Stages, StageTypes, NamesType
  <2>2. Write(rf, Dest(wb.inst), wb.data) \in Files
    BY <1>1, <2>1, WriteType
  <2> QED BY <2>1, <2>2, WriteType DEF Cycle, Written
<1>4. ras' \in RasState /\ ret_target' \in Pc
  <2>1. dec.pc \in Pc
    BY Stages
  <2>2. PushRas(ras, dec.pc) \in RasState /\ PopRas(ras) \in RasState /\ TopRas(ras) \in Pc
    BY <1>1, <2>1, RasType
  <2> QED BY <1>1, <2>2, RasNext DEF RasStep
<1>5. dmem' \in [Word -> Word]
  BY <1>1, StageTypes, MemNextIs
<1>6. csr' \in Pc
  <2>1. CsrFile
    BY DEF Cycle
  <2>2. mem.pc \in Pc /\ mem.alu \in Pc
    BY Stages, StageTypes, Constants
  <2> QED BY <1>1, <2>1, <2>2 DEF CsrFile
<1>7. dwait' \in 0..MaxMiss
  <2>1. Memory(Signals)
    BY DEF Cycle
  <2>2. MaxMiss \in Nat
    BY Constants
  <2>3. dwait' \in {IF dwait > 0 THEN dwait - 1 ELSE 0} \cup {0} \cup (0..MaxMiss)
    BY <2>1 DEF Memory
  <2> QED BY <1>1, <2>2, <2>3
<1>8. arch' \in ArchState
  <2>1. IsaStep(prog, arch) \in ArchState
    BY Stages, IsaStepType
  <2> QED BY <1>1, <2>1 DEF Cycle
<1> QED BY <1>2, <1>3, <1>4, <1>5, <1>6, <1>7, <1>8,
           DecType, ExeType, MemType, WbType, TrackType, FlagsNext, FetchType DEF Types

-----------------------------------------------------------------------------
(***************************************************************************)
(* Retiring: the state of the core is that of the sequential machine       *)
(***************************************************************************)

(* The sequential machine moves when the instruction in MEM leaves it.     *)
LEMMA ArchNext ==
  ASSUME IInv, Cycle
  PROVE  /\ pipeline_kill \/ ~full_stall => arch' = Later
         /\ ~pipeline_kill /\ full_stall => arch' = arch
<1>1. arch' = IF Retires \/ Excepts THEN IsaStep(prog, arch) ELSE arch
  BY DEF Cycle
<1>2. pipeline_kill => mem.valid /\ (Retires \/ Excepts)
  BY MemValid DEF Retires, Excepts, pipeline_kill
<1>3. ~pipeline_kill => (Retires \/ Excepts <=> mem.valid /\ ~full_stall)
  BY DEF Retires, Excepts, pipeline_kill
<1> QED BY <1>1, <1>2, <1>3 DEF Later

(* An instruction that traps writes no register and no memory.             *)
LEMMA TrapWrites ==
  ASSUME IInv, mem.valid, mem_exception \/ mem.inst.op = "TRAP"
  PROVE  /\ full_stall \/ (Dest(mem.inst) = None /\ Dest2(mem.inst) = None)
         /\ ~(dmem_resp /\ csignals[mem.inst.op].mem = "XWR")
<1>1. mem.inst.op \in Op
  BY Stages, Fields
<1>2. CASE mem_data_misaligned
  BY <1>2 DEF full_stall, dmem_resp, mem_data_misaligned
<1>3. CASE ctl.illegal1 \/ mem.inst.op = "TRAP"
  <2>1. csignals[mem.inst.op].wb = "X" /\ csignals[mem.inst.op].mem = "X"
    <3>1. ~csignals[mem.inst.op].val \/ csignals[mem.inst.op].csr = "I"
      BY <1>1, <1>3, Table DEF IInv, IllegalInv, IsLegal
    <3> QED BY <1>1, <3>1, Table
  <2> QED BY <2>1 DEF Dest, Dest2
<1> QED BY <1>2, <1>3 DEF mem_exception

(* What WB writes next cycle.                                              *)
LEMMA WrittenNext ==
  ASSUME IInv, Cycle
  PROVE  Written' = arch'.rf
<1>1. rf' = arch.rf
  BY DEF Cycle, IInv, StateMatchesIsa
<1>2. Written' = Write(Write(rf', Dest(wb'.inst), wb'.data), Dest2(wb'.inst), wb'.data2)
  BY DEF Written
<1>3. None[1] \notin Bank
  BY DEF None, Bank
<1>4. ASSUME Dest(wb'.inst) = None, Dest2(wb'.inst) = None PROVE Written' = rf'
  BY <1>2, <1>3, <1>4 DEF Write
<1>5. arch \in ArchState
  BY Stages
<1>6. CASE full_stall
  <2>1. Written' = rf'
    BY <1>4, <1>6, WbNext, BubbleIs
  <2>2. arch'.rf = arch.rf
    <3>1. CASE ~pipeline_kill
      BY <1>6, <3>1, ArchNext
    <3>2. CASE pipeline_kill
      <4>1. mem.valid /\ mem_exception
        BY <1>6, <3>2, MemValid DEF pipeline_kill
      <4>2. Traps(prog[arch.pc], Out(prog, arch))
        BY <4>1, MemTraps
      <4>3. arch' = IsaStep(prog, arch)
        BY <3>2, <4>1, ArchNext DEF Later
      <4> QED BY <1>5, <4>2, <4>3, IsaTraps
    <3> QED BY <3>1, <3>2
  <2> QED BY <1>1, <2>1, <2>2
<1>7. CASE ~full_stall /\ ~mem.valid
  <2>1. Written' = rf'
    BY <1>4, <1>7, WbNext, BubbleIs, Stages
  <2>2. arch' = arch
    BY <1>7, ArchNext DEF Later
  <2> QED BY <1>1, <2>1, <2>2
<1>8. CASE ~full_stall /\ mem.valid
  <2>1. arch' = IsaStep(prog, arch) /\ wb'.inst = mem.inst
    BY <1>8, ArchNext, WbNext DEF Later
  <2>2. CASE Traps(prog[arch.pc], Out(prog, arch))
    <3>1. Dest(mem.inst) = None /\ Dest2(mem.inst) = None
      BY <1>8, <2>2, MemTraps, TrapWrites
    <3>2. Written' = rf'
      BY <1>4, <2>1, <3>1
    <3>3. arch'.rf = arch.rf
      BY <1>5, <2>1, <2>2, IsaTraps
    <3> QED BY <1>1, <3>2, <3>3
  <2>3. CASE ~Traps(prog[arch.pc], Out(prog, arch))
    <3>1. /\ mem.inst = prog[arch.pc] /\ mem.alu = Out(prog, arch)
          /\ mem.alu2 = Alu2(prog[arch.pc], Op1(prog, arch), Op2(prog, arch))
      BY <1>8, Stages DEF IInv, MemInv
    <3>2. wb'.data = Result(prog, arch)
      BY <3>1, WbNext DEF Result, IInv, StateMatchesIsa
    <3>3. wb'.data2 = mem.alu2
      BY WbNext
    <3>4. arch'.rf = IsaRf(prog, arch)
      BY <2>1, <2>3, IsaRuns
    <3> QED BY <1>1, <1>2, <2>1, <3>1, <3>2, <3>3, <3>4 DEF IsaRf
  <2> QED BY <2>2, <2>3
<1> QED BY <1>6, <1>7, <1>8

(* The data memory and the CSR.                                            *)
LEMMA DmemNext ==
  ASSUME IInv, Cycle
  PROVE  dmem' = arch'.dmem /\ csr' = arch'.csr
<1>0. arch \in ArchState /\ dmem = arch.dmem /\ csr = arch.csr /\ mem.inst.op \in Op
  BY Stages, Fields DEF IInv, StateMatchesIsa
<1>1. CsrFile
  BY DEF Cycle
<1>2. CASE ~mem.valid
  <2>1. arch' = arch
    BY <1>2, MemValid, ArchNext DEF Later
  <2>2. mem.inst.op = "BUBBLE" /\ ~mem_val /\ ~mem_exception
    BY <1>2, Stages, BubbleIs, MemValid DEF pipeline_kill
  <2>3. dmem' = dmem
    BY <2>2, MemNextIs DEF dmem_resp
  <2>4. csr' = csr
    BY <1>1, <2>2 DEF CsrFile
  <2> QED BY <1>0, <2>1, <2>3, <2>4
<1>3. CASE mem.valid /\ ~pipeline_kill /\ full_stall
  <2>1. arch' = arch
    BY <1>3, ArchNext
  <2>2. ~dmem_resp /\ mem_val /\ ~mem_exception
    BY <1>3 DEF full_stall, pipeline_kill
  <2>3. mem.inst.op # "TRAP" /\ mem.inst.op # "CPWR"
    BY <1>0, <2>2, Table DEF mem_val
  <2>4. dmem' = dmem
    BY <2>2, MemNextIs
  <2>5. csr' = csr
    BY <1>1, <2>2, <2>3 DEF CsrFile
  <2> QED BY <1>0, <2>1, <2>4, <2>5
<1>4. CASE mem.valid /\ (pipeline_kill \/ ~full_stall)
  <2>1. /\ arch' = IsaStep(prog, arch) /\ mem.pc = arch.pc /\ mem.inst = prog[arch.pc]
        /\ mem.alu = Out(prog, arch)
    BY <1>4, ArchNext, Stages DEF Later, IInv, MemInv
  <2>2. CASE Traps(prog[arch.pc], Out(prog, arch))
    <3>1. mem_exception \/ mem.inst.op = "TRAP"
      BY <1>4, <2>2, MemTraps
    <3>2. dmem' = dmem
      BY <1>4, <3>1, TrapWrites, MemNextIs
    <3>3. csr' = mem.pc
      BY <1>1, <3>1 DEF CsrFile
    <3>4. arch'.dmem = arch.dmem /\ arch'.csr = arch.pc
      BY <1>0, <2>1, <2>2, IsaTraps
    <3> QED BY <1>0, <2>1, <3>2, <3>3, <3>4
  <2>3. CASE ~Traps(prog[arch.pc], Out(prog, arch))
    <3>1. ~mem_exception /\ mem.inst.op # "TRAP"
      BY <1>4, <2>3, MemTraps
    <3>2. mem_val => dmem_resp
      BY <1>4, <3>1, MemValid DEF full_stall, pipeline_kill
    <3>3. csignals[mem.inst.op].mem = "XWR" => mem_val
      BY DEF mem_val
    <3>4. dmem' = IsaMem(prog, arch)
      <4>1. csignals[mem.inst.op].mem = "XWR" => mem.st = Read(arch.rf, Stored(mem.inst))
        BY <1>4 DEF IInv, MemInv
      <4> QED BY <1>0, <2>1, <3>2, <3>3, <4>1, MemNextIs DEF IsaMem
    <3>5. csr' = IsaCsr(prog, arch)
      <4>1. csignals[mem.inst.op].csr = "W" <=> mem.inst.op = "CPWR"
        BY <1>0, Table
      <4> QED BY <1>0, <1>1, <2>1, <3>1, <4>1 DEF CsrFile, IsaCsr
    <3>6. arch'.dmem = IsaMem(prog, arch) /\ arch'.csr = IsaCsr(prog, arch)
      BY <2>1, <2>3, IsaRuns
    <3> QED BY <3>4, <3>5, <3>6
  <2> QED BY <2>2, <2>3
<1> QED BY <1>2, <1>3, <1>4

-----------------------------------------------------------------------------
(***************************************************************************)
(* The control invariants                                                  *)
(***************************************************************************)

(* What enters DEC, EXE and MEM, field by field.                           *)
LEMMA DecIs ==
  ASSUME IInv, Cycle
  PROVE  /\ pipeline_kill \/ FetchKilled \/ if_killed => dec'.valid = FALSE /\ dec'.inst = BUBBLE
         /\ ~FetchKilled /\ ~if_killed /\ Moves =>
              dec'.valid = TRUE /\ dec'.pc = FetchedPc /\ dec'.inst = prog[FetchedPc]
         /\ ~FetchKilled /\ ~if_killed /\ ~Moves => dec' = dec
<1>1. dec \in [valid : BOOLEAN, pc : Pc, inst : Inflight]
  BY DEF IInv, Types
<1>2. Emptied.valid = FALSE /\ Emptied.inst = BUBBLE
  BY <1>1 DEF Emptied
<1>3. /\ [Emptied EXCEPT !.pc = FetchedPc].valid = FALSE
      /\ [Emptied EXCEPT !.pc = FetchedPc].inst = BUBBLE
  BY <1>1 DEF Emptied
<1>4. pipeline_kill => FetchKilled
  BY DEF FetchKilled, Redirects
<1>5. pipeline_kill \/ FetchKilled \/ if_killed =>
        dec' = Emptied \/ dec' = [Emptied EXCEPT !.pc = FetchedPc]
  BY DecNext
<1>6. ~FetchKilled /\ ~if_killed /\ Moves =>
        dec' = [valid |-> TRUE, pc |-> FetchedPc, inst |-> prog[FetchedPc]]
  BY <1>4, DecNext
<1>7. ~FetchKilled /\ ~if_killed /\ ~Moves => dec' = dec
  BY <1>4, DecNext
<1>8. pipeline_kill \/ FetchKilled \/ if_killed => dec'.valid = FALSE /\ dec'.inst = BUBBLE
  BY <1>2, <1>3, <1>5
<1> QED BY <1>6, <1>7, <1>8

LEMMA ExeIs ==
  ASSUME IInv, Cycle
  PROVE  /\ pipeline_kill \/ (~full_stall /\ (stall \/ Redirects)) =>
              exe'.valid = FALSE /\ exe'.inst = BUBBLE
         /\ Moves /\ ~Redirects =>
              /\ exe' = Latched /\ exe'.valid = dec.valid /\ exe'.pc = dec.pc
              /\ exe'.inst = dec.inst
         /\ ~pipeline_kill /\ full_stall => exe' = exe
<1>1. exe \in [valid : BOOLEAN, pc : Pc, inst : Inflight,
               op1 : Word, op2 : Word, c1 : Word, c2 : Word, st : Word]
  BY DEF IInv, Types
<1>2. ExeBubble.valid = FALSE /\ ExeBubble.inst = BUBBLE
  BY <1>1 DEF ExeBubble
<1>3. /\ [Latched EXCEPT !.valid = FALSE, !.inst = BUBBLE].valid = FALSE
      /\ [Latched EXCEPT !.valid = FALSE, !.inst = BUBBLE].inst = BUBBLE
      /\ Latched.valid = dec.valid /\ Latched.pc = dec.pc /\ Latched.inst = dec.inst
  BY DEF Latched
<1>4. pipeline_kill => Redirects
  BY DEF Redirects
<1>5. pipeline_kill \/ (~full_stall /\ (stall \/ Redirects)) =>
        exe' = ExeBubble \/ exe' = [Latched EXCEPT !.valid = FALSE, !.inst = BUBBLE]
  BY ExeNext DEF Moves
<1>6. Moves /\ ~Redirects => exe' = Latched
  BY <1>4, ExeNext
<1>7. ~pipeline_kill /\ full_stall => exe' = exe
  BY ExeNext
<1>8. pipeline_kill \/ (~full_stall /\ (stall \/ Redirects)) => exe'.valid = FALSE /\ exe'.inst = BUBBLE
  BY <1>2, <1>3, <1>5
<1> QED BY <1>3, <1>6, <1>7, <1>8

LEMMA MemIs ==
  ASSUME IInv, Cycle
  PROVE  /\ pipeline_kill => mem'.valid = FALSE /\ mem'.inst = BUBBLE
         /\ ~pipeline_kill /\ ~full_stall =>
              /\ mem'.valid = exe.valid /\ mem'.pc = exe.pc /\ mem'.inst = exe.inst
              /\ mem'.alu = exe_alu_out /\ mem'.alu2 = Alu2(exe.inst, exe.op1, exe.op2)
              /\ mem'.st = exe.st
         /\ ~pipeline_kill /\ full_stall => mem' = mem
<1>1. mem \in [valid : BOOLEAN, pc : Pc, inst : Inflight, alu : Word, alu2 : Word, st : Word]
  BY DEF IInv, Types
<1>2. /\ [mem EXCEPT !.valid = FALSE, !.inst = BUBBLE].valid = FALSE
      /\ [mem EXCEPT !.valid = FALSE, !.inst = BUBBLE].inst = BUBBLE
  BY <1>1
<1>3. /\ MemNext.valid = exe.valid /\ MemNext.pc = exe.pc /\ MemNext.inst = exe.inst
      /\ MemNext.alu = exe_alu_out /\ MemNext.alu2 = Alu2(exe.inst, exe.op1, exe.op2)
      /\ MemNext.st = exe.st
  BY DEF MemNext
<1> QED BY <1>2, <1>3, MemNextIs

(* The four ways a cycle can go.                                           *)
LEMMA CycleCases ==
  \/ pipeline_kill
  \/ ~pipeline_kill /\ full_stall
  \/ ~pipeline_kill /\ ~full_stall /\ (stall \/ Redirects)
  \/ Moves /\ ~Redirects
  BY DEF Moves, Redirects

(* The stages hold instructions of the program.                            *)
LEMMA FromProgramNext ==
  ASSUME IInv, Cycle
  PROVE  FromProgram'
<1>1. prog' = prog /\ Holds(dec) /\ Holds(exe) /\ Holds(mem) /\ mem.pc \in Pc
  BY Stages DEF Cycle, IInv, FromProgram
<1>2. Holds(dec)'
  BY <1>1, DecIs DEF Holds
<1>3. Holds(exe)'
  BY <1>1, ExeIs, CycleCases DEF Holds
<1>4. Holds(mem)'
  BY <1>1, MemIs DEF Holds
<1>5. wb'.inst = BUBBLE \/ \E a \in Pc : wb'.inst = prog'[a]
  BY <1>1, WbNext DEF Holds
<1> QED BY <1>2, <1>3, <1>4, <1>5 DEF FromProgram

(* The shadows of the destinations.                                        *)
LEMMA TrackNextInv ==
  ASSUME IInv, Cycle
  PROVE  TrackInv'
<1>0. Shadows(exe.inst, track.exe) /\ Shadows(mem.inst, track.mem) /\ Shadows(wb.inst, track.wb)
  BY DEF IInv, TrackInv
<1>1. \A t : Shadows(BUBBLE, t)
  BY BubbleIs DEF Shadows
<1>2. CASE full_stall
  <2>1. track' = track /\ wb'.inst = BUBBLE
    BY <1>2, TrackNext, WbNext
  <2>2. exe'.inst \in {exe.inst, BUBBLE} /\ mem'.inst \in {mem.inst, BUBBLE}
    BY <1>2, ExeIs, MemIs
  <2> QED BY <1>0, <1>1, <2>1, <2>2 DEF TrackInv
<1>3. CASE ~full_stall
  <2>1. /\ track'.mem = track.exe /\ track'.wb = track.mem
        /\ Moves /\ ~Redirects => track'.exe = [wb |-> Dest(dec.inst), wb2 |-> Dest2(dec.inst)]
    BY <1>3, TrackNext
  <2>2. wb'.inst = mem.inst /\ mem'.inst \in {exe.inst, BUBBLE}
    BY <1>3, WbNext, MemIs
  <2>3. Shadows(exe'.inst, track'.exe)
    <3>1. CASE Moves /\ ~Redirects
      BY <2>1, <3>1, ExeIs DEF Shadows
    <3>2. CASE ~(Moves /\ ~Redirects)
      BY <1>1, <1>3, <3>2, ExeIs DEF Moves
    <3> QED BY <3>1, <3>2
  <2> QED BY <1>0, <1>1, <2>1, <2>2, <2>3 DEF TrackInv
<1> QED BY <1>2, <1>3

(* The exception registers.                                                *)
LEMMA IllegalNext ==
  ASSUME IInv, Cycle
  PROVE  IllegalInv'
<1>0. /\ ctl \in [is_csr : BOOLEAN, illegal : BOOLEAN, illegal1 : BOOLEAN, fencei1 : BOOLEAN]
      /\ ctl' \in [is_csr : BOOLEAN, illegal : BOOLEAN, illegal1 : BOOLEAN, fencei1 : BOOLEAN]
      /\ ctl.illegal <=> exe.valid /\ ~IsLegal(exe.inst)
      /\ ctl.illegal1 <=> mem.valid /\ ~IsLegal(mem.inst)
  BY FlagsNext DEF IInv, Types, IllegalInv
<1>1. /\ ctl'.illegal <=> ~csr_eret /\ IF full_stall THEN ctl.illegal
                                       ELSE Moves /\ ~Redirects /\ ~IsLegal(dec.inst) /\ dec.valid
      /\ ctl'.illegal1 <=> ctl.illegal /\ ~csr_eret
  BY FlagsNext
<1>2. CASE pipeline_kill
  <2>1. exe'.valid = FALSE /\ mem'.valid = FALSE
    BY <1>2, ExeIs, MemIs
  <2>2. csr_eret \/ ~ctl.illegal
    BY <1>0, <1>2, BehindKill DEF pipeline_kill
  <2>3. ~ctl'.illegal /\ ~ctl'.illegal1
    BY <1>1, <1>2, <2>2 DEF Redirects
  <2> QED BY <1>0, <2>1, <2>3 DEF IllegalInv
<1>3. CASE ~pipeline_kill /\ full_stall
  <2>1. exe' = exe /\ mem' = mem
    BY <1>3, ExeIs, MemIs
  <2>2. ~ctl.illegal /\ ~ctl.illegal1 /\ ~csr_eret
    BY <1>0, <1>3, MemValid, BehindAccess DEF pipeline_kill
  <2>3. ~ctl'.illegal /\ ~ctl'.illegal1
    BY <1>1, <1>3, <2>2
  <2> QED BY <1>0, <2>1, <2>2, <2>3 DEF IllegalInv, IsLegal
<1>4. CASE ~pipeline_kill /\ ~full_stall
  <2>1. mem'.valid = exe.valid /\ mem'.inst = exe.inst /\ ~csr_eret
    BY <1>4, MemIs DEF pipeline_kill
  <2>2. ctl'.illegal1 <=> mem'.valid /\ ~IsLegal(mem'.inst)
    BY <1>0, <1>1, <2>1
  <2>3. ctl'.illegal <=> exe'.valid /\ ~IsLegal(exe'.inst)
    <3>1. CASE Moves /\ ~Redirects
      BY <1>1, <1>4, <2>1, <3>1, ExeIs
    <3>2. CASE ~(Moves /\ ~Redirects)
      BY <1>1, <1>4, <3>2, ExeIs DEF Moves
    <3> QED BY <3>1, <3>2
  <2> QED BY <1>0, <2>2, <2>3 DEF IllegalInv, IsLegal
<1> QED BY <1>2, <1>3, <1>4

(* The fetched instruction follows the ones in front of it.                *)
LEMMA FetchFollows ==
  ASSUME IInv, ~Redirects, ~if_killed
  PROVE  FetchedPc = AfterDec
  BY DEF IInv, PathInv, Redirects

(* Neighbours stay neighbours.                                             *)
LEMMA NeighbourNext ==
  ASSUME IInv, Cycle
  PROVE  NeighbourInv'
<1>0. /\ mem.valid /\ Sequential(mem.inst) /\ exe.valid => exe.pc = Plus(mem.pc, 1)
      /\ exe.valid /\ dec.valid => dec.pc = Plus(exe.pc, 1)
      /\ mem.valid /\ Sequential(mem.inst) /\ ~exe.valid /\ dec.valid => dec.pc = Plus(mem.pc, 1)
  BY DEF IInv, NeighbourInv
<1>1. ~Moves => dec'.valid = FALSE \/ dec' = dec
  BY DecIs
<1>2. CASE pipeline_kill
  <2>1. mem'.valid = FALSE /\ exe'.valid = FALSE
    BY <1>2, MemIs, ExeIs
  <2> QED BY <2>1 DEF NeighbourInv
<1>3. CASE ~pipeline_kill /\ full_stall
  <2>1. mem' = mem /\ exe' = exe /\ (dec'.valid = FALSE \/ dec' = dec)
    BY <1>1, <1>3, MemIs, ExeIs DEF Moves
  <2> QED BY <1>0, <2>1 DEF NeighbourInv
<1>4. CASE ~pipeline_kill /\ ~full_stall /\ (stall \/ Redirects)
  <2>1. mem'.valid = exe.valid /\ mem'.pc = exe.pc /\ exe'.valid = FALSE
    BY <1>4, MemIs, ExeIs
  <2>2. dec'.valid = FALSE \/ dec' = dec
    BY <1>1, <1>4, DecIs DEF FetchKilled, Moves
  <2> QED BY <1>0, <2>1, <2>2 DEF NeighbourInv
<1>5. CASE Moves /\ ~Redirects
  <2>1. /\ mem'.valid = exe.valid /\ mem'.pc = exe.pc
        /\ exe'.valid = dec.valid /\ exe'.pc = dec.pc
    BY <1>5, MemIs, ExeIs DEF Moves, Redirects
  <2>2. dec'.valid = FALSE \/ dec'.pc = AfterDec
    BY <1>5, DecIs, FetchFollows
  <2> QED BY <1>0, <2>1, <2>2 DEF NeighbourInv, AfterDec, AfterExe
<1> QED BY <1>2, <1>3, <1>4, <1>5, CycleCases

(* A FENCE in DEC has nothing waiting behind it, and no access or CSR      *)
(* instruction in front of it.                                             *)
LEMMA FenceNext ==
  ASSUME IInv, Cycle
  PROVE  FenceInv'
<1>0. /\ ctl.fencei1 => ~dec.valid /\ ~mem_val
      /\ fencei => if_buf = << >> /\ ~ctl.is_csr
      /\ if_killed => ~dec.valid /\ if_buf # << >>
      /\ if_buf \in {<< >>} \cup {<<a>> : a \in Pc}
      /\ dec'.valid \in BOOLEAN
  BY DecType DEF IInv, FenceInv, Types
<1>1. IsFence(dec.inst) => dec.valid /\ fencei /\ Moves
  BY FenceMoves, Stages, BubbleIs DEF fencei, IsFence, Moves
<1>2. ctl'.fencei1 <=> IsFence(dec.inst)
  BY FlagsNext
<1>3. ctl'.fencei1 => ~dec'.valid /\ ~mem_val'
  <2> SUFFICES ASSUME IsFence(dec.inst) PROVE ~dec'.valid /\ ~mem_val'
    BY <1>2
  <2>1. dec'.valid = FALSE
    BY <1>1, DecIs DEF FetchKilled
  <2>2. mem'.inst = BUBBLE \/ (mem'.inst = exe.inst /\ (exe.valid \/ exe.inst = BUBBLE))
    BY <1>1, MemIs, Stages DEF Moves
  <2>3. exe.valid => ~IsMem(exe.inst)
    BY <1>1, ExeFollowed DEF MayFollow
  <2>4. ~IsMem(mem'.inst)
    BY <2>2, <2>3, BubbleIs
  <2> QED BY <2>1, <2>4 DEF mem_val, IsMem
<1>4. if_killed' => ~dec'.valid /\ if_buf' # << >>
  <2> SUFFICES ASSUME if_killed' PROVE ~dec'.valid /\ if_buf' # << >>
    OBVIOUS
  <2>1. ~Moves /\ (if_killed \/ FetchKilled) /\ if_buf' = <<FetchedPc>>
    BY <1>0, FetchNext
  <2> QED BY <2>1, DecIs
<1>5. fencei' => if_buf' = << >>
  <2>1. fencei' => Moves
    <3>1. ctl'.fencei1 => Moves
      BY <1>1, <1>2
    <3>2. IsFence(dec'.inst) => Moves
      <4>1. ~Moves => dec' = dec \/ dec'.inst = BUBBLE
        BY DecIs
      <4> QED BY <1>1, <4>1, BubbleIs
    <3> QED BY <3>1, <3>2 DEF fencei, IsFence
  <2> QED BY <1>0, <2>1, FetchNext
<1>6. fencei' => ~ctl'.is_csr
  <2> SUFFICES ASSUME fencei', ctl'.is_csr PROVE FALSE
    OBVIOUS
  <2>0. IsFence(dec'.inst) \/ IsFence(dec.inst)
    BY <1>2 DEF fencei, IsFence
  <2>1. Moves
    <3>1. ~Moves => dec' = dec \/ dec'.inst = BUBBLE
      BY DecIs
    <3> QED BY <1>1, <2>0, <3>1, BubbleIs
  <2>2. Moves /\ ~Redirects /\ csignals[dec.inst.op].csr \in {"R", "W"}
    BY <2>1, FlagsNext DEF Moves
  <2>3. ~IsFence(dec.inst) /\ dec.valid
    <3>1. dec.inst.op \in Op /\ (dec.valid \/ dec.inst = BUBBLE)
      BY Stages, Fields
    <3> QED BY <2>2, <3>1, Table, BubbleIs, BubbleRow DEF IsFence
  <2>4. IsFence(dec'.inst) /\ dec'.inst = prog[FetchedPc] /\ FetchedPc = Plus(dec.pc, 1)
    <3>1. ~FetchKilled /\ ~if_killed
      BY <2>0, <2>3, DecIs, BubbleIs
    <3> QED BY <2>0, <2>2, <2>3, <3>1, DecIs, FetchFollows DEF AfterDec
  <2>5. MayFollow(dec.inst, prog[Plus(dec.pc, 1)])
    <3>1. \A a \in Pc : MayFollow(prog[a], prog[Plus(a, 1)])
      BY DEF IInv, Types, RegularPrograms, Regular
    <3> QED BY <2>3, <3>1, Stages
  <2> QED BY <2>2, <2>4, <2>5 DEF MayFollow
<1> QED BY <1>3, <1>4, <1>5, <1>6 DEF FenceInv

-----------------------------------------------------------------------------
(***************************************************************************)
(* MEM, EXE and the return-address file                                    *)
(***************************************************************************)

(* What EXE computes is what the sequential machine will.                  *)
LEMMA ExeComputes ==
  ASSUME IInv, exe.valid, ~pipeline_kill
  PROVE  /\ exe.pc = Later.pc /\ exe.inst = prog[Later.pc]
         /\ cond_yes = Yes(prog, Later)
         /\ exe_alu_out = Out(prog, Later)
         /\ Alu2(exe.inst, exe.op1, exe.op2) = Alu2(exe.inst, Op1(prog, Later), Op2(prog, Later))
         /\ csignals[exe.inst.op].mem = "XWR" => exe.st = Read(Later.rf, Stored(exe.inst))
<1>1. exe.inst = prog[exe.pc]
  BY Stages
<1>2. /\ exe.pc = Later.pc /\ exe.op1 = Op1(prog, Later) /\ exe.op2 = Op2(prog, Later)
      /\ cond_yes = Yes(prog, Later)
      /\ csignals[exe.inst.op].mem = "XWR" => exe.st = Read(Later.rf, Stored(exe.inst))
  BY DEF IInv, ExeInv
<1> QED BY <1>1, <1>2 DEF exe_alu_out, Out

(* The sequential machine after MEM, one cycle later.                      *)
LEMMA LaterNext ==
  ASSUME IInv, Cycle
  PROVE  /\ pipeline_kill \/ full_stall => Later' = Later
         /\ ~pipeline_kill /\ ~full_stall =>
              Later' = IF exe.valid THEN IsaStep(prog, Later) ELSE Later
<1>0. prog' = prog
  BY DEF Cycle
<1>1. CASE pipeline_kill
  BY <1>1, MemIs, ArchNext DEF Later
<1>2. CASE ~pipeline_kill /\ full_stall
  BY <1>0, <1>2, MemIs, ArchNext DEF Later
<1>3. CASE ~pipeline_kill /\ ~full_stall
  <2>1. mem'.valid = exe.valid /\ arch' = Later
    BY <1>3, MemIs, ArchNext
  <2>2. Later' = IF mem'.valid THEN IsaStep(prog', arch') ELSE arch'
    BY DEF Later
  <2> QED BY <1>0, <1>3, <2>1, <2>2
<1> QED BY <1>1, <1>2, <1>3

(* MEM receives the next instruction of the sequential machine.            *)
LEMMA MemInvNext ==
  ASSUME IInv, Cycle
  PROVE  MemInv'
<1>0. prog' = prog
  BY DEF Cycle
<1>1. CASE pipeline_kill
  BY <1>1, MemIs DEF MemInv
<1>2. CASE ~pipeline_kill /\ full_stall
  <2>1. mem' = mem /\ arch' = arch
    BY <1>2, MemIs, ArchNext
  <2> QED BY <1>0, <2>1 DEF IInv, MemInv
<1>3. CASE ~pipeline_kill /\ ~full_stall
  <2>1. /\ mem'.valid = exe.valid /\ mem'.pc = exe.pc /\ mem'.inst = exe.inst
        /\ mem'.alu = exe_alu_out /\ mem'.alu2 = Alu2(exe.inst, exe.op1, exe.op2)
        /\ mem'.st = exe.st /\ arch' = Later
    BY <1>3, MemIs, ArchNext
  <2>2. MemInv' = (mem'.valid =>
          /\ mem'.pc = arch'.pc
          /\ mem'.alu = Out(prog', arch')
          /\ mem'.alu2 = Alu2(mem'.inst, Op1(prog', arch'), Op2(prog', arch'))
          /\ csignals[mem'.inst.op].mem = "XWR" => mem'.st = Read(arch'.rf, Stored(mem'.inst)))
    BY DEF MemInv
  <2> QED BY <1>0, <1>3, <2>1, <2>2, ExeComputes
<1> QED BY <1>1, <1>2, <1>3

(* The return-address file after MEM is the one of the sequential machine. *)
LEMMA LaterRas ==
  ASSUME IInv
  PROVE  /\ RasAfter(mem, arch.ras) = Later.ras
         /\ exe.valid /\ ~pipeline_kill => RasAfter(exe, Later.ras) = IsaStep(prog, Later).ras
<1>1. ASSUME NEW s \in ArchState PROVE IsaStep(prog, s).ras = RasStep(prog[s.pc], s.pc, s.ras)
  <2>1. CASE Traps(prog[s.pc], Out(prog, s))
    <3>1. IsaStep(prog, s).ras = s.ras
      BY <2>1, IsaTraps
    <3>2. prog[s.pc].op \in Op
      BY Stages, IsaTypes, Fields
    <3>3. csignals[prog[s.pc].op].grp \notin {"PUSH", "POP"}
      BY <2>1, <3>2, Table DEF Traps
    <3> QED BY <3>1, <3>3 DEF RasStep
  <2>2. CASE ~Traps(prog[s.pc], Out(prog, s))
    BY <2>2, IsaRuns
  <2> QED BY <2>1, <2>2
<1>2. mem.valid => mem.pc = arch.pc /\ mem.inst = prog[arch.pc]
  BY Stages DEF IInv, MemInv
<1>3. RasAfter(mem, arch.ras) = Later.ras
  BY <1>1, <1>2, Stages DEF RasAfter, Later
<1>4. exe.valid /\ ~pipeline_kill => RasAfter(exe, Later.ras) = IsaStep(prog, Later).ras
  BY <1>1, LaterType, ExeComputes DEF RasAfter
<1> QED BY <1>3, <1>4

(* The return-address file stays ahead by the instructions in flight.      *)
LEMMA RasInvNext ==
  ASSUME IInv, Cycle
  PROVE  RasInv'
<1>0. ras = RasAfter(exe, RasAfter(mem, arch.ras))
  BY DEF IInv, RasInv
<1>1. ASSUME NEW s, NEW r, s.valid = FALSE \/ ~IsRas(s.inst) PROVE RasAfter(s, r) = r
  BY <1>1 DEF RasAfter, RasStep, IsRas
<1>2. CASE pipeline_kill
  <2>1. ras' = ras /\ mem'.valid = FALSE /\ exe'.valid = FALSE /\ arch' = Later
    BY <1>2, RasNext, MemIs, ExeIs, ArchNext DEF Redirects
  <2>2. ras = Later.ras
    <3>1. exe.valid = FALSE \/ ~IsRas(exe.inst)
      BY <1>2, BehindKill, Stages
    <3> QED BY <1>0, <1>1, <3>1, LaterRas
  <2> QED BY <1>1, <2>1, <2>2 DEF RasInv
<1>3. CASE ~pipeline_kill /\ full_stall
  <2>1. ras' = ras /\ mem' = mem /\ exe' = exe /\ arch' = arch
    BY <1>3, RasNext, MemIs, ExeIs, ArchNext DEF Moves
  <2> QED BY <1>0, <2>1 DEF RasInv
<1>4. CASE ~pipeline_kill /\ ~full_stall
  <2>1. /\ arch' = Later /\ mem'.valid = exe.valid /\ mem'.pc = exe.pc /\ mem'.inst = exe.inst
    BY <1>4, MemIs, ArchNext
  <2>2. RasAfter(mem', arch'.ras) = ras
    BY <1>0, <2>1, LaterRas DEF RasAfter
  <2>3. RasInv' = (ras' = RasAfter(exe', RasAfter(mem', arch'.ras)))
    BY DEF RasInv
  <2>4. CASE stall \/ Redirects
    <3>1. ras' = ras /\ exe'.valid = FALSE
      BY <1>4, <2>4, RasNext, ExeIs DEF Moves
    <3> QED BY <1>1, <2>2, <2>3, <3>1
  <2>5. CASE Moves /\ ~Redirects
    <3>1. /\ ras' = RasStep(dec.inst, dec.pc, ras)
          /\ exe'.valid = dec.valid /\ exe'.pc = dec.pc /\ exe'.inst = dec.inst
      BY <2>5, RasNext, ExeIs
    <3>2. ~dec.valid => ~IsRas(dec.inst)
      BY Stages, BubbleIs
    <3>3. RasStep(dec.inst, dec.pc, ras) = RasAfter(exe', ras)
      BY <3>1, <3>2 DEF RasAfter, RasStep, IsRas
    <3> QED BY <2>2, <2>3, <3>1, <3>3
  <2> QED BY <1>4, <2>4, <2>5 DEF Moves
<1> QED BY <1>2, <1>3, <1>4

-----------------------------------------------------------------------------
(***************************************************************************)
(* The interlock: what DEC reads is what the sequential machine will read  *)
(***************************************************************************)

(* A name that no write changes.                                           *)
Constantly0(r) == r[1] \notin Bank \/ r[2] = 0

(* A register that no instruction in flight writes reads already now as it *)
(* will when they are done.                                                *)
LEMMA ReadAhead ==
  ASSUME IInv, Cycle, Moves, ~Redirects, NEW r \in RegName,
         Constantly0(r) \/ \A i \in {exe.inst, mem.inst, wb.inst} : r # Dest(i) /\ r # Dest2(i)
  PROVE  Read(rf, r) = Read(Later'.rf, r)
<1>1. CASE Constantly0(r)
  BY <1>1 DEF Read, Constantly0
<1>2. CASE ~Constantly0(r)
  <2>1. \A i \in {exe.inst, mem.inst, wb.inst} : r # Dest(i) /\ r # Dest2(i)
    BY <1>2
  <2>2. Read(arch.rf, r) = Read(rf, r)
    <3>1. /\ rf \in Files /\ wb.data \in Word /\ wb.data2 \in Word
          /\ Dest(wb.inst) \in RegName /\ Dest2(wb.inst) \in RegName
      BY Stages, StageTypes, NamesType DEF IInv, Types
    <3>2. Write(rf, Dest(wb.inst), wb.data) \in Files
      BY <3>1, WriteType
    <3>3. arch.rf = Write(Write(rf, Dest(wb.inst), wb.data), Dest2(wb.inst), wb.data2)
      BY DEF IInv, StateMatchesIsa, Written
    <3>4. r # Dest(wb.inst) /\ r # Dest2(wb.inst)
      BY <2>1
    <3>5. Read(Write(rf, Dest(wb.inst), wb.data), r) = Read(rf, r)
      BY <3>1, <3>4, ReadWrite
    <3>6. Read(arch.rf, r) = Read(Write(rf, Dest(wb.inst), wb.data), r)
      BY <3>1, <3>2, <3>3, <3>4, ReadWrite
    <3> QED BY <3>5, <3>6
  <2>3. Read(Later.rf, r) = Read(arch.rf, r)
    <3>1. CASE mem.valid
      <4>1. mem.inst = prog[arch.pc]
        BY <3>1, Stages DEF IInv, MemInv
      <4>2. r # Dest(prog[arch.pc]) /\ r # Dest2(prog[arch.pc])
        BY <2>1, <4>1
      <4> QED BY <3>1, <4>2, Stages, IsaReads DEF Later
    <3>2. CASE ~mem.valid
      BY <3>2 DEF Later
    <3> QED BY <3>1, <3>2
  <2>4. Read(Later'.rf, r) = Read(Later.rf, r)
    <3>1. CASE exe.valid
      <4>1. exe.inst = prog[Later.pc] /\ Later' = IsaStep(prog, Later)
        BY <3>1, ExeComputes, LaterNext DEF Moves, Redirects
      <4>2. r # Dest(prog[Later.pc]) /\ r # Dest2(prog[Later.pc])
        BY <2>1, <4>1
      <4>3. Read(IsaStep(prog, Later).rf, r) = Read(Later.rf, r)
        BY <4>2, Stages, LaterType, IsaReads
      <4> QED BY <4>1, <4>3
    <3>2. CASE ~exe.valid
      BY <3>2, LaterNext DEF Moves, Redirects
    <3> QED BY <3>1, <3>2
  <2> QED BY <2>2, <2>3, <2>4
<1> QED BY <1>1, <1>2

(* The registers an instruction depends on.                                *)
Tested(i) == {Cond1(i), Cond2(i), Stored(i)}
Operands(i) == {Source(i, csignals[i.op].op1), Source(i, csignals[i.op].op2)}

(* Without a stall, DEC depends on no register in flight.  The second      *)
(* destinations are not compared with what a condition tests or a store    *)
(* stores: there the program must keep them apart.                         *)
LEMMA NoConflict ==
  ASSUME IInv, ~stall, dec.valid, NEW r \in Operands(dec.inst) \cup Tested(dec.inst)
  PROVE  Constantly0(r) \/ \A i \in {exe.inst, mem.inst, wb.inst} : r # Dest(i) /\ r # Dest2(i)
<1>1. CASE r = None
  BY <1>1 DEF Constantly0, None, Bank
<1>2. CASE r # None /\ ~Constantly0(r)
  <2>1. /\ r \notin {track.exe.wb, track.mem.wb, track.wb.wb}
        /\ r \in Operands(dec.inst) => r \notin {track.exe.wb2, track.mem.wb2, track.wb.wb2}
    BY <1>2 DEF stall, Conflicts, Operands, Tested
  <2>2. /\ Dest(exe.inst) \in {None, track.exe.wb} /\ Dest2(exe.inst) \in {None, track.exe.wb2}
        /\ Dest(mem.inst) \in {None, track.mem.wb} /\ Dest2(mem.inst) \in {None, track.mem.wb2}
        /\ Dest(wb.inst) \in {None, track.wb.wb} /\ Dest2(wb.inst) \in {None, track.wb.wb2}
    BY DEF IInv, TrackInv, Shadows
  <2>3. \A i \in {exe.inst, mem.inst, wb.inst} : r # Dest(i)
    BY <1>2, <2>1, <2>2
  <2>4. ASSUME NEW i \in {exe.inst, mem.inst, wb.inst} PROVE r # Dest2(i)
    <3>1. CASE r \in Operands(dec.inst)
      BY <1>2, <2>1, <2>2, <3>1
    <3>2. CASE r \in Tested(dec.inst)
      <4>1. i = BUBBLE \/ \E a \in Pc : i = prog[a]
        BY Stages DEF IInv, FromProgram
      <4>2. \E b \in Pc : dec.inst = prog[b]
        BY Stages
      <4>3. \A a, b \in Pc : HalvesApart(prog[a], prog[b])
        BY DEF IInv, Types, RegularPrograms, Regular
      <4>4. i = BUBBLE \/ HalvesApart(i, dec.inst)
        BY <4>1, <4>2, <4>3
      <4>5. Dest2(i) \in {None, <<"D", 0>>} \/ Dest2(i) \notin Tested(dec.inst)
        BY <4>4, BubbleIs DEF HalvesApart, Tested
      <4>6. Constantly0(<<"D", 0>>)
        BY DEF Constantly0
      <4> QED BY <1>2, <3>2, <4>5, <4>6
    <3> QED BY <3>1, <3>2
  <2> QED BY <2>3, <2>4
<1> QED BY <1>1, <1>2

(* So DEC reads the operands of the sequential machine.                    *)
LEMMA ReadsOperands ==
  ASSUME IInv, Cycle, Moves, ~Redirects, dec.valid
  PROVE  \A r \in Operands(dec.inst) \cup Tested(dec.inst) : Read(rf, r) = Read(Later'.rf, r)
<1> SUFFICES ASSUME NEW r \in Operands(dec.inst) \cup Tested(dec.inst)
             PROVE  Read(rf, r) = Read(Later'.rf, r)
  OBVIOUS
<1>1. r \in RegName
  <2>1. /\ \A sel : Source(dec.inst, sel) \in RegName
        /\ Stored(dec.inst) \in RegName /\ None \in RegName
        /\ <<"D", dec.inst.ha>> \in RegName /\ <<"D", dec.inst.hb>> \in RegName
    BY Stages, NamesType DEF RegName
  <2> QED BY <2>1 DEF Operands, Tested, Cond1, Cond2
<1>2. Constantly0(r) \/ \A i \in {exe.inst, mem.inst, wb.inst} : r # Dest(i) /\ r # Dest2(i)
  BY NoConflict DEF Moves
<1> QED BY <1>1, <1>2, ReadAhead

-----------------------------------------------------------------------------
(***************************************************************************)
(* EXE and the fetch path                                                  *)
(***************************************************************************)

(* Unless it stops the pipeline or transfers control, the instruction in   *)
(* EXE is followed by the next one.                                        *)
LEMMA LaterPc ==
  ASSUME IInv, Cycle, ~full_stall, ~Redirects, ~pipeline_kill'
  PROVE  Later'.pc = AfterExe
<1>0. ~pipeline_kill /\ ~exe_redirects
  BY DEF Redirects
<1>1. CASE ~exe.valid
  BY <1>0, <1>1, LaterNext DEF AfterExe
<1>2. CASE exe.valid
  <2>1. /\ exe.pc = Later.pc /\ exe.inst = prog[Later.pc] /\ cond_yes = Yes(prog, Later)
        /\ exe_alu_out = Out(prog, Later)
    BY <1>0, <1>2, ExeComputes
  <2>2. mem'.inst = exe.inst /\ mem'.alu = exe_alu_out
    BY <1>0, MemIs
  <2>3. ~csr_eret' /\ ~ctl'.illegal1 /\ ~mem_data_misaligned'
    BY DEF pipeline_kill, mem_exception
  <2>4. exe.inst.op \notin {"TRAP", "ESCAPE"}
    BY <2>2, <2>3 DEF csr_eret
  <2>5. IsLegal(exe.inst)
    BY <1>0, <1>2, <2>3, FlagsNext DEF IInv, IllegalInv, pipeline_kill
  <2>6. ~Traps(prog[Later.pc], Out(prog, Later))
    BY <2>1, <2>2, <2>3, <2>4, <2>5 DEF Traps, IsLegal, mem_data_misaligned, mem_val
  <2>7. IsaPc(prog, Later) = Plus(Later.pc, 1)
    <3>1. csignals[exe.inst.op].cf = "X" \/ (csignals[exe.inst.op].cf = "BR" /\ ~Yes(prog, Later))
      BY <1>0, <2>1 DEF exe_redirects
    <3> QED BY <2>1, <2>4, <3>1 DEF IsaPc
  <2>8. Later' = IsaStep(prog, Later)
    BY <1>0, <1>2, LaterNext
  <2> QED BY <1>2, <2>1, <2>6, <2>7, <2>8, IsaRuns DEF AfterExe
<1> QED BY <1>1, <1>2

(* A taken branch, a jump, a call and a return go where the sequential     *)
(* machine goes.                                                           *)
LEMMA RedirectPc ==
  ASSUME IInv, Cycle, ~full_stall, ~pipeline_kill, exe_redirects
  PROVE  if_pc' = Later'.pc
<1>1. csignals[exe.inst.op].cf # "X" /\ (csignals[exe.inst.op].cf = "BR" => cond_yes)
  BY DEF exe_redirects
<1>2. exe.inst.op \in Op /\ exe.valid /\ exe.inst.op # "ESCAPE"
  <2>1. exe.inst.op \in Op /\ exe.valid
    BY <1>1, Stages, Fields, BubbleIs, BubbleRow
  <2> QED BY <1>1, <2>1, Table
<1>3. /\ exe.pc = Later.pc /\ exe.inst = prog[Later.pc] /\ cond_yes = Yes(prog, Later)
      /\ exe_alu_out = Out(prog, Later)
      /\ csignals[exe.inst.op].cf = "RET" => ret_target = TopRas(Later.ras)
  BY <1>2, ExeComputes DEF IInv, ExeInv
<1>4. ~Traps(prog[Later.pc], Out(prog, Later))
  BY <1>1, <1>2, <1>3, Table DEF Traps
<1>5. Later' = IsaStep(prog, Later)
  BY <1>2, LaterNext
<1>6. if_pc' = CASE csignals[exe.inst.op].cf = "RRII" -> Plus(exe_alu_out, exe.inst.imm)
                 [] csignals[exe.inst.op].cf = "RET" -> ret_target
                 [] OTHER -> Plus(exe.pc, exe.inst.imm)
  <2>1. if_pc' = if_pc_next(Signals)
    BY FetchNext DEF FetchKilled, Redirects, IInv, Types
  <2> QED BY <2>1, FetchTarget
<1>7. csignals[exe.inst.op].cf \in {"BR", "IIII", "RRII", "RET"}
  BY <1>1, <1>2, Table
<1>8. if_pc' = IsaPc(prog, Later)
  <2>1. CASE csignals[exe.inst.op].cf = "BR"
    <3>1. Yes(prog, Later) /\ if_pc' = Plus(exe.pc, exe.inst.imm)
      BY <1>1, <1>3, <1>6, <2>1
    <3> QED BY <1>2, <1>3, <2>1, <3>1, IsaGoes
  <2>2. CASE csignals[exe.inst.op].cf = "IIII"
    <3>1. if_pc' = Plus(exe.pc, exe.inst.imm)
      BY <1>6, <2>2
    <3> QED BY <1>2, <1>3, <2>2, <3>1, IsaGoes
  <2>3. CASE csignals[exe.inst.op].cf = "RRII"
    <3>1. if_pc' = Plus(exe_alu_out, exe.inst.imm)
      BY <1>6, <2>3
    <3> QED BY <1>2, <1>3, <2>3, <3>1, IsaGoes
  <2>4. CASE csignals[exe.inst.op].cf = "RET"
    <3>1. if_pc' = ret_target
      BY <1>6, <2>4
    <3> QED BY <1>2, <1>3, <2>4, <3>1, IsaGoes
  <2> QED BY <1>7, <2>1, <2>2, <2>3, <2>4
<1> QED BY <1>4, <1>5, <1>8, IsaRuns

(* An exception and a return from one go where the sequential machine      *)
(* goes.                                                                   *)
LEMMA KillPc ==
  ASSUME IInv, Cycle, pipeline_kill
  PROVE  if_pc' = Later'.pc
<1>1. if_pc' = exception_target
  <2>1. if_pc' = if_pc_next(Signals)
    BY FetchNext DEF FetchKilled, Redirects, IInv, Types
  <2> QED BY <2>1, FetchTarget
<1>2. mem.valid /\ mem.inst.op \in Op /\ mem.inst = prog[arch.pc] /\ csr = arch.csr
  BY MemValid, Stages, Fields DEF IInv, MemInv, StateMatchesIsa
<1>3. Later' = IsaStep(prog, arch)
  BY <1>2, LaterNext DEF Later
<1>4. CASE Traps(prog[arch.pc], Out(prog, arch))
  <2>1. mem_exception \/ mem.inst.op = "TRAP"
    BY <1>2, <1>4, MemTraps
  <2>2. Later'.pc = Evec
    BY <1>3, <1>4, Stages, IsaTraps
  <2> QED BY <1>1, <2>1, <2>2 DEF exception_target
<1>5. CASE ~Traps(prog[arch.pc], Out(prog, arch))
  <2>1. mem.inst.op = "ESCAPE" /\ ~mem_exception
    BY <1>2, <1>5, MemTraps DEF pipeline_kill, csr_eret
  <2>2. csignals[mem.inst.op].cf = "X"
    BY <1>2, <2>1, Table
  <2>3. IsaPc(prog, arch) = arch.csr
    BY <1>2, <2>1, <2>2 DEF IsaPc
  <2> QED BY <1>1, <1>2, <1>3, <1>5, <2>1, <2>3, IsaRuns DEF exception_target
<1> QED BY <1>4, <1>5

(* EXE receives the instruction after the one in MEM, with its operands.   *)
LEMMA ExeInvNext ==
  ASSUME IInv, Cycle
  PROVE  ExeInv'
<1>0. prog' = prog
  BY DEF Cycle
<1>1. CASE exe'.valid = FALSE
  BY <1>1 DEF ExeInv
<1>2. CASE ~pipeline_kill /\ full_stall
  <2>1. exe' = exe /\ Later' = Later /\ cond_yes' = cond_yes
    BY <1>2, ExeIs, LaterNext DEF cond_yes
  <2>2. exe.valid => csignals[exe.inst.op].cf # "RET"
    <3>1. exe.inst.op \in Op
      BY Stages, Fields
    <3>2. exe.valid => ~IsRas(exe.inst)
      BY <1>2, MemValid, BehindAccess
    <3> QED BY <3>1, <3>2, Table DEF IsRas
  <2> QED BY <1>0, <1>2, <2>1, <2>2 DEF IInv, ExeInv
<1>3. CASE Moves /\ ~Redirects /\ dec.valid /\ ~pipeline_kill'
  <2> DEFINE i == dec.inst
             d == csignals[dec.inst.op]
             s == Later'
  <2>1. exe' = Latched
    BY <1>3, ExeIs
  <2>2. s.pc = dec.pc /\ i = prog[s.pc] /\ i.op \in Op
    <3>1. s.pc = AfterExe
      BY <1>3, LaterPc DEF Moves
    <3>2. dec.pc = AfterExe
      BY <1>3 DEF IInv, PathInv, Redirects
    <3> QED BY <1>3, <3>1, <3>2, Stages, Fields
  <2>3. \A r \in Operands(i) \cup Tested(i) : Read(rf, r) = Read(s.rf, r)
    BY <1>3, ReadsOperands
  <2>4. exe'.pc = s.pc /\ exe'.inst = i
    BY <2>1, <2>2 DEF Latched
  <2>5. exe'.op1 = Op1(prog, s) /\ exe'.op2 = Op2(prog, s)
    <3>1. exe'.op1 = Operand(rf, i, d.op1) /\ exe'.op2 = Operand(rf, i, d.op2)
      BY <2>1 DEF Latched
    <3>2. Op1(prog, s) = Operand(s.rf, i, d.op1) /\ Op2(prog, s) = Operand(s.rf, i, d.op2)
      BY <2>2 DEF Op1, Op2
    <3>3. /\ Read(rf, Source(i, d.op1)) = Read(s.rf, Source(i, d.op1))
          /\ Read(rf, Source(i, d.op2)) = Read(s.rf, Source(i, d.op2))
      BY <2>3 DEF Operands
    <3> QED BY <3>1, <3>2, <3>3 DEF Operand
  <2>6. cond_yes' = Yes(prog, s)
    <3> DEFINE x == <<"D", dec.inst.ha>>
               y == <<"D", dec.inst.hb>>
    <3>1. cond_yes' = CondTrue(d.cond, Read(rf, x), Read(rf, y))
      BY <2>1, <2>4 DEF Latched, cond_yes
    <3>2. Yes(prog, s) = CondTrue(d.cond, Read(s.rf, x), Read(s.rf, y))
      BY <2>2 DEF Yes
    <3>3. d.cond # "X" => Read(rf, x) = Read(s.rf, x)
      BY <2>3 DEF Tested, Cond1
    <3>4. d.cond \in {"EQ", "NE"} => Read(rf, y) = Read(s.rf, y)
      BY <2>3 DEF Tested, Cond2
    <3> HIDE DEF d, s, i, x, y
    <3> QED BY <3>1, <3>2, <3>3, <3>4 DEF CondTrue
  <2>7. d.mem = "XWR" => exe'.st = Read(s.rf, Stored(i))
    <3>1. exe'.st = Read(rf, <<IF d.grp = "RB" THEN "B" ELSE "D", i.ha>>)
      BY <2>1 DEF Latched
    <3>2. d.mem = "XWR" => Stored(i) = <<IF d.grp = "RB" THEN "B" ELSE "D", i.ha>>
      BY DEF Stored
    <3>3. Read(rf, Stored(i)) = Read(s.rf, Stored(i))
      BY <2>3 DEF Tested
    <3> QED BY <3>1, <3>2, <3>3
  <2>8. ret_target' = TopRas(s.ras)
    <3>1. ras = s.ras
      <4>1. CASE exe.valid
        BY <1>3, <4>1, LaterNext, LaterRas DEF Moves, Redirects, IInv, RasInv
      <4>2. CASE ~exe.valid
        BY <1>3, <4>2, LaterNext, LaterRas DEF Moves, Redirects, IInv, RasInv, RasAfter
      <4> QED BY <4>1, <4>2
    <3> QED BY <3>1, RasNext
  <2>9. ExeInv' = (exe'.valid /\ ~pipeline_kill' =>
          /\ exe'.pc = s.pc
          /\ exe'.op1 = Op1(prog', s) /\ exe'.op2 = Op2(prog', s)
          /\ cond_yes' = Yes(prog', s)
          /\ csignals[exe'.inst.op].mem = "XWR" => exe'.st = Read(s.rf, Stored(exe'.inst))
          /\ csignals[exe'.inst.op].cf = "RET" => ret_target' = TopRas(s.ras))
    BY DEF ExeInv
  <2> HIDE DEF s
  <2> QED BY <1>0, <2>4, <2>5, <2>6, <2>7, <2>8, <2>9
<1>4. CASE pipeline_kill'
  BY <1>4 DEF ExeInv
<1>5. ~(~pipeline_kill /\ full_stall) /\ ~(Moves /\ ~Redirects /\ dec.valid) => exe'.valid = FALSE
  BY ExeIs, CycleCases, Stages
<1> QED BY <1>1, <1>2, <1>3, <1>4, <1>5

(* A killed fetch is made again at the address the fetch goes to.          *)
LEMMA Refetches ==
  ASSUME IInv, Cycle, FetchKilled
  PROVE  /\ dec'.valid = FALSE
         /\ (IF if_killed' THEN if_pc' ELSE FetchedPc') = if_pc'
         /\ if_buf' = << >> \/ if_killed'
<1>1. Moves => if_buf' = << >> /\ if_killed' = FALSE
  BY FetchNext DEF IInv, Types
<1>2. ~Moves => if_killed'
  BY FetchNext DEF IInv, Types
<1> QED BY <1>1, <1>2, DecIs DEF FetchedPc

(* The fetch stays on the path the instructions in flight take.            *)
LEMMA PathNext ==
  ASSUME IInv, Cycle
  PROVE  PathInv'
<1>0. /\ if_buf \in {<< >>} \cup {<<a>> : a \in Pc}
      /\ if_killed => ~dec.valid /\ if_buf # << >>
      /\ fencei => if_buf = << >>
      /\ ~Redirects =>
           /\ dec.valid => dec.pc = AfterExe
           /\ if_killed => if_pc = AfterDec
           /\ ~if_killed => FetchedPc = AfterDec
           /\ if_buf # << >> /\ ~if_killed => if_pc = Plus(FetchedPc, 1)
  BY DEF IInv, Types, FenceInv, PathInv, Redirects
<1>1. ASSUME FetchKilled, exe'.valid = FALSE, if_pc' = Later'.pc
      PROVE  PathInv'
  BY <1>1, Refetches DEF PathInv, AfterDec, AfterExe
<1>2. CASE pipeline_kill
  BY <1>1, <1>2, KillPc, ExeIs DEF FetchKilled, Redirects
<1>3. CASE ~pipeline_kill /\ ~full_stall /\ Redirects
  BY <1>1, <1>3, RedirectPc, ExeIs DEF FetchKilled, Redirects
<1>4. CASE ~pipeline_kill /\ full_stall /\ Redirects
  <2>1. exe' = exe /\ exe_redirects
    BY <1>4, ExeIs DEF Redirects
  <2>2. exe_redirects'
    BY <2>1 DEF exe_redirects, cond_yes
  <2> QED BY <2>2 DEF PathInv
<1>5. CASE ~Redirects /\ ~Moves /\ ~pipeline_kill'
  <2>1. ~FetchKilled
    BY <1>5, FenceMoves DEF FetchKilled, Moves
  <2>2. AfterExe' = AfterExe
    <3>1. CASE full_stall
      <4>1. exe' = exe /\ Later' = Later
        BY <1>5, <3>1, ExeIs, LaterNext DEF Redirects
      <4> QED BY <4>1 DEF AfterExe
    <3>2. CASE ~full_stall
      <4>1. exe'.valid = FALSE
        BY <1>5, <3>2, ExeIs DEF Moves
      <4> QED BY <1>5, <3>2, <4>1, LaterPc DEF AfterExe
    <3> QED BY <3>1, <3>2
  <2>3. dec'.valid = dec.valid /\ (dec.valid => dec'.pc = dec.pc)
    <3>1. CASE if_killed
      BY <1>0, <3>1, DecIs, Stages
    <3>2. CASE ~if_killed
      BY <1>5, <2>1, <3>2, DecIs
    <3> QED BY <3>1, <3>2
  <2>4. AfterDec' = AfterDec
    BY <2>2, <2>3 DEF AfterDec
  <2>5. /\ if_buf' = <<FetchedPc>> /\ (if_killed' <=> if_killed)
        /\ FetchedPc' = FetchedPc
    <3>1. if_buf' = <<FetchedPc>> /\ (if_killed' <=> if_killed)
      BY <1>0, <1>5, <2>1, FetchNext
    <3> QED BY <3>1 DEF FetchedPc
  <2>6. CASE if_killed
    <3>1. if_pc' = if_pc
      BY <1>0, <2>1, <2>6, FetchNext
    <3> QED BY <1>0, <1>5, <2>2, <2>3, <2>4, <2>5, <2>6, <3>1 DEF PathInv
  <2>7. CASE ~if_killed
    <3>1. if_pc' = Plus(FetchedPc, 1)
      <4>1. CASE if_buf = << >>
        BY <1>0, <1>5, <2>1, <2>7, <4>1, FetchNext, FetchTarget DEF FetchedPc, FetchKilled
      <4>2. CASE if_buf # << >>
        BY <1>0, <1>5, <2>1, <2>7, <4>2, FetchNext
      <4> QED BY <4>1, <4>2
    <3> QED BY <1>0, <1>5, <2>2, <2>3, <2>4, <2>5, <2>7, <3>1 DEF PathInv
  <2> QED BY <2>6, <2>7
<1>6. CASE ~Redirects /\ Moves /\ ~pipeline_kill'
  <2>1. /\ if_buf' = << >> /\ if_killed' = FALSE /\ FetchedPc' = if_pc'
    <3>1. if_buf' = << >> /\ if_killed' = FALSE
      BY <1>0, <1>6, FetchNext
    <3> QED BY <3>1 DEF FetchedPc
  <2>2. AfterExe' = AfterDec
    <3>1. exe'.valid = dec.valid /\ exe'.pc = dec.pc
      BY <1>6, ExeIs
    <3>2. Later'.pc = AfterExe
      BY <1>6, LaterPc DEF Moves
    <3> QED BY <3>1, <3>2 DEF AfterExe, AfterDec
  <2>3. CASE if_killed
    <3>1. dec'.valid = FALSE /\ if_pc' = if_pc
      BY <1>0, <1>6, <2>3, DecIs, FetchNext DEF FetchKilled
    <3> QED BY <1>0, <1>6, <2>1, <2>2, <2>3, <3>1 DEF PathInv, AfterDec
  <2>4. CASE ~if_killed /\ fencei
    <3>1. dec'.valid = FALSE /\ if_pc' = if_pc
      BY <1>0, <1>6, <2>4, DecIs, FetchNext, FetchTarget DEF FetchKilled
    <3>2. FetchedPc = if_pc
      BY <1>0, <2>4 DEF FetchedPc
    <3> QED BY <1>0, <1>6, <2>1, <2>2, <2>4, <3>1, <3>2 DEF PathInv, AfterDec
  <2>5. CASE ~if_killed /\ ~fencei
    <3>1. dec'.valid = TRUE /\ dec'.pc = FetchedPc
      BY <1>6, <2>5, DecIs DEF FetchKilled
    <3>2. if_pc' = Plus(FetchedPc, 1)
      <4>1. CASE if_buf = << >>
        BY <1>0, <1>6, <2>5, <4>1, FetchNext, FetchTarget DEF FetchedPc, FetchKilled
      <4>2. CASE if_buf # << >>
        BY <1>0, <1>6, <2>5, <4>2, FetchNext DEF FetchKilled
      <4> QED BY <4>1, <4>2
    <3>3. AfterDec' = Plus(FetchedPc, 1)
      BY <3>1 DEF AfterDec
    <3> QED BY <1>0, <1>6, <2>1, <2>2, <2>5, <3>1, <3>2, <3>3 DEF PathInv
  <2> QED BY <2>3, <2>4, <2>5
<1>7. CASE pipeline_kill'
  BY <1>7 DEF PathInv
<1> QED BY <1>2, <1>3, <1>4, <1>5, <1>6, <1>7 DEF Redirects

-----------------------------------------------------------------------------
(***************************************************************************)
(* The theorems                                                            *)
(***************************************************************************)

(* Reset leaves an empty pipeline, and two machines in the same state.     *)
LEMMA InitIInv ==
  ASSUME Programs \subseteq RegularPrograms, Init
  PROVE  IInv
<1>0. /\ prog \in RegularPrograms /\ None \in RegName /\ 0 \in Pc /\ 0 \in Word
      /\ BUBBLE \in Inflight /\ RasSize \in Nat \ {0} /\ MaxMiss \in Nat
  BY Constants, BubbleIs DEF Init, RegName
<1>1. BUBBLE.op = "BUBBLE" /\ Dest(BUBBLE) = None /\ Dest2(BUBBLE) = None
  BY BubbleIs
<1>2. /\ csignals["BUBBLE"].mem = "X" /\ csignals["BUBBLE"].cf = "X"
      /\ ~csignals["BUBBLE"].fencei
  BY BubbleRow
<1>3. rf \in Files /\ ras \in RasState /\ dmem \in [Word -> Word]
  <2>1. ras.top = 0 /\ 0 \in 0..(RasSize - 1)
    BY <1>0 DEF Init
  <2> QED BY <1>0, <2>1 DEF Init, Files, RasState
<1>4. arch \in ArchState
  BY <1>0, <1>3 DEF Init, ArchState
<1>5. NoDest \in DestPair
  BY <1>0 DEF NoDest, DestPair
<1>6. Types
  <2>1. /\ if_pc \in Pc /\ if_buf \in {<< >>} \cup {<<a>> : a \in Pc} /\ if_killed \in BOOLEAN
        /\ ret_target \in Pc /\ csr \in Pc /\ dwait \in 0..MaxMiss
    <3>1. /\ if_pc = 0 /\ if_buf = << >> /\ if_killed = FALSE /\ ret_target = 0 /\ csr = 0
          /\ dwait = 0
      BY DEF Init
    <3>2. 0 \in 0..MaxMiss
      BY <1>0
    <3> QED BY <1>0, <3>1, <3>2
  <2>2. /\ dec \in [valid : BOOLEAN, pc : Pc, inst : Inflight]
        /\ exe \in [valid : BOOLEAN, pc : Pc, inst : Inflight,
                    op1 : Word, op2 : Word, c1 : Word, c2 : Word, st : Word]
    BY <1>0 DEF Init
  <2>3. /\ mem \in [valid : BOOLEAN, pc : Pc, inst : Inflight,
                    alu : Word, alu2 : Word, st : Word]
        /\ wb \in [valid : BOOLEAN, inst : Inflight, data : Word, data2 : Word]
    BY <1>0 DEF Init
  <2>4. /\ track \in [exe : DestPair, mem : DestPair, wb : DestPair]
        /\ ctl \in [is_csr : BOOLEAN, illegal : BOOLEAN, illegal1 : BOOLEAN, fencei1 : BOOLEAN]
    BY <1>5 DEF Init
  <2> QED BY <1>0, <1>3, <1>4, <2>1, <2>2, <2>3, <2>4 DEF Types
<1>7. /\ dec.valid = FALSE /\ exe.valid = FALSE /\ mem.valid = FALSE
      /\ dec.inst = BUBBLE /\ exe.inst = BUBBLE /\ mem.inst = BUBBLE /\ wb.inst = BUBBLE
      /\ ctl.illegal = FALSE /\ ctl.illegal1 = FALSE /\ ctl.fencei1 = FALSE
      /\ if_killed = FALSE /\ if_pc = 0 /\ if_buf = << >>
      /\ arch.pc = 0 /\ arch.rf = rf /\ arch.ras = ras /\ arch.dmem = dmem /\ arch.csr = csr
  BY DEF Init
<1>8. FromProgram
  BY <1>7 DEF FromProgram, Holds
<1>9. TrackInv
  BY <1>1, <1>7 DEF TrackInv, Shadows
<1>10. IllegalInv /\ NeighbourInv /\ MemInv /\ ExeInv
  BY <1>7 DEF IllegalInv, NeighbourInv, MemInv, ExeInv
<1>11. FenceInv
  BY <1>1, <1>2, <1>7 DEF FenceInv, fencei
<1>12. PathInv
  BY <1>7 DEF PathInv, FetchedPc, AfterDec, AfterExe, Later
<1>13. RasInv
  BY <1>7 DEF RasInv, RasAfter
<1>14. StateMatchesIsa
  <2>1. None[1] \notin Bank
    BY DEF None, Bank
  <2> QED BY <1>1, <1>7, <2>1 DEF StateMatchesIsa, Written, Write
<1> QED BY <1>6, <1>8, <1>9, <1>10, <1>11, <1>12, <1>13, <1>14 DEF IInv

(* Every cycle keeps the invariant.                                        *)
LEMMA NextIInv ==
  ASSUME IInv, [Next]_vars
  PROVE  IInv'
<1>1. CASE Cycle
  <2>1. StateMatchesIsa'
    BY <1>1, WrittenNext, DmemNext DEF StateMatchesIsa
  <2> QED BY <1>1, <2>1, TypesNext, FromProgramNext, TrackNextInv, IllegalNext, NeighbourNext,
             FenceNext, MemInvNext, ExeInvNext, PathNext, RasInvNext DEF IInv
<1>2. CASE UNCHANGED vars
  <2>1. Types' /\ FromProgram' /\ TrackInv' /\ IllegalInv'
    BY <1>2 DEF vars, IInv, Types, FromProgram, Holds, TrackInv, IllegalInv
  <2>2. /\ mem_val' = mem_val /\ fencei' = fencei /\ cond_yes' = cond_yes
        /\ pipeline_kill' = pipeline_kill /\ FetchedPc' = FetchedPc /\ Later' = Later
        /\ Written' = Written
    BY <1>2 DEF vars, mem_val, fencei, cond_yes, pipeline_kill, csr_eret, mem_exception,
                mem_data_misaligned, FetchedPc, Later, Written
  <2>3. exe_redirects' = exe_redirects /\ AfterExe' = AfterExe /\ AfterDec' = AfterDec
    BY <1>2, <2>2 DEF vars, exe_redirects, AfterExe, AfterDec
  <2>4. NeighbourInv' /\ FenceInv' /\ MemInv' /\ ExeInv'
    BY <1>2, <2>2 DEF vars, IInv, NeighbourInv, FenceInv, MemInv, ExeInv
  <2>5. PathInv' /\ RasInv' /\ StateMatchesIsa'
    BY <1>2, <2>2, <2>3 DEF vars, IInv, PathInv, RasInv, StateMatchesIsa
  <2> QED BY <2>1, <2>4, <2>5 DEF IInv
<1> QED BY <1>1, <1>2 DEF Next

(* The invariant holds throughout the run of every regular program.        *)
THEOREM InvariantHolds ==
  ASSUME Programs \subseteq RegularPrograms
  PROVE  Spec => []IInv
<1>1. Init => IInv
  BY InitIInv
<1>2. IInv /\ [Next]_vars => IInv'
  BY NextIInv
<1> QED BY <1>1, <1>2, PTL DEF Spec

(* Every register of the core keeps its type, whatever the program         *)
(* (regular), the latencies and the addresses it computes.                 *)
THEOREM TypeCorrect ==
  ASSUME Programs \subseteq RegularPrograms
  PROVE  Spec => []TypeOK
<1>1. IInv => TypeOK
  <2> SUFFICES ASSUME IInv PROVE TypeOK
    OBVIOUS
  <2>1. /\ ras.top \in 0..(RasSize - 1) /\ ras.a \in [1..(RasSize - 1) -> Pc]
        /\ rf \in [Bank -> [Reg -> Word]]
    BY DEF IInv, Types, RasState, Files
  <2>2. csr \in Nat
    BY DEF IInv, Types, Pc
  <2>3. wb.valid \in BOOLEAN
    BY DEF IInv, Types
  <2> QED BY <2>1, <2>2, <2>3, Stages, StageTypes DEF TypeOK, IInv, Types
<1> QED BY <1>1, InvariantHolds, PTL

(* Instructions leave MEM in program order: none on a wrong path survives  *)
(* a redirect, none is lost or repeated by a stall, a miss or a refetch.   *)
THEOREM InOrder ==
  ASSUME Programs \subseteq RegularPrograms
  PROVE  Spec => []RetiresInOrder
<1>1. IInv => RetiresInOrder
  <2> SUFFICES ASSUME IInv, Retires \/ Excepts PROVE mem.pc = arch.pc
    BY DEF RetiresInOrder
  <2>1. mem.valid
    BY MemValid DEF Retires, Excepts, pipeline_kill
  <2> QED BY <2>1 DEF IInv, MemInv
<1> QED BY <1>1, InvariantHolds, PTL

(* The registers, the data memory and the CSR are those of the sequential  *)
(* machine: the interlock of the build without bypassing never lets a      *)
(* stale operand through, and a killed instruction writes nothing.         *)
THEOREM ComputesAsIsa ==
  ASSUME Programs \subseteq RegularPrograms
  PROVE  Spec => []StateMatchesIsa
<1>1. IInv => StateMatchesIsa
  BY DEF IInv
<1> QED BY <1>1, InvariantHolds, PTL

(* CALL and RET change the return-address file in DEC; with none in flight *)
(* it is the one of the sequential machine.                                *)
THEOREM RasAsIsa ==
  ASSUME Programs \subseteq RegularPrograms
  PROVE  Spec => []RasMatchesIsa
<1>1. IInv => RasMatchesIsa
  <2> SUFFICES ASSUME IInv, ~UsesRas(exe), ~UsesRas(mem) PROVE ras = arch.ras
    BY DEF RasMatchesIsa
  <2>1. ASSUME NEW s, NEW r, ~UsesRas(s) PROVE RasAfter(s, r) = r
    BY <2>1 DEF UsesRas, RasAfter, RasStep
  <2> QED BY <2>1 DEF IInv, RasInv
<1> QED BY <1>1, InvariantHolds, PTL
=============================================================================
