---------------------------- MODULE QemuMachine ----------------------------
(***************************************************************************)
(* Threads of a user program run translated code: every instruction is the *)
(* sequence of operations QemuInsns gives, and the threads of the host     *)
(* interleave between operations. They share the memory and the emulator's *)
(* variable rf0_fcsr (helper-fpu.c). A store into a page that holds the    *)
(* running code makes QEMU drop that code and start the instruction again. *)
(***************************************************************************)
EXTENDS QemuInsns, FiniteSets

CONSTANTS
  Threads,
  Insns,          \* the instructions a thread may meet
  Starts,         \* register files a thread may hold at first
  InitMem,        \* the memory at first
  FpResults,      \* what floating-point functions return
  MaxInsns,       \* bound on the instructions of a thread
  MaxRestarts,    \* bound on its restarts
  RetReg          \* the register a system call answers in: 31 in the source

VARIABLES
  cpu,            \* of each thread: registers, temporaries, status
  code,           \* the operations left of its instruction
  insn,           \* the instruction it runs, or ran last
  before,         \* the state it saw when that began
  count,          \* instructions it has begun
  restarts,       \* restarts it has had
  mem,
  rf0_fcsr

vars == <<cpu, code, insn, before, count, restarts, mem, rf0_fcsr>>

(* Masks are apart from each other, pages and flags are powers of two, and *)
(* a block of registers is smaller than the memory.                        *)
ASSUME MachineAssumption ==
  /\ NReg \in Nat \ {0} /\ 8 * NReg <= M
  /\ {RdMode, FFlags, FcsrDefault} \subseteq Octa
  /\ RdMode & FFlags = 0 /\ FcsrDefault & RdMode = 0 /\ FcsrDefault & FFlags = 0
  /\ \E n \in 0 .. XLEN : SoftFlags = Pow2[n] - 1
  /\ FFlags <= SoftFlags
  /\ \E n \in 0 .. XLEN : Page = Pow2[n]
  /\ RetReg \in 1 .. NReg - 1

Byte == 0 .. Pow2[B] - 1
RegFile == [0 .. NReg - 1 -> Octa]

ASSUME InputAssumption ==
  /\ IsFiniteSet(Threads)
  /\ \A i \in Insns : Encodable(i)
  /\ \A c \in Starts : {c.rd, c.rb, c.rf, c.ra} \subseteq RegFile
  /\ InitMem \in [Octa -> Byte]
  /\ FpResults \subseteq Octa

(* A thread's own state, out of the state an operation works on. *)
Own(s) == [rd |-> s.rd, rb |-> s.rb, rf |-> s.rf, ra |-> s.ra, t |-> s.t, jmp |-> s.jmp,
           flags |-> s.flags, excp |-> s.excp]

(* The state thread t sees. *)
Seen(c, m, f) ==
  [rd |-> c.rd, rb |-> c.rb, rf |-> c.rf, ra |-> c.ra, t |-> c.t, jmp |-> c.jmp,
   flags |-> c.flags, excp |-> c.excp, mem |-> m, rf0_fcsr |-> f]
Now(t) == Seen(cpu[t], mem, rf0_fcsr)

NoInsn == [form |-> "none"]

Reset(c) == [rd |-> c.rd, rb |-> c.rb, rf |-> c.rf, ra |-> c.ra, t |-> [k \in 1..3 |-> 0],
             jmp |-> [k \in {0} |-> 0], flags |-> 0, excp |-> "none"]

Init ==
  /\ \E c \in [Threads -> Starts] : cpu = [t \in Threads |-> Reset(c[t])]
  /\ mem = InitMem
  /\ rf0_fcsr = 0
  /\ code = [t \in Threads |-> <<>>]
  /\ insn = [t \in Threads |-> NoInsn]
  /\ before = [t \in Threads |-> Now(t)]
  /\ count = [t \in Threads |-> 0]
  /\ restarts = [t \in Threads |-> 0]

(* The block forms with counts the translator accepts. *)
Legal(i) ==
  CASE i.form \in {"LDM", "STM"} -> BlockLegal(i.ha, i.imm)
    [] i.form \in {"R2R", "FCVT"} -> BlockLegal(i.hb, i.imm) /\ BlockLegal(i.hc, i.imm)
    [] OTHER -> TRUE

Idle(t) == code[t] = <<>>

Begin(t, i) ==
  /\ Idle(t) /\ cpu[t].excp = "none" /\ count[t] < MaxInsns /\ Legal(i)
  /\ code' = [code EXCEPT ![t] = translate_insn(i, cpu[t].rb[0])]
  /\ insn' = [insn EXCEPT ![t] = i]
  /\ before' = [before EXCEPT ![t] = Now(t)]
  /\ count' = [count EXCEPT ![t] = @ + 1]
  /\ UNCHANGED <<cpu, restarts, mem, rf0_fcsr>>

(* An exception ends the instruction. *)
Step(t) ==
  /\ ~Idle(t)
  /\ \E fp \in (IF Head(code[t])[1] = "fp" THEN FpResults ELSE {0}),
        fl \in (IF Head(code[t])[1] = "fp" THEN 0 .. SoftFlags ELSE {0}) :
       LET s == Apply(Head(code[t]), Now(t), fp, fl)
       IN  /\ cpu' = [cpu EXCEPT ![t] = Own(s)]
           /\ mem' = s.mem
           /\ rf0_fcsr' = s.rf0_fcsr
           /\ code' = [code EXCEPT ![t] = IF s.excp = "none" THEN Tail(@) ELSE <<>>]
  /\ UNCHANGED <<insn, before, count, restarts>>

(* QEMU's page_unprotect found the running code in the page of the store.  *)
Restart(t) ==
  /\ ~Idle(t) /\ Head(code[t])[1] = "st" /\ restarts[t] < MaxRestarts
  /\ restarts' = [restarts EXCEPT ![t] = @ + 1]
  /\ code' = [code EXCEPT ![t] = translate_insn(insn[t], before[t].rb[0])]
  /\ UNCHANGED <<cpu, insn, before, count, mem, rf0_fcsr>>

(* Mutant of Syscall: a call that is to be repeated is stepped over too.   *)
SyscallSteps(t, again, ret) ==
  /\ Idle(t) /\ cpu[t].excp = "TRAP"
  /\ cpu' = [cpu EXCEPT ![t].excp = "none",
                        ![t].rb[0] = Cut(@ + 4),
                        ![t].rd[RetReg] = IF again THEN @ ELSE ret]
  /\ UNCHANGED <<code, insn, before, count, restarts, mem, rf0_fcsr>>

(* TRAP: the loop of linux-user writes the result of the system call to    *)
(* its register and steps over the instruction, unless it is to be         *)
(* repeated.                                                               *)
Syscall(t, again, ret) ==
  /\ Idle(t) /\ cpu[t].excp = "TRAP"
  /\ cpu' = [cpu EXCEPT ![t].excp = "none",
                        ![t].rb[0] = IF again THEN @ ELSE Cut(@ + 4),
                        ![t].rd[RetReg] = IF again THEN @ ELSE ret]
  /\ UNCHANGED <<code, insn, before, count, restarts, mem, rf0_fcsr>>

Next ==
  \E t \in Threads :
    \/ \E i \in Insns : Begin(t, i)
    \/ Step(t)
    \/ Restart(t)
    \/ \E again \in BOOLEAN, ret \in FpResults : Syscall(t, again, ret)

Spec == Init /\ [][Next]_vars

-----------------------------------------------------------------------------
(* The architecture: an instruction reads all its operands, then writes    *)
(* all its results; rd0 is zero and rb0 the instruction's own address.     *)
(* Writes(i, s) are the places it writes and the values it may leave there *)
(* (two results for one register leave either).                            *)

Canonical(s) == [s EXCEPT !.rd[0] = 0, !.rf[0] = (@ & (RdMode + FFlags)) | FcsrDefault]

Sign(x) == IF x > 0 THEN 1 ELSE IF x < 0 THEN -1 ELSE 0

(* Only the wyde ww of x changes. *)
WithWyde(x, ww, y) == x - AtWyde(Wyde(x, ww), ww) + AtWyde(y, ww)

Extended(x, k, how) ==
  LET low == CutTo(XLEN - k, x)
  IN  IF how = "sar" THEN Cut(SignedIn(XLEN - k, low)) ELSE low

TwoWords(i, x) == {<<RD(i.hb), Cut(x)>>, <<RD(i.ha), Cut(x \div M)>>}

Base(i, s) == IF i.form \in {"LDM", "STM"} THEN s.rb[i.hb] + s.rd[i.hc] ELSE s.rb[i.hb] + i.imm

Writes(i, s) ==
  LET rd == s.rd
      rb == s.rb
      num(x) == IF i.sign = "s" THEN Signed(x) ELSE x
      alu(x, y) == CASE i.alu = "add" -> Cut(x + y) [] i.alu = "sub" -> Cut(x - y)
                     [] i.alu = "shl" -> Cut(x * Pow2[y]) [] i.alu = "shr" -> x \div Pow2[y]
                     [] i.alu = "sar" -> Cut(Signed(x) \div Pow2[y]) [] OTHER -> Alu(i.alu, x, y)
  IN CASE i.form = "LD" -> {<<<<i.file, i.ha>>, Load(s.mem, Base(i, s), i.mop)>>}
       [] i.form = "LDM" -> {<<<<i.file, i.ha + k>>, Load(s.mem, Base(i, s) + k * Size(i.mop), i.mop)>>
                             : k \in 0 .. i.imm - 1}
       [] i.form = "R2R" -> {<<<<i.file, i.hb + k>>, s[i.from][i.hc + k]>> : k \in 0 .. i.imm - 1}
       [] i.form = "CSET1" -> {<<<<i.file, i.hb>>, s[i.file][IF Holds(i.cond, rd[i.ha], 0) THEN i.hc ELSE i.hd]>>}
       [] i.form = "CSET2" -> {<<RD(i.hc), rd[IF Holds(i.cond, rd[i.ha], rd[i.hb]) THEN i.hd ELSE i.hc]>>}
       [] i.form = "FCSET" -> {<<RF(i.hc), s.rf[IF Holds(i.cond, rd[i.hb], 1) THEN i.hd ELSE i.hc]>>}
       [] i.form = "SETOW" -> {<<RD(i.ha), WithWyde(M - 1, i.ww, i.imm)>>}
       [] i.form = "SETZW" -> {<<<<i.file, i.ha>>, WithWyde(0, i.ww, i.imm)>>}
       [] i.form = "ORW" -> {<<<<i.file, i.ha>>, WithWyde(s[i.file][i.ha], i.ww, Wyde(s[i.file][i.ha], i.ww) | i.imm)>>}
       [] i.form = "ANDNW" -> {<<<<i.file, i.ha>>, WithWyde(s[i.file][i.ha], i.ww, Wyde(s[i.file][i.ha], i.ww) & (Ones - i.imm))>>}
       [] i.form = "SETW" -> {<<RF(i.ha), WithWyde(s.rf[i.ha], i.ww, i.imm)>>}
       [] i.form = "ALG1" -> TwoWords(i, IF i.alu = "add" THEN Signed(rd[i.hc]) + Signed(rd[i.hd])
                                         ELSE Signed(rd[i.hc]) - Signed(rd[i.hd]))
       [] i.form = "ALG1rb" -> {<<RB(i.hb), alu(rb[i.hc], rd[i.hd])>>}
       [] i.form = "ADDI" -> {<<<<i.file, i.ha>>, Cut(s[i.file][i.hb] + i.imm)>>}
       [] i.form = "CMPi" -> {<<RD(i.ha), Cut(Sign(IF i.cond = "GT" THEN Signed(rd[i.hb]) - i.imm ELSE rd[i.hb] - i.imm))>>}
       [] i.form = "CMPr" -> {<<RD(i.hb), Cut(Sign(IF i.cond = "GT" THEN Signed(rd[i.hc]) - Signed(rd[i.hd])
                                                   ELSE s[i.file][i.hc] - s[i.file][i.hd]))>>}
       [] i.form = "MUL" -> TwoWords(i, num(rd[i.hc]) * num(rd[i.hd]))
       [] i.form = "DIV" -> {<<RD(i.hb), Cut(Quot(num(rd[i.hc]), num(rd[i.hd])))>>,
                             <<RD(i.ha), Cut(Rem(num(rd[i.hc]), num(rd[i.hd])))>>}
       [] i.form = "ADRP" -> {<<RB(i.ha), Cut(Page * (rb[0] \div Page + i.imm))>>}
       [] i.form = "LOGICr" -> {<<RD(i.hb), alu(rd[i.hc], rd[i.hd])>>}
       [] i.form = "XNOR" -> {<<RD(i.hb), Inv(rd[i.hc] ^^ rd[i.hd])>>}
       [] i.form = "ANDI" -> {<<RD(i.ha), rd[i.hb] & i.imm>>}
       [] i.form = "EXTr" -> {<<RD(i.hb), Extended(rd[i.hc], rd[i.hd], i.alu)>>}
       [] i.form = "EXTi" -> {<<RD(i.hb), Extended(rd[i.hc], i.imm, i.alu)>>}
       [] i.form = "LOGICi" -> {<<RD(i.hb), alu(rd[i.hc], i.imm)>>}
       [] i.form = "FCVT" -> {<<<<i.file, i.hb + k>>, x>> : k \in 0 .. i.imm - 1, x \in FpResults}
       [] i.form \in {"FALG2", "FALG3"} -> {<<RF(i.hb), x>> : x \in FpResults}
       [] i.form = "FALG4" -> {<<RF(i.ha), x>> : x \in FpResults}
       [] i.form = "FCMP" -> {<<RD(i.hb), x>> : x \in FpResults}
       [] OTHER -> {}

(* The memory after a store: byte by byte, from the registers in order. *)
StoredBy(i, s) ==
  IF i.form \notin {"ST", "STM"} THEN s.mem
  ELSE LET n == Size(i.mop)
           regs == IF i.form = "ST" THEN 1 ELSE i.imm
           byte(q) == CutTo(B, s[i.file][i.ha + q \div n] \div Pow2[B * (q % n)])
       IN  [b \in DOMAIN s.mem |-> LET q == Cut(b - Base(i, s))
                                   IN  IF q < n * regs THEN byte(q) ELSE s.mem[b]]

NextPc(i, s) ==
  LET taken == CASE i.form = "BR2" -> Holds(i.cond, s.rd[i.ha], s.rd[i.hb])
                 [] i.form = "BR1" -> Holds(i.cond, s.rd[i.ha], 0)
                 [] OTHER -> i.form = "JUMPi"
  IN  IF i.form = "JUMPr" THEN Cut(s.rb[i.ha] + s.rd[i.hb] + 4 * i.imm)
      ELSE Cut(s.rb[0] + (IF taken THEN 4 * i.imm ELSE 4))

(* What TCG leaves open is not claimed: shifts by XLEN or more, and the    *)
(* one quotient that does not fit.                                         *)
Specified(i, s) ==
  /\ i.form \in {"LOGICr", "EXTr"} /\ i.alu \in {"shl", "shr", "sar"} => s.rd[i.hd] < XLEN
  /\ i.form = "DIV" /\ i.sign = "s" => s.rd[i.hc] # M \div 2 \/ s.rd[i.hd] # M - 1

UsesFp(i) == i.form \in {"FCVT", "FALG2", "FALG3", "FALG4", "FCMP"}

Done(t) == Idle(t) /\ insn[t] # NoInsn /\ cpu[t].excp = "none" /\ insn[t].form # "TRAP"

Places(s) == {<<f, n>> : f \in {"rd", "rb", "rf", "ra"}, n \in 0 .. NReg - 1}

(* Type invariant: registers and temporaries hold words, memory holds      *)
(* bytes, and only known exceptions are raised.                            *)
TypeOK ==
  /\ \A t \in Threads :
       /\ \A p \in Places(cpu[t]) : cpu[t][p[1]][p[2]] \in Octa
       /\ \A k \in 1..3 : cpu[t].t[k] \in Octa
       /\ cpu[t].excp \in {"none", "TRAP", "ILLI", "FPER"}
       /\ cpu[t].flags \in 0 .. SoftFlags
  /\ \A a \in DOMAIN mem : mem[a] \in Byte
  /\ rf0_fcsr \in Octa

(* Whatever registers its operands share, an instruction behaves as if all *)
(* operands were read before a result is written, also when it is started  *)
(* again in the middle: the translations overwrite registers while later   *)
(* operations still read operands (block loads over their own base or      *)
(* index, overlapping block moves, counts in the destination), and rd0     *)
(* reads as zero although comparisons may have written it before.          *)
AsArchitected ==
  \A t \in Threads :
    LET i == insn[t]
        s == Canonical(before[t])
        w == Writes(i, s)
    IN  Done(t) /\ Specified(i, s) =>
          /\ \A p \in Places(s) \ {RD(0), RB(0), RF(0)} :
               LET vs == {v[2] : v \in {u \in w : u[1] = p}}
               IN  IF vs = {} THEN cpu[t][p[1]][p[2]] = s[p[1]][p[2]]
                   ELSE cpu[t][p[1]][p[2]] \in vs
          /\ cpu[t].rb[0] = NextPc(i, s)
          /\ Cardinality(Threads) = 1 => mem = StoredBy(i, s)

(* The rounding mode and the flags of a thread: arithmetic keeps the mode  *)
(* and only adds flags.                                                    *)
Kept(old, new) == /\ new & RdMode = old & RdMode
                  /\ (old & FFlags) & (new & FFlags) = old & FFlags

(* A floating-point instruction that names rf0 as its result replaces the  *)
(* status; with any other, mode and flags of the thread are kept by the    *)
(* save and restore around the function (helper-fpu.c).                    *)
StatusKept ==
  \A t \in Threads :
    Done(t) /\ UsesFp(insn[t]) /\ (\A v \in Writes(insn[t], Canonical(before[t])) : v[1] # RF(0))
    => Kept(before[t].rf[0], cpu[t].rf[0])

(* A system call that is to be repeated finds the thread at its TRAP with  *)
(* every register as the program left it, and only an answer moves the     *)
(* thread on, by one instruction: the translation saves the pc before it   *)
(* raises the exception, and the loop steps over TRAP before it knows      *)
(* whether to step back (cpu_loop.c).                                      *)
CallsResume ==
  \A t \in Threads :
    insn[t].form = "TRAP" /\ Idle(t) =>
      LET s == before[t]
          answered == /\ cpu[t].excp = "none" /\ cpu[t].rb[0] = Cut(s.rb[0] + 4)
                      /\ cpu[t].rd[RetReg] \in FpResults
          waiting == cpu[t].rb[0] = s.rb[0] /\ cpu[t].rd[RetReg] = s.rd[RetReg]
      IN  /\ answered \/ waiting
          /\ \A p \in Places(s) \ {RD(0), RB(0), RF(0), RD(RetReg)} : cpu[t][p[1]][p[2]] = s[p[1]][p[2]]
          /\ Cardinality(Threads) = 1 => mem = s.mem
============================================================================
