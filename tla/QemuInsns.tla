----------------------------- MODULE QemuInsns -----------------------------
(***************************************************************************)
(* The emulator's translation of instructions (target/dadao/translate.c):  *)
(* every trans_* function as the sequence of TCG operations it emits, and  *)
(* what those operations do. An instruction is a record: its form (the     *)
(* macro that defines its trans function), the parameters the macro is     *)
(* used with and the operand fields of the encoding. One operation is      *)
(* <<name, destination, sources...>>; a place is a register <<file, n>>, a *)
(* temporary or a constant. CALL and RET are in QemuRas, the atomic        *)
(* instructions in LrSc.                                                   *)
(***************************************************************************)
EXTENDS Words

CONSTANTS
  NReg,           \* registers of a file: 64 in the source
  RdMode, FFlags, \* the masks of rounding mode and flags in rf0
  SoftFlags,      \* all the flags softfloat has: a mask
  FcsrDefault,    \* the bits of rf0 that are always set
  Page            \* the bytes ADRP counts in: 4096 in the source

RD(n) == <<"rd", n>>
RB(n) == <<"rb", n>>
RF(n) == <<"rf", n>>
T(n) == <<"t", n>>
K(x) == <<"k", Cut(x)>>

When(cond, code) == IF cond THEN code ELSE <<>>

(* The operations code(0) to code(n - 1), m each. Where an operation is    *)
(* not emitted because it would write register zero, NoOp stands for it.    *)
Times(n, m, code(_)) == [j \in 1 .. n * m |-> code((j - 1) \div m)[((j - 1) % m) + 1]]
NoOp == <<"nop">>
Unless0(writes, op) == IF writes THEN op ELSE NoOp

(* Bytes and signedness of the memory operations. *)
Size(mop) == CASE mop \in {"SB", "UB"} -> 1 [] mop \in {"SW", "UW"} -> 2
               [] mop \in {"SL", "UL"} -> 4 [] OTHER -> 8
SignExtends(mop) == mop \in {"SB", "SW", "SL"}

-----------------------------------------------------------------------------
(* Loads and stores. *)

LdForms == {<<"rd", m>> : m \in {"SB", "UB", "SW", "UW", "SL", "UL", "UQ"}}
           \cup {<<"rf", "UL">>, <<"rb", "UQ">>, <<"rf", "UQ">>}

StForms == {<<"rd", m>> : m \in {"UB", "UW", "UL", "UQ"}}
           \cup {<<"rf", "UL">>, <<"rb", "UQ">>, <<"rf", "UQ">>}

(* The load happens even when its register cannot be written. *)
LD(i) == <<<<"add", T(1), RB(i.hb), K(i.imm)>>, <<"ld", T(2), T(1), i.mop>>>>
         \o When(i.ha # 0 \/ i.file = "rf", <<<<"mov", <<i.file, i.ha>>, T(2)>>>>)

ST(i) == <<<<"add", T(1), RB(i.hb), K(i.imm)>>,
           <<"st", T(1), <<i.file, i.ha>>, i.mop>>>>

LDM(i) ==
  <<<<"add", T(1), RB(i.hb), RD(i.hc)>>>>
  \o Times(i.imm, 3, LAMBDA k :
        <<<<"ld", T(2), T(1), i.mop>>,
          Unless0(i.ha + k # 0 \/ i.file \in {"rf", "ra"}, <<"mov", <<i.file, i.ha + k>>, T(2)>>),
          <<"add", T(1), T(1), K(Size(i.mop))>>>>)

STM(i) ==
  <<<<"add", T(1), RB(i.hb), RD(i.hc)>>>>
  \o Times(i.imm, 2, LAMBDA k :
        <<<<"st", T(1), <<i.file, i.ha + k>>, i.mop>>,
          <<"add", T(1), T(1), K(Size(i.mop))>>>>)

LdmForms == LdForms \cup {<<"ra", "UQ">>}
StmForms == StForms \cup {<<"ra", "UQ">>}

(* The block forms take 1 to NReg - first registers; other counts are      *)
(* illegal instructions.                                                   *)
BlockLegal(first, count) == count # 0 /\ first + count <= NReg

-----------------------------------------------------------------------------
(* Register assignment. *)

R2RForms == {<<"rd", "rd">>, <<"rd", "rb">>, <<"rb", "rd">>, <<"rb", "rb">>,
             <<"rd", "rf">>, <<"rf", "rd">>, <<"rf", "rf">>,
             <<"rd", "ra">>, <<"ra", "rd">>}

(* Mutant of CopyOrder: always upwards. *)
CopyOrderUp(hb, hc, n, k) == k

(* Overlapping blocks are copied from the far end. *)
CopyOrder(hb, hc, n, k) == IF hb > hc THEN n - 1 - k ELSE k

R2R(i) ==
  Times(i.imm, 1, LAMBDA k :
    LET j == CopyOrder(i.hb, i.hc, i.imm, k)
    IN  <<Unless0(i.hb + j # 0 \/ i.file \in {"rf", "ra"},
                  <<"mov", <<i.file, i.hb + j>>, <<i.from, i.hc + j>>>>)>>)

CSET1(i) ==
  When(i.hb # 0 \/ i.file = "rf",
       <<<<"movcond", <<i.file, i.hb>>, i.cond, RD(i.ha), RD(0),
           <<i.file, i.hc>>, <<i.file, i.hd>>>>>>)

CSET2(i) ==
  When(i.hc # 0, <<<<"movcond", RD(i.hc), i.cond, RD(i.ha), RD(i.hb),
                     RD(i.hd), RD(i.hc)>>>>)

FCSET(i) == <<<<"movcond", RF(i.hc), i.cond, RD(i.hb), K(1), RF(i.hd), RF(i.hc)>>>>

SETOW(i) ==
  When(i.ha # 0, <<<<"mov", RD(i.ha), K(AtWyde(i.imm, i.ww) + Inv(AtWyde(Ones, i.ww)))>>>>)

SETZW(i) == When(i.ha # 0, <<<<"mov", <<i.file, i.ha>>, K(AtWyde(i.imm, i.ww))>>>>)

ORW(i) ==
  When(i.ha # 0, <<<<"or", <<i.file, i.ha>>, <<i.file, i.ha>>, K(AtWyde(i.imm, i.ww))>>>>)

ANDNW(i) ==
  When(i.ha # 0,
       <<<<"and", <<i.file, i.ha>>, <<i.file, i.ha>>, K(Inv(AtWyde(i.imm, i.ww)))>>>>)

SETW(i) == <<<<"and", RF(i.ha), RF(i.ha), K(Inv(AtWyde(Ones, i.ww)))>>,
             <<"or", RF(i.ha), RF(i.ha), K(AtWyde(i.imm, i.ww))>>>>

-----------------------------------------------------------------------------
(* Arithmetic. *)

(* Two-word sums of sign-extended operands; ha takes the upper word. *)
ALG1(i) ==
  IF i.ha = 0 /\ i.hb # 0 THEN <<<<i.alu, RD(i.hb), RD(i.hc), RD(i.hd)>>>>
  ELSE <<<<"sar", T(1), RD(i.hc), K(XLEN - 1)>>, <<"sar", T(2), RD(i.hd), K(XLEN - 1)>>,
         <<"wide", T(1), i.alu, T(2), RD(i.hc), T(1), RD(i.hd), T(2)>>>>
       \o When(i.hb # 0, <<<<"mov", RD(i.hb), T(1)>>>>)
       \o When(i.ha # 0, <<<<"mov", RD(i.ha), T(2)>>>>)

ALG1rb(i) == When(i.hb # 0, <<<<i.alu, RB(i.hb), RB(i.hc), RD(i.hd)>>>>)

ADDI(i) == When(i.ha # 0, <<<<"add", <<i.file, i.ha>>, <<i.file, i.hb>>, K(i.imm)>>>>)

(* Comparisons give -1, 0 or 1. *)
CMPi(i) ==
  When(i.ha # 0, <<<<"setcond", T(1), i.cond, RD(i.hb), K(i.imm)>>,
                   <<"movcond", RD(i.ha), i.cond, K(i.imm), RD(i.hb), K(-1), T(1)>>>>)

CMPr(i) ==
  LET x == <<i.file, i.hc>>
      y == <<i.file, i.hd>>
  IN  When(i.hb # 0, <<<<"setcond", T(1), i.cond, x, y>>,
                       <<"movcond", RD(i.hb), i.cond, y, x, K(-1), T(1)>>>>)

TwoResults(i, upper, lower) ==
  When(i.ha # 0, <<<<"mov", RD(i.ha), upper>>>>)
  \o When(i.hb # 0, <<<<"mov", RD(i.hb), lower>>>>)

MUL(i) == <<<<"mul", T(1), i.sign, T(2), RD(i.hc), RD(i.hd)>>>> \o TwoResults(i, T(2), T(1))

(* Division by zero raises FPER, which the loop does not survive. *)
DIV(i) ==
  <<<<"excpz", "FPER", RD(i.hd)>>,
    <<"div", T(1), i.sign, RD(i.hc), RD(i.hd)>>,
    <<"rem", T(2), i.sign, RD(i.hc), RD(i.hd)>>>> \o TwoResults(i, T(2), T(1))

ADRP(i, pc) ==
  When(i.ha # 0, <<<<"mov", RB(i.ha), K(pc)>>,
                   <<"and", RB(i.ha), RB(i.ha), K(-Page)>>,
                   <<"add", RB(i.ha), RB(i.ha), K(i.imm * Page)>>>>)

-----------------------------------------------------------------------------
(* Logic. *)

LOGICr(i) == When(i.hb # 0, <<<<i.alu, RD(i.hb), RD(i.hc), RD(i.hd)>>>>)

XNOR(i) == When(i.hb # 0, <<<<"xor", RD(i.hb), RD(i.hc), RD(i.hd)>>,
                            <<"xor", RD(i.hb), RD(i.hb), K(-1)>>>>)

ANDI(i) == When(i.ha # 0, <<<<"and", RD(i.ha), RD(i.hb), K(i.imm)>>>>)

(* The count is copied first, because hb may be hd. *)
EXTr(i) == When(i.hb # 0, <<<<"mov", T(1), RD(i.hd)>>,
                            <<"shl", RD(i.hb), RD(i.hc), T(1)>>,
                            <<i.alu, RD(i.hb), RD(i.hb), T(1)>>>>)

LOGICi(i) == When(i.hb # 0, <<<<i.alu, RD(i.hb), RD(i.hc), K(i.imm)>>>>)

EXTi(i) == When(i.hb # 0, <<<<"shl", RD(i.hb), RD(i.hc), K(i.imm)>>,
                            <<i.alu, RD(i.hb), RD(i.hb), K(i.imm)>>>>)

-----------------------------------------------------------------------------
(* Control flow. jmp holds the destination until the block ends. *)

JMP == <<"jmp", 0>>

BR2(i, pc) == <<<<"movcond", JMP, i.cond, RD(i.ha), RD(i.hb), K(pc + i.imm * 4), K(pc + 4)>>>>
BR1(i, pc) == <<<<"movcond", JMP, i.cond, RD(i.ha), RD(0), K(pc + i.imm * 4), K(pc + 4)>>>>
JUMPi(i, pc) == <<<<"mov", JMP, K(pc + i.imm * 4)>>>>
JUMPr(i) == <<<<"mov", JMP, RB(i.ha)>>, <<"add", JMP, JMP, RD(i.hb)>>,
              <<"add", JMP, JMP, K(i.imm * 4)>>>>

-----------------------------------------------------------------------------
(* Floating point. A helper notes rf0 in a variable of the emulator, sets  *)
(* the mode and the flags from it, computes, and writes rf0 back with the  *)
(* flags that are then set.                                                *)

Helper(dst, srcs) ==
  <<<<"head">>, <<"fp", T(3), srcs>>, <<"tail">>, <<"mov", dst, T(3)>>>>

(* Mutant of dadao_fpu_head: the flags are not masked. *)
dadao_fpu_head_unmasked(s) == [s EXCEPT !.rf0_fcsr = s.rf[0], !.flags = s.rf[0]]

dadao_fpu_head(s) == [s EXCEPT !.rf0_fcsr = s.rf[0], !.flags = s.rf[0] & FFlags]

(* Mutant of dadao_fpu_tail: only the flags are written back. *)
dadao_fpu_tail_flags_only(s) == [s EXCEPT !.rf[0] = s.flags]

dadao_fpu_tail(s) == [s EXCEPT !.rf[0] = s.rf0_fcsr | (s.flags & FFlags)]

FCVT_s1d1(dst, src) == Helper(dst, <<src>>)
FALG_s1d1(dst, src) == Helper(dst, <<src>>)
FALG_s2d1(dst, src1, src2) == Helper(dst, <<src1, src2>>)
FALG_s3d1(dst, src1, src2, src3) == Helper(dst, <<src1, src2, src3>>)
FCMP_real(dst, src1, src2) == Helper(dst, <<src1, src2>>)

(* Classification and signs do not touch the status. *)
ftcls(dst, src) == <<<<"fp", T(3), <<src>>>>, <<"mov", dst, T(3)>>>>
FSGN_s2d1(dst, src1, src2) == <<<<"fp", T(3), <<src1, src2>>>>, <<"mov", dst, T(3)>>>>

FCVT(i) ==
  LET dst(k) == <<i.file, i.hb + CopyOrder(i.hb, i.hc, i.imm, k)>>
      src(k) == <<i.from, i.hc + CopyOrder(i.hb, i.hc, i.imm, k)>>
  IN  IF i.alu = "cls"
      THEN Times(i.imm, 2, LAMBDA k : IF dst(k)[2] = 0 THEN <<NoOp, NoOp>> ELSE ftcls(dst(k), src(k)))
      ELSE Times(i.imm, 4, LAMBDA k : IF dst(k)[2] = 0 THEN <<NoOp, NoOp, NoOp, NoOp>>
                                      ELSE FCVT_s1d1(dst(k), src(k)))

FcvtForms == {<<"rf", "rd", "cls">>, <<"rf", "rd", "cvt">>, <<"rf", "rf", "cvt">>, <<"rd", "rf", "cvt">>}

gen_exception_illegal_instruction == <<<<"excp", "ILLI">>>>

FALG3(i) == IF i.alu = "sgn" THEN FSGN_s2d1(RF(i.hb), RF(i.hc), RF(i.hd))
            ELSE FALG_s2d1(RF(i.hb), RF(i.hc), RF(i.hd))
FALG4(i) == FALG_s3d1(RF(i.ha), RF(i.hb), RF(i.hc), RF(i.hd))
FALG2(i) == When(i.imm # 2, gen_exception_illegal_instruction) \o FALG_s1d1(RF(i.hb), RF(i.hc))
FCMP(i) == FCMP_real(RD(i.hb), RF(i.hc), RF(i.hd))

(* TRAP: the loop performs the system call and moves pc on. *)
TRAP == <<<<"excp", "TRAP">>>>

-----------------------------------------------------------------------------
Branches == {"BR2", "BR1", "JUMPi", "JUMPr"}

trans(i, pc) ==
  CASE i.form = "LD" -> LD(i)         [] i.form = "ST" -> ST(i)
    [] i.form = "LDM" -> LDM(i)       [] i.form = "STM" -> STM(i)
    [] i.form = "R2R" -> R2R(i)       [] i.form = "CSET1" -> CSET1(i)
    [] i.form = "CSET2" -> CSET2(i)   [] i.form = "FCSET" -> FCSET(i)
    [] i.form = "SETOW" -> SETOW(i)   [] i.form = "SETZW" -> SETZW(i)
    [] i.form = "ORW" -> ORW(i)       [] i.form = "ANDNW" -> ANDNW(i)
    [] i.form = "SETW" -> SETW(i)     [] i.form = "ALG1" -> ALG1(i)
    [] i.form = "ALG1rb" -> ALG1rb(i) [] i.form = "ADDI" -> ADDI(i)
    [] i.form = "CMPi" -> CMPi(i)     [] i.form = "CMPr" -> CMPr(i)
    [] i.form = "MUL" -> MUL(i)       [] i.form = "DIV" -> DIV(i)
    [] i.form = "ADRP" -> ADRP(i, pc) [] i.form = "LOGICr" -> LOGICr(i)
    [] i.form = "XNOR" -> XNOR(i)     [] i.form = "ANDI" -> ANDI(i)
    [] i.form = "EXTr" -> EXTr(i)     [] i.form = "EXTi" -> EXTi(i)
    [] i.form = "LOGICi" -> LOGICi(i) [] i.form = "BR2" -> BR2(i, pc)
    [] i.form = "BR1" -> BR1(i, pc)   [] i.form = "JUMPi" -> JUMPi(i, pc)
    [] i.form = "JUMPr" -> JUMPr(i)   [] i.form = "FCVT" -> FCVT(i)
    [] i.form = "FALG2" -> FALG2(i)   [] i.form = "FALG3" -> FALG3(i)
    [] i.form = "FALG4" -> FALG4(i)   [] i.form = "FCMP" -> FCMP(i)
    [] i.form = "TRAP" -> TRAP
    [] i.form = "SWYM" -> <<>>
    [] OTHER -> gen_exception_illegal_instruction

(* What the decoder gives: fields in their ranges, and the parameters the  *)
(* macros are used with.                                                   *)
Encodable(i) ==
  /\ {i.ha, i.hb, i.hc, i.hd} \subseteq 0 .. NReg - 1 /\ i.imm \in Int
  /\ i.form = "LD" => <<i.file, i.mop>> \in LdForms
  /\ i.form = "ST" => <<i.file, i.mop>> \in StForms
  /\ i.form = "LDM" => <<i.file, i.mop>> \in LdmForms
  /\ i.form = "STM" => <<i.file, i.mop>> \in StmForms
  /\ i.form = "R2R" => <<i.from, i.file>> \in R2RForms
  /\ i.form = "FCVT" => <<i.from, i.file, i.alu>> \in FcvtForms
  /\ i.form \in {"LDM", "STM", "R2R", "FCVT"} => i.imm \in Nat
  /\ i.form = "CSET1" => i.file \in {"rd", "rf"} /\ i.cond \in {"LT", "EQ", "GT"}
  /\ i.form \in {"CSET2", "FCSET", "BR2"} => i.cond \in {"EQ", "NE"}
  /\ i.form = "BR1" => i.cond \in {"LT", "GE", "EQ", "NE", "GT", "LE"}
  /\ i.form \in {"SETOW", "SETZW", "ORW", "ANDNW", "SETW"} => i.ww \in 0..3 /\ i.imm \in 0 .. Ones
  /\ i.form \in {"SETZW", "ORW", "ANDNW", "ADDI"} => i.file \in {"rd", "rb"}
  /\ i.form \in {"ALG1", "ALG1rb"} => i.alu \in {"add", "sub"}
  /\ i.form = "CMPi" => \/ i.cond = "GT" /\ Fits(XLEN, i.imm)
                        \/ i.cond = "GTU" /\ i.imm \in Octa
  /\ i.form = "CMPr" => <<i.cond, i.file>> \in {<<"GT", "rd">>, <<"GTU", "rd">>, <<"GTU", "rb">>}
  /\ i.form \in {"MUL", "DIV"} => i.sign \in {"s", "u"}
  /\ i.form = "ANDI" => i.imm \in Octa
  /\ i.form = "LOGICr" => i.alu \in {"and", "or", "xor", "shl", "shr", "sar"}
  /\ i.form = "LOGICi" => i.alu \in {"shl", "shr", "sar"} /\ i.imm \in 0 .. XLEN - 1
  /\ i.form \in {"EXTr", "EXTi"} => i.alu \in {"shr", "sar"}
  /\ i.form = "EXTi" => i.imm \in 0 .. XLEN - 1

(* Every instruction first restores the fixed registers. *)
Fixed ==
  <<<<"mov", RD(0), K(0)>>, <<"and", RF(0), RF(0), K(RdMode + FFlags)>>,
    <<"or", RF(0), RF(0), K(FcsrDefault)>>>>

(* A branch or jump ends the block, which takes the destination. *)
tb_stop(i, pc) == <<<<"mov", RB(0), IF i.form \in Branches THEN JMP ELSE K(pc + 4)>>>>

translate_insn(i, pc) == Fixed \o trans(i, pc) \o tb_stop(i, pc)

-----------------------------------------------------------------------------
(* The operations of TCG. A shift by XLEN or more is unspecified in TCG;   *)
(* the hosts' shifts use the count modulo XLEN. A quotient that does not   *)
(* fit is unspecified, too.                                                *)

Holds(cond, x, y) ==
  CASE cond = "EQ" -> x = y                   [] cond = "NE" -> x # y
    [] cond = "LT" -> Signed(x) < Signed(y)   [] cond = "GE" -> Signed(x) >= Signed(y)
    [] cond = "GT" -> Signed(x) > Signed(y)   [] cond = "LE" -> Signed(x) <= Signed(y)
    [] cond = "GTU" -> x > y

Alu(op, x, y) ==
  CASE op = "add" -> Cut(x + y)
    [] op = "sub" -> Cut(x - y)
    [] op = "and" -> x & y
    [] op = "or" -> x | y
    [] op = "xor" -> x ^^ y
    [] op = "shl" -> Cut(x * Pow2[y % XLEN])
    [] op = "shr" -> x \div Pow2[y % XLEN]
    [] op = "sar" -> Cut(Signed(x) \div Pow2[y % XLEN])

DivRem(op, sign, x, y) ==
  LET a == IF sign = "s" THEN Signed(x) ELSE x
      b == IF sign = "s" THEN Signed(y) ELSE y
  IN  Cut(IF op = "div" THEN Quot(a, b) ELSE Rem(a, b))

(* Bytes are stored with the lowest first. *)
Load(mem, a, mop) ==
  LET byte(k) == mem[Cut(a + k)]
      wyde(k) == byte(k) + Pow2[Bits(1)] * byte(k + 1)
      tetra(k) == wyde(k) + Pow2[Bits(2)] * wyde(k + 2)
      n == Size(mop)
      x == CASE n = 1 -> byte(0) [] n = 2 -> wyde(0) [] n = 4 -> tetra(0)
             [] n = 8 -> tetra(0) + Pow2[Bits(4)] * tetra(4)
  IN  Cut(IF SignExtends(mop) THEN SignedIn(Bits(n), x) ELSE x)

Stored(mem, a, x, mop) ==
  [b \in DOMAIN mem |-> LET k == Cut(b - a)
                        IN  IF k < Size(mop) THEN CutTo(B, x \div Pow2[k * B]) ELSE mem[b]]

(* One operation on the state s of a processor: its registers, temporaries *)
(* and floating-point status, the memory, and the emulator's own rf0_fcsr. *)
(* fp is what a floating-point function returns, fl the flags it raises.   *)
At(s, p) == IF p[1] = "k" THEN p[2] ELSE s[p[1]][p[2]]
Put(s, p, x) == [s EXCEPT ![p[1]][p[2]] = x]

Apply(u, s, fp, fl) ==
  LET v(k) == At(s, u[k])
  IN CASE u[1] = "mov" -> Put(s, u[2], v(3))
       [] u[1] = "ld" -> Put(s, u[2], Load(s.mem, v(3), u[4]))
       [] u[1] = "st" -> [s EXCEPT !.mem = Stored(s.mem, v(2), v(3), u[4])]
       [] u[1] = "setcond" -> Put(s, u[2], IF Holds(u[3], v(4), v(5)) THEN 1 ELSE 0)
       [] u[1] = "movcond" -> Put(s, u[2], IF Holds(u[3], v(4), v(5)) THEN v(6) ELSE v(7))
       [] u[1] = "wide" ->
            LET x == v(5) + M * v(6)
                y == v(7) + M * v(8)
                r == CutTo(2 * XLEN, IF u[3] = "add" THEN x + y ELSE x - y)
            IN  Put(Put(s, u[2], r % M), u[4], r \div M)
       [] u[1] = "mul" ->
            LET r == CutTo(2 * XLEN, IF u[3] = "s" THEN Signed(v(5)) * Signed(v(6)) ELSE v(5) * v(6))
            IN  Put(Put(s, u[2], r % M), u[4], r \div M)
       [] u[1] \in {"div", "rem"} -> Put(s, u[2], DivRem(u[1], u[3], v(4), v(5)))
       [] u[1] = "head" -> dadao_fpu_head(s)
       [] u[1] = "fp" -> [Put(s, u[2], fp) EXCEPT !.flags = @ | fl]
       [] u[1] = "tail" -> dadao_fpu_tail(s)
       [] u[1] = "nop" -> s
       [] u[1] = "excp" -> [s EXCEPT !.excp = u[2]]
       [] u[1] = "excpz" -> IF v(3) = 0 THEN [s EXCEPT !.excp = u[2]] ELSE s
       [] OTHER -> Put(s, u[2], Alu(u[1], v(3), v(4)))
============================================================================
