------------------------------ MODULE LlvmIsel ------------------------------
(***************************************************************************)
(* How LLVM's Dadao back end turns an expression into instructions: the    *)
(* target's DAG combines, its custom lowering, instruction selection, and  *)
(* the branches between basic blocks.                                      *)
(*                                                                         *)
(* A node of the selection DAG is an expression of Programs, and also      *)
(* <<"reg", r>>, <<"fi", n>> and <<"select_cc", l, r, t, f, icc>>. The     *)
(* base register of an instruction may be the frame index <<"fi", n>>      *)
(* until LlvmFrames replaces it.                                           *)
(***************************************************************************)
EXTENDS Programs

HalfOnes == 2^(XLEN \div 2) - 1          \* 0xFFFFFFFF

----------------------------------------------------------------------------
(* DAG combines: an operand that is zero (all ones for AND) on one side of *)
(* a condition moves the operation under the select.                       *)

isZeroOrAllOnes(n, allOnes) == n = Const(IF allOnes THEN -1 ELSE 0)

(* At most one way to read n as conditionally zero (all ones). *)
isConditionalZeroOrAllOnes(n, allOnes) ==
    CASE n[1] = "select" ->
             IF isZeroOrAllOnes(n[3], allOnes)
             THEN {[cc |-> n[2], invert |-> FALSE, other |-> n[4]]}
             ELSE IF isZeroOrAllOnes(n[4], allOnes)
             THEN {[cc |-> n[2], invert |-> TRUE, other |-> n[3]]}
             ELSE {}
      [] n[1] = "zext" /\ ~allOnes ->
             {[cc |-> n[2], invert |-> TRUE, other |-> Const(1)]}
      [] n[1] = "sext" ->
             {[cc |-> n[2], invert |-> ~allOnes,
               other |-> Const(IF allOnes THEN 0 ELSE -1)]}
      [] OTHER -> {}

combineSelectAndUse(op, slct, x, allOnes) ==
    { LET with == <<op, x, c.other>> IN
      IF c.invert THEN <<"select", c.cc, with, x>> ELSE <<"select", c.cc, x, with>> :
      c \in isConditionalZeroOrAllOnes(slct, allOnes) }

combineSelectAndUseCommutative(n, allOnes) ==
    LET first == combineSelectAndUse(n[1], n[2], n[3], allOnes) IN
    IF first # {} THEN first ELSE combineSelectAndUse(n[1], n[3], n[2], allOnes)

PerformSUBCombine(n) == combineSelectAndUse("sub", n[3], n[2], FALSE)

PerformDAGCombine(n) ==
    CASE n[1] \in {"add", "or", "xor"} -> combineSelectAndUseCommutative(n, FALSE)
      [] n[1] = "and"                  -> combineSelectAndUseCommutative(n, TRUE)
      [] n[1] = "sub"                  -> PerformSUBCombine(n)
      [] OTHER                         -> {}

(* The combiner works until nothing changes, operands first. *)
RECURSIVE Combined(_)
Combined(n) ==
    LET m == IF n[1] \in {"arg", "reg", "const", "fi", "frameaddr"} THEN n
             ELSE [k \in DOMAIN n |->
                     IF k = 1 \/ (k = 4 /\ n[1] = "setcc") THEN n[k] ELSE Combined(n[k])]
        better == PerformDAGCombine(m)
    IN IF better = {} THEN m ELSE Combined(CHOOSE b \in better : TRUE)

----------------------------------------------------------------------------
(* Custom lowering. *)

(* The condition as the target has it. A comparison with zero becomes a    *)
(* test of the sign; so does one with 0xFFFFFFFF, which is -1 in no        *)
(* 64-bit word.                                                            *)
IntCondCCodeToICC(cc, r) ==
    CASE cc \in {"LT", "GE"} /\ r = Const(0)        -> IF cc = "LT" THEN "MI" ELSE "PL"
      [] cc \in {"GT", "LE"} /\ r = Const(HalfOnes) -> IF cc = "LE" THEN "MI" ELSE "PL"
      [] OTHER -> cc

(* SELECT is expanded to SELECT_CC, for which there is a lowering. *)
LowerSELECT_CC(c, t, f) ==
    IF c[1] = "setcc"
    THEN <<"select_cc", c[2], c[3], t, f, IntCondCCodeToICC(c[4], c[3])>>
    ELSE <<"select_cc", c, Const(0), t, f, "NE">>

LowerSETCC(l, r, cc) == <<"set_icc", l, r, IntCondCCodeToICC(cc, r)>>
LowerBR_CC(cc, r) == IntCondCCodeToICC(cc, r)

Select(c, t, f) == <<"select", c, t, f>>
SetCC(l, r, cc) == <<"setcc", l, r, cc>>

(* The two halves of a double word shifted left. *)
LowerSHL_PARTS(lo, hi, amt) ==
    LET loBits == Select(SetCC(amt, Const(0), "EQ"), Const(0),
                         <<"srl", lo, <<"sub", Const(XLEN), amt>> >>)
        extra == <<"sub", amt, Const(XLEN)>>
        big == SetCC(extra, Const(0), "GE")
    IN << Select(big, Const(0), <<"shl", lo, amt>>),
          Select(big, <<"shl", lo, extra>>,
                 <<"or", loBits, <<"shl", hi, amt>> >>) >>

(* The two halves of a double word shifted right. *)
LowerSRL_PARTS(lo, hi, amt) ==
    LET left == <<"sub", Const(XLEN), amt>>
        big == SetCC(left, Const(0), "LE")
        high == Select(big, Const(0), <<"srl", hi, amt>>)
        low == Select(big, high, <<"srl", lo, amt>>)
    IN << Select(SetCC(amt, Const(0), "EQ"), low,
                 <<"or", low, <<"shl", hi, left>> >>),
          high >>

(* The frame d calls up: each frame keeps its caller's frame pointer below *)
(* the address its own points to.                                          *)
RECURSIVE LowerFRAMEADDR(_)
LowerFRAMEADDR(depth) ==
    IF depth = 0 THEN <<"reg", FP>>
    ELSE <<"load", <<"add", LowerFRAMEADDR(depth - 1), Const(-8)>> >>

(* The operations the target asks to lower or expand, before selection. *)
LowerOperation(n) ==
    CASE n[1] = "setcc"     -> LowerSETCC(n[2], n[3], n[4])
      [] n[1] = "select"    -> LowerSELECT_CC(n[2], n[3], n[4])
      [] n[1] = "sext"      -> LowerSELECT_CC(n[2], Const(-1), Const(0))
      [] n[1] = "srl_lo"    -> LowerSRL_PARTS(n[2], n[3], n[4])[1]
      [] n[1] = "srl_hi"    -> LowerSRL_PARTS(n[2], n[3], n[4])[2]
      [] n[1] = "shl_lo"    -> LowerSHL_PARTS(n[2], n[3], n[4])[1]
      [] n[1] = "shl_hi"    -> LowerSHL_PARTS(n[2], n[3], n[4])[2]
      [] n[1] = "frameaddr" -> LowerFRAMEADDR(n[2])
setOperationAction == {"setcc", "select", "sext", "srl_lo", "srl_hi", "shl_lo", "shl_hi", "frameaddr"}

----------------------------------------------------------------------------
(* Selection. Each operator gives the instructions that compute a node     *)
(* into register d from operands already in registers.                     *)

SignedCodes == {"GT", "LT", "GE", "LE"}
UnsignedCodes == {"UGT", "ULT", "UGE", "ULE"}
Cmp(icc) == IF icc \in SignedCodes THEN "cmps" ELSE "cmpu"

(* Mutant of selectSETCC: the operands of a comparison stay in order. *)
selectSETCCUnswapped(icc, l, r, d, one) ==
    LET cmp == <<Alu(Cmp(icc), d, l, r)>> IN
    CASE icc \in {"GT", "LT", "UGT", "ULT"} -> Append(cmp, AluI("shru", d, d, XLEN - 1))
      [] icc \in {"GE", "LE", "UGE", "ULE"} ->
             cmp \o <<Set(one, 1), Cs("csn", d, d, rd0, one)>>
      [] icc = "EQ" -> cmp \o <<Set(one, 1), Cs("csz", d, d, one, rd0)>>
      [] icc = "NE" -> Append(cmp, AluI("and", d, d, 1))
      [] OTHER -> <<Refuse>>

selectSETCC(icc, l, r, d, one) ==
    LET cmp == <<IF icc \in {"GT", "LE", "UGT", "ULE"}
                 THEN Alu(Cmp(icc), d, r, l) ELSE Alu(Cmp(icc), d, l, r)>> IN
    CASE icc \in {"GT", "LT", "UGT", "ULT"} -> Append(cmp, AluI("shru", d, d, XLEN - 1))
      [] icc \in {"GE", "LE", "UGE", "ULE"} ->
             cmp \o <<Set(one, 1), Cs("csn", d, d, rd0, one)>>
      [] icc = "EQ" -> cmp \o <<Set(one, 1), Cs("csz", d, d, one, rd0)>>
      [] icc = "NE" -> Append(cmp, AluI("and", d, d, 1))
      [] OTHER -> <<Refuse>>

selectSELECT_CC(icc, l, r, t, f, d, one) ==
    selectSETCC(icc, l, r, d, one) \o <<Cs("csp", d, d, t, f)>>

selectBR_CC(icc, l, r, d, target) ==
    LET branch == CASE icc \in {"GT", "UGT"} -> "brp" [] icc \in {"LT", "ULT", "MI"} -> "brn"
                    [] icc \in {"GE", "UGE", "PL"} -> "brnn" [] icc \in {"LE", "ULE"} -> "brnp"
                    [] icc = "EQ" -> "breq" [] icc = "NE" -> "brne"
    IN IF icc \in SignedCodes \union UnsignedCodes
       THEN <<Alu(Cmp(icc), d, l, r), Br(branch, d, rd0, target)>>
       ELSE <<Br(branch, l, IF icc \in {"EQ", "NE"} THEN r ELSE rd0, target)>>

(* Both return two results; the second is the low half, or the quotient. *)
selectMUL(l, r, d, other) == <<MulDiv("muls", other, d, l, r)>>
selectDIVREM(op, l, r, d, other) ==
    LET insn == IF op \in {"udiv", "urem"} THEN "divu" ELSE "divs" IN
    <<IF op \in {"urem", "srem"} THEN MulDiv(insn, d, other, l, r)
                                 ELSE MulDiv(insn, other, d, l, r)>>

selectFrameIndex(fi, d) == <<AluI("add", d, fi, 0)>>

(* Base and offset of an address; a base that is no frame index is a node  *)
(* still to be computed. A small constant is an offset from rd0.           *)
selectAddrRRII(addr) ==
    CASE IsConst(addr) /\ Fits(12, Signed(addr[2])) ->
           [base |-> <<"reg", rd0>>, off |-> Signed(addr[2])]
      [] addr[1] = "add" /\ IsConst(addr[3]) /\ Fits(12, Signed(addr[3][2])) ->
           [base |-> addr[2], off |-> Signed(addr[3][2])]
      [] OTHER -> [base |-> addr, off |-> 0]

TableGen == [add |-> "add", sub |-> "sub", and |-> "and", or |-> "orr",
             xor |-> "xor", shl |-> "shlu", srl |-> "shru"]

(* Code that computes node n, numbering new values from k on: the code, the *)
(* register of the value and the next number. Values 1 to 20 are the       *)
(* function's arguments.                                                   *)
RECURSIVE Selected(_, _)
Selected(n, k) ==
    LET Here(code, regs) == [code |-> code, reg |-> V(k), k |-> k + regs]
        Of(m, j) == Selected(m, j)
    IN CASE n[1] = "arg"   -> [code |-> <<>>, reg |-> V(n[2]), k |-> k]
         [] n[1] = "reg"   -> [code |-> <<>>, reg |-> n[2], k |-> k]
         [] n[1] = "const" -> IF n = Const(0) THEN [code |-> <<>>, reg |-> rd0, k |-> k]
                              ELSE Here(<<Set(V(k), n[2])>>, 1)
         [] n[1] = "fi"    -> Here(selectFrameIndex(n, V(k)), 1)
         [] n[1] = "load"  ->
                LET a == selectAddrRRII(n[2])
                    base == IF a.base[1] = "fi"
                            THEN [code |-> <<>>, reg |-> a.base, k |-> k]
                            ELSE Of(a.base, k)
                IN [code |-> Append(base.code, Ld(8, V(base.k), base.reg, a.off)),
                    reg |-> V(base.k), k |-> base.k + 1]
         [] n[1] = "set_icc" ->
                LET l == Of(n[2], k)  r == Of(n[3], l.k) IN
                [code |-> l.code \o r.code \o
                          selectSETCC(n[4], l.reg, r.reg, V(r.k), V(r.k + 1)),
                 reg |-> V(r.k), k |-> r.k + 2]
         [] n[1] \in setOperationAction -> Of(LowerOperation(n), k)
         [] n[1] = "zext"  -> Of(n[2], k)
         [] n[1] = "select_cc" ->
                LET l == Of(n[2], k)  r == Of(n[3], l.k)
                    t == Of(n[4], r.k)  f == Of(n[5], t.k)
                IN [code |-> l.code \o r.code \o t.code \o f.code \o
                             selectSELECT_CC(n[6], l.reg, r.reg, t.reg, f.reg,
                                             V(f.k), V(f.k + 1)),
                    reg |-> V(f.k), k |-> f.k + 2]
         [] OTHER ->
                LET l == Of(n[2], k)  r == Of(n[3], l.k)  d == V(r.k)
                    own == CASE n[1] = "mul" -> selectMUL(l.reg, r.reg, d, V(r.k + 1))
                             [] n[1] \in {"sdiv", "udiv", "srem", "urem"} ->
                                    selectDIVREM(n[1], l.reg, r.reg, d, V(r.k + 1))
                             [] OTHER -> <<Alu(TableGen[n[1]], d, l.reg, r.reg)>>
                IN [code |-> l.code \o r.code \o own, reg |-> d, k |-> r.k + 2]

----------------------------------------------------------------------------
(* Branches between blocks. A block is a sequence of instructions; order   *)
(* is the sequence of block numbers as they are laid out.                  *)

Successor(order, b) ==
    LET k == CHOOSE j \in DOMAIN order : order[j] = b
    IN IF k = Len(order) THEN 0 ELSE order[k + 1]

IsJump(block) == block # <<>> /\ Last(block).op = "jump"
IsBranch(block) == block # <<>> /\ Last(block).op \in Branches
IsTerminated(block) == block # <<>> /\ Last(block).op \in Branches \union {"ret"}

(* The block, its unconditional destination (0: the one laid out next) and *)
(* whether it could be analysed. Conditional branches cannot; with         *)
(* AllowModify the jump to the next block is gone all the same.            *)
analyzeBranch(block, next, allowModify) ==
    LET drop == allowModify /\ IsJump(block) /\ Last(block).i = next
        kept == IF drop THEN Front(block) ELSE block
        rest == IF IsJump(kept) THEN Front(kept) ELSE kept
    IN [block |-> kept, true |-> IF IsJump(kept) THEN Last(kept).i ELSE 0,
        ok |-> ~IsTerminated(rest)]

removeBranch(block) == IF IsBranch(block) THEN Front(block) ELSE block
insertBranch(block, true) == Append(block, Jump(true))

(* Moving the blocks: of those that were analysed the branch is made anew, *)
(* the others must stay in front of the block they fall through to.        *)
Placed(blocks, old, new, allowModify) ==
    LET a == [b \in DOMAIN blocks |->
                analyzeBranch(blocks[b], Successor(old, b), allowModify)]
        dest == [b \in DOMAIN blocks |->
                   IF a[b].true # 0 THEN a[b].true ELSE Successor(old, b)]
        stuck == \E b \in DOMAIN blocks : /\ ~a[b].ok /\ ~IsJump(a[b].block)
                                          /\ Last(a[b].block).op # "ret"
                                          /\ Successor(old, b) # Successor(new, b)
        order == IF stuck THEN old ELSE new
        Anew(b) == LET bare == removeBranch(a[b].block) IN
                   IF dest[b] = Successor(order, b) THEN bare ELSE insertBranch(bare, dest[b])
    IN FlattenSeq([k \in DOMAIN order |->
           <<Label(order[k])>> \o (IF a[order[k]].ok THEN Anew(order[k])
                                   ELSE a[order[k]].block)])
============================================================================
