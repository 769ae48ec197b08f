----------------------------- MODULE LlvmFrames -----------------------------
(***************************************************************************)
(* How LLVM's Dadao back end passes arguments, lays out a frame and sets   *)
(* it up: the code of the caller and the callee of a program.              *)
(***************************************************************************)
EXTENDS LlvmIsel

----------------------------------------------------------------------------
(* The calling convention. *)

ArgGPRs == 16

(* Sixteen registers, then the stack in units of eight bytes. *)
CC_Dadao32(i) == IF i <= ArgGPRs THEN [mem |-> FALSE, at |-> i]
                 ELSE [mem |-> TRUE, at |-> 8 * (i - ArgGPRs - 1)]

(* Variable arguments are always on the stack. *)
CC_Dadao32_VarArg(i, fixed) ==
    IF i <= fixed THEN CC_Dadao32(i)
    ELSE [mem |-> TRUE, at |-> 8 * (Most(fixed - ArgGPRs, 0) + (i - fixed - 1))]

(* Where the caller puts argument i: the number of fixed parameters is     *)
(* known only for a variadic callee that is called by name.                *)
ArgLoc(p, i) ==
    IF Variadic(p) /\ p.direct /\ ~p.printf THEN CC_Dadao32_VarArg(i, p.fixed)
                                            ELSE CC_Dadao32(i)

NumBytes(p) ==
    LET ends == {0} \union {ArgLoc(p, i).at + 8 : i \in {j \in DOMAIN p.vals : ArgLoc(p, j).mem}}
    IN CHOOSE n \in ends : \A m \in ends : n >= m

----------------------------------------------------------------------------
(* Frame objects: callee-saved registers below the saved frame pointer,    *)
(* then the locals in order. Fi(k) is the k-th local, Fi(100 + n) the slot *)
(* of rdn, and Fi(-i) the incoming stack slot of argument i.               *)

Csr == {<<"rd", n>> : n \in 32 .. 63}
Saved(fn) == SetToSortSeq(fn.uses \intersect Csr, LAMBDA x, y : x[2] < y[2])

hasBasePointer(fn) == fn.realign /\ fn.dyn > 0

(* Bytes of fixed objects below the frame pointer's target. *)
determineCalleeSaves(fn) == IF hasBasePointer(fn) THEN 16 ELSE 8
SpOffset == -8

ObjectOffset(p, f, k) ==
    LET fixed == determineCalleeSaves(p[f])
        saved == Saved(p[f])
    IN CASE k < 0     -> 8 * (-k - ArgGPRs - 1)
         [] k \in 1 .. 99 -> -(fixed + 8 * Len(saved) + SizeOf(Objects(p, f), k))
         [] k > 99    -> -(fixed + 8 * (CHOOSE j \in DOMAIN saved : saved[j][2] = k - 100))

MaxAlign == 16       \* of a local that wants realignment
MaxCallFrameSize(p, f) ==
    LET bytes == IF f = "caller" THEN NumBytes(p) ELSE 0
    IN IF p[f].dyn > 0 THEN AlignTo(bytes, IF p[f].realign THEN MaxAlign ELSE 8) ELSE bytes

(* The size of the frame: hasReservedCallFrame is false as every function  *)
(* has a frame pointer, so the arguments of calls are added here.          *)
determineFrameLayout(p, f) ==
    AlignTo(determineCalleeSaves(p[f]) + 8 * Len(Saved(p[f]))
                + SizeOf(Objects(p, f), Len(Objects(p, f))) + MaxCallFrameSize(p, f),
            IF p[f].realign THEN MaxAlign ELSE 8)

emitPrologue(p, f) ==
    LET size == determineFrameLayout(p, f) IN
    <<St(8, FP, SP, SpOffset), AluI("add", FP, SP, 0)>>
        \o (IF size # 0 THEN <<AluI("add", SP, SP, -size)>> ELSE <<>>)

(* Mutant of emitEpilogue: the stack pointer is moved by the size of the   *)
(* frame, as if nothing had been allocated since.                          *)
emitEpilogueBySize(p, f) ==
    <<AluI("add", SP, SP, determineFrameLayout(p, f)), Ld(8, FP, FP, SpOffset)>>

emitEpilogue(p, f) == <<AluI("add", SP, FP, 0), Ld(8, FP, FP, SpOffset)>>

storeRegToStackSlot(fn) ==
    [k \in DOMAIN Saved(fn) |-> St(8, Saved(fn)[k], Fi(100 + Saved(fn)[k][2]), 0)]
loadRegFromStackSlot(fn) ==
    [k \in DOMAIN Saved(fn) |-> Ld(8, Saved(fn)[k], Fi(100 + Saved(fn)[k][2]), 0)]

(* A frame index becomes an offset from the frame pointer, or for a local  *)
(* of a realigned frame from the stack pointer (or the base pointer, which *)
(* nothing sets). An offset of more than 12 bits is stopped at: the opcode *)
(* that takes an address is not one the code expects, and a load or store  *)
(* becomes one of several registers without a count.                       *)
getFrameRegister(p, f, k) ==
    CASE k > 0 /\ hasBasePointer(p[f])                   -> <<"rb", 6>>
      [] k > 0 /\ p[f].realign /\ ~hasBasePointer(p[f])  -> SP
      [] OTHER                                           -> FP

eliminateFrameIndex(p, f, insn) ==
    LET k == insn.a[2]
        off == ObjectOffset(p, f, k) + insn.i
                   + (IF p[f].realign /\ k > 0 THEN determineFrameLayout(p, f) ELSE 0)
    IN IF insn.a[1] # "fi" THEN insn
       ELSE IF Fits(12, off) THEN [insn EXCEPT !.a = getFrameRegister(p, f, k), !.i = off]
       ELSE Refuse

----------------------------------------------------------------------------
(* The functions. *)

(* sp moves down; the block starts above the room for outgoing arguments,  *)
(* whose size replaceAdjDynAllocPseudo fills in.                           *)
LowerDYNAMIC_STACKALLOC(p, f, k) ==
    IF p[f].dyn = 0 THEN <<>>
    ELSE <<Set(V(k), p[f].dyn), Alu("sub", SP, SP, V(k)),
           AluI("add", V(k + 1), SP, MaxCallFrameSize(p, f)),
           Set(V(k + 2), Junk), St(8, V(k + 2), V(k + 1), 0),
           St(8, V(k + 2), V(k + 1), p[f].dyn - 8)>>

StoreLocal(v, k, off) == <<St(8, v, Fi(k), off)>>
LoadLocal(w, v, k, off) == <<Ld(w, v, Fi(k), off)>>

(* A copy between registers; none for floating registers. *)
copyPhysReg(d, a) == IF "rf" \in {d[1], a[1]} THEN Refuse ELSE Mv(d, a)

LowerCallResult == <<copyPhysReg(V(96), RV)>>

(* The call, which keeps the registers of Csr, and the copy of its result. *)
CallAndResult == <<Call>> \o LowerCallResult

LowerCCCCallTo(p) ==
    LET n == Len(p.vals)
        own == [i \in 1 .. n |-> Selected(ArgNode(p, i), 20 + 2 * i)]
        Places(mem) == SelectSeq([i \in 1 .. n |-> i], LAMBDA i : ArgLoc(p, i).mem = mem)
    IN (IF p.agg = 0 THEN <<>>
        ELSE <<Ld(8, V(91), Fi(1), 0), St(8, V(91), Fi(ExtraObject(p, "caller")), 0)>>)
         \o FlattenSeq([i \in 1 .. n |-> own[i].code])
         \o [k \in DOMAIN Places(TRUE) |->
               St(8, own[Places(TRUE)[k]].reg, SP, ArgLoc(p, Places(TRUE)[k]).at)]
         \o [k \in DOMAIN Places(FALSE) |->
               copyPhysReg(Arg(Places(FALSE)[k]), own[Places(FALSE)[k]].reg)]
         \o CallAndResult

(* The callee's parameters: the same convention, variadic or not; each one *)
(* on the stack is loaded from its fixed object.                           *)
LowerCCCArguments(p) ==
    [i \in 1 .. p.fixed |-> IF CC_Dadao32(i).mem THEN Ld(8, V(i), Fi(-i), 0)
                                                 ELSE copyPhysReg(V(i), Arg(i))]

(* The first variable argument is taken to follow the fixed ones on the    *)
(* stack; no register is saved.                                            *)
VarArgsFrameIndex(p) == Fi(-(Most(p.fixed, ArgGPRs) + 1))
LowerVASTART(p) ==
    <<AluI("add", V(80), VarArgsFrameIndex(p), 0),
      St(8, V(80), Fi(ExtraObject(p, "callee")), 0)>>

(* The code of the callee's body, leaving its result in rd31. *)
Body(p) ==
    LET b == p.body
        Value(n) == LET s == Selected(Combined(n), 30) IN Append(s.code, Mv(RV, s.reg))
    IN CASE b[1] = "expr" -> Value(b[2])
         [] b[1] = "outer" ->
                Value(<<"load", <<"add", <<"frameaddr", 1>>,
                                  Const(ObjectOffset(p, "caller", 1))>> >>)
         [] b[1] = "agg" ->
                <<Ld(8, V(81), V(p.agg), 0), Set(V(82), Junk),
                  St(8, V(82), V(p.agg), 0), Mv(RV, V(81))>>
         [] b[1] = "vararg" ->
                LowerVASTART(p) \o
                <<Ld(8, V(81), Fi(ExtraObject(p, "callee")), 0),
                  Ld(8, V(82), V(81), 8 * (b[2] - 1)), Mv(RV, V(82))>>
         [] b[1] = "ldst" ->
                LET a == selectAddrRRII(b[3])
                    base == Selected(a.base, 30)
                IN base.code \o <<St(b[2], V(3), base.reg, a.off),
                                  Ld(b[2], V(82), base.reg, a.off), Mv(RV, V(82))>>
         [] b[1] = "br" ->
                LET l == Selected(b[3], 30)
                    r == Selected(b[4], l.k)
                    blocks == << l.code \o r.code
                                   \o selectBR_CC(LowerBR_CC(b[2], b[4]), l.reg,
                                                  r.reg, V(r.k), 2) \o <<Jump(3)>>,
                                 <<Set(RV, 1), Jump(4)>>, <<Set(RV, 2), Jump(4)>>,
                                 <<Mv(RV, RV), Ret>> >>
                IN Placed(blocks, <<1, 2, 3, 4>>, b[5], b[6])

(* Every return has the callee-saved registers and the frame restored in   *)
(* front of it.                                                            *)
Returning(p, f, code) ==
    FlattenSeq([k \in DOMAIN code |->
        IF code[k].op = "ret"
        THEN loadRegFromStackSlot(p[f]) \o emitEpilogue(p, f) \o <<Ret>>
        ELSE <<code[k]>>])

CompiledByLlvm(p, f) ==
    LET inner == IF f = "caller"
                 THEN Prepared(p, StoreLocal)
                        \o LowerDYNAMIC_STACKALLOC(p, f, 92)
                        \o ClobberRegs(p[f])
                        \o LowerCCCCallTo(p)
                        \o Returned(p, V(96), LoadLocal) \o <<Ret>>
                 ELSE LowerCCCArguments(p)
                        \o LowerDYNAMIC_STACKALLOC(p, f, 92)
                        \o ClobberRegs(p[f]) \o ClobberLocals(p[f], StoreLocal)
                        \o Body(p)
                        \o (IF p.body[1] = "br" THEN <<>> ELSE <<Ret>>)
        all == emitPrologue(p, f) \o storeRegToStackSlot(p[f]) \o Returning(p, f, inner)
    IN [k \in DOMAIN all |-> eliminateFrameIndex(p, f, all[k])]
============================================================================
