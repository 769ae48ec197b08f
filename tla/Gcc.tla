-------------------------------- MODULE Gcc ---------------------------------
(***************************************************************************)
(* GCC's Dadao port: which addresses it takes and how it prints the loads  *)
(* and stores that use them, how it passes arguments, and the frame it     *)
(* sets up: the code of the caller and the callee of a program.            *)
(*                                                                         *)
(* An address in RTL is <<"reg", r>>, <<"int", c>>, <<"mem", x>> or        *)
(* <<"plus", x1, x2>>.                                                     *)
(***************************************************************************)
EXTENDS Programs

Reg(r) == <<"reg", r>>
CInt(c) == <<"int", c>>
Mem(x) == <<"mem", x>>
Plus(x, y) == <<"plus", x, y>>

Pointer(x) == x[1] = "reg" /\ x[2][1] = "rb"      \* POINTER_REGS
General(x) == x[1] = "reg" /\ x[2][1] = "rd"      \* GENERAL_REGS
Id(x) == x[1] = "int" /\ Fits(12, x[2])

(* adddi3 on the stack pointer: addi, or through rd7 if the constant has   *)
(* more than twelve bits.                                                  *)
AddImm(r, i) == IF Fits(12, i) THEN <<AluI("add", r, r, i)>>
                ELSE <<Set(IP, i), Alu("add", r, r, IP)>>

----------------------------------------------------------------------------
(* Addresses. *)

BaseAndIndex(x, y) == \/ Pointer(x) /\ (General(y) \/ Id(y))
                      \/ General(x) /\ Pointer(y)

RECURSIVE dd_judge_legitimate_address(_)
dd_judge_legitimate_address(x) ==
    /\ x[1] = "mem"
    /\ \/ Pointer(x[2])
       \/ /\ x[2][1] = "plus"
          /\ LET op0 == x[2][2]  op1 == x[2][3] IN
             \/ BaseAndIndex(op0, op1)
             \/ Pointer(op0) /\ dd_judge_legitimate_address(op1)
             \/ Pointer(op1) /\ dd_judge_legitimate_address(op0)

dd_legitimate_address_p(x) ==
    \/ Pointer(x)
    \/ /\ x[1] = "plus"
       /\ \/ BaseAndIndex(x[2], x[3])
          \/ Pointer(x[2]) /\ dd_judge_legitimate_address(x[3])
          \/ Pointer(x[3]) /\ dd_judge_legitimate_address(x[2])

----------------------------------------------------------------------------
(* Loads and stores: op is "ld" or "st", r the register. *)

(* The machine modes of 1, 2, 4 and 8 bytes are numbered from 7, and the   *)
(* letter of the mnemonic, given by its width, is found modulo four.       *)
E_mode(w) == CASE w = 1 -> 7 [] w = 2 -> 8 [] w = 4 -> 9 [] w = 8 -> 10
ldst_mmodes == <<2, 4, 8, 1>>
Width(w) == ldst_mmodes[(E_mode(w) % 4) + 1]

(* The line printed: base and offset, or with m base and index register;   *)
(* the assembler takes no other classes of registers.                      *)
Single(op, w, r, base, i) == <<[Ld(w, r, base, i) EXCEPT !.op = op]>>
Multiple(op, w, r, base, index) ==
    IF base[1] = "rb" /\ index[1] = "rd"
    THEN <<[Ldm(w, r, base, index) EXCEPT !.op = op \o "m"]>> ELSE <<Refuse>>

(* %0 or %1 of the template: a memory operand as the address has it. A     *)
(* memory operand in front of the base register is fatal.                  *)
dd_print_operand_address(op, w, r, x) ==
    CASE x[1] = "reg" -> Single(op, w, r, x[2], 0)
      [] x[1] = "plus" /\ Pointer(x[2]) /\ Id(x[3])      -> Single(op, w, r, x[2][2], x[3][2])
      [] x[1] = "plus" /\ Pointer(x[2]) /\ General(x[3]) -> Multiple(op, w, r, x[2][2], x[3][2])
      [] x[1] = "plus" /\ General(x[2]) /\ Pointer(x[3]) -> Multiple(op, w, r, x[3][2], x[2][2])
      [] OTHER -> <<Refuse>>

(* The offset that is itself in memory is loaded into dest first. For the  *)
(* address in a register alone the line is not ended, and what follows is  *)
(* printed on the same one. Base and index are taken in the order they     *)
(* come in, which the assembler refuses for rd before rb.                  *)
RECURSIVE dadao_print_indirect_operand(_, _)
dadao_print_indirect_operand(dest, src) ==
    LET addr == src[2]
        op0 == addr[2]  op1 == addr[3]
    IN CASE addr[1] = "reg" -> <<Refuse>>
         [] addr[1] = "plus" /\ op0[1] = "reg" ->
                CASE op1[1] = "mem" -> dadao_print_indirect_operand(IP, op1)
                                         \o Multiple("ld", 8, dest, op0[2], IP)
                  [] op1[1] = "reg" -> Multiple("ld", 8, dest, op0[2], op1[2])
                  [] op1[1] = "int" -> Single("ld", 8, dest, op0[2], op1[2])
         [] OTHER -> <<Refuse>>

dadao_print_ldst_operand(op, width, r, x) ==
    LET w == Width(width) IN
    IF x[1] = "reg" \/ General(x[2]) \/ x[3][1] # "mem" THEN dd_print_operand_address(op, w, r, x)
    ELSE dadao_print_indirect_operand(IP, x[3]) \o Multiple(op, w, r, x[2][2], IP)

(* Single precision or double. The line of an indirect load is not ended.  *)
dadao_print_fldst_operand(op, width, r, x) ==
    LET w == IF width = 4 THEN 4 ELSE 8 IN
    IF x[1] = "reg" \/ General(x[2]) \/ x[3][1] # "mem" THEN dd_print_operand_address(op, w, r, x)
    ELSE IF op = "ld" THEN <<Refuse>>
    ELSE dadao_print_indirect_operand(IP, x[3]) \o Multiple(op, w, r, x[2][2], IP)

(* Reload, which is not part of the port, computes an address that is not  *)
(* legitimate into pointer registers.                                      *)
RECURSIVE Reloaded(_, _)
Reloaded(x, k) ==
    LET r == <<"rb", k>> IN
    CASE x[1] = "reg" -> <<Mv(r, x[2])>>
      [] x[1] = "int" -> <<Set(r, x[2])>>
      [] x[1] = "mem" -> Reloaded(x[2], k) \o <<Ld(8, r, r, 0)>>
      [] x[1] = "plus" -> Reloaded(x[2], k) \o Reloaded(x[3], k + 1)
                            \o <<Alu("add", r, r, <<"rb", k + 1>>)>>

Access(op, w, r, x) ==
    LET Printed(y) == IF r[1] = "rf" THEN dadao_print_fldst_operand(op, w, r, y)
                                     ELSE dadao_print_ldst_operand(op, w, r, y)
    IN IF dd_legitimate_address_p(x) THEN Printed(x)
       ELSE Reloaded(x, 9) \o Printed(Reg(<<"rb", 9>>))

----------------------------------------------------------------------------
(* Frames. *)

ArgRegs == 16                 \* DADAO_MAX_ARGS_IN_REGS

(* Scalars and the addresses of structures are passed in a register each,  *)
(* then in the caller's outgoing area.                                     *)
dd_function_arg(i) == IF i <= ArgRegs THEN Arg(i) ELSE rd0
outgoing_args_size(p, f) == IF f = "caller" THEN 8 * Most(Len(p.vals) - ArgRegs, 0) ELSE 0

(* Locals, and the stack pointer saved while blocks are allocated. *)
get_frame_size(p, f) == SizeOf(Objects(p, f), Len(Objects(p, f)))
                          + (IF p[f].dyn > 0 THEN 8 ELSE 0)

pretend_args_size(p, f) ==
    IF f = "callee" /\ Variadic(p) THEN 8 * Most(ArgRegs - p.fixed, 0) ELSE 0

dd_frame_pointer_required(p, f) ==
    f = "caller" \/ get_frame_size(p, f) # 0 \/ Variadic(p) \/ p[f].dyn > 0

(* From the argument pointer to what replaces it, where the arguments that *)
(* come on the stack are taken to be; from the frame pointer to the stack  *)
(* pointer.                                                                *)
dadao_initial_elimination_offset(fromreg, p, f) ==
    IF fromreg = "ARG_POINTER" THEN 0
    ELSE 8 * ((outgoing_args_size(p, f) + get_frame_size(p, f) + 7) \div 8)
ArgOffset(p) == dadao_initial_elimination_offset("ARG_POINTER", p, "callee")

(* Callee-saved registers in use, in the order they are saved. *)
CallSaved == {"rd", "rb", "rf"} \X (32 .. 63)
dadao_call_saved_regs(fn) ==
    LET Rank(r) == (CASE r[1] = "rd" -> 0 [] r[1] = "rb" -> 64 [] r[1] = "rf" -> 128) + r[2]
    IN SetToSortSeq(fn.uses \intersect CallSaved, LAMBDA x, y : Rank(x) < Rank(y))

dadao_expand_prologue(p, f) ==
    LET fp == dd_frame_pointer_required(p, f)
        first == IF fp THEN -8 ELSE 0
        saved == dadao_call_saved_regs(p[f])
        below == first - 8 * Len(saved) - pretend_args_size(p, f)
        fsize == get_frame_size(p, f)
    IN (IF fp THEN <<St(8, FP, SP, first)>> ELSE <<>>)
         \o [k \in DOMAIN saved |-> St(8, saved[k], SP, first - 8 * k)]
         \o (IF below # 0 THEN AddImm(SP, below) ELSE <<>>)
         \o (IF fp THEN <<Mv(FP, SP)>> ELSE <<>>)
         \o (IF fsize # 0 THEN AddImm(SP, -fsize) ELSE <<>>)

dadao_expand_epilogue(p, f) ==
    LET saved == Reverse(dadao_call_saved_regs(p[f]))
        above == get_frame_size(p, f) + pretend_args_size(p, f)
        n == 8 * Len(saved)
    IN (IF above # 0 THEN AddImm(SP, above) ELSE <<>>)
         \o [k \in DOMAIN saved |-> Ld(8, saved[k], SP, 8 * (k - 1))]
         \o (IF n # 0 THEN AddImm(SP, n) ELSE <<>>)
         \o (IF dd_frame_pointer_required(p, f)
             THEN <<Ld(8, FP, SP, 0)>> \o AddImm(SP, 8) ELSE <<>>)

(* The registers that may hold variable arguments are stored where the     *)
(* arguments on the stack are taken to start.                              *)
dd_setup_incoming_varargs(p) ==
    IF ~Variadic(p) THEN <<>>
    ELSE [k \in 1 .. Most(ArgRegs - p.fixed, 0) |->
            St(8, Arg(p.fixed + k), FP, ArgOffset(p) + 8 * (k - 1))]

----------------------------------------------------------------------------
(* The functions. *)

(* A place in the frame: without a frame pointer, from the stack pointer.  *)
FramePlace(p, f, off) ==
    IF dd_frame_pointer_required(p, f) THEN Plus(Reg(FP), CInt(off))
    ELSE Plus(Reg(SP), CInt(off + dadao_initial_elimination_offset("FRAME_POINTER", p, f)))
LocalAddress(p, f, k, off) == FramePlace(p, f, off - SizeOf(Objects(p, f), k))

(* The stack pointer is saved, moved down, and put back before the         *)
(* epilogue; the block starts above the outgoing arguments.                *)
SavedSp(p, f) == FramePlace(p, f, -get_frame_size(p, f))
Alloca(p, f) ==
    IF p[f].dyn = 0 THEN <<>>
    ELSE <<Mv(V(92), SP)>> \o Access("st", 8, V(92), SavedSp(p, f))
           \o AddImm(SP, -p[f].dyn)
           \o <<Set(V(93), outgoing_args_size(p, f)), Alu("add", V(93), SP, V(93)),
                Set(V(92), Junk), St(8, V(92), V(93), 0), St(8, V(92), V(93), p[f].dyn - 8)>>
ReleaseBlocks(p, f) ==
    IF p[f].dyn = 0 THEN <<>>
    ELSE Access("ld", 8, V(92), SavedSp(p, f)) \o <<Mv(SP, V(92))>>

CallTo(p) ==
    LET Value(i) == IF ArgNode(p, i)[1] = "fi"
                    THEN Reloaded(LocalAddress(p, "caller", ArgNode(p, i)[2], 0), 9)
                           \o <<Mv(V(i), <<"rb", 9>>)>>
                    ELSE <<Set(V(i), p.vals[i])>>
        Place(i) == IF dd_function_arg(i) = rd0 THEN St(8, V(i), SP, 8 * (i - ArgRegs - 1))
                                                ELSE Mv(dd_function_arg(i), V(i))
        At(k) == LocalAddress(p, "caller", k, 0)
    IN (IF p.agg = 0 THEN <<>>                       \* dd_pass_by_reference
        ELSE Access("ld", 8, V(91), At(1)) \o Access("st", 8, V(91), At(ExtraObject(p, "caller"))))
         \o FlattenSeq([i \in DOMAIN p.vals |-> Value(i)])
         \o [i \in DOMAIN p.vals |-> Place(i)] \o <<Call>>

dd_function_value == RV

(* Parameters; in "ldst" the first two are a pointer and an index. *)
Param(p, i) == CASE IsLdSt(p) /\ i = 1 -> <<"rb", 8>>
                 [] IsLdSt(p) /\ i = 2 -> <<"rd", 9>>
                 [] OTHER -> V(i)
Parameters(p) ==
    [i \in 1 .. p.fixed |->
        IF dd_function_arg(i) # rd0 THEN Mv(Param(p, i), Arg(i))
        ELSE Ld(8, V(i), IF dd_frame_pointer_required(p, "callee") THEN FP ELSE SP,
                ArgOffset(p) + 8 * (i - ArgRegs - 1))]

(* A comparison leaves its outcome in a register for the branch. *)
dadao_select_cc_mode(cc) == IF cc \in {"UGT", "ULT", "UGE", "ULE"} THEN "cmpu" ELSE "cmps"
BranchOn(cc) == CASE cc = "EQ" -> "brz" [] cc = "NE" -> "brnz"
                  [] cc \in {"GT", "UGT"} -> "brp"  [] cc \in {"LT", "ULT"} -> "brn"
                  [] cc \in {"GE", "UGE"} -> "brnn" [] cc \in {"LE", "ULE"} -> "brnp"

GccBody(p) ==
    LET b == p.body
        Value(n, k) == IF IsConst(n) THEN <<Set(V(k), n[2])>> ELSE <<Mv(V(k), V(n[2]))>>
        extra == LocalAddress(p, "callee", ExtraObject(p, "callee"), 0)
    IN CASE b[1] = "expr" -> Value(b[2], 30) \o <<Mv(dd_function_value, V(30))>>
         [] b[1] = "agg" -> <<Mv(<<"rb", 8>>, V(p.agg))>>
                              \o Access("ld", 8, V(81), Reg(<<"rb", 8>>))
                              \o <<Set(V(82), Junk)>>
                              \o Access("st", 8, V(82), Reg(<<"rb", 8>>)) \o <<Mv(RV, V(81))>>
         [] b[1] = "vararg" ->
                Reloaded(Plus(Reg(FP), CInt(ArgOffset(p))), 8)
                  \o Access("st", 8, <<"rb", 8>>, extra)
                  \o Access("ld", 8, <<"rb", 8>>, extra)
                  \o Access("ld", 8, RV, Plus(Reg(<<"rb", 8>>), CInt(8 * (b[2] - 1))))
         [] b[1] = "ldst" ->
                LET r == IF b[4] THEN <<"rf", 8>> ELSE <<"rd", 8>> IN
                <<Mv(r, V(3))>> \o Access("st", b[2], r, b[3])
                  \o <<Set(r, Junk)>> \o Access("ld", b[2], r, b[3]) \o <<Mv(RV, r)>>
         [] b[1] = "br" ->
                Value(b[3], 30) \o Value(b[4], 31)
                  \o <<Alu(dadao_select_cc_mode(b[2]), V(32), V(30), V(31)),
                       Br(BranchOn(b[2]), V(32), rd0, 2), Set(RV, 2), Jump(3),
                       Label(2), Set(RV, 1), Label(3)>>

CompiledByGcc(p, f) ==
    LET Store(v, k, off) == Access("st", 8, v, LocalAddress(p, f, k, off))
        Load(w, v, k, off) == Access("ld", w, v, LocalAddress(p, f, k, off))
    IN dadao_expand_prologue(p, f)
         \o (IF f = "caller"
             THEN Prepared(p, Store) \o Alloca(p, f) \o ClobberRegs(p[f])
                    \o CallTo(p) \o Returned(p, dd_function_value, Load)
             ELSE dd_setup_incoming_varargs(p) \o Parameters(p) \o Alloca(p, f)
                    \o ClobberRegs(p[f]) \o ClobberLocals(p[f], Store) \o GccBody(p))
         \o ReleaseBlocks(p, f) \o dadao_expand_epilogue(p, f) \o <<Ret>>
============================================================================
