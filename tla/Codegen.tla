------------------------------ MODULE Codegen -------------------------------
(***************************************************************************)
(* The two compilers and the machine: a program is compiled, its caller by *)
(* one compiler and its callee by the same or the other, and the code is   *)
(* run one instruction at a time. A program the compilers or the assembler *)
(* stop at is not run.                                                     *)
(*                                                                         *)
(* regs and mem hold what was written so far (0 elsewhere), ras the        *)
(* return-address stack. calls is a history variable: for every call that  *)
(* has not returned, what the calling side may rely on.                    *)
(***************************************************************************)
EXTENDS LlvmFrames, Gcc

CONSTANTS Progs,             \* the programs compiled
          Top,               \* the stack pointer the caller is entered with
          Kept               \* callee-saved registers that hold a value then

VARIABLES prog, code, at, regs, mem, ras, calls, phase
vars == <<prog, code, at, regs, mem, ras, calls, phase>>

Reg0(rs, r) == IF r \in DOMAIN rs /\ r # rd0 THEN rs[r] ELSE 0
Get(r) == Reg0(regs, r)
Put(r, x) == IF r = rd0 THEN regs ELSE (r :> x) @@ regs

(* What the calling side relies on: the registers its compiler takes a     *)
(* call to keep, and the memory above its outgoing arguments but for the   *)
(* objects whose address it passes.                                        *)
CalleeSaved(by) == {SP, FP} \union (IF by = "llvm" THEN Csr ELSE CallSaved)
Outgoing(p) == IF p.caller.by = "llvm" THEN NumBytes(p) ELSE outgoing_args_size(p, "caller")
Lent(p) == (IF p.agg = 0 THEN {} ELSE {Get(Arg(p.agg))})
             \union (IF IsLdSt(p) THEN {Get(Arg(1)) + o : o \in {0, 8, 16}} ELSE {})
Relied(sp, lent) ==
    [regs |-> [r \in CalleeSaved(prog.caller.by) |-> Get(r)],
     mem  |-> [a \in {b \in DOMAIN mem : b >= sp /\ b \notin lent} |-> mem[a]]]

StartRegs == (SP :> Top) @@ (FP :> Top + 64) @@ [r \in Kept |-> Cut(r[2] + 1)]

Init ==
    /\ prog \in Progs
    /\ code = [caller |-> <<>>, callee |-> <<>>]
    /\ at = [fn |-> "caller", pc |-> 1]
    /\ regs = StartRegs
    /\ mem = (Top :> Mark)
    /\ ras = <<>>
    /\ calls = <<>>
    /\ phase = "compile"

(* One function is compiled; the code runs when both are. *)
Compile(f, made) ==
    /\ phase = "compile" /\ code[f] = <<>>
    /\ code' = [code EXCEPT ![f] = made]
    /\ phase' = IF \E g \in DOMAIN code : Refused(code'[g]) THEN "refused"
                ELSE IF \A g \in DOMAIN code : code'[g] # <<>> THEN "run" ELSE "compile"
    /\ calls' = IF phase' = "run" THEN <<Relied(Top, {})>> ELSE <<>>
    /\ UNCHANGED <<prog, at, regs, mem, ras>>

CompileLlvm(f) == prog[f].by = "llvm" /\ Compile(f, CompiledByLlvm(prog, f))
CompileGcc(f) == prog[f].by = "gcc" /\ Compile(f, CompiledByGcc(prog, f))

----------------------------------------------------------------------------
(* Execution. *)

This == code[at.fn][at.pc]
Onward == at' = [at EXCEPT !.pc = @ + 1]

Compute ==
    /\ phase = "run"
    /\ LET i == This IN
       \/ /\ i.op = "label" /\ regs' = regs
       \/ /\ i.op = "set" /\ regs' = Put(i.d, Cut(i.i))
       \/ /\ i.op = "mv" /\ regs' = Put(i.d, Get(i.a))
       \/ /\ i.op \in AluOps
          /\ LET y == IF i.op \in {"addi", "andi", "shrui"} THEN Cut(Imm(i.op, i.i))
                                                            ELSE Get(i.b)
             IN \E u \in BOOLEAN : regs' = Put(i.d, Computed(i.op, Get(i.a), y, u))
       \/ /\ i.op \in Conditions
          /\ regs' = Put(i.d, Get(IF Chosen(i.op, Get(i.a)) THEN i.b ELSE i.e))
       \/ /\ i.op \in Pairs
          /\ LET two == PairOf(i.op, Get(i.a), Get(i.b)) IN
             regs' = (i.d :> two[1]) @@ (i.e :> two[2]) @@ regs
    /\ Onward /\ UNCHANGED <<prog, code, mem, ras, calls, phase>>

Memory ==
    /\ phase = "run"
    /\ LET i == This
           a == Cut(Get(i.a) + (IF i.op \in {"ldm", "stm"} THEN Get(i.b) ELSE Imm(i.op, i.i)))
       IN \/ /\ i.op \in {"ld", "ldm"}
             /\ regs' = Put(i.d, Low(i.w, Cell(mem, a))) /\ mem' = mem
          \/ /\ i.op \in {"st", "stm"}
             /\ mem' = Stored(mem, i.w, a, Get(i.d)) /\ regs' = regs
    /\ Onward /\ UNCHANGED <<prog, code, ras, calls, phase>>

Branch ==
    /\ phase = "run" /\ This.op \in Branches
    /\ at' = [at EXCEPT !.pc =
                IF Taken(This.op, Get(This.a), Get(This.b))
                THEN CHOOSE k \in DOMAIN code[at.fn] : code[at.fn][k] = Label(This.i)
                ELSE @ + 1]
    /\ UNCHANGED <<prog, code, regs, mem, ras, calls, phase>>

CallInsn ==
    /\ phase = "run" /\ This.op = "call"
    /\ ras' = Append(ras, [at EXCEPT !.pc = @ + 1])
    /\ at' = [fn |-> "callee", pc |-> 1]
    /\ calls' = Append(calls, Relied(Get(SP) + Outgoing(prog), Lent(prog)))
    /\ UNCHANGED <<prog, code, regs, mem, phase>>

RetInsn ==
    /\ phase = "run" /\ This.op = "ret"
    /\ calls' = Front(calls)
    /\ IF ras = <<>> THEN phase' = "done" /\ UNCHANGED <<at, ras>>
       ELSE at' = Last(ras) /\ ras' = Front(ras) /\ UNCHANGED phase
    /\ UNCHANGED <<prog, code, regs, mem>>

Halt == phase \in {"done", "refused"} /\ UNCHANGED vars

Next == \/ \E f \in {"caller", "callee"} : CompileLlvm(f) \/ CompileGcc(f)
        \/ Compute \/ Memory \/ Branch \/ CallInsn \/ RetInsn \/ Halt

Spec == Init /\ [][Next]_vars /\ WF_vars(Next)

----------------------------------------------------------------------------
(* A program that compiles returns what it means: the values of its        *)
(* expressions, the arguments where the callee looks for them, variable    *)
(* arguments and structures too, addresses that name what the source       *)
(* names, and the caller's locals as it left them (selection and combines  *)
(* of LLVM's DadaoISelLowering.cpp and DadaoISelDAGToDAG.cpp, and the      *)
(* printing, argument and frame code of GCC's dadao.c).                    *)
Computes == phase = "done" => Get(RV) = Result(prog)

(* When a call returns, every register its calling side takes to be        *)
(* callee-saved, the stack pointer, the frame pointer and all memory above *)
(* the outgoing arguments are as they were (emitPrologue and emitEpilogue  *)
(* of DadaoFrameLowering.cpp, dadao_expand_prologue and -epilogue of       *)
(* dadao.c), whichever compiler compiled the function called.              *)
AsRelied == LET c == Last(calls) IN
            /\ \A r \in DOMAIN c.regs : Reg0(regs', r) = c.regs[r]
            /\ \A a \in DOMAIN c.mem : mem'[a] = c.mem[a]
FramesKept == [][Len(calls') < Len(calls) => AsRelied]_vars
============================================================================
