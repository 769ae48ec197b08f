---------------------------- MODULE LrSc_proofs -----------------------------
(***************************************************************************)
(* Proof that the atomic64_* loops are atomic on the words their operands  *)
(* name, for any processors, counters, calls and word size. The invariant  *)
(* says what a processor between its lro and its sco can rely on: its      *)
(* reservation is for the address in its pointer register, and the         *)
(* remembered value is the one its registers were computed from. Nothing   *)
(* is said about the memory, which the other processors change; that the   *)
(* compare-and-swap succeeds is what makes the remembered value current    *)
(* again.                                                                  *)
(***************************************************************************)
EXTENDS LrSc, TLAPS

Kinds == {"add_return", "fetch_add", "xchg", "set", "cmpxchg", "fetch_add_unless", "read"}

(* The facts about the loop of processor c. *)
Loop(c) ==
  /\ pc[c] # "idle" => op[c] \in Calls
  /\ pc[c] = "mem" => Plain(op[c])
  /\ pc[c] \notin {"idle", "mem", "ret"} => ~Plain(op[c])
  /\ pc[c] \in {"br", "op", "sco"} =>
       load_res[c] = ptr[c] /\ load_val[c] = p[c] /\ ptr[c] \in Mapped
  /\ pc[c] = "br" => Looks(op[c])
  /\ pc[c] = "op" => Computes(op[c])
  /\ pc[c] \in {"op", "sco"} => ~Leaves(op[c], p[c])
  /\ pc[c] = "sco" /\ Computes(op[c]) => n[c] = Computed(op[c], p[c])

Inv == TypeOK /\ \A c \in Cpu : Loop(c)

(* The fields a call has. *)
LEMMA OpFields ==
  ASSUME NEW o \in Calls
  PROVE  /\ o.kind \in Kinds
         /\ o.v \in Mapped
         /\ o.kind # "read" => o.a \in Word
         /\ o.kind \in {"cmpxchg", "fetch_add_unless"} => o.b \in Word
<1>0. o \in Op
  BY CallsAssumption
<1>1. CASE o \in [kind : {"add_return", "fetch_add", "xchg", "set"}, v : Cell, a : Word]
  BY <1>1, CellAssumption DEF Kinds
<1>2. CASE o \in [kind : {"cmpxchg", "fetch_add_unless"}, v : Cell, a : Word, b : Word]
  BY <1>2, CellAssumption DEF Kinds
<1>3. CASE o \in [kind : {"read"}, v : Cell]
  BY <1>3, CellAssumption DEF Kinds
<1>4. QED
  BY <1>0, <1>1, <1>2, <1>3 DEF Op

(* A remainder is a word. *)
LEMMA RemainderIsWord ==
  ASSUME NEW i \in Int
  PROVE  i % M \in Word
BY MAssumption DEF Word

(* The ALU's result is a word. *)
LEMMA ComputedIsWord ==
  ASSUME NEW o \in Calls, NEW x \in Word, ~Plain(o)
  PROVE  Computed(o, x) \in Word
<1>1. o.a \in Word
  BY OpFields DEF Plain
<1>2. x + o.a \in Int
  BY <1>1 DEF Word
<1>3. QED
  BY <1>2, RemainderIsWord DEF Computed

-----------------------------------------------------------------------------
(* No processor is in a loop at first.                                     *)
LEMMA InitInv == Init => Inv
BY MAssumption DEF Init, Inv, TypeOK, Loop, Labels, Word

(* Every instruction of a processor keeps the types. *)
LEMMA StepTypes ==
  ASSUME Inv, NEW c \in Cpu, (\E o \in Calls : Call(c, o)) \/ Run(c)
  PROVE  TypeOK'
<1> USE DEF Inv, TypeOK
<1>0. 0 \in Word /\ M - 1 \in Word /\ Loop(c)
  BY MAssumption DEF Word
<1>a. pc[c] # "idle" => op[c] \in Calls /\ op[c].v \in Mapped
  BY <1>0, OpFields DEF Loop
<1>1. CASE \E o \in Calls : Call(c, o)
  BY <1>1 DEF Call, Goto, Labels
<1>2. CASE Access(c)
  <2>1. op[c].kind # "read" => op[c].a \in Word
    BY <1>0, <1>2, OpFields DEF Access, Loop
  <2>2. QED
    BY <1>0, <1>a, <1>2, <2>1 DEF Access, Goto, Labels
<1>3. CASE Lro(c)
  BY <1>0, <1>3 DEF Lro, Goto, Labels, ToStore
<1>4. CASE Br(c)
  BY <1>4 DEF Br, Goto, Labels, ToStore
<1>5. CASE Alu(c)
  <2>1. Computed(op[c], p[c]) \in Word
    BY <1>0, <1>5, ComputedIsWord DEF Alu, Loop
  <2>2. QED
    BY <1>5, <2>1 DEF Alu, Goto, Labels
<1>6. CASE Sco(c)
  <2>1. Data(c) \in Word
    BY <1>a, <1>6, OpFields DEF Data, Sco
  <2>2. QED
    BY <1>0, <1>6, <2>1 DEF Sco, Goto, Labels
<1>7. CASE Brnz(c)
  BY <1>7 DEF Brnz, Goto, Labels
<1>8. CASE Return(c)
  BY <1>0, <1>8 DEF Return, Goto, Labels
<1>9. CASE LoadOperand(c)
  BY <1>a, <1>9 DEF LoadOperand, Goto, Labels
<1>10. CASE StoreOperand(c)
  BY <1>10 DEF StoreOperand, Goto, Labels
<1>11. CASE LroFault(c)
  BY <1>11 DEF LroFault, Goto, Labels
<1>12. QED
  BY <1>1, <1>2, <1>3, <1>4, <1>5, <1>6, <1>7, <1>8, <1>9, <1>10, <1>11 DEF Run

(* An instruction of a processor keeps the facts about its own loop ...    *)
LEMMA OwnLoop ==
  ASSUME Inv, NEW c \in Cpu, (\E o \in Calls : Call(c, o)) \/ Run(c)
  PROVE  Loop(c)'
<1> USE DEF Inv, TypeOK
<1>0. Loop(c) /\ (pc[c] # "idle" => op[c].kind \in Kinds)
  BY OpFields DEF Loop
<1>1. CASE \E o \in Calls : Call(c, o)
  BY <1>1 DEF Call, Goto, Loop, Plain
<1>2. CASE Access(c)
  BY <1>0, <1>2 DEF Access, Goto, Loop
<1>3. CASE Lro(c)
  BY <1>0, <1>3 DEF Lro, Goto, Loop, Plain, Looks, ToStore, Computes, Leaves
<1>4. CASE Br(c)
  BY <1>0, <1>4 DEF Br, Goto, Loop, Plain, ToStore, Computes, Leaves
<1>5. CASE Alu(c)
  BY <1>0, <1>5 DEF Alu, Goto, Loop, Plain, Leaves
<1>6. CASE Sco(c)
  BY <1>0, <1>6 DEF Sco, Goto, Loop, Plain
<1>7. CASE Brnz(c)
  BY <1>0, <1>7 DEF Brnz, Goto, Loop, Plain
<1>8. CASE Return(c)
  BY <1>0, <1>8 DEF Return, Goto, Loop
<1>9. CASE LoadOperand(c)
  BY <1>0, <1>9 DEF LoadOperand, Goto, Loop, Plain
<1>10. CASE StoreOperand(c)
  BY <1>0, <1>10 DEF StoreOperand, Goto, Loop
<1>11. CASE LroFault(c)
  BY <1>0, <1>11 DEF LroFault, Goto, Loop, Plain
<1>12. QED
  BY <1>1, <1>2, <1>3, <1>4, <1>5, <1>6, <1>7, <1>8, <1>9, <1>10, <1>11 DEF Run

(* ... and, since it only shares the memory with them, about the others'.  *)
LEMMA OthersLoops ==
  ASSUME Inv, NEW c \in Cpu, (\E o \in Calls : Call(c, o)) \/ Run(c),
         NEW d \in Cpu, d # c
  PROVE  /\ pc'[d] = pc[d] /\ op'[d] = op[d] /\ ptr'[d] = ptr[d]
         /\ load_res'[d] = load_res[d] /\ load_val'[d] = load_val[d]
         /\ p'[d] = p[d] /\ n'[d] = n[d] /\ tmp'[d] = tmp[d]
BY DEF Inv, TypeOK, Call, Goto, Run, Access, LoadOperand, StoreOperand, Lro, LroFault, Br, Alu,
       Sco, Brnz, Return

(* Every step keeps the invariant.                                         *)
LEMMA StepInv == Inv /\ [Next]_vars => Inv'
<1> SUFFICES ASSUME Inv, [Next]_vars PROVE Inv'
  OBVIOUS
<1>1. CASE UNCHANGED vars
  BY <1>1 DEF vars, Inv, TypeOK, Loop, Computes, Leaves, Computed, Looks, Plain
<1>2. ASSUME NEW c \in Cpu, (\E o \in Calls : Call(c, o)) \/ Run(c)
      PROVE  Inv'
  <2>1. TypeOK'
    BY <1>2, StepTypes
  <2>2. ASSUME NEW d \in Cpu PROVE Loop(d)'
    <3>1. CASE d = c
      BY <1>2, <3>1, OwnLoop
    <3>2. CASE d # c
      <4>1. Loop(d)
        BY DEF Inv
      <4>2. QED
        BY <1>2, <3>2, <4>1, OthersLoops DEF Loop
    <3>3. QED
      BY <3>1, <3>2
  <2>3. QED
    BY <2>1, <2>2 DEF Inv
<1>3. QED
  BY <1>1, <1>2 DEF Next

(* The loop invariant holds in every reachable state of the emulator's    *)
(* processors running the loops.                                           *)
THEOREM InvariantHolds == Spec => []Inv
<1>1. Init => Inv
  BY InitInv
<1>2. Inv /\ [Next]_vars => Inv'
  BY StepInv
<1>3. QED
  BY <1>1, <1>2, PTL DEF Spec

-----------------------------------------------------------------------------
(* Both specifications speak of the same calls and words.                  *)
LEMMA SameVocabulary ==
  /\ Atomic!Op = Op
  /\ Atomic!Word = Word
  /\ Atomic!NoCall = NoCall
  /\ \A o : Atomic!Plain(o) <=> Plain(o)
BY DEF Atomic!Op, Op, Atomic!Word, Word, Atomic!NoCall, NoCall, Atomic!Plain, Plain

(* At first no operation is in progress for any caller.                    *)
LEMMA InitRefines == Init => Atomic!Init
<1> SUFFICES ASSUME Init PROVE Atomic!Init
  OBVIOUS
<1>1. \A c \in Cpu : pc[c] = "idle" /\ ~Effective(c)
  BY DEF Init, Effective
<1>2. phase = [c \in Cpu |-> "idle"]
  BY <1>1 DEF phase
<1>3. result = [c \in Cpu |-> 0]
  BY <1>1 DEF result
<1>4. QED
  BY <1>2, <1>3, SameVocabulary DEF Init, Atomic!Init

(* The part of the abstract state that belongs to one processor changes    *)
(* with that processor's instructions only.                                *)
LEMMA Pointwise ==
  ASSUME Inv, NEW c \in Cpu, (\E o \in Calls : Call(c, o)) \/ Run(c)
  PROVE  /\ phase' = [phase EXCEPT ![c] = phase'[c]]
         /\ result' = [result EXCEPT ![c] = result'[c]]
<1>1. ASSUME NEW d \in Cpu, d # c
      PROVE  phase'[d] = phase[d] /\ result'[d] = result[d]
  <2>1. /\ pc'[d] = pc[d] /\ op'[d] = op[d]
        /\ p'[d] = p[d] /\ n'[d] = n[d] /\ tmp'[d] = tmp[d]
    BY <1>1, OthersLoops
  <2>2. Effective(d)' = Effective(d)
    BY <2>1 DEF Effective
  <2>3. Value(d)' = Value(d)
    BY <2>1 DEF Value
  <2>4. QED
    BY <2>1, <2>2, <2>3 DEF phase, result
<1>2. /\ phase' = [d \in Cpu |-> phase'[d]]
      /\ result' = [d \in Cpu |-> result'[d]]
  BY DEF phase, result
<1>3. /\ phase = [d \in Cpu |-> phase[d]]
      /\ result = [d \in Cpu |-> result[d]]
  BY DEF phase, result
<1>4. QED
  BY <1>1, <1>2, <1>3

(* An instruction that leaves the memory and the caller's view alone is a  *)
(* stutter of the specification of the operations.                         *)
LEMMA Silent ==
  ASSUME Inv, NEW c \in Cpu, (\E o \in Calls : Call(c, o)) \/ Run(c),
         UNCHANGED <<mem, op, ptr>>, phase'[c] = phase[c], result'[c] = result[c]
  PROVE  UNCHANGED Atomic!vars
<1>1. /\ [phase EXCEPT ![c] = phase[c]] = phase
      /\ [result EXCEPT ![c] = result[c]] = result
  BY DEF phase, result
<1>2. phase' = phase /\ result' = result
  BY <1>1, Pointwise, Zenon
<1>3. QED
  BY <1>2 DEF Atomic!vars

(* So is, for the results, an instruction that leaves them alone. *)
LEMMA SameResult ==
  ASSUME Inv, NEW c \in Cpu, (\E o \in Calls : Call(c, o)) \/ Run(c),
         result'[c] = result[c]
  PROVE  result' = result
<1>1. [result EXCEPT ![c] = result[c]] = result
  BY DEF result
<1>2. QED
  BY <1>1, Pointwise, Zenon

(* An lro after which the operation leaves, and an sco that succeeds, are  *)
(* the moments at which loops take effect, on the word of their operand.   *)
LEMMA TakesEffect ==
  ASSUME Inv, NEW c \in Cpu, Run(c), UNCHANGED <<op, ptr>>, ptr[c] \in Mapped,
         ~Effective(c), pc[c] \in {"lro", "br", "op", "sco"},
         pc'[c] \in {"br", "brnz"}, Effective(c)',
         mem' = [mem EXCEPT ![ptr[c]] = Atomic!Updated(op[c], mem[ptr[c]])],
         Value(c)' = Atomic!Returned(op[c], mem[ptr[c]])
  PROVE  Atomic!TakeEffect(c)
<1>1. phase[c] = "fetched" /\ phase'[c] = "effective"
  BY DEF phase
<1>2. result'[c] = Atomic!Returned(op[c], mem[ptr[c]])
  BY DEF result
<1>3. QED
  BY <1>1, <1>2, Pointwise DEF Atomic!TakeEffect, Atomic!Effect, Atomic!Enter

(* The loops compute what the operations promise. *)
LEMMA SameArithmetic ==
  ASSUME NEW o \in Calls, NEW x
  PROVE  /\ o.kind = "read" => Atomic!Updated(o, x) = x /\ Atomic!Returned(o, x) = x
         /\ o.kind = "set" => Atomic!Updated(o, x) = o.a /\ Atomic!Returned(o, x) = 0
         /\ ~Plain(o) /\ Leaves(o, x) => Atomic!Updated(o, x) = x
         /\ ~Plain(o) /\ ~Leaves(o, x) =>
              Atomic!Updated(o, x) = CASE o.kind = "xchg"    -> o.a
                                       [] o.kind = "cmpxchg" -> o.b
                                       [] OTHER              -> Computed(o, x)
         /\ ~Plain(o) =>
              Atomic!Returned(o, x) = IF o.kind = "add_return" THEN Computed(o, x) ELSE x
<1>1. o.kind \in Kinds
  BY OpFields
<1>2. Atomic!Declines(o, x) <=> o.kind = "read" \/ Leaves(o, x)
  BY DEF Atomic!Declines, Leaves
<1>3. Atomic!Sum(o, x) = Computed(o, x)
  BY DEF Atomic!Sum, Computed
<1>4. CASE Plain(o)
  BY <1>2, <1>4 DEF Plain, Leaves, Atomic!Updated, Atomic!Returned
<1>5. CASE ~Plain(o)
  <2>1. Leaves(o, x) => Atomic!Updated(o, x) = x
    BY <1>2 DEF Atomic!Updated, Leaves
  <2>2. ASSUME ~Leaves(o, x)
        PROVE  Atomic!Updated(o, x) = CASE o.kind = "xchg"    -> o.a
                                        [] o.kind = "cmpxchg" -> o.b
                                        [] OTHER              -> Computed(o, x)
    BY <1>1, <1>2, <1>3, <1>5, <2>2 DEF Atomic!Updated, Plain, Kinds
  <2>3. Atomic!Returned(o, x) = IF o.kind = "add_return" THEN Computed(o, x) ELSE x
    BY <1>3, <1>5 DEF Atomic!Returned, Plain
  <2>4. QED
    BY <1>5, <2>1, <2>2, <2>3 DEF Plain
<1>6. QED
  BY <1>4, <1>5

(* A plain access takes effect on the counter itself. *)
LEMMA AccessRefines ==
  ASSUME Inv, NEW c \in Cpu, Access(c)
  PROVE  Atomic!TakeEffect(c)
<1> USE DEF Inv, TypeOK
<1>0. Loop(c) /\ op[c] \in Calls /\ op[c].v \in Mapped /\ Run(c) /\ Plain(op[c])
  BY OpFields DEF Loop, Access, Run
<1>1. /\ pc[c] = "mem" /\ pc'[c] = "ret" /\ UNCHANGED <<op, ptr>>
      /\ ~Effective(c) /\ ~Effective(c)'
  BY DEF Access, Goto, Effective
<1>2. phase[c] = "called" /\ phase'[c] = "done" /\ result'[c] = Value(c)'
  BY <1>1 DEF phase, result
<1>3. /\ Value(c)' = Atomic!Returned(op[c], mem[op[c].v])
      /\ mem' = [mem EXCEPT ![op[c].v] = Atomic!Updated(op[c], mem[op[c].v])]
  <2>1. CASE op[c].kind = "read"
    <3>1. Value(c)' = mem[op[c].v]
      BY <1>1, <2>1 DEF Access, Value
    <3>2. mem' = [mem EXCEPT ![op[c].v] = mem[op[c].v]]
      BY <2>1 DEF Access
    <3>3. QED
      BY <1>0, <2>1, <3>1, <3>2, SameArithmetic
  <2>2. CASE op[c].kind = "set"
    <3>1. Value(c)' = 0
      BY <1>1, <2>2 DEF Value
    <3>2. mem' = [mem EXCEPT ![op[c].v] = op[c].a]
      BY <2>2 DEF Access
    <3>3. QED
      BY <1>0, <2>2, <3>1, <3>2, SameArithmetic
  <2>3. QED
    BY <1>0, <2>1, <2>2 DEF Plain
<1>4. QED
  BY <1>0, <1>1, <1>2, <1>3, Pointwise, SameVocabulary
     DEF Atomic!TakeEffect, Atomic!Effect, Atomic!Enter

(* An lro is the effect of an operation that then leaves, and not visible  *)
(* otherwise.                                                              *)
LEMMA LroRefines ==
  ASSUME Inv, NEW c \in Cpu, Lro(c)
  PROVE  UNCHANGED Atomic!vars \/ Atomic!TakeEffect(c)
<1> USE DEF Inv, TypeOK
<1>0. Loop(c) /\ op[c] \in Calls /\ op[c].kind \in Kinds /\ Run(c)
  BY OpFields DEF Loop, Lro, Run
<1>1. /\ pc[c] = "lro" /\ pc'[c] \in {"br", "op", "sco"}
      /\ pc'[c] = "br" <=> Looks(op[c])
      /\ UNCHANGED <<mem, op, ptr>> /\ p'[c] = mem[ptr[c]] /\ ptr[c] \in Mapped
      /\ ~Effective(c) /\ ~Plain(op[c])
  BY <1>0 DEF Lro, Goto, Effective, ToStore, Loop
<1>2. CASE Leaves(op[c], mem[ptr[c]])
  <2>1. pc'[c] = "br" /\ Effective(c)' /\ op[c].kind # "add_return"
    BY <1>1, <1>2 DEF Effective, Leaves, Looks
  <2>2. Value(c)' = Atomic!Returned(op[c], mem[ptr[c]])
    BY <1>0, <1>1, <2>1, SameArithmetic DEF Value, Plain
  <2>3. mem' = [mem EXCEPT ![ptr[c]] = mem[ptr[c]]]
    BY <1>1
  <2>4. QED
    BY <1>0, <1>1, <1>2, <2>1, <2>2, <2>3, SameArithmetic, TakesEffect
<1>3. CASE ~Leaves(op[c], mem[ptr[c]])
  <2>1. ~Effective(c)'
    BY <1>1, <1>3 DEF Effective, Leaves
  <2>2. phase'[c] = phase[c] /\ result'[c] = result[c]
    BY <1>1, <2>1 DEF phase, result
  <2>3. QED
    BY <1>0, <1>1, <2>2, Silent
<1>4. QED
  BY <1>2, <1>3

(* An sco that succeeds is the effect of its operation: the value it       *)
(* compared with is the one the new value was computed from.               *)
LEMMA ScoRefines ==
  ASSUME Inv, NEW c \in Cpu, Sco(c)
  PROVE  UNCHANGED Atomic!vars \/ Atomic!TakeEffect(c)
<1> USE DEF Inv, TypeOK
<1>0. Loop(c) /\ op[c] \in Calls /\ op[c].kind \in Kinds /\ Run(c)
  BY OpFields DEF Loop, Sco, Run
<1>1. /\ pc[c] = "sco" /\ pc'[c] = "brnz" /\ UNCHANGED <<op, ptr, p, n>>
      /\ ~Effective(c) /\ ~Plain(op[c]) /\ ~Leaves(op[c], p[c])
      /\ load_val[c] = p[c] /\ ptr[c] \in Mapped
      /\ Computes(op[c]) => n[c] = Computed(op[c], p[c])
  BY <1>0 DEF Sco, Goto, Effective, Loop
<1>2. CASE Holds(c, ptr[c])
  <2>1. Effective(c)' /\ mem[ptr[c]] = p[c]
    BY <1>1, <1>2 DEF Sco, Effective, Holds
  <2>2. mem' = [mem EXCEPT ![ptr[c]] = Data(c)]
    BY <1>2 DEF Sco
  <2>3. Data(c) = Atomic!Updated(op[c], p[c])
    BY <1>0, <1>1, SameArithmetic DEF Data, Computes
  <2>4. Value(c)' = Atomic!Returned(op[c], p[c])
    BY <1>0, <1>1, SameArithmetic DEF Value, Computes, Plain
  <2>5. QED
    BY <1>0, <1>1, <2>1, <2>2, <2>3, <2>4, TakesEffect
<1>3. CASE ~Holds(c, ptr[c])
  <2>1. ~Effective(c)' /\ UNCHANGED mem
    BY <1>1, <1>3 DEF Sco, Effective
  <2>2. phase'[c] = phase[c] /\ result'[c] = result[c]
    BY <1>1, <2>1 DEF phase, result
  <2>3. QED
    BY <1>0, <1>1, <2>1, <2>2, Silent
<1>4. QED
  BY <1>2, <1>3

(* Every instruction is a step of its operation's specification, or not    *)
(* visible in it at all.                                                   *)
LEMMA StepRefines == Inv /\ [Next]_vars => [Atomic!Next]_(Atomic!vars)
<1> SUFFICES ASSUME Inv, [Next]_vars PROVE [Atomic!Next]_(Atomic!vars)
  OBVIOUS
<1> USE DEF Inv, TypeOK
<1>1. CASE UNCHANGED vars
  BY <1>1 DEF vars, Atomic!vars, phase, result, Effective, Value
<1>2. ASSUME NEW c \in Cpu, NEW o \in Calls, Call(c, o)
      PROVE  Atomic!Call(c, o)
  <2>1. /\ pc[c] = "idle" /\ pc'[c] \in {"mem", "load"}
        /\ op' = [op EXCEPT ![c] = o] /\ UNCHANGED <<mem, ptr>>
    BY <1>2 DEF Call, Goto
  <2>2. ~Effective(c) /\ ~Effective(c)'
    BY <2>1 DEF Effective
  <2>3. /\ phase[c] = "idle" /\ phase'[c] = "called"
        /\ result[c] = 0 /\ result'[c] = 0
    BY <2>1, <2>2 DEF phase, result
  <2>4. result' = result
    BY <1>2, <2>3, SameResult
  <2>5. QED
    BY <1>2, <2>1, <2>3, <2>4, Pointwise DEF Atomic!Call, Atomic!Enter
<1>3. ASSUME NEW c \in Cpu, Run(c)
      PROVE  \/ UNCHANGED Atomic!vars
             \/ Atomic!Fetch(c) \/ Atomic!Stop(c) \/ Atomic!TakeEffect(c)
             \/ Atomic!PutBack(c) \/ Atomic!Return(c)
  <2>0. Loop(c)
    OBVIOUS
  <2>1. CASE Access(c)
    BY <2>1, AccessRefines
  <2>2. CASE Lro(c)
    BY <2>2, LroRefines
  <2>3. CASE Br(c)
    <3>1. /\ pc[c] = "br" /\ pc'[c] \in {"store", "op", "sco"}
          /\ pc'[c] = "store" <=> Leaves(op[c], p[c])
          /\ UNCHANGED <<mem, op, ptr, p, n, tmp>>
      BY <2>3 DEF Br, Goto, ToStore
    <3>2. (Effective(c)' <=> Effective(c)) /\ Value(c)' = Value(c)
      BY <3>1 DEF Effective, Value
    <3>3. phase'[c] = phase[c] /\ result'[c] = result[c]
      BY <3>1, <3>2 DEF phase, result
    <3>4. QED
      BY <1>3, <3>1, <3>3, Silent
  <2>4. CASE Alu(c)
    <3>1. /\ pc[c] = "op" /\ pc'[c] = "sco" /\ UNCHANGED <<mem, op, ptr>>
          /\ ~Effective(c) /\ ~Effective(c)'
      BY <2>4 DEF Alu, Goto, Effective
    <3>2. phase'[c] = phase[c] /\ result'[c] = result[c]
      BY <3>1 DEF phase, result
    <3>3. QED
      BY <1>3, <3>1, <3>2, Silent
  <2>5. CASE Sco(c)
    BY <2>5, ScoRefines
  <2>6. CASE Brnz(c)
    <3>1. /\ pc[c] = "brnz" /\ pc'[c] = (IF tmp[c] # 0 THEN "lro" ELSE "store")
          /\ UNCHANGED <<mem, op, ptr, p, n, tmp>>
      BY <2>6 DEF Brnz, Goto
    <3>2. (Effective(c)' <=> Effective(c)) /\ Value(c)' = Value(c)
      BY <3>1 DEF Effective, Value
    <3>3. phase'[c] = phase[c] /\ result'[c] = result[c]
      BY <3>1, <3>2 DEF phase, result
    <3>4. QED
      BY <1>3, <3>1, <3>3, Silent
  <2>7. CASE Return(c)
    <3>1. /\ pc[c] = "ret" /\ pc'[c] = "idle" /\ UNCHANGED mem
          /\ op' = [op EXCEPT ![c] = NoCall] /\ ptr' = [ptr EXCEPT ![c] = 0]
          /\ ~Effective(c) /\ ~Effective(c)'
      BY <2>7 DEF Return, Goto, Effective
    <3>2. phase[c] = "done" /\ phase'[c] = "idle" /\ result'[c] = 0
      BY <3>1 DEF phase, result
    <3>3. QED
      BY <1>3, <3>1, <3>2, Pointwise, SameVocabulary DEF Atomic!Return, Atomic!Enter
  <2>8. CASE LoadOperand(c)
    <3>1. /\ pc[c] = "load" /\ pc'[c] = "lro" /\ UNCHANGED <<mem, op>> /\ ~Plain(op[c])
          /\ ptr' = [ptr EXCEPT ![c] = mem[op[c].v]]
          /\ ~Effective(c) /\ ~Effective(c)'
      BY <2>0, <2>8 DEF LoadOperand, Goto, Effective, Loop
    <3>2. phase[c] = "called" /\ phase'[c] = "fetched" /\ result'[c] = result[c]
      BY <3>1 DEF phase, result
    <3>3. result' = result
      BY <1>3, <3>2, SameResult
    <3>4. QED
      BY <1>3, <3>1, <3>2, <3>3, Pointwise, SameVocabulary DEF Atomic!Fetch, Atomic!Enter
  <2>9. CASE StoreOperand(c)
    <3>1. /\ pc[c] = "store" /\ pc'[c] = "ret" /\ UNCHANGED <<op, ptr, p, n>>
          /\ mem' = [mem EXCEPT ![op[c].v] = ptr[c]]
          /\ Effective(c) /\ ~Effective(c)' /\ Value(c)' = Value(c)
      BY <2>9 DEF StoreOperand, Goto, Effective, Value
    <3>2. phase[c] = "effective" /\ phase'[c] = "done" /\ result'[c] = result[c]
      BY <3>1 DEF phase, result
    <3>3. result' = result
      BY <1>3, <3>2, SameResult
    <3>4. QED
      BY <1>3, <3>1, <3>2, <3>3, Pointwise DEF Atomic!PutBack, Atomic!Enter
  <2>10. CASE LroFault(c)
    <3>1. /\ pc[c] = "lro" /\ pc'[c] = "fault" /\ UNCHANGED <<mem, op, ptr>>
          /\ ptr[c] \notin Mapped /\ ~Effective(c) /\ ~Effective(c)'
      BY <2>10 DEF LroFault, Goto, Effective
    <3>2. phase[c] = "fetched" /\ phase'[c] = "stopped" /\ result'[c] = result[c]
      BY <3>1 DEF phase, result
    <3>3. result' = result
      BY <1>3, <3>2, SameResult
    <3>4. QED
      BY <1>3, <3>1, <3>2, <3>3, Pointwise DEF Atomic!Stop, Atomic!Enter
  <2>11. QED
    BY <1>3, <2>1, <2>2, <2>3, <2>4, <2>5, <2>6, <2>7, <2>8, <2>9, <2>10 DEF Run
<1>4. QED
  BY <1>1, <1>2, <1>3 DEF Next, Atomic!Next

(* For any processors, memory, counters, calls and word size: every        *)
(* lro/sco loop of atomic.h, on the emulator's compare-and-swap, reads,    *)
(* decides and writes the word its operand names at one moment, between a  *)
(* plain load and a plain store of the counter the operand comes from.     *)
THEOREM AtomicOperations == Spec => LoopsAreAtomic
<1>1. Init => Atomic!Init
  BY InitRefines
<1>2. Inv /\ [Next]_vars => [Atomic!Next]_(Atomic!vars)
  BY StepRefines
<1>3. QED
  BY <1>1, <1>2, InvariantHolds, PTL DEF Spec, LoopsAreAtomic, Atomic!Spec

(* The types hold in every reachable state: sums, addresses taken from     *)
(* counters and what is reserved are words.                                *)
THEOREM TypeCorrect == Spec => []TypeOK
<1>1. Inv => TypeOK
  BY DEF Inv
<1>2. QED
  BY <1>1, InvariantHolds, PTL
=============================================================================
