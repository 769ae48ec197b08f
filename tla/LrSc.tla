-------------------------------- MODULE LrSc --------------------------------
(***************************************************************************)
(* The kernel's atomic64_* operations (arch/dadao/include/asm/atomic.h)    *)
(* run on the emulator's processors. Each is a retry loop                  *)
(*                                                                         *)
(*          c := v->counter       the operand, "+Rb" (v->counter)          *)
(*    218:  lro   p, [c]          load and reserve                         *)
(*          br..  p, 219f         leave, if the operation declines         *)
(*          op    n, p, a         the new value                            *)
(*          sco   tmp, n, [c]     store if the reservation holds           *)
(*          brnz  tmp, 218b                                                *)
(*    219:  v->counter := c       the operand again, since it is "+"       *)
(*                                                                         *)
(* so the loop works on the word the counter's value is the address of,    *)
(* and not on the counter. The emulator (target/dadao/translate.c) has no  *)
(* reservation on the memory: lro remembers address and value, and sco is  *)
(* a compare-and-swap with the remembered value. Processors interleave     *)
(* between instructions and take no interrupt inside a loop (the target    *)
(* delivers none). An address names one word of memory or none: words that *)
(* overlap others are left out. Where a loop uses one register for the new *)
(* value and the status, the model has n and tmp: sco reads the one before *)
(* it writes the other.                                                    *)
(***************************************************************************)
EXTENDS AtomicOps

VARIABLES
  mem,            \* the words in memory, counters among them
  pc,             \* of each processor: the next instruction of its loop
  op,             \* the call it is in, or NoCall
  ptr,            \* the pointer register of the operand: c above
  load_res,       \* the address of its reservation; 0 at first, -1 after an sco
  load_val,       \* the value lro remembered
  p,              \* the register loaded by lro
  n,              \* the register with the new value
  tmp             \* the status register of sco

vars == <<mem, pc, op, ptr, load_res, load_val, p, n, tmp>>

Labels == {"idle", "mem", "load", "lro", "br", "op", "sco", "brnz", "store", "ret", "fault"}

(* Type invariant: sums stay words, and so does what is reserved.          *)
TypeOK ==
  /\ mem \in [Mapped -> Word]
  /\ pc \in [Cpu -> Labels]
  /\ op \in [Cpu -> Calls \cup {NoCall}]
  /\ ptr \in [Cpu -> Word]
  /\ load_res \in [Cpu -> Word]
  /\ load_val \in [Cpu -> Word]
  /\ p \in [Cpu -> Word]
  /\ n \in [Cpu -> Word]
  /\ tmp \in [Cpu -> {0, 1}]

Init ==
  /\ mem \in [Mapped -> Word]
  /\ pc = [c \in Cpu |-> "idle"]
  /\ op = [c \in Cpu |-> NoCall]
  /\ ptr = [c \in Cpu |-> 0]
  /\ load_res = [c \in Cpu |-> 0]
  /\ load_val = [c \in Cpu |-> 0]
  /\ p = [c \in Cpu |-> 0]
  /\ n = [c \in Cpu |-> 0]
  /\ tmp = [c \in Cpu |-> 0]

-----------------------------------------------------------------------------
(* The loops. *)

Goto(c, label) == pc' = [pc EXCEPT ![c] = label]

Call(c, o) ==
  /\ pc[c] = "idle"
  /\ op' = [op EXCEPT ![c] = o]
  /\ Goto(c, IF Plain(o) THEN "mem" ELSE "load")
  /\ UNCHANGED <<mem, ptr, load_res, load_val, p, n, tmp>>

(* atomic64_read and atomic64_set. *)
Access(c) ==
  LET o == op[c]
  IN  /\ pc[c] = "mem"
      /\ IF o.kind = "read"
         THEN p' = [p EXCEPT ![c] = mem[o.v]] /\ UNCHANGED mem
         ELSE mem' = [mem EXCEPT ![o.v] = o.a] /\ UNCHANGED p
      /\ Goto(c, "ret")
      /\ UNCHANGED <<op, ptr, load_res, load_val, n, tmp>>

(* The operand "+Rb" (v->counter): before the loop the counter is loaded   *)
(* into a pointer register ...                                             *)
LoadOperand(c) ==
  /\ pc[c] = "load"
  /\ ptr' = [ptr EXCEPT ![c] = mem[op[c].v]]
  /\ Goto(c, "lro")
  /\ UNCHANGED <<mem, op, load_res, load_val, p, n, tmp>>

(* ... and after it the register is stored to the counter. *)
StoreOperand(c) ==
  /\ pc[c] = "store"
  /\ mem' = [mem EXCEPT ![op[c].v] = ptr[c]]
  /\ Goto(c, "ret")
  /\ UNCHANGED <<op, ptr, load_res, load_val, p, n, tmp>>

(* brne, breq: the operations that look at the value first.                *)
Leaves(o, x) ==
  \/ o.kind = "cmpxchg" /\ x # o.a
  \/ o.kind = "fetch_add_unless" /\ x = o.b

(* The loops of xchg and cmpxchg compute nothing: sco stores an argument.  *)
Computes(o) == o.kind \notin {"xchg", "cmpxchg"}

Looks(o) == o.kind \in {"cmpxchg", "fetch_add_unless"}

ToStore(o) == IF Computes(o) THEN "op" ELSE "sco"

Br(c) ==
  /\ pc[c] = "br"
  /\ Goto(c, IF Leaves(op[c], p[c]) THEN "store" ELSE ToStore(op[c]))
  /\ UNCHANGED <<mem, op, ptr, load_res, load_val, p, n, tmp>>

(* Mutant of Computed: a sum is not cut to a word. *)
ComputedWide(o, x) == x + o.a

Computed(o, x) == (x + o.a) % M

Alu(c) ==
  /\ pc[c] = "op"
  /\ n' = [n EXCEPT ![c] = Computed(op[c], p[c])]
  /\ Goto(c, "sco")
  /\ UNCHANGED <<mem, op, ptr, load_res, load_val, p, tmp>>

(* The register sco stores. *)
Data(c) ==
  CASE op[c].kind = "xchg"    -> op[c].a
    [] op[c].kind = "cmpxchg" -> op[c].b
    [] OTHER                  -> n[c]

(* Mutant of Brnz: the store is tried again without a new load. *)
BrnzToStore(c) ==
  /\ pc[c] = "brnz"
  /\ Goto(c, IF tmp[c] # 0 THEN "sco" ELSE "store")
  /\ UNCHANGED <<mem, op, ptr, load_res, load_val, p, n, tmp>>

Brnz(c) ==
  /\ pc[c] = "brnz"
  /\ Goto(c, IF tmp[c] # 0 THEN "lro" ELSE "store")
  /\ UNCHANGED <<mem, op, ptr, load_res, load_val, p, n, tmp>>

(* The value of the C function. add_return computes the sum in the         *)
(* register of the loaded value.                                           *)
Value(c) ==
  CASE op[c].kind = "set"        -> 0
    [] op[c].kind = "add_return" -> n[c]
    [] OTHER                     -> p[c]

(* Arguments and registers are dead after the return. *)
Return(c) ==
  /\ pc[c] = "ret"
  /\ Goto(c, "idle")
  /\ op' = [op EXCEPT ![c] = NoCall]
  /\ ptr' = [ptr EXCEPT ![c] = 0]
  /\ p' = [p EXCEPT ![c] = 0]
  /\ n' = [n EXCEPT ![c] = 0]
  /\ tmp' = [tmp EXCEPT ![c] = 0]
  /\ UNCHANGED <<mem, load_res, load_val>>

-----------------------------------------------------------------------------
(* The two instructions. *)

(* trans_LRO_NN and its variants, which differ in barriers only. Without   *)
(* memory at the address the load faults, and the processor stops.         *)
Lro(c) ==
  /\ pc[c] = "lro" /\ ptr[c] \in Mapped
  /\ load_val' = [load_val EXCEPT ![c] = mem[ptr[c]]]
  /\ load_res' = [load_res EXCEPT ![c] = ptr[c]]
  /\ p' = [p EXCEPT ![c] = load_val'[c]]
  /\ Goto(c, IF Looks(op[c]) THEN "br" ELSE ToStore(op[c]))
  /\ UNCHANGED <<mem, op, ptr, n, tmp>>

LroFault(c) ==
  /\ pc[c] = "lro" /\ ptr[c] \notin Mapped
  /\ Goto(c, "fault")
  /\ UNCHANGED <<mem, op, ptr, load_res, load_val, p, n, tmp>>

(* Mutant of Holds: the value is not compared. *)
HoldsAddressOnly(c, a) == load_res[c] = a

(* The compare-and-swap of sco succeeds on the remembered value only.      *)
Holds(c, a) == load_res[c] = a /\ mem[a] = load_val[c]

(* trans_SCO_NN and its variants. *)
Sco(c) ==
  /\ pc[c] = "sco"
  /\ IF Holds(c, ptr[c])
     THEN /\ mem' = [mem EXCEPT ![ptr[c]] = Data(c)]
          /\ tmp' = [tmp EXCEPT ![c] = 0]
     ELSE /\ tmp' = [tmp EXCEPT ![c] = 1]
          /\ UNCHANGED mem
  /\ load_res' = [load_res EXCEPT ![c] = M - 1]
  /\ Goto(c, "brnz")
  /\ UNCHANGED <<op, ptr, load_val, p, n>>

-----------------------------------------------------------------------------
Run(c) ==
  \/ Access(c) \/ LoadOperand(c) \/ Lro(c) \/ LroFault(c) \/ Br(c) \/ Alu(c) \/ Sco(c) \/ Brnz(c)
  \/ StoreOperand(c) \/ Return(c)

Next == \E c \in Cpu : (\E o \in Calls : Call(c, o)) \/ Run(c)

Spec == Init /\ [][Next]_vars

(* Every processor is a thread of the host and keeps running. *)
FairSpec == Spec /\ \A c \in Cpu : WF_vars(Run(c))

-----------------------------------------------------------------------------
(* Where an operation stands for its caller. A loop takes effect with an   *)
(* lro whose value makes it leave, or with an sco that succeeds.           *)
Effective(c) ==
  \/ pc[c] = "store"
  \/ pc[c] = "br" /\ Leaves(op[c], p[c])
  \/ pc[c] = "brnz" /\ tmp[c] = 0

phase ==
  [c \in Cpu |-> CASE pc[c] = "idle" -> "idle"
                   [] pc[c] \in {"mem", "load"} -> "called"
                   [] pc[c] = "ret" -> "done"
                   [] pc[c] = "fault" -> "stopped"
                   [] Effective(c) -> "effective"
                   [] OTHER -> "fetched"]

result == [c \in Cpu |-> IF Effective(c) \/ pc[c] = "ret" THEN Value(c) ELSE 0]

Atomic == INSTANCE AtomicCell WITH
  memory <- mem, call <- op, word <- ptr, phase <- phase, result <- result

(* However the loops of the processors interleave, and although sco only   *)
(* compares values, every loop of atomic.h reads, decides and writes the   *)
(* word its operand names at one moment between the load and the store of  *)
(* the operand. (It is not the counter: CountersUpdated.)                  *)
LoopsAreAtomic == Atomic!Spec

(* A store that fails is due to another processor's progress: whenever a   *)
(* processor is in an operation, it stops for want of memory or some       *)
(* operation is eventually finished.                                       *)
LockFree ==
  \A c \in Cpu : pc[c] \notin {"idle", "fault"}
                 ~> (pc[c] = "fault" \/ \E d \in Cpu : pc[d] = "ret")

(* An atomic64_* function changes the counter it is given, by the function *)
(* it is named for, and no other word: what a caller of atomic.h takes it  *)
(* to do, and what lro and sco do with an operand that is an address ("Put *)
(* addr in load_res, data in load_val", translate.c).                      *)
CountersUpdated ==
  [][\A c \in Cpu, x \in Mapped :
       pc'[c] # pc[c] /\ mem'[x] # mem[x] =>
         x = op[c].v /\ mem'[x] = Atomic!Updated(op[c], mem[x])]_vars
=============================================================================
