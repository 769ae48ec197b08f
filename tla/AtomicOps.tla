----------------------------- MODULE AtomicOps ------------------------------
(***************************************************************************)
(* The vocabulary shared by what the kernel's atomic64_* operations        *)
(* deliver (AtomicCell) and how they are written (LrSc): words, counters   *)
(* and the calls a processor may make.                                     *)
(***************************************************************************)
EXTENDS Integers

CONSTANTS
  Cpu,            \* the processors
  Mapped,         \* the addresses at which there is memory
  Cell,           \* the counters (atomic64_t), named by their addresses
  M,              \* words are 0..M-1
  Calls           \* the calls that are made

ASSUME MAssumption == M \in Nat \ {0}
ASSUME CellAssumption == Cell \subseteq Mapped /\ Mapped \subseteq 0..(M - 1)

Word == 0..(M - 1)

(* The calls there are. v is the counter; a and b are the other arguments, in the    *)
(* order of the C prototypes. Which function the ALU computes (add, sub,   *)
(* and, or, xor) makes no difference to the loops, so add stands for all;  *)
(* atomic64_add is add_return with its result dropped. The assembler       *)
(* refuses dec_if_positive, whose branch and addi are one line.            *)
Op == [kind : {"add_return", "fetch_add", "xchg", "set"}, v : Cell, a : Word]
      \cup [kind : {"cmpxchg", "fetch_add_unless"}, v : Cell, a : Word, b : Word]
      \cup [kind : {"read"}, v : Cell]

ASSUME CallsAssumption == Calls \subseteq Op

(* What stands for the call of a processor that is in none. *)
NoCall == [kind |-> "none"]

(* atomic64_read and atomic64_set: one plain access to the counter. *)
Plain(o) == o.kind \in {"read", "set"}
=============================================================================
