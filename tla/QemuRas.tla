------------------------------ MODULE QemuRas ------------------------------
(***************************************************************************)
(* The return-address stack of the QEMU target: the registers ra1..ra63    *)
(* hold the youngest return addresses, ra63 the youngest of all, and a     *)
(* register that holds 0 is free.  When ra1 is taken, a CALL first spills  *)
(* it to the memory stack that ra0 (rasp) points to; a RET that finds the  *)
(* registers empty takes its target from memory, without refilling them.   *)
(*                                                                         *)
(* rasp counts 8-byte words, 0 is "not set".  The words Lo..Hi-1 are       *)
(* mapped.  TRIP aborts the emulator (cpu_loop has no case for it), and a  *)
(* faulting spill kills the program with SIGSEGV, so excp is terminal.     *)
(***************************************************************************)
EXTENDS Integers, Sequences

CONSTANTS
  N,              \* number of return-address registers (63)
  Addr,           \* return addresses, pc + 4 of the CALL instructions
  Lo, Hi          \* the words Lo..Hi-1 of the memory stack are mapped

ASSUME NAssumption == N \in Nat \ {0}
ASSUME AddrAssumption == Addr \subseteq Nat \ {0}
ASSUME MemAssumption == Lo \in Nat \ {0} /\ Hi \in Nat /\ Lo < Hi

VARIABLES
  ra,             \* ra[1..N]
  rasp,           \* ra[0]
  mem,            \* the mapped words
  jmp_pc,         \* target of the last RET
  excp,           \* "none", "TRIP", "SEGV", or "wild" after a RET too many
  base            \* history: the value the program loaded into rasp, or 0

vars == <<ra, rasp, mem, jmp_pc, excp, base>>

Regs == 1..N
Slots == Lo..(Hi - 1)
Word == Addr \cup {0}

Init ==
  /\ ra = [i \in Regs |-> 0]
  /\ rasp = 0
  /\ mem = [s \in Slots |-> 0]
  /\ jmp_pc = 0
  /\ excp = "none"
  /\ base = 0

(* rd2ra ra0, rdX, 1: the program gives the memory stack a place.  It does *)
(* so once, before anything was spilled.                                   *)
SetRasp(b) ==
  /\ excp = "none"
  /\ base = 0
  /\ rasp' = b
  /\ base' = b
  /\ UNCHANGED <<ra, mem, jmp_pc, excp>>

ShiftDown(a) == [i \in Regs |-> IF i = N THEN a ELSE ra[i + 1]]
(* Mutants of ShiftUp: ra1 is not cleared; the top is cleared in place.    *)
ShiftUpKeepsRa1 == [i \in Regs |-> IF i = 1 THEN ra[1] ELSE ra[i - 1]]
ShiftUpInPlace == [ra EXCEPT ![N] = 0]
ShiftUp == [i \in Regs |-> IF i = 1 THEN 0 ELSE ra[i - 1]]

(* trans_CALLi / trans_CALLr: push_return_address, three outcomes of the   *)
(* spill: not needed, done, or an exception.                               *)
CallToRegister(a) ==
  /\ ra[1] = 0
  /\ ra' = ShiftDown(a)
  /\ UNCHANGED <<rasp, mem, excp>>

(* Mutants of CallSpills: the store comes before the decrement; rasp is    *)
(* not tested.                                                             *)
CallSpillsStoreFirst(a) ==
  /\ ra[1] # 0
  /\ rasp # 0
  /\ rasp' = rasp - 1
  /\ IF rasp \in Slots
     THEN /\ mem' = [mem EXCEPT ![rasp] = ra[1]]
          /\ ra' = ShiftDown(a)
          /\ UNCHANGED excp
     ELSE /\ excp' = "SEGV"
          /\ UNCHANGED <<ra, mem>>

CallSpillsUntested(a) ==
  /\ ra[1] # 0
  /\ rasp' = rasp - 1
  /\ excp' = "SEGV"
  /\ UNCHANGED <<ra, mem>>

CallSpills(a) ==
  /\ ra[1] # 0
  /\ rasp # 0
  /\ rasp' = rasp - 1
  /\ IF rasp - 1 \in Slots
     THEN /\ mem' = [mem EXCEPT ![rasp - 1] = ra[1]]
          /\ ra' = ShiftDown(a)
          /\ UNCHANGED excp
     ELSE /\ excp' = "SEGV"
          /\ UNCHANGED <<ra, mem>>

CallTrips ==
  /\ ra[1] # 0
  /\ rasp = 0
  /\ excp' = "TRIP"
  /\ UNCHANGED <<ra, rasp, mem>>

Call(a) ==
  /\ excp = "none"
  /\ CallToRegister(a) \/ CallSpills(a) \/ CallTrips
  /\ UNCHANGED <<jmp_pc, base>>

(* trans_RET: pop_return_address.  A load at or above base is a RET        *)
(* without a CALL: it reads whatever lies above the memory stack.          *)
(* Mutant of RetFromRegister: rasp moves although memory was not read.     *)
RetFromRegisterMoves ==
  /\ ra[N] # 0
  /\ jmp_pc' = ra[N]
  /\ ra' = ShiftUp
  /\ rasp' = IF rasp = 0 THEN 0 ELSE rasp + 1
  /\ UNCHANGED excp

RetFromRegister ==
  /\ ra[N] # 0
  /\ jmp_pc' = ra[N]
  /\ ra' = ShiftUp
  /\ UNCHANGED <<rasp, excp>>

RetFromMemory ==
  /\ ra[N] = 0
  /\ rasp # 0
  /\ rasp' = rasp + 1
  /\ IF rasp < base
     THEN /\ jmp_pc' = mem[rasp]
          /\ UNCHANGED excp
     ELSE /\ excp' = "wild"
          /\ jmp_pc' \in Word
  /\ UNCHANGED ra

(* Mutant of RetTrips: the test for empty registers looks at ra1.          *)
RetTripsOnRa1 ==
  /\ ra[1] = 0
  /\ rasp = 0
  /\ excp' = "TRIP"
  /\ UNCHANGED <<ra, rasp, jmp_pc>>

RetTrips ==
  /\ ra[N] = 0
  /\ rasp = 0
  /\ excp' = "TRIP"
  /\ UNCHANGED <<ra, rasp, jmp_pc>>

Ret ==
  /\ excp = "none"
  /\ RetFromRegister \/ RetFromMemory \/ RetTrips
  /\ UNCHANGED <<mem, base>>

Next ==
  \/ \E b \in (Lo + 1)..Hi : SetRasp(b)
  \/ \E a \in Addr : Call(a)
  \/ Ret

Spec == Init /\ [][Next]_vars

-----------------------------------------------------------------------------
(***************************************************************************)
(* The stack these registers and this memory represent.                    *)
(***************************************************************************)

(* k registers are taken, and they are the last k. *)
Taken(k) == \A i \in Regs : ra[i] # 0 <=> i > N - k

TakenRegs == CHOOSE k \in 0..N : Taken(k)

(* A spill that faulted has moved rasp but stored nothing. *)
Spilled ==
  IF excp = "SEGV" THEN base - rasp - 1
  ELSE IF excp = "wild" THEN 0
  ELSE base - rasp

RetStack ==
  [i \in 1..(Spilled + TakenRegs) |->
     IF i <= Spilled THEN mem[base - i] ELSE ra[N - TakenRegs + (i - Spilled)]]

Status ==
  CASE excp = "none" -> "run"
    [] excp = "wild" -> "wild"
    [] OTHER -> "stopped"

Abstract == INSTANCE CallStack WITH stack <- RetStack, target <- jmp_pc,
                                    status <- Status

-----------------------------------------------------------------------------
(***************************************************************************)
(* Properties                                                              *)
(***************************************************************************)

(* Type invariant: every register and word holds 0 or a return address.    *)
TypeOK ==
  /\ ra \in [Regs -> Word]
  /\ rasp \in 0..(Hi + 1)
  /\ mem \in [Slots -> Word]
  /\ jmp_pc \in Word
  /\ excp \in {"none", "TRIP", "SEGV", "wild"}
  /\ base \in {0} \cup ((Lo + 1)..Hi)

(* The taken registers are always the last ones: the single-register tests *)
(* "ra1 = 0" (room left) and "ra63 = 0" (registers empty) of push and pop  *)
(* are only right because the shifts never leave a hole.                   *)
NoHole == \E k \in 0..N : Taken(k)

(* The words between rasp and base hold return addresses, never a 0 or     *)
(* something a later CALL overwrote, and rasp stays within them.           *)
SpillIntact ==
  /\ base = 0 => rasp = 0
  /\ base # 0 /\ excp \in {"none", "TRIP"} => Lo <= rasp /\ rasp <= base
  /\ \A s \in Slots : rasp <= s /\ s < base => mem[s] # 0

(* The processor never stops a RET that has a matching CALL: when the trap *)
(* of pop_return_address is taken no return address is left anywhere.      *)
RetNeverLost == [][Ret /\ excp' # "none" => RetStack = << >>]_vars

(* The registers and the memory together are the promised call stack.      *)
ImplementsCallStack == Abstract!Spec
=============================================================================
