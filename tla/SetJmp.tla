------------------------------- MODULE SetJmp -------------------------------
(***************************************************************************)
(* newlib's setjmp and longjmp on the return-address stack of QemuRas.     *)
(* setjmp stores ra1..ra63 into the jmp_buf, longjmp loads them back; both *)
(* are functions, so both are entered by a CALL and left by a RET that use *)
(* the registers being saved and restored.  rasp is neither saved nor      *)
(* restored.  A step is a CALL or RET of the program or of the library, or *)
(* one of the library's two transfers.                                     *)
(***************************************************************************)
EXTENDS QemuRas

CONSTANT SjAddr   \* the return address of the program's call of setjmp

ASSUME SjAssumption == SjAddr \in Addr

VARIABLES
  where,          \* "user", "setjmp", "saved", "longjmp" or "loaded"
  jmp_buf,        \* the words of the jmp_buf that hold ra1..ra63
  live,           \* history: has setjmp returned, and its caller not yet?
  frame,          \* history: the stack of setjmp's caller
  sj_rasp         \* history: rasp when setjmp was called

sjVars == <<where, jmp_buf, live, frame, sj_rasp>>

SjInit ==
  /\ Init
  /\ where = "user"
  /\ jmp_buf = [i \in Regs |-> 0]
  /\ live = FALSE
  /\ frame = << >>
  /\ sj_rasp = 0

(* The caller of setjmp has not returned while its stack is still there.   *)
StillLive == live /\ (excp = "none" => Len(RetStack)' >= Len(frame))

UserStep ==
  /\ where = "user"
  /\ \/ \E b \in (Lo + 1)..Hi : SetRasp(b)
     \/ \E a \in Addr : Call(a)
     \/ Ret
  /\ live' = StillLive
  /\ UNCHANGED <<where, jmp_buf, frame, sj_rasp>>

CallSetjmp ==
  /\ where = "user"
  /\ Call(SjAddr)
  /\ where' = "setjmp"
  /\ live' = FALSE
  /\ frame' = RetStack
  /\ sj_rasp' = rasp'
  /\ UNCHANGED jmp_buf

(* Mutant of SaveRas: one register too few. *)
SaveRasShort ==
  /\ where = "setjmp" /\ excp = "none"
  /\ jmp_buf' = [ra EXCEPT ![N] = jmp_buf[N]]
  /\ where' = "saved"
  /\ UNCHANGED <<vars, live, frame, sj_rasp>>

(* stmo ra1, rb8, rd16, 63 *)
SaveRas ==
  /\ where = "setjmp" /\ excp = "none"
  /\ jmp_buf' = ra
  /\ where' = "saved"
  /\ UNCHANGED <<vars, live, frame, sj_rasp>>

ReturnFromSetjmp ==
  /\ where = "saved"
  /\ Ret
  /\ where' = "user"
  /\ live' = TRUE
  /\ UNCHANGED <<jmp_buf, frame, sj_rasp>>

CallLongjmp(a) ==
  /\ where = "user" /\ live
  /\ Call(a)
  /\ where' = "longjmp"
  /\ UNCHANGED <<jmp_buf, live, frame, sj_rasp>>

(* Mutant of LoadRas: registers that were free are not loaded. *)
LoadRasMerged ==
  /\ where = "longjmp" /\ excp = "none"
  /\ ra' = [i \in Regs |-> IF jmp_buf[i] # 0 THEN jmp_buf[i] ELSE ra[i]]
  /\ where' = "loaded"
  /\ UNCHANGED <<rasp, mem, jmp_pc, excp, base, jmp_buf, live, frame, sj_rasp>>

(* ldmo ra1, rb8, rd16, 63 *)
LoadRas ==
  /\ where = "longjmp" /\ excp = "none"
  /\ ra' = jmp_buf
  /\ where' = "loaded"
  /\ UNCHANGED <<rasp, mem, jmp_pc, excp, base, jmp_buf, live, frame, sj_rasp>>

ReturnFromLongjmp ==
  /\ where = "loaded"
  /\ Ret
  /\ where' = "user"
  /\ live' = TRUE
  /\ UNCHANGED <<jmp_buf, frame, sj_rasp>>

SjNext ==
  \/ UserStep \/ CallSetjmp \/ SaveRas \/ ReturnFromSetjmp
  \/ \E a \in Addr : CallLongjmp(a)
  \/ LoadRas \/ ReturnFromLongjmp

SjSpec == SjInit /\ [][SjNext]_<<vars, sjVars>>

-----------------------------------------------------------------------------
(***************************************************************************)
(* Properties                                                              *)
(***************************************************************************)

(* longjmp always ends where setjmp returned to, however deep the calls in *)
(* between were and whatever they spilled.                                 *)
LongjmpReturnsToSetjmp ==
  [][ReturnFromLongjmp => jmp_pc' = SjAddr /\ excp' = "none"]_<<vars, sjVars>>

(* If no CALL made after setjmp has left a spilled word behind, longjmp    *)
(* also gives the caller of setjmp its whole stack back: every RET after   *)
(* it will find the address it would have found after setjmp.              *)
StackRestored ==
  [][ReturnFromLongjmp /\ rasp = sj_rasp => RetStack' = frame]_<<vars, sjVars>>

(* With a program that jumps, registers and memory still are the promised  *)
(* call stack: every step but longjmp's load of the registers, which is    *)
(* meant to drop the calls made since setjmp, is a step of that stack.     *)
StackBetweenJumps == Abstract!Init /\ [][Abstract!Next \/ LoadRas]_(Abstract!vars)

(* A caller that has not returned never finds rasp above the place it had  *)
(* at setjmp: the words setjmp did not save are still below it.            *)
SavedFramesKept == live /\ excp = "none" /\ sj_rasp # 0 => rasp <= sj_rasp
=============================================================================
