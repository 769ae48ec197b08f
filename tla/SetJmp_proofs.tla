---------------------------- MODULE SetJmp_proofs ----------------------------
(***************************************************************************)
(* Proofs about SetJmp, for any number of registers, any set of non-zero   *)
(* return addresses and any place of the memory stack.                     *)
(***************************************************************************)
EXTENDS SetJmp, QemuRas_proofs

(* The words of memory that held return addresses when setjmp was called.  *)
SjSpilled == IF sj_rasp = 0 THEN 0 ELSE base - sj_rasp

(* k words of the jmp_buf are return addresses, and they are the last k.   *)
BufTaken(k) == \A i \in Regs : jmp_buf[i] # 0 <=> i > N - k

(* The jmp_buf and the words setjmp left in memory are still the stack of  *)
(* its caller with setjmp's own return address on top.                     *)
BufHolds(k) ==
  /\ BufTaken(k)
  /\ jmp_buf[N] = SjAddr
  /\ Append(frame, SjAddr) = Contents(SjSpilled, mem, base, jmp_buf, k)

SjTypes ==
  /\ where \in {"user", "setjmp", "saved", "longjmp", "loaded"}
  /\ jmp_buf \in [Regs -> Word]
  /\ live \in BOOLEAN
  /\ frame \in Seq(Word)
  /\ sj_rasp \in Nat

(* longjmp runs only while the caller of setjmp is live, setjmp never.     *)
LibraryInv ==
  /\ where \in {"longjmp", "loaded"} => live
  /\ where \in {"setjmp", "saved"} => ~live
  /\ where = "loaded" => ra = jmp_buf

(* Inside setjmp the stack is the caller's and one address more.           *)
EnteredInv ==
  where \in {"setjmp", "saved"} /\ excp = "none" =>
    /\ ra[N] = SjAddr
    /\ rasp = sj_rasp
    /\ RetStack = Append(frame, SjAddr)

(* What longjmp relies on, from the save to the return of setjmp's caller. *)
SavedInv ==
  (live \/ where = "saved") /\ excp = "none" =>
    /\ sj_rasp # 0 => Lo <= rasp /\ rasp <= sj_rasp /\ sj_rasp <= base
    /\ \E k \in 1..N : BufHolds(k)

SjIInv == IInv /\ SjTypes /\ LibraryInv /\ EnteredInv /\ SavedInv

-----------------------------------------------------------------------------
(* Only the words below the top of the saved part matter.                  *)
LEMMA ContentsKept ==
  ASSUME NEW n \in Nat, NEW k \in Nat, NEW m, NEW m2, NEW b, NEW r,
         \A i \in 1..n : m2[b - i] = m[b - i]
  PROVE  Contents(n, m2, b, r, k) = Contents(n, m, b, r, k)
  BY DEF Contents

(* The stack of a program that runs is a sequence of words.                *)
LEMMA StackIs ==
  ASSUME IInv, excp = "none", NEW k \in 0..N, Taken(k)
  PROVE  /\ RetStack = Contents(base - rasp, mem, base, ra, k)
         /\ RetStack \in Seq(Word) /\ Len(RetStack) = base - rasp + k
<1>1. Spilled = base - rasp /\ WellFormed(Spilled, mem, base, ra, k)
  BY StackWellFormed
<1>2. RetStack = Contents(Spilled, mem, base, ra, k)
  BY RetStackIs
<1> QED BY <1>1, <1>2, ContentsSeq

(* The words between rasp and its base are mapped.                         *)
LEMMA WordsMapped ==
  ASSUME NEW b \in {0} \cup ((Lo + 1)..Hi), NEW p \in 0..(Hi + 1),
         b = 0 => p = 0, b # 0 => Lo <= p /\ p <= b
  PROVE  b - p \in Nat /\ \A i \in 1..(b - p) : b - i \in Slots
  BY MemAssumption DEF Slots

(* The same for the stack after a step.                                    *)
LEMMA StackIsAfter ==
  ASSUME IInv', excp' = "none", NEW k \in 0..N, Taken(k)'
  PROVE  /\ RetStack' = Contents(base' - rasp', mem', base', ra', k)
         /\ Len(RetStack') = base' - rasp' + k
<1> USE NAssumption, MemAssumption
<1>1. Spilled' = base' - rasp'
  BY DEF Spilled
<1>0. /\ rasp' \in 0..(Hi + 1) /\ base' \in {0} \cup ((Lo + 1)..Hi)
      /\ base' = 0 => rasp' = 0
      /\ base' # 0 => Lo <= rasp' /\ rasp' <= base'
  BY DEF IInv, TypeOK, SpillIntact
<1>2. base' - rasp' \in Nat /\ \A i \in 1..(base' - rasp') : base' - i \in Slots
  BY <1>0, WordsMapped
<1>4. mem' \in [Slots -> Word] /\ ra' \in [Regs -> Word]
  BY DEF IInv, TypeOK
<1>5. WellFormed(Spilled', mem', base', ra', k)
  BY <1>1, <1>2, <1>4 DEF WellFormed
<1>6. RetStack' = Contents(Spilled', mem', base', ra', k)
  BY RetStackIsAfter
<1> QED BY <1>1, <1>5, <1>6, ContentsSeq

(* While the caller of setjmp is live, rasp does not lie above the words   *)
(* setjmp left, and all of them are mapped.                                *)
LEMMA SavedWords ==
  ASSUME SjIInv, live \/ where = "saved", excp = "none"
  PROVE  /\ SjSpilled \in Nat /\ rasp \in Nat /\ base \in Nat
         /\ sj_rasp # 0 => rasp <= base - SjSpilled
         /\ \A i \in 1..SjSpilled : base - i \in Slots /\ rasp <= base - i
<1> USE MemAssumption
<1>1. base \in 0..Hi /\ rasp \in Nat
  BY DEF SjIInv, IInv, TypeOK
<1>2. sj_rasp \in Nat /\ (sj_rasp # 0 => Lo <= rasp /\ rasp <= sj_rasp /\ sj_rasp <= base)
  BY DEF SjIInv, SjTypes, SavedInv
<1> QED BY <1>1, <1>2 DEF SjSpilled, Slots

(* A step that writes none of those words keeps what longjmp relies on.    *)
LEMMA BufKept ==
  ASSUME SjIInv, live \/ where = "saved", excp = "none", NEW k \in 1..N, BufHolds(k),
         UNCHANGED <<jmp_buf, frame, sj_rasp, base>>,
         \A i \in 1..SjSpilled : mem'[base - i] = mem[base - i]
  PROVE  BufHolds(k)'
<1>1. SjSpilled' = SjSpilled
  BY DEF SjSpilled
<1>2. SjSpilled \in Nat /\ k \in Nat
  BY SavedWords, NAssumption
<1>3. Contents(SjSpilled, mem', base, jmp_buf, k) = Contents(SjSpilled, mem, base, jmp_buf, k)
  BY <1>2, ContentsKept
<1> QED BY <1>1, <1>3 DEF BufHolds, BufTaken

(* A CALL keeps it: it spills below the words that are there.              *)
LEMMA CallKeeps ==
  ASSUME SjIInv, live, NEW a \in Addr, Call(a), excp' = "none",
         UNCHANGED <<jmp_buf, frame, sj_rasp>>
  PROVE  /\ sj_rasp' # 0 => Lo <= rasp' /\ rasp' <= sj_rasp' /\ sj_rasp' <= base'
         /\ \E k \in 1..N : BufHolds(k)'
<1> USE MemAssumption
<1>0. PICK k \in 1..N : BufHolds(k)
  BY DEF SjIInv, SavedInv, Call
<1>1. excp = "none" /\ base' = base
  BY DEF Call
<1>2. /\ rasp \in Nat /\ base \in Nat /\ mem \in [Slots -> Word]
      /\ sj_rasp # 0 => Lo <= rasp /\ rasp <= sj_rasp /\ sj_rasp <= base
  BY <1>1 DEF SjIInv, IInv, TypeOK, SavedInv
<1>3. \A i \in 1..SjSpilled : base - i \in Slots /\ rasp <= base - i /\ i \in Nat
  BY <1>1, SavedWords
<1>4. \/ rasp' = rasp /\ mem' = mem
      \/ rasp' = rasp - 1 /\ rasp - 1 \in Slots /\ mem' = [mem EXCEPT ![rasp - 1] = ra[1]]
  BY <1>1 DEF Call, CallToRegister, CallSpills, CallTrips
<1>5. \A i \in 1..SjSpilled : mem'[base - i] = mem[base - i]
  BY <1>2, <1>3, <1>4
<1>6. BufHolds(k)'
  BY <1>0, <1>1, <1>5, BufKept
<1>7. sj_rasp' # 0 => Lo <= rasp' /\ rasp' <= sj_rasp' /\ sj_rasp' <= base'
  BY <1>1, <1>2, <1>4 DEF Slots, SjIInv, SjTypes
<1> QED BY <1>6, <1>7

(* A RET keeps it unless it takes the first of those words: then the stack *)
(* is shorter than setjmp's caller left it, and the caller has returned.   *)
LEMMA RetKeeps ==
  ASSUME SjIInv, live \/ where = "saved", Ret, excp' = "none", IInv',
         UNCHANGED <<jmp_buf, frame, sj_rasp>>,
         ra[N] # 0 \/ Len(RetStack') >= Len(frame)
  PROVE  /\ sj_rasp' # 0 => Lo <= rasp' /\ rasp' <= sj_rasp' /\ sj_rasp' <= base'
         /\ \E k \in 1..N : BufHolds(k)'
<1> USE MemAssumption
<1>1. excp = "none" /\ base' = base /\ mem' = mem
  BY DEF Ret
<1>0. PICK k \in 1..N : BufHolds(k)
  BY <1>1 DEF SjIInv, SavedInv
<1>2. /\ rasp \in Nat /\ base \in Nat /\ sj_rasp \in Nat
      /\ sj_rasp # 0 => Lo <= rasp /\ rasp <= sj_rasp /\ sj_rasp <= base
  BY <1>1 DEF SjIInv, IInv, TypeOK, SavedInv, SjTypes
<1>3. BufHolds(k)'
  BY <1>0, <1>1, BufKept
<1>4. CASE RetFromRegister \/ RetTrips
  <2>1. rasp' = rasp
    BY <1>4 DEF RetFromRegister, RetTrips
  <2> QED BY <1>1, <1>2, <1>3, <2>1
<1>5. CASE RetFromMemory
  <2>1. ra[N] = 0 /\ rasp' = rasp + 1 /\ ra' = ra
    BY <1>5 DEF RetFromMemory
  <2>2. PICK j \in 0..N : Taken(j)
    BY DEF SjIInv, IInv, NoHole
  <2>3. j = 0 /\ 0 \in 0..N /\ Taken(0)'
    BY <2>1, <2>2, TakenTests, NAssumption DEF Taken
  <2>4. Len(RetStack') = base - rasp - 1
    <3>1. Len(RetStack') = base' - rasp' + 0
      BY <2>3, StackIsAfter
    <3> QED BY <1>1, <1>2, <2>1, <3>1
  <2>5. Len(frame) >= SjSpilled
    <3>1. SjSpilled \in Nat /\ \A i \in 1..SjSpilled : base - i \in Slots
      BY <1>1, SavedWords
    <3>2. WellFormed(SjSpilled, mem, base, jmp_buf, k)
      BY <3>1, NAssumption DEF WellFormed, SjIInv, IInv, TypeOK, SjTypes
    <3>3. Len(Append(frame, SjAddr)) = SjSpilled + k
      BY <1>0, <3>2, ContentsSeq DEF BufHolds
    <3>4. frame \in Seq(Word) /\ SjAddr \in Word
      BY SjAssumption DEF SjIInv, SjTypes, Word
    <3>5. Len(Append(frame, SjAddr)) = Len(frame) + 1 /\ Len(frame) \in Nat
      BY <3>4
    <3> QED BY <3>1, <3>3, <3>5, NAssumption
  <2>6. sj_rasp # 0 => base - rasp - 1 >= base - sj_rasp
    BY <1>1, <2>1, <2>4, <2>5, SavedWords, LenProperties DEF SjSpilled, SjIInv, SjTypes
  <2> QED BY <1>1, <1>2, <1>3, <2>1, <2>6
<1> QED BY <1>4, <1>5 DEF Ret

-----------------------------------------------------------------------------
(* Nothing is saved before the first setjmp.                               *)
LEMMA SjInitIInv == SjInit => SjIInv
<1> SUFFICES ASSUME SjInit PROVE SjIInv
  OBVIOUS
<1>1. IInv
  BY InitIInv DEF SjInit
<1>2. SjTypes
  <2>1. << >> \in Seq(Word)
    OBVIOUS
  <2>2. [i \in Regs |-> 0] \in [Regs -> Word]
    BY DEF Word
  <2> QED BY <2>1, <2>2 DEF SjInit, SjTypes
<1>3. LibraryInv /\ EnteredInv /\ SavedInv
  BY DEF SjInit, LibraryInv, EnteredInv, SavedInv
<1> QED BY <1>1, <1>2, <1>3 DEF SjIInv

(* The program keeps the invariant, as long as setjmp's caller is live.    *)
LEMMA UserIInv == SjIInv /\ UserStep => SjIInv'
<1> SUFFICES ASSUME SjIInv, UserStep PROVE SjIInv'
  OBVIOUS
<1>1. IInv'
  BY SetRaspIInv, CallIInv, RetIInv DEF SjIInv, UserStep
<1>2. /\ where = "user" /\ where' = where /\ UNCHANGED <<jmp_buf, frame, sj_rasp>>
      /\ live' = StillLive /\ excp = "none"
  BY DEF UserStep, SetRasp, Call, Ret
<1>3. SjTypes' /\ LibraryInv' /\ EnteredInv'
  BY <1>2 DEF SjIInv, SjTypes, LibraryInv, EnteredInv, StillLive
<1>4. ASSUME live', excp' = "none"
      PROVE  /\ sj_rasp' # 0 => Lo <= rasp' /\ rasp' <= sj_rasp' /\ sj_rasp' <= base'
             /\ \E k \in 1..N : BufHolds(k)'
  <2>1. live /\ Len(RetStack') >= Len(frame)
    BY <1>2, <1>4 DEF StillLive
  <2>2. CASE \E b \in (Lo + 1)..Hi : SetRasp(b)
    <3>1. base = 0 /\ rasp = 0 /\ jmp_buf' = jmp_buf /\ frame' = frame
      BY <1>2, <2>2 DEF SetRasp, SjIInv, IInv, SpillIntact
    <3>2. sj_rasp = 0 /\ sj_rasp' = 0
      BY <1>2, <2>1, <3>1, MemAssumption DEF SjIInv, SavedInv, SjTypes
    <3>3. PICK k \in 1..N : BufHolds(k)
      BY <1>2, <2>1 DEF SjIInv, SavedInv
    <3>4. Contents(0, mem', base', jmp_buf, k) = Contents(0, mem, base, jmp_buf, k)
      BY NAssumption DEF Contents
    <3>5. BufHolds(k)'
      BY <3>1, <3>2, <3>3, <3>4 DEF BufHolds, BufTaken, SjSpilled
    <3> QED BY <3>2, <3>5
  <2>3. CASE \E a \in Addr : Call(a)
    BY <1>2, <1>4, <2>1, <2>3, CallKeeps
  <2>4. CASE Ret
    BY <1>1, <1>2, <1>4, <2>1, <2>4, RetKeeps
  <2> QED BY <2>2, <2>3, <2>4 DEF UserStep
<1>5. SavedInv'
  BY <1>2, <1>4 DEF SavedInv
<1> QED BY <1>1, <1>3, <1>5 DEF SjIInv

(* The CALL of setjmp leaves the caller's stack and its own return address.*)
LEMMA CallSetjmpIInv == SjIInv /\ CallSetjmp => SjIInv'
<1> SUFFICES ASSUME SjIInv, CallSetjmp PROVE SjIInv'
  OBVIOUS
<1>1. IInv'
  BY CallIInv, SjAssumption DEF SjIInv, CallSetjmp
<1>2. excp = "none" /\ Call(SjAddr) /\ SjAddr \in Addr /\ IInv /\ jmp_buf' = jmp_buf
  BY SjAssumption DEF CallSetjmp, Call, SjIInv
<1>3. RetStack \in Seq(Word)
  <2>1. PICK k \in 0..N : Taken(k)
    BY <1>2 DEF IInv, NoHole
  <2> QED BY <1>2, <2>1, StackIs
<1>4. SjTypes'
  <2>1. rasp' \in Nat
    BY <1>1, MemAssumption DEF IInv, TypeOK
  <2> QED BY <1>2, <1>3, <2>1 DEF SjIInv, SjTypes, CallSetjmp
<1>5. LibraryInv' /\ SavedInv'
  BY DEF LibraryInv, SavedInv, CallSetjmp
<1>6. ASSUME excp' = "none"
      PROVE  ra'[N] = SjAddr /\ RetStack' = Append(RetStack, SjAddr)
  <2>1. Status' = "run"
    BY <1>6, StatusIsAfter
  <2>2. Abstract!Call(SjAddr) \/ Abstract!CallFails
    BY <1>2, CallRefines
  <2>3. RetStack' = Append(RetStack, SjAddr)
    BY <2>1, <2>2 DEF Abstract!Call, Abstract!CallFails
  <2>4. ra' = ShiftDown(SjAddr)
    BY <1>2, <1>6 DEF Call, CallToRegister, CallSpills, CallTrips
  <2> QED BY <2>3, <2>4, NAssumption DEF ShiftDown, Regs
<1>7. EnteredInv'
  BY <1>6 DEF EnteredInv, CallSetjmp
<1> QED BY <1>1, <1>4, <1>5, <1>7 DEF SjIInv

(* What setjmp stores is what longjmp will rely on.                        *)
LEMMA SaveRasIInv == SjIInv /\ SaveRas => SjIInv'
<1> SUFFICES ASSUME SjIInv, SaveRas PROVE SjIInv'
  OBVIOUS
<1>1. /\ UNCHANGED <<ra, rasp, mem, jmp_pc, excp, base, live, frame, sj_rasp>>
      /\ jmp_buf' = ra /\ where = "setjmp" /\ where' = "saved" /\ excp = "none"
  BY DEF SaveRas, vars
<1>2. IInv'
  BY <1>1 DEF SjIInv, IInv, TypeOK, NoHole, Taken, SpillIntact
<1>3. SjTypes' /\ LibraryInv'
  BY <1>1 DEF SjIInv, SjTypes, LibraryInv, IInv, TypeOK
<1>4. RetStack' = RetStack
  BY <1>1 DEF RetStack, Spilled, TakenRegs, Taken
<1>5. EnteredInv'
  BY <1>1, <1>4 DEF SjIInv, EnteredInv
<1>6. ra[N] = SjAddr /\ rasp = sj_rasp /\ RetStack = Append(frame, SjAddr)
  BY <1>1 DEF SjIInv, EnteredInv
<1>7. PICK k \in 0..N : Taken(k)
  BY DEF SjIInv, IInv, NoHole
<1>8. k \in 1..N
  BY <1>6, <1>7, TakenTests, NAssumption, SjAssumption, AddrAssumption
<1>9. /\ rasp \in Nat /\ base \in Nat /\ (base = 0 => rasp = 0)
      /\ base # 0 => Lo <= rasp /\ rasp <= base
  BY <1>1, MemAssumption DEF SjIInv, IInv, TypeOK, SpillIntact
<1>10. SjSpilled' = base - rasp
  BY <1>1, <1>6, <1>9, MemAssumption DEF SjSpilled
<1>11. RetStack = Contents(base - rasp, mem, base, ra, k)
  BY <1>1, <1>7, StackIs DEF SjIInv
<1>12. BufHolds(k)'
  BY <1>1, <1>6, <1>7, <1>10, <1>11 DEF BufHolds, BufTaken, Taken
<1>13. SavedInv'
  BY <1>1, <1>6, <1>8, <1>9, <1>12 DEF SavedInv
<1> QED BY <1>2, <1>3, <1>5, <1>13 DEF SjIInv

(* The RET of setjmp or longjmp takes the address setjmp was called from.  *)
LEMMA LibraryReturn ==
  ASSUME SjIInv, where \in {"saved", "loaded"}, Ret
  PROVE  ra[N] = SjAddr /\ ra[N] # 0 /\ jmp_pc' = SjAddr /\ excp' = "none"
<1>1. excp = "none"
  BY DEF Ret
<1>2. ra[N] = SjAddr
  BY <1>1 DEF SjIInv, EnteredInv, LibraryInv, SavedInv, BufHolds
<1>3. SjAddr # 0
  BY SjAssumption, AddrAssumption
<1> QED BY <1>1, <1>2, <1>3 DEF Ret, RetFromRegister, RetFromMemory, RetTrips

(* Both returns keep the invariant and make the caller live.               *)
LEMMA ReturnIInv == SjIInv /\ (ReturnFromSetjmp \/ ReturnFromLongjmp) => SjIInv'
<1> SUFFICES ASSUME SjIInv, ReturnFromSetjmp \/ ReturnFromLongjmp PROVE SjIInv'
  OBVIOUS
<1>1. /\ Ret /\ where \in {"saved", "loaded"} /\ where' = "user" /\ live' = TRUE
      /\ UNCHANGED <<jmp_buf, frame, sj_rasp>>
  BY DEF ReturnFromSetjmp, ReturnFromLongjmp
<1>2. IInv'
  BY <1>1, RetIInv DEF SjIInv
<1>3. live \/ where = "saved"
  BY <1>1 DEF SjIInv, LibraryInv
<1>4. ra[N] # 0 /\ excp' = "none"
  BY <1>1, LibraryReturn
<1>5. SavedInv'
  BY <1>1, <1>2, <1>3, <1>4, RetKeeps DEF SavedInv
<1>6. SjTypes' /\ LibraryInv' /\ EnteredInv'
  BY <1>1 DEF SjIInv, SjTypes, LibraryInv, EnteredInv
<1> QED BY <1>2, <1>5, <1>6 DEF SjIInv

(* So does the CALL of longjmp, however deep it is made.                   *)
LEMMA CallLongjmpIInv ==
  ASSUME SjIInv, NEW a \in Addr, CallLongjmp(a)
  PROVE  SjIInv'
<1>1. /\ Call(a) /\ where = "user" /\ live /\ where' = "longjmp" /\ live' = live
      /\ UNCHANGED <<jmp_buf, frame, sj_rasp>>
  BY DEF CallLongjmp
<1>2. IInv'
  BY <1>1, CallIInv DEF SjIInv
<1>3. SavedInv'
  BY <1>1, CallKeeps DEF SavedInv
<1>4. SjTypes' /\ LibraryInv' /\ EnteredInv'
  BY <1>1 DEF SjIInv, SjTypes, LibraryInv, EnteredInv
<1> QED BY <1>2, <1>3, <1>4 DEF SjIInv

(* The registers longjmp loads have no hole, so push and pop still work.   *)
LEMMA LoadRasIInv == SjIInv /\ LoadRas => SjIInv'
<1> SUFFICES ASSUME SjIInv, LoadRas PROVE SjIInv'
  OBVIOUS
<1>1. /\ UNCHANGED <<rasp, mem, jmp_pc, excp, base, jmp_buf, live, frame, sj_rasp>>
      /\ ra' = jmp_buf /\ where = "longjmp" /\ where' = "loaded" /\ excp = "none"
  BY DEF LoadRas
<1>2. live
  BY <1>1 DEF SjIInv, LibraryInv
<1>3. PICK k \in 1..N : BufHolds(k)
  BY <1>1, <1>2 DEF SjIInv, SavedInv
<1>4. TypeOK' /\ SpillIntact'
  BY <1>1 DEF SjIInv, SjTypes, IInv, TypeOK, SpillIntact
<1>5. NoHole'
  <2>1. k \in 0..N /\ Taken(k)'
    BY <1>1, <1>3, NAssumption DEF BufHolds, BufTaken, Taken
  <2> QED BY <2>1 DEF NoHole
<1>6. SjTypes' /\ LibraryInv' /\ EnteredInv'
  BY <1>1, <1>2 DEF SjIInv, SjTypes, LibraryInv, EnteredInv
<1>7. BufHolds(k)'
  BY <1>1, <1>3 DEF BufHolds, BufTaken, SjSpilled
<1>8. SavedInv'
  BY <1>1, <1>2, <1>7 DEF SjIInv, SavedInv
<1> QED BY <1>4, <1>5, <1>6, <1>8 DEF SjIInv, IInv

(* Every step of the program and of the library keeps the invariant.       *)
LEMMA SjNextIInv == SjIInv /\ [SjNext]_<<vars, sjVars>> => SjIInv'
<1> SUFFICES ASSUME SjIInv, [SjNext]_<<vars, sjVars>> PROVE SjIInv'
  OBVIOUS
<1>1. CASE UserStep
  BY <1>1, UserIInv
<1>2. CASE CallSetjmp
  BY <1>2, CallSetjmpIInv
<1>3. CASE SaveRas
  BY <1>3, SaveRasIInv
<1>4. CASE ReturnFromSetjmp \/ ReturnFromLongjmp
  BY <1>4, ReturnIInv
<1>5. CASE \E a \in Addr : CallLongjmp(a)
  BY <1>5, CallLongjmpIInv
<1>6. CASE LoadRas
  BY <1>6, LoadRasIInv
<1>7. CASE UNCHANGED <<vars, sjVars>>
  <2>1. UNCHANGED <<ra, rasp, mem, jmp_pc, excp, base>>
    BY <1>7 DEF vars
  <2>2. UNCHANGED <<where, jmp_buf, live, frame, sj_rasp>>
    BY <1>7 DEF sjVars
  <2>3. IInv'
    BY <2>1 DEF SjIInv, IInv, TypeOK, NoHole, Taken, SpillIntact
  <2>4. RetStack' = RetStack
    BY <2>1 DEF RetStack, Spilled, TakenRegs, Taken
  <2>5. SjTypes' /\ LibraryInv' /\ EnteredInv'
    BY <2>1, <2>2, <2>4 DEF SjIInv, SjTypes, LibraryInv, EnteredInv
  <2>6. SavedInv'
    BY <2>1, <2>2 DEF SjIInv, SavedInv, BufHolds, BufTaken, SjSpilled
  <2> QED BY <2>3, <2>5, <2>6 DEF SjIInv
<1> QED BY <1>1, <1>2, <1>3, <1>4, <1>5, <1>6, <1>7 DEF SjNext

-----------------------------------------------------------------------------
(* The inductive invariant holds in every reachable state of a program     *)
(* that uses setjmp and longjmp.                                           *)
THEOREM SjInvariantHolds == SjSpec => []SjIInv
  BY SjInitIInv, SjNextIInv, PTL DEF SjSpec

(* longjmp does not break the return-address stack: the registers it loads *)
(* are contiguous, the spilled words intact.                               *)
THEOREM LongjmpKeepsStack == SjSpec => [](NoHole /\ SpillIntact)
<1>1. SjIInv => NoHole /\ SpillIntact
  BY DEF SjIInv, IInv
<1> QED BY <1>1, SjInvariantHolds, PTL

(* Every step of a program that jumps, but longjmp's load of the           *)
(* registers, is a step of the call stack or none.                         *)
THEOREM JumpsAreOnStack == SjSpec => StackBetweenJumps
<1>1. ASSUME SjIInv, [SjNext]_<<vars, sjVars>>
      PROVE  [Abstract!Next \/ LoadRas]_(Abstract!vars)
  <2>1. LoadRas \/ [Next]_vars
    BY <1>1, SjAssumption DEF SjNext, UserStep, CallSetjmp, SaveRas, ReturnFromSetjmp, CallLongjmp,
                ReturnFromLongjmp, Next
  <2> QED BY <1>1, <2>1, NextRefines DEF SjIInv
<1>2. SjInit => Abstract!Init
  BY InitRefines DEF SjInit
<1> QED BY <1>1, <1>2, SjInvariantHolds, PTL DEF SjSpec, StackBetweenJumps

(* A RET is never refused, or sent astray, while a CALL is outstanding,    *)
(* whatever longjmp has loaded.                                            *)
THEOREM JumpsLoseNoReturn == SjSpec => RetNeverLost
<1>1. ASSUME SjIInv, [SjNext]_<<vars, sjVars>>
      PROVE  [Ret /\ excp' # "none" => RetStack = << >>]_vars
  BY <1>1, RetRefines DEF SjIInv
<1> QED BY <1>1, SjInvariantHolds, PTL DEF SjSpec, RetNeverLost

(* A caller of setjmp that has not returned finds rasp at or below the     *)
(* place it had: the words setjmp did not save have not been popped.       *)
THEOREM FramesStay == SjSpec => []SavedFramesKept
<1>1. SjIInv => SavedFramesKept
  BY DEF SjIInv, SavedInv, SavedFramesKept
<1> QED BY <1>1, SjInvariantHolds, PTL

(* longjmp always returns to where setjmp was called from.                 *)
THEOREM LongjmpTarget == SjSpec => LongjmpReturnsToSetjmp
<1>1. SjIInv /\ [SjNext]_<<vars, sjVars>> =>
        [ReturnFromLongjmp => jmp_pc' = SjAddr /\ excp' = "none"]_<<vars, sjVars>>
  BY LibraryReturn DEF ReturnFromLongjmp
<1> QED BY <1>1, SjInvariantHolds, PTL DEF SjSpec, LongjmpReturnsToSetjmp

(* If rasp is where setjmp found it, longjmp gives the caller of setjmp    *)
(* exactly the stack it had.                                               *)
THEOREM LongjmpRestores == SjSpec => StackRestored
<1>1. ASSUME SjIInv, ReturnFromLongjmp, rasp = sj_rasp PROVE RetStack' = frame
  <2>1. Ret /\ where = "loaded" /\ excp = "none" /\ live /\ ra = jmp_buf
    BY <1>1 DEF ReturnFromLongjmp, Ret, SjIInv, LibraryInv
  <2>2. PICK k \in 1..N : BufHolds(k)
    BY <1>1, <2>1 DEF SjIInv, SavedInv
  <2>3. k \in 0..N /\ Taken(k)
    BY <2>1, <2>2, NAssumption DEF BufHolds, BufTaken, Taken
  <2>4. /\ rasp \in Nat /\ base \in Nat /\ (base = 0 => rasp = 0)
        /\ base # 0 => Lo <= rasp /\ rasp <= base
    BY <1>1, <2>1, MemAssumption DEF SjIInv, IInv, TypeOK, SpillIntact
  <2>5. SjSpilled = base - rasp
    BY <1>1, <2>4, MemAssumption DEF SjSpilled
  <2>6. RetStack = Contents(base - rasp, mem, base, ra, k)
    BY <1>1, <2>1, <2>3, StackIs DEF SjIInv
  <2>7. RetStack = Append(frame, SjAddr)
    BY <2>1, <2>2, <2>5, <2>6 DEF BufHolds
  <2>8. frame \in Seq(Word) /\ SjAddr \in Word
    BY <1>1, SjAssumption DEF SjIInv, SjTypes, Word
  <2>9. Status' = "run"
    BY <1>1, <2>1, LibraryReturn, StatusIsAfter
  <2>10. Abstract!Return \/ Abstract!Underflow
    BY <1>1, <2>1, RetRefines DEF SjIInv
  <2>11. RetStack' = SubSeq(RetStack, 1, Len(RetStack) - 1)
    BY <2>9, <2>10 DEF Abstract!Return, Abstract!Underflow
  <2>12. frame = SubSeq(Append(frame, SjAddr), 1, Len(Append(frame, SjAddr)) - 1)
    BY <2>8, IsButLast
  <2> QED BY <2>7, <2>11, <2>12
<1>2. SjIInv /\ [SjNext]_<<vars, sjVars>> =>
        [ReturnFromLongjmp /\ rasp = sj_rasp => RetStack' = frame]_<<vars, sjVars>>
  BY <1>1
<1> QED BY <1>2, SjInvariantHolds, PTL DEF SjSpec, StackRestored
=============================================================================
