--------------------------- MODULE QemuRas_proofs ---------------------------
(***************************************************************************)
(* Proofs about QemuRas, for any number of registers, any set of non-zero  *)
(* return addresses and any place of the memory stack.                     *)
(***************************************************************************)
EXTENDS QemuRas, SequenceTheorems, TLAPS

(* The inductive invariant.  NoHole is what makes the two single-register  *)
(* tests of push and pop right, SpillIntact keeps rasp inside the mapped   *)
(* words while the program runs; neither is inductive without the other    *)
(* and the types.                                                          *)
IInv == TypeOK /\ NoHole /\ SpillIntact

-----------------------------------------------------------------------------
(* Before the first CALL all registers are free and rasp is not set.       *)
LEMMA InitIInv == Init => IInv
<1> SUFFICES ASSUME Init PROVE IInv
  OBVIOUS
<1> USE NAssumption, AddrAssumption, MemAssumption DEF Init, Regs, Slots, Word
<1>1. TypeOK
  BY DEF TypeOK
<1>2. NoHole
  <2>1. Taken(0)
    BY DEF Taken
  <2> QED BY <2>1 DEF NoHole
<1>3. SpillIntact
  BY DEF SpillIntact
<1> QED BY <1>1, <1>2, <1>3 DEF IInv

(* push_return_address into a free register keeps the taken registers      *)
(* together and adds one.                                                  *)
LEMMA PushTaken ==
  ASSUME TypeOK, NEW k \in 0..N, Taken(k), NEW a \in Addr,
         ra' = ShiftDown(a)
  PROVE  /\ k < N => Taken(k + 1)'
         /\ k = N => Taken(N)'
  BY NAssumption, AddrAssumption DEF TypeOK, Taken, ShiftDown, Regs, Word

(* pop_return_address from a register removes the youngest.                *)
LEMMA PopTaken ==
  ASSUME TypeOK, NEW k \in 1..N, Taken(k), ra' = ShiftUp
  PROVE  Taken(k - 1)'
  BY NAssumption DEF TypeOK, Taken, ShiftUp, Regs, Word

(* ra1 is free exactly when not all registers are taken, ra63 exactly when *)
(* none is: the tests the code makes.                                      *)
LEMMA TakenTests ==
  ASSUME NEW k \in 0..N, Taken(k)
  PROVE  /\ ra[1] = 0 <=> k < N
         /\ ra[N] = 0 <=> k = 0
  BY NAssumption DEF Taken, Regs

(* CALL keeps the invariant, spilling or not.                              *)
LEMMA CallIInv ==
  ASSUME IInv, NEW a \in Addr, Call(a)
  PROVE  IInv'
<1> USE NAssumption, AddrAssumption, MemAssumption DEF Regs, Slots, Word
<1>0. PICK k \in 0..N : Taken(k)
  BY DEF IInv, NoHole
<1>1. CASE CallToRegister(a)
  <2>1. TypeOK'
    BY <1>1 DEF IInv, TypeOK, Call, CallToRegister, ShiftDown
  <2>2. NoHole'
    BY <1>0, <1>1, TakenTests, PushTaken DEF IInv, NoHole, CallToRegister
  <2>3. SpillIntact'
    BY <1>1 DEF IInv, SpillIntact, Call, CallToRegister
  <2> QED BY <2>1, <2>2, <2>3 DEF IInv
<1>2. CASE CallSpills(a)
  <2>1. base # 0 /\ Lo <= rasp /\ rasp <= base /\ rasp' = rasp - 1 /\ ra[1] # 0
    BY <1>2 DEF IInv, SpillIntact, Call, CallSpills
  <2>2. CASE rasp - 1 \in Slots
    <3>1. TypeOK'
      <4>1. ra[1] \in Word /\ ShiftDown(a) \in [Regs -> Word]
        BY DEF IInv, TypeOK, ShiftDown
      <4>2. mem' = [mem EXCEPT ![rasp - 1] = ra[1]] /\ ra' = ShiftDown(a) /\ excp' = excp
        BY <1>2, <2>2 DEF CallSpills
      <4>3. mem' \in [Slots -> Word]
        BY <4>1, <4>2 DEF IInv, TypeOK
      <4>4. rasp' \in 0..(Hi + 1) /\ UNCHANGED <<jmp_pc, base>>
        BY <2>1 DEF IInv, TypeOK, Call
      <4> QED BY <4>1, <4>2, <4>3, <4>4 DEF IInv, TypeOK
    <3>2. NoHole'
      BY <1>0, <1>2, <2>2, TakenTests, PushTaken DEF IInv, NoHole, CallSpills
    <3>3. SpillIntact'
      BY <1>2, <2>1, <2>2 DEF IInv, TypeOK, SpillIntact, Call, CallSpills
    <3> QED BY <3>1, <3>2, <3>3 DEF IInv
  <2>3. CASE rasp - 1 \notin Slots
    <3>1. TypeOK'
      BY <1>2, <2>1, <2>3 DEF IInv, TypeOK, Call, CallSpills
    <3>2. NoHole'
      BY <1>2, <2>3 DEF IInv, NoHole, Taken, CallSpills
    <3>3. rasp = Lo
      BY <2>1, <2>3 DEF IInv, TypeOK
    <3>4. SpillIntact'
      BY <1>2, <2>1, <2>3, <3>3 DEF IInv, TypeOK, SpillIntact, Call, CallSpills
    <3> QED BY <3>1, <3>2, <3>4 DEF IInv
  <2> QED BY <2>2, <2>3
<1>3. CASE CallTrips
  BY <1>3 DEF IInv, TypeOK, NoHole, Taken, SpillIntact, Call, CallTrips
<1> QED BY <1>1, <1>2, <1>3 DEF Call

(* RET keeps the invariant, from a register, from memory, or trapping.      *)
LEMMA RetIInv ==
  ASSUME IInv, Ret
  PROVE  IInv'
<1> USE NAssumption, AddrAssumption, MemAssumption DEF Regs, Slots, Word
<1>0. PICK k \in 0..N : Taken(k)
  BY DEF IInv, NoHole
<1>1. CASE RetFromRegister
  <2>1. TypeOK'
    BY <1>1 DEF IInv, TypeOK, Ret, RetFromRegister, ShiftUp
  <2>2. k \in 1..N
    BY <1>0, <1>1, TakenTests DEF RetFromRegister
  <2>3. k - 1 \in 0..N /\ Taken(k - 1)'
    BY <1>0, <1>1, <2>2, PopTaken DEF IInv, RetFromRegister
  <2>4. NoHole'
    BY <2>3 DEF NoHole
  <2>5. SpillIntact'
    BY <1>1 DEF IInv, SpillIntact, Ret, RetFromRegister
  <2> QED BY <2>1, <2>4, <2>5 DEF IInv
<1>2. CASE RetFromMemory
  <2>1. base # 0 /\ Lo <= rasp /\ rasp <= base /\ base <= Hi /\ rasp' = rasp + 1
    BY <1>2 DEF IInv, TypeOK, SpillIntact, Ret, RetFromMemory
  <2>2. TypeOK'
    BY <1>2, <2>1 DEF IInv, TypeOK, Ret, RetFromMemory
  <2>3. NoHole'
    BY <1>2 DEF IInv, NoHole, Taken, RetFromMemory
  <2>4. SpillIntact'
    BY <1>2, <2>1 DEF IInv, TypeOK, SpillIntact, Ret, RetFromMemory
  <2> QED BY <2>2, <2>3, <2>4 DEF IInv
<1>3. CASE RetTrips
  BY <1>3 DEF IInv, TypeOK, NoHole, Taken, SpillIntact, Ret, RetTrips
<1> QED BY <1>1, <1>2, <1>3 DEF Ret

(* Placing the memory stack keeps the invariant.                           *)
LEMMA SetRaspIInv ==
  ASSUME IInv, NEW b \in (Lo + 1)..Hi, SetRasp(b)
  PROVE  IInv'
<1> USE NAssumption, AddrAssumption, MemAssumption DEF Regs, Slots, Word
<1>1. TypeOK'
  BY DEF IInv, TypeOK, SetRasp
<1>2. NoHole'
  BY DEF IInv, NoHole, Taken, SetRasp
<1>3. SpillIntact'
  BY DEF IInv, TypeOK, SpillIntact, SetRasp
<1> QED BY <1>1, <1>2, <1>3 DEF IInv

(* So does every step.                                                     *)
LEMMA NextIInv == IInv /\ [Next]_vars => IInv'
<1> SUFFICES ASSUME IInv, [Next]_vars PROVE IInv'
  OBVIOUS
<1>1. CASE \E b \in (Lo + 1)..Hi : SetRasp(b)
  BY <1>1, SetRaspIInv
<1>2. CASE \E a \in Addr : Call(a)
  BY <1>2, CallIInv
<1>3. CASE Ret
  BY <1>3, RetIInv
<1>4. CASE UNCHANGED vars
  BY <1>4 DEF IInv, TypeOK, NoHole, Taken, SpillIntact, vars
<1> QED BY <1>1, <1>2, <1>3, <1>4 DEF Next

(* The inductive invariant holds in every reachable state.                 *)
THEOREM InvariantHolds == Spec => []IInv
  BY InitIInv, NextIInv, PTL DEF Spec

(* Type correctness of the return-address registers and their spill area.  *)
THEOREM TypeCorrect == Spec => []TypeOK
<1>1. IInv => TypeOK
  BY DEF IInv
<1> QED BY <1>1, InvariantHolds, PTL

(* The taken registers are always the last ones, whatever N is: push and   *)
(* pop may decide "full" and "empty" on ra1 and ra63 alone.                *)
THEOREM RegistersContiguous == Spec => []NoHole
<1>1. IInv => NoHole
  BY DEF IInv
<1> QED BY <1>1, InvariantHolds, PTL

(* The memory between rasp and its base always holds return addresses.     *)
THEOREM SpillAreaIntact == Spec => []SpillIntact
<1>1. IInv => SpillIntact
  BY DEF IInv
<1> QED BY <1>1, InvariantHolds, PTL

-----------------------------------------------------------------------------
(***************************************************************************)
(* The refinement of CallStack: registers and memory read as one sequence. *)
(***************************************************************************)

(* n words below b of the memory m, then the last k registers of r.        *)
Contents(n, m, b, r, k) ==
  [i \in 1..(n + k) |-> IF i <= n THEN m[b - i] ELSE r[N - k + (i - n)]]

(* All of them hold words.                                                 *)
WellFormed(n, m, b, r, k) ==
  n \in Nat /\ k \in 0..N /\ r \in [Regs -> Word] /\ \A i \in 1..n : m[b - i] \in Word

(* They form a sequence of n + k words.                                    *)
LEMMA ContentsSeq ==
  ASSUME NEW n, NEW m, NEW b, NEW r, NEW k, WellFormed(n, m, b, r, k)
  PROVE  /\ Contents(n, m, b, r, k) \in Seq(Word)
         /\ Len(Contents(n, m, b, r, k)) = n + k
         /\ \A i \in 1..(n + k) : Contents(n, m, b, r, k)[i] =
              IF i <= n THEN m[b - i] ELSE r[N - k + (i - n)]
<1> DEFINE e(i) == IF i <= n THEN m[b - i] ELSE r[N - k + (i - n)]
<1>1. n + k \in Nat
  BY NAssumption DEF WellFormed
<1>2. \A i \in 1..(n + k) : e(i) \in Word
  BY NAssumption DEF WellFormed, Regs
<1>3. Contents(n, m, b, r, k) \in Seq(Word)
  <2> HIDE DEF e
  <2>1. [i \in 1..(n + k) |-> e(i)] \in Seq(Word)
    BY <1>1, <1>2, IsASeq
  <2> QED BY <2>1 DEF Contents, e
<1>4. DOMAIN Contents(n, m, b, r, k) = 1..(n + k)
  BY DEF Contents
<1>5. Len(Contents(n, m, b, r, k)) = n + k
  BY <1>1, <1>3, <1>4, LenProperties
<1> QED BY <1>3, <1>5 DEF Contents

(* A sequence that is another one and an element.                          *)
LEMMA IsAppend ==
  ASSUME NEW s \in Seq(Word), NEW t \in Seq(Word), NEW a \in Word,
         Len(t) = Len(s) + 1, \A i \in 1..Len(s) : t[i] = s[i], t[Len(t)] = a
  PROVE  t = Append(s, a)
<1>1. /\ Append(s, a) \in Seq(Word) /\ Len(Append(s, a)) = Len(t)
      /\ \A i \in 1..Len(s) : Append(s, a)[i] = s[i]
      /\ Append(s, a)[Len(t)] = a
  OBVIOUS
<1>2. ASSUME NEW i \in 1..Len(t) PROVE t[i] = Append(s, a)[i]
  <2>1. i \in 1..Len(s) \/ i = Len(t)
    BY LenProperties
  <2> QED BY <1>1, <2>1
<1> QED BY <1>1, <1>2, SeqEqual

(* A sequence that is another one without its last element.                *)
LEMMA IsButLast ==
  ASSUME NEW s \in Seq(Word), NEW t \in Seq(Word),
         Len(s) = Len(t) + 1, \A i \in 1..Len(t) : t[i] = s[i]
  PROVE  s # << >> /\ t = SubSeq(s, 1, Len(s) - 1)
<1>1. Len(t) \in Nat /\ Len(s) \in Nat /\ s # << >>
  BY LenProperties, EmptySeq
<1>2. \A i \in 1..(Len(s) - 1) : s[i] \in Word
  BY <1>1, ElementOfSeq
<1> DEFINE u == SubSeq(s, 1, Len(s) - 1)
<1>3. /\ u \in Seq(Word)
      /\ Len(u) = IF 1 <= Len(s) - 1 THEN Len(s) - 1 - 1 + 1 ELSE 0
      /\ \A i \in 1..(Len(s) - 1 - 1 + 1) : u[i] = s[1 + i - 1]
  BY <1>1, <1>2, SubSeqProperties
<1> HIDE DEF u
<1>4. Len(u) = Len(t)
  BY <1>1, <1>3
<1>5. ASSUME NEW i \in 1..Len(t) PROVE t[i] = u[i]
  BY <1>1, <1>3
<1>6. t = u
  BY <1>3, <1>4, <1>5, SeqEqual
<1> QED BY <1>1, <1>6 DEF u

(* push_return_address with a free register: the address goes on top.      *)
LEMMA PushRegister ==
  ASSUME NEW n, NEW m, NEW b, NEW r, NEW k \in 0..N, NEW a \in Addr, NEW j \in 0..N, j = k + 1,
         WellFormed(n, m, b, r, k),
         NEW q \in [Regs -> Word], \A i \in Regs : q[i] = IF i = N THEN a ELSE r[i + 1]
  PROVE  Contents(n, m, b, q, j) = Append(Contents(n, m, b, r, k), a)
<1> DEFINE s == Contents(n, m, b, r, k)
           t == Contents(n, m, b, q, j)
<1>0. n \in Nat /\ k \in Nat /\ N \in Nat /\ j \in Nat /\ N \in Regs
  BY NAssumption DEF WellFormed, Regs
<1>1. WellFormed(n, m, b, q, j)
  BY NAssumption DEF WellFormed
<1>2. /\ s \in Seq(Word) /\ Len(s) = n + k
      /\ \A i \in 1..(n + k) : s[i] = IF i <= n THEN m[b - i] ELSE r[N - k + (i - n)]
  BY ContentsSeq
<1>3. /\ t \in Seq(Word) /\ Len(t) = n + j
      /\ \A i \in 1..(n + j) : t[i] = IF i <= n THEN m[b - i] ELSE q[N - j + (i - n)]
  BY <1>1, ContentsSeq
<1> HIDE DEF s, t
<1>4. ASSUME NEW i \in 1..Len(s) PROVE t[i] = s[i]
  <2>0. i \in Nat /\ i \in 1..(n + k) /\ i \in 1..(n + j)
    BY <1>0, <1>2
  <2>1. CASE i <= n
    BY <1>2, <1>3, <2>0, <2>1
  <2>2. CASE ~(i <= n)
    <3>1. t[i] = q[N - j + (i - n)] /\ s[i] = r[N - k + (i - n)]
      BY <1>2, <1>3, <2>0, <2>2
    <3>2. N - j + (i - n) \in 1..(N - 1) /\ N - j + (i - n) + 1 = N - k + (i - n)
      BY <1>0, <2>0, <2>2
    <3> QED BY <1>0, <3>1, <3>2 DEF Regs
  <2> QED BY <2>1, <2>2
<1>5. t[Len(t)] = a
  <2>1. Len(t) \in 1..(n + j) /\ ~(Len(t) <= n) /\ N - j + (Len(t) - n) = N
    BY <1>0, <1>3
  <2>2. t[Len(t)] = q[N]
    BY <1>3, <2>1
  <2> QED BY <1>0, <2>2
<1>6. a \in Word /\ Len(t) = Len(s) + 1
  BY <1>0, <1>2, <1>3 DEF Word
<1>7. t = Append(s, a)
  BY <1>2, <1>3, <1>4, <1>5, <1>6, IsAppend
<1> QED BY <1>7 DEF s, t

(* push_return_address with all registers taken: the oldest register goes  *)
(* to memory, below the words that are there.                              *)
LEMMA PushSpill ==
  ASSUME NEW n, NEW m, NEW b, NEW r, WellFormed(n, m, b, r, N), NEW a \in Addr,
         NEW q \in [Regs -> Word], \A i \in Regs : q[i] = IF i = N THEN a ELSE r[i + 1],
         NEW j, j = n + 1, NEW m2, \A i \in 1..n : m2[b - i] = m[b - i], m2[b - j] = r[1]
  PROVE  Contents(j, m2, b, q, N) = Append(Contents(n, m, b, r, N), a)
<1> DEFINE s == Contents(n, m, b, r, N)
           t == Contents(j, m2, b, q, N)
<1>0. n \in Nat /\ N \in Nat /\ j \in Nat /\ 1 \in Regs /\ N \in Regs
  BY NAssumption DEF WellFormed, Regs
<1>1. WellFormed(j, m2, b, q, N)
  <2>1. ASSUME NEW i \in 1..j PROVE m2[b - i] \in Word
    <3>1. CASE i \in 1..n
      BY <3>1 DEF WellFormed
    <3>2. CASE i = j
      BY <1>0, <3>2 DEF WellFormed
    <3> QED BY <1>0, <3>1, <3>2
  <2> QED BY <1>0, <2>1 DEF WellFormed
<1>2. /\ s \in Seq(Word) /\ Len(s) = n + N
      /\ \A i \in 1..(n + N) : s[i] = IF i <= n THEN m[b - i] ELSE r[N - N + (i - n)]
  BY ContentsSeq
<1>3. /\ t \in Seq(Word) /\ Len(t) = j + N
      /\ \A i \in 1..(j + N) : t[i] = IF i <= j THEN m2[b - i] ELSE q[N - N + (i - j)]
  BY <1>1, ContentsSeq
<1> HIDE DEF s, t
<1>4. ASSUME NEW i \in 1..Len(s) PROVE t[i] = s[i]
  <2>0. i \in Nat /\ i \in 1..(n + N) /\ i \in 1..(j + N)
    BY <1>0, <1>2
  <2>1. CASE i <= n
    <3>1. i <= j /\ i \in 1..n
      BY <1>0, <2>0, <2>1
    <3> QED BY <1>2, <1>3, <2>0, <2>1, <3>1
  <2>2. CASE i = j
    <3>1. i <= j /\ ~(i <= n) /\ N - N + (i - n) = 1
      BY <1>0, <2>2
    <3> QED BY <1>2, <1>3, <2>0, <2>2, <3>1
  <2>3. CASE ~(i <= j)
    <3>1. ~(i <= n)
      BY <1>0, <2>0, <2>3
    <3>2. t[i] = q[N - N + (i - j)] /\ s[i] = r[N - N + (i - n)]
      BY <1>2, <1>3, <2>0, <2>3, <3>1
    <3>3. N - N + (i - j) \in 1..(N - 1) /\ N - N + (i - j) + 1 = N - N + (i - n)
      BY <1>0, <2>0, <2>3
    <3> QED BY <1>0, <3>2, <3>3 DEF Regs
  <2> QED BY <1>0, <2>0, <2>1, <2>2, <2>3
<1>5. t[Len(t)] = a
  <2>1. Len(t) \in 1..(j + N) /\ ~(Len(t) <= j) /\ N - N + (Len(t) - j) = N
    BY <1>0, <1>3 DEF Regs
  <2>2. t[Len(t)] = q[N]
    BY <1>3, <2>1
  <2> QED BY <1>0, <2>2
<1>6. a \in Word /\ Len(t) = Len(s) + 1
  BY <1>0, <1>2, <1>3 DEF Word
<1>7. t = Append(s, a)
  BY <1>2, <1>3, <1>4, <1>5, <1>6, IsAppend
<1> QED BY <1>7 DEF s, t

(* pop_return_address with a taken register: ra63 was the top.             *)
LEMMA PopRegister ==
  ASSUME NEW n, NEW m, NEW b, NEW r, NEW k \in 0..N, NEW j \in 0..N, j = k - 1,
         WellFormed(n, m, b, r, k),
         NEW q \in [Regs -> Word], \A i \in Regs : q[i] = IF i = 1 THEN 0 ELSE r[i - 1],
         NEW s, s = Contents(n, m, b, r, k)
  PROVE  /\ s # << >> /\ Contents(n, m, b, q, j) = SubSeq(s, 1, Len(s) - 1)
         /\ s[Len(s)] = r[N]
<1> DEFINE t == Contents(n, m, b, q, j)
<1>0. n \in Nat /\ k \in Nat /\ N \in Nat /\ j \in Nat /\ j < N
  BY NAssumption DEF WellFormed
<1>1. WellFormed(n, m, b, q, j)
  BY NAssumption DEF WellFormed
<1>2. /\ s \in Seq(Word) /\ Len(s) = n + k
      /\ \A i \in 1..(n + k) : s[i] = IF i <= n THEN m[b - i] ELSE r[N - k + (i - n)]
  BY ContentsSeq
<1>3. /\ t \in Seq(Word) /\ Len(t) = n + j
      /\ \A i \in 1..(n + j) : t[i] = IF i <= n THEN m[b - i] ELSE q[N - j + (i - n)]
  BY <1>1, ContentsSeq
<1> HIDE DEF t
<1>4. ASSUME NEW i \in 1..Len(t) PROVE t[i] = s[i]
  <2>0. i \in Nat /\ i \in 1..(n + k) /\ i \in 1..(n + j)
    BY <1>0, <1>3
  <2>1. CASE i <= n
    BY <1>2, <1>3, <2>0, <2>1
  <2>2. CASE ~(i <= n)
    <3>1. t[i] = q[N - j + (i - n)] /\ s[i] = r[N - k + (i - n)]
      BY <1>2, <1>3, <2>0, <2>2
    <3>2. N - j + (i - n) \in 2..N /\ N - j + (i - n) - 1 = N - k + (i - n)
      BY <1>0, <2>0, <2>2
    <3> QED BY <1>0, <3>1, <3>2 DEF Regs
  <2> QED BY <2>1, <2>2
<1>5. s[Len(s)] = r[N]
  <2>1. Len(s) \in 1..(n + k) /\ ~(Len(s) <= n) /\ N - k + (Len(s) - n) = N
    BY <1>0, <1>2
  <2> QED BY <1>2, <2>1
<1>6. Len(s) = Len(t) + 1
  BY <1>0, <1>2, <1>3
<1>7. s # << >> /\ t = SubSeq(s, 1, Len(s) - 1)
  BY <1>2, <1>3, <1>4, <1>6, IsButLast
<1> QED BY <1>5, <1>7 DEF t

(* pop_return_address with free registers: the lowest word was the top.    *)
LEMMA PopMemory ==
  ASSUME NEW n, NEW m, NEW b, NEW r, WellFormed(n, m, b, r, 0), n > 0,
         NEW j, j = n - 1,
         NEW s, s = Contents(n, m, b, r, 0)
  PROVE  /\ s # << >> /\ Contents(j, m, b, r, 0) = SubSeq(s, 1, Len(s) - 1)
         /\ s[Len(s)] = m[b - n]
<1> DEFINE t == Contents(j, m, b, r, 0)
<1>0. n \in Nat /\ j \in Nat
  BY DEF WellFormed
<1>1. WellFormed(j, m, b, r, 0)
  BY DEF WellFormed
<1>2. /\ s \in Seq(Word) /\ Len(s) = n + 0
      /\ \A i \in 1..(n + 0) : s[i] = IF i <= n THEN m[b - i] ELSE r[N - 0 + (i - n)]
  BY ContentsSeq
<1>3. /\ t \in Seq(Word) /\ Len(t) = j + 0
      /\ \A i \in 1..(j + 0) : t[i] = IF i <= j THEN m[b - i] ELSE r[N - 0 + (i - j)]
  BY <1>1, ContentsSeq
<1> HIDE DEF t
<1>4. ASSUME NEW i \in 1..Len(t) PROVE t[i] = s[i]
  <2>0. i \in 1..(n + 0) /\ i \in 1..(j + 0) /\ i <= n /\ i <= j
    BY <1>0, <1>3
  <2> QED BY <1>2, <1>3, <2>0
<1>5. s[Len(s)] = m[b - n]
  <2>1. Len(s) \in 1..(n + 0) /\ Len(s) <= n /\ Len(s) = n
    BY <1>0, <1>2
  <2> QED BY <1>2, <2>1
<1>6. Len(s) = Len(t) + 1
  BY <1>0, <1>2, <1>3
<1>7. s # << >> /\ t = SubSeq(s, 1, Len(s) - 1)
  BY <1>2, <1>3, <1>4, <1>6, IsButLast
<1> QED BY <1>5, <1>7 DEF t

(* The number of taken registers is unique, so RetStack is Contents of the *)
(* state, before a step and after it.                                      *)
LEMMA TakenUnique ==
  ASSUME NEW r, NEW k \in 0..N, NEW j \in 0..N,
         \A i \in Regs : r[i] # 0 <=> i > N - k,
         \A i \in Regs : r[i] # 0 <=> i > N - j
  PROVE  j = k
  BY NAssumption DEF Regs

LEMMA RetStackIs ==
  ASSUME NEW k \in 0..N, Taken(k)
  PROVE  RetStack = Contents(Spilled, mem, base, ra, k)
<1>1. \A j \in 0..N : Taken(j) => j = k
  BY TakenUnique DEF Taken
<1>2. TakenRegs = k
  BY <1>1 DEF TakenRegs
<1> QED BY <1>2 DEF RetStack, Contents

LEMMA RetStackIsAfter ==
  ASSUME NEW k \in 0..N, Taken(k)'
  PROVE  RetStack' = Contents(Spilled', mem', base', ra', k)
<1>1. \A j \in 0..N : Taken(j)' => j = k
  BY TakenUnique DEF Taken
<1>2. TakenRegs' = k
  BY <1>1 DEF TakenRegs
<1> QED BY <1>2 DEF RetStack, Contents

(* While the program runs, registers and memory are well formed.           *)
LEMMA StackWellFormed ==
  ASSUME IInv, excp \in {"none", "TRIP"}, NEW k \in 0..N
  PROVE  /\ Spilled = base - rasp /\ base \in Nat /\ rasp \in Nat
         /\ WellFormed(Spilled, mem, base, ra, k)
         /\ \A i \in 1..Spilled : base - i \in Slots
<1> USE NAssumption, MemAssumption
<1>1. Spilled = base - rasp
  BY DEF Spilled
<1>2. base - rasp \in Nat /\ base \in Nat /\ rasp \in Nat
  BY DEF IInv, TypeOK, SpillIntact
<1>3. \A i \in 1..(base - rasp) : base - i \in Slots
  BY <1>2 DEF IInv, TypeOK, SpillIntact, Slots
<1>4. mem \in [Slots -> Word] /\ ra \in [Regs -> Word]
  BY DEF IInv, TypeOK
<1> QED BY <1>1, <1>2, <1>3, <1>4 DEF WellFormed

(* Before the first CALL the stack is empty.                               *)
LEMMA InitRefines == Init => Abstract!Init
<1> SUFFICES ASSUME Init PROVE Abstract!Init
  OBVIOUS
<1>1. Taken(0) /\ 0 \in 0..N
  BY NAssumption DEF Init, Taken, Regs
<1>2. Spilled = 0
  BY DEF Init, Spilled
<1>3. RetStack = Contents(0, mem, base, ra, 0)
  BY <1>1, <1>2, RetStackIs
<1>4. Contents(0, mem, base, ra, 0) = << >>
  BY DEF Contents
<1>5. Status = "run"
  BY DEF Init, Status
<1> QED BY <1>3, <1>4, <1>5 DEF Init, Abstract!Init

(* The abstract status follows the exception.                              *)
LEMMA StatusIs ==
  /\ excp = "none" <=> Status = "run"
  /\ excp \in {"TRIP", "SEGV"} => Status = "stopped"
  /\ excp = "wild" => Status = "wild"
  BY DEF Status

LEMMA StatusIsAfter ==
  /\ excp' = "none" <=> Status' = "run"
  /\ excp' \in {"TRIP", "SEGV"} => Status' = "stopped"
  /\ excp' = "wild" => Status' = "wild"
  BY DEF Status

(* A CALL pushes its return address or fails.                              *)
LEMMA CallRefines ==
  ASSUME IInv, NEW a \in Addr, Call(a)
  PROVE  Abstract!Call(a) \/ Abstract!CallFails
<1> USE NAssumption, AddrAssumption, MemAssumption
<1>0. PICK k \in 0..N : Taken(k)
  BY DEF IInv, NoHole
<1>1. /\ excp = "none" /\ jmp_pc' = jmp_pc /\ base' = base /\ Status = "run"
      /\ TypeOK /\ ra \in [Regs -> Word] /\ mem \in [Slots -> Word]
  BY StatusIs DEF Call, IInv, TypeOK
<1>2. /\ Spilled = base - rasp /\ base \in Nat /\ rasp \in Nat
      /\ WellFormed(Spilled, mem, base, ra, k)
      /\ \A i \in 1..Spilled : base - i \in Slots
  BY <1>1, StackWellFormed
<1>3. RetStack = Contents(Spilled, mem, base, ra, k)
  BY <1>0, RetStackIs
<1>4. ASSUME ra' = ShiftDown(a)
      PROVE  /\ ra' \in [Regs -> Word]
             /\ \A i \in Regs : ra'[i] = IF i = N THEN a ELSE ra[i + 1]
  BY <1>1, <1>4 DEF ShiftDown, Regs, Word
<1>5. CASE CallToRegister(a)
  <2>1. k < N /\ ra' = ShiftDown(a) /\ rasp' = rasp /\ mem' = mem /\ excp' = excp
    BY <1>0, <1>5, TakenTests DEF CallToRegister
  <2>2. k + 1 \in 0..N /\ Taken(k + 1)' /\ Spilled' = Spilled
    BY <1>0, <1>1, <2>1, PushTaken DEF Spilled
  <2>3. RetStack' = Contents(Spilled, mem, base, ra', k + 1)
    BY <1>1, <2>1, <2>2, RetStackIsAfter
  <2>4. RetStack' = Append(RetStack, a)
    <3>1. /\ ra' \in [Regs -> Word] /\ k < N
          /\ \A i \in Regs : ra'[i] = IF i = N THEN a ELSE ra[i + 1]
      BY <1>4, <2>1
    <3>2. PICK j \in 0..N : j = k + 1
      BY <2>2
    <3>3. Contents(Spilled, mem, base, ra', j) = Append(Contents(Spilled, mem, base, ra, k), a)
      BY <1>2, <3>1, <3>2, PushRegister
    <3> QED BY <1>3, <2>3, <3>2, <3>3
  <2> QED BY <1>1, <2>1, <2>4, StatusIsAfter DEF Abstract!Call
<1>6. CASE CallSpills(a) /\ rasp - 1 \in Slots
  <2>1. /\ k = N /\ ra' = ShiftDown(a) /\ rasp' = rasp - 1 /\ excp' = excp
        /\ mem' = [mem EXCEPT ![rasp - 1] = ra[1]]
    BY <1>0, <1>6, TakenTests DEF CallSpills
  <2>2. N \in 0..N /\ Taken(N)'
    BY <1>0, <1>1, <2>1, PushTaken
  <2>3. Spilled' = base - rasp + 1
    BY <1>1, <1>2, <2>1 DEF Spilled
  <2>4. RetStack' = Contents(Spilled', mem', base, ra', N)
    BY <1>1, <2>2, RetStackIsAfter
  <2>5. /\ \A i \in 1..Spilled : mem'[base - i] = mem[base - i]
        /\ mem'[base - Spilled'] = ra[1]
    BY <1>1, <1>2, <1>6, <2>1, <2>3
  <2>6. RetStack' = Append(RetStack, a)
    <3>1. Spilled' = Spilled + 1
      BY <1>2, <2>3
    <3>2. /\ ra' \in [Regs -> Word]
          /\ \A i \in Regs : ra'[i] = IF i = N THEN a ELSE ra[i + 1]
      BY <1>4, <2>1
    <3>3. WellFormed(Spilled, mem, base, ra, N) /\ RetStack = Contents(Spilled, mem, base, ra, N)
      BY <1>2, <1>3, <2>1
    <3>4. Contents(Spilled', mem', base, ra', N) = Append(Contents(Spilled, mem, base, ra, N), a)
      BY <2>5, <3>1, <3>2, <3>3, PushSpill
    <3> QED BY <2>4, <3>3, <3>4
  <2> QED BY <1>1, <2>1, <2>6, StatusIsAfter DEF Abstract!Call
<1>7. CASE CallSpills(a) /\ rasp - 1 \notin Slots
  <2>1. excp' = "SEGV" /\ rasp' = rasp - 1 /\ ra' = ra /\ mem' = mem
    BY <1>7 DEF CallSpills
  <2>2. Spilled' = Spilled /\ Taken(k)'
    BY <1>0, <1>1, <1>2, <2>1 DEF Spilled, Taken
  <2>3. RetStack' = RetStack
    BY <1>1, <1>3, <2>1, <2>2, RetStackIsAfter
  <2> QED BY <1>1, <2>1, <2>3, StatusIsAfter DEF Abstract!CallFails
<1>8. CASE CallTrips
  <2>1. excp' = "TRIP" /\ rasp' = rasp /\ ra' = ra /\ mem' = mem
    BY <1>8 DEF CallTrips
  <2>2. Spilled' = Spilled /\ Taken(k)'
    BY <1>0, <1>1, <2>1 DEF Spilled, Taken
  <2>3. RetStack' = RetStack
    BY <1>1, <1>3, <2>1, <2>2, RetStackIsAfter
  <2> QED BY <1>1, <2>1, <2>3, StatusIsAfter DEF Abstract!CallFails
<1> QED BY <1>5, <1>6, <1>7, <1>8 DEF Call

(* A RET returns to the youngest address; it fails only on an empty stack. *)
LEMMA RetRefines ==
  ASSUME IInv, Ret
  PROVE  /\ Abstract!Return \/ Abstract!Underflow
         /\ excp' # "none" => RetStack = << >>
<1> USE NAssumption, AddrAssumption, MemAssumption
<1>0. PICK k \in 0..N : Taken(k)
  BY DEF IInv, NoHole
<1>1. /\ excp = "none" /\ mem' = mem /\ base' = base /\ Status = "run"
      /\ TypeOK /\ ra \in [Regs -> Word] /\ jmp_pc \in Word
  BY StatusIs DEF Ret, IInv, TypeOK
<1>2. /\ Spilled = base - rasp /\ base \in Nat /\ rasp \in Nat
      /\ WellFormed(Spilled, mem, base, ra, k)
  BY <1>1, StackWellFormed
<1>3. RetStack = Contents(Spilled, mem, base, ra, k)
  BY <1>0, RetStackIs
<1>4. Contents(0, mem, base, ra, 0) = << >>
  BY DEF Contents
<1>5. CASE RetFromRegister
  <2>1. k > 0 /\ jmp_pc' = ra[N] /\ ra' = ShiftUp /\ rasp' = rasp /\ excp' = excp
    BY <1>0, <1>5, TakenTests DEF RetFromRegister
  <2>2. k - 1 \in 0..N /\ Taken(k - 1)' /\ Spilled' = Spilled
    BY <1>0, <1>1, <2>1, PopTaken DEF Spilled
  <2>3. RetStack' = Contents(Spilled, mem, base, ra', k - 1)
    BY <1>1, <2>2, RetStackIsAfter
  <2>4. /\ ra' \in [Regs -> Word]
        /\ \A i \in Regs : ra'[i] = IF i = 1 THEN 0 ELSE ra[i - 1]
    BY <1>1, <2>1 DEF ShiftUp, Regs, Word
  <2>5. /\ RetStack # << >> /\ RetStack' = SubSeq(RetStack, 1, Len(RetStack) - 1)
        /\ RetStack[Len(RetStack)] = ra[N]
    <3>1. k > 0
      BY <2>1
    <3>2. PICK j \in 0..N : j = k - 1
      BY <2>2
    <3>3. RetStack' = Contents(Spilled, mem, base, ra', j)
      BY <2>3, <3>2
    <3>4. /\ RetStack # << >> /\ Contents(Spilled, mem, base, ra', j)
                                  = SubSeq(RetStack, 1, Len(RetStack) - 1)
          /\ RetStack[Len(RetStack)] = ra[N]
      BY <1>2, <1>3, <2>4, <3>1, <3>2, PopRegister
    <3> QED BY <3>3, <3>4
  <2> QED BY <1>1, <2>1, <2>5, StatusIsAfter DEF Abstract!Return
<1>6. CASE RetFromMemory /\ rasp < base
  <2>1. k = 0 /\ jmp_pc' = mem[rasp] /\ ra' = ra /\ rasp' = rasp + 1 /\ excp' = excp
    BY <1>0, <1>6, TakenTests DEF RetFromMemory
  <2>2. Taken(0)' /\ Spilled' = Spilled - 1 /\ Spilled > 0 /\ base - Spilled = rasp /\ 0 \in 0..N
    BY <1>0, <1>1, <1>2, <1>6, <2>1 DEF Spilled, Taken
  <2>3. RetStack' = Contents(Spilled', mem, base, ra, 0)
    BY <1>1, <2>1, <2>2, RetStackIsAfter
  <2>4. /\ RetStack # << >> /\ RetStack' = SubSeq(RetStack, 1, Len(RetStack) - 1)
        /\ RetStack[Len(RetStack)] = mem[base - Spilled]
    BY <1>2, <1>3, <2>1, <2>2, <2>3, PopMemory
  <2> QED BY <1>1, <2>1, <2>2, <2>4, StatusIsAfter DEF Abstract!Return
<1>7. CASE RetFromMemory /\ ~(rasp < base)
  <2>1. k = 0 /\ jmp_pc' \in Word /\ ra' = ra /\ excp' = "wild"
    BY <1>0, <1>7, TakenTests DEF RetFromMemory
  <2>2. Taken(0)' /\ Spilled' = 0 /\ Spilled = 0 /\ 0 \in 0..N
    <3>1. rasp <= base
      BY <1>1 DEF IInv, TypeOK, SpillIntact
    <3> QED BY <1>0, <1>2, <1>7, <2>1, <3>1 DEF Spilled, Taken
  <2>3. RetStack = << >> /\ RetStack' = << >>
    BY <1>1, <1>3, <1>4, <2>1, <2>2, RetStackIsAfter
  <2> QED BY <1>1, <2>1, <2>3, StatusIsAfter DEF Abstract!Underflow, Word
<1>8. CASE RetTrips
  <2>1. k = 0 /\ jmp_pc' = jmp_pc /\ ra' = ra /\ rasp' = rasp /\ excp' = "TRIP" /\ rasp = 0
    BY <1>0, <1>8, TakenTests DEF RetTrips
  <2>2. Taken(0)' /\ Spilled = 0 /\ 0 \in 0..N
    <3>1. base = 0
      BY <1>1, <2>1 DEF IInv, TypeOK, SpillIntact
    <3> QED BY <1>0, <1>2, <2>1, <3>1 DEF Taken
  <2>3. Spilled' = 0
    BY <1>1, <1>2, <2>1, <2>2 DEF Spilled
  <2>4. RetStack = << >> /\ RetStack' = << >>
    BY <1>1, <1>3, <1>4, <2>1, <2>2, <2>3, RetStackIsAfter
  <2> QED BY <1>1, <2>1, <2>4, StatusIsAfter DEF Abstract!Underflow
<1> QED BY <1>5, <1>6, <1>7, <1>8 DEF Ret

(* Placing the memory stack is invisible.                                  *)
LEMMA SetRaspRefines ==
  ASSUME IInv, NEW b \in (Lo + 1)..Hi, SetRasp(b)
  PROVE  UNCHANGED Abstract!vars
<1> USE NAssumption, MemAssumption
<1>0. PICK k \in 0..N : Taken(k)
  BY DEF IInv, NoHole
<1>1. /\ excp = "none" /\ excp' = excp /\ base = 0 /\ rasp' = b /\ base' = b /\ ra' = ra
      /\ mem' = mem /\ jmp_pc' = jmp_pc /\ b \in Nat
  BY DEF SetRasp
<1>2. Spilled = 0 /\ Spilled' = 0 /\ Taken(k)'
  BY <1>0, <1>1 DEF IInv, SpillIntact, Spilled, Taken
<1>3. RetStack = Contents(0, mem, base, ra, k) /\ RetStack' = Contents(0, mem, b, ra, k)
  BY <1>0, <1>1, <1>2, RetStackIs, RetStackIsAfter
<1>4. Contents(0, mem, base, ra, k) = Contents(0, mem, b, ra, k)
  BY DEF Contents
<1> QED BY <1>1, <1>3, <1>4 DEF Abstract!vars, Status

(* Every step is a step of the call stack, or none.                        *)
LEMMA NextRefines ==
  IInv /\ [Next]_vars => [Abstract!Next]_(Abstract!vars)
<1> SUFFICES ASSUME IInv, [Next]_vars PROVE [Abstract!Next]_(Abstract!vars)
  OBVIOUS
<1>1. CASE \E b \in (Lo + 1)..Hi : SetRasp(b)
  BY <1>1, SetRaspRefines
<1>2. CASE \E a \in Addr : Call(a)
  BY <1>2, CallRefines DEF Abstract!Next
<1>3. CASE Ret
  BY <1>3, RetRefines DEF Abstract!Next
<1>4. CASE UNCHANGED vars
  BY <1>4 DEF vars, Abstract!vars, RetStack, TakenRegs, Taken, Spilled, Status
<1> QED BY <1>1, <1>2, <1>3, <1>4 DEF Next

(* 63 registers and a memory area, or any other number, behave as one      *)
(* unbounded stack of return addresses.                                    *)
THEOREM RefinesCallStack == Spec => ImplementsCallStack
  BY InitRefines, NextRefines, InvariantHolds, PTL DEF Spec, ImplementsCallStack, Abstract!Spec

(* A RET is never refused, or sent astray, while a CALL is outstanding.    *)
THEOREM ReturnsNeverLost == Spec => RetNeverLost
<1>1. IInv /\ [Next]_vars => [Ret /\ excp' # "none" => RetStack = << >>]_vars
  BY RetRefines
<1> QED BY <1>1, InvariantHolds, PTL DEF Spec, RetNeverLost
=============================================================================
