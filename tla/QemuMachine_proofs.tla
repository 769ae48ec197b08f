------------------------- MODULE QemuMachine_proofs -------------------------
(***************************************************************************)
(* Proofs about QemuMachine, for every size of byte and register file.     *)
(***************************************************************************)
EXTENDS QemuMachine, Words_proofs, FiniteSetTheorems

Files == {"rd", "rb", "rf", "ra"}
Excp == {"none", "TRAP", "ILLI", "FPER"}

(* No other thread can come between two operations. *)
Alone == \A t, u \in Threads : t = u

(* The places an operation may name. *)
Reg(f, n) == \/ f \in Files /\ n \in 0 .. NReg - 1
             \/ f = "t" /\ n \in 1..3
             \/ f = "jmp" /\ n = 0
Place(p) == Reg(p[1], p[2])
Source(p) == Place(p) \/ (p[1] = "k" /\ p[2] \in Octa)

State == [rd : RegFile, rb : RegFile, rf : RegFile, ra : RegFile, t : [1..3 -> Octa],
          jmp : [{0} -> Octa], flags : 0 .. SoftFlags, excp : Excp,
          mem : [Octa -> Byte], rf0_fcsr : Octa]

(* y is x with v at the place p. *)
Sets(x, y, p, v) ==
  /\ y \in State
  /\ \A f, n : Reg(f, n) => y[f][n] = IF f = p[1] /\ n = p[2] THEN v ELSE x[f][n]
  /\ Alone => y.mem = x.mem /\ y.rf0_fcsr = x.rf0_fcsr
  /\ y.flags = x.flags /\ y.excp = x.excp

(* Put changes one place.                                                  *)
LEMMA PutSets ==
  ASSUME NEW s \in State, NEW p, Place(p), NEW x \in Octa
  PROVE  Sets(s, Put(s, p, x), p, x) /\ Put(s, p, x).mem = s.mem /\ Put(s, p, x).rf0_fcsr = s.rf0_fcsr
<1> DEFINE y == Put(s, p, x)
<1>1. CASE p[1] = "rd" /\ p[2] \in 0 .. NReg - 1
  BY <1>1 DEF Sets, Put, State, Reg, Files, RegFile
<1>2. CASE p[1] = "rb" /\ p[2] \in 0 .. NReg - 1
  BY <1>2 DEF Sets, Put, State, Reg, Files, RegFile
<1>3. CASE p[1] = "rf" /\ p[2] \in 0 .. NReg - 1
  BY <1>3 DEF Sets, Put, State, Reg, Files, RegFile
<1>4. CASE p[1] = "ra" /\ p[2] \in 0 .. NReg - 1
  BY <1>4 DEF Sets, Put, State, Reg, Files, RegFile
<1>5. CASE p[1] = "t" /\ p[2] \in 1..3
  BY <1>5 DEF Sets, Put, State, Reg, Files, RegFile
<1>6. CASE p[1] = "jmp" /\ p[2] = 0
  BY <1>6 DEF Sets, Put, State, Reg, Files, RegFile
<1> QED
  BY <1>1, <1>2, <1>3, <1>4, <1>5, <1>6 DEF Place, Reg, Files

(* Places hold words, and so do sources.                                   *)
LEMMA RegType == ASSUME NEW s \in State, NEW f, NEW n, Reg(f, n) PROVE s[f][n] \in Octa
BY DEF State, Reg, Files, RegFile

(* Every operand of an operation reads as a word.                          *)
LEMMA AtType == ASSUME NEW s \in State, NEW p, Source(p) PROVE At(s, p) \in Octa
<1>1. Place(p) => p[1] # "k"
  BY DEF Place, Reg, Files
<1> QED
  BY <1>1, RegType DEF At, Source, Place

-----------------------------------------------------------------------------
(* What the operations compute are words. *)

(* Words are natural numbers below M.                                      *)
LEMMA OctaInt == \A x \in Octa : x \in Nat /\ x < M
BY WordSizes DEF Octa

(* Zero and one are words.                                                 *)
LEMMA SmallOcta == 0 \in Octa /\ 1 \in Octa
BY WordSizes DEF Octa

(* A load gives a word, and depends on the address modulo the memory.      *)
LEMMA LoadType ==
  ASSUME NEW m \in [Octa -> Byte], NEW a \in Int, NEW mop
  PROVE  Load(m, a, mop) \in Octa
<1> DEFINE byte(k) == m[Cut(a + k)]
           wyde(k) == byte(k) + Pow2[Bits(1)] * byte(k + 1)
           tetra(k) == wyde(k) + Pow2[Bits(2)] * wyde(k + 2)
           n == Size(mop)
           x == CASE n = 1 -> byte(0) [] n = 2 -> wyde(0) [] n = 4 -> tetra(0)
                  [] n = 8 -> tetra(0) + Pow2[Bits(4)] * tetra(4)
<1>1. \A k \in Int : byte(k) \in Int
  <2>1. \A b \in Byte : b \in Int
    BY BAssumption, Pow2Type DEF Byte
  <2> QED
    BY <2>1, CutLaws
<1> HIDE DEF byte
<1>2. /\ Bits(1) \in Nat /\ Bits(2) \in Nat /\ Bits(4) \in Nat /\ Bits(8) \in Nat
      /\ Bits(1) - 1 \in Nat /\ Bits(2) - 1 \in Nat /\ Bits(4) - 1 \in Nat /\ Bits(8) - 1 \in Nat
  BY BAssumption DEF Bits
<1>3. Pow2[Bits(1)] \in Int /\ Pow2[Bits(2)] \in Int /\ Pow2[Bits(4)] \in Int
  BY <1>2, Pow2Type
<1>4. \A k \in Int : wyde(k) \in Int
  <2> SUFFICES ASSUME NEW k \in Int PROVE wyde(k) \in Int
    OBVIOUS
  <2>1. byte(k) \in Int /\ byte(k + 1) \in Int
    BY <1>1
  <2> QED
    BY <1>3, <2>1
<1> HIDE DEF wyde
<1>5. \A k \in Int : tetra(k) \in Int
  <2> SUFFICES ASSUME NEW k \in Int PROVE tetra(k) \in Int
    OBVIOUS
  <2>1. wyde(k) \in Int /\ wyde(k + 2) \in Int
    BY <1>4
  <2> QED
    BY <1>3, <2>1
<1> HIDE DEF tetra
<1>6. n \in {1, 2, 4, 8}
  BY DEF Size
<1> HIDE DEF n
<1>7. x \in Int
  <2>1. tetra(0) \in Int /\ tetra(4) \in Int /\ wyde(0) \in Int /\ byte(0) \in Int
    BY <1>1, <1>4, <1>5
  <2>2. tetra(0) + Pow2[Bits(4)] * tetra(4) \in Int
    BY <1>3, <2>1
  <2> QED
    BY <1>6, <2>1, <2>2
<1> HIDE DEF x
<1>8. SignedIn(Bits(n), x) \in Int
  <2>1. Bits(n) \in Nat /\ Bits(n) - 1 \in Nat
    BY <1>2, <1>6
  <2>2. Pow2[Bits(n)] \in Int /\ Pow2[Bits(n) - 1] \in Int
    BY <2>1, Pow2Type
  <2> QED
    BY <1>7, <2>2 DEF SignedIn
<1>9. Load(m, a, mop) = Cut(IF SignExtends(mop) THEN SignedIn(Bits(n), x) ELSE x)
  BY DEF Load, x, n, tetra, wyde, byte
<1> QED
  BY <1>7, <1>8, <1>9, CutLaws

(* A store keeps the memory a memory.                                      *)
LEMMA StoredType ==
  ASSUME NEW m \in [Octa -> Byte], NEW a \in Int, NEW x \in Int, NEW mop
  PROVE  Stored(m, a, x, mop) \in [Octa -> Byte]
<1> SUFFICES ASSUME NEW b \in Octa PROVE CutTo(B, x \div Pow2[Cut(b - a) * B]) \in Byte
  BY DEF Stored
<1> DEFINE k == Cut(b - a)
           P == Pow2[k * B]
<1>0. b - a \in Int
  BY OctaInt
<1>1. k \in Nat
  BY <1>0, CutLaws, OctaInt
<1> HIDE DEF k
<1>2. k * B \in Nat
  BY <1>1, BAssumption
<1>3. P \in Nat \ {0} /\ Pow2[B] \in Nat \ {0}
  BY <1>2, BAssumption, Pow2Type
<1> HIDE DEF P
<1>4. x \div P \in Int
  BY <1>3, DivMod
<1>5. (x \div P) % Pow2[B] \in 0 .. Pow2[B] - 1
  BY <1>3, <1>4, DivMod
<1> QED
  BY <1>5 DEF CutTo, Byte, k, P

(* Quotients and remainders are words unless the divisor is zero.          *)
LEMMA DivRemType ==
  ASSUME NEW op, NEW sign, NEW x \in Octa, NEW y \in Octa, y # 0
  PROVE  DivRem(op, sign, x, y) \in Octa
<1> DEFINE a == IF sign = "s" THEN Signed(x) ELSE x
           b == IF sign = "s" THEN Signed(y) ELSE y
<1>1. a \in Int
  BY SignedLaws, OctaInt
<1>2. b \in Int /\ b # 0
  <2>1. Signed(y) \in Int /\ Cut(Signed(y)) = y /\ Cut(0) = 0
    BY SignedLaws, SmallOcta, CutLaws
  <2> QED
    BY <2>1, OctaInt
<1> HIDE DEF a, b
<1>3. Abs(a) \in Int /\ Abs(b) \in Nat \ {0}
  BY <1>1, <1>2 DEF Abs
<1>4. Abs(a) \div Abs(b) \in Int
  BY <1>3, DivMod
<1>5. Quot(a, b) \in Int
  BY <1>4 DEF Quot
<1>6. Rem(a, b) \in Int
  BY <1>1, <1>2, <1>5 DEF Rem
<1> QED
  BY <1>5, <1>6, CutLaws DEF DivRem, a, b

(* The arithmetic operations.                                              *)
Arith == {"add", "sub", "and", "or", "xor", "shl", "shr", "sar"}

(* Arithmetic on words gives a word.                                       *)
LEMMA AluType ==
  ASSUME NEW op \in Arith, NEW x \in Octa, NEW y \in Octa
  PROVE  Alu(op, x, y) \in Octa
<1>1. x \in Nat /\ y \in Nat /\ x < M /\ y < M /\ M \in Nat
  BY OctaInt, WordSizes
<1> DEFINE k == y % XLEN
           P == Pow2[k]
<1>2. k \in Nat
  BY <1>1, WordSizes, DivMod
<1>3. P \in Nat \ {0}
  BY <1>2, Pow2Type
<1>4. x & y \in Octa /\ x | y \in Octa /\ x ^^ y \in Octa
  BY WordSizes, BitBounds DEF Octa, M
<1> HIDE DEF k, P
<1>5. x * P \in Int
  BY <1>1, <1>3
<1>6. x \div P \in Octa
  <2> DEFINE q == x \div P
             r == x % P
  <2>1. q \in Int /\ r \in 0 .. P - 1 /\ x = P * q + r
    BY <1>1, <1>3, DivMod
  <2> HIDE DEF q, r
  <2>2. q <= -1 => P * q <= -P
    BY <1>3, <2>1
  <2>3. q >= 0 => P * q >= q
    BY <1>3, <2>1
  <2>4. q \in 0 .. x
    BY <1>1, <1>3, <2>1, <2>2, <2>3
  <2> QED
    BY <1>1, <2>4 DEF q, Octa
<1>7. Signed(x) \div P \in Int
  BY <1>3, SignedLaws, DivMod
<1>8. Cut(x + y) \in Octa /\ Cut(x - y) \in Octa /\ Cut(x * P) \in Octa /\ Cut(Signed(x) \div P) \in Octa
  <2>1. x + y \in Int /\ x - y \in Int
    BY <1>1
  <2> QED
    BY <1>5, <1>7, <2>1, CutLaws
<1> QED
  BY <1>4, <1>6, <1>8 DEF Alu, Arith, P, k

(* The flags stay flags, and the status a word.                            *)
LEMMA FlagBounds ==
  /\ \A x, y \in 0 .. SoftFlags : x | y \in 0 .. SoftFlags
  /\ \A x \in Octa : x & FFlags \in 0 .. SoftFlags
  /\ \A x \in Octa : \A z \in Nat : x | (z & FFlags) \in Octa
<1>1. PICK n \in 0 .. XLEN : SoftFlags = Pow2[n] - 1
  BY MachineAssumption
<1>2. n \in Nat /\ Pow2[n] \in Nat /\ XLEN \in Nat
  BY WordSizes, Pow2Type
<1>3. FFlags \in Nat /\ FFlags \in Octa /\ FFlags <= SoftFlags /\ SoftFlags \in Int
  BY <1>1, <1>2, MachineAssumption, OctaInt
<1>4. ASSUME NEW x \in 0 .. SoftFlags, NEW y \in 0 .. SoftFlags PROVE x | y \in 0 .. SoftFlags
  BY <1>1, <1>2, BitBounds
<1>5. ASSUME NEW x \in Octa PROVE x & FFlags \in 0 .. SoftFlags
  <2>1. x & FFlags \in Nat /\ x & FFlags <= FFlags
    BY <1>3, OctaInt, AndType
  <2> QED
    BY <1>3, <2>1
<1>6. ASSUME NEW x \in Octa, NEW z \in Nat PROVE x | (z & FFlags) \in Octa
  <2>1. z & FFlags \in Nat /\ z & FFlags <= FFlags
    BY <1>3, AndType
  <2>2. z & FFlags \in Octa
    BY <1>3, <2>1, WordSizes DEF Octa
  <2>3. x \in 0 .. Pow2[XLEN] - 1 /\ z & FFlags \in 0 .. Pow2[XLEN] - 1
    BY <2>2 DEF Octa, M
  <2>4. x | (z & FFlags) \in 0 .. Pow2[XLEN] - 1
    BY <1>2, <2>3, BitBounds, Zenon
  <2> QED
    BY <2>4 DEF Octa, M
<1> QED
  BY <1>4, <1>5, <1>6

-----------------------------------------------------------------------------
(* The operations. *)

(* Those that compute one word, and the word. *)
Single == {"mov", "ld", "setcond", "movcond", "div", "rem"} \cup Arith
Value(u, s) ==
  CASE u[1] = "mov" -> At(s, u[3])
    [] u[1] = "ld" -> Load(s.mem, At(s, u[3]), u[4])
    [] u[1] = "setcond" -> IF Holds(u[3], At(s, u[4]), At(s, u[5])) THEN 1 ELSE 0
    [] u[1] = "movcond" -> IF Holds(u[3], At(s, u[4]), At(s, u[5])) THEN At(s, u[6]) ELSE At(s, u[7])
    [] u[1] \in {"div", "rem"} -> DivRem(u[1], u[3], At(s, u[4]), At(s, u[5]))
    [] OTHER -> Alu(u[1], At(s, u[3]), At(s, u[4]))

(* The operands are places, or constants that are words. *)
SingleOK(u) ==
  /\ u[1] \in Single /\ Place(u[2])
  /\ u[1] \in {"mov", "ld"} => Source(u[3])
  /\ u[1] \in {"setcond", "movcond", "div", "rem"} => Source(u[4]) /\ Source(u[5])
  /\ u[1] = "movcond" => Source(u[6]) /\ Source(u[7])
  /\ u[1] \in Arith => Source(u[3]) /\ Source(u[4])
DoubleOK(u) ==
  /\ u[1] \in {"wide", "mul"} /\ Place(u[2]) /\ Place(u[4]) /\ Source(u[5]) /\ Source(u[6])
  /\ u[1] = "wide" => Source(u[7]) /\ Source(u[8])
OtherOK(u) ==
  \/ u[1] = "st" /\ Source(u[2]) /\ Source(u[3])
  \/ u[1] = "fp" /\ Place(u[2])
  \/ u[1] \in {"head", "tail", "nop"}
  \/ u[1] = "excp" /\ u[2] \in Excp
  \/ u[1] = "excpz" /\ u[2] \in Excp /\ Source(u[3])
OpForm(u) == SingleOK(u) \/ DoubleOK(u) \/ OtherOK(u)

(* An operation of instruction i: stores, divisions and exceptions other   *)
(* than that of an illegal instruction belong to certain forms.            *)
OpOK(i, u) ==
  /\ OpForm(u)
  /\ u[1] = "st" => i.form \in {"ST", "STM"}
  /\ u[1] \in {"div", "rem", "excpz"} => i.form = "DIV"
  /\ u[1] = "excpz" => u[2] = "FPER"
  /\ u[1] = "excp" => u[2] = "ILLI" \/ (u[2] = "TRAP" /\ i.form = "TRAP")

(* A division has a divisor. *)
DivOK(u, s) == u[1] \in {"div", "rem"} => At(s, u[5]) # 0

(* The two words of a wide operation. *)
Wide(u, s) ==
  LET x == At(s, u[5]) + M * At(s, u[6])
      y == At(s, u[7]) + M * At(s, u[8])
  IN  IF u[1] = "wide" THEN CutTo(2 * XLEN, IF u[3] = "add" THEN x + y ELSE x - y)
      ELSE CutTo(2 * XLEN, IF u[3] = "s" THEN Signed(At(s, u[5])) * Signed(At(s, u[6]))
                                         ELSE At(s, u[5]) * At(s, u[6]))

(* The word of an operation is a word.                                     *)
LEMMA ValueType ==
  ASSUME NEW s \in State, NEW u, SingleOK(u), DivOK(u, s)
  PROVE  Value(u, s) \in Octa
<1>0. s.mem \in [Octa -> Byte]
  BY DEF State
<1>1. CASE u[1] = "mov"
  BY <1>1, AtType DEF Value, SingleOK
<1>2. CASE u[1] = "ld"
  <2>1. At(s, u[3]) \in Int
    BY <1>2, AtType, OctaInt DEF SingleOK
  <2> QED
    BY <1>0, <1>2, <2>1, LoadType DEF Value
<1>3. CASE u[1] = "setcond"
  BY <1>3, SmallOcta DEF Value
<1>4. CASE u[1] = "movcond"
  BY <1>4, AtType DEF Value, SingleOK
<1>5. CASE u[1] \in {"div", "rem"}
  BY <1>5, AtType, DivRemType DEF Value, SingleOK, DivOK
<1>6. CASE u[1] \in Arith
  <2>1. At(s, u[3]) \in Octa /\ At(s, u[4]) \in Octa
    BY <1>6, AtType DEF SingleOK
  <2>2. Value(u, s) = Alu(u[1], At(s, u[3]), At(s, u[4]))
    BY <1>6 DEF Value, Arith
  <2> QED
    BY <1>6, <2>1, <2>2, AluType
<1> QED
  BY <1>1, <1>2, <1>3, <1>4, <1>5, <1>6 DEF SingleOK, Single

(* An operation with one word sets one place.                              *)
LEMMA SingleSets ==
  ASSUME NEW s \in State, NEW u, SingleOK(u), DivOK(u, s), NEW fp, NEW fl
  PROVE  Sets(s, Apply(u, s, fp, fl), u[2], Value(u, s))
<1>1. Apply(u, s, fp, fl) = Put(s, u[2], Value(u, s))
  <2>1. CASE u[1] \in {"mov", "ld", "setcond", "movcond", "div", "rem"}
    BY <2>1 DEF Apply, Value
  <2>2. CASE u[1] \in Arith
    BY <2>2 DEF Apply, Value, Arith
  <2> QED
    BY <2>1, <2>2 DEF SingleOK, Single
<1>2. Value(u, s) \in Octa
  BY ValueType
<1> QED
  BY <1>1, <1>2, PutSets DEF SingleOK

(* A wide operation sets two places.                                       *)
LEMMA DoubleSets ==
  ASSUME NEW s \in State, NEW u, DoubleOK(u), NEW fp, NEW fl
  PROVE  /\ Wide(u, s) % M \in Octa /\ Wide(u, s) \div M \in Octa
         /\ LET z == Put(s, u[2], Wide(u, s) % M)
            IN  /\ Sets(s, z, u[2], Wide(u, s) % M)
                /\ Sets(z, Apply(u, s, fp, fl), u[4], Wide(u, s) \div M)
<1> DEFINE x == At(s, u[5]) + M * At(s, u[6])
           y == At(s, u[7]) + M * At(s, u[8])
           p == IF u[1] = "wide" THEN (IF u[3] = "add" THEN x + y ELSE x - y)
                ELSE (IF u[3] = "s" THEN Signed(At(s, u[5])) * Signed(At(s, u[6]))
                                    ELSE At(s, u[5]) * At(s, u[6]))
           r == CutTo(2 * XLEN, p)
<1>1. At(s, u[5]) \in Octa /\ At(s, u[6]) \in Octa
  BY AtType DEF DoubleOK
<1>2. u[1] = "wide" => At(s, u[7]) \in Octa /\ At(s, u[8]) \in Octa
  BY AtType DEF DoubleOK
<1>3. p \in Int
  <2>1. At(s, u[5]) \in Int /\ At(s, u[6]) \in Int /\ Signed(At(s, u[5])) \in Int /\ Signed(At(s, u[6])) \in Int
    BY <1>1, OctaInt, SignedLaws
  <2>2. u[1] = "wide" => At(s, u[7]) \in Int /\ At(s, u[8]) \in Int
    BY <1>2, OctaInt
  <2>3. M \in Int
    BY WordSizes
  <2> QED
    BY <2>1, <2>2, <2>3
<1>4. Wide(u, s) = r
  BY DEF Wide
<1> HIDE DEF p
<1>5. r % M \in Octa /\ r \div M \in Octa
  BY <1>3, WideHalves
<1> DEFINE z == Put(s, u[2], r % M)
<1>6. Sets(s, z, u[2], r % M)
  BY <1>5, PutSets DEF DoubleOK
<1>7. z \in State
  BY <1>6 DEF Sets
<1>8. Apply(u, s, fp, fl) = Put(z, u[4], r \div M)
  BY DEF Apply, DoubleOK, p
<1> HIDE DEF z, r
<1>9. Sets(z, Apply(u, s, fp, fl), u[4], r \div M)
  BY <1>5, <1>7, <1>8, PutSets DEF DoubleOK
<1> QED
  BY <1>4, <1>5, <1>6, <1>9 DEF z

(* Every operation leaves a state.                                         *)
LEMMA ApplyType ==
  ASSUME NEW s \in State, NEW u, OpForm(u), DivOK(u, s), NEW fp \in Octa, NEW fl \in 0 .. SoftFlags
  PROVE  Apply(u, s, fp, fl) \in State
<1>1. CASE SingleOK(u)
  BY <1>1, SingleSets DEF Sets
<1>2. CASE DoubleOK(u)
  BY <1>2, DoubleSets DEF Sets
<1>3. CASE u[1] = "st" /\ Source(u[2]) /\ Source(u[3])
  <2>1. At(s, u[2]) \in Int /\ At(s, u[3]) \in Int /\ s.mem \in [Octa -> Byte]
    BY <1>3, AtType, OctaInt DEF State
  <2>2. Stored(s.mem, At(s, u[2]), At(s, u[3]), u[4]) \in [Octa -> Byte]
    BY <2>1, StoredType
  <2>3. Apply(u, s, fp, fl) = [s EXCEPT !.mem = Stored(s.mem, At(s, u[2]), At(s, u[3]), u[4])]
    BY <1>3 DEF Apply
  <2> QED
    BY <2>2, <2>3 DEF State
<1>4. CASE u[1] = "fp" /\ Place(u[2])
  <2> DEFINE z == Put(s, u[2], fp)
  <2>1. z \in State
    BY <1>4, PutSets DEF Sets
  <2>2. Apply(u, s, fp, fl) = [z EXCEPT !.flags = @ | fl]
    BY <1>4 DEF Apply
  <2>3. z.flags | fl \in 0 .. SoftFlags
    BY <2>1, FlagBounds DEF State
  <2> HIDE DEF z
  <2> QED
    BY <2>1, <2>2, <2>3 DEF State
<1>5. CASE u[1] = "head"
  <2>0. 0 \in 0 .. NReg - 1
    BY MachineAssumption
  <2>1. s.rf[0] \in Octa
    BY <2>0 DEF State, RegFile
  <2>2. s.rf[0] & FFlags \in 0 .. SoftFlags
    BY <2>1, FlagBounds
  <2>3. Apply(u, s, fp, fl) = [s EXCEPT !.rf0_fcsr = s.rf[0], !.flags = s.rf[0] & FFlags]
    BY <1>5 DEF Apply, dadao_fpu_head
  <2> QED
    BY <2>1, <2>2, <2>3 DEF State
<1>6. CASE u[1] = "tail"
  <2>1. s.rf0_fcsr \in Octa /\ s.flags \in Nat
    BY DEF State
  <2>2. s.rf0_fcsr | (s.flags & FFlags) \in Octa
    BY <2>1, FlagBounds
  <2>3. Apply(u, s, fp, fl) = [s EXCEPT !.rf[0] = s.rf0_fcsr | (s.flags & FFlags)]
    BY <1>6 DEF Apply, dadao_fpu_tail
  <2>4. PICK v \in Octa : v = s.rf0_fcsr | (s.flags & FFlags)
    BY <2>2
  <2>5. [s EXCEPT !.rf[0] = v] \in State
    BY DEF State, RegFile
  <2> QED
    BY <2>3, <2>4, <2>5
<1>7. CASE u[1] = "nop"
  BY <1>7 DEF Apply
<1>8. CASE u[1] \in {"excp", "excpz"} /\ u[2] \in Excp
  <2>1. Apply(u, s, fp, fl) \in {s, [s EXCEPT !.excp = u[2]]}
    BY <1>8 DEF Apply
  <2> QED
    BY <1>8, <2>1 DEF State
<1> QED
  BY <1>1, <1>2, <1>3, <1>4, <1>5, <1>6, <1>7, <1>8 DEF OpForm, OtherOK

-----------------------------------------------------------------------------
(* Well-formed code. *)

(* Operands.                                                               *)
LEMMA Operands ==
  /\ \A f \in Files, n \in 0 .. NReg - 1 : Place(<<f, n>>)
  /\ \A n \in 0 .. NReg - 1 : Place(RD(n)) /\ Place(RB(n)) /\ Place(RF(n))
  /\ \A n \in 1..3 : Place(T(n))
  /\ Place(JMP)
  /\ \A x \in Int : Source(K(x))
  /\ \A p : Place(p) => Source(p)
  /\ 0 \in 0 .. NReg - 1
<1>1. \A f \in Files, n \in 0 .. NReg - 1 : Place(<<f, n>>)
  BY DEF Place, Reg
<1>2. \A n \in 0 .. NReg - 1 : Place(RD(n)) /\ Place(RB(n)) /\ Place(RF(n))
  BY DEF Place, Reg, RD, RB, RF, Files
<1>3. \A n \in 1..3 : Place(T(n))
  BY DEF Place, Reg, T, Files
<1>4. Place(JMP)
  BY DEF Place, Reg, JMP
<1>5. \A x \in Int : Source(K(x))
  BY CutLaws DEF Source, K
<1>6. \A p : Place(p) => Source(p)
  BY DEF Source
<1>7. 0 \in 0 .. NReg - 1
  BY MachineAssumption
<1> QED
  BY <1>1, <1>2, <1>3, <1>4, <1>5, <1>6, <1>7

(* The operations in each of their shapes.                                 *)
LEMMA OpShapes ==
  ASSUME NEW d, Place(d), NEW a, NEW b, Source(a), Source(b)
  PROVE  /\ SingleOK(<<"mov", d, a>>)
         /\ \A mop : SingleOK(<<"ld", d, a, mop>>)
         /\ \A op \in Arith : SingleOK(<<op, d, a, b>>)
         /\ \A c : SingleOK(<<"setcond", d, c, a, b>>)
         /\ \A sign : SingleOK(<<"div", d, sign, a, b>>) /\ SingleOK(<<"rem", d, sign, a, b>>)
         /\ \A c, e, f : Source(e) /\ Source(f) => SingleOK(<<"movcond", d, c, a, b, e, f>>)
         /\ \A mop : OtherOK(<<"st", a, b, mop>>)
         /\ \A z : OtherOK(<<"fp", d, z>>)
         /\ \A z \in Excp : OtherOK(<<"excpz", z, a>>)
         /\ \A o, g : Place(g) => DoubleOK(<<"mul", d, o, g, a, b>>)
         /\ \A o, g, e, f : Place(g) /\ Source(e) /\ Source(f) => DoubleOK(<<"wide", d, o, g, a, e, b, f>>)
<1>1. SingleOK(<<"mov", d, a>>) /\ \A mop : SingleOK(<<"ld", d, a, mop>>)
  BY DEF SingleOK, Single, Arith
<1>2. \A op \in Arith : SingleOK(<<op, d, a, b>>)
  BY DEF SingleOK, Single, Arith
<1>3. \A c : SingleOK(<<"setcond", d, c, a, b>>)
  BY DEF SingleOK, Single, Arith
<1>4. \A sign : SingleOK(<<"div", d, sign, a, b>>) /\ SingleOK(<<"rem", d, sign, a, b>>)
  BY DEF SingleOK, Single, Arith
<1>5. \A c, e, f : Source(e) /\ Source(f) => SingleOK(<<"movcond", d, c, a, b, e, f>>)
  BY DEF SingleOK, Single, Arith
<1>6. (\A mop : OtherOK(<<"st", a, b, mop>>)) /\ (\A z : OtherOK(<<"fp", d, z>>))
      /\ (\A z \in Excp : OtherOK(<<"excpz", z, a>>))
  BY DEF OtherOK
<1>7. \A o, g : Place(g) => DoubleOK(<<"mul", d, o, g, a, b>>)
  BY DEF DoubleOK
<1>8. \A o, g, e, f : Place(g) /\ Source(e) /\ Source(f) => DoubleOK(<<"wide", d, o, g, a, e, b, f>>)
  BY DEF DoubleOK
<1> QED
  BY <1>1, <1>2, <1>3, <1>4, <1>5, <1>6, <1>7, <1>8

(* The operations without operands are well formed.                        *)
LEMMA OtherShapes ==
  /\ OtherOK(<<"head">>) /\ OtherOK(<<"tail">>) /\ OtherOK(NoOp)
  /\ \A z \in Excp : OtherOK(<<"excp", z>>)
BY DEF OtherOK, NoOp

IsSeq(c) == \E S : c \in Seq(S)
CodeOK(i, c) == IsSeq(c) /\ Len(c) \in Nat /\ \A j \in 1 .. Len(c) : OpOK(i, c[j])

(* Sequences are what the ways to write them give.                         *)
LEMMA Sequence ==
  /\ IsSeq(<<>>)
  /\ \A a : IsSeq(<<a>>)
  /\ \A a, b : IsSeq(<<a, b>>)
  /\ \A a, b, c : IsSeq(<<a, b, c>>)
  /\ \A a, b, c, d : IsSeq(<<a, b, c, d>>)
  /\ \A a, b : IsSeq(a) /\ IsSeq(b) => IsSeq(a \o b)
  /\ \A n \in Nat : \A c : c = [j \in 1 .. n |-> c[j]] => IsSeq(c)
  /\ \A c : IsSeq(c) => Len(c) \in Nat /\ (c = <<>> <=> Len(c) = 0)
  /\ \A c : IsSeq(c) /\ c # <<>> => IsSeq(Tail(c)) /\ Len(Tail(c)) = Len(c) - 1
<1>1. IsSeq(<<>>)
  <2>1. <<>> \in Seq({})
    OBVIOUS
  <2> QED
    BY <2>1 DEF IsSeq
<1>2. ASSUME NEW a PROVE IsSeq(<<a>>)
  <2>1. <<a>> \in Seq({a})
    OBVIOUS
  <2> QED
    BY <2>1 DEF IsSeq
<1>3. ASSUME NEW a, NEW b PROVE IsSeq(<<a, b>>)
  <2>1. PICK S, z : S = {a, b} /\ z = <<a, b>>
    OBVIOUS
  <2>2. z \in Seq(S)
    BY <2>1
  <2>3. IsSeq(z)
    BY <2>2 DEF IsSeq
  <2> QED
    BY <2>1, <2>3
<1>4. ASSUME NEW a, NEW b, NEW c PROVE IsSeq(<<a, b, c>>)
  <2>1. PICK S, z : S = {a, b, c} /\ z = <<a, b, c>>
    OBVIOUS
  <2>2. z \in Seq(S)
    BY <2>1
  <2>3. IsSeq(z)
    BY <2>2 DEF IsSeq
  <2> QED
    BY <2>1, <2>3
<1>5. ASSUME NEW a, NEW b, NEW c, NEW d PROVE IsSeq(<<a, b, c, d>>)
  <2>1. PICK S, z : S = {a, b, c, d} /\ z = <<a, b, c, d>>
    OBVIOUS
  <2>2. z \in Seq(S)
    BY <2>1
  <2>3. IsSeq(z)
    BY <2>2 DEF IsSeq
  <2> QED
    BY <2>1, <2>3
<1>6. ASSUME NEW a, NEW b, IsSeq(a), IsSeq(b) PROVE IsSeq(a \o b)
  <2>1. PICK S1, S2 : a \in Seq(S1) /\ b \in Seq(S2)
    BY <1>6 DEF IsSeq
  <2>2. a \in Seq(S1 \cup S2) /\ b \in Seq(S1 \cup S2)
    BY <2>1
  <2>3. a \o b \in Seq(S1 \cup S2)
    BY <2>2
  <2> QED
    BY <2>3 DEF IsSeq
<1>7. ASSUME NEW n \in Nat, NEW c, c = [j \in 1 .. n |-> c[j]] PROVE IsSeq(c)
  <2>1. PICK S : S = {c[j] : j \in 1 .. n}
    OBVIOUS
  <2>2. \A j \in 1 .. n : c[j] \in S
    BY <2>1
  <2>3. c \in Seq(S)
    BY <1>7, <2>2
  <2> QED
    BY <2>3 DEF IsSeq
<1>8. ASSUME NEW c, IsSeq(c) PROVE Len(c) \in Nat /\ (c = <<>> <=> Len(c) = 0)
  <2>1. PICK S : c \in Seq(S)
    BY <1>8 DEF IsSeq
  <2> QED
    BY <2>1
<1>9. ASSUME NEW c, IsSeq(c), c # <<>> PROVE IsSeq(Tail(c)) /\ Len(Tail(c)) = Len(c) - 1
  <2>1. PICK S : c \in Seq(S)
    BY <1>9 DEF IsSeq
  <2>2. Tail(c) \in Seq(S) /\ Len(Tail(c)) = Len(c) - 1
    BY <1>9, <2>1
  <2> QED
    BY <2>2 DEF IsSeq
<1> QED
  BY <1>1, <1>2, <1>3, <1>4, <1>5, <1>6, <1>7, <1>8, <1>9

(* Code put together.                                                      *)
LEMMA CodeCat ==
  ASSUME NEW i, NEW a, NEW b, CodeOK(i, a), CodeOK(i, b)
  PROVE  CodeOK(i, a \o b) /\ Len(a \o b) = Len(a) + Len(b)
<1>1. Len(a) \in Nat /\ Len(b) \in Nat
  BY DEF CodeOK
<1>2. Len(a \o b) = Len(a) + Len(b)
  BY <1>1
<1>3. ASSUME NEW j \in 1 .. Len(a \o b) PROVE OpOK(i, (a \o b)[j])
  <2>1. CASE j <= Len(a)
    <3>1. j \in 1 .. Len(a) /\ (a \o b)[j] = a[j]
      BY <1>1, <1>2, <2>1
    <3> QED
      BY <3>1 DEF CodeOK
  <2>2. CASE j > Len(a)
    <3>1. j - Len(a) \in 1 .. Len(b) /\ (a \o b)[j] = b[j - Len(a)]
      BY <1>1, <1>2, <2>2
    <3> QED
      BY <3>1 DEF CodeOK
  <2> QED
    BY <1>1, <1>2, <2>1, <2>2
<1>4. IsSeq(a \o b)
  BY Sequence DEF CodeOK
<1> QED
  BY <1>1, <1>2, <1>3, <1>4 DEF CodeOK

(* A list of well-formed operations is well-formed code.                   *)
LEMMA CodeList ==
  ASSUME NEW i
  PROVE
  /\ CodeOK(i, <<>>)
  /\ \A a : OpOK(i, a) => CodeOK(i, <<a>>)
  /\ \A a, b : OpOK(i, a) /\ OpOK(i, b) => CodeOK(i, <<a, b>>)
  /\ \A a, b, c : OpOK(i, a) /\ OpOK(i, b) /\ OpOK(i, c) => CodeOK(i, <<a, b, c>>)
  /\ \A a, b, c, d : OpOK(i, a) /\ OpOK(i, b) /\ OpOK(i, c) /\ OpOK(i, d) => CodeOK(i, <<a, b, c, d>>)
BY Sequence DEF CodeOK

(* So is code that is left out under a condition.                          *)
LEMMA CodeWhen == ASSUME NEW i, NEW c, NEW p, p => CodeOK(i, c) PROVE CodeOK(i, When(p, c))
BY CodeList DEF When

(* The fields of an instruction.                                           *)
LEMMA Fields ==
  ASSUME NEW i \in Insns
  PROVE  /\ i.ha \in 0 .. NReg - 1 /\ i.hb \in 0 .. NReg - 1 /\ i.hc \in 0 .. NReg - 1
         /\ i.hd \in 0 .. NReg - 1 /\ i.imm \in Int
BY InputAssumption DEF Encodable

(* The counts of the block forms.                                          *)
LEMMA BlockFields ==
  ASSUME NEW i \in Insns, Legal(i)
  PROVE  /\ NReg \in Nat /\ i.ha \in Nat /\ i.hb \in Nat /\ i.hc \in Nat
         /\ i.form \in {"LDM", "STM", "R2R", "FCVT"} => i.imm \in Nat \ {0}
         /\ i.form \in {"LDM", "STM"} => i.file \in Files /\ i.ha + i.imm <= NReg
         /\ i.form \in {"R2R", "FCVT"} => /\ i.file \in Files /\ i.from \in Files
                                          /\ i.hb + i.imm <= NReg /\ i.hc + i.imm <= NReg
<1>1. Encodable(i)
  BY InputAssumption
<1>2. NReg \in Nat
  BY MachineAssumption
<1>3. i.form \in {"LDM", "STM", "R2R", "FCVT"} => i.imm \in Nat
  BY <1>1 DEF Encodable
<1>4. i.form \in {"LDM", "STM"} => i.imm # 0 /\ i.ha + i.imm <= NReg
  BY DEF Legal, BlockLegal
<1>5. i.form \in {"R2R", "FCVT"} => i.imm # 0 /\ i.hb + i.imm <= NReg /\ i.hc + i.imm <= NReg
  BY DEF Legal, BlockLegal
<1>6. i.form = "LDM" => i.file \in Files
  BY <1>1 DEF Encodable, LdmForms, LdForms, Files
<1>7. i.form = "STM" => i.file \in Files
  BY <1>1 DEF Encodable, StmForms, StForms, Files
<1>8. i.form = "R2R" => i.file \in Files /\ i.from \in Files
  BY <1>1 DEF Encodable, R2RForms, Files
<1>9. i.form = "FCVT" => i.file \in Files /\ i.from \in Files
  BY <1>1 DEF Encodable, FcvtForms, Files
<1>10. i.ha \in Nat /\ i.hb \in Nat /\ i.hc \in Nat
  BY Fields
<1> QED
  BY <1>2, <1>3, <1>4, <1>5, <1>6, <1>7, <1>8, <1>9, <1>10

(* Loads and stores.                                                       *)
LEMMA MemOK ==
  ASSUME NEW i \in Insns, Legal(i)
  PROVE  /\ i.form = "LD" => CodeOK(i, LD(i))
         /\ i.form = "ST" => CodeOK(i, ST(i))
         /\ i.form = "LDM" => CodeOK(i, LDM(i))
         /\ i.form = "STM" => CodeOK(i, STM(i))
<1>1. Source(RB(i.hb)) /\ Source(RD(i.hc)) /\ Source(K(i.imm)) /\ Place(T(1)) /\ Place(T(2))
      /\ Source(T(1)) /\ Source(T(2))
  BY Fields, Operands
<1>2. ASSUME i.form = "LD" PROVE CodeOK(i, LD(i))
  <2>1. i.file \in Files
    BY <1>2, InputAssumption DEF Encodable, LdForms, Files
  <2>2. Place(<<i.file, i.ha>>)
    BY <2>1, Fields, Operands
  <2>3. OpOK(i, <<"add", T(1), RB(i.hb), K(i.imm)>>) /\ OpOK(i, <<"ld", T(2), T(1), i.mop>>)
        /\ OpOK(i, <<"mov", <<i.file, i.ha>>, T(2)>>)
    BY <1>1, <2>2, OpShapes DEF OpOK, OpForm, Arith
  <2> QED
    BY <2>3, CodeList, CodeWhen, CodeCat DEF LD
<1>3. ASSUME i.form = "ST" PROVE CodeOK(i, ST(i))
  <2>1. i.file \in Files
    BY <1>3, InputAssumption DEF Encodable, StForms, Files
  <2>2. Source(<<i.file, i.ha>>)
    BY <2>1, Fields, Operands
  <2>3. OpOK(i, <<"add", T(1), RB(i.hb), K(i.imm)>>) /\ OpOK(i, <<"st", T(1), <<i.file, i.ha>>, i.mop>>)
    BY <1>1, <1>3, <2>2, OpShapes DEF OpOK, OpForm, Arith
  <2> QED
    BY <2>3, CodeList DEF ST
<1>4. OpOK(i, <<"add", T(1), RB(i.hb), RD(i.hc)>>)
  BY <1>1, OpShapes DEF OpOK, OpForm, Arith
<1>5. OpOK(i, <<"add", T(1), T(1), K(Size(i.mop))>>)
  <2>1. Source(K(Size(i.mop)))
    BY Operands DEF Size
  <2> QED
    BY <1>1, <2>1, OpShapes DEF OpOK, OpForm, Arith
<1>6. ASSUME i.form = "LDM" PROVE CodeOK(i, LDM(i))
  <2>1. i.file \in Files /\ i.imm \in Nat /\ i.ha + i.imm <= NReg /\ i.ha \in Nat /\ NReg \in Nat
    BY <1>6, BlockFields
  <2> DEFINE block(k) == <<<<"ld", T(2), T(1), i.mop>>,
                Unless0(i.ha + k # 0 \/ i.file \in {"rf", "ra"}, <<"mov", <<i.file, i.ha + k>>, T(2)>>),
                <<"add", T(1), T(1), K(Size(i.mop))>>>>
             c == Times(i.imm, 3, block)
  <2>2. ASSUME NEW k \in 0 .. i.imm - 1, NEW l \in 1..3 PROVE OpOK(i, block(k)[l])
    <3>1. Place(<<i.file, i.ha + k>>)
      BY <2>1, Operands
    <3>2. OpOK(i, <<"mov", <<i.file, i.ha + k>>, T(2)>>) /\ OpOK(i, NoOp) /\ OpOK(i, <<"ld", T(2), T(1), i.mop>>)
      BY <1>1, <3>1, OpShapes, OtherShapes DEF OpOK, OpForm, NoOp
    <3> QED
      BY <1>5, <3>2 DEF Unless0
  <2> HIDE DEF block
  <2>3. CodeOK(i, c)
    <3>0. IsSeq(c)
      <4>1. c = [j \in 1 .. i.imm * 3 |-> c[j]] /\ i.imm * 3 \in Nat
        BY <2>1 DEF Times
      <4> QED
        BY <4>1, Sequence
    <3>1. Len(c) = i.imm * 3
      BY <2>1 DEF Times
    <3>2. ASSUME NEW j \in 1 .. i.imm * 3 PROVE OpOK(i, c[j])
      <4>1. (j - 1) \div 3 \in 0 .. i.imm - 1 /\ ((j - 1) % 3) + 1 \in 1..3
        BY <2>1
      <4>2. c[j] = block((j - 1) \div 3)[((j - 1) % 3) + 1]
        BY DEF Times
      <4> QED
        BY <2>2, <4>1, <4>2
    <3> QED
      BY <2>1, <3>0, <3>1, <3>2 DEF CodeOK
  <2>4. LDM(i) = <<<<"add", T(1), RB(i.hb), RD(i.hc)>>>> \o c
    BY DEF LDM, block, Times
  <2> QED
    BY <1>4, <2>3, <2>4, CodeList, CodeCat
<1>7. ASSUME i.form = "STM" PROVE CodeOK(i, STM(i))
  <2>1. i.file \in Files /\ i.imm \in Nat /\ i.ha + i.imm <= NReg /\ i.ha \in Nat /\ NReg \in Nat
    BY <1>7, BlockFields
  <2> DEFINE block(k) == <<<<"st", T(1), <<i.file, i.ha + k>>, i.mop>>,
                <<"add", T(1), T(1), K(Size(i.mop))>>>>
             c == Times(i.imm, 2, block)
  <2>2. ASSUME NEW k \in 0 .. i.imm - 1, NEW l \in 1..2 PROVE OpOK(i, block(k)[l])
    <3>1. Source(<<i.file, i.ha + k>>)
      BY <2>1, Operands
    <3>2. OpOK(i, <<"st", T(1), <<i.file, i.ha + k>>, i.mop>>)
      BY <1>1, <1>7, <3>1, OpShapes DEF OpOK, OpForm
    <3> QED
      BY <1>5, <3>2
  <2> HIDE DEF block
  <2>3. CodeOK(i, c)
    <3>0. IsSeq(c)
      <4>1. c = [j \in 1 .. i.imm * 2 |-> c[j]] /\ i.imm * 2 \in Nat
        BY <2>1 DEF Times
      <4> QED
        BY <4>1, Sequence
    <3>1. Len(c) = i.imm * 2
      BY <2>1 DEF Times
    <3>2. ASSUME NEW j \in 1 .. i.imm * 2 PROVE OpOK(i, c[j])
      <4>1. (j - 1) \div 2 \in 0 .. i.imm - 1 /\ ((j - 1) % 2) + 1 \in 1..2
        BY <2>1
      <4>2. c[j] = block((j - 1) \div 2)[((j - 1) % 2) + 1]
        BY DEF Times
      <4> QED
        BY <2>2, <4>1, <4>2
    <3> QED
      BY <2>1, <3>0, <3>1, <3>2 DEF CodeOK
  <2>4. STM(i) = <<<<"add", T(1), RB(i.hb), RD(i.hc)>>>> \o c
    BY DEF STM, block, Times
  <2> QED
    BY <1>4, <2>3, <2>4, CodeList, CodeCat
<1> QED
  BY <1>2, <1>3, <1>6, <1>7

(* Register assignment.                                                    *)
LEMMA AssignOK ==
  ASSUME NEW i \in Insns, Legal(i)
  PROVE  /\ i.form = "R2R" => CodeOK(i, R2R(i))
         /\ i.form = "CSET1" => CodeOK(i, CSET1(i))
         /\ i.form = "CSET2" => CodeOK(i, CSET2(i))
         /\ i.form = "FCSET" => CodeOK(i, FCSET(i))
         /\ i.form = "SETOW" => CodeOK(i, SETOW(i))
         /\ i.form = "SETZW" => CodeOK(i, SETZW(i))
         /\ i.form = "ORW" => CodeOK(i, ORW(i))
         /\ i.form = "ANDNW" => CodeOK(i, ANDNW(i))
         /\ i.form = "SETW" => CodeOK(i, SETW(i))
<1>0. Encodable(i)
  BY InputAssumption
<1>1. ASSUME i.form = "R2R" PROVE CodeOK(i, R2R(i))
  <2>1. i.file \in Files /\ i.from \in Files /\ i.imm \in Nat /\ i.hb + i.imm <= NReg
        /\ i.hc + i.imm <= NReg /\ i.hb \in Nat /\ i.hc \in Nat /\ NReg \in Nat
    BY <1>1, BlockFields
  <2> DEFINE ord(k) == CopyOrder(i.hb, i.hc, i.imm, k)
             op(k) == Unless0(i.hb + ord(k) # 0 \/ i.file \in {"rf", "ra"},
                              <<"mov", <<i.file, i.hb + ord(k)>>, <<i.from, i.hc + ord(k)>>>>)
  <2>2. ASSUME NEW k \in 0 .. i.imm - 1 PROVE OpOK(i, op(k))
    <3>1. ord(k) \in 0 .. i.imm - 1
      BY <2>1 DEF CopyOrder
    <3> HIDE DEF ord
    <3>2. Place(<<i.file, i.hb + ord(k)>>) /\ Source(<<i.from, i.hc + ord(k)>>)
      BY <2>1, <3>1, Operands
    <3>3. OpOK(i, <<"mov", <<i.file, i.hb + ord(k)>>, <<i.from, i.hc + ord(k)>>>>) /\ OpOK(i, NoOp)
      BY <3>2, OpShapes, OtherShapes DEF OpOK, OpForm, NoOp
    <3> QED
      BY <3>3 DEF Unless0
  <2>3. R2R(i) = [j \in 1 .. i.imm * 1 |-> <<op((j - 1) \div 1)>>[((j - 1) % 1) + 1]]
    BY DEF R2R, Times
  <2> HIDE DEF op
  <2>4. \A j \in 1 .. i.imm : (j - 1) \div 1 = j - 1 /\ ((j - 1) % 1) + 1 = 1 /\ j - 1 \in 0 .. i.imm - 1
    BY <2>1
  <2>5. Len(R2R(i)) = i.imm /\ \A j \in 1 .. i.imm : R2R(i)[j] = op(j - 1)
    BY <2>1, <2>3, <2>4
  <2>6. IsSeq(R2R(i))
    <3>1. i.imm * 1 \in Nat /\ R2R(i) = [j \in 1 .. i.imm * 1 |-> R2R(i)[j]]
      BY <2>1, <2>3
    <3> QED
      BY <3>1, Sequence
  <2> QED
    BY <2>1, <2>2, <2>4, <2>5, <2>6 DEF CodeOK
<1>2. Source(RD(i.ha)) /\ Source(RD(i.hb)) /\ Source(RD(0)) /\ Source(K(1)) /\ Source(RD(i.hc)) /\ Source(RD(i.hd))
      /\ Place(RD(i.ha)) /\ Place(RD(i.hc)) /\ Place(RF(i.hc)) /\ Source(RF(i.hc)) /\ Source(RF(i.hd))
      /\ Place(RF(i.ha)) /\ Source(RF(i.ha))
  BY Fields, Operands
<1>3. i.form = "CSET1" => CodeOK(i, CSET1(i))
  <2> SUFFICES ASSUME i.form = "CSET1" PROVE CodeOK(i, CSET1(i))
    OBVIOUS
  <2>1. i.file \in Files
    BY <1>0 DEF Encodable, Files
  <2>2. Place(<<i.file, i.hb>>) /\ Source(<<i.file, i.hc>>) /\ Source(<<i.file, i.hd>>)
    BY <2>1, Fields, Operands
  <2>3. OpOK(i, <<"movcond", <<i.file, i.hb>>, i.cond, RD(i.ha), RD(0), <<i.file, i.hc>>, <<i.file, i.hd>>>>)
    BY <1>2, <2>2, OpShapes DEF OpOK, OpForm
  <2> QED
    BY <2>3, CodeList, CodeWhen DEF CSET1
<1>4. CodeOK(i, CSET2(i))
  <2>1. OpOK(i, <<"movcond", RD(i.hc), i.cond, RD(i.ha), RD(i.hb), RD(i.hd), RD(i.hc)>>)
    BY <1>2, OpShapes DEF OpOK, OpForm
  <2> QED
    BY <2>1, CodeList, CodeWhen DEF CSET2
<1>5. CodeOK(i, FCSET(i))
  <2>1. OpOK(i, <<"movcond", RF(i.hc), i.cond, RD(i.hb), K(1), RF(i.hd), RF(i.hc)>>)
    BY <1>2, OpShapes DEF OpOK, OpForm
  <2> QED
    BY <2>1, CodeList DEF FCSET
<1>6. ASSUME i.form \in {"SETOW", "SETZW", "ORW", "ANDNW", "SETW"}
      PROVE  /\ Source(K(AtWyde(i.imm, i.ww) + Inv(AtWyde(Ones, i.ww)))) /\ Source(K(AtWyde(i.imm, i.ww)))
             /\ Source(K(Inv(AtWyde(i.imm, i.ww)))) /\ Source(K(Inv(AtWyde(Ones, i.ww))))
  <2>1. i.ww \in 0..3 /\ i.imm \in Int /\ Ones \in Int
    BY <1>0, <1>6, Fields, WydeSizes DEF Encodable
  <2>2. Pow2[i.ww * WydeBits] \in Int
    BY <2>1, WydeSizes DEF WydeP
  <2>3. AtWyde(i.imm, i.ww) \in Int /\ AtWyde(Ones, i.ww) \in Int
    BY <2>1, <2>2 DEF AtWyde
  <2>4. AtWyde(i.imm, i.ww) + Inv(AtWyde(Ones, i.ww)) \in Int /\ Inv(AtWyde(i.imm, i.ww)) \in Int
        /\ Inv(AtWyde(Ones, i.ww)) \in Int
    BY <2>3, WordSizes DEF Inv
  <2> QED
    BY <2>3, <2>4, Operands
<1>7. ASSUME i.form \in {"SETZW", "ORW", "ANDNW"} PROVE Place(<<i.file, i.ha>>) /\ Source(<<i.file, i.ha>>)
  <2>1. i.file \in Files
    BY <1>0, <1>7 DEF Encodable, Files
  <2> QED
    BY <2>1, Fields, Operands
<1>8. i.form = "SETOW" => CodeOK(i, SETOW(i))
  <2> SUFFICES ASSUME i.form = "SETOW" PROVE CodeOK(i, SETOW(i))
    OBVIOUS
  <2>1. OpOK(i, <<"mov", RD(i.ha), K(AtWyde(i.imm, i.ww) + Inv(AtWyde(Ones, i.ww)))>>)
    BY <1>2, <1>6, OpShapes DEF OpOK, OpForm
  <2> QED
    BY <2>1, CodeList, CodeWhen DEF SETOW
<1>9. i.form = "SETZW" => CodeOK(i, SETZW(i))
  <2> SUFFICES ASSUME i.form = "SETZW" PROVE CodeOK(i, SETZW(i))
    OBVIOUS
  <2>1. OpOK(i, <<"mov", <<i.file, i.ha>>, K(AtWyde(i.imm, i.ww))>>)
    BY <1>6, <1>7, OpShapes DEF OpOK, OpForm
  <2> QED
    BY <2>1, CodeList, CodeWhen DEF SETZW
<1>10. i.form = "ORW" => CodeOK(i, ORW(i))
  <2> SUFFICES ASSUME i.form = "ORW" PROVE CodeOK(i, ORW(i))
    OBVIOUS
  <2>1. OpOK(i, <<"or", <<i.file, i.ha>>, <<i.file, i.ha>>, K(AtWyde(i.imm, i.ww))>>)
    BY <1>6, <1>7, OpShapes DEF OpOK, OpForm, Arith
  <2> QED
    BY <2>1, CodeList, CodeWhen DEF ORW
<1>11. i.form = "ANDNW" => CodeOK(i, ANDNW(i))
  <2> SUFFICES ASSUME i.form = "ANDNW" PROVE CodeOK(i, ANDNW(i))
    OBVIOUS
  <2>1. OpOK(i, <<"and", <<i.file, i.ha>>, <<i.file, i.ha>>, K(Inv(AtWyde(i.imm, i.ww)))>>)
    BY <1>6, <1>7, OpShapes DEF OpOK, OpForm, Arith
  <2> QED
    BY <2>1, CodeList, CodeWhen DEF ANDNW
<1>12. i.form = "SETW" => CodeOK(i, SETW(i))
  <2> SUFFICES ASSUME i.form = "SETW" PROVE CodeOK(i, SETW(i))
    OBVIOUS
  <2>1. OpOK(i, <<"and", RF(i.ha), RF(i.ha), K(Inv(AtWyde(Ones, i.ww)))>>)
        /\ OpOK(i, <<"or", RF(i.ha), RF(i.ha), K(AtWyde(i.imm, i.ww))>>)
    BY <1>2, <1>6, OpShapes DEF OpOK, OpForm, Arith
  <2> QED
    BY <2>1, CodeList DEF SETW
<1> QED
  BY <1>1, <1>3, <1>4, <1>5, <1>8, <1>9, <1>10, <1>11, <1>12

(* Arithmetic and logic.                                                   *)
LEMMA ArithOK ==
  ASSUME NEW i \in Insns, NEW pc \in Octa
  PROVE  /\ i.form = "ALG1" => CodeOK(i, ALG1(i))
         /\ i.form = "ALG1rb" => CodeOK(i, ALG1rb(i))
         /\ i.form = "ADDI" => CodeOK(i, ADDI(i))
         /\ i.form = "CMPi" => CodeOK(i, CMPi(i))
         /\ i.form = "CMPr" => CodeOK(i, CMPr(i))
         /\ i.form = "MUL" => CodeOK(i, MUL(i))
         /\ i.form = "DIV" => CodeOK(i, DIV(i))
         /\ i.form = "ADRP" => CodeOK(i, ADRP(i, pc))
<1>0. Encodable(i)
  BY InputAssumption
<1>1. /\ Place(RD(i.ha)) /\ Place(RD(i.hb)) /\ Place(T(1)) /\ Place(T(2)) /\ Place(RB(i.hb)) /\ Place(RB(i.ha))
      /\ Source(RD(i.hb)) /\ Source(RD(i.hc)) /\ Source(RD(i.hd)) /\ Source(T(1)) /\ Source(T(2))
      /\ Source(RB(i.hc)) /\ Source(RB(i.ha))
  BY Fields, Operands
<1>2. Source(K(XLEN - 1)) /\ Source(K(i.imm)) /\ Source(K(-1)) /\ Source(K(pc))
  <2>1. XLEN - 1 \in Int /\ i.imm \in Int /\ -1 \in Int /\ pc \in Int
    BY WordSizes, Fields, OctaInt
  <2> QED
    BY <2>1, Operands
<1>3. i.form = "ALG1" => CodeOK(i, ALG1(i))
  <2> SUFFICES ASSUME i.form = "ALG1" PROVE CodeOK(i, ALG1(i))
    OBVIOUS
  <2>1. i.alu \in Arith
    BY <1>0 DEF Encodable, Arith
  <2>2. OpOK(i, <<i.alu, RD(i.hb), RD(i.hc), RD(i.hd)>>)
    BY <1>1, <2>1, OpShapes DEF OpOK, OpForm, Arith
  <2>3. OpOK(i, <<"sar", T(1), RD(i.hc), K(XLEN - 1)>>) /\ OpOK(i, <<"sar", T(2), RD(i.hd), K(XLEN - 1)>>)
    BY <1>1, <1>2, OpShapes DEF OpOK, OpForm, Arith
  <2>4. OpOK(i, <<"wide", T(1), i.alu, T(2), RD(i.hc), T(1), RD(i.hd), T(2)>>)
    BY <1>1, OpShapes DEF OpOK, OpForm
  <2>5. OpOK(i, <<"mov", RD(i.hb), T(1)>>) /\ OpOK(i, <<"mov", RD(i.ha), T(2)>>)
    BY <1>1, OpShapes DEF OpOK, OpForm
  <2>6. CodeOK(i, When(i.hb # 0, <<<<"mov", RD(i.hb), T(1)>>>>)) /\ CodeOK(i, When(i.ha # 0, <<<<"mov", RD(i.ha), T(2)>>>>))
    BY <2>5, CodeList, CodeWhen
  <2>7. CodeOK(i, <<<<"sar", T(1), RD(i.hc), K(XLEN - 1)>>, <<"sar", T(2), RD(i.hd), K(XLEN - 1)>>,
         <<"wide", T(1), i.alu, T(2), RD(i.hc), T(1), RD(i.hd), T(2)>>>>)
    BY <2>3, <2>4, CodeList
  <2>8. CodeOK(i, <<<<i.alu, RD(i.hb), RD(i.hc), RD(i.hd)>>>>)
    BY <2>2, CodeList
  <2> QED
    BY <2>6, <2>7, <2>8, CodeCat DEF ALG1
<1>4. i.form = "ALG1rb" => CodeOK(i, ALG1rb(i))
  <2> SUFFICES ASSUME i.form = "ALG1rb" PROVE CodeOK(i, ALG1rb(i))
    OBVIOUS
  <2>1. i.alu \in Arith
    BY <1>0 DEF Encodable, Arith
  <2>2. OpOK(i, <<i.alu, RB(i.hb), RB(i.hc), RD(i.hd)>>)
    BY <1>1, <2>1, OpShapes DEF OpOK, OpForm, Arith
  <2> QED
    BY <2>2, CodeList, CodeWhen DEF ALG1rb
<1>5. i.form = "ADDI" => CodeOK(i, ADDI(i))
  <2> SUFFICES ASSUME i.form = "ADDI" PROVE CodeOK(i, ADDI(i))
    OBVIOUS
  <2>1. i.file \in Files
    BY <1>0 DEF Encodable, Files
  <2>2. Place(<<i.file, i.ha>>) /\ Source(<<i.file, i.hb>>)
    BY <2>1, Fields, Operands
  <2>3. OpOK(i, <<"add", <<i.file, i.ha>>, <<i.file, i.hb>>, K(i.imm)>>)
    BY <1>2, <2>2, OpShapes DEF OpOK, OpForm, Arith
  <2> QED
    BY <2>3, CodeList, CodeWhen DEF ADDI
<1>6. CodeOK(i, CMPi(i))
  <2>1. OpOK(i, <<"setcond", T(1), i.cond, RD(i.hb), K(i.imm)>>)
        /\ OpOK(i, <<"movcond", RD(i.ha), i.cond, K(i.imm), RD(i.hb), K(-1), T(1)>>)
    BY <1>1, <1>2, OpShapes DEF OpOK, OpForm
  <2> QED
    BY <2>1, CodeList, CodeWhen DEF CMPi
<1>7. i.form = "CMPr" => CodeOK(i, CMPr(i))
  <2> SUFFICES ASSUME i.form = "CMPr" PROVE CodeOK(i, CMPr(i))
    OBVIOUS
  <2>1. i.file \in Files
    BY <1>0 DEF Encodable, Files
  <2>2. Source(<<i.file, i.hc>>) /\ Source(<<i.file, i.hd>>)
    BY <2>1, Fields, Operands
  <2>3. OpOK(i, <<"setcond", T(1), i.cond, <<i.file, i.hc>>, <<i.file, i.hd>>>>)
        /\ OpOK(i, <<"movcond", RD(i.hb), i.cond, <<i.file, i.hd>>, <<i.file, i.hc>>, K(-1), T(1)>>)
    BY <1>1, <1>2, <2>2, OpShapes DEF OpOK, OpForm
  <2> QED
    BY <2>3, CodeList, CodeWhen DEF CMPr
<1>8. CodeOK(i, TwoResults(i, T(2), T(1)))
  <2>1. OpOK(i, <<"mov", RD(i.ha), T(2)>>) /\ OpOK(i, <<"mov", RD(i.hb), T(1)>>)
    BY <1>1, OpShapes DEF OpOK, OpForm
  <2>2. CodeOK(i, When(i.ha # 0, <<<<"mov", RD(i.ha), T(2)>>>>)) /\ CodeOK(i, When(i.hb # 0, <<<<"mov", RD(i.hb), T(1)>>>>))
    BY <2>1, CodeList, CodeWhen
  <2> QED
    BY <2>2, CodeCat DEF TwoResults
<1>9. CodeOK(i, MUL(i))
  <2>1. OpOK(i, <<"mul", T(1), i.sign, T(2), RD(i.hc), RD(i.hd)>>)
    BY <1>1, OpShapes DEF OpOK, OpForm
  <2>2. CodeOK(i, <<<<"mul", T(1), i.sign, T(2), RD(i.hc), RD(i.hd)>>>>)
    BY <2>1, CodeList
  <2> QED
    BY <1>8, <2>2, CodeCat DEF MUL
<1>10. ASSUME i.form = "DIV" PROVE CodeOK(i, DIV(i))
  <2>1. OpOK(i, <<"div", T(1), i.sign, RD(i.hc), RD(i.hd)>>) /\ OpOK(i, <<"rem", T(2), i.sign, RD(i.hc), RD(i.hd)>>)
        /\ OpOK(i, <<"excpz", "FPER", RD(i.hd)>>)
    BY <1>1, <1>10, OpShapes DEF OpOK, OpForm, Excp
  <2>2. CodeOK(i, <<<<"excpz", "FPER", RD(i.hd)>>, <<"div", T(1), i.sign, RD(i.hc), RD(i.hd)>>,
                 <<"rem", T(2), i.sign, RD(i.hc), RD(i.hd)>>>>)
    BY <2>1, CodeList
  <2> QED
    BY <1>8, <2>2, CodeCat DEF DIV
<1>11. CodeOK(i, ADRP(i, pc))
  <2>0. Page \in Int /\ -Page \in Int /\ i.imm * Page \in Int
    <3>1. Page \in Int
      BY MachineAssumption, WordSizes, Pow2Type
    <3> QED
      BY <3>1, Fields
  <2>1. Source(K(-Page)) /\ Source(K(i.imm * Page))
    BY <2>0, Operands
  <2>2. OpOK(i, <<"mov", RB(i.ha), K(pc)>>) /\ OpOK(i, <<"and", RB(i.ha), RB(i.ha), K(-Page)>>)
        /\ OpOK(i, <<"add", RB(i.ha), RB(i.ha), K(i.imm * Page)>>)
    BY <1>1, <1>2, <2>1, OpShapes DEF OpOK, OpForm, Arith
  <2> QED
    BY <2>2, CodeList, CodeWhen DEF ADRP
<1> QED
  BY <1>3, <1>4, <1>5, <1>6, <1>7, <1>9, <1>10, <1>11

(* Logic and shifts are translated to well-formed code.                    *)
LEMMA LogicOK ==
  ASSUME NEW i \in Insns
  PROVE  /\ i.form = "LOGICr" => CodeOK(i, LOGICr(i))
         /\ i.form = "XNOR" => CodeOK(i, XNOR(i))
         /\ i.form = "ANDI" => CodeOK(i, ANDI(i))
         /\ i.form = "EXTr" => CodeOK(i, EXTr(i))
         /\ i.form = "EXTi" => CodeOK(i, EXTi(i))
         /\ i.form = "LOGICi" => CodeOK(i, LOGICi(i))
<1>0. Encodable(i)
  BY InputAssumption
<1>1. /\ Place(RD(i.ha)) /\ Place(RD(i.hb)) /\ Place(T(1)) /\ Source(T(1))
      /\ Source(RD(i.hb)) /\ Source(RD(i.hc)) /\ Source(RD(i.hd))
  BY Fields, Operands
<1>2. Source(K(i.imm)) /\ Source(K(-1))
  <2>1. i.imm \in Int /\ -1 \in Int
    BY Fields
  <2> QED
    BY <2>1, Operands
<1>3. i.form \in {"LOGICr", "EXTr", "EXTi", "LOGICi"} => i.alu \in Arith
  BY <1>0 DEF Encodable, Arith
<1>4. ASSUME i.alu \in Arith PROVE CodeOK(i, LOGICr(i)) /\ CodeOK(i, LOGICi(i))
  <2>1. OpOK(i, <<i.alu, RD(i.hb), RD(i.hc), RD(i.hd)>>) /\ OpOK(i, <<i.alu, RD(i.hb), RD(i.hc), K(i.imm)>>)
    BY <1>1, <1>2, <1>4, OpShapes DEF OpOK, OpForm, Arith
  <2> QED
    BY <2>1, CodeList, CodeWhen DEF LOGICr, LOGICi
<1>5. CodeOK(i, XNOR(i)) /\ CodeOK(i, ANDI(i))
  <2>1. OpOK(i, <<"xor", RD(i.hb), RD(i.hc), RD(i.hd)>>) /\ OpOK(i, <<"xor", RD(i.hb), RD(i.hb), K(-1)>>)
        /\ OpOK(i, <<"and", RD(i.ha), RD(i.hb), K(i.imm)>>)
    BY <1>1, <1>2, OpShapes DEF OpOK, OpForm, Arith
  <2> QED
    BY <2>1, CodeList, CodeWhen DEF XNOR, ANDI
<1>6. ASSUME i.alu \in Arith PROVE CodeOK(i, EXTr(i)) /\ CodeOK(i, EXTi(i))
  <2>1. OpOK(i, <<"mov", T(1), RD(i.hd)>>) /\ OpOK(i, <<"shl", RD(i.hb), RD(i.hc), T(1)>>)
        /\ OpOK(i, <<i.alu, RD(i.hb), RD(i.hb), T(1)>>)
    BY <1>1, <1>6, OpShapes DEF OpOK, OpForm, Arith
  <2>2. OpOK(i, <<"shl", RD(i.hb), RD(i.hc), K(i.imm)>>) /\ OpOK(i, <<i.alu, RD(i.hb), RD(i.hb), K(i.imm)>>)
    BY <1>1, <1>2, <1>6, OpShapes DEF OpOK, OpForm, Arith
  <2> QED
    BY <2>1, <2>2, CodeList, CodeWhen DEF EXTr, EXTi
<1> QED
  BY <1>3, <1>4, <1>5, <1>6

(* Control flow.                                                           *)
LEMMA JumpOK ==
  ASSUME NEW i \in Insns, NEW pc \in Octa
  PROVE  CodeOK(i, BR2(i, pc)) /\ CodeOK(i, BR1(i, pc)) /\ CodeOK(i, JUMPi(i, pc)) /\ CodeOK(i, JUMPr(i))
<1>1. Place(JMP) /\ Source(JMP) /\ Source(RD(i.ha)) /\ Source(RD(i.hb)) /\ Source(RD(0)) /\ Source(RB(i.ha))
  BY Fields, Operands
<1>2. Source(K(pc + i.imm * 4)) /\ Source(K(pc + 4)) /\ Source(K(i.imm * 4))
  <2>1. pc + i.imm * 4 \in Int /\ pc + 4 \in Int /\ i.imm * 4 \in Int
    BY Fields, OctaInt
  <2> QED
    BY <2>1, Operands
<1>3. OpOK(i, <<"movcond", JMP, i.cond, RD(i.ha), RD(i.hb), K(pc + i.imm * 4), K(pc + 4)>>)
      /\ OpOK(i, <<"movcond", JMP, i.cond, RD(i.ha), RD(0), K(pc + i.imm * 4), K(pc + 4)>>)
  BY <1>1, <1>2, OpShapes DEF OpOK, OpForm
<1>4. OpOK(i, <<"mov", JMP, K(pc + i.imm * 4)>>) /\ OpOK(i, <<"mov", JMP, RB(i.ha)>>)
      /\ OpOK(i, <<"add", JMP, JMP, RD(i.hb)>>) /\ OpOK(i, <<"add", JMP, JMP, K(i.imm * 4)>>)
  BY <1>1, <1>2, OpShapes DEF OpOK, OpForm, Arith
<1> QED
  BY <1>3, <1>4, CodeList DEF BR2, BR1, JUMPi, JUMPr

(* Floating point.                                                         *)
LEMMA HelperOK ==
  ASSUME NEW i, NEW dst, Place(dst), NEW srcs
  PROVE  /\ CodeOK(i, Helper(dst, srcs)) /\ Len(Helper(dst, srcs)) = 4
         /\ CodeOK(i, <<<<"fp", T(3), srcs>>, <<"mov", dst, T(3)>>>>)
<1>1. Place(T(3)) /\ Source(T(3))
  BY Operands
<1>2. OpOK(i, <<"head">>) /\ OpOK(i, <<"tail">>)
  BY OtherShapes DEF OpOK, OpForm
<1>3. OpOK(i, <<"fp", T(3), srcs>>)
  BY <1>1, OpShapes DEF OpOK, OpForm
<1>4. OpOK(i, <<"mov", dst, T(3)>>)
  BY <1>1, OpShapes DEF OpOK, OpForm
<1> QED
  BY <1>2, <1>3, <1>4, CodeList DEF Helper

(* The registers of step k of a conversion. *)
CvtDst(i, k) == <<i.file, i.hb + CopyOrder(i.hb, i.hc, i.imm, k)>>
CvtSrc(i, k) == <<i.from, i.hc + CopyOrder(i.hb, i.hc, i.imm, k)>>
CvtBlock(i, k) ==
  IF i.alu = "cls" THEN (IF CvtDst(i, k)[2] = 0 THEN <<NoOp, NoOp>> ELSE ftcls(CvtDst(i, k), CvtSrc(i, k)))
  ELSE (IF CvtDst(i, k)[2] = 0 THEN <<NoOp, NoOp, NoOp, NoOp>> ELSE FCVT_s1d1(CvtDst(i, k), CvtSrc(i, k)))
CvtOps(i) == IF i.alu = "cls" THEN 2 ELSE 4

(* The code of a block conversion, one block for each register.            *)
LEMMA FcvtBlocks ==
  ASSUME NEW i \in Insns, Legal(i), i.form = "FCVT"
  PROVE  /\ FCVT(i) = [j \in 1 .. i.imm * CvtOps(i) |->
                         CvtBlock(i, (j - 1) \div CvtOps(i))[((j - 1) % CvtOps(i)) + 1]]
         /\ \A k \in 0 .. i.imm - 1 : /\ CvtDst(i, k)[2] \in 0 .. NReg - 1 /\ Place(CvtDst(i, k))
                                      /\ CodeOK(i, CvtBlock(i, k)) /\ Len(CvtBlock(i, k)) = CvtOps(i)
<1>1. i.file \in Files /\ i.from \in Files /\ i.imm \in Nat /\ i.hb + i.imm <= NReg
      /\ i.hc + i.imm <= NReg /\ i.hb \in Nat /\ i.hc \in Nat /\ NReg \in Nat
  BY BlockFields
<1>2. ASSUME NEW k \in 0 .. i.imm - 1
      PROVE  /\ CvtDst(i, k)[2] \in 0 .. NReg - 1 /\ Place(CvtDst(i, k))
             /\ CodeOK(i, CvtBlock(i, k)) /\ Len(CvtBlock(i, k)) = CvtOps(i)
  <2> DEFINE o == CopyOrder(i.hb, i.hc, i.imm, k)
  <2>1. o \in 0 .. i.imm - 1
    BY <1>1 DEF CopyOrder
  <2>2. CvtDst(i, k)[2] \in 0 .. NReg - 1 /\ Place(CvtDst(i, k))
    <3> HIDE DEF o
    <3>1. CvtDst(i, k) = <<i.file, i.hb + o>>
      BY DEF CvtDst, o
    <3> QED
      BY <1>1, <2>1, <3>1, Operands
  <2>3. OpOK(i, NoOp)
    BY OtherShapes DEF OpOK, OpForm, NoOp
  <2>4. CodeOK(i, <<NoOp, NoOp>>) /\ CodeOK(i, <<NoOp, NoOp, NoOp, NoOp>>)
    BY <2>3, CodeList
  <2>5. CodeOK(i, ftcls(CvtDst(i, k), CvtSrc(i, k))) /\ Len(ftcls(CvtDst(i, k), CvtSrc(i, k))) = 2
    BY <2>2, HelperOK DEF ftcls
  <2>6. CodeOK(i, FCVT_s1d1(CvtDst(i, k), CvtSrc(i, k))) /\ Len(FCVT_s1d1(CvtDst(i, k), CvtSrc(i, k))) = 4
    BY <2>2, HelperOK DEF FCVT_s1d1
  <2>7. Len(<<NoOp, NoOp>>) = 2 /\ Len(<<NoOp, NoOp, NoOp, NoOp>>) = 4
    OBVIOUS
  <2>8. CodeOK(i, CvtBlock(i, k)) /\ Len(CvtBlock(i, k)) = CvtOps(i)
    BY <2>4, <2>5, <2>6, <2>7 DEF CvtBlock, CvtOps
  <2> QED
    BY <2>2, <2>8
<1>3. FCVT(i) = [j \in 1 .. i.imm * CvtOps(i) |->
                   CvtBlock(i, (j - 1) \div CvtOps(i))[((j - 1) % CvtOps(i)) + 1]]
  <2>1. CASE i.alu = "cls"
    BY <2>1 DEF FCVT, Times, CvtBlock, CvtOps, CvtDst, CvtSrc
  <2>2. CASE i.alu # "cls"
    BY <2>2 DEF FCVT, Times, CvtBlock, CvtOps, CvtDst, CvtSrc
  <2> QED
    BY <2>1, <2>2
<1> QED
  BY <1>2, <1>3

(* Floating point, TRAP and illegal instructions are translated to         *)
(* well-formed code.                                                       *)
LEMMA FloatOK ==
  ASSUME NEW i \in Insns, Legal(i)
  PROVE  /\ i.form = "FCVT" => CodeOK(i, FCVT(i))
         /\ CodeOK(i, FALG2(i)) /\ CodeOK(i, FALG3(i)) /\ CodeOK(i, FALG4(i)) /\ CodeOK(i, FCMP(i))
         /\ i.form = "TRAP" => CodeOK(i, TRAP)
         /\ CodeOK(i, gen_exception_illegal_instruction)
<1>1. i.form = "FCVT" => CodeOK(i, FCVT(i))
  <2> SUFFICES ASSUME i.form = "FCVT" PROVE CodeOK(i, FCVT(i))
    OBVIOUS
  <2> DEFINE m == CvtOps(i)
             n == i.imm
  <2>1. m \in {2, 4} /\ n \in Nat
    BY BlockFields DEF CvtOps
  <2> HIDE DEF m, n
  <2>2. FCVT(i) = [j \in 1 .. n * m |-> CvtBlock(i, (j - 1) \div m)[((j - 1) % m) + 1]]
    BY FcvtBlocks DEF m, n
  <2>3. \A k \in 0 .. n - 1 : CodeOK(i, CvtBlock(i, k)) /\ Len(CvtBlock(i, k)) = m
    BY FcvtBlocks DEF m, n
  <2>4. n * m \in Nat
    BY <2>1
  <2>5. Len(FCVT(i)) = n * m
    BY <2>2, <2>4
  <2>6. ASSUME NEW j \in 1 .. n * m PROVE OpOK(i, FCVT(i)[j])
    <3>1. (j - 1) \div m \in 0 .. n - 1 /\ ((j - 1) % m) + 1 \in 1 .. m
      BY <2>1
    <3>2. FCVT(i)[j] = CvtBlock(i, (j - 1) \div m)[((j - 1) % m) + 1]
      BY <2>2
    <3> QED
      BY <2>3, <3>1, <3>2 DEF CodeOK
  <2>7. IsSeq(FCVT(i))
    <3>1. FCVT(i) = [j \in 1 .. n * m |-> FCVT(i)[j]]
      BY <2>2
    <3> QED
      BY <2>4, <3>1, Sequence
  <2> QED
    BY <2>4, <2>5, <2>6, <2>7 DEF CodeOK
<1>2. Place(RF(i.hb)) /\ Place(RF(i.ha)) /\ Place(RD(i.hb))
  BY Fields, Operands
<1>3. CodeOK(i, FALG3(i)) /\ CodeOK(i, FALG4(i)) /\ CodeOK(i, FCMP(i)) /\ CodeOK(i, FALG_s1d1(RF(i.hb), RF(i.hc)))
  BY <1>2, HelperOK DEF FALG3, FALG4, FCMP, FALG_s1d1, FALG_s2d1, FALG_s3d1, FSGN_s2d1, FCMP_real
<1>4. (i.form = "TRAP" => CodeOK(i, TRAP)) /\ CodeOK(i, gen_exception_illegal_instruction)
  <2>1. (i.form = "TRAP" => OpOK(i, <<"excp", "TRAP">>)) /\ OpOK(i, <<"excp", "ILLI">>)
    BY OtherShapes DEF OpOK, OpForm, Excp
  <2> QED
    BY <2>1, CodeList DEF TRAP, gen_exception_illegal_instruction
<1>5. CodeOK(i, FALG2(i))
  BY <1>3, <1>4, CodeWhen, CodeCat DEF FALG2
<1> QED
  BY <1>1, <1>3, <1>4, <1>5

(* What the translator emits for an instruction is well formed.            *)
LEMMA TransOK ==
  ASSUME NEW i \in Insns, Legal(i), NEW pc \in Octa
  PROVE  CodeOK(i, trans(i, pc))
<1>1. CASE i.form \in {"LD", "ST", "LDM", "STM"}
  BY <1>1, MemOK DEF trans
<1>2. CASE i.form \in {"R2R", "CSET1", "CSET2", "FCSET", "SETOW", "SETZW", "ORW", "ANDNW", "SETW"}
  BY <1>2, AssignOK DEF trans
<1>3. CASE i.form \in {"ALG1", "ALG1rb", "ADDI", "CMPi", "CMPr", "MUL", "DIV", "ADRP"}
  BY <1>3, ArithOK DEF trans
<1>4. CASE i.form \in {"LOGICr", "XNOR", "ANDI", "EXTr", "EXTi", "LOGICi"}
  BY <1>4, LogicOK DEF trans
<1>5. CASE i.form \in {"BR2", "BR1", "JUMPi", "JUMPr"}
  BY <1>5, JumpOK DEF trans
<1>6. CASE i.form \in {"FCVT", "FALG2", "FALG3", "FALG4", "FCMP", "TRAP"}
  BY <1>6, FloatOK DEF trans
<1>7. CASE i.form = "SWYM"
  BY <1>7, CodeList DEF trans
<1>8. CASE i.form \notin {"LD", "ST", "LDM", "STM", "R2R", "CSET1", "CSET2", "FCSET", "SETOW", "SETZW",
                          "ORW", "ANDNW", "SETW", "ALG1", "ALG1rb", "ADDI", "CMPi", "CMPr", "MUL", "DIV",
                          "ADRP", "LOGICr", "XNOR", "ANDI", "EXTr", "EXTi", "LOGICi", "BR2", "BR1",
                          "JUMPi", "JUMPr", "FCVT", "FALG2", "FALG3", "FALG4", "FCMP", "TRAP", "SWYM"}
  <2>1. trans(i, pc) = gen_exception_illegal_instruction
    BY <1>8 DEF trans
  <2> QED
    BY <2>1, FloatOK
<1> QED
  BY <1>1, <1>2, <1>3, <1>4, <1>5, <1>6, <1>7, <1>8

(* A whole translation: three fixed operations, the code of the            *)
(* instruction and the next address.                                       *)
LEMMA TranslateOK ==
  ASSUME NEW i \in Insns, Legal(i), NEW pc \in Octa
  PROVE  /\ CodeOK(i, translate_insn(i, pc))
         /\ Len(translate_insn(i, pc)) = 3 + Len(trans(i, pc)) + 1
         /\ Len(trans(i, pc)) \in Nat
         /\ \A j \in 1..3 : translate_insn(i, pc)[j] = Fixed[j]
         /\ \A j \in 1 .. Len(trans(i, pc)) : translate_insn(i, pc)[j + 3] = trans(i, pc)[j]
         /\ translate_insn(i, pc)[3 + Len(trans(i, pc)) + 1] = tb_stop(i, pc)[1]
<1> DEFINE c == trans(i, pc)
           f == Fixed
           s == tb_stop(i, pc)
<1>1. CodeOK(i, c) /\ Len(c) \in Nat
  BY TransOK DEF CodeOK
<1>2. CodeOK(i, f)
  <2>1. Place(RD(0)) /\ Place(RF(0)) /\ Source(RF(0))
    BY Operands
  <2>2. Source(K(0)) /\ Source(K(RdMode + FFlags)) /\ Source(K(FcsrDefault))
    <3>1. 0 \in Int /\ RdMode + FFlags \in Int /\ FcsrDefault \in Int
      BY MachineAssumption, OctaInt
    <3> QED
      BY <3>1, Operands
  <2>3. OpOK(i, <<"mov", RD(0), K(0)>>)
    BY <2>1, <2>2, OpShapes DEF OpOK, OpForm
  <2>4. OpOK(i, <<"and", RF(0), RF(0), K(RdMode + FFlags)>>)
    BY <2>1, <2>2, OpShapes DEF OpOK, OpForm, Arith
  <2>5. OpOK(i, <<"or", RF(0), RF(0), K(FcsrDefault)>>)
    BY <2>1, <2>2, OpShapes DEF OpOK, OpForm, Arith
  <2> QED
    BY <2>3, <2>4, <2>5, CodeList DEF Fixed
<1>3. CodeOK(i, s)
  <2>1. pc + 4 \in Int
    BY OctaInt
  <2>2. Place(RB(0)) /\ Source(JMP) /\ Source(K(pc + 4))
    BY <2>1, Operands
  <2>3. OpOK(i, <<"mov", RB(0), IF i.form \in Branches THEN JMP ELSE K(pc + 4)>>)
    BY <2>2, OpShapes DEF OpOK, OpForm
  <2> QED
    BY <2>3, CodeList DEF tb_stop
<1>4. Len(f) = 3 /\ Len(s) = 1
  BY DEF Fixed, tb_stop
<1> HIDE DEF c, f, s
<1>5. CodeOK(i, (f \o c) \o s) /\ Len((f \o c) \o s) = 3 + Len(c) + 1 /\ Len(f \o c) = 3 + Len(c)
  <2>1. CodeOK(i, f \o c) /\ Len(f \o c) = Len(f) + Len(c)
    BY <1>1, <1>2, CodeCat, Zenon
  <2>2. CodeOK(i, (f \o c) \o s) /\ Len((f \o c) \o s) = Len(f \o c) + Len(s)
    BY <1>3, <2>1, CodeCat, ZenonT(60)
  <2> QED
    BY <1>4, <2>1, <2>2
<1>6. translate_insn(i, pc) = (f \o c) \o s
  BY DEF translate_insn, c, f, s
<1>7. \A j \in 1..3 : ((f \o c) \o s)[j] = f[j]
  BY <1>1, <1>4, <1>5
<1>8. \A j \in 1 .. Len(c) : ((f \o c) \o s)[j + 3] = c[j]
  BY <1>1, <1>4, <1>5
<1>9. ((f \o c) \o s)[3 + Len(c) + 1] = s[1]
  BY <1>1, <1>4, <1>5
<1> QED
  BY <1>1, <1>5, <1>6, <1>7, <1>8, <1>9 DEF c, f, s

-----------------------------------------------------------------------------
(* Runs of operations. *)

(* An operation takes the thread's state x to y without an exception; other *)
(* threads may have changed the memory and rf0_fcsr in between.            *)
Does(u, x, y) ==
  \E m \in [Octa -> Byte], f \in Octa, fp \in Octa, fl \in 0 .. SoftFlags :
    /\ u[1] = "fp" => fp \in FpResults
    /\ Alone => m = x.mem /\ f = x.rf0_fcsr
    /\ y = Apply(u, Seen(x, m, f), fp, fl)
    /\ y.excp = "none"

(* What a thread sees is a state, with its own registers.                  *)
LEMMA SeenState ==
  ASSUME NEW x \in State, NEW m \in [Octa -> Byte], NEW f \in Octa
  PROVE  /\ Seen(x, m, f) \in State
         /\ \A g, n : Reg(g, n) => Seen(x, m, f)[g][n] = x[g][n]
         /\ Seen(x, m, f).mem = m /\ Seen(x, m, f).rf0_fcsr = f
         /\ Seen(x, m, f).flags = x.flags /\ Seen(x, m, f).excp = x.excp
         /\ m = x.mem /\ f = x.rf0_fcsr => Seen(x, m, f) = x
<1>1. Seen(x, m, f) \in State
  BY DEF Seen, State
<1>2. \A g, n : Reg(g, n) => Seen(x, m, f)[g][n] = x[g][n]
  BY DEF Seen, State, Reg, Files
<1>3. m = x.mem /\ f = x.rf0_fcsr => Seen(x, m, f) = x
  BY DEF Seen, State
<1> QED
  BY <1>1, <1>2, <1>3 DEF Seen

(* So sources read the same.                                               *)
LEMMA SeenAt ==
  ASSUME NEW x \in State, NEW m \in [Octa -> Byte], NEW f \in Octa, NEW p, Source(p)
  PROVE  At(Seen(x, m, f), p) = At(x, p)
BY SeenState DEF At, Source, Place

(* The operations with one result.                                         *)
LEMMA DoesOne ==
  ASSUME NEW x \in State, NEW y, NEW u, SingleOK(u), DivOK(u, x), u[1] = "ld" => Alone, Does(u, x, y)
  PROVE  Sets(x, y, u[2], Value(u, x))
<1>1. PICK m \in [Octa -> Byte], f \in Octa, fp \in Octa, fl \in 0 .. SoftFlags :
        /\ Alone => m = x.mem /\ f = x.rf0_fcsr
        /\ y = Apply(u, Seen(x, m, f), fp, fl)
  BY DEF Does
<1> DEFINE s == Seen(x, m, f)
<1>2. \A p : Source(p) => At(s, p) = At(x, p)
  BY SeenAt
<1>3. s \in State /\ DivOK(u, s)
  <2>1. u[1] \in {"div", "rem"} => Source(u[5])
    BY DEF SingleOK
  <2> QED
    BY <1>2, <2>1, SeenState DEF DivOK
<1>4. Value(u, s) = Value(u, x)
  <2>1. CASE u[1] = "ld"
    BY <1>1, <2>1, SeenState
  <2>2. CASE u[1] \in {"mov", "setcond", "movcond", "div", "rem"}
    <3> HIDE DEF s
    <3> QED
      BY <1>2, <2>2 DEF Value, SingleOK
  <2>3. CASE u[1] \in Arith
    <3> HIDE DEF s
    <3> QED
      BY <1>2, <2>3 DEF Value, SingleOK, Arith
  <2> QED
    BY <2>1, <2>2, <2>3 DEF SingleOK, Single
<1>5. Sets(s, y, u[2], Value(u, x))
  BY <1>1, <1>3, <1>4, SingleSets
<1>6. Alone => s = x
  BY <1>1, SeenState
<1>7. (\A g, n : Reg(g, n) => s[g][n] = x[g][n]) /\ s.flags = x.flags /\ s.excp = x.excp
  BY SeenState
<1> HIDE DEF s
<1> QED
  BY <1>5, <1>6, <1>7 DEF Sets

(* In the shapes they are emitted in.                                      *)
LEMMA DoesShapes ==
  ASSUME NEW x \in State, NEW y, NEW d, Place(d), NEW a, Source(a), NEW b, Source(b)
  PROVE  /\ Does(<<"mov", d, a>>, x, y) => Sets(x, y, d, At(x, a))
         /\ \A op \in Arith : Does(<<op, d, a, b>>, x, y) => Sets(x, y, d, Alu(op, At(x, a), At(x, b)))
         /\ \A c : Does(<<"setcond", d, c, a, b>>, x, y)
                   => Sets(x, y, d, IF Holds(c, At(x, a), At(x, b)) THEN 1 ELSE 0)
         /\ \A c, e, f : Source(e) /\ Source(f) /\ Does(<<"movcond", d, c, a, b, e, f>>, x, y)
                   => Sets(x, y, d, IF Holds(c, At(x, a), At(x, b)) THEN At(x, e) ELSE At(x, f))
         /\ \A op \in {"div", "rem"} : \A sign : Does(<<op, d, sign, a, b>>, x, y) /\ At(x, b) # 0
                   => Sets(x, y, d, DivRem(op, sign, At(x, a), At(x, b)))
         /\ \A mop : Alone /\ Does(<<"ld", d, a, mop>>, x, y) => Sets(x, y, d, Load(x.mem, At(x, a), mop))
<1>1. Does(<<"mov", d, a>>, x, y) => Sets(x, y, d, At(x, a))
  <2> DEFINE u == <<"mov", d, a>>
  <2>1. SingleOK(u)
    BY OpShapes
  <2>2. u[2] = d /\ Value(u, x) = At(x, a) /\ DivOK(u, x) /\ u[1] # "ld"
    BY DEF Value, DivOK
  <2> HIDE DEF u
  <2>3. Does(u, x, y) => Sets(x, y, d, At(x, a))
    BY <2>1, <2>2, DoesOne
  <2> QED
    BY <2>3 DEF u
<1>2. ASSUME NEW op \in Arith PROVE Does(<<op, d, a, b>>, x, y) => Sets(x, y, d, Alu(op, At(x, a), At(x, b)))
  <2> DEFINE u == <<op, d, a, b>>
  <2>1. SingleOK(u)
    BY OpShapes
  <2>2. u[2] = d /\ Value(u, x) = Alu(op, At(x, a), At(x, b)) /\ DivOK(u, x) /\ u[1] # "ld"
    BY DEF Value, DivOK, Arith
  <2> HIDE DEF u
  <2>3. Does(u, x, y) => Sets(x, y, d, Alu(op, At(x, a), At(x, b)))
    BY <2>1, <2>2, DoesOne
  <2> QED
    BY <2>3 DEF u
<1>3. ASSUME NEW c PROVE Does(<<"setcond", d, c, a, b>>, x, y)
                   => Sets(x, y, d, IF Holds(c, At(x, a), At(x, b)) THEN 1 ELSE 0)
  <2> DEFINE u == <<"setcond", d, c, a, b>>
             v == IF Holds(c, At(x, a), At(x, b)) THEN 1 ELSE 0
  <2>1. SingleOK(u)
    BY OpShapes
  <2>2. u[2] = d /\ Value(u, x) = v /\ DivOK(u, x) /\ u[1] # "ld"
    BY DEF Value, DivOK
  <2> HIDE DEF u, v
  <2>3. Does(u, x, y) => Sets(x, y, d, v)
    BY <2>1, <2>2, DoesOne
  <2> QED
    BY <2>3 DEF u, v
<1>4. ASSUME NEW c, NEW e, NEW f, Source(e), Source(f)
      PROVE  Does(<<"movcond", d, c, a, b, e, f>>, x, y)
               => Sets(x, y, d, IF Holds(c, At(x, a), At(x, b)) THEN At(x, e) ELSE At(x, f))
  <2> DEFINE u == <<"movcond", d, c, a, b, e, f>>
             v == IF Holds(c, At(x, a), At(x, b)) THEN At(x, e) ELSE At(x, f)
  <2>1. SingleOK(u)
    BY <1>4, OpShapes
  <2>2. u[2] = d /\ Value(u, x) = v /\ DivOK(u, x) /\ u[1] # "ld"
    BY DEF Value, DivOK
  <2> HIDE DEF u, v
  <2>3. Does(u, x, y) => Sets(x, y, d, v)
    BY <2>1, <2>2, DoesOne
  <2> QED
    BY <2>3 DEF u, v
<1>5. ASSUME NEW op \in {"div", "rem"}, NEW sign, At(x, b) # 0
      PROVE  Does(<<op, d, sign, a, b>>, x, y) => Sets(x, y, d, DivRem(op, sign, At(x, a), At(x, b)))
  <2> DEFINE u == <<op, d, sign, a, b>>
             v == DivRem(op, sign, At(x, a), At(x, b))
  <2>1. SingleOK(u)
    BY OpShapes
  <2>2. u[2] = d /\ Value(u, x) = v /\ DivOK(u, x) /\ u[1] # "ld"
    BY <1>5 DEF Value, DivOK
  <2> HIDE DEF u, v
  <2>3. Does(u, x, y) => Sets(x, y, d, v)
    BY <2>1, <2>2, DoesOne
  <2> QED
    BY <2>3 DEF u, v
<1>6. ASSUME NEW mop, Alone
      PROVE  Does(<<"ld", d, a, mop>>, x, y) => Sets(x, y, d, Load(x.mem, At(x, a), mop))
  <2> DEFINE u == <<"ld", d, a, mop>>
             v == Load(x.mem, At(x, a), mop)
  <2>1. SingleOK(u)
    BY OpShapes
  <2>2. u[2] = d /\ Value(u, x) = v /\ DivOK(u, x)
    BY DEF Value, DivOK
  <2> HIDE DEF u, v
  <2>3. Does(u, x, y) => Sets(x, y, d, v)
    BY <1>6, <2>1, <2>2, DoesOne
  <2> QED
    BY <2>3 DEF u, v
<1> QED
  BY <1>1, <1>2, <1>3, <1>4, <1>5, <1>6

(* A wide operation.                                                       *)
LEMMA DoesWide ==
  ASSUME NEW x \in State, NEW y, NEW u, DoubleOK(u), Does(u, x, y)
  PROVE  /\ Wide(u, x) % M \in Octa /\ Wide(u, x) \div M \in Octa
         /\ \E z \in State : /\ Sets(x, z, u[2], Wide(u, x) % M)
                             /\ Sets(z, y, u[4], Wide(u, x) \div M)
<1>1. PICK m \in [Octa -> Byte], f \in Octa, fp \in Octa, fl \in 0 .. SoftFlags :
        /\ Alone => m = x.mem /\ f = x.rf0_fcsr
        /\ y = Apply(u, Seen(x, m, f), fp, fl)
  BY DEF Does
<1> DEFINE s == Seen(x, m, f)
           z == Put(s, u[2], Wide(u, s) % M)
<1>2. \A p : Source(p) => At(s, p) = At(x, p)
  BY SeenAt
<1>3. s \in State
  BY SeenState
<1>6. Alone => s = x
  BY <1>1, SeenState
<1>7. (\A g, n : Reg(g, n) => s[g][n] = x[g][n]) /\ s.flags = x.flags /\ s.excp = x.excp
  BY SeenState
<1>8. y = Apply(u, s, fp, fl)
  BY <1>1
<1> HIDE DEF s
<1>4. Wide(u, s) = Wide(u, x)
  BY <1>2 DEF Wide, DoubleOK
<1>5. Wide(u, s) % M \in Octa /\ Wide(u, s) \div M \in Octa
      /\ Sets(s, z, u[2], Wide(u, s) % M) /\ Sets(z, y, u[4], Wide(u, s) \div M)
  BY <1>3, <1>8, DoubleSets, Zenon
<1> HIDE DEF z
<1>9. Sets(x, z, u[2], Wide(u, s) % M) /\ z \in State
  BY <1>5, <1>6, <1>7 DEF Sets
<1> QED
  BY <1>4, <1>5, <1>9

(* y is x but for the floating-point status. *)
SameRegs(x, y) == \A f, n : Reg(f, n) => y[f][n] = x[f][n]
Keeps(x, y) ==
  /\ y \in State /\ SameRegs(x, y) /\ y.flags = x.flags
  /\ Alone => y.mem = x.mem /\ y.rf0_fcsr = x.rf0_fcsr

(* Operations that only test.                                              *)
LEMMA DoesTest ==
  ASSUME NEW x \in State, NEW y
  PROVE  /\ Does(NoOp, x, y) => Keeps(x, y)
         /\ \A e \in Excp \ {"none"} : ~Does(<<"excp", e>>, x, y)
         /\ \A e \in Excp \ {"none"} : \A a : Source(a) /\ Does(<<"excpz", e, a>>, x, y)
               => Keeps(x, y) /\ At(x, a) # 0
<1>1. ASSUME Does(NoOp, x, y) PROVE Keeps(x, y)
  <2>1. PICK m \in [Octa -> Byte], f \in Octa, fp \in Octa, fl \in 0 .. SoftFlags :
        /\ Alone => m = x.mem /\ f = x.rf0_fcsr
        /\ y = Apply(NoOp, Seen(x, m, f), fp, fl)
    BY <1>1 DEF Does
  <2>2. y = Seen(x, m, f)
    BY <2>1 DEF Apply, NoOp
  <2> QED
    BY <2>1, <2>2, SeenState DEF Keeps, SameRegs
<1>2. ASSUME NEW e \in Excp \ {"none"}, Does(<<"excp", e>>, x, y) PROVE FALSE
  <2>1. PICK m \in [Octa -> Byte], f \in Octa, fp \in Octa, fl \in 0 .. SoftFlags :
        y = Apply(<<"excp", e>>, Seen(x, m, f), fp, fl) /\ y.excp = "none"
    BY <1>2 DEF Does
  <2> DEFINE s == Seen(x, m, f)
  <2>2. s \in State
    BY SeenState
  <2>3. y = [s EXCEPT !.excp = e]
    BY <2>1 DEF Apply
  <2> HIDE DEF s
  <2> QED
    BY <2>1, <2>2, <2>3 DEF State
<1>3. ASSUME NEW e \in Excp \ {"none"}, NEW a, Source(a), Does(<<"excpz", e, a>>, x, y)
      PROVE  Keeps(x, y) /\ At(x, a) # 0
  <2>1. PICK m \in [Octa -> Byte], f \in Octa, fp \in Octa, fl \in 0 .. SoftFlags :
        /\ Alone => m = x.mem /\ f = x.rf0_fcsr
        /\ y = Apply(<<"excpz", e, a>>, Seen(x, m, f), fp, fl) /\ y.excp = "none"
    BY <1>3 DEF Does
  <2> DEFINE s == Seen(x, m, f)
  <2>2. s \in State /\ At(s, a) = At(x, a)
    BY <1>3, SeenState, SeenAt
  <2>3. y = IF At(s, a) = 0 THEN [s EXCEPT !.excp = e] ELSE s
    BY <2>1 DEF Apply
  <2>4. At(x, a) # 0
    <3> HIDE DEF s
    <3> QED
      BY <2>1, <2>2, <2>3 DEF State
  <2> QED
    <3>1. y = s
      BY <2>2, <2>3, <2>4
    <3>2. Keeps(x, s)
      BY <2>1, SeenState DEF Keeps, SameRegs
    <3> QED
      BY <2>4, <3>1, <3>2
<1> QED
  BY <1>1, <1>2, <1>3

(* A store changes the memory.                                             *)
LEMMA DoesStore ==
  ASSUME NEW x \in State, NEW y, NEW a, Source(a), NEW b, Source(b), NEW mop,
         Does(<<"st", a, b, mop>>, x, y)
  PROVE  /\ y \in State /\ SameRegs(x, y) /\ y.flags = x.flags
         /\ Alone => y.mem = Stored(x.mem, At(x, a), At(x, b), mop) /\ y.rf0_fcsr = x.rf0_fcsr
<1>1. PICK m \in [Octa -> Byte], f \in Octa, fp \in Octa, fl \in 0 .. SoftFlags :
        /\ Alone => m = x.mem /\ f = x.rf0_fcsr
        /\ y = Apply(<<"st", a, b, mop>>, Seen(x, m, f), fp, fl)
  BY DEF Does
<1> DEFINE s == Seen(x, m, f)
           w == Stored(m, At(x, a), At(x, b), mop)
<1>2. At(s, a) = At(x, a) /\ At(s, b) = At(x, b)
  BY SeenAt
<1>3. s \in State /\ s.mem = m /\ s.rf0_fcsr = f /\ SameRegs(x, s) /\ s.flags = x.flags
  BY SeenState DEF SameRegs
<1>4. y = [s EXCEPT !.mem = w]
  BY <1>1, <1>2, <1>3 DEF Apply
<1>5. w \in [Octa -> Byte]
  <2>1. At(x, a) \in Int /\ At(x, b) \in Int
    BY AtType, OctaInt
  <2> QED
    BY <2>1, StoredType
<1>6. Alone => w = Stored(x.mem, At(x, a), At(x, b), mop)
  BY <1>1
<1> HIDE DEF s, w
<1>7. y \in State /\ y.mem = w /\ y.rf0_fcsr = f /\ y.flags = x.flags
  BY <1>3, <1>4, <1>5 DEF State
<1>8. SameRegs(x, y)
  BY <1>3, <1>4, <1>5 DEF State, SameRegs, Reg, Files
<1> QED
  BY <1>1, <1>6, <1>7, <1>8

(* The helpers of floating point.                                          *)
LEMMA DoesFloat ==
  ASSUME NEW x \in State, NEW y
  PROVE  /\ Does(<<"head">>, x, y) =>
              /\ y \in State /\ SameRegs(x, y) /\ y.rf0_fcsr = x.rf[0] /\ y.flags = x.rf[0] & FFlags
              /\ Alone => y.mem = x.mem
         /\ \A srcs : Does(<<"fp", T(3), srcs>>, x, y) =>
              /\ y \in State /\ y.t[3] \in FpResults
              /\ \A f, n : Reg(f, n) /\ ~(f = "t" /\ n = 3) => y[f][n] = x[f][n]
              /\ \E fl \in 0 .. SoftFlags : y.flags = x.flags | fl
              /\ Alone => y.mem = x.mem /\ y.rf0_fcsr = x.rf0_fcsr
         /\ Does(<<"tail">>, x, y) =>
              /\ y \in State
              /\ \A f, n : Reg(f, n) /\ ~(f = "rf" /\ n = 0) => y[f][n] = x[f][n]
              /\ Alone => y.mem = x.mem /\ y.rf[0] = x.rf0_fcsr | (x.flags & FFlags)
<1>1. ASSUME Does(<<"head">>, x, y)
      PROVE  /\ y \in State /\ SameRegs(x, y) /\ y.rf0_fcsr = x.rf[0] /\ y.flags = x.rf[0] & FFlags
             /\ Alone => y.mem = x.mem
  <2>1. PICK m \in [Octa -> Byte], f \in Octa, fp \in Octa, fl \in 0 .. SoftFlags :
        /\ Alone => m = x.mem /\ f = x.rf0_fcsr
        /\ y = Apply(<<"head">>, Seen(x, m, f), fp, fl)
    BY <1>1 DEF Does
  <2> DEFINE s == Seen(x, m, f)
  <2>2. s \in State /\ s.mem = m /\ SameRegs(x, s)
    BY SeenState DEF SameRegs
  <2>3. 0 \in 0 .. NReg - 1 /\ Reg("rf", 0)
    BY Operands DEF Reg, Files
  <2>4. s.rf[0] = x.rf[0]
    BY <2>2, <2>3 DEF SameRegs
  <2>5. y = [s EXCEPT !.rf0_fcsr = s.rf[0], !.flags = s.rf[0] & FFlags]
    BY <2>1 DEF Apply, dadao_fpu_head
  <2>6. s.rf[0] \in Octa /\ s.rf[0] & FFlags \in 0 .. SoftFlags
    BY <2>2, <2>3, FlagBounds DEF State, RegFile
  <2> HIDE DEF s
  <2>7. y \in State /\ y.mem = m /\ y.rf0_fcsr = s.rf[0] /\ y.flags = s.rf[0] & FFlags
    BY <2>2, <2>5, <2>6 DEF State
  <2>8. SameRegs(x, y)
    BY <2>2, <2>5, <2>6 DEF State, SameRegs, Reg, Files
  <2> QED
    BY <2>1, <2>4, <2>7, <2>8
<1>2. ASSUME NEW srcs, Does(<<"fp", T(3), srcs>>, x, y)
      PROVE  /\ y \in State /\ y.t[3] \in FpResults
             /\ \A f, n : Reg(f, n) /\ ~(f = "t" /\ n = 3) => y[f][n] = x[f][n]
             /\ \E fl \in 0 .. SoftFlags : y.flags = x.flags | fl
             /\ Alone => y.mem = x.mem /\ y.rf0_fcsr = x.rf0_fcsr
  <2>1. PICK m \in [Octa -> Byte], f \in Octa, fp \in Octa, fl \in 0 .. SoftFlags :
        /\ fp \in FpResults
        /\ Alone => m = x.mem /\ f = x.rf0_fcsr
        /\ y = Apply(<<"fp", T(3), srcs>>, Seen(x, m, f), fp, fl)
    BY <1>2 DEF Does
  <2> DEFINE s == Seen(x, m, f)
             z == Put(s, T(3), fp)
  <2>2. s \in State /\ s.mem = m /\ s.rf0_fcsr = f /\ SameRegs(x, s) /\ s.flags = x.flags
    BY SeenState DEF SameRegs
  <2>3. y = [z EXCEPT !.flags = @ | fl]
    BY <2>1 DEF Apply
  <2> HIDE DEF s
  <2>4. Sets(s, z, T(3), fp) /\ z.mem = s.mem /\ z.rf0_fcsr = s.rf0_fcsr
    BY <2>1, <2>2, Operands, PutSets
  <2>5. z \in State /\ z.flags = x.flags
    BY <2>2, <2>4 DEF Sets
  <2>6. \A g, n : Reg(g, n) => z[g][n] = IF g = "t" /\ n = 3 THEN fp ELSE s[g][n]
    BY <2>4 DEF Sets, T
  <2> HIDE DEF z
  <2>7. x.flags | fl \in 0 .. SoftFlags
    BY <2>5, FlagBounds DEF State
  <2>8. y \in State /\ y.flags = x.flags | fl /\ y.mem = z.mem /\ y.rf0_fcsr = z.rf0_fcsr
    BY <2>3, <2>5, <2>7 DEF State
  <2>9. SameRegs(z, y)
    BY <2>3, <2>5, <2>7 DEF State, SameRegs, Reg, Files
  <2>10. Reg("t", 3)
    BY DEF Reg
  <2>11. y.t[3] = fp
    BY <2>6, <2>9, <2>10 DEF SameRegs
  <2>12. \A g, n : Reg(g, n) /\ ~(g = "t" /\ n = 3) => y[g][n] = x[g][n]
    BY <2>2, <2>6, <2>9 DEF SameRegs
  <2> QED
    BY <2>1, <2>2, <2>4, <2>8, <2>11, <2>12
<1>3. ASSUME Does(<<"tail">>, x, y)
      PROVE  /\ y \in State
             /\ \A f, n : Reg(f, n) /\ ~(f = "rf" /\ n = 0) => y[f][n] = x[f][n]
             /\ Alone => y.mem = x.mem /\ y.rf[0] = x.rf0_fcsr | (x.flags & FFlags)
  <2>1. PICK m \in [Octa -> Byte], f \in Octa, fp \in Octa, fl \in 0 .. SoftFlags :
        /\ Alone => m = x.mem /\ f = x.rf0_fcsr
        /\ y = Apply(<<"tail">>, Seen(x, m, f), fp, fl)
    BY <1>3 DEF Does
  <2> DEFINE s == Seen(x, m, f)
  <2>2. s \in State /\ s.mem = m /\ s.rf0_fcsr = f /\ SameRegs(x, s) /\ s.flags = x.flags
    BY SeenState DEF SameRegs
  <2>3. 0 \in 0 .. NReg - 1
    BY Operands
  <2>4. f | (x.flags & FFlags) \in Octa
    <3>1. x.flags \in Nat
      BY DEF State
    <3> QED
      BY <3>1, FlagBounds
  <2>5. PICK v \in Octa : v = f | (x.flags & FFlags)
    BY <2>4
  <2>6. y = [s EXCEPT !.rf[0] = v]
    BY <2>1, <2>2, <2>5 DEF Apply, dadao_fpu_tail
  <2> HIDE DEF s
  <2>7. y \in State /\ y.mem = m /\ y.rf[0] = v
    BY <2>2, <2>3, <2>6 DEF State, RegFile
  <2>8. \A g, n : Reg(g, n) /\ ~(g = "rf" /\ n = 0) => y[g][n] = s[g][n]
    BY <2>2, <2>3, <2>6 DEF State, Reg, Files, RegFile
  <2> QED
    BY <2>1, <2>2, <2>5, <2>7, <2>8 DEF SameRegs
<1> QED
  BY <1>1, <1>2, <1>3

-----------------------------------------------------------------------------
(* Whole instructions. *)

(* h holds the states between the first k operations of c. *)
Run(c, k, h) == h \in [0 .. k -> State] /\ \A j \in 1 .. k : Does(c[j], h[j - 1], h[j])

SameFiles(x, y) == \A f \in Files, n \in 0 .. NReg - 1 : y[f][n] = x[f][n]

(* The registers that are not the instruction's to keep. *)
Special == {RD(0), RB(0), RF(0)}

(* y is s but for the writes in w. *)
Leaves(w, s, y) ==
  \A f \in Files, n \in 0 .. NReg - 1 : <<f, n>> \notin Special =>
    \/ <<<<f, n>>, y[f][n]>> \in w
    \/ y[f][n] = s[f][n] /\ \A u \in w : u[1] # <<f, n>>

(* h is an execution of instruction i from the registers of s. A store may *)
(* have been there before.                                                 *)
Execution(i, s, h) ==
  /\ i \in Insns /\ Legal(i) /\ s \in State /\ s.rd[0] = 0
  /\ Run(trans(i, s.rb[0]), Len(trans(i, s.rb[0])), h)
  /\ SameFiles(s, h[0])
  /\ Alone => \A b \in Octa : h[0].mem[b] \in {s.mem[b], StoredBy(i, s)[b]}
  /\ Specified(i, s)
  /\ i.form \in {"LD", "LDM"} => Alone

(* What is to be shown of its last state. *)
Ends(i, s, y) ==
  /\ y \in State
  /\ Leaves(Writes(i, s), s, y)
  /\ i.form \in Branches => y.jmp[0] = NextPc(i, s)
  /\ Alone => y.mem = StoredBy(i, s)

Plain(i) == i.form \notin {"ST", "STM"} \cup Branches

(* The last state of h. *)
Final(i, s, h) == h[Len(trans(i, s.rb[0]))]

(* How sources read.                                                       *)
LEMMA Reads ==
  ASSUME NEW x
  PROVE  /\ \A n : At(x, RD(n)) = x.rd[n] /\ At(x, RB(n)) = x.rb[n] /\ At(x, RF(n)) = x.rf[n]
         /\ \A n : At(x, T(n)) = x.t[n]
         /\ \A f \in Files : \A n : At(x, <<f, n>>) = x[f][n]
         /\ \A v : At(x, K(v)) = Cut(v)
         /\ At(x, JMP) = x.jmp[0]
<1>1. \A n : At(x, RD(n)) = x.rd[n] /\ At(x, RB(n)) = x.rb[n] /\ At(x, RF(n)) = x.rf[n] /\ At(x, T(n)) = x.t[n]
  BY DEF At, RD, RB, RF, T
<1>2. \A f \in Files : \A n : At(x, <<f, n>>) = x[f][n]
  BY DEF At, Files
<1>3. \A v : At(x, K(v)) = Cut(v)
  BY DEF At, K
<1>4. At(x, JMP) = x.jmp[0]
  BY DEF At, JMP
<1> QED
  BY <1>1, <1>2, <1>3, <1>4

(* A constant reads as itself.                                             *)
LEMMA ConstAt == ASSUME NEW x, NEW v \in Octa PROVE Source(K(v)) /\ At(x, K(v)) = v
<1>1. v \in Int
  BY OctaInt
<1>2. Cut(v) = v
  BY CutLaws
<1>3. At(x, K(v)) = Cut(v)
  BY Reads, Zenon
<1>4. Source(K(v))
  BY <1>1, Operands, Zenon
<1> QED
  BY <1>2, <1>3, <1>4

(* The first state of an execution.                                        *)
LEMMA Entry ==
  ASSUME NEW i, NEW s, NEW h, Execution(i, s, h)
  PROVE  /\ i \in Insns /\ Legal(i) /\ Encodable(i) /\ s \in State /\ h[0] \in State /\ s.rb[0] \in Octa
         /\ Len(trans(i, s.rb[0])) \in Nat
         /\ \A n \in 0 .. NReg - 1 : /\ h[0].rd[n] = s.rd[n] /\ h[0].rb[n] = s.rb[n] /\ h[0].rf[n] = s.rf[n]
                                     /\ s.rd[n] \in Octa /\ s.rb[n] \in Octa /\ s.rf[n] \in Octa
         /\ \A f \in Files, n \in 0 .. NReg - 1 : h[0][f][n] = s[f][n] /\ s[f][n] \in Octa
         /\ i.form \notin {"ST", "STM"} => StoredBy(i, s) = s.mem
         /\ Alone /\ i.form \notin {"ST", "STM"} => h[0].mem = s.mem
<1>1. i \in Insns /\ Legal(i) /\ s \in State /\ SameFiles(s, h[0])
  BY DEF Execution
<1>2. Encodable(i)
  BY <1>1, InputAssumption
<1>3. s.rb[0] \in Octa
  BY <1>1, Operands DEF State, RegFile
<1>4. Len(trans(i, s.rb[0])) \in Nat
  BY <1>1, <1>3, TransOK DEF CodeOK
<1>5. h[0] \in State
  BY <1>4 DEF Execution, Run
<1>6. \A f \in Files, n \in 0 .. NReg - 1 : h[0][f][n] = s[f][n] /\ s[f][n] \in Octa
  BY <1>1 DEF SameFiles, State, RegFile, Files
<1>7. \A n \in 0 .. NReg - 1 : /\ h[0].rd[n] = s.rd[n] /\ h[0].rb[n] = s.rb[n] /\ h[0].rf[n] = s.rf[n]
                               /\ s.rd[n] \in Octa /\ s.rb[n] \in Octa /\ s.rf[n] \in Octa
  BY <1>6 DEF Files
<1>8. i.form \notin {"ST", "STM"} => StoredBy(i, s) = s.mem
  BY DEF StoredBy
<1>9. ASSUME Alone, i.form \notin {"ST", "STM"} PROVE h[0].mem = s.mem
  <2>1. h[0].mem \in [Octa -> Byte] /\ s.mem \in [Octa -> Byte]
    BY <1>1, <1>5 DEF State
  <2>2. \A b \in Octa : h[0].mem[b] = s.mem[b]
    BY <1>8, <1>9 DEF Execution
  <2> QED
    BY <2>1, <2>2
<1> QED
  BY <1>1, <1>2, <1>3, <1>4, <1>5, <1>6, <1>7, <1>8, <1>9

(* Executions of short code.                                               *)
LEMMA Short ==
  ASSUME NEW i, NEW s, NEW h, Execution(i, s, h)
  PROVE  LET c == trans(i, s.rb[0])
         IN  /\ c = <<>> => Final(i, s, h) = h[0]
             /\ \A u1 : c = <<u1>> =>
                  Does(u1, h[0], h[1]) /\ h[1] \in State /\ Final(i, s, h) = h[1]
             /\ \A u1, u2 : c = <<u1, u2>> =>
                  /\ Does(u1, h[0], h[1]) /\ Does(u2, h[1], h[2])
                  /\ h[1] \in State /\ h[2] \in State /\ Final(i, s, h) = h[2]
             /\ \A u1, u2, u3 : c = <<u1, u2, u3>> =>
                  /\ Does(u1, h[0], h[1]) /\ Does(u2, h[1], h[2]) /\ Does(u3, h[2], h[3])
                  /\ h[1] \in State /\ h[2] \in State /\ h[3] \in State /\ Final(i, s, h) = h[3]
             /\ \A u1, u2, u3, u4 : c = <<u1, u2, u3, u4>> =>
                  /\ Does(u1, h[0], h[1]) /\ Does(u2, h[1], h[2]) /\ Does(u3, h[2], h[3])
                  /\ Does(u4, h[3], h[4])
                  /\ h[1] \in State /\ h[2] \in State /\ h[3] \in State /\ h[4] \in State
                  /\ Final(i, s, h) = h[4]
             /\ \A u1, u2, u3, u4, u5 : c = <<u1, u2, u3, u4, u5>> =>
                  /\ Does(u1, h[0], h[1]) /\ Does(u2, h[1], h[2]) /\ Does(u3, h[2], h[3])
                  /\ Does(u4, h[3], h[4]) /\ Does(u5, h[4], h[5])
                  /\ h[1] \in State /\ h[2] \in State /\ h[3] \in State /\ h[4] \in State
                  /\ h[5] \in State /\ Final(i, s, h) = h[5]
<1> DEFINE c == trans(i, s.rb[0])
<1>1. Run(c, Len(c), h) /\ Final(i, s, h) = h[Len(c)]
  BY DEF Execution, Final
<1> HIDE DEF c
<1>2. \A n \in Nat : Len(c) = n =>
        /\ \A j \in 0 .. n : h[j] \in State
        /\ \A j \in 1 .. n : Does(c[j], h[j - 1], h[j])
  BY <1>1 DEF Run
<1>3. c = <<>> => Final(i, s, h) = h[0]
  BY <1>1
<1>4. ASSUME NEW u1, c = <<u1>>
      PROVE  Does(u1, h[0], h[1]) /\ h[1] \in State /\ Final(i, s, h) = h[1]
  <2>1. Len(c) = 1 /\ c[1] = u1
    BY <1>4
  <2> QED
    BY <1>1, <1>2, <2>1
<1>5. ASSUME NEW u1, NEW u2, c = <<u1, u2>>
      PROVE  /\ Does(u1, h[0], h[1]) /\ Does(u2, h[1], h[2])
             /\ h[1] \in State /\ h[2] \in State /\ Final(i, s, h) = h[2]
  <2>1. Len(c) = 2 /\ c[1] = u1 /\ c[2] = u2
    BY <1>5
  <2> QED
    BY <1>1, <1>2, <2>1
<1>6. ASSUME NEW u1, NEW u2, NEW u3, c = <<u1, u2, u3>>
      PROVE  /\ Does(u1, h[0], h[1]) /\ Does(u2, h[1], h[2]) /\ Does(u3, h[2], h[3])
             /\ h[1] \in State /\ h[2] \in State /\ h[3] \in State /\ Final(i, s, h) = h[3]
  <2>1. Len(c) = 3 /\ c[1] = u1 /\ c[2] = u2 /\ c[3] = u3
    BY <1>6
  <2> QED
    BY <1>1, <1>2, <2>1
<1>7. ASSUME NEW u1, NEW u2, NEW u3, NEW u4, c = <<u1, u2, u3, u4>>
      PROVE  /\ Does(u1, h[0], h[1]) /\ Does(u2, h[1], h[2]) /\ Does(u3, h[2], h[3])
             /\ Does(u4, h[3], h[4])
             /\ h[1] \in State /\ h[2] \in State /\ h[3] \in State /\ h[4] \in State
             /\ Final(i, s, h) = h[4]
  <2>1. Len(c) = 4 /\ c[1] = u1 /\ c[2] = u2 /\ c[3] = u3 /\ c[4] = u4
    BY <1>7
  <2> QED
    BY <1>1, <1>2, <2>1
<1>8. ASSUME NEW u1, NEW u2, NEW u3, NEW u4, NEW u5, c = <<u1, u2, u3, u4, u5>>
      PROVE  /\ Does(u1, h[0], h[1]) /\ Does(u2, h[1], h[2]) /\ Does(u3, h[2], h[3])
             /\ Does(u4, h[3], h[4]) /\ Does(u5, h[4], h[5])
             /\ h[1] \in State /\ h[2] \in State /\ h[3] \in State /\ h[4] \in State
             /\ h[5] \in State /\ Final(i, s, h) = h[5]
  <2>1. Len(c) = 5 /\ c[1] = u1 /\ c[2] = u2 /\ c[3] = u3 /\ c[4] = u4 /\ c[5] = u5
    BY <1>8
  <2> QED
    BY <1>1, <1>2, <2>1
<1> QED
  BY <1>3, <1>4, <1>5, <1>6, <1>7, <1>8 DEF c

(* The steps of an execution whose code has n operations.                  *)
LEMMA ShortAt ==
  ASSUME NEW i, NEW s, NEW h, Execution(i, s, h), NEW n \in Nat, Len(trans(i, s.rb[0])) = n
  PROVE  /\ \A j \in 0 .. n : h[j] \in State
         /\ \A j \in 1 .. n : Does(trans(i, s.rb[0])[j], h[j - 1], h[j])
         /\ Final(i, s, h) = h[n]
BY DEF Execution, Final, Run

(* An instruction with one result.                                         *)
LEMMA EndsOne ==
  ASSUME NEW i, NEW s, NEW h, Execution(i, s, h), Plain(i), NEW y \in State,
         NEW p, p[1] \in Files, p[2] \in 0 .. NReg - 1, p = <<p[1], p[2]>>, NEW v,
         \A f \in Files, n \in 0 .. NReg - 1 : y[f][n] = IF f = p[1] /\ n = p[2] THEN v ELSE s[f][n],
         Alone => y.mem = h[0].mem,
         NEW w, w = Writes(i, s), <<p, v>> \in w,
         \A u \in w : u[1] = p \/ u[1] \in Special
  PROVE  Ends(i, s, y)
<1>1. Alone => y.mem = StoredBy(i, s)
  BY Entry DEF Plain
<1>2. Leaves(w, s, y)
  BY DEF Leaves
<1> QED
  BY <1>1, <1>2 DEF Ends, Plain

(* One without.                                                            *)
LEMMA EndsNone ==
  ASSUME NEW i, NEW s, NEW h, Execution(i, s, h), Plain(i), trans(i, s.rb[0]) = <<>>,
         NEW w, w = Writes(i, s), \A u \in w : u[1] \in Special
  PROVE  Ends(i, s, Final(i, s, h))
<1>1. Final(i, s, h) = h[0]
  BY Short
<1>2. Alone => h[0].mem = StoredBy(i, s)
  BY Entry DEF Plain
<1>3. Leaves(w, s, h[0])
  BY Entry DEF Leaves
<1> QED
  BY <1>1, <1>2, <1>3, Entry DEF Ends, Plain

(* An execution that sets the one register it is to write ends as it       *)
(* should.                                                                 *)
LEMMA EndsSets ==
  ASSUME NEW i, NEW s, NEW h, Execution(i, s, h), Plain(i), NEW y,
         NEW f \in Files, NEW n \in 0 .. NReg - 1, NEW v, Sets(h[0], y, <<f, n>>, v),
         NEW w, w = Writes(i, s), <<<<f, n>>, v>> \in w,
         \A u \in w : u[1] = <<f, n>> \/ u[1] \in Special
  PROVE  Ends(i, s, y)
<1> DEFINE p == <<f, n>>
<1>1. p[1] = f /\ p[2] = n /\ p = <<p[1], p[2]>>
  OBVIOUS
<1>2. \A g \in Files, k \in 0 .. NReg - 1 : Reg(g, k) /\ h[0][g][k] = s[g][k]
  BY Entry DEF Reg
<1>3. \A g \in Files, k \in 0 .. NReg - 1 : y[g][k] = IF g = p[1] /\ k = p[2] THEN v ELSE s[g][k]
  BY <1>2 DEF Sets
<1>4. y \in State /\ (Alone => y.mem = h[0].mem)
  BY DEF Sets
<1> HIDE DEF p
<1>5. p[1] \in Files /\ p[2] \in 0 .. NReg - 1 /\ <<p, v>> \in w /\ \A u \in w : u[1] = p \/ u[1] \in Special
  BY <1>1 DEF p
<1> QED
  BY <1>1, <1>3, <1>4, <1>5, EndsOne

(* Conditional assignment.                                                 *)
LEMMA DoneCset ==
  ASSUME NEW i, NEW s, NEW h, Execution(i, s, h), i.form \in {"CSET1", "CSET2", "FCSET"}
  PROVE  Ends(i, s, Final(i, s, h))
<1> DEFINE w == Writes(i, s)
           x == h[0]
           y == h[1]
<1>1. Plain(i)
  BY DEF Plain, Branches
<1>2. Encodable(i) /\ i \in Insns /\ x \in State /\ s.rd[0] = 0
  BY Entry DEF Execution
<1>3. 0 \in 0 .. NReg - 1
  BY Operands
<1>4. CASE i.form = "CSET1"
  <2> DEFINE v == IF Holds(i.cond, s.rd[i.ha], 0) THEN s[i.file][i.hc] ELSE s[i.file][i.hd]
  <2>1. trans(i, s.rb[0]) = CSET1(i)
    BY <1>4 DEF trans
  <2>2. w = {<<<<i.file, i.hb>>, v>>}
    BY <1>4 DEF Writes
  <2>3. i.file \in {"rd", "rf"}
    BY <1>2, <1>4 DEF Encodable
  <2>4. CASE i.hb = 0 /\ i.file # "rf"
    <3>1. trans(i, s.rb[0]) = <<>>
      BY <2>1, <2>4 DEF CSET1, When
    <3>2. <<i.file, i.hb>> \in Special
      BY <2>3, <2>4 DEF Special, RD
    <3> HIDE DEF v, w
    <3>3. \A u \in w : u[1] \in Special
      BY <2>2, <3>2
    <3> QED
      BY <1>1, <3>1, <3>3, EndsNone DEF w
  <2>5. CASE i.hb # 0 \/ i.file = "rf"
    <3>1. trans(i, s.rb[0]) = <<<<"movcond", <<i.file, i.hb>>, i.cond, RD(i.ha), RD(0), <<i.file, i.hc>>, <<i.file, i.hd>>>>>>
      BY <2>1, <2>5 DEF CSET1, When
    <3>2. Does(<<"movcond", <<i.file, i.hb>>, i.cond, RD(i.ha), RD(0), <<i.file, i.hc>>, <<i.file, i.hd>>>>, x, y)
          /\ Final(i, s, h) = y
      <4>1. PICK u : u = <<"movcond", <<i.file, i.hb>>, i.cond, RD(i.ha), RD(0), <<i.file, i.hc>>, <<i.file, i.hd>>>>
        OBVIOUS
      <4>2. trans(i, s.rb[0]) = <<u>>
        BY <3>1, <4>1
      <4>3. Does(u, h[0], h[1]) /\ Final(i, s, h) = h[1]
        BY <4>2, Short
      <4> QED
        BY <4>1, <4>3
    <3>3. i.file \in Files
      BY <2>3 DEF Files
    <3>4. Place(<<i.file, i.hb>>) /\ Source(RD(i.ha)) /\ Source(RD(0)) /\ Source(<<i.file, i.hc>>) /\ Source(<<i.file, i.hd>>)
      BY <1>2, <1>3, <3>3, Fields, Operands
    <3>5. Sets(x, y, <<i.file, i.hb>>, IF Holds(i.cond, At(x, RD(i.ha)), At(x, RD(0)))
                                       THEN At(x, <<i.file, i.hc>>) ELSE At(x, <<i.file, i.hd>>))
      BY <1>2, <3>2, <3>4, DoesShapes, Zenon
    <3>6. /\ At(x, RD(i.ha)) = s.rd[i.ha] /\ At(x, RD(0)) = 0
          /\ At(x, <<i.file, i.hc>>) = s[i.file][i.hc] /\ At(x, <<i.file, i.hd>>) = s[i.file][i.hd]
      <4>1. i.ha \in 0 .. NReg - 1 /\ i.hc \in 0 .. NReg - 1 /\ i.hd \in 0 .. NReg - 1
        BY <1>2, Fields
      <4>2. /\ x.rd[i.ha] = s.rd[i.ha] /\ x.rd[0] = 0
            /\ x[i.file][i.hc] = s[i.file][i.hc] /\ x[i.file][i.hd] = s[i.file][i.hd]
        BY <1>2, <1>3, <3>3, <4>1, Entry
      <4>3. /\ At(x, RD(i.ha)) = x.rd[i.ha] /\ At(x, RD(0)) = x.rd[0]
            /\ At(x, <<i.file, i.hc>>) = x[i.file][i.hc] /\ At(x, <<i.file, i.hd>>) = x[i.file][i.hd]
        BY <3>3, Reads
      <4> QED
        BY <4>2, <4>3
    <3>7. Sets(x, y, <<i.file, i.hb>>, v)
      BY <3>5, <3>6
    <3>8. i.hb \in 0 .. NReg - 1
      BY <1>2, Fields
    <3> HIDE DEF v, w
    <3>9. <<<<i.file, i.hb>>, v>> \in w /\ \A u \in w : u[1] = <<i.file, i.hb>> \/ u[1] \in Special
      BY <2>2
    <3>10. Ends(i, s, y)
      BY <1>1, <3>3, <3>7, <3>8, <3>9, EndsSets, ZenonT(60) DEF w
    <3> QED
      BY <3>2, <3>10
  <2> QED
    BY <2>4, <2>5
<1>5. CASE i.form = "CSET2"
  <2> DEFINE v == IF Holds(i.cond, s.rd[i.ha], s.rd[i.hb]) THEN s.rd[i.hd] ELSE s.rd[i.hc]
  <2>1. trans(i, s.rb[0]) = CSET2(i)
    BY <1>5 DEF trans
  <2>2. w = {<<RD(i.hc), v>>}
    BY <1>5 DEF Writes
  <2>4. CASE i.hc = 0
    <3>1. trans(i, s.rb[0]) = <<>>
      BY <2>1, <2>4 DEF CSET2, When
    <3>2. RD(i.hc) \in Special
      BY <2>4 DEF Special
    <3> HIDE DEF v, w
    <3>3. \A u \in w : u[1] \in Special
      BY <2>2, <3>2
    <3> QED
      BY <1>1, <3>1, <3>3, EndsNone DEF w
  <2>5. CASE i.hc # 0
    <3>1. trans(i, s.rb[0]) = <<<<"movcond", RD(i.hc), i.cond, RD(i.ha), RD(i.hb), RD(i.hd), RD(i.hc)>>>>
      BY <2>1, <2>5 DEF CSET2, When
    <3>2. Does(<<"movcond", RD(i.hc), i.cond, RD(i.ha), RD(i.hb), RD(i.hd), RD(i.hc)>>, x, y)
          /\ Final(i, s, h) = y
      BY <3>1, Short
    <3>4. Place(RD(i.hc)) /\ Source(RD(i.ha)) /\ Source(RD(i.hb)) /\ Source(RD(i.hc)) /\ Source(RD(i.hd))
      BY <1>2, Fields, Operands
    <3>5. Sets(x, y, RD(i.hc), IF Holds(i.cond, At(x, RD(i.ha)), At(x, RD(i.hb)))
                               THEN At(x, RD(i.hd)) ELSE At(x, RD(i.hc)))
      BY <1>2, <3>2, <3>4, DoesShapes, Zenon
    <3>6. /\ At(x, RD(i.ha)) = s.rd[i.ha] /\ At(x, RD(i.hb)) = s.rd[i.hb]
          /\ At(x, RD(i.hc)) = s.rd[i.hc] /\ At(x, RD(i.hd)) = s.rd[i.hd]
      BY <1>2, Reads, Fields, Entry, SMTT(60)
    <3>7. Sets(x, y, RD(i.hc), v)
      BY <3>5, <3>6
    <3>8. i.hc \in 0 .. NReg - 1
      BY <1>2, Fields
    <3> HIDE DEF v, w
    <3>9. <<RD(i.hc), v>> \in w /\ \A u \in w : u[1] = RD(i.hc) \/ u[1] \in Special
      BY <2>2
    <3>10. Ends(i, s, y)
      BY <1>1, <3>7, <3>8, <3>9, EndsSets DEF w, RD, Files
    <3> QED
      BY <3>2, <3>10
  <2> QED
    BY <2>4, <2>5
<1>6. CASE i.form = "FCSET"
  <2> DEFINE v == IF Holds(i.cond, s.rd[i.hb], 1) THEN s.rf[i.hd] ELSE s.rf[i.hc]
  <2>1. trans(i, s.rb[0]) = FCSET(i)
    BY <1>6 DEF trans
  <2>2. w = {<<RF(i.hc), v>>}
    BY <1>6 DEF Writes
  <2>3. Does(<<"movcond", RF(i.hc), i.cond, RD(i.hb), K(1), RF(i.hd), RF(i.hc)>>, x, y)
        /\ Final(i, s, h) = y
    BY <2>1, Short DEF FCSET
  <2>4. Place(RF(i.hc)) /\ Source(RD(i.hb)) /\ Source(K(1)) /\ Source(RF(i.hc)) /\ Source(RF(i.hd))
    BY <1>2, Fields, Operands
  <2>5. Sets(x, y, RF(i.hc), IF Holds(i.cond, At(x, RD(i.hb)), At(x, K(1)))
                             THEN At(x, RF(i.hd)) ELSE At(x, RF(i.hc)))
    BY <1>2, <2>3, <2>4, DoesShapes, Zenon
  <2>6. /\ At(x, RD(i.hb)) = s.rd[i.hb] /\ At(x, K(1)) = 1
        /\ At(x, RF(i.hc)) = s.rf[i.hc] /\ At(x, RF(i.hd)) = s.rf[i.hd]
    <3>1. Cut(1) = 1
      BY SmallOcta, CutLaws
    <3> QED
      BY <1>2, <3>1, Reads, Fields, Entry, SMTT(60)
  <2>7. Sets(x, y, RF(i.hc), v)
    BY <2>5, <2>6
  <2>8. i.hc \in 0 .. NReg - 1
    BY <1>2, Fields
  <2> HIDE DEF v, w
  <2>9. <<RF(i.hc), v>> \in w /\ \A u \in w : u[1] = RF(i.hc) \/ u[1] \in Special
    BY <2>2
  <2>10. Ends(i, s, y)
    BY <1>1, <2>7, <2>8, <2>9, EndsSets DEF w, RF, Files
  <2> QED
    BY <2>3, <2>10
<1> QED
  BY <1>4, <1>5, <1>6

(* Instructions that are one operation, or none where that would write a   *)
(* register of the fixed ones.                                             *)
LEMMA EndsGuarded ==
  ASSUME NEW i, NEW s, NEW h, Execution(i, s, h), Plain(i),
         NEW f \in Files, NEW n \in 0 .. NReg - 1, NEW g \in BOOLEAN, ~g => <<f, n>> \in Special,
         NEW u, trans(i, s.rb[0]) = When(g, <<u>>), NEW v,
         Does(u, h[0], h[1]) => Sets(h[0], h[1], <<f, n>>, v),
         Writes(i, s) = {<<<<f, n>>, v>>}
  PROVE  Ends(i, s, Final(i, s, h))
<1> DEFINE w == Writes(i, s)
<1>1. <<<<f, n>>, v>> \in w /\ \A z \in w : z[1] = <<f, n>>
  OBVIOUS
<1> HIDE DEF w
<1>2. CASE g
  <2>1. trans(i, s.rb[0]) = <<u>>
    BY <1>2 DEF When
  <2>2. Does(u, h[0], h[1]) /\ Final(i, s, h) = h[1]
    BY <2>1, Short
  <2>3. Sets(h[0], h[1], <<f, n>>, v)
    BY <2>2
  <2>4. Ends(i, s, h[1])
    BY <1>1, <2>3, EndsSets DEF w
  <2> QED
    BY <2>2, <2>4
<1>3. CASE ~g
  <2>1. trans(i, s.rb[0]) = <<>>
    BY <1>3 DEF When
  <2> QED
    BY <1>1, <1>3, <2>1, EndsNone DEF w
<1> QED
  BY <1>2, <1>3

(* An instruction that is one mov.                                         *)
LEMMA EndsMov ==
  ASSUME NEW i, NEW s, NEW h, Execution(i, s, h), Plain(i),
         NEW f \in Files, NEW n \in 0 .. NReg - 1, NEW g \in BOOLEAN, ~g => <<f, n>> \in Special,
         NEW a, Source(a), trans(i, s.rb[0]) = When(g, <<<<"mov", <<f, n>>, a>>>>),
         Writes(i, s) = {<<<<f, n>>, At(h[0], a)>>}
  PROVE  Ends(i, s, Final(i, s, h))
<1>1. Place(<<f, n>>) /\ h[0] \in State
  BY Operands, Entry
<1>2. Does(<<"mov", <<f, n>>, a>>, h[0], h[1]) => Sets(h[0], h[1], <<f, n>>, At(h[0], a))
  BY <1>1, DoesShapes
<1> DEFINE u == <<"mov", <<f, n>>, a>>
           v == At(h[0], a)
<1>3. trans(i, s.rb[0]) = When(g, <<u>>) /\ (Does(u, h[0], h[1]) => Sets(h[0], h[1], <<f, n>>, v))
      /\ Writes(i, s) = {<<<<f, n>>, v>>}
  BY <1>2
<1> HIDE DEF u, v
<1> QED
  BY <1>3, EndsGuarded

(* An instruction that is one arithmetic operation.                        *)
LEMMA EndsArith ==
  ASSUME NEW i, NEW s, NEW h, Execution(i, s, h), Plain(i),
         NEW f \in Files, NEW n \in 0 .. NReg - 1, NEW g \in BOOLEAN, ~g => <<f, n>> \in Special,
         NEW op \in Arith, NEW a, Source(a), NEW b, Source(b),
         trans(i, s.rb[0]) = When(g, <<<<op, <<f, n>>, a, b>>>>),
         Writes(i, s) = {<<<<f, n>>, Alu(op, At(h[0], a), At(h[0], b))>>}
  PROVE  Ends(i, s, Final(i, s, h))
<1>1. Place(<<f, n>>) /\ h[0] \in State
  BY Operands, Entry
<1>2. Does(<<op, <<f, n>>, a, b>>, h[0], h[1])
      => Sets(h[0], h[1], <<f, n>>, Alu(op, At(h[0], a), At(h[0], b)))
  BY <1>1, DoesShapes
<1> DEFINE u == <<op, <<f, n>>, a, b>>
           v == Alu(op, At(h[0], a), At(h[0], b))
<1>3. trans(i, s.rb[0]) = When(g, <<u>>) /\ (Does(u, h[0], h[1]) => Sets(h[0], h[1], <<f, n>>, v))
      /\ Writes(i, s) = {<<<<f, n>>, v>>}
  BY <1>2
<1> HIDE DEF u, v
<1> QED
  BY <1>3, EndsGuarded

(* Assignment of wydes.                                                    *)
LEMMA DoneWyde ==
  ASSUME NEW i, NEW s, NEW h, Execution(i, s, h), i.form \in {"SETOW", "SETZW", "ORW", "ANDNW"}
  PROVE  Ends(i, s, Final(i, s, h))
<1> DEFINE x == h[0]
<1>1. Plain(i)
  BY DEF Plain, Branches
<1>2. Encodable(i) /\ i \in Insns
  BY Entry
<1>3. i.ha \in 0 .. NReg - 1 /\ i.ww \in 0..3 /\ i.imm \in 0 .. Ones /\ i.imm \in Int /\ (i.ha # 0) \in BOOLEAN
      /\ (i.form # "SETOW" => i.file \in {"rd", "rb"})
  BY <1>2, Fields DEF Encodable
<1>4. i.form # "SETOW" => i.file \in Files /\ (i.ha = 0 => <<i.file, i.ha>> \in Special)
  BY <1>3 DEF Files, Special, RD, RB
<1>5. i.form # "SETOW" => x[i.file][i.ha] = s[i.file][i.ha] /\ s[i.file][i.ha] \in Octa /\ Source(<<i.file, i.ha>>)
                          /\ At(x, <<i.file, i.ha>>) = x[i.file][i.ha]
  BY <1>3, <1>4, Entry, Operands, Reads
<1>6. AtWyde(i.imm, i.ww) \in Octa /\ AtWyde(i.imm, i.ww) + Inv(AtWyde(Ones, i.ww)) \in Octa
      /\ Wyde(0, i.ww) = 0 /\ Wyde(M - 1, i.ww) = Ones
  BY <1>3, WydeConst
<1>7. CASE i.form = "SETOW"
  <2> DEFINE k == AtWyde(i.imm, i.ww) + Inv(AtWyde(Ones, i.ww))
  <2>1. trans(i, s.rb[0]) = When(i.ha # 0, <<<<"mov", <<"rd", i.ha>>, K(k)>>>>)
    BY <1>7 DEF trans, SETOW, RD
  <2>2. k \in Octa
    BY <1>6
  <2>3. Source(K(k)) /\ At(x, K(k)) = k
    <3> HIDE DEF k
    <3> QED
      BY <2>2, ConstAt
  <2>4. Writes(i, s) = {<<<<"rd", i.ha>>, At(x, K(k))>>}
    <3>1. Writes(i, s) = {<<RD(i.ha), WithWyde(M - 1, i.ww, i.imm)>>}
      BY <1>7 DEF Writes
    <3>2. WithWyde(M - 1, i.ww, i.imm) = k
      <4>1. AtWyde(Ones, i.ww) \in Int /\ AtWyde(i.imm, i.ww) \in Int /\ M \in Int
        <5>1. Ones \in 0 .. Ones
          BY <1>3, WydeSizes
        <5> QED
          BY <1>3, <1>6, <5>1, WydeConst, OctaInt, WordSizes
      <4> QED
        BY <1>6, <4>1 DEF WithWyde, Inv
    <3> HIDE DEF k
    <3> QED
      BY <2>3, <3>1, <3>2 DEF RD
  <2>5. i.ha = 0 => <<"rd", i.ha>> \in Special
    BY DEF Special, RD
  <2>6. "rd" \in Files
    BY DEF Files
  <2> HIDE DEF k
  <2> QED
    BY <1>1, <1>3, <2>1, <2>3, <2>4, <2>5, <2>6, EndsMov
<1>8. CASE i.form = "SETZW"
  <2> DEFINE k == AtWyde(i.imm, i.ww)
  <2>1. trans(i, s.rb[0]) = When(i.ha # 0, <<<<"mov", <<i.file, i.ha>>, K(k)>>>>)
    BY <1>8 DEF trans, SETZW
  <2>3. Source(K(k)) /\ At(x, K(k)) = k
    <3>1. k \in Octa /\ k \in Int
      BY <1>6, OctaInt
    <3> HIDE DEF k
    <3> QED
      BY <3>1, ConstAt
  <2>4. Writes(i, s) = {<<<<i.file, i.ha>>, At(x, K(k))>>}
    <3>1. Writes(i, s) = {<<<<i.file, i.ha>>, WithWyde(0, i.ww, i.imm)>>}
      BY <1>8 DEF Writes
    <3>2. WithWyde(0, i.ww, i.imm) = k
      <4>1. AtWyde(0, i.ww) = 0
        BY <1>3, WydeSizes DEF AtWyde, WydeP
      <4>2. k \in Int
        BY <1>6, OctaInt
      <4> QED
        BY <1>6, <4>1, <4>2 DEF WithWyde
    <3> HIDE DEF k
    <3> QED
      BY <2>3, <3>1, <3>2
  <2> HIDE DEF k
  <2> QED
    BY <1>1, <1>3, <1>4, <1>8, <2>1, <2>3, <2>4, EndsMov
<1>9. CASE i.form = "ORW"
  <2> DEFINE k == AtWyde(i.imm, i.ww)
             v == s[i.file][i.ha]
  <2>1. trans(i, s.rb[0]) = When(i.ha # 0, <<<<"or", <<i.file, i.ha>>, <<i.file, i.ha>>, K(k)>>>>)
    BY <1>9 DEF trans, ORW
  <2>3. Source(K(k)) /\ At(x, K(k)) = k
    <3>1. k \in Octa /\ k \in Int
      BY <1>6, OctaInt
    <3> HIDE DEF k
    <3> QED
      BY <3>1, ConstAt
  <2>4. At(x, <<i.file, i.ha>>) = v /\ v \in Octa
    BY <1>5, <1>9
  <2>5. Writes(i, s) = {<<<<i.file, i.ha>>, Alu("or", At(x, <<i.file, i.ha>>), At(x, K(k)))>>}
    <3>1. Writes(i, s) = {<<<<i.file, i.ha>>, WithWyde(v, i.ww, Wyde(v, i.ww) | i.imm)>>}
      BY <1>9 DEF Writes
    <3>2. WithWyde(v, i.ww, Wyde(v, i.ww) | i.imm) = v | k
      <4> HIDE DEF v
      <4> QED
        BY <1>3, <2>4, OrWyde DEF WithWyde
    <3>3. Alu("or", v, k) = v | k
      BY DEF Alu
    <3> HIDE DEF k, v
    <3> QED
      BY <2>3, <2>4, <3>1, <3>2, <3>3
  <2>6. "or" \in Arith /\ Source(<<i.file, i.ha>>) /\ i.file \in Files /\ (i.ha = 0 => <<i.file, i.ha>> \in Special)
    BY <1>4, <1>5, <1>9 DEF Arith
  <2> HIDE DEF k, v
  <2> QED
    BY <1>1, <1>3, <2>1, <2>3, <2>5, <2>6, EndsArith
<1>10. CASE i.form = "ANDNW"
  <2> DEFINE k == Inv(AtWyde(i.imm, i.ww))
             v == s[i.file][i.ha]
  <2>1. trans(i, s.rb[0]) = When(i.ha # 0, <<<<"and", <<i.file, i.ha>>, <<i.file, i.ha>>, K(k)>>>>)
    BY <1>10 DEF trans, ANDNW
  <2>2. v \in Octa
    BY <1>5, <1>10
  <2>3. Source(K(k)) /\ At(x, K(k)) = k
    <3>1. k \in Octa /\ k \in Int
      BY <1>3, <2>2, AndnWyde, OctaInt
    <3> HIDE DEF k
    <3> QED
      BY <3>1, ConstAt
  <2>4. At(x, <<i.file, i.ha>>) = v
    BY <1>5, <1>10
  <2>5. Writes(i, s) = {<<<<i.file, i.ha>>, Alu("and", At(x, <<i.file, i.ha>>), At(x, K(k)))>>}
    <3>1. Writes(i, s) = {<<<<i.file, i.ha>>, WithWyde(v, i.ww, Wyde(v, i.ww) & (Ones - i.imm))>>}
      BY <1>10 DEF Writes
    <3>2. WithWyde(v, i.ww, Wyde(v, i.ww) & (Ones - i.imm)) = v & k
      <4> HIDE DEF v
      <4> QED
        BY <1>3, <2>2, AndnWyde DEF WithWyde
    <3>3. Alu("and", v, k) = v & k
      BY DEF Alu
    <3> HIDE DEF k, v
    <3> QED
      BY <2>3, <2>4, <3>1, <3>2, <3>3
  <2>6. "and" \in Arith /\ Source(<<i.file, i.ha>>) /\ i.file \in Files /\ (i.ha = 0 => <<i.file, i.ha>> \in Special)
    BY <1>4, <1>5, <1>10 DEF Arith
  <2> HIDE DEF k, v
  <2> QED
    BY <1>1, <1>3, <2>1, <2>3, <2>5, <2>6, EndsArith
<1> QED
  BY <1>7, <1>8, <1>9, <1>10

(* The architecture's shifts are the emulator's as far as TCG says.        *)
LEMMA AluArch ==
  ASSUME NEW op \in Arith, NEW x \in Octa, NEW y \in Octa, op \in {"shl", "shr", "sar"} => y < XLEN
  PROVE  (CASE op = "add" -> Cut(x + y) [] op = "sub" -> Cut(x - y)
            [] op = "shl" -> Cut(x * Pow2[y]) [] op = "shr" -> x \div Pow2[y]
            [] op = "sar" -> Cut(Signed(x) \div Pow2[y]) [] OTHER -> Alu(op, x, y)) = Alu(op, x, y)
<1>1. op \in {"shl", "shr", "sar"} => y % XLEN = y
  <2>1. y \in Nat /\ XLEN \in Nat /\ XLEN >= 8
    BY OctaInt, WordSizes
  <2>2. y < XLEN => y % XLEN = y
    BY <2>1
  <2> QED
    BY <2>2
<1> QED
  BY <1>1 DEF Alu, Arith

(* Sums, logic and shifts.                                                 *)
LEMMA DoneAlu ==
  ASSUME NEW i, NEW s, NEW h, Execution(i, s, h), i.form \in {"ALG1rb", "ADDI", "LOGICr", "LOGICi", "ANDI"}
  PROVE  Ends(i, s, Final(i, s, h))
<1> DEFINE x == h[0]
<1>1. Plain(i)
  BY DEF Plain, Branches
<1>2. Encodable(i) /\ i \in Insns /\ Specified(i, s)
  BY Entry DEF Execution
<1>3. /\ i.ha \in 0 .. NReg - 1 /\ i.hb \in 0 .. NReg - 1 /\ i.hc \in 0 .. NReg - 1 /\ i.hd \in 0 .. NReg - 1
      /\ i.imm \in Int /\ (i.ha # 0) \in BOOLEAN /\ (i.hb # 0) \in BOOLEAN
  BY <1>2, Fields
<1>4. (i.ha = 0 => <<"rd", i.ha>> \in Special /\ <<"rb", i.ha>> \in Special)
      /\ (i.hb = 0 => <<"rd", i.hb>> \in Special /\ <<"rb", i.hb>> \in Special)
  BY DEF Special, RD, RB
<1>5. "rd" \in Files /\ "rb" \in Files
  BY DEF Files
<1>6. /\ Source(RD(i.hb)) /\ Source(RD(i.hc)) /\ Source(RD(i.hd)) /\ Source(RB(i.hc)) /\ Source(K(i.imm))
      /\ At(x, RD(i.hb)) = s.rd[i.hb] /\ At(x, RD(i.hc)) = s.rd[i.hc] /\ At(x, RD(i.hd)) = s.rd[i.hd]
      /\ At(x, RB(i.hc)) = s.rb[i.hc] /\ At(x, K(i.imm)) = Cut(i.imm)
      /\ s.rd[i.hb] \in Octa /\ s.rd[i.hc] \in Octa /\ s.rd[i.hd] \in Octa /\ s.rb[i.hc] \in Octa
  <2>1. Source(RD(i.hb)) /\ Source(RD(i.hc)) /\ Source(RD(i.hd)) /\ Source(RB(i.hc)) /\ Source(K(i.imm))
    BY <1>3, Operands
  <2>2. /\ x.rd[i.hb] = s.rd[i.hb] /\ x.rd[i.hc] = s.rd[i.hc] /\ x.rd[i.hd] = s.rd[i.hd] /\ x.rb[i.hc] = s.rb[i.hc]
        /\ s.rd[i.hb] \in Octa /\ s.rd[i.hc] \in Octa /\ s.rd[i.hd] \in Octa /\ s.rb[i.hc] \in Octa
    BY <1>3, Entry
  <2>3. /\ At(x, RD(i.hb)) = x.rd[i.hb] /\ At(x, RD(i.hc)) = x.rd[i.hc] /\ At(x, RD(i.hd)) = x.rd[i.hd]
        /\ At(x, RB(i.hc)) = x.rb[i.hc] /\ At(x, K(i.imm)) = Cut(i.imm)
    BY Reads, ZenonT(60)
  <2> QED
    BY <2>1, <2>2, <2>3
<1>7. CASE i.form = "ALG1rb"
  <2>1. i.alu \in {"add", "sub"} /\ i.alu \in Arith
    BY <1>2, <1>7 DEF Encodable, Arith
  <2>2. trans(i, s.rb[0]) = When(i.hb # 0, <<<<i.alu, <<"rb", i.hb>>, RB(i.hc), RD(i.hd)>>>>)
    BY <1>7 DEF trans, ALG1rb, RB
  <2>3. Writes(i, s) = {<<<<"rb", i.hb>>, Alu(i.alu, s.rb[i.hc], s.rd[i.hd])>>}
    BY <1>7, <2>1 DEF Writes, Alu, RB
  <2> QED
    BY <1>1, <1>3, <1>4, <1>5, <1>6, <2>1, <2>2, <2>3, EndsArith
<1>8. CASE i.form = "ADDI"
  <2>1. i.file \in {"rd", "rb"} /\ i.file \in Files /\ "add" \in Arith
    BY <1>2, <1>8 DEF Encodable, Arith, Files
  <2>2. trans(i, s.rb[0]) = When(i.ha # 0, <<<<"add", <<i.file, i.ha>>, <<i.file, i.hb>>, K(i.imm)>>>>)
    BY <1>8 DEF trans, ADDI
  <2>3. Source(<<i.file, i.hb>>) /\ At(x, <<i.file, i.hb>>) = s[i.file][i.hb] /\ s[i.file][i.hb] \in Octa
    BY <1>3, <2>1, Entry, Operands, Reads
  <2>4. Cut(s[i.file][i.hb] + Cut(i.imm)) = Cut(s[i.file][i.hb] + i.imm)
    <3>1. s[i.file][i.hb] \in Int
      BY <2>3, OctaInt
    <3> QED
      BY <1>3, <3>1, CutLaws
  <2>5. Writes(i, s) = {<<<<i.file, i.ha>>, Cut(s[i.file][i.hb] + i.imm)>>}
    BY <1>8 DEF Writes
  <2>6. Alu("add", At(x, <<i.file, i.hb>>), At(x, K(i.imm))) = Cut(s[i.file][i.hb] + i.imm)
    BY <1>6, <2>3, <2>4 DEF Alu
  <2>7. i.ha = 0 => <<i.file, i.ha>> \in Special
    BY <1>4, <2>1
  <2> QED
    BY <1>1, <1>3, <1>6, <2>1, <2>2, <2>3, <2>5, <2>6, <2>7, EndsArith, ZenonT(60)
<1>9. CASE i.form = "LOGICr"
  <2>1. i.alu \in Arith
    BY <1>2, <1>9 DEF Encodable, Arith
  <2>2. trans(i, s.rb[0]) = When(i.hb # 0, <<<<i.alu, <<"rd", i.hb>>, RD(i.hc), RD(i.hd)>>>>)
    BY <1>9 DEF trans, LOGICr, RD
  <2>3. i.alu \in {"shl", "shr", "sar"} => s.rd[i.hd] < XLEN
    BY <1>2, <1>9 DEF Specified
  <2> DEFINE v == CASE i.alu = "add" -> Cut(s.rd[i.hc] + s.rd[i.hd]) [] i.alu = "sub" -> Cut(s.rd[i.hc] - s.rd[i.hd])
            [] i.alu = "shl" -> Cut(s.rd[i.hc] * Pow2[s.rd[i.hd]]) [] i.alu = "shr" -> s.rd[i.hc] \div Pow2[s.rd[i.hd]]
            [] i.alu = "sar" -> Cut(Signed(s.rd[i.hc]) \div Pow2[s.rd[i.hd]]) [] OTHER -> Alu(i.alu, s.rd[i.hc], s.rd[i.hd])
  <2>4. v = Alu(i.alu, s.rd[i.hc], s.rd[i.hd])
    BY <1>6, <2>1, <2>3, AluArch
  <2>5. Writes(i, s) = {<<<<"rd", i.hb>>, v>>}
    BY <1>9 DEF Writes, RD
  <2> HIDE DEF v
  <2> QED
    BY <1>1, <1>3, <1>4, <1>5, <1>6, <2>1, <2>2, <2>4, <2>5, EndsArith
<1>10. CASE i.form = "LOGICi"
  <2>1. i.alu \in Arith /\ i.imm \in 0 .. XLEN - 1
    BY <1>2, <1>10 DEF Encodable, Arith
  <2>2. trans(i, s.rb[0]) = When(i.hb # 0, <<<<i.alu, <<"rd", i.hb>>, RD(i.hc), K(i.imm)>>>>)
    BY <1>10 DEF trans, LOGICi, RD
  <2>3. i.imm \in Octa /\ i.imm < XLEN
    BY <2>1, WordSizes DEF Octa
  <2> DEFINE v == CASE i.alu = "add" -> Cut(s.rd[i.hc] + i.imm) [] i.alu = "sub" -> Cut(s.rd[i.hc] - i.imm)
            [] i.alu = "shl" -> Cut(s.rd[i.hc] * Pow2[i.imm]) [] i.alu = "shr" -> s.rd[i.hc] \div Pow2[i.imm]
            [] i.alu = "sar" -> Cut(Signed(s.rd[i.hc]) \div Pow2[i.imm]) [] OTHER -> Alu(i.alu, s.rd[i.hc], i.imm)
  <2>4. v = Alu(i.alu, s.rd[i.hc], i.imm)
    BY <1>6, <2>1, <2>3, AluArch
  <2>5. Writes(i, s) = {<<<<"rd", i.hb>>, v>>}
    BY <1>10 DEF Writes, RD
  <2>6. At(x, K(i.imm)) = i.imm
    BY <2>3, ConstAt
  <2> HIDE DEF v
  <2> QED
    BY <1>1, <1>3, <1>4, <1>5, <1>6, <2>1, <2>2, <2>4, <2>5, <2>6, EndsArith
<1>11. CASE i.form = "ANDI"
  <2>1. i.imm \in Octa /\ "and" \in Arith
    BY <1>2, <1>11 DEF Encodable, Arith
  <2>2. trans(i, s.rb[0]) = When(i.ha # 0, <<<<"and", <<"rd", i.ha>>, RD(i.hb), K(i.imm)>>>>)
    BY <1>11 DEF trans, ANDI, RD
  <2>5. Writes(i, s) = {<<<<"rd", i.ha>>, s.rd[i.hb] & i.imm>>}
    BY <1>11 DEF Writes, RD
  <2>6. At(x, K(i.imm)) = i.imm
    BY <2>1, ConstAt
  <2>7. Alu("and", s.rd[i.hb], i.imm) = s.rd[i.hb] & i.imm
    BY DEF Alu
  <2> QED
    BY <1>1, <1>3, <1>4, <1>5, <1>6, <2>1, <2>2, <2>5, <2>6, <2>7, EndsArith
<1> QED
  BY <1>7, <1>8, <1>9, <1>10, <1>11

(* y is x but for the register n of the file f and for temporaries. *)
Off(x, y, f, n) ==
  /\ y \in State
  /\ \A g \in Files, k \in 0 .. NReg - 1 : ~(g = f /\ k = n) => y[g][k] = x[g][k]
  /\ Alone => y.mem = x.mem

(* Steps that change only that.                                            *)
LEMMA OffSteps ==
  ASSUME NEW x, NEW y, NEW z, NEW f, NEW n
  PROVE  /\ x \in State => Off(x, x, f, n)
         /\ Off(x, y, f, n) /\ Off(y, z, f, n) => Off(x, z, f, n)
         /\ \A v : Sets(x, y, <<f, n>>, v) => Off(x, y, f, n)
         /\ \A k, v : Sets(x, y, T(k), v) => Off(x, y, f, n)
         /\ Keeps(x, y) => Off(x, y, f, n)
<1>1. x \in State => Off(x, x, f, n)
  BY DEF Off
<1>2. Off(x, y, f, n) /\ Off(y, z, f, n) => Off(x, z, f, n)
  BY DEF Off
<1>0. \A g \in Files, k \in 0 .. NReg - 1 : Reg(g, k) /\ g # "t"
  BY DEF Reg, Files
<1>3. \A v : Sets(x, y, <<f, n>>, v) => Off(x, y, f, n)
  BY <1>0 DEF Off, Sets
<1>4. \A k, v : Sets(x, y, T(k), v) => Off(x, y, f, n)
  BY <1>0 DEF Off, Sets, T
<1>5. Keeps(x, y) => Off(x, y, f, n)
  BY <1>0 DEF Off, Keeps, SameRegs
<1> QED
  BY <1>1, <1>2, <1>3, <1>4, <1>5

(* Operations on one register, of which the last one counts.               *)
LEMMA EndsLast ==
  ASSUME NEW i, NEW s, NEW h, Execution(i, s, h), Plain(i), NEW y, NEW z,
         NEW f \in Files, NEW n \in 0 .. NReg - 1, NEW v, Off(h[0], y, f, n), Sets(y, z, <<f, n>>, v),
         Writes(i, s) = {<<<<f, n>>, v>>}
  PROVE  Ends(i, s, z)
<1>1. \A g \in Files, k \in 0 .. NReg - 1 : Reg(g, k) /\ h[0][g][k] = s[g][k]
  BY Entry DEF Reg
<1>2. \A g \in Files, k \in 0 .. NReg - 1 : z[g][k] = IF g = f /\ k = n THEN v ELSE s[g][k]
  BY <1>1 DEF Sets, Off
<1>3. z \in State /\ (Alone => z.mem = StoredBy(i, s))
  BY Entry DEF Sets, Off, Plain
<1>4. Leaves({<<<<f, n>>, v>>}, s, z)
  BY <1>2 DEF Leaves
<1> QED
  BY <1>3, <1>4 DEF Ends, Plain

(* What a place holds after it is set.                                     *)
LEMMA SetsAt ==
  ASSUME NEW x, NEW y, NEW f, NEW n, Reg(f, n), NEW v, Sets(x, y, <<f, n>>, v)
  PROVE  At(y, <<f, n>>) = v /\ y \in State
<1>1. f # "k"
  BY DEF Reg, Files
<1> QED
  BY <1>1 DEF At, Sets

(* A wyde of a floating-point register.                                    *)
LEMMA DoneSetw ==
  ASSUME NEW i, NEW s, NEW h, Execution(i, s, h), i.form = "SETW"
  PROVE  Ends(i, s, Final(i, s, h))
<1> DEFINE a == Inv(AtWyde(Ones, i.ww))
           k == AtWyde(i.imm, i.ww)
           v == s.rf[i.ha]
           p == <<"rf", i.ha>>
<1>1. Plain(i)
  BY DEF Plain, Branches
<1>2. Encodable(i) /\ i \in Insns /\ h[0] \in State
  BY Entry
<1>3. i.ha \in 0 .. NReg - 1 /\ i.ww \in 0..3 /\ i.imm \in 0 .. Ones
  BY <1>2, Fields DEF Encodable
<1>4. v \in Octa /\ At(h[0], p) = v /\ Place(p) /\ Source(p) /\ Reg("rf", i.ha) /\ "rf" \in Files
  BY <1>3, Entry, Operands, Reads DEF RF, Files, Reg
<1>5. a \in Octa /\ k \in Octa
  <2>1. Ones \in 0 .. Ones
    BY <1>3, WydeSizes
  <2> QED
    BY <1>3, <1>4, <2>1, AndnWyde, WydeConst
<1>6. trans(i, s.rb[0]) = <<<<"and", p, p, K(a)>>, <<"or", p, p, K(k)>>>>
  BY DEF trans, SETW, RF
<1>7. Does(<<"and", p, p, K(a)>>, h[0], h[1]) /\ Does(<<"or", p, p, K(k)>>, h[1], h[2])
      /\ Final(i, s, h) = h[2] /\ h[1] \in State
  <2>1. PICK u1, u2 : u1 = <<"and", p, p, K(a)>> /\ u2 = <<"or", p, p, K(k)>>
    OBVIOUS
  <2>2. trans(i, s.rb[0]) = <<u1, u2>>
    BY <1>6, <2>1
  <2>3. Does(u1, h[0], h[1]) /\ Does(u2, h[1], h[2]) /\ Final(i, s, h) = h[2] /\ h[1] \in State
    BY <2>2, Short
  <2> QED
    BY <2>1, <2>3
<1>8. Writes(i, s) = {<<p, (v & a) | k>>}
  <2>1. Writes(i, s) = {<<p, WithWyde(v, i.ww, i.imm)>>}
    BY DEF Writes, RF
  <2>2. WithWyde(v, i.ww, i.imm) = (v & a) | k
    BY <1>3, <1>4, SetWyde DEF WithWyde
  <2> QED
    BY <2>1, <2>2
<1> HIDE DEF a, k, v
<1>9. Source(K(a)) /\ Source(K(k)) /\ \A x : At(x, K(a)) = a /\ At(x, K(k)) = k
  BY <1>5, ConstAt
<1>10. "and" \in Arith /\ "or" \in Arith
  BY DEF Arith
<1>11. Sets(h[0], h[1], p, v & a)
  <2>1. Sets(h[0], h[1], p, Alu("and", At(h[0], p), At(h[0], K(a))))
    BY <1>2, <1>4, <1>7, <1>9, <1>10, DoesShapes, Zenon
  <2> QED
    BY <1>4, <1>9, <2>1 DEF Alu
<1>12. At(h[1], p) = v & a
  BY <1>4, <1>11, SetsAt
<1>13. Sets(h[1], h[2], p, (v & a) | k)
  <2>1. Sets(h[1], h[2], p, Alu("or", At(h[1], p), At(h[1], K(k))))
    BY <1>4, <1>7, <1>9, <1>10, DoesShapes, Zenon
  <2> QED
    BY <1>9, <1>12, <2>1 DEF Alu
<1>14. Off(h[0], h[1], "rf", i.ha)
  BY <1>11, OffSteps
<1>15. PICK r : r = (v & a) | k
  OBVIOUS
<1>16. Ends(i, s, h[2])
  <2>1. Sets(h[1], h[2], <<"rf", i.ha>>, r) /\ Writes(i, s) = {<<<<"rf", i.ha>>, r>>}
    BY <1>8, <1>13, <1>15
  <2> QED
    BY <1>1, <1>3, <1>4, <1>14, <2>1, EndsLast
<1> QED
  BY <1>7, <1>16

(* Exclusive or with all ones is the complement.                           *)
LEMMA XorOnes == \A z \in Octa : Cut(-1) \in Octa /\ z ^^ Cut(-1) = Inv(z)
<1>0. M \in Nat /\ M - 1 \in Octa /\ XLEN \in Nat
  BY WordSizes DEF Octa
<1>1. Cut(-1) = M - 1
  <2>1. Cut(M * (-1) + (M - 1)) = Cut(M - 1)
    BY <1>0, CutPlusM
  <2>2. Cut(M - 1) = M - 1
    BY <1>0, CutLaws
  <2>3. M * (-1) + (M - 1) = -1
    BY <1>0
  <2> QED
    BY <2>1, <2>2, <2>3
<1>2. ASSUME NEW z \in Octa PROVE z ^^ (M - 1) = Inv(z)
  <2>1. z & (M - 1) = z
    BY <1>0, AndOnes DEF Octa, M
  <2>2. z \in Int
    BY OctaInt
  <2> QED
    BY <1>0, <2>1, <2>2 DEF Inv, ^^
<1> QED
  BY <1>0, <1>1, <1>2

(* Exclusive or, inverted.                                                 *)
LEMMA DoneXnor ==
  ASSUME NEW i, NEW s, NEW h, Execution(i, s, h), i.form = "XNOR"
  PROVE  Ends(i, s, Final(i, s, h))
<1> DEFINE p == <<"rd", i.hb>>
           a == s.rd[i.hc]
           b == s.rd[i.hd]
           w == Writes(i, s)
<1>1. Plain(i)
  BY DEF Plain, Branches
<1>2. i \in Insns /\ h[0] \in State
  BY Entry
<1>3. i.hb \in 0 .. NReg - 1 /\ i.hc \in 0 .. NReg - 1 /\ i.hd \in 0 .. NReg - 1
  BY <1>2, Fields
<1>4. a \in Octa /\ b \in Octa /\ At(h[0], RD(i.hc)) = a /\ At(h[0], RD(i.hd)) = b /\ Source(RD(i.hc)) /\ Source(RD(i.hd))
      /\ Place(p) /\ Source(p) /\ Reg("rd", i.hb) /\ "rd" \in Files
  <2>1. p = RD(i.hb) /\ Reg("rd", i.hb) /\ "rd" \in Files
    BY <1>3 DEF RD, Files, Reg
  <2>2. a \in Octa /\ b \in Octa /\ h[0].rd[i.hc] = a /\ h[0].rd[i.hd] = b
    BY <1>3, Entry
  <2>3. At(h[0], RD(i.hc)) = a /\ At(h[0], RD(i.hd)) = b
    BY <2>2, Reads
  <2>4. Source(RD(i.hc)) /\ Source(RD(i.hd)) /\ Place(RD(i.hb)) /\ Source(RD(i.hb))
    BY <1>3, Operands
  <2> HIDE DEF p
  <2> QED
    BY <2>1, <2>2, <2>3, <2>4
<1>5. w = {<<p, Inv(a ^^ b)>>}
  BY DEF Writes, RD
<1>6. CASE i.hb = 0
  <2>1. trans(i, s.rb[0]) = <<>>
    BY <1>6 DEF trans, XNOR, When
  <2>2. p \in Special
    BY <1>6 DEF Special, RD
  <2>3. \A u \in w : u[1] \in Special
    BY <1>5, <2>2
  <2> QED
    BY <1>1, <2>1, <2>3, EndsNone
<1>7. CASE i.hb # 0
  <2>1. trans(i, s.rb[0]) = <<<<"xor", p, RD(i.hc), RD(i.hd)>>, <<"xor", p, p, K(-1)>>>>
    BY <1>7 DEF trans, XNOR, When, RD
  <2>2. Does(<<"xor", p, RD(i.hc), RD(i.hd)>>, h[0], h[1]) /\ Does(<<"xor", p, p, K(-1)>>, h[1], h[2])
        /\ Final(i, s, h) = h[2] /\ h[1] \in State
    BY <2>1, Short
  <2>3. "xor" \in Arith /\ -1 \in Int
    BY DEF Arith
  <2>4. Source(K(-1)) /\ \A x : At(x, K(-1)) = Cut(-1)
    BY <2>3, Operands, Reads, Zenon
  <2> HIDE DEF a, b
  <2>5. a ^^ b \in Octa
    BY <1>4, WordSizes, BitBounds DEF Octa, M
  <2>6. Sets(h[0], h[1], p, a ^^ b)
    <3>1. Sets(h[0], h[1], p, Alu("xor", At(h[0], RD(i.hc)), At(h[0], RD(i.hd))))
      BY <1>2, <1>4, <2>2, <2>3, DoesShapes, Zenon
    <3> QED
      BY <1>4, <3>1 DEF Alu
  <2>7. At(h[1], p) = a ^^ b
    BY <1>4, <2>6, SetsAt
  <2>8. Sets(h[1], h[2], p, Inv(a ^^ b))
    <3>1. Sets(h[1], h[2], p, Alu("xor", At(h[1], p), At(h[1], K(-1))))
      BY <1>4, <2>2, <2>3, <2>4, DoesShapes, Zenon
    <3>2. Alu("xor", a ^^ b, Cut(-1)) = (a ^^ b) ^^ Cut(-1)
      BY DEF Alu
    <3>3. (a ^^ b) ^^ Cut(-1) = Inv(a ^^ b)
      BY <2>5, XorOnes
    <3> QED
      BY <2>4, <2>7, <3>1, <3>2, <3>3
  <2>9. Off(h[0], h[1], "rd", i.hb)
    BY <2>6, OffSteps
  <2>10. PICK r : r = Inv(a ^^ b)
    OBVIOUS
  <2>11. Ends(i, s, h[2])
    <3>1. Sets(h[1], h[2], <<"rd", i.hb>>, r) /\ Writes(i, s) = {<<<<"rd", i.hb>>, r>>}
      BY <1>5, <2>8, <2>10
    <3> QED
      BY <1>1, <1>3, <1>4, <2>9, <3>1, EndsLast
  <2> QED
    BY <2>2, <2>11
<1> QED
  BY <1>6, <1>7

(* Extraction of bits.                                                     *)
LEMMA ExtWord ==
  ASSUME NEW x \in Octa, NEW k \in 0 .. XLEN - 1, NEW op \in {"shr", "sar"}
  PROVE  k \in Octa /\ Alu("shl", x, k) \in Octa /\ Alu(op, Alu("shl", x, k), k) = Extended(x, k, op)
<1>1. k \in Octa /\ k % XLEN = k
  BY WordSizes DEF Octa
<1> DEFINE y == Cut(x * Pow2[k])
           low == CutTo(XLEN - k, x)
<1>2. Alu("shl", x, k) = y
  BY <1>1 DEF Alu
<1>3. Alu("shl", x, k) \in Octa
  BY <1>1, AluType DEF Arith
<1>4. y \div Pow2[k] = low /\ Signed(y) \div Pow2[k] = SignedIn(XLEN - k, low)
  BY ShiftBack
<1>5. Extended(x, k, op) = IF op = "sar" THEN Cut(SignedIn(XLEN - k, low)) ELSE low
  BY DEF Extended
<1> HIDE DEF y, low
<1>6. Alu(op, y, k) = IF op = "sar" THEN Cut(Signed(y) \div Pow2[k]) ELSE y \div Pow2[k]
  BY <1>1 DEF Alu
<1> QED
  BY <1>1, <1>2, <1>3, <1>4, <1>5, <1>6

(* Zero and sign extension by two shifts.                                  *)
LEMMA DoneExt ==
  ASSUME NEW i, NEW s, NEW h, Execution(i, s, h), i.form \in {"EXTr", "EXTi"}
  PROVE  Ends(i, s, Final(i, s, h))
<1> DEFINE p == <<"rd", i.hb>>
           a == s.rd[i.hc]
           b == IF i.form = "EXTr" THEN s.rd[i.hd] ELSE i.imm
           w == Writes(i, s)
<1>1. Plain(i)
  BY DEF Plain, Branches
<1>2. i \in Insns /\ h[0] \in State /\ Encodable(i) /\ Specified(i, s)
  BY Entry DEF Execution
<1>3. i.hb \in 0 .. NReg - 1 /\ i.hc \in 0 .. NReg - 1 /\ i.hd \in 0 .. NReg - 1
  BY <1>2, Fields
<1>4. Place(p) /\ Source(p) /\ Reg("rd", i.hb) /\ "rd" \in Files /\ p = RD(i.hb) /\ "t" # "rd"
  BY <1>3, Operands DEF RD, Files, Reg
<1>5. a \in Octa /\ s.rd[i.hd] \in Octa /\ h[0].rd[i.hc] = a /\ h[0].rd[i.hd] = s.rd[i.hd]
  BY <1>3, Entry
<1>6. At(h[0], RD(i.hc)) = a /\ At(h[0], RD(i.hd)) = s.rd[i.hd] /\ Source(RD(i.hc)) /\ Source(RD(i.hd))
  BY <1>3, <1>5, Reads, Operands
<1>7. i.alu \in {"shr", "sar"} /\ "shl" \in Arith /\ i.alu \in Arith
  BY <1>2 DEF Encodable, Arith
<1>8. b \in 0 .. XLEN - 1
  <2>1. CASE i.form = "EXTr"
    <3>1. s.rd[i.hd] < XLEN
      BY <1>2, <1>7, <2>1 DEF Specified
    <3> QED
      BY <1>5, <2>1, <3>1, OctaInt, WordSizes
  <2>2. CASE i.form = "EXTi"
    BY <1>2, <2>2 DEF Encodable
  <2> QED
    BY <2>1, <2>2
<1>9. w = {<<p, Extended(a, b, i.alu)>>}
  BY SMTT(60) DEF Writes, RD
<1> HIDE DEF p, a, b, w
<1>10. b \in Octa /\ Alu("shl", a, b) \in Octa /\ Alu(i.alu, Alu("shl", a, b), b) = Extended(a, b, i.alu)
  BY <1>5, <1>7, <1>8, ExtWord
<1>11. CASE i.hb = 0
  <2>1. trans(i, s.rb[0]) = <<>>
    BY <1>11 DEF trans, EXTr, EXTi, When
  <2>2. p \in Special
    BY <1>4, <1>11 DEF Special
  <2>3. \A u \in w : u[1] \in Special
    BY <1>9, <2>2
  <2> QED
    BY <1>1, <2>1, <2>3, EndsNone DEF w
<1>12. ASSUME NEW x, NEW y, NEW z, NEW c, Source(c), At(x, c) = b, At(y, c) = b, x \in State, y \in State,
              Off(h[0], x, "rd", i.hb), At(x, RD(i.hc)) = a,
              Does(<<"shl", p, RD(i.hc), c>>, x, y), Does(<<i.alu, p, p, c>>, y, z)
       PROVE  Ends(i, s, z)
  <2>1. Sets(x, y, p, Alu("shl", a, b))
    <3>1. Sets(x, y, p, Alu("shl", At(x, RD(i.hc)), At(x, c)))
      BY <1>4, <1>6, <1>7, <1>12, DoesShapes, Zenon
    <3> QED
      BY <1>12, <3>1
  <2>2. At(y, p) = Alu("shl", a, b)
    BY <1>4, <2>1, SetsAt DEF p
  <2>3. Sets(y, z, p, Extended(a, b, i.alu))
    <3>1. Sets(y, z, p, Alu(i.alu, At(y, p), At(y, c)))
      BY <1>4, <1>7, <1>12, DoesShapes, Zenon
    <3> QED
      BY <1>10, <1>12, <2>2, <3>1
  <2>4. Off(x, y, "rd", i.hb)
    BY <2>1, OffSteps DEF p
  <2>5. Off(h[0], y, "rd", i.hb)
    BY <1>12, <2>4, OffSteps
  <2> QED
    BY <1>1, <1>3, <1>4, <1>9, <2>3, <2>5, EndsLast DEF p, w
<1>13. CASE i.hb # 0 /\ i.form = "EXTr"
  <2>1. trans(i, s.rb[0]) = <<<<"mov", T(1), RD(i.hd)>>, <<"shl", p, RD(i.hc), T(1)>>, <<i.alu, p, p, T(1)>>>>
    BY <1>4, <1>13 DEF trans, EXTr, When
  <2>2. Does(<<"mov", T(1), RD(i.hd)>>, h[0], h[1]) /\ Does(<<"shl", p, RD(i.hc), T(1)>>, h[1], h[2])
        /\ Does(<<i.alu, p, p, T(1)>>, h[2], h[3])
        /\ Final(i, s, h) = h[3] /\ h[1] \in State /\ h[2] \in State
    BY <2>1, Short
  <2>3. Place(T(1)) /\ Source(T(1)) /\ Reg("t", 1) /\ T(1) = <<"t", 1>>
    BY Operands DEF Reg, T
  <2>4. Sets(h[0], h[1], T(1), b)
    <3>1. Sets(h[0], h[1], T(1), At(h[0], RD(i.hd)))
      BY <1>2, <1>6, <2>2, <2>3, DoesShapes
    <3> QED
      BY <1>6, <1>13, <3>1 DEF b
  <2>5. Off(h[0], h[1], "rd", i.hb) /\ At(h[1], T(1)) = b
    BY <2>3, <2>4, OffSteps, SetsAt
  <2>6. At(h[1], RD(i.hc)) = a
    <3>1. Reg("rd", i.hc)
      BY <1>3 DEF Reg, Files
    <3>2. h[1].rd[i.hc] = h[0].rd[i.hc]
      BY <2>3, <2>4, <3>1 DEF Sets
    <3> QED
      BY <1>5, <3>2, Reads
  <2>7. At(h[2], T(1)) = b
    <3>1. Sets(h[1], h[2], p, Alu("shl", At(h[1], RD(i.hc)), At(h[1], T(1))))
      BY <1>4, <1>6, <1>7, <2>2, <2>3, DoesShapes, Zenon
    <3>2. h[2].t[1] = h[1].t[1]
      BY <2>3, <3>1 DEF Sets, p
    <3> QED
      BY <2>5, <3>2, Reads
  <2> QED
    BY <1>12, <2>2, <2>3, <2>5, <2>6, <2>7
<1>14. CASE i.hb # 0 /\ i.form = "EXTi"
  <2>1. trans(i, s.rb[0]) = <<<<"shl", p, RD(i.hc), K(b)>>, <<i.alu, p, p, K(b)>>>>
    BY <1>4, <1>14 DEF trans, EXTi, When, b
  <2>2. Does(<<"shl", p, RD(i.hc), K(b)>>, h[0], h[1]) /\ Does(<<i.alu, p, p, K(b)>>, h[1], h[2])
        /\ Final(i, s, h) = h[2] /\ h[1] \in State
    BY <2>1, Short
  <2>3. Source(K(b)) /\ At(h[0], K(b)) = b /\ At(h[1], K(b)) = b
    BY <1>10, ConstAt
  <2>4. Off(h[0], h[0], "rd", i.hb)
    BY <1>2, OffSteps
  <2> QED
    BY <1>2, <1>6, <1>12, <2>2, <2>3, <2>4
<1> QED
  BY <1>11, <1>13, <1>14

(* A page address.                                                         *)
LEMMA PageWord ==
  ASSUME NEW pc \in Octa, NEW n \in Int
  PROVE  /\ pc & Cut(-Page) \in Octa /\ -Page \in Int /\ n * Page \in Int
         /\ Cut((pc & Cut(-Page)) + Cut(n * Page)) = Cut(Page * (pc \div Page + n))
<1>1. PICK k \in 0 .. XLEN : Page = Pow2[k]
  BY MachineAssumption
<1>2. k \in Nat /\ XLEN \in Nat
  BY WordSizes
<1>3. Page \in Nat \ {0}
  BY <1>1, <1>2, Pow2Type
<1>4. pc & Cut(-Page) = Page * (pc \div Page)
  BY <1>1, PageStart
<1>5. pc \in Int /\ pc \div Page \in Int
  BY <1>3, OctaInt, DivMod
<1>6. PICK q \in Int : q = pc \div Page
  BY <1>5
<1>7. -Page \in Int /\ n * Page \in Int /\ Page * q \in Int
  BY <1>3
<1>8. Cut(Page * q + Cut(n * Page)) = Cut(Page * q + n * Page)
  BY <1>7, CutLaws
<1>9. Page * q + n * Page = Page * (q + n)
  BY <1>3
<1>10. pc & Cut(-Page) \in Octa
  <2>1. Cut(-Page) \in Octa
    BY <1>7, CutLaws
  <2> QED
    BY <1>2, <2>1, BitBounds DEF Octa, M
<1> QED
  BY <1>4, <1>6, <1>7, <1>8, <1>9, <1>10

(* Page addresses.                                                         *)
LEMMA DoneAdrp ==
  ASSUME NEW i, NEW s, NEW h, Execution(i, s, h), i.form = "ADRP"
  PROVE  Ends(i, s, Final(i, s, h))
<1> DEFINE p == <<"rb", i.ha>>
           a == s.rb[0]
           m == K(-Page)
           k == K(i.imm * Page)
           w == Writes(i, s)
<1>1. Plain(i)
  BY DEF Plain, Branches
<1>2. i \in Insns /\ h[0] \in State
  BY Entry
<1>3. i.ha \in 0 .. NReg - 1 /\ i.imm \in Int
  BY <1>2, Fields
<1>4. Place(p) /\ Source(p) /\ Reg("rb", i.ha) /\ "rb" \in Files /\ p = RB(i.ha)
  BY <1>3, Operands DEF RB, Files, Reg
<1>5. a \in Octa /\ Source(K(a)) /\ At(h[0], K(a)) = a
  BY Entry, ConstAt
<1>6. w = {<<p, Cut(Page * (a \div Page + i.imm))>>}
  BY DEF Writes, RB
<1>7. CASE i.ha = 0
  <2>1. trans(i, s.rb[0]) = <<>>
    BY <1>7 DEF trans, ADRP, When
  <2>2. p \in Special
    BY <1>4, <1>7 DEF Special
  <2>3. \A u \in w : u[1] \in Special
    BY <1>6, <2>2
  <2> QED
    BY <1>1, <2>1, <2>3, EndsNone
<1>8. CASE i.ha # 0
  <2>1. trans(i, s.rb[0]) = <<<<"mov", p, K(a)>>, <<"and", p, p, m>>, <<"add", p, p, k>>>>
    BY <1>8 DEF trans, ADRP, When, RB
  <2>0. /\ a & Cut(-Page) \in Octa /\ -Page \in Int /\ i.imm * Page \in Int
        /\ Cut((a & Cut(-Page)) + Cut(i.imm * Page)) = Cut(Page * (a \div Page + i.imm))
    BY <1>3, <1>5, PageWord
  <2>2. Source(m) /\ Source(k) /\ \A x : At(x, m) = Cut(-Page) /\ At(x, k) = Cut(i.imm * Page)
    BY <2>0, Operands, Reads, Zenon
  <2> HIDE DEF p, a, m, k
  <2>3. Does(<<"mov", p, K(a)>>, h[0], h[1]) /\ Does(<<"and", p, p, m>>, h[1], h[2])
        /\ Does(<<"add", p, p, k>>, h[2], h[3])
        /\ Final(i, s, h) = h[3] /\ h[1] \in State /\ h[2] \in State
    BY <2>1, Short
  <2>4. "and" \in Arith /\ "add" \in Arith
    BY DEF Arith
  <2>5. Sets(h[0], h[1], p, a)
    <3>1. Sets(h[0], h[1], p, At(h[0], K(a)))
      BY <1>2, <1>4, <1>5, <2>3, DoesShapes, Zenon
    <3> QED
      BY <1>5, <3>1
  <2>6. At(h[1], p) = a
    BY <1>4, <2>5, SetsAt DEF p
  <2>7. Sets(h[1], h[2], p, a & Cut(-Page))
    <3>1. Sets(h[1], h[2], p, Alu("and", At(h[1], p), At(h[1], m)))
      BY <1>4, <2>2, <2>3, <2>4, DoesShapes, Zenon
    <3> QED
      BY <2>2, <2>6, <3>1 DEF Alu
  <2>8. At(h[2], p) = a & Cut(-Page)
    BY <1>4, <2>7, SetsAt DEF p
  <2>9. Sets(h[2], h[3], p, Cut(Page * (a \div Page + i.imm)))
    <3>1. Sets(h[2], h[3], p, Alu("add", At(h[2], p), At(h[2], k)))
      BY <1>4, <2>2, <2>3, <2>4, DoesShapes, Zenon
    <3>2. Alu("add", a & Cut(-Page), Cut(i.imm * Page)) = Cut((a & Cut(-Page)) + Cut(i.imm * Page))
      BY DEF Alu
    <3> QED
      BY <2>0, <2>2, <2>8, <3>1, <3>2
  <2>10. Off(h[0], h[2], "rb", i.ha)
    <3>1. Off(h[0], h[1], "rb", i.ha) /\ Off(h[1], h[2], "rb", i.ha)
      BY <2>5, <2>7, OffSteps DEF p
    <3> QED
      BY <3>1, OffSteps
  <2>11. PICK r : r = Cut(Page * (a \div Page + i.imm))
    OBVIOUS
  <2>12. Ends(i, s, h[3])
    <3>1. Sets(h[2], h[3], <<"rb", i.ha>>, r) /\ Writes(i, s) = {<<<<"rb", i.ha>>, r>>}
      BY <1>6, <2>9, <2>11 DEF p
    <3> QED
      BY <1>1, <1>3, <1>4, <2>10, <3>1, EndsLast
  <2> QED
    BY <2>3, <2>12
<1> QED
  BY <1>7, <1>8

(* A temporary is no register.                                             *)
LEMMA SetsOther ==
  ASSUME NEW x, NEW y, NEW p, NEW v, Sets(x, y, p, v), NEW c, Source(c), c[1] # p[1] \/ c[2] # p[2]
  PROVE  At(y, c) = At(x, c)
BY DEF Sets, At, Source, Place

(* Comparisons: both results together are the sign of the difference.      *)
LEMMA CmpWord ==
  ASSUME NEW a \in Int, NEW b \in Int
  PROVE  (IF b > a THEN Cut(-1) ELSE IF a > b THEN 1 ELSE 0) = Cut(Sign(a - b))
<1>1. Cut(1) = 1 /\ Cut(0) = 0
  BY SmallOcta, CutLaws
<1>2. CASE b > a
  BY <1>2 DEF Sign
<1>3. CASE a > b
  BY <1>1, <1>3 DEF Sign
<1>4. CASE a = b
  BY <1>1, <1>4 DEF Sign
<1> QED
  BY <1>2, <1>3, <1>4

(* A setcond into a temporary and a movcond give -1, 0 or 1.               *)
LEMMA EndsCmp ==
  ASSUME NEW i, NEW s, NEW h, Execution(i, s, h), Plain(i), NEW n \in 0 .. NReg - 1,
         NEW cond \in {"GT", "GTU"}, NEW c, Source(c), c[1] # "t", NEW d, Source(d), d[1] # "t",
         trans(i, s.rb[0]) = When(n # 0, <<<<"setcond", T(1), cond, c, d>>,
                                           <<"movcond", RD(n), cond, d, c, K(-1), T(1)>>>>),
         NEW a \in Octa, NEW b \in Octa, At(h[0], c) = a, At(h[0], d) = b,
         Writes(i, s) = {<<RD(n), Cut(Sign(IF cond = "GT" THEN Signed(a) - Signed(b) ELSE a - b))>>}
  PROVE  Ends(i, s, Final(i, s, h))
<1> DEFINE w == Writes(i, s)
           r == Cut(Sign(IF cond = "GT" THEN Signed(a) - Signed(b) ELSE a - b))
<1>0. w = {<<RD(n), r>>}
  OBVIOUS
<1> HIDE DEF r, w
<1>1. CASE n = 0
  <2>1. trans(i, s.rb[0]) = <<>>
    BY <1>1 DEF When
  <2>2. RD(n) \in Special
    BY <1>1 DEF Special
  <2>3. \A u \in w : u[1] \in Special
    BY <1>0, <2>2
  <2> QED
    BY <2>1, <2>3, EndsNone DEF w
<1>2. CASE n # 0
  <2>1. PICK u1, u2 : u1 = <<"setcond", T(1), cond, c, d>>
                      /\ u2 = <<"movcond", RD(n), cond, d, c, K(-1), T(1)>>
    OBVIOUS
  <2>2. trans(i, s.rb[0]) = <<u1, u2>>
    BY <1>2, <2>1 DEF When
  <2>3. Does(u1, h[0], h[1]) /\ Does(u2, h[1], h[2]) /\ Final(i, s, h) = h[2] /\ h[1] \in State
    BY <2>2, Short
  <2>4. Place(T(1)) /\ Source(T(1)) /\ Reg("t", 1) /\ T(1) = <<"t", 1>> /\ Place(RD(n)) /\ h[0] \in State
    BY Operands, Entry DEF Reg, T
  <2>5. -1 \in Int
    OBVIOUS
  <2>6. Source(K(-1)) /\ At(h[1], K(-1)) = Cut(-1)
    BY <2>5, Operands, Reads, ZenonT(60)
  <2> DEFINE v == IF Holds(cond, a, b) THEN 1 ELSE 0
  <2>7. Sets(h[0], h[1], T(1), v)
    <3>1. Sets(h[0], h[1], T(1), IF Holds(cond, At(h[0], c), At(h[0], d)) THEN 1 ELSE 0)
      BY <2>1, <2>3, <2>4, DoesShapes
    <3> QED
      BY <3>1
  <2> HIDE DEF v
  <2>8. At(h[1], T(1)) = v /\ At(h[1], c) = a /\ At(h[1], d) = b
    <3>1. At(h[1], T(1)) = v
      BY <2>4, <2>7, SetsAt
    <3>2. T(1)[1] = "t"
      BY DEF T
    <3>3. At(h[1], c) = At(h[0], c) /\ At(h[1], d) = At(h[0], d)
      BY <2>7, <3>2, SetsOther
    <3> QED
      BY <3>1, <3>3
  <2>9. Sets(h[1], h[2], RD(n), IF Holds(cond, b, a) THEN Cut(-1) ELSE v)
    <3>1. Sets(h[1], h[2], RD(n), IF Holds(cond, At(h[1], d), At(h[1], c)) THEN At(h[1], K(-1)) ELSE At(h[1], T(1)))
      BY <2>1, <2>3, <2>4, <2>6, DoesShapes, Zenon
    <3> QED
      BY <2>6, <2>8, <3>1
  <2>10. (IF Holds(cond, b, a) THEN Cut(-1) ELSE v) = r
    <3>1. a \in Int /\ b \in Int /\ Signed(a) \in Int /\ Signed(b) \in Int
      BY OctaInt, SignedLaws
    <3>2. CASE cond = "GT"
      <4>1. r = Cut(Sign(Signed(a) - Signed(b))) /\ (Holds(cond, b, a) <=> Signed(b) > Signed(a))
            /\ v = IF Signed(a) > Signed(b) THEN 1 ELSE 0
        BY <3>2 DEF Holds, v, r
      <4>2. (IF Signed(b) > Signed(a) THEN Cut(-1) ELSE IF Signed(a) > Signed(b) THEN 1 ELSE 0)
              = Cut(Sign(Signed(a) - Signed(b)))
        BY <3>1, CmpWord, Zenon
      <4> QED
        BY <4>1, <4>2
    <3>3. CASE cond = "GTU"
      <4>1. r = Cut(Sign(a - b)) /\ (Holds(cond, b, a) <=> b > a)
            /\ v = IF a > b THEN 1 ELSE 0
        BY <3>3 DEF Holds, v, r
      <4>2. (IF b > a THEN Cut(-1) ELSE IF a > b THEN 1 ELSE 0) = Cut(Sign(a - b))
        BY <3>1, CmpWord, Zenon
      <4> QED
        BY <4>1, <4>2
    <3> QED
      BY <3>2, <3>3
  <2>11. Off(h[0], h[1], "rd", n)
    BY <2>7, OffSteps
  <2>12. Sets(h[1], h[2], <<"rd", n>>, r) /\ Writes(i, s) = {<<<<"rd", n>>, r>>} /\ "rd" \in Files
    BY <1>0, <2>9, <2>10 DEF RD, w, Files
  <2>13. Ends(i, s, h[2])
    BY <2>11, <2>12, EndsLast
  <2> QED
    BY <2>3, <2>13
<1> QED
  BY <1>1, <1>2

(* Comparisons.                                                            *)
LEMMA DoneCmp ==
  ASSUME NEW i, NEW s, NEW h, Execution(i, s, h), i.form \in {"CMPi", "CMPr"}
  PROVE  Ends(i, s, Final(i, s, h))
<1>1. Plain(i)
  BY DEF Plain, Branches
<1>2. i \in Insns /\ h[0] \in State /\ Encodable(i)
  BY Entry
<1>3. i.ha \in 0 .. NReg - 1 /\ i.hb \in 0 .. NReg - 1 /\ i.hc \in 0 .. NReg - 1 /\ i.hd \in 0 .. NReg - 1 /\ i.imm \in Int
  BY <1>2, Fields
<1>4. CASE i.form = "CMPi"
  <2> DEFINE a == s.rd[i.hb]
             b == Cut(i.imm)
             c == RD(i.hb)
             d == K(i.imm)
  <2>1. a \in Octa /\ At(h[0], c) = a /\ Source(c) /\ c[1] # "t"
    <3>1. a \in Octa /\ h[0].rd[i.hb] = a
      BY <1>3, Entry
    <3> QED
      BY <1>3, <3>1, Reads, Operands DEF RD
  <2>2. b \in Octa /\ At(h[0], d) = b /\ Source(d) /\ d[1] # "t"
    BY <1>3, Reads, Operands, CutLaws DEF K
  <2>3. i.cond \in {"GT", "GTU"}
    BY <1>2, <1>4 DEF Encodable
  <2>4. trans(i, s.rb[0]) = When(i.ha # 0, <<<<"setcond", T(1), i.cond, c, d>>,
                                             <<"movcond", RD(i.ha), i.cond, d, c, K(-1), T(1)>>>>)
    BY <1>4 DEF trans, CMPi
  <2>5. Writes(i, s) = {<<RD(i.ha), Cut(Sign(IF i.cond = "GT" THEN Signed(a) - i.imm ELSE a - i.imm))>>}
    BY <1>4 DEF Writes
  <2>6. (IF i.cond = "GT" THEN Signed(a) - i.imm ELSE a - i.imm)
        = (IF i.cond = "GT" THEN Signed(a) - Signed(b) ELSE a - b)
    <3>1. CASE i.cond = "GT"
      <4>1. Fits(XLEN, i.imm)
        BY <1>2, <1>4, <3>1 DEF Encodable
      <4>2. Signed(b) = i.imm
        BY <1>3, <4>1, SignedCut
      <4> QED
        BY <3>1, <4>2
    <3>2. CASE i.cond = "GTU"
      <4>1. i.imm \in Octa
        BY <1>2, <1>4, <3>2 DEF Encodable
      <4>2. b = i.imm
        BY <4>1, CutLaws
      <4> QED
        BY <3>2, <4>2
    <3> QED
      BY <2>3, <3>1, <3>2
  <2> HIDE DEF a, b, c, d
  <2>7. Writes(i, s) = {<<RD(i.ha), Cut(Sign(IF i.cond = "GT" THEN Signed(a) - Signed(b) ELSE a - b))>>}
    BY <2>5, <2>6
  <2> QED
    BY <1>1, <1>3, <2>1, <2>2, <2>3, <2>4, <2>7, EndsCmp
<1>5. CASE i.form = "CMPr"
  <2> DEFINE a == s[i.file][i.hc]
             b == s[i.file][i.hd]
             c == <<i.file, i.hc>>
             d == <<i.file, i.hd>>
  <2>1. i.file \in Files /\ i.file # "t" /\ i.cond \in {"GT", "GTU"} /\ (i.cond = "GT" => i.file = "rd")
    BY <1>2, <1>5 DEF Encodable, Files
  <2>2. a \in Octa /\ b \in Octa /\ h[0][i.file][i.hc] = a /\ h[0][i.file][i.hd] = b
    BY <1>3, <2>1, Entry
  <2>3. At(h[0], c) = a /\ At(h[0], d) = b /\ Source(c) /\ Source(d) /\ c[1] # "t" /\ d[1] # "t"
    BY <1>3, <2>1, <2>2, Reads, Operands
  <2>4. trans(i, s.rb[0]) = When(i.hb # 0, <<<<"setcond", T(1), i.cond, c, d>>,
                                             <<"movcond", RD(i.hb), i.cond, d, c, K(-1), T(1)>>>>)
    BY <1>5 DEF trans, CMPr
  <2>5. Writes(i, s) = {<<RD(i.hb), Cut(Sign(IF i.cond = "GT" THEN Signed(a) - Signed(b) ELSE a - b))>>}
    BY <1>5, <2>1 DEF Writes
  <2> HIDE DEF a, b, c, d
  <2> QED
    BY <1>1, <1>3, <2>1, <2>2, <2>3, <2>4, <2>5, EndsCmp
<1> QED
  BY <1>4, <1>5

(* Instructions with two results: the moves at their ends. *)
Moved(n, k, x, y) == IF n # 0 THEN Does(<<"mov", RD(n), T(k)>>, x, y) ELSE y = x

(* What a result move leaves.                                              *)
LEMMA MovedSets ==
  ASSUME NEW n \in 0 .. NReg - 1, NEW k \in 1..3, NEW x \in State, NEW y, Moved(n, k, x, y)
  PROVE  /\ y \in State /\ y.t = x.t /\ (Alone => y.mem = x.mem)
         /\ \A f \in Files, m \in 0 .. NReg - 1 :
              y[f][m] = IF f = "rd" /\ m = n /\ n # 0 THEN x.t[k] ELSE x[f][m]
<1>1. CASE n = 0
  BY <1>1 DEF Moved
<1>2. CASE n # 0
  <2>1. Does(<<"mov", RD(n), T(k)>>, x, y)
    BY <1>2 DEF Moved
  <2>2. Place(RD(n)) /\ Source(T(k))
    BY Operands
  <2>3. Sets(x, y, RD(n), At(x, T(k)))
    BY <2>1, <2>2, DoesShapes
  <2>4. At(x, T(k)) = x.t[k]
    BY Reads
  <2>5. \A f \in Files, m \in 0 .. NReg - 1 : Reg(f, m)
    BY DEF Reg
  <2>6. \A m \in 1..3 : Reg("t", m) /\ "t" # "rd"
    BY DEF Reg
  <2>7. y \in State /\ (Alone => y.mem = x.mem)
    BY <2>3 DEF Sets
  <2>8. \A m \in 1..3 : y.t[m] = x.t[m]
    BY <2>3, <2>6 DEF Sets, RD
  <2>9. y.t = x.t
    BY <2>7, <2>8 DEF State
  <2> QED
    BY <1>2, <2>3, <2>4, <2>5, <2>7, <2>9 DEF Sets, RD
<1> QED
  BY <1>1, <1>2

(* Two result moves, out of temporaries, end an instruction of two         *)
(* results.                                                                *)
LEMMA EndsTwo ==
  ASSUME NEW i, NEW s, NEW h, Execution(i, s, h), Plain(i), NEW x \in State, SameFiles(s, x),
         Alone => x.mem = h[0].mem, NEW y, NEW z,
         NEW n1 \in 0 .. NReg - 1, NEW n2 \in 0 .. NReg - 1, NEW k1 \in 1..3, NEW k2 \in 1..3,
         Moved(n1, k1, x, z), Moved(n2, k2, z, y),
         Writes(i, s) = {<<RD(n1), x.t[k1]>>, <<RD(n2), x.t[k2]>>}
  PROVE  Ends(i, s, y)
<1>1. /\ z \in State /\ z.t = x.t /\ (Alone => z.mem = x.mem)
      /\ \A f \in Files, m \in 0 .. NReg - 1 :
           z[f][m] = IF f = "rd" /\ m = n1 /\ n1 # 0 THEN x.t[k1] ELSE x[f][m]
  BY MovedSets
<1>2. /\ y \in State /\ (Alone => y.mem = z.mem)
      /\ \A f \in Files, m \in 0 .. NReg - 1 :
           y[f][m] = IF f = "rd" /\ m = n2 /\ n2 # 0 THEN z.t[k2] ELSE z[f][m]
  BY <1>1, MovedSets
<1>3. PICK a, b : a = x.t[k1] /\ b = x.t[k2]
  OBVIOUS
<1>4. \A f \in Files, m \in 0 .. NReg - 1 :
        y[f][m] = IF f = "rd" /\ m = n2 /\ n2 # 0 THEN b
                  ELSE IF f = "rd" /\ m = n1 /\ n1 # 0 THEN a ELSE s[f][m]
  BY <1>1, <1>2, <1>3 DEF SameFiles
<1>5. Leaves({<<RD(n1), a>>, <<RD(n2), b>>}, s, y)
  <2> SUFFICES ASSUME NEW f \in Files, NEW m \in 0 .. NReg - 1, <<f, m>> \notin Special
               PROVE  \/ <<<<f, m>>, y[f][m]>> \in {<<RD(n1), a>>, <<RD(n2), b>>}
                      \/ y[f][m] = s[f][m] /\ \A u \in {<<RD(n1), a>>, <<RD(n2), b>>} : u[1] # <<f, m>>
    BY DEF Leaves
  <2>1. f = "rd" => m # 0
    BY DEF Special, RD
  <2>2. CASE f = "rd" /\ m = n2
    BY <1>4, <2>1, <2>2 DEF RD
  <2>3. CASE f = "rd" /\ m = n1 /\ m # n2
    BY <1>4, <2>1, <2>3 DEF RD
  <2>4. CASE ~(f = "rd" /\ m \in {n1, n2})
    BY <1>4, <2>4 DEF RD
  <2> QED
    BY <2>2, <2>3, <2>4
<1>6. Leaves(Writes(i, s), s, y)
  BY <1>3, <1>5
<1>7. Alone => y.mem = StoredBy(i, s)
  BY <1>1, <1>2, Entry DEF Plain
<1> QED
  BY <1>2, <1>6, <1>7 DEF Ends, Plain

(* Setting temporaries keeps the registers. *)
TempSets(x, y) == y \in State /\ SameFiles(x, y) /\ (Alone => y.mem = x.mem)

(* Operations on temporaries leave the register files alone.               *)
LEMMA TempSteps ==
  ASSUME NEW x, NEW y, NEW z
  PROVE  /\ TempSets(x, y) /\ TempSets(y, z) => TempSets(x, z)
         /\ \A k, v : Sets(x, y, T(k), v) => TempSets(x, y)
         /\ Keeps(x, y) => TempSets(x, y)
<1>0. \A g \in Files, k \in 0 .. NReg - 1 : Reg(g, k) /\ g # "t"
  BY DEF Reg, Files
<1>1. TempSets(x, y) /\ TempSets(y, z) => TempSets(x, z)
  BY DEF TempSets, SameFiles
<1>2. \A k, v : Sets(x, y, T(k), v) => TempSets(x, y)
  BY <1>0 DEF TempSets, SameFiles, Sets, T
<1>3. Keeps(x, y) => TempSets(x, y)
  BY <1>0 DEF TempSets, SameFiles, Keeps, SameRegs
<1> QED
  BY <1>1, <1>2, <1>3

(* Sequences put together, by their elements.                              *)
LEMMA SeqCat ==
  ASSUME NEW a, NEW b, Len(a) \in Nat, Len(b) \in Nat
  PROVE  /\ Len(a \o b) = Len(a) + Len(b)
         /\ \A j \in 1 .. Len(a) : (a \o b)[j] = a[j]
         /\ \A j \in 1 .. Len(b) : (a \o b)[Len(a) + j] = b[j]
<1>1. Len(a \o b) = Len(a) + Len(b)
  OBVIOUS
<1>2. \A j \in 1 .. Len(a) : (a \o b)[j] = a[j]
  BY <1>1
<1>3. ASSUME NEW j \in 1 .. Len(b) PROVE (a \o b)[Len(a) + j] = b[j]
  <2>1. Len(a) + j \in 1 .. Len(a) + Len(b) /\ ~(Len(a) + j <= Len(a)) /\ (Len(a) + j) - Len(a) = j
    OBVIOUS
  <2> QED
    BY <1>1, <2>1
<1> QED
  BY <1>1, <1>2, <1>3

(* Code that is one operation or none.                                     *)
LEMMA WhenAt ==
  ASSUME NEW g, NEW m
  PROVE  /\ Len(When(g, <<m>>)) = (IF g THEN 1 ELSE 0) /\ Len(When(g, <<m>>)) \in Nat
         /\ g => When(g, <<m>>)[1] = m
BY DEF When

(* The moves at the end of an instruction with two results.                *)
LEMMA ResultMoves ==
  ASSUME NEW i, NEW s, NEW h, Execution(i, s, h), NEW a, NEW k \in {1, 3}, Len(a) = k,
         NEW n1, NEW k1, NEW n2, NEW k2, NEW q1, NEW q2,
         q1 = When(n1 # 0, <<<<"mov", RD(n1), T(k1)>>>>), q2 = When(n2 # 0, <<<<"mov", RD(n2), T(k2)>>>>),
         trans(i, s.rb[0]) = a \o (q1 \o q2) \/ trans(i, s.rb[0]) = (a \o q1) \o q2
  PROVE  /\ \A j \in 1 .. k : h[j] \in State /\ Does(a[j], h[j - 1], h[j])
         /\ \E z : Moved(n1, k1, h[k], z) /\ Moved(n2, k2, z, Final(i, s, h))
<1> DEFINE m1 == <<"mov", RD(n1), T(k1)>>
           m2 == <<"mov", RD(n2), T(k2)>>
           c == trans(i, s.rb[0])
<1>2. \A x, y : /\ Moved(n1, k1, x, y) <=> (IF n1 # 0 THEN Does(m1, x, y) ELSE y = x)
                /\ Moved(n2, k2, x, y) <=> (IF n2 # 0 THEN Does(m2, x, y) ELSE y = x)
  BY DEF Moved
<1>4. /\ Len(q1) = (IF n1 # 0 THEN 1 ELSE 0) /\ Len(q2) = (IF n2 # 0 THEN 1 ELSE 0)
      /\ Len(q1) \in Nat /\ Len(q2) \in Nat /\ (n1 # 0 => q1[1] = m1) /\ (n2 # 0 => q2[1] = m2)
  BY WhenAt
<1> DEFINE l1 == Len(q1)
           l2 == Len(q2)
           n == k + l1 + l2
<1>0. c = a \o (q1 \o q2) \/ c = (a \o q1) \o q2
  OBVIOUS
<1> HIDE DEF m1, m2, c
<1>5. /\ Len(c) = n
      /\ \A j \in 1 .. k : c[j] = a[j]
      /\ \A j \in 1 .. l1 : c[k + j] = q1[j]
      /\ \A j \in 1 .. l2 : c[k + l1 + j] = q2[j]
  <2>0. Len(a) \in Nat
    OBVIOUS
  <2>1. CASE c = a \o (q1 \o q2)
    <3>1. PICK r : r = q1 \o q2
      OBVIOUS
    <3>2. /\ Len(r) = l1 + l2
          /\ \A j \in 1 .. l1 : r[j] = q1[j]
          /\ \A j \in 1 .. l2 : r[l1 + j] = q2[j]
      BY <1>4, <3>1, SeqCat
    <3> HIDE DEF l1, l2
    <3>3. Len(r) \in Nat /\ l1 \in Nat /\ l2 \in Nat
      BY <1>4, <3>2 DEF l1, l2
    <3>4. /\ Len(c) = k + Len(r)
          /\ \A j \in 1 .. k : c[j] = a[j]
          /\ \A j \in 1 .. Len(r) : c[k + j] = r[j]
      BY <2>0, <2>1, <3>1, <3>3, SeqCat, SMTT(60)
    <3>5. ASSUME NEW j \in 1 .. l2 PROVE c[k + l1 + j] = q2[j]
      <4>1. l1 + j \in 1 .. Len(r) /\ k + l1 + j = k + (l1 + j)
        BY <3>2, <3>3
      <4> QED
        BY <3>2, <3>4, <4>1
    <3>6. ASSUME NEW j \in 1 .. l1 PROVE c[k + j] = q1[j]
      <4>1. j \in 1 .. Len(r)
        BY <3>2, <3>3
      <4> QED
        BY <3>2, <3>4, <4>1
    <3>7. Len(c) = k + l1 + l2
      BY <3>2, <3>3, <3>4
    <3> QED
      BY <3>4, <3>5, <3>6, <3>7
  <2>2. CASE c = (a \o q1) \o q2
    <3>1. PICK r : r = a \o q1
      OBVIOUS
    <3>2. /\ Len(r) = k + l1
          /\ \A j \in 1 .. k : r[j] = a[j]
          /\ \A j \in 1 .. l1 : r[k + j] = q1[j]
      BY <1>4, <2>0, <3>1, SeqCat
    <3> HIDE DEF l1, l2
    <3>3. Len(r) \in Nat /\ l1 \in Nat /\ l2 \in Nat
      BY <1>4, <3>2 DEF l1, l2
    <3>4. /\ Len(c) = Len(r) + l2
          /\ \A j \in 1 .. Len(r) : c[j] = r[j]
          /\ \A j \in 1 .. l2 : c[Len(r) + j] = q2[j]
      BY <1>4, <2>2, <3>1, <3>3, SeqCat DEF l2
    <3>5. ASSUME NEW j \in 1 .. k PROVE c[j] = a[j]
      <4>1. j \in 1 .. Len(r)
        BY <3>2, <3>3
      <4> QED
        BY <3>2, <3>4, <4>1
    <3>6. ASSUME NEW j \in 1 .. l1 PROVE c[k + j] = q1[j]
      <4>1. k + j \in 1 .. Len(r)
        BY <3>2, <3>3
      <4> QED
        BY <3>2, <3>4, <4>1
    <3>7. \A j \in 1 .. l2 : c[k + l1 + j] = q2[j]
      BY <3>2, <3>4
    <3>8. Len(c) = k + l1 + l2
      BY <3>2, <3>4
    <3> QED
      BY <3>5, <3>6, <3>7, <3>8
  <2> QED
    BY <1>0, <2>1, <2>2
<1>6. l1 = (IF n1 # 0 THEN 1 ELSE 0) /\ l2 = (IF n2 # 0 THEN 1 ELSE 0)
  BY <1>4
<1> HIDE DEF l1, l2
<1>7. n \in Nat
  BY <1>6
<1> HIDE DEF n
<1>8. (\A j \in 0 .. n : h[j] \in State) /\ (\A j \in 1 .. n : Does(c[j], h[j - 1], h[j]))
      /\ Final(i, s, h) = h[n]
  BY <1>5, <1>7, ShortAt DEF c
<1>9. \A j \in 1 .. k : h[j] \in State /\ Does(a[j], h[j - 1], h[j])
  BY <1>5, <1>6, <1>8 DEF n
<1>10. \E z : Moved(n1, k1, h[k], z) /\ Moved(n2, k2, z, Final(i, s, h))
  <2>1. n1 # 0 => Does(m1, h[k], h[k + 1])
    <3> SUFFICES ASSUME n1 # 0 PROVE Does(m1, h[k], h[k + 1])
      OBVIOUS
    <3>1. k + 1 \in 1 .. n /\ 1 \in 1 .. l1 /\ (k + 1) - 1 = k
      BY <1>6 DEF n
    <3>2. c[k + 1] = m1
      BY <1>4, <1>5, <3>1
    <3>3. Does(c[k + 1], h[(k + 1) - 1], h[k + 1])
      BY <1>8, <3>1
    <3> QED
      BY <3>1, <3>2, <3>3
  <2>2. n2 # 0 => Does(m2, h[k + l1], h[k + l1 + 1])
    <3> SUFFICES ASSUME n2 # 0 PROVE Does(m2, h[k + l1], h[k + l1 + 1])
      OBVIOUS
    <3>1. k + l1 + 1 \in 1 .. n /\ 1 \in 1 .. l2 /\ (k + l1 + 1) - 1 = k + l1
      BY <1>6 DEF n
    <3>2. c[k + l1 + 1] = m2
      BY <1>4, <1>5, <3>1
    <3>3. Does(c[k + l1 + 1], h[(k + l1 + 1) - 1], h[k + l1 + 1])
      BY <1>8, <3>1
    <3> QED
      BY <3>1, <3>2, <3>3
  <2>3. Moved(n1, k1, h[k], h[k + l1])
    <3>1. (n1 = 0 => k + l1 = k) /\ (n1 # 0 => k + l1 = k + 1)
      BY <1>6
    <3> QED
      BY <1>2, <2>1, <3>1
  <2>4. Moved(n2, k2, h[k + l1], Final(i, s, h))
    <3>1. (n2 = 0 => n = k + l1) /\ (n2 # 0 => n = k + l1 + 1)
      BY <1>6 DEF n
    <3> QED
      BY <1>2, <1>8, <2>2, <3>1
  <2> QED
    BY <2>3, <2>4
<1> QED
  BY <1>9, <1>10

(* A wide operation into the temporaries.                                  *)
LEMMA WideTemps ==
  ASSUME NEW x \in State, NEW y, NEW u, DoubleOK(u), Does(u, x, y), u[2] = T(1), u[4] = T(2),
         NEW r \in Int, Wide(u, x) = CutTo(2 * XLEN, r)
  PROVE  TempSets(x, y) /\ y.t[1] = Cut(r) /\ y.t[2] = Cut(r \div M)
<1>1. Wide(u, x) % M = Cut(r) /\ Wide(u, x) \div M = Cut(r \div M)
  BY WideHalves
<1>2. PICK z \in State : Sets(x, z, T(1), Cut(r)) /\ Sets(z, y, T(2), Cut(r \div M))
  BY <1>1, DoesWide
<1>3. TempSets(x, z) /\ TempSets(z, y)
  BY <1>2, TempSteps
<1>4. Reg("t", 1) /\ Reg("t", 2)
  BY DEF Reg
<1>5. z.t[1] = Cut(r)
  BY <1>2, <1>4 DEF Sets, T
<1>6. y.t[1] = z.t[1] /\ y.t[2] = Cut(r \div M)
  BY <1>2, <1>4 DEF Sets, T
<1> QED
  BY <1>3, <1>5, <1>6, TempSteps

(* Multiplication.                                                         *)
LEMMA DoneMul ==
  ASSUME NEW i, NEW s, NEW h, Execution(i, s, h), i.form = "MUL"
  PROVE  Ends(i, s, Final(i, s, h))
<1> DEFINE num(v) == IF i.sign = "s" THEN Signed(v) ELSE v
           r == num(s.rd[i.hc]) * num(s.rd[i.hd])
           u == <<"mul", T(1), i.sign, T(2), RD(i.hc), RD(i.hd)>>
           q1 == When(i.ha # 0, <<<<"mov", RD(i.ha), T(2)>>>>)
           q2 == When(i.hb # 0, <<<<"mov", RD(i.hb), T(1)>>>>)
<1>1. Plain(i)
  BY DEF Plain, Branches
<1>2. i \in Insns /\ h[0] \in State /\ Encodable(i)
  BY Entry
<1>3. i.ha \in 0 .. NReg - 1 /\ i.hb \in 0 .. NReg - 1 /\ i.hc \in 0 .. NReg - 1 /\ i.hd \in 0 .. NReg - 1
  BY <1>2, Fields
<1>4. trans(i, s.rb[0]) = <<u>> \o (q1 \o q2)
  BY DEF trans, MUL, TwoResults
<1>5. Does(u, h[0], h[1]) /\ h[1] \in State
      /\ \E z : Moved(i.ha, 2, h[1], z) /\ Moved(i.hb, 1, z, Final(i, s, h))
  <2>1. PICK a : a = <<u>>
    OBVIOUS
  <2>2. Len(a) = 1 /\ a[1] = u /\ trans(i, s.rb[0]) = a \o (q1 \o q2)
    BY <1>4, <2>1
  <2>3. PICK p1, p2 : p1 = q1 /\ p2 = q2
    OBVIOUS
  <2> HIDE DEF u, q1, q2
  <2>4. trans(i, s.rb[0]) = a \o (p1 \o p2)
    BY <2>2, <2>3
  <2>5. p1 = When(i.ha # 0, <<<<"mov", RD(i.ha), T(2)>>>>) /\ p2 = When(i.hb # 0, <<<<"mov", RD(i.hb), T(1)>>>>)
    BY <2>3 DEF q1, q2
  <2>6. /\ \A j \in 1 .. 1 : h[j] \in State /\ Does(a[j], h[j - 1], h[j])
        /\ \E z : Moved(i.ha, 2, h[1], z) /\ Moved(i.hb, 1, z, Final(i, s, h))
    <3>1. 1 \in {1, 3}
      OBVIOUS
    <3> QED
      BY <2>2, <2>4, <2>5, <3>1, ResultMoves, ZenonT(60)
  <2> QED
    BY <2>2, <2>6
<1>6. s.rd[i.hc] \in Octa /\ s.rd[i.hd] \in Octa /\ h[0].rd[i.hc] = s.rd[i.hc] /\ h[0].rd[i.hd] = s.rd[i.hd]
  BY <1>3, Entry
<1>7. r \in Int
  BY <1>6, OctaInt, SignedLaws
<1>8. Wide(u, h[0]) = CutTo(2 * XLEN, r)
  <2>1. At(h[0], RD(i.hc)) = s.rd[i.hc] /\ At(h[0], RD(i.hd)) = s.rd[i.hd]
    BY <1>6, Reads
  <2> QED
    BY <2>1 DEF Wide
<1>9. DoubleOK(u) /\ u[2] = T(1) /\ u[4] = T(2)
  <2>1. Source(RD(i.hc)) /\ Source(RD(i.hd)) /\ Place(T(1)) /\ Place(T(2))
    BY <1>3, Operands
  <2> QED
    BY <2>1, OpShapes
<1>10. Writes(i, s) = {<<RD(i.hb), Cut(r)>>, <<RD(i.ha), Cut(r \div M)>>}
  BY DEF Writes, TwoWords
<1> HIDE DEF u, r
<1>11. TempSets(h[0], h[1]) /\ h[1].t[1] = Cut(r) /\ h[1].t[2] = Cut(r \div M)
  BY <1>2, <1>5, <1>7, <1>8, <1>9, WideTemps
<1>12. SameFiles(s, h[1]) /\ (Alone => h[1].mem = h[0].mem)
  BY <1>11 DEF TempSets, SameFiles, Execution
<1>13. Writes(i, s) = {<<RD(i.ha), h[1].t[2]>>, <<RD(i.hb), h[1].t[1]>>}
  BY <1>10, <1>11
<1>14. PICK z : Moved(i.ha, 2, h[1], z) /\ Moved(i.hb, 1, z, Final(i, s, h))
  BY <1>5
<1>15. 1 \in 1..3 /\ 2 \in 1..3
  OBVIOUS
<1> QED
  BY <1>1, <1>3, <1>5, <1>12, <1>13, <1>14, <1>15, EndsTwo, Zenon

(* Division.                                                               *)
LEMMA DoneDiv ==
  ASSUME NEW i, NEW s, NEW h, Execution(i, s, h), i.form = "DIV"
  PROVE  Ends(i, s, Final(i, s, h))
<1> DEFINE num(v) == IF i.sign = "s" THEN Signed(v) ELSE v
           v1 == DivRem("div", i.sign, s.rd[i.hc], s.rd[i.hd])
           v2 == DivRem("rem", i.sign, s.rd[i.hc], s.rd[i.hd])
           u1 == <<"excpz", "FPER", RD(i.hd)>>
           u2 == <<"div", T(1), i.sign, RD(i.hc), RD(i.hd)>>
           u3 == <<"rem", T(2), i.sign, RD(i.hc), RD(i.hd)>>
           q1 == When(i.ha # 0, <<<<"mov", RD(i.ha), T(2)>>>>)
           q2 == When(i.hb # 0, <<<<"mov", RD(i.hb), T(1)>>>>)
<1>1. Plain(i)
  BY DEF Plain, Branches
<1>2. i \in Insns /\ h[0] \in State /\ Encodable(i)
  BY Entry
<1>3. i.ha \in 0 .. NReg - 1 /\ i.hb \in 0 .. NReg - 1 /\ i.hc \in 0 .. NReg - 1 /\ i.hd \in 0 .. NReg - 1
  BY <1>2, Fields
<1>4. trans(i, s.rb[0]) = <<u1, u2, u3>> \o (q1 \o q2)
  BY DEF trans, DIV, TwoResults
<1>5. Does(u1, h[0], h[1]) /\ Does(u2, h[1], h[2]) /\ Does(u3, h[2], h[3])
      /\ h[1] \in State /\ h[2] \in State /\ h[3] \in State
      /\ \E z : Moved(i.ha, 2, h[3], z) /\ Moved(i.hb, 1, z, Final(i, s, h))
  <2>1. PICK a : a = <<u1, u2, u3>>
    OBVIOUS
  <2>2. Len(a) = 3 /\ a[1] = u1 /\ a[2] = u2 /\ a[3] = u3 /\ trans(i, s.rb[0]) = a \o (q1 \o q2)
    BY <1>4, <2>1
  <2>3. PICK p1, p2 : p1 = q1 /\ p2 = q2
    OBVIOUS
  <2> HIDE DEF u1, u2, u3, q1, q2
  <2>4. trans(i, s.rb[0]) = a \o (p1 \o p2)
    BY <2>2, <2>3
  <2>5. p1 = When(i.ha # 0, <<<<"mov", RD(i.ha), T(2)>>>>) /\ p2 = When(i.hb # 0, <<<<"mov", RD(i.hb), T(1)>>>>)
    BY <2>3 DEF q1, q2
  <2>6. /\ \A j \in 1 .. 3 : h[j] \in State /\ Does(a[j], h[j - 1], h[j])
        /\ \E z : Moved(i.ha, 2, h[3], z) /\ Moved(i.hb, 1, z, Final(i, s, h))
    BY <2>2, <2>4, <2>5, ResultMoves, ZenonT(60)
  <2> QED
    BY <2>2, <2>6
<1>6. s.rd[i.hc] \in Octa /\ s.rd[i.hd] \in Octa /\ h[0].rd[i.hc] = s.rd[i.hc] /\ h[0].rd[i.hd] = s.rd[i.hd]
  BY <1>3, Entry
<1>7. /\ Source(RD(i.hc)) /\ Source(RD(i.hd)) /\ Place(T(1)) /\ Place(T(2)) /\ "FPER" \in Excp \ {"none"}
      /\ Place(RD(i.hc)) /\ Place(RD(i.hd)) /\ Reg("rd", i.hc) /\ Reg("rd", i.hd) /\ Reg("t", 1) /\ Reg("t", 2)
  BY <1>3, Operands DEF Excp, Reg, Files
<1>8. Keeps(h[0], h[1]) /\ At(h[0], RD(i.hd)) # 0
  BY <1>2, <1>5, <1>7, DoesTest
<1>9. s.rd[i.hd] # 0 /\ h[1].rd[i.hc] = s.rd[i.hc] /\ h[1].rd[i.hd] = s.rd[i.hd]
  BY <1>6, <1>7, <1>8, Reads DEF Keeps, SameRegs
<1>10. Sets(h[1], h[2], T(1), v1)
  <2>1. At(h[1], RD(i.hc)) = s.rd[i.hc] /\ At(h[1], RD(i.hd)) = s.rd[i.hd]
    BY <1>9, Reads
  <2>2. Sets(h[1], h[2], T(1), DivRem("div", i.sign, At(h[1], RD(i.hc)), At(h[1], RD(i.hd))))
    BY <1>5, <1>7, <1>9, <2>1, DoesShapes
  <2> QED
    BY <2>1, <2>2
<1> HIDE DEF v1
<1>11. h[2].rd[i.hc] = s.rd[i.hc] /\ h[2].rd[i.hd] = s.rd[i.hd] /\ h[2].t[1] = v1
  BY <1>7, <1>9, <1>10 DEF Sets, T
<1>12. Sets(h[2], h[3], T(2), v2)
  <2>1. At(h[2], RD(i.hc)) = s.rd[i.hc] /\ At(h[2], RD(i.hd)) = s.rd[i.hd]
    BY <1>11, Reads
  <2>2. Sets(h[2], h[3], T(2), DivRem("rem", i.sign, At(h[2], RD(i.hc)), At(h[2], RD(i.hd))))
    BY <1>5, <1>7, <1>9, <2>1, DoesShapes
  <2> QED
    BY <2>1, <2>2
<1> HIDE DEF v2
<1>13. h[3].t[1] = v1 /\ h[3].t[2] = v2
  BY <1>7, <1>11, <1>12 DEF Sets, T
<1>14. Writes(i, s) = {<<RD(i.hb), v1>>, <<RD(i.ha), v2>>}
  BY DEF Writes, DivRem, v1, v2
<1>15. TempSets(h[0], h[3])
  <2>1. TempSets(h[0], h[1]) /\ TempSets(h[1], h[2]) /\ TempSets(h[2], h[3])
    BY <1>8, <1>10, <1>12, TempSteps
  <2> QED
    BY <2>1, TempSteps
<1>16. SameFiles(s, h[3]) /\ (Alone => h[3].mem = h[0].mem)
  BY <1>15 DEF TempSets, SameFiles, Execution
<1>17. Writes(i, s) = {<<RD(i.ha), h[3].t[2]>>, <<RD(i.hb), h[3].t[1]>>}
  BY <1>13, <1>14
<1>18. PICK z : Moved(i.ha, 2, h[3], z) /\ Moved(i.hb, 1, z, Final(i, s, h))
  BY <1>5
<1>19. 1 \in 1..3 /\ 2 \in 1..3
  OBVIOUS
<1> QED
  BY <1>1, <1>3, <1>5, <1>16, <1>17, <1>18, <1>19, EndsTwo, Zenon

(* Sums of two words.                                                      *)
LEMMA DoneAlg1 ==
  ASSUME NEW i, NEW s, NEW h, Execution(i, s, h), i.form = "ALG1"
  PROVE  Ends(i, s, Final(i, s, h))
<1> DEFINE x == s.rd[i.hc]
           y == s.rd[i.hd]
           r == IF i.alu = "add" THEN Signed(x) + Signed(y) ELSE Signed(x) - Signed(y)
<1>1. Plain(i)
  BY DEF Plain, Branches
<1>2. i \in Insns /\ h[0] \in State /\ Encodable(i)
  BY Entry
<1>3. i.ha \in 0 .. NReg - 1 /\ i.hb \in 0 .. NReg - 1 /\ i.hc \in 0 .. NReg - 1 /\ i.hd \in 0 .. NReg - 1
  BY <1>2, Fields
<1>4. i.alu \in {"add", "sub"} /\ i.alu \in Arith /\ "sar" \in Arith
  BY <1>2 DEF Encodable, Arith
<1>5. x \in Octa /\ y \in Octa /\ At(h[0], RD(i.hc)) = x /\ At(h[0], RD(i.hd)) = y
      /\ h[0].rd[i.hc] = x /\ h[0].rd[i.hd] = y
  <2>1. s.rd[i.hc] \in Octa /\ s.rd[i.hd] \in Octa /\ h[0].rd[i.hc] = s.rd[i.hc] /\ h[0].rd[i.hd] = s.rd[i.hd]
    BY <1>3, Entry
  <2> QED
    BY <2>1, Reads
<1>6. Writes(i, s) = {<<RD(i.hb), Cut(r)>>, <<RD(i.ha), Cut(r \div M)>>}
  BY DEF Writes, TwoWords
<1>7. r \in Int
  BY <1>5, SignedLaws
<1>8. /\ Source(RD(i.hc)) /\ Source(RD(i.hd)) /\ Place(T(1)) /\ Place(T(2)) /\ Source(T(1)) /\ Source(T(2))
      /\ Place(RD(i.hb)) /\ RD(i.hb) = <<"rd", i.hb>> /\ "rd" \in Files
      /\ Reg("rd", i.hc) /\ Reg("rd", i.hd) /\ Reg("t", 1) /\ Reg("t", 2)
  BY <1>3, Operands DEF RD, Files, Reg
<1>9. CASE i.ha = 0 /\ i.hb # 0
  <2>1. PICK u : u = <<i.alu, RD(i.hb), RD(i.hc), RD(i.hd)>>
    OBVIOUS
  <2>2. trans(i, s.rb[0]) = <<u>>
    BY <1>9, <2>1 DEF trans, ALG1
  <2>3. Does(u, h[0], h[1]) /\ Final(i, s, h) = h[1]
    BY <2>2, Short
  <2>4. Sets(h[0], h[1], RD(i.hb), Alu(i.alu, x, y))
    <3>1. Sets(h[0], h[1], RD(i.hb), Alu(i.alu, At(h[0], RD(i.hc)), At(h[0], RD(i.hd))))
      BY <1>2, <1>4, <1>8, <2>1, <2>3, DoesShapes
    <3> QED
      BY <1>5, <3>1
  <2>5. Alu(i.alu, x, y) = Cut(r)
    <3>1. Cut(Signed(x) + Signed(y)) = Cut(x + y) /\ Cut(Signed(x) - Signed(y)) = Cut(x - y)
      BY <1>5, CutSigned
    <3> QED
      BY <1>4, <3>1 DEF Alu
  <2>6. RD(i.ha) \in Special
    BY <1>9 DEF Special
  <2>7. PICK w, v : w = Writes(i, s) /\ v = Cut(r)
    OBVIOUS
  <2>8. w = {<<RD(i.hb), v>>, <<RD(i.ha), Cut(r \div M)>>}
    BY <1>6, <2>7
  <2>9. <<<<"rd", i.hb>>, v>> \in w /\ \A z \in w : z[1] = <<"rd", i.hb>> \/ z[1] \in Special
    BY <1>8, <2>6, <2>8
  <2>10. Sets(h[0], h[1], <<"rd", i.hb>>, v)
    BY <1>8, <2>4, <2>5, <2>7
  <2>11. Ends(i, s, h[1])
    BY <1>1, <1>3, <1>8, <2>7, <2>9, <2>10, EndsSets
  <2> QED
    BY <2>3, <2>11
<1>10. CASE ~(i.ha = 0 /\ i.hb # 0)
  <2> DEFINE u1 == <<"sar", T(1), RD(i.hc), K(XLEN - 1)>>
             u2 == <<"sar", T(2), RD(i.hd), K(XLEN - 1)>>
             u3 == <<"wide", T(1), i.alu, T(2), RD(i.hc), T(1), RD(i.hd), T(2)>>
             q1 == When(i.hb # 0, <<<<"mov", RD(i.hb), T(1)>>>>)
             q2 == When(i.ha # 0, <<<<"mov", RD(i.ha), T(2)>>>>)
  <2>1. trans(i, s.rb[0]) = (<<u1, u2, u3>> \o q1) \o q2
    BY <1>10 DEF trans, ALG1
  <2>2. Does(u1, h[0], h[1]) /\ Does(u2, h[1], h[2]) /\ Does(u3, h[2], h[3])
        /\ h[1] \in State /\ h[2] \in State /\ h[3] \in State
        /\ \E z : Moved(i.hb, 1, h[3], z) /\ Moved(i.ha, 2, z, Final(i, s, h))
    <3>1. PICK a : a = <<u1, u2, u3>>
      OBVIOUS
    <3>2. Len(a) = 3 /\ a[1] = u1 /\ a[2] = u2 /\ a[3] = u3 /\ trans(i, s.rb[0]) = (a \o q1) \o q2
      BY <2>1, <3>1
    <3>3. PICK p1, p2 : p1 = q1 /\ p2 = q2
      OBVIOUS
    <3> HIDE DEF u1, u2, u3, q1, q2
    <3>4. trans(i, s.rb[0]) = (a \o p1) \o p2
      BY <3>2, <3>3
    <3>5. p1 = When(i.hb # 0, <<<<"mov", RD(i.hb), T(1)>>>>) /\ p2 = When(i.ha # 0, <<<<"mov", RD(i.ha), T(2)>>>>)
      BY <3>3 DEF q1, q2
    <3>6. /\ \A j \in 1 .. 3 : h[j] \in State /\ Does(a[j], h[j - 1], h[j])
          /\ \E z : Moved(i.hb, 1, h[3], z) /\ Moved(i.ha, 2, z, Final(i, s, h))
      BY <3>2, <3>4, <3>5, ResultMoves
    <3> QED
      BY <3>2, <3>6
  <2> DEFINE g(v) == Cut(Signed(v) \div Pow2[XLEN - 1])
  <2>3. XLEN - 1 \in Octa /\ (XLEN - 1) % XLEN = XLEN - 1
    <3>1. XLEN \in Nat \ {0} /\ XLEN < M /\ M \in Nat
      BY WordSizes
    <3>2. XLEN - 1 \in 0 .. XLEN - 1 /\ XLEN - 1 \in Octa
      BY <3>1 DEF Octa
    <3> QED
      BY <3>1, <3>2, ModSmall
  <2>4. Source(K(XLEN - 1)) /\ \A z : At(z, K(XLEN - 1)) = XLEN - 1
    BY <2>3, ConstAt
  <2>5. \A v : Alu("sar", v, XLEN - 1) = g(v)
    BY <2>3 DEF Alu
  <2> HIDE DEF g
  <2>6. Sets(h[0], h[1], T(1), g(x))
    <3>1. Sets(h[0], h[1], T(1), Alu("sar", At(h[0], RD(i.hc)), At(h[0], K(XLEN - 1))))
      BY <1>2, <1>4, <1>8, <2>2, <2>4, DoesShapes, Zenon
    <3> QED
      BY <1>5, <2>4, <2>5, <3>1
  <2>7. h[1].rd[i.hc] = x /\ h[1].rd[i.hd] = y /\ h[1].t[1] = g(x)
    BY <1>5, <1>8, <2>6 DEF Sets, T
  <2>8. Sets(h[1], h[2], T(2), g(y))
    <3>1. Sets(h[1], h[2], T(2), Alu("sar", At(h[1], RD(i.hd)), At(h[1], K(XLEN - 1))))
      BY <1>4, <1>8, <2>2, <2>4, DoesShapes, Zenon
    <3>2. At(h[1], RD(i.hd)) = y
      BY <2>7, Reads
    <3> QED
      BY <2>4, <2>5, <3>1, <3>2
  <2>9. h[2].rd[i.hc] = x /\ h[2].rd[i.hd] = y /\ h[2].t[1] = g(x) /\ h[2].t[2] = g(y)
    BY <1>8, <2>7, <2>8 DEF Sets, T
  <2>10. Wide(u3, h[2]) = CutTo(2 * XLEN, r)
    <3>1. At(h[2], RD(i.hc)) = x /\ At(h[2], RD(i.hd)) = y /\ At(h[2], T(1)) = g(x) /\ At(h[2], T(2)) = g(y)
      BY <2>9, Reads
    <3> DEFINE a == x + M * g(x)
               b == y + M * g(y)
    <3>2. /\ CutTo(2 * XLEN, a + b) = CutTo(2 * XLEN, Signed(x) + Signed(y))
          /\ CutTo(2 * XLEN, a - b) = CutTo(2 * XLEN, Signed(x) - Signed(y))
      BY <1>5, WideSum DEF g
    <3>3. Wide(u3, h[2]) = CutTo(2 * XLEN, IF i.alu = "add" THEN a + b ELSE a - b)
      BY <3>1 DEF Wide
    <3> QED
      BY <3>2, <3>3
  <2>11. DoubleOK(u3) /\ u3[2] = T(1) /\ u3[4] = T(2)
    BY <1>8, OpShapes
  <2> HIDE DEF u3
  <2> HIDE DEF r
  <2>12. TempSets(h[2], h[3]) /\ h[3].t[1] = Cut(r) /\ h[3].t[2] = Cut(r \div M)
    BY <1>7, <2>2, <2>10, <2>11, WideTemps
  <2>13. TempSets(h[0], h[3])
    <3>1. TempSets(h[0], h[1]) /\ TempSets(h[1], h[2])
      BY <2>6, <2>8, TempSteps
    <3> QED
      BY <2>12, <3>1, TempSteps
  <2>14. SameFiles(s, h[3]) /\ (Alone => h[3].mem = h[0].mem)
    BY <2>13 DEF TempSets, SameFiles, Execution
  <2>15. Writes(i, s) = {<<RD(i.hb), h[3].t[1]>>, <<RD(i.ha), h[3].t[2]>>}
    BY <1>6, <2>12
  <2>16. PICK z : Moved(i.hb, 1, h[3], z) /\ Moved(i.ha, 2, z, Final(i, s, h))
    BY <2>2
  <2>17. 1 \in 1..3 /\ 2 \in 1..3
    OBVIOUS
  <2> QED
    BY <1>1, <1>3, <2>2, <2>14, <2>15, <2>16, <2>17, EndsTwo, Zenon
<1> QED
  BY <1>9, <1>10

(* Branches set the destination only.                                      *)
LEMMA EndsBranch ==
  ASSUME NEW i, NEW s, NEW h, Execution(i, s, h), i.form \in Branches, NEW x, TempSets(h[0], x), NEW y,
         Sets(x, y, JMP, NextPc(i, s))
  PROVE  Ends(i, s, y)
<1>0. i.form \notin {"ST", "STM"}
  BY DEF Branches
<1>1. \A g \in Files, k \in 0 .. NReg - 1 : Reg(g, k) /\ h[0][g][k] = s[g][k] /\ g # "jmp"
  BY Entry DEF Reg, Files
<1>2. \A g \in Files, k \in 0 .. NReg - 1 : y[g][k] = s[g][k]
  BY <1>1 DEF Sets, TempSets, SameFiles, JMP
<1>3. y \in State /\ (Alone => y.mem = StoredBy(i, s))
  BY <1>0, Entry DEF Sets, TempSets
<1>4. Reg("jmp", 0)
  BY DEF Reg
<1>5. y.jmp[0] = NextPc(i, s)
  BY <1>4 DEF Sets, JMP
<1>6. Writes(i, s) = {}
  <2>1. CASE i.form = "BR2"
    BY <2>1 DEF Writes
  <2>2. CASE i.form = "BR1"
    BY <2>2 DEF Writes
  <2>3. CASE i.form = "JUMPi"
    BY <2>3 DEF Writes
  <2>4. CASE i.form = "JUMPr"
    BY <2>4 DEF Writes
  <2> QED
    BY <2>1, <2>2, <2>3, <2>4 DEF Branches
<1>7. Leaves(Writes(i, s), s, y)
  BY <1>2, <1>6 DEF Leaves
<1> QED
  BY <1>3, <1>5, <1>7 DEF Ends

(* Branches and jumps leave their destination in jmp.                      *)
LEMMA DoneBranch ==
  ASSUME NEW i, NEW s, NEW h, Execution(i, s, h), i.form \in Branches
  PROVE  Ends(i, s, Final(i, s, h))
<1> DEFINE pc == s.rb[0]
           k1 == pc + i.imm * 4
           k2 == pc + 4
<1>1. i \in Insns /\ h[0] \in State /\ s \in State /\ s.rd[0] = 0 /\ pc \in Octa
  BY Entry DEF Execution
<1>2. i.ha \in 0 .. NReg - 1 /\ i.hb \in 0 .. NReg - 1 /\ i.imm \in Int /\ 0 \in 0 .. NReg - 1 /\ pc \in Int
  BY <1>1, Fields, Operands, OctaInt
<1>3. k1 \in Int /\ k2 \in Int
  BY <1>2
<1>4. /\ Source(RD(i.ha)) /\ Source(RD(i.hb)) /\ Source(RD(0)) /\ Source(RB(i.ha)) /\ Place(JMP) /\ Source(JMP)
      /\ Reg("rd", i.hb) /\ Reg("jmp", 0) /\ Place(RD(i.hb)) /\ JMP = <<"jmp", 0>>
  BY <1>2, Operands DEF Reg, Files, JMP
<1>5. Source(K(k1)) /\ Source(K(k2)) /\ \A z : At(z, K(k1)) = Cut(k1) /\ At(z, K(k2)) = Cut(k2)
  <2> HIDE DEF k1, k2
  <2>1. Source(K(k1)) /\ Source(K(k2))
    BY <1>3, Operands
  <2>2. \A z : At(z, K(k1)) = Cut(k1) /\ At(z, K(k2)) = Cut(k2)
    BY Reads
  <2> QED
    BY <2>1, <2>2
<1>6. /\ At(h[0], RD(i.ha)) = s.rd[i.ha] /\ At(h[0], RD(i.hb)) = s.rd[i.hb] /\ At(h[0], RD(0)) = 0
      /\ At(h[0], RB(i.ha)) = s.rb[i.ha] /\ s.rb[i.ha] \in Octa /\ s.rd[i.hb] \in Octa /\ h[0].rd[i.hb] = s.rd[i.hb]
  <2>1. /\ h[0].rd[i.ha] = s.rd[i.ha] /\ h[0].rd[i.hb] = s.rd[i.hb] /\ h[0].rd[0] = 0
        /\ h[0].rb[i.ha] = s.rb[i.ha] /\ s.rb[i.ha] \in Octa /\ s.rd[i.hb] \in Octa
    BY <1>1, <1>2, Entry
  <2> QED
    BY <2>1, Reads
<1>7. TempSets(h[0], h[0])
  BY <1>1 DEF TempSets, SameFiles
<1>8. k1 = pc + 4 * i.imm
  BY <1>2
<1>9. CASE i.form = "BR2"
  <2>1. PICK u : u = <<"movcond", JMP, i.cond, RD(i.ha), RD(i.hb), K(k1), K(k2)>>
    OBVIOUS
  <2>2. trans(i, s.rb[0]) = <<u>>
    BY <1>9, <2>1 DEF trans, BR2
  <2>3. Does(u, h[0], h[1]) /\ Final(i, s, h) = h[1]
    BY <2>2, Short
  <2> DEFINE g == Holds(i.cond, s.rd[i.ha], s.rd[i.hb])
  <2>4. Sets(h[0], h[1], JMP, IF g THEN Cut(k1) ELSE Cut(k2))
    <3>1. Sets(h[0], h[1], JMP, IF Holds(i.cond, At(h[0], RD(i.ha)), At(h[0], RD(i.hb)))
                                THEN At(h[0], K(k1)) ELSE At(h[0], K(k2)))
      BY <1>1, <1>4, <1>5, <2>1, <2>3, DoesShapes, Zenon
    <3> QED
      BY <1>5, <1>6, <3>1
  <2>5. NextPc(i, s) = Cut(pc + (IF g THEN 4 * i.imm ELSE 4))
    BY <1>9 DEF NextPc
  <2>6. NextPc(i, s) = IF g THEN Cut(k1) ELSE Cut(k2)
    BY <1>8, <2>5
  <2>7. Ends(i, s, h[1])
    BY <1>7, <2>4, <2>6, EndsBranch
  <2> QED
    BY <2>3, <2>7
<1>10. CASE i.form = "BR1"
  <2>1. PICK u : u = <<"movcond", JMP, i.cond, RD(i.ha), RD(0), K(k1), K(k2)>>
    OBVIOUS
  <2>2. trans(i, s.rb[0]) = <<u>>
    BY <1>10, <2>1 DEF trans, BR1
  <2>3. Does(u, h[0], h[1]) /\ Final(i, s, h) = h[1]
    BY <2>2, Short
  <2> DEFINE g == Holds(i.cond, s.rd[i.ha], 0)
  <2>4. Sets(h[0], h[1], JMP, IF g THEN Cut(k1) ELSE Cut(k2))
    <3>1. Sets(h[0], h[1], JMP, IF Holds(i.cond, At(h[0], RD(i.ha)), At(h[0], RD(0)))
                                THEN At(h[0], K(k1)) ELSE At(h[0], K(k2)))
      BY <1>1, <1>4, <1>5, <2>1, <2>3, DoesShapes, Zenon
    <3> QED
      BY <1>5, <1>6, <3>1
  <2>5. NextPc(i, s) = Cut(pc + (IF g THEN 4 * i.imm ELSE 4))
    BY <1>10 DEF NextPc
  <2>6. NextPc(i, s) = IF g THEN Cut(k1) ELSE Cut(k2)
    BY <1>8, <2>5
  <2>7. Ends(i, s, h[1])
    BY <1>7, <2>4, <2>6, EndsBranch
  <2> QED
    BY <2>3, <2>7
<1>11. CASE i.form = "JUMPi"
  <2>1. PICK u : u = <<"mov", JMP, K(k1)>>
    OBVIOUS
  <2>2. trans(i, s.rb[0]) = <<u>>
    BY <1>11, <2>1 DEF trans, JUMPi
  <2>3. Does(u, h[0], h[1]) /\ Final(i, s, h) = h[1]
    BY <2>2, Short
  <2>4. Sets(h[0], h[1], JMP, Cut(k1))
    <3>1. Sets(h[0], h[1], JMP, At(h[0], K(k1)))
      BY <1>1, <1>4, <1>5, <2>1, <2>3, DoesShapes, Zenon
    <3> QED
      BY <1>5, <3>1
  <2>5. NextPc(i, s) = Cut(pc + 4 * i.imm)
    BY <1>11 DEF NextPc
  <2>7. Ends(i, s, h[1])
    BY <1>7, <1>8, <2>4, <2>5, EndsBranch
  <2> QED
    BY <2>3, <2>7
<1>12. CASE i.form = "JUMPr"
  <2> DEFINE a == s.rb[i.ha]
             b == s.rd[i.hb]
             d == i.imm * 4
  <2>1. PICK u1, u2, u3 : /\ u1 = <<"mov", JMP, RB(i.ha)>>
                          /\ u2 = <<"add", JMP, JMP, RD(i.hb)>> /\ u3 = <<"add", JMP, JMP, K(d)>>
    OBVIOUS
  <2>2. trans(i, s.rb[0]) = <<u1, u2, u3>>
    BY <1>12, <2>1 DEF trans, JUMPr
  <2>3. Does(u1, h[0], h[1]) /\ Does(u2, h[1], h[2]) /\ Does(u3, h[2], h[3])
        /\ h[1] \in State /\ h[2] \in State /\ Final(i, s, h) = h[3]
    BY <2>2, Short
  <2>4. d \in Int /\ "add" \in Arith /\ a \in Int /\ b \in Int
    BY <1>2, <1>6, OctaInt DEF Arith
  <2>5. Source(K(d)) /\ \A z : At(z, K(d)) = Cut(d)
    BY <2>4, Operands, Reads, ZenonT(60)
  <2>6. Sets(h[0], h[1], JMP, a)
    BY <1>1, <1>4, <1>6, <2>1, <2>3, DoesShapes
  <2>7. At(h[1], JMP) = a /\ At(h[1], RD(i.hb)) = b
    <3>1. h[1].rd[i.hb] = b /\ h[1].jmp[0] = a
      BY <1>4, <1>6, <2>6 DEF Sets, JMP
    <3> QED
      BY <3>1, Reads
  <2>8. Sets(h[1], h[2], JMP, Cut(a + b))
    <3>1. Sets(h[1], h[2], JMP, Alu("add", At(h[1], JMP), At(h[1], RD(i.hb))))
      BY <1>4, <2>1, <2>3, <2>4, DoesShapes, Zenon
    <3> QED
      BY <2>7, <3>1 DEF Alu
  <2>9. At(h[2], JMP) = Cut(a + b)
    <3>1. h[2].jmp[0] = Cut(a + b)
      BY <1>4, <2>8 DEF Sets, JMP
    <3> QED
      BY <3>1, Reads
  <2>10. Sets(h[2], h[3], JMP, Cut(Cut(a + b) + Cut(d)))
    <3>1. Sets(h[2], h[3], JMP, Alu("add", At(h[2], JMP), At(h[2], K(d))))
      BY <1>4, <2>1, <2>3, <2>4, <2>5, DoesShapes, Zenon
    <3> QED
      BY <2>5, <2>9, <3>1 DEF Alu
  <2>11. NextPc(i, s) = Cut(a + b + 4 * i.imm)
    BY <1>12 DEF NextPc
  <2>12. Cut(Cut(a + b) + Cut(d)) = NextPc(i, s)
    <3>1. PICK c \in Int : c = a + b
      BY <2>4
    <3>2. Cut(c) \in Int
      BY CutLaws, OctaInt
    <3>3. Cut(Cut(c) + Cut(d)) = Cut(Cut(c) + d) /\ Cut(Cut(c) + d) = Cut(c + d)
      BY <2>4, <3>2, CutLaws
    <3>4. c + d = a + b + 4 * i.imm
      BY <1>2, <2>4, <3>1
    <3> QED
      BY <2>11, <3>1, <3>3, <3>4
  <2>13. TempSets(h[0], h[2])
    <3>1. \A g \in Files, k \in 0 .. NReg - 1 : Reg(g, k) /\ g # "jmp"
      BY DEF Reg, Files
    <3> QED
      BY <2>6, <2>8, <3>1 DEF TempSets, SameFiles, Sets, JMP
  <2>14. Ends(i, s, h[3])
    BY <2>10, <2>12, <2>13, EndsBranch
  <2> QED
    BY <2>3, <2>14
<1> QED
  BY <1>9, <1>10, <1>11, <1>12 DEF Branches

(* Instructions that do nothing, and those that end in an exception.       *)
LEMMA DoneNone ==
  ASSUME NEW i, NEW s, NEW h, Execution(i, s, h)
  PROVE  /\ i.form = "SWYM" => Ends(i, s, Final(i, s, h))
         /\ trans(i, s.rb[0])[1] # <<"excp", "ILLI">> \/ Len(trans(i, s.rb[0])) = 0
         /\ trans(i, s.rb[0])[1] # <<"excp", "TRAP">> \/ Len(trans(i, s.rb[0])) = 0
<1>1. ASSUME i.form = "SWYM" PROVE Ends(i, s, Final(i, s, h))
  <2>1. trans(i, s.rb[0]) = <<>>
    BY <1>1 DEF trans
  <2>2. Writes(i, s) = {}
    BY <1>1 DEF Writes
  <2>3. Plain(i)
    BY <1>1 DEF Plain, Branches
  <2> QED
    BY <2>1, <2>2, <2>3, EndsNone
<1>2. ASSUME NEW e \in {"ILLI", "TRAP"}, trans(i, s.rb[0])[1] = <<"excp", e>>, Len(trans(i, s.rb[0])) # 0
      PROVE  FALSE
  <2> DEFINE n == Len(trans(i, s.rb[0]))
  <2>1. n \in Nat /\ h[0] \in State
    BY Entry
  <2>2. 1 \in 1 .. n /\ 1 - 1 = 0
    BY <1>2, <2>1
  <2>3. Does(trans(i, s.rb[0])[1], h[1 - 1], h[1])
    BY <2>1, <2>2, ShortAt
  <2>4. Does(<<"excp", e>>, h[0], h[1])
    BY <1>2, <2>2, <2>3
  <2>5. e \in Excp \ {"none"}
    BY DEF Excp
  <2> QED
    BY <2>1, <2>4, <2>5, DoesTest
<1> QED
  BY <1>1, <1>2

-----------------------------------------------------------------------------
(* The floating-point status. *)

Mask == RdMode + FFlags
Clean(v) == (v & Mask) | FcsrDefault

(* The masks are numbers, and together they are the sum.                   *)
LEMMA Masks ==
  /\ RdMode \in Nat /\ FFlags \in Nat /\ FcsrDefault \in Nat /\ Mask \in Nat /\ Mask = RdMode | FFlags
  /\ Mask & RdMode = RdMode /\ Mask & FFlags = FFlags /\ FcsrDefault & Mask = 0 /\ FFlags & RdMode = 0
<1>1. RdMode \in Nat /\ FFlags \in Nat /\ FcsrDefault \in Nat
  BY MachineAssumption, OctaInt
<1>2. RdMode & FFlags = 0 /\ FcsrDefault & RdMode = 0 /\ FcsrDefault & FFlags = 0
  BY MachineAssumption
<1>3. Mask \in Nat /\ Mask = RdMode | FFlags
  BY <1>1, <1>2 DEF Mask, |
<1>4. FFlags & RdMode = 0 /\ RdMode & FcsrDefault = 0 /\ FFlags & FcsrDefault = 0
  BY <1>1, <1>2, AndComm
<1>5. (RdMode | FFlags) & RdMode = (RdMode & RdMode) | (FFlags & RdMode)
      /\ (RdMode | FFlags) & FFlags = (RdMode & FFlags) | (FFlags & FFlags)
      /\ (RdMode | FFlags) & FcsrDefault = (RdMode & FcsrDefault) | (FFlags & FcsrDefault)
  BY <1>1, AndOverOr
<1>6. RdMode & RdMode = RdMode /\ FFlags & FFlags = FFlags
  BY <1>1, AndIdem
<1>7. RdMode | 0 = RdMode /\ 0 | FFlags = FFlags /\ 0 | 0 = 0
  BY <1>1, OrType
<1>8. Mask & FcsrDefault = FcsrDefault & Mask
  BY <1>1, <1>3, AndComm
<1> QED
  BY <1>1, <1>2, <1>3, <1>4, <1>5, <1>6, <1>7, <1>8

(* What the fixed registers' operations make of the status.                *)
LEMMA CleanLaws ==
  ASSUME NEW v \in Octa
  PROVE  /\ v \in Nat /\ v & Mask \in Nat /\ Clean(v) \in Nat /\ Clean(v) \in Octa
         /\ Clean(v) & RdMode = v & RdMode /\ Clean(v) & FFlags = v & FFlags
         /\ Clean(Clean(v)) = Clean(v)
<1> DEFINE a == v & Mask
           D == FcsrDefault
<1>1. v \in Nat /\ a \in Nat /\ a <= v /\ D \in Nat /\ v < M
  BY OctaInt, Masks, AndType
<1>2. Clean(v) = a | D
  BY DEF Clean
<1>3. a \in Octa /\ D \in Octa
  BY <1>1, MachineAssumption, WordSizes DEF Octa
<1>4. \A m \in Nat : (a | D) & m = (a & m) | (D & m) /\ a & m = v & (Mask & m)
  BY <1>1, Masks, AndOverOr, AndAssoc
<1>5. (a | D) \in Nat /\ (a | D) \in Octa
  <2>1. a \in 0 .. Pow2[XLEN] - 1 /\ D \in 0 .. Pow2[XLEN] - 1 /\ XLEN \in Nat
    BY <1>3, WordSizes DEF Octa, M
  <2>2. (a | D) \in 0 .. Pow2[XLEN] - 1
    BY <2>1, BitBounds, Zenon
  <2>3. (a | D) \in Octa
    BY <2>2 DEF Octa, M
  <2> QED
    BY <2>3, OctaInt
<1>6. D & RdMode = 0 /\ D & FFlags = 0 /\ D & Mask = 0
  BY MachineAssumption, Masks
<1>7. Mask & RdMode = RdMode /\ Mask & FFlags = FFlags /\ Mask & Mask = Mask
      /\ RdMode \in Nat /\ FFlags \in Nat /\ Mask \in Nat
  BY Masks, AndIdem
<1>8. a & RdMode = v & RdMode /\ a & FFlags = v & FFlags /\ a & Mask = a
  BY <1>4, <1>7
<1>9. v & RdMode \in Nat /\ v & FFlags \in Nat
  BY <1>1, <1>7, AndType
<1>10. \A m \in Nat : m | 0 = m
  BY OrType
<1>11. (a | D) & RdMode = v & RdMode /\ (a | D) & FFlags = v & FFlags /\ (a | D) & Mask = a
  BY <1>1, <1>4, <1>6, <1>7, <1>8, <1>9, <1>10
<1> QED
  BY <1>1, <1>2, <1>5, <1>11 DEF Clean

(* Mode and flags are kept by doing nothing, in two steps, by the fixed    *)
(* registers' operations, and by adding flags.                             *)
LEMMA KeptLaws ==
  ASSUME NEW x \in Octa, NEW y \in Octa, NEW z \in Octa
  PROVE  /\ Kept(x, x)
         /\ Kept(x, y) /\ Kept(y, z) => Kept(x, z)
         /\ Kept(x, Clean(x))
         /\ \A f \in Nat : Kept(x, x | (f & FFlags))
<1> DEFINE F == FFlags
           p == x & F
           q == y & F
           r == z & F
<1>1. x \in Nat /\ y \in Nat /\ z \in Nat /\ F \in Nat /\ RdMode \in Nat
  BY OctaInt, Masks
<1>2. p \in Nat /\ q \in Nat /\ r \in Nat
  BY <1>1, AndType
<1>3. p & p = p
  BY <1>2, AndIdem
<1>4. Kept(x, x)
  BY <1>3 DEF Kept
<1>5. Kept(x, y) /\ Kept(y, z) => Kept(x, z)
  <2> SUFFICES ASSUME Kept(x, y), Kept(y, z) PROVE Kept(x, z)
    OBVIOUS
  <2>1. p & q = p /\ q & r = q /\ z & RdMode = x & RdMode
    BY DEF Kept
  <2> HIDE DEF p, q, r
  <2>2. (p & q) & r = p & (q & r)
    BY <1>2, AndAssoc
  <2>3. p & r = p
    BY <2>1, <2>2
  <2> QED
    BY <2>1, <2>3 DEF Kept, p, r
<1>6. Kept(x, Clean(x))
  <2>1. Clean(x) & RdMode = x & RdMode /\ Clean(x) & F = p
    BY CleanLaws
  <2> QED
    BY <1>3, <2>1 DEF Kept
<1>7. ASSUME NEW f \in Nat PROVE Kept(x, x | (f & F))
  <2> DEFINE g == f & F
  <2>1. g \in Nat
    BY <1>1, AndType
  <2>2. (x | g) & RdMode = (x & RdMode) | (g & RdMode) /\ (x | g) & F = p | (g & F)
    BY <1>1, <2>1, AndOverOr
  <2>3. g & RdMode = 0
    <3>1. g & RdMode = f & (F & RdMode)
      BY <1>1, AndAssoc
    <3>2. F & RdMode = 0 /\ f & 0 = 0
      BY Masks, AndZero
    <3> QED
      BY <3>1, <3>2
  <2>4. (x | g) & RdMode = x & RdMode
    <3>1. x & RdMode \in Nat
      BY <1>1, AndType
    <3>2. (x & RdMode) | 0 = x & RdMode
      BY <3>1, OrType
    <3> QED
      BY <2>2, <2>3, <3>2
  <2> DEFINE e == g & F
  <2>5. e \in Nat
    BY <1>1, <2>1, AndType
  <2>6. p & (p | e) = p
    <3> HIDE DEF p, e
    <3>1. p | e \in Nat /\ e & p \in Nat
      BY <1>2, <2>5, OrType, AndType
    <3>2. p & (p | e) = (p | e) & p /\ (p | e) & p = (p & p) | (e & p)
      BY <1>2, <2>5, <3>1, AndComm, AndOverOr
    <3>3. p & (e & p) = e & p
      <4>1. p & (e & p) = (p & e) & p /\ p & e = e & p /\ (e & p) & p = e & (p & p)
        BY <1>2, <2>5, AndAssoc, AndComm
      <4> QED
        BY <1>3, <4>1
    <3>4. p | (e & p) = p
      BY <1>2, <3>1, <3>3 DEF |
    <3> QED
      BY <1>3, <3>2, <3>4
  <2> QED
    BY <2>2, <2>4, <2>6 DEF Kept
<1> QED
  BY <1>4, <1>5, <1>6, <1>7

(* y is x after a floating-point function with its result in d. *)
FpStep(x, y, d) ==
  /\ y \in State /\ (Alone => y.mem = x.mem)
  /\ \A f \in Files, n \in 0 .. NReg - 1 : <<f, n>> # d /\ <<f, n>> # RF(0) => y[f][n] = x[f][n]
  /\ y[d[1]][d[2]] \in FpResults
  /\ Alone /\ d # RF(0) => Kept(x.rf[0], y.rf[0])

(* The four operations of a helper, and the two of a function that leaves  *)
(* the status alone.                                                       *)
LEMMA FpBlock ==
  ASSUME NEW f \in Files, NEW n \in 0 .. NReg - 1, NEW srcs,
         NEW x \in State, NEW x1 \in State, NEW x2 \in State, NEW x3 \in State, NEW x4 \in State
  PROVE  /\ Does(<<"head">>, x, x1) /\ Does(<<"fp", T(3), srcs>>, x1, x2) /\ Does(<<"tail">>, x2, x3)
            /\ Does(<<"mov", <<f, n>>, T(3)>>, x3, x4) => FpStep(x, x4, <<f, n>>)
         /\ Does(<<"fp", T(3), srcs>>, x, x1) /\ Does(<<"mov", <<f, n>>, T(3)>>, x1, x2)
            => FpStep(x, x2, <<f, n>>)
<1> DEFINE d == <<f, n>>
<1>0. /\ \A g \in Files, k \in 0 .. NReg - 1 : Reg(g, k) /\ g # "t"
      /\ Reg("rf", 0) /\ Reg("t", 3) /\ Place(d) /\ Source(T(3)) /\ RF(0) = <<"rf", 0>>
      /\ 0 \in 0 .. NReg - 1 /\ "rf" \in Files
  BY Operands DEF Reg, Files, RF
<1>1. \A y, z : y \in State /\ z \in State /\ Does(<<"mov", d, T(3)>>, y, z) => Sets(y, z, d, y.t[3])
  <2> SUFFICES ASSUME NEW y \in State, NEW z \in State, Does(<<"mov", d, T(3)>>, y, z) PROVE Sets(y, z, d, y.t[3])
    OBVIOUS
  <2>1. Sets(y, z, d, At(y, T(3)))
    BY <1>0, DoesShapes
  <2> QED
    BY <2>1, Reads
<1>2. ASSUME Does(<<"head">>, x, x1), Does(<<"fp", T(3), srcs>>, x1, x2), Does(<<"tail">>, x2, x3),
             Does(<<"mov", d, T(3)>>, x3, x4)
      PROVE  FpStep(x, x4, d)
  <2>1. SameRegs(x, x1) /\ x1.rf0_fcsr = x.rf[0] /\ x1.flags = x.rf[0] & FFlags /\ (Alone => x1.mem = x.mem)
    BY <1>2, DoesFloat
  <2>2. /\ x2.t[3] \in FpResults
        /\ \A g, k : Reg(g, k) /\ ~(g = "t" /\ k = 3) => x2[g][k] = x1[g][k]
        /\ Alone => x2.mem = x1.mem /\ x2.rf0_fcsr = x1.rf0_fcsr
    BY <1>2, DoesFloat
  <2>3. /\ \A g, k : Reg(g, k) /\ ~(g = "rf" /\ k = 0) => x3[g][k] = x2[g][k]
        /\ Alone => x3.mem = x2.mem /\ x3.rf[0] = x2.rf0_fcsr | (x2.flags & FFlags)
    BY <1>2, DoesFloat
  <2>4. Sets(x3, x4, d, x3.t[3])
    BY <1>1, <1>2
  <2>5. x3.t[3] = x2.t[3]
    BY <1>0, <2>3
  <2>6. \A g \in Files, k \in 0 .. NReg - 1 : <<g, k>> # d /\ <<g, k>> # RF(0) => x4[g][k] = x[g][k]
    <3> SUFFICES ASSUME NEW g \in Files, NEW k \in 0 .. NReg - 1, <<g, k>> # d, <<g, k>> # RF(0)
                 PROVE  x4[g][k] = x[g][k]
      OBVIOUS
    <3>1. ~(g = f /\ k = n) /\ ~(g = "rf" /\ k = 0) /\ Reg(g, k) /\ g # "t"
      BY <1>0
    <3>2. x4[g][k] = x3[g][k]
      BY <2>4, <3>1 DEF Sets
    <3>3. x3[g][k] = x2[g][k] /\ x2[g][k] = x1[g][k] /\ x1[g][k] = x[g][k]
      BY <2>1, <2>2, <2>3, <3>1 DEF SameRegs
    <3> QED
      BY <3>2, <3>3
  <2>7. x4[f][n] \in FpResults
    <3>1. x4[f][n] = x3.t[3]
      BY <1>0, <2>4 DEF Sets
    <3> QED
      BY <2>2, <2>5, <3>1
  <2>8. ASSUME Alone, d # RF(0) PROVE Kept(x.rf[0], x4.rf[0])
    <3>1. x4.rf[0] = x3.rf[0]
      <4>1. ~("rf" = f /\ 0 = n)
        BY <1>0, <2>8
      <4> QED
        BY <1>0, <2>4, <4>1 DEF Sets
    <3>2. x3.rf[0] = x.rf[0] | (x2.flags & FFlags)
      BY <2>1, <2>2, <2>3, <2>8
    <3>3. x.rf[0] \in Octa
      BY <1>0 DEF State, RegFile
    <3>4. x2.flags \in Nat
      BY DEF State
    <3> QED
      BY <3>1, <3>2, <3>3, <3>4, KeptLaws
  <2>9. Alone => x4.mem = x.mem
    BY <2>1, <2>2, <2>3, <2>4 DEF Sets
  <2>10. d[1] = f /\ d[2] = n
    OBVIOUS
  <2> HIDE DEF d
  <2> QED
    BY <2>6, <2>7, <2>8, <2>9, <2>10 DEF FpStep
<1>3. ASSUME Does(<<"fp", T(3), srcs>>, x, x1), Does(<<"mov", d, T(3)>>, x1, x2) PROVE FpStep(x, x2, d)
  <2>1. /\ x1.t[3] \in FpResults
        /\ \A g, k : Reg(g, k) /\ ~(g = "t" /\ k = 3) => x1[g][k] = x[g][k]
        /\ Alone => x1.mem = x.mem
    BY <1>3, DoesFloat
  <2>2. Sets(x1, x2, d, x1.t[3])
    BY <1>1, <1>3
  <2>3. \A g \in Files, k \in 0 .. NReg - 1 : <<g, k>> # d => x2[g][k] = x[g][k]
    <3> SUFFICES ASSUME NEW g \in Files, NEW k \in 0 .. NReg - 1, <<g, k>> # d PROVE x2[g][k] = x[g][k]
      OBVIOUS
    <3>1. ~(g = f /\ k = n) /\ Reg(g, k) /\ g # "t"
      BY <1>0
    <3>2. x2[g][k] = x1[g][k]
      BY <2>2, <3>1 DEF Sets
    <3> QED
      BY <2>1, <3>1, <3>2
  <2>4. x2[f][n] \in FpResults
    <3>1. x2[f][n] = x1.t[3]
      BY <1>0, <2>2 DEF Sets
    <3> QED
      BY <2>1, <3>1
  <2>5. d # RF(0) => Kept(x.rf[0], x2.rf[0])
    <3>1. x.rf[0] \in Octa
      BY <1>0 DEF State, RegFile
    <3>2. d # RF(0) => x2.rf[0] = x.rf[0]
      BY <1>0, <2>3
    <3> QED
      BY <3>1, <3>2, KeptLaws
  <2>6. (Alone => x2.mem = x.mem) /\ d[1] = f /\ d[2] = n
    BY <2>1, <2>2 DEF Sets
  <2> HIDE DEF d
  <2> QED
    BY <2>3, <2>4, <2>5, <2>6 DEF FpStep
<1> QED
  BY <1>2, <1>3

(* What is to be shown of a floating-point instruction: its results, and   *)
(* the status if rf0 is not among them.                                    *)
FpEnds(i, s, y) ==
  Ends(i, s, y) /\ (Alone /\ (\A v \in Writes(i, s) : v[1] # RF(0)) => Kept(s.rf[0], y.rf[0]))

(* A floating-point step ends an instruction of one result.                *)
LEMMA EndsFp ==
  ASSUME NEW i, NEW s, NEW h, Execution(i, s, h), Plain(i), NEW y, NEW f \in Files, NEW n \in 0 .. NReg - 1,
         FpStep(h[0], y, <<f, n>>), Writes(i, s) = {<<<<f, n>>, v>> : v \in FpResults}
  PROVE  FpEnds(i, s, y)
<1>0. PICK d : d = <<f, n>>
  OBVIOUS
<1>1. d[1] = f /\ d[2] = n /\ FpStep(h[0], y, d) /\ Writes(i, s) = {<<d, v>> : v \in FpResults}
  BY <1>0
<1>2. \A g \in Files, k \in 0 .. NReg - 1 : h[0][g][k] = s[g][k]
  BY Entry
<1>3. y[f][n] \in FpResults /\ y \in State /\ (Alone => y.mem = StoredBy(i, s))
  BY <1>1, Entry DEF FpStep, Plain
<1>4. Leaves(Writes(i, s), s, y)
  <2> SUFFICES ASSUME NEW g \in Files, NEW k \in 0 .. NReg - 1, <<g, k>> \notin Special
               PROVE  \/ <<<<g, k>>, y[g][k]>> \in {<<d, v>> : v \in FpResults}
                      \/ y[g][k] = s[g][k] /\ \A u \in {<<d, v>> : v \in FpResults} : u[1] # <<g, k>>
    BY <1>1 DEF Leaves
  <2>1. CASE <<g, k>> = d
    <3>1. g = f /\ k = n
      BY <1>0, <2>1
    <3> QED
      BY <1>3, <2>1, <3>1
  <2>2. CASE <<g, k>> # d
    <3>1. <<g, k>> # RF(0)
      BY DEF Special
    <3>2. y[g][k] = s[g][k]
      BY <1>1, <1>2, <2>2, <3>1 DEF FpStep
    <3> QED
      BY <2>2, <3>2
  <2> QED
    BY <2>1, <2>2
<1>5. Ends(i, s, y)
  BY <1>3, <1>4 DEF Ends, Plain
<1>6. ASSUME Alone, \A v \in Writes(i, s) : v[1] # RF(0) PROVE Kept(s.rf[0], y.rf[0])
  <2>1. <<d, y[f][n]>> \in Writes(i, s)
    BY <1>1, <1>3
  <2>2. d # RF(0)
    BY <1>6, <2>1
  <2>3. h[0].rf[0] = s.rf[0]
    BY <1>2, Operands DEF Files
  <2> QED
    BY <1>1, <1>6, <2>2, <2>3 DEF FpStep
<1> QED
  BY <1>5, <1>6 DEF FpEnds

(* Code that is a helper, or one of the functions without.                 *)
LEMMA FpCode ==
  ASSUME NEW i, NEW s, NEW h, Execution(i, s, h), NEW f \in Files, NEW n \in 0 .. NReg - 1, NEW srcs,
         NEW c, c = trans(i, s.rb[0])
  PROVE  /\ Len(c) = 4 /\ (\A j \in 1..4 : c[j] = Helper(<<f, n>>, srcs)[j])
            => FpStep(h[0], Final(i, s, h), <<f, n>>)
         /\ Len(c) = 2 /\ c[1] = <<"fp", T(3), srcs>> /\ c[2] = <<"mov", <<f, n>>, T(3)>>
            => FpStep(h[0], Final(i, s, h), <<f, n>>)
<1>0. h[0] \in State
  BY Entry
<1>1. ASSUME Len(c) = 4, \A j \in 1..4 : c[j] = Helper(<<f, n>>, srcs)[j]
      PROVE  FpStep(h[0], Final(i, s, h), <<f, n>>)
  <2>1. PICK u1, u2, u3, u4 : u1 = <<"head">> /\ u2 = <<"fp", T(3), srcs>> /\ u3 = <<"tail">>
                              /\ u4 = <<"mov", <<f, n>>, T(3)>>
    OBVIOUS
  <2>2. Helper(<<f, n>>, srcs) = <<u1, u2, u3, u4>>
    BY <2>1 DEF Helper
  <2>3. c[1] = u1 /\ c[2] = u2 /\ c[3] = u3 /\ c[4] = u4
    BY <1>1, <2>2
  <2>4. (\A j \in 0 .. 4 : h[j] \in State) /\ (\A j \in 1 .. 4 : Does(c[j], h[j - 1], h[j]))
        /\ Final(i, s, h) = h[4]
    <3>1. PICK k \in Nat : k = 4
      OBVIOUS
    <3>2. Len(trans(i, s.rb[0])) = k
      BY <1>1, <3>1
    <3>3. (\A j \in 0 .. k : h[j] \in State) /\ (\A j \in 1 .. k : Does(trans(i, s.rb[0])[j], h[j - 1], h[j]))
          /\ Final(i, s, h) = h[k]
      BY <3>2, ShortAt
    <3> QED
      BY <3>1, <3>3
  <2>5. h[1] \in State /\ h[2] \in State /\ h[3] \in State /\ h[4] \in State
    BY <2>4
  <2>6. Does(c[1], h[0], h[1]) /\ Does(c[2], h[1], h[2]) /\ Does(c[3], h[2], h[3]) /\ Does(c[4], h[3], h[4])
    BY <2>4
  <2>7. Does(<<"head">>, h[0], h[1]) /\ Does(<<"fp", T(3), srcs>>, h[1], h[2]) /\ Does(<<"tail">>, h[2], h[3])
        /\ Does(<<"mov", <<f, n>>, T(3)>>, h[3], h[4])
    BY <2>1, <2>3, <2>6
  <2>8. FpStep(h[0], h[4], <<f, n>>)
    BY <1>0, <2>5, <2>7, FpBlock, Zenon
  <2> QED
    BY <2>4, <2>8
<1>2. ASSUME Len(c) = 2, c[1] = <<"fp", T(3), srcs>>, c[2] = <<"mov", <<f, n>>, T(3)>>
      PROVE  FpStep(h[0], Final(i, s, h), <<f, n>>)
  <2>4. (\A j \in 0 .. 2 : h[j] \in State) /\ (\A j \in 1 .. 2 : Does(c[j], h[j - 1], h[j]))
        /\ Final(i, s, h) = h[2]
    <3>1. 2 \in Nat /\ Len(trans(i, s.rb[0])) = 2
      BY <1>2
    <3> QED
      BY <3>1, ShortAt, ZenonT(60)
  <2>5. h[1] \in State /\ h[2] \in State
    BY <2>4
  <2>6. Does(c[1], h[0], h[1]) /\ Does(c[2], h[1], h[2])
    BY <2>4
  <2>7. Does(<<"fp", T(3), srcs>>, h[0], h[1]) /\ Does(<<"mov", <<f, n>>, T(3)>>, h[1], h[2])
    BY <1>2, <2>6
  <2>8. FpStep(h[0], h[2], <<f, n>>)
    BY <1>0, <2>5, <2>7, FpBlock, Zenon
  <2> QED
    BY <2>4, <2>8
<1> QED
  BY <1>1, <1>2

(* Floating-point arithmetic and comparisons.                              *)
LEMMA DoneFp ==
  ASSUME NEW i, NEW s, NEW h, Execution(i, s, h), i.form \in {"FALG2", "FALG3", "FALG4", "FCMP"}
  PROVE  FpEnds(i, s, Final(i, s, h))
<1>1. Plain(i)
  BY DEF Plain, Branches
<1>2. i \in Insns
  BY Entry
<1>3. i.ha \in 0 .. NReg - 1 /\ i.hb \in 0 .. NReg - 1 /\ "rf" \in Files /\ "rd" \in Files
  BY <1>2, Fields DEF Files
<1> DEFINE c == trans(i, s.rb[0])
           f == IF i.form = "FCMP" THEN "rd" ELSE "rf"
           n == IF i.form = "FALG4" THEN i.ha ELSE i.hb
<1>4. f \in Files /\ n \in 0 .. NReg - 1
  BY <1>3
<1>5. Writes(i, s) = {<<<<f, n>>, v>> : v \in FpResults}
  <2>1. CASE i.form \in {"FALG2", "FALG3"}
    BY <2>1 DEF Writes, RF
  <2>2. CASE i.form = "FALG4"
    BY <2>2 DEF Writes, RF
  <2>3. CASE i.form = "FCMP"
    BY <2>3 DEF Writes, RD
  <2> QED
    BY <2>1, <2>2, <2>3
<1>6. \/ \E srcs : Len(c) = 4 /\ \A j \in 1..4 : c[j] = Helper(<<f, n>>, srcs)[j]
      \/ \E srcs : Len(c) = 2 /\ c[1] = <<"fp", T(3), srcs>> /\ c[2] = <<"mov", <<f, n>>, T(3)>>
  <2>0. \A srcs : Len(Helper(<<f, n>>, srcs)) = 4
    BY DEF Helper
  <2>1. CASE i.form = "FALG2"
    <3>1. i.imm = 2
      <4> SUFFICES ASSUME i.imm # 2 PROVE FALSE
        OBVIOUS
      <4>1. PICK r : r = FALG_s1d1(RF(i.hb), RF(i.hc))
        OBVIOUS
      <4>2. Len(r) = 4
        BY <4>1 DEF FALG_s1d1, Helper
      <4>3. PICK a : a = <<<<"excp", "ILLI">>>>
        OBVIOUS
      <4>4. Len(a) = 1 /\ a[1] = <<"excp", "ILLI">>
        BY <4>3
      <4>5. c = a \o r
        BY <2>1, <4>1, <4>3 DEF trans, FALG2, When, gen_exception_illegal_instruction
      <4>6. Len(a \o r) = Len(a) + Len(r) /\ \A j \in 1 .. Len(a) : (a \o r)[j] = a[j]
        <5>1. Len(a) \in Nat /\ Len(r) \in Nat
          BY <4>2, <4>4
        <5> QED
          BY <5>1, SeqCat, ZenonT(60)
      <4>7. Len(c) = 5 /\ c[1] = a[1]
        BY <4>2, <4>4, <4>5, <4>6
      <4> QED
        BY <4>4, <4>7, DoneNone
    <3>2. PICK r : r = FALG_s1d1(RF(i.hb), RF(i.hc))
      OBVIOUS
    <3>3. r = Helper(<<f, n>>, <<RF(i.hc)>>) /\ Len(r) = 4
      BY <2>1, <3>2 DEF FALG_s1d1, Helper, RF
    <3>4. PICK a : a = <<>>
      OBVIOUS
    <3>5. Len(a) = 0
      BY <3>4
    <3>6. c = a \o r
      BY <2>1, <3>1, <3>2, <3>4 DEF trans, FALG2, When
    <3>7. Len(c) = 4 /\ \A j \in 1..4 : c[0 + j] = r[j]
      BY <3>3, <3>5, <3>6, SeqCat
    <3>8. \A j \in 1..4 : c[j] = r[j]
      BY <3>7
    <3> QED
      BY <3>3, <3>7, <3>8
  <2>2. CASE i.form = "FALG3" /\ i.alu = "sgn"
    <3>1. PICK u1, u2 : u1 = <<"fp", T(3), <<RF(i.hc), RF(i.hd)>>>> /\ u2 = <<"mov", <<f, n>>, T(3)>>
      OBVIOUS
    <3>2. c = <<u1, u2>>
      BY <2>2, <3>1 DEF trans, FALG3, FSGN_s2d1, RF
    <3>3. Len(c) = 2 /\ c[1] = u1 /\ c[2] = u2
      BY <3>2
    <3> QED
      BY <3>1, <3>3
  <2>3. CASE i.form = "FALG3" /\ i.alu # "sgn"
    <3>1. c = Helper(<<f, n>>, <<RF(i.hc), RF(i.hd)>>)
      BY <2>3 DEF trans, FALG3, FALG_s2d1, RF
    <3> QED
      BY <2>0, <3>1
  <2>4. CASE i.form = "FALG4"
    <3>1. c = Helper(<<f, n>>, <<RF(i.hb), RF(i.hc), RF(i.hd)>>)
      BY <2>4 DEF trans, FALG4, FALG_s3d1, RF
    <3> QED
      BY <2>0, <3>1
  <2>5. CASE i.form = "FCMP"
    <3>1. c = Helper(<<f, n>>, <<RF(i.hc), RF(i.hd)>>)
      BY <2>5 DEF trans, FCMP, FCMP_real, RF, RD
    <3> QED
      BY <2>0, <3>1
  <2> QED
    BY <2>1, <2>2, <2>3, <2>4, <2>5
<1> HIDE DEF f, n
<1>7. FpStep(h[0], Final(i, s, h), <<f, n>>)
  BY <1>4, <1>6, FpCode
<1> QED
  BY <1>1, <1>4, <1>5, <1>7, EndsFp

-----------------------------------------------------------------------------
(* Loads and stores. *)

(* Induction by steps of one.                                              *)
LEMMA NatSteps ==
  ASSUME NEW S, 0 \in S, \A n \in Nat : n \in S => n + 1 \in S
  PROVE  \A n \in Nat : n \in S
<1>1. ASSUME NEW n \in Nat, \A m \in Nat : m < n => m \in S PROVE n \in S
  <2>1. CASE n # 0
    <3>1. n - 1 \in Nat /\ n - 1 < n /\ (n - 1) + 1 = n
      BY <2>1
    <3> QED
      BY <1>1, <3>1
  <2> QED
    BY <2>1
<1> QED
  BY <1>1, NatInduct

(* A load depends on the address modulo the memory.                        *)
LEMMA LoadCut ==
  ASSUME NEW m, NEW a \in Int, NEW mop
  PROVE  Load(m, Cut(a), mop) = Load(m, a, mop)
<1>1. \A k \in Int : Cut(Cut(a) + k) = Cut(a + k)
  BY CutLaws
<1>2. PICK b : b = Cut(a)
  OBVIOUS
<1>3. \A k \in Int : Cut(b + k) = Cut(a + k)
  BY <1>1, <1>2
<1> DEFINE byte(x, k) == m[Cut(x + k)]
           wyde(x, k) == byte(x, k) + Pow2[Bits(1)] * byte(x, k + 1)
           tetra(x, k) == wyde(x, k) + Pow2[Bits(2)] * wyde(x, k + 2)
           n == Size(mop)
           all(x) == CASE n = 1 -> byte(x, 0) [] n = 2 -> wyde(x, 0) [] n = 4 -> tetra(x, 0)
                       [] n = 8 -> tetra(x, 0) + Pow2[Bits(4)] * tetra(x, 4)
<1>4. \A x : Load(m, x, mop) = Cut(IF SignExtends(mop) THEN SignedIn(Bits(n), all(x)) ELSE all(x))
  BY DEF Load
<1>5. \A k \in Int : byte(b, k) = byte(a, k)
  BY <1>3
<1> HIDE DEF byte
<1>6. \A k \in Int : wyde(b, k) = wyde(a, k)
  <2> SUFFICES ASSUME NEW k \in Int PROVE wyde(b, k) = wyde(a, k)
    OBVIOUS
  <2>1. k + 1 \in Int
    OBVIOUS
  <2>2. byte(b, k) = byte(a, k) /\ byte(b, k + 1) = byte(a, k + 1)
    BY <1>5, <2>1
  <2> QED
    BY <2>2
<1> HIDE DEF wyde
<1>7. \A k \in Int : tetra(b, k) = tetra(a, k)
  <2> SUFFICES ASSUME NEW k \in Int PROVE tetra(b, k) = tetra(a, k)
    OBVIOUS
  <2>1. k + 2 \in Int
    OBVIOUS
  <2>2. wyde(b, k) = wyde(a, k) /\ wyde(b, k + 2) = wyde(a, k + 2)
    BY <1>6, <2>1
  <2> QED
    BY <2>2
<1> HIDE DEF tetra
<1>8. all(b) = all(a)
  <2>1. byte(b, 0) = byte(a, 0) /\ wyde(b, 0) = wyde(a, 0) /\ tetra(b, 0) = tetra(a, 0) /\ tetra(b, 4) = tetra(a, 4)
    BY <1>5, <1>6, <1>7
  <2> QED
    BY <2>1
<1> HIDE DEF all
<1> QED
  BY <1>2, <1>4, <1>8

Widths == {1, 2, 3, 4}

(* c is the code g[0] to g[n - 1], m operations each.                      *)
Repeats(c, n, m, g) ==
  Len(c) = n * m /\ \A j \in 1 .. n * m : c[j] = g[(j - 1) \div m][((j - 1) % m) + 1]

(* Its operations one by one, by themselves and behind a first operation.  *)
Blocks(c, n, m, g) ==
  /\ Len(c) = n * m /\ n * m \in Nat /\ n * m = m * n
  /\ \A k \in 0 .. n - 1, l \in 1 .. m : m * k + l \in 1 .. n * m /\ c[m * k + l] = g[k][l]

BlocksAfter(d, n, m, g, u) ==
  /\ Len(d) = 1 + m * n /\ d[1] = u
  /\ \A k \in 0 .. n - 1, l \in 1 .. m : d[m * k + (l + 1)] = g[k][l]

(* The operations of repeated code.                                        *)
LEMMA BlockAt ==
  ASSUME NEW n \in Nat, NEW m \in Widths, NEW g, NEW c,
         Repeats(c, n, m, g)
  PROVE  Blocks(c, n, m, g)
<1> USE DEF Widths
<1>1. n * m \in Nat /\ n * m = m * n
  OBVIOUS
<1>2. Len(c) = n * m
  BY DEF Repeats
<1>3. ASSUME NEW k \in 0 .. n - 1, NEW l \in 1 .. m
      PROVE  m * k + l \in 1 .. n * m /\ c[m * k + l] = g[k][l]
  <2>1. PICK j : j = m * k + l
    OBVIOUS
  <2>2. j \in 1 .. n * m
    <3>1. CASE m = 1
      BY <2>1, <3>1
    <3>2. CASE m = 2
      BY <2>1, <3>2
    <3>3. CASE m = 3
      BY <2>1, <3>3
    <3>4. CASE m = 4
      BY <2>1, <3>4
    <3> QED
      BY <3>1, <3>2, <3>3, <3>4
  <2>3. m \in Nat \ {0} /\ k \in Int /\ l - 1 \in 0 .. m - 1
    OBVIOUS
  <2>4. j - 1 = m * k + (l - 1)
    BY <2>1, <2>3
  <2>5. (m * k + (l - 1)) \div m = k /\ (m * k + (l - 1)) % m = l - 1
    BY <2>3, DivModUnique
  <2>6. (j - 1) \div m = k /\ ((j - 1) % m) + 1 = l
    <3>1. (j - 1) \div m = k /\ (j - 1) % m = l - 1
      BY <2>4, <2>5, Zenon
    <3>2. (l - 1) + 1 = l
      OBVIOUS
    <3> QED
      BY <3>1, <3>2, Zenon
  <2>7. c[j] = g[(j - 1) \div m][((j - 1) % m) + 1]
    BY <2>2 DEF Repeats
  <2>8. c[j] = g[k][l]
    BY <2>6, <2>7
  <2> QED
    BY <2>1, <2>2, <2>8
<1> QED
  BY <1>1, <1>2, <1>3 DEF Blocks

(* Behind a first operation.                                               *)
LEMMA BlockAfter ==
  ASSUME NEW n \in Nat, NEW m \in Widths, NEW g, NEW c,
         Repeats(c, n, m, g), NEW u, NEW d, d = <<u>> \o c
  PROVE  BlocksAfter(d, n, m, g, u)
<1>0. Blocks(c, n, m, g)
  BY BlockAt, Zenon
<1>1. /\ Len(c) = n * m /\ n * m \in Nat /\ n * m = m * n
      /\ \A k \in 0 .. n - 1, l \in 1 .. m : m * k + l \in 1 .. n * m /\ c[m * k + l] = g[k][l]
  BY <1>0 DEF Blocks
<1>2. PICK a : a = <<u>>
  OBVIOUS
<1>3. Len(a) = 1 /\ a[1] = u
  BY <1>2
<1>4. d = a \o c
  BY <1>2
<1>5. Len(c) \in Nat /\ Len(a) \in Nat
  BY <1>1, <1>3
<1>6. PICK b : b = c
  OBVIOUS
<1>7. /\ Len(d) = Len(a) + Len(b)
      /\ \A j \in 1 .. Len(a) : d[j] = a[j]
      /\ \A j \in 1 .. Len(b) : d[Len(a) + j] = b[j]
  BY <1>4, <1>5, <1>6, SeqCat
<1>8. ASSUME NEW k \in 0 .. n - 1, NEW l \in 1 .. m PROVE d[m * k + (l + 1)] = g[k][l]
  <2>1. PICK j : j = m * k + l
    OBVIOUS
  <2>2. j \in 1 .. Len(b) /\ b[j] = g[k][l]
    BY <1>1, <1>6, <2>1
  <2>3. m * k \in Int /\ m * k + (l + 1) = 1 + j
    <3>1. m \in Int /\ k \in Int /\ l \in Int
      BY DEF Widths
    <3> QED
      BY <2>1, <3>1
  <2>4. d[1 + j] = b[j]
    BY <1>3, <1>7, <2>2
  <2> QED
    BY <2>2, <2>3, <2>4, Zenon
<1>9. d[1] = u
  BY <1>3, <1>7
<1>10. Len(d) = 1 + m * n
  <2>1. Len(d) = 1 + n * m
    BY <1>1, <1>3, <1>6, <1>7, Zenon
  <2> QED
    BY <1>1, <2>1, Zenon
<1> QED
  BY <1>8, <1>9, <1>10 DEF BlocksAfter

(* The operations of a block load.                                         *)
LEMMA LdmCode ==
  ASSUME NEW i \in Insns, Legal(i), i.form = "LDM"
  PROVE  /\ Len(LDM(i)) = 1 + 3 * i.imm /\ LDM(i)[1] = <<"add", T(1), RB(i.hb), RD(i.hc)>>
         /\ \A k \in 0 .. i.imm - 1 :
              /\ LDM(i)[3 * k + 2] = <<"ld", T(2), T(1), i.mop>>
              /\ LDM(i)[3 * k + 3] = Unless0(i.ha + k # 0 \/ i.file \in {"rf", "ra"},
                                             <<"mov", <<i.file, i.ha + k>>, T(2)>>)
              /\ LDM(i)[3 * k + 4] = <<"add", T(1), T(1), K(Size(i.mop))>>
<1> DEFINE n == i.imm
           u1 == <<"ld", T(2), T(1), i.mop>>
           u2(k) == Unless0(i.ha + k # 0 \/ i.file \in {"rf", "ra"}, <<"mov", <<i.file, i.ha + k>>, T(2)>>)
           u3 == <<"add", T(1), T(1), K(Size(i.mop))>>
           block(k) == <<u1, u2(k), u3>>
           c == Times(n, 3, block)
           u0 == <<"add", T(1), RB(i.hb), RD(i.hc)>>
<1>1. n \in Nat
  BY BlockFields
<1>2. LDM(i) = <<u0>> \o c
  BY DEF LDM, Times
<1>3. c = [j \in 1 .. n * 3 |-> block((j - 1) \div 3)[((j - 1) % 3) + 1]]
  BY DEF Times
<1> HIDE DEF u0, u1, u2, u3, c
<1>4. \A k : block(k)[1] = u1 /\ block(k)[2] = u2(k) /\ block(k)[3] = u3
  OBVIOUS
<1> HIDE DEF block, n
<1>5. PICK g : g = [k \in 0 .. n - 1 |-> block(k)]
  OBVIOUS
<1>6. Repeats(c, n, 3, g)
  <2>1. Len(c) = n * 3
    BY <1>1, <1>3
  <2>2. ASSUME NEW j \in 1 .. n * 3 PROVE c[j] = g[(j - 1) \div 3][((j - 1) % 3) + 1]
    <3>1. PICK k : k = (j - 1) \div 3
      OBVIOUS
    <3>2. k \in 0 .. n - 1
      BY <1>1, <3>1
    <3>3. c[j] = block(k)[((j - 1) % 3) + 1]
      BY <1>3, <3>1
    <3>4. g[k] = block(k)
      BY <1>5, <3>2
    <3> QED
      BY <3>1, <3>3, <3>4
  <2> QED
    BY <2>1, <2>2 DEF Repeats
<1>7. PICK d, u : d = LDM(i) /\ u = u0
  OBVIOUS
<1>8. /\ Len(d) = 1 + 3 * n /\ d[1] = u
      /\ \A k \in 0 .. n - 1, l \in 1 .. 3 : d[3 * k + (l + 1)] = g[k][l]
  <2>1. 3 \in Widths
    BY DEF Widths
  <2>2. d = <<u>> \o c
    BY <1>2, <1>7
  <2>3. BlocksAfter(d, n, 3, g, u)
    BY <1>1, <1>6, <2>1, <2>2, BlockAfter, Zenon
  <2> QED
    BY <2>3 DEF BlocksAfter
<1>9. ASSUME NEW k \in 0 .. n - 1 PROVE d[3 * k + 2] = u1 /\ d[3 * k + 3] = u2(k) /\ d[3 * k + 4] = u3
  <2>1. d[3 * k + (1 + 1)] = g[k][1] /\ d[3 * k + (2 + 1)] = g[k][2] /\ d[3 * k + (3 + 1)] = g[k][3]
    BY <1>8
  <2>2. g[k][1] = u1 /\ g[k][2] = u2(k) /\ g[k][3] = u3
    BY <1>4, <1>5
  <2> QED
    BY <2>1, <2>2
<1> QED
  BY <1>7, <1>8, <1>9 DEF n, u0, u1, u2, u3

(* An instruction whose results no register takes.                         *)
LEMMA EndsTemps ==
  ASSUME NEW i, NEW s, NEW h, Execution(i, s, h), Plain(i), NEW y, TempSets(h[0], y),
         NEW w, w = Writes(i, s), \A u \in w : u[1] \in Special
  PROVE  Ends(i, s, y)
<1>1. y \in State /\ (Alone => y.mem = StoredBy(i, s))
  BY Entry DEF Plain, TempSets
<1>2. \A f \in Files, n \in 0 .. NReg - 1 : y[f][n] = s[f][n]
  BY Entry DEF TempSets, SameFiles
<1>3. Leaves(w, s, y)
  BY <1>2 DEF Leaves
<1> QED
  BY <1>1, <1>3 DEF Ends, Plain

(* The first operation of the memory instructions computes the address.    *)
LEMMA Address ==
  ASSUME NEW i \in Insns, i.form \in {"LD", "ST", "LDM", "STM"}, NEW s \in State,
         NEW x \in State, SameFiles(s, x), NEW y,
         Does(<<"add", T(1), RB(i.hb), IF i.form \in {"LD", "ST"} THEN K(i.imm) ELSE RD(i.hc)>>, x, y)
  PROVE  Base(i, s) \in Int /\ Sets(x, y, T(1), Cut(Base(i, s)))
<1>2. i.hb \in 0 .. NReg - 1 /\ i.hc \in 0 .. NReg - 1 /\ i.imm \in Int
  BY Fields
<1>3. /\ x.rb[i.hb] = s.rb[i.hb] /\ x.rd[i.hc] = s.rd[i.hc]
      /\ s.rb[i.hb] \in Int /\ s.rd[i.hc] \in Int /\ s.rd[i.hc] \in Octa
  <2>1. "rd" \in Files /\ "rb" \in Files /\ s.rb[i.hb] \in Octa /\ s.rd[i.hc] \in Octa
    BY <1>2 DEF Files, State, RegFile
  <2> QED
    BY <1>2, <2>1, OctaInt DEF SameFiles
<1> DEFINE c == IF i.form \in {"LD", "ST"} THEN K(i.imm) ELSE RD(i.hc)
<1>4. Source(c) /\ Source(RB(i.hb)) /\ Place(T(1)) /\ "add" \in Arith
  BY <1>2, Operands DEF Arith
<1>5. At(x, RB(i.hb)) = s.rb[i.hb] /\ At(x, c) = IF i.form \in {"LD", "ST"} THEN Cut(i.imm) ELSE s.rd[i.hc]
  BY <1>3, Reads
<1> HIDE DEF c
<1>6. Sets(x, y, T(1), Alu("add", At(x, RB(i.hb)), At(x, c)))
  <2>1. Does(<<"add", T(1), RB(i.hb), c>>, x, y)
    BY DEF c
  <2> QED
    BY <1>4, <2>1, DoesShapes, Zenon
<1>7. Alu("add", At(x, RB(i.hb)), At(x, c)) = Cut(Base(i, s)) /\ Base(i, s) \in Int
  <2>1. Alu("add", At(x, RB(i.hb)), At(x, c)) = Cut(At(x, RB(i.hb)) + At(x, c))
    BY DEF Alu
  <2>2. CASE i.form \in {"LD", "ST"}
    <3>1. Base(i, s) = s.rb[i.hb] + i.imm
      BY <2>2 DEF Base
    <3>2. Cut(s.rb[i.hb] + Cut(i.imm)) = Cut(s.rb[i.hb] + i.imm)
      BY <1>2, <1>3, CutLaws
    <3> QED
      BY <1>2, <1>3, <1>5, <2>1, <2>2, <3>1, <3>2
  <2>3. CASE i.form \in {"LDM", "STM"}
    <3>1. Base(i, s) = s.rb[i.hb] + s.rd[i.hc]
      BY <2>3 DEF Base
    <3> QED
      BY <1>3, <1>5, <2>1, <2>3, <3>1
  <2> QED
    BY <2>2, <2>3
<1> QED
  BY <1>6, <1>7

(* A load from an address in the first temporary.                          *)
LEMMA LoadStep ==
  ASSUME NEW x \in State, NEW y, Alone, NEW a \in Int, x.t[1] = Cut(a), NEW mop,
         Does(<<"ld", T(2), T(1), mop>>, x, y)
  PROVE  Sets(x, y, T(2), Load(x.mem, a, mop))
<1>1. Place(T(2)) /\ Source(T(1)) /\ At(x, T(1)) = Cut(a)
  <2>1. 1 \in 1..3 /\ 2 \in 1..3
    OBVIOUS
  <2> QED
    BY <2>1, Operands, Reads
<1>2. Sets(x, y, T(2), Load(x.mem, At(x, T(1)), mop))
  BY <1>1, DoesShapes, Zenon
<1>3. Load(x.mem, Cut(a), mop) = Load(x.mem, a, mop)
  BY LoadCut
<1> QED
  BY <1>1, <1>2, <1>3

(* A load of one register.                                                 *)
LEMMA DoneLd ==
  ASSUME NEW i, NEW s, NEW h, Execution(i, s, h), i.form = "LD"
  PROVE  Ends(i, s, Final(i, s, h))
<1>1. Plain(i) /\ Alone /\ i \in Insns /\ h[0] \in State /\ Encodable(i)
  BY Entry DEF Plain, Branches, Execution
<1>2. i.ha \in 0 .. NReg - 1 /\ i.file \in Files /\ i.file # "ra"
  BY <1>1, Fields DEF Encodable, LdForms, Files
<1>3. Plain(i) /\ h[0].mem = s.mem
  BY <1>1, Entry
<1> DEFINE u1 == <<"add", T(1), RB(i.hb), IF i.form \in {"LD", "ST"} THEN K(i.imm) ELSE RD(i.hc)>>
           u2 == <<"ld", T(2), T(1), i.mop>>
           u3 == <<"mov", <<i.file, i.ha>>, T(2)>>
           g == i.ha # 0 \/ i.file = "rf"
           c == trans(i, s.rb[0])
           v == Load(s.mem, Base(i, s), i.mop)
           p == <<i.file, i.ha>>
<1>4. c = <<u1, u2>> \o When(g, <<u3>>)
  BY DEF trans, LD
<1>5. Writes(i, s) = {<<p, v>>}
  BY DEF Writes
<1>6. ~g => p \in Special
  BY <1>2 DEF Special, RD, RB, Files
<1> HIDE DEF u1, u2, u3, g, c, v, p
<1>7. /\ Len(c) = (IF g THEN 3 ELSE 2) /\ c[1] = u1 /\ c[2] = u2 /\ (g => c[3] = u3)
  <2>1. PICK a, b : a = <<u1, u2>> /\ b = When(g, <<u3>>)
    OBVIOUS
  <2>2. Len(a) = 2 /\ a[1] = u1 /\ a[2] = u2
    BY <2>1
  <2>3. Len(b) = (IF g THEN 1 ELSE 0) /\ Len(b) \in Nat /\ (g => b[1] = u3)
    BY <2>1, WhenAt
  <2>4. c = a \o b
    BY <1>4, <2>1
  <2>5. /\ Len(c) = Len(a) + Len(b) /\ \A j \in 1 .. Len(a) : c[j] = a[j]
        /\ \A j \in 1 .. Len(b) : c[Len(a) + j] = b[j]
    BY <2>2, <2>3, <2>4, SeqCat
  <2> QED
    BY <2>2, <2>3, <2>5
<1>8. PICK n \in {2, 3} : Len(c) = n /\ (g <=> n = 3)
  BY <1>7
<1>9. (\A j \in 0 .. n : h[j] \in State) /\ (\A j \in 1 .. n : Does(c[j], h[j - 1], h[j])) /\ Final(i, s, h) = h[n]
  <2>1. n \in Nat /\ Len(trans(i, s.rb[0])) = n
    BY <1>8 DEF c
  <2>2. /\ \A j \in 0 .. n : h[j] \in State
        /\ \A j \in 1 .. n : Does(trans(i, s.rb[0])[j], h[j - 1], h[j])
        /\ Final(i, s, h) = h[n]
    BY <2>1, ShortAt
  <2> QED
    BY <2>2 DEF c
<1>10. h[1] \in State /\ h[2] \in State /\ Does(u1, h[0], h[1]) /\ Does(u2, h[1], h[2])
  BY <1>7, <1>9
<1>11. Base(i, s) \in Int /\ Sets(h[0], h[1], T(1), Cut(Base(i, s)))
  <2>1. s \in State /\ SameFiles(s, h[0])
    BY DEF Execution
  <2> QED
    BY <1>1, <1>10, <2>1, Address DEF u1
<1>12. h[1].t[1] = Cut(Base(i, s)) /\ h[1].mem = s.mem
  <2>1. Reg("t", 1) /\ T(1) = <<"t", 1>>
    BY DEF Reg, T
  <2> QED
    BY <1>1, <1>3, <1>11, <2>1 DEF Sets
<1>13. Sets(h[1], h[2], T(2), v)
  BY <1>1, <1>10, <1>11, <1>12, LoadStep DEF u2, v
<1>14. CASE ~g
  <2>1. Final(i, s, h) = h[2]
    BY <1>8, <1>9, <1>14
  <2>2. TempSets(h[0], h[2])
    BY <1>11, <1>13, TempSteps
  <2>3. \A u \in Writes(i, s) : u[1] \in Special
    BY <1>5, <1>6, <1>14
  <2> QED
    BY <1>1, <2>1, <2>2, <2>3, EndsTemps
<1>15. CASE g
  <2>1. Final(i, s, h) = h[3] /\ Does(u3, h[2], h[3]) /\ h[3] \in State
    BY <1>7, <1>8, <1>9, <1>15
  <2>2. Place(p) /\ Source(T(2)) /\ At(h[2], T(2)) = v
    <3>1. Reg("t", 2) /\ T(2) = <<"t", 2>> /\ 2 \in 1..3
      BY DEF Reg, T
    <3>2. At(h[2], T(2)) = v
      BY <1>13, <3>1, SetsAt, Zenon
    <3>3. Place(p) /\ Source(T(2))
      BY <1>2, <3>1, Operands DEF p
    <3> QED
      BY <3>2, <3>3
  <2>3. Sets(h[2], h[3], p, v)
    BY <1>10, <2>1, <2>2, DoesShapes DEF u3, p
  <2>4. Off(h[0], h[2], i.file, i.ha)
    <3>1. Off(h[0], h[1], i.file, i.ha) /\ Off(h[1], h[2], i.file, i.ha)
      BY <1>11, <1>13, OffSteps
    <3> QED
      BY <3>1, OffSteps
  <2> QED
    BY <1>1, <1>2, <1>5, <2>1, <2>3, <2>4, EndsLast DEF p
<1> QED
  BY <1>14, <1>15

(* The state before step k of a block load: k registers are loaded.        *)
Loaded(i, s, k, x) ==
  /\ x \in State /\ x.mem = s.mem /\ x.t[1] = Cut(Base(i, s) + k * Size(i.mop))
  /\ \A f \in Files, n \in 0 .. NReg - 1 : <<f, n>> \notin Special =>
       x[f][n] = IF f = i.file /\ i.ha <= n /\ n < i.ha + k
                 THEN Load(s.mem, Base(i, s) + (n - i.ha) * Size(i.mop), i.mop) ELSE s[f][n]

(* Memory is accessed in one, two, four or eight bytes.                    *)
LEMMA SizeType == \A mop : Size(mop) \in {1, 2, 4, 8}
BY DEF Size

(* The address of the next register of a block.                            *)
LEMMA NextAddress ==
  ASSUME NEW x \in State, NEW y, NEW a \in Int, x.t[1] = Cut(a), NEW mop, NEW sz, sz = Size(mop),
         Does(<<"add", T(1), T(1), K(Size(mop))>>, x, y)
  PROVE  Sets(x, y, T(1), Cut(a + sz))
<1>1. sz \in Int /\ Size(mop) \in Int /\ 1 \in 1..3
  BY SizeType
<1>2. Source(K(sz)) /\ At(x, K(sz)) = Cut(sz) /\ At(x, T(1)) = Cut(a) /\ Place(T(1)) /\ Source(T(1)) /\ "add" \in Arith
  BY <1>1, Operands, Reads DEF Arith
<1>3. Sets(x, y, T(1), Alu("add", At(x, T(1)), At(x, K(sz))))
  BY <1>2, DoesShapes, Zenon
<1>4. Alu("add", Cut(a), Cut(sz)) = Cut(Cut(a) + Cut(sz))
  BY DEF Alu
<1>5. Cut(Cut(a) + Cut(sz)) = Cut(a + sz)
  <2>1. Cut(a) \in Int
    BY CutLaws, OctaInt
  <2>2. Cut(Cut(a) + Cut(sz)) = Cut(Cut(a) + sz)
    BY <1>1, <2>1, CutLaws
  <2>3. Cut(Cut(a) + sz) = Cut(a + sz)
    BY <1>1, CutLaws
  <2> QED
    BY <2>2, <2>3
<1> QED
  BY <1>2, <1>3, <1>4, <1>5

(* One step: the base and index registers may be among the registers that  *)
(* are loaded, because the address is in a temporary.                      *)
LEMMA LdmStep ==
  ASSUME NEW i \in Insns, Legal(i), i.form = "LDM", Alone, NEW s \in State, Base(i, s) \in Int,
         NEW k \in 0 .. i.imm - 1, NEW x, Loaded(i, s, k, x),
         NEW x1 \in State, NEW x2 \in State, NEW x3 \in State,
         Does(<<"ld", T(2), T(1), i.mop>>, x, x1),
         Does(Unless0(i.ha + k # 0 \/ i.file \in {"rf", "ra"}, <<"mov", <<i.file, i.ha + k>>, T(2)>>), x1, x2),
         Does(<<"add", T(1), T(1), K(Size(i.mop))>>, x2, x3)
  PROVE  Loaded(i, s, k + 1, x3)
<1>1. /\ NReg \in Nat /\ i.ha \in Nat /\ i.imm \in Nat /\ i.file \in Files /\ i.ha + i.imm <= NReg
      /\ k \in Nat /\ k < i.imm
  <2>1. NReg \in Nat /\ i.ha \in Nat /\ i.imm \in Nat /\ i.file \in Files /\ i.ha + i.imm <= NReg
    BY BlockFields
  <2> QED
    BY <2>1
<1>2. PICK sz \in Nat : sz = Size(i.mop)
  BY SizeType
<1>3. PICK ks \in Int : ks = k * sz
  <2>1. k * sz \in Int
    BY <1>1, <1>2
  <2> QED
    BY <2>1
<1>4. PICK b \in Int : b = Base(i, s)
  OBVIOUS
<1> DEFINE v == Load(s.mem, b + ks, i.mop)
           g == i.ha + k # 0 \/ i.file \in {"rf", "ra"}
           n0 == i.ha + k
<1>5. x \in State /\ x.mem = s.mem /\ x.t[1] = Cut(b + ks) /\ b + ks \in Int
  BY <1>2, <1>3, <1>4 DEF Loaded
<1>6. Sets(x, x1, T(2), v)
  BY <1>5, LoadStep
<1>7. n0 \in 0 .. NReg - 1 /\ (~g => <<i.file, n0>> \in Special)
  <2>1. n0 \in 0 .. NReg - 1
    BY <1>1
  <2>2. ~g => n0 = 0 /\ i.file \in {"rd", "rb"}
    BY <1>1 DEF Files
  <2> QED
    BY <2>1, <2>2 DEF Special, RD, RB
<1> HIDE DEF v, g, n0
<1>8. T(1) = <<"t", 1>> /\ T(2) = <<"t", 2>> /\ Reg("t", 1) /\ Reg("t", 2) /\ 1 \in 1..3 /\ 2 \in 1..3
  BY DEF T, Reg
<1>9. \A f \in Files, n \in 0 .. NReg - 1 : Reg(f, n) /\ f # "t"
  BY DEF Reg, Files
<1>10. /\ x1.t[2] = v /\ x1.t[1] = x.t[1] /\ x1.mem = s.mem
       /\ \A f \in Files, n \in 0 .. NReg - 1 : x1[f][n] = x[f][n]
  BY <1>5, <1>6, <1>8, <1>9 DEF Sets
<1>11. /\ x2.t[1] = x1.t[1] /\ x2.mem = s.mem
       /\ \A f \in Files, n \in 0 .. NReg - 1 :
            x2[f][n] = IF g /\ f = i.file /\ n = n0 THEN v ELSE x1[f][n]
  <2>1. CASE g
    <3>1. Place(<<i.file, n0>>) /\ Source(T(2)) /\ At(x1, T(2)) = v
      BY <1>1, <1>7, <1>8, <1>10, Operands, Reads
    <3>2. Does(<<"mov", <<i.file, n0>>, T(2)>>, x1, x2)
      BY <2>1 DEF Unless0, g, n0
    <3>3. Sets(x1, x2, <<i.file, n0>>, v)
      BY <3>1, <3>2, DoesShapes
    <3>4. "t" # i.file
      BY <1>1 DEF Files
    <3>5. <<i.file, n0>>[1] = i.file /\ <<i.file, n0>>[2] = n0
      OBVIOUS
    <3> QED
      BY <1>8, <1>9, <1>10, <2>1, <3>3, <3>4, <3>5 DEF Sets
  <2>2. CASE ~g
    <3>1. Does(NoOp, x1, x2)
      BY <2>2 DEF Unless0, g
    <3>2. Keeps(x1, x2)
      BY <3>1, DoesTest
    <3> QED
      BY <1>8, <1>9, <1>10, <2>2, <3>2 DEF Keeps, SameRegs
  <2> QED
    BY <2>1, <2>2
<1>12. Sets(x2, x3, T(1), Cut((b + ks) + sz))
  <2>1. x2.t[1] = Cut(b + ks)
    BY <1>5, <1>10, <1>11
  <2> QED
    BY <1>2, <1>5, <2>1, NextAddress
<1>13. /\ x3.t[1] = Cut(b + ks + sz) /\ x3.mem = s.mem
       /\ \A f \in Files, n \in 0 .. NReg - 1 : x3[f][n] = x2[f][n]
  BY <1>8, <1>9, <1>11, <1>12 DEF Sets
<1>14. (k + 1) * sz = ks + sz /\ b + (k + 1) * sz = b + ks + sz
  BY <1>1, <1>2, <1>3
<1>15. ASSUME NEW f \in Files, NEW n \in 0 .. NReg - 1, <<f, n>> \notin Special
       PROVE  x3[f][n] = IF f = i.file /\ i.ha <= n /\ n < i.ha + (k + 1)
                         THEN Load(s.mem, b + (n - i.ha) * sz, i.mop) ELSE s[f][n]
  <2>1. x3[f][n] = IF f = i.file /\ n = n0 THEN v ELSE x[f][n]
    BY <1>7, <1>10, <1>11, <1>13, <1>15
  <2>2. CASE f = i.file /\ n = n0
    <3>1. n - i.ha = k /\ i.ha <= n /\ n < i.ha + (k + 1)
      BY <1>1, <2>2 DEF n0
    <3> QED
      BY <1>3, <2>1, <2>2, <3>1 DEF v
  <2>3. CASE ~(f = i.file /\ n = n0)
    <3>1. f = i.file => (n < i.ha + (k + 1) <=> n < i.ha + k)
      BY <1>1, <2>3 DEF n0
    <3>2. x[f][n] = IF f = i.file /\ i.ha <= n /\ n < i.ha + k
                    THEN Load(s.mem, b + (n - i.ha) * sz, i.mop) ELSE s[f][n]
      BY <1>2, <1>4, <1>15 DEF Loaded
    <3> QED
      BY <2>1, <2>3, <3>1, <3>2
  <2> QED
    BY <2>2, <2>3
<1> QED
  BY <1>2, <1>4, <1>13, <1>14, <1>15 DEF Loaded

(* A load of a block of registers.                                         *)
LEMMA DoneLdm ==
  ASSUME NEW i, NEW s, NEW h, Execution(i, s, h), i.form = "LDM"
  PROVE  Ends(i, s, Final(i, s, h))
<1>1. Plain(i) /\ Alone /\ i \in Insns /\ Legal(i) /\ s \in State /\ h[0] \in State
  BY Entry DEF Plain, Branches, Execution
<1>2. h[0].mem = s.mem /\ StoredBy(i, s) = s.mem
  BY <1>1, Entry
<1>3. NReg \in Nat /\ i.ha \in Nat /\ i.imm \in Nat /\ i.file \in Files /\ i.ha + i.imm <= NReg
  BY <1>1, BlockFields
<1>4. PICK n \in Nat : n = i.imm
  BY <1>3
<1>5. PICK c : c = trans(i, s.rb[0])
  OBVIOUS
<1>6. c = LDM(i)
  BY <1>5 DEF trans
<1> DEFINE u0 == <<"add", T(1), RB(i.hb), RD(i.hc)>>
           u1 == <<"ld", T(2), T(1), i.mop>>
           u2(k) == Unless0(i.ha + k # 0 \/ i.file \in {"rf", "ra"}, <<"mov", <<i.file, i.ha + k>>, T(2)>>)
           u3 == <<"add", T(1), T(1), K(Size(i.mop))>>
<1>7. /\ Len(c) = 1 + 3 * n /\ c[1] = u0
      /\ \A k \in 0 .. n - 1 : c[3 * k + 2] = u1 /\ c[3 * k + 3] = u2(k) /\ c[3 * k + 4] = u3
  BY <1>1, <1>4, <1>6, LdmCode
<1> HIDE DEF u0, u1, u2, u3
<1>8. /\ \A j \in 0 .. 1 + 3 * n : h[j] \in State
      /\ \A j \in 1 .. 1 + 3 * n : Does(c[j], h[j - 1], h[j])
      /\ Final(i, s, h) = h[1 + 3 * n]
  <2>1. PICK m \in Nat : m = 1 + 3 * n
    OBVIOUS
  <2>2. /\ \A j \in 0 .. m : h[j] \in State
        /\ \A j \in 1 .. m : Does(trans(i, s.rb[0])[j], h[j - 1], h[j])
        /\ Final(i, s, h) = h[m]
    <3>1. Len(trans(i, s.rb[0])) = m
      BY <1>5, <1>7, <2>1
    <3> QED
      BY <3>1, ShortAt
  <2> QED
    BY <1>5, <2>1, <2>2
<1>9. Base(i, s) \in Int /\ Sets(h[0], h[1], T(1), Cut(Base(i, s)))
  <2>1. Does(u0, h[0], h[1])
    BY <1>7, <1>8
  <2> QED
    BY <1>1, <2>1, Address DEF u0, Execution
<1>10. Loaded(i, s, 0, h[1])
  <2>1. T(1) = <<"t", 1>> /\ Reg("t", 1) /\ \A f \in Files, m \in 0 .. NReg - 1 : Reg(f, m) /\ f # "t"
    BY DEF T, Reg, Files
  <2>2. h[1].t[1] = Cut(Base(i, s)) /\ h[1].mem = s.mem /\ h[1] \in State
    BY <1>1, <1>2, <1>9, <2>1 DEF Sets
  <2>3. Base(i, s) + 0 * Size(i.mop) = Base(i, s)
    BY <1>9, SizeType
  <2>4. \A f \in Files, m \in 0 .. NReg - 1 : h[1][f][m] = s[f][m]
    BY <1>9, <2>1, Entry DEF Sets
  <2>5. \A m : ~(i.ha <= m /\ m < i.ha + 0) \/ m \notin Nat
    BY <1>3
  <2> QED
    BY <1>3, <2>2, <2>3, <2>4, <2>5 DEF Loaded
<1> DEFINE S == {k \in Nat : k <= n => Loaded(i, s, k, h[3 * k + 1])}
<1>11. \A k \in Nat : k \in S
  <2>1. 0 \in S
    BY <1>10
  <2>2. ASSUME NEW k \in Nat, k \in S PROVE k + 1 \in S
    <3>1. SUFFICES ASSUME k + 1 <= n PROVE Loaded(i, s, k + 1, h[3 * (k + 1) + 1])
      OBVIOUS
    <3>2. k \in 0 .. n - 1 /\ Loaded(i, s, k, h[3 * k + 1])
      BY <2>2, <3>1
    <3>3. PICK j \in Nat : j = 3 * k + 1
      OBVIOUS
    <3>4. /\ j + 1 \in 1 .. 1 + 3 * n /\ j + 2 \in 1 .. 1 + 3 * n /\ j + 3 \in 1 .. 1 + 3 * n
          /\ (j + 1) - 1 = j /\ (j + 2) - 1 = j + 1 /\ (j + 3) - 1 = j + 2
          /\ 3 * k + 2 = j + 1 /\ 3 * k + 3 = j + 2 /\ 3 * k + 4 = j + 3 /\ 3 * (k + 1) + 1 = j + 3
      BY <3>1, <3>3
    <3>5. /\ Does(u1, h[j], h[j + 1]) /\ Does(u2(k), h[j + 1], h[j + 2]) /\ Does(u3, h[j + 2], h[j + 3])
          /\ h[j + 1] \in State /\ h[j + 2] \in State /\ h[j + 3] \in State
      <4>1. c[j + 1] = u1 /\ c[j + 2] = u2(k) /\ c[j + 3] = u3
        BY <1>7, <3>2, <3>4
      <4>2. /\ Does(c[j + 1], h[(j + 1) - 1], h[j + 1]) /\ Does(c[j + 2], h[(j + 2) - 1], h[j + 2])
            /\ Does(c[j + 3], h[(j + 3) - 1], h[j + 3])
        BY <1>8, <3>4
      <4>3. h[j + 1] \in State /\ h[j + 2] \in State /\ h[j + 3] \in State
        BY <1>8, <3>4
      <4> QED
        BY <3>4, <4>1, <4>2, <4>3
    <3>6. PICK x, x1, x2, x3 : x = h[j] /\ x1 = h[j + 1] /\ x2 = h[j + 2] /\ x3 = h[j + 3]
      OBVIOUS
    <3>7. Loaded(i, s, k + 1, x3)
      <4>1. Loaded(i, s, k, x) /\ x1 \in State /\ x2 \in State /\ x3 \in State
        BY <3>2, <3>3, <3>5, <3>6
      <4>2. Does(u1, x, x1) /\ Does(u2(k), x1, x2) /\ Does(u3, x2, x3)
        BY <3>5, <3>6
      <4>3. k \in 0 .. i.imm - 1
        BY <1>4, <3>2
      <4> QED
        BY <1>1, <1>9, <4>1, <4>2, <4>3, LdmStep DEF u1, u2, u3
    <3> QED
      BY <3>4, <3>6, <3>7
  <2> HIDE DEF S
  <2> QED
    BY <2>1, <2>2, NatSteps
<1>12. PICK y : y = Final(i, s, h)
  OBVIOUS
<1>13. Loaded(i, s, n, y)
  <2>1. 3 * n + 1 = 1 + 3 * n /\ n <= n /\ n \in S
    BY <1>11
  <2> QED
    BY <1>8, <1>12, <2>1
<1> DEFINE w == {<<<<i.file, i.ha + k>>, Load(s.mem, Base(i, s) + k * Size(i.mop), i.mop)>> : k \in 0 .. n - 1}
<1>14. Writes(i, s) = w
  BY <1>4 DEF Writes
<1>15. Leaves(w, s, y)
  <2> SUFFICES ASSUME NEW f \in Files, NEW m \in 0 .. NReg - 1, <<f, m>> \notin Special
               PROVE  \/ <<<<f, m>>, y[f][m]>> \in w
                      \/ y[f][m] = s[f][m] /\ \A u \in w : u[1] # <<f, m>>
    BY DEF Leaves
  <2>1. y[f][m] = IF f = i.file /\ i.ha <= m /\ m < i.ha + n
                  THEN Load(s.mem, Base(i, s) + (m - i.ha) * Size(i.mop), i.mop) ELSE s[f][m]
    BY <1>13 DEF Loaded
  <2>2. CASE f = i.file /\ i.ha <= m /\ m < i.ha + n
    <3>1. PICK k : k = m - i.ha
      OBVIOUS
    <3>2. k \in 0 .. n - 1 /\ i.ha + k = m
      BY <1>3, <1>4, <2>2, <3>1
    <3>3. y[f][m] = Load(s.mem, Base(i, s) + k * Size(i.mop), i.mop)
      BY <2>1, <2>2, <3>1
    <3> QED
      BY <2>2, <3>2, <3>3
  <2>3. CASE ~(f = i.file /\ i.ha <= m /\ m < i.ha + n)
    <3>1. \A k \in 0 .. n - 1 : <<i.file, i.ha + k>> # <<f, m>>
      BY <1>3, <2>3
    <3>2. \A u \in w : u[1] # <<f, m>>
      BY <3>1
    <3> QED
      BY <2>1, <2>3, <3>2
  <2> QED
    BY <2>2, <2>3
<1> HIDE DEF w
<1>16. y \in State /\ y.mem = StoredBy(i, s)
  BY <1>2, <1>13 DEF Loaded
<1>17. Leaves(Writes(i, s), s, y)
  BY <1>14, <1>15
<1> QED
  BY <1>1, <1>12, <1>16, <1>17 DEF Ends, Plain

(* The byte of a word that a store at base + kn writes at b, against the   *)
(* place q of b behind the base.                                           *)
LEMMA ByteAt ==
  ASSUME NEW n \in {1, 2, 4, 8}, NEW k \in Nat, NEW kn \in Nat, kn = k * n, kn + n <= M,
         NEW base \in Int, NEW b \in Int, NEW q, q = Cut(b - base), NEW d, d = Cut(b - Cut(base + kn))
  PROVE  /\ q \in Nat /\ d \in Nat
         /\ d < n <=> kn <= q /\ q < kn + n
         /\ d < n => q \div n = k /\ q % n = d
<1>1. M \in Nat /\ M # 0
  BY WordSizes
<1>2. base + kn \in Int /\ b - base \in Int /\ q \in Octa /\ d \in Octa
  <2>1. base + kn \in Int /\ b - base \in Int
    OBVIOUS
  <2>2. Cut(base + kn) \in Int
    BY <2>1, CutLaws, OctaInt
  <2> QED
    BY <2>1, <2>2, CutLaws
<1>3. q \in Nat /\ d \in Nat /\ q < M /\ d < M
  BY <1>2, OctaInt
<1>4. d = Cut(q - kn)
  <2>1. d = Cut(b - (base + kn))
    BY <1>2, CutLaws
  <2>2. Cut(Cut(b - base) + (-kn)) = Cut((b - base) + (-kn))
    <3>1. -kn \in Int
      OBVIOUS
    <3> QED
      BY <1>2, <3>1, CutLaws
  <2>3. (b - base) + (-kn) = b - (base + kn) /\ q + (-kn) = q - kn
    BY <1>3
  <2> QED
    BY <2>1, <2>2, <2>3
<1>5. CASE kn <= q
  <2>1. q - kn \in Octa
    BY <1>1, <1>3, <1>5 DEF Octa
  <2>2. d = q - kn
    BY <1>4, <2>1, CutLaws
  <2>3. ASSUME d < n PROVE q \div n = k /\ q % n = d
    <3>1. n \in Nat \ {0} /\ k \in Int /\ d \in 0 .. n - 1
      BY <1>3, <2>3
    <3>2. (n * k + d) \div n = k /\ (n * k + d) % n = d
      BY <3>1, DivModUnique
    <3>3. n * k + d = q
      <4>1. n * k = kn
        <5>1. CASE n = 1
          BY <5>1
        <5>2. CASE n = 2
          BY <5>2
        <5>3. CASE n = 4
          BY <5>3
        <5>4. CASE n = 8
          BY <5>4
        <5> QED
          BY <5>1, <5>2, <5>3, <5>4
      <4>2. kn + d = q
        BY <1>3, <2>2
      <4> QED
        BY <4>1, <4>2
    <3> QED
      BY <3>2, <3>3
  <2> QED
    BY <1>3, <1>5, <2>2, <2>3
<1>6. CASE q < kn
  <2>1. (q - kn) + M \in Octa
    BY <1>1, <1>3, <1>6 DEF Octa
  <2>2. Cut(M * 1 + (q - kn)) = Cut(q - kn)
    <3>1. q - kn \in Int /\ 1 \in Int
      BY <1>3
    <3> QED
      BY <3>1, CutPlusM
  <2>3. M * 1 + (q - kn) = (q - kn) + M
    BY <1>1, <1>3
  <2>4. d = (q - kn) + M
    BY <1>4, <2>1, <2>2, <2>3, CutLaws
  <2>5. ~(d < n)
    BY <1>1, <1>3, <2>4
  <2> QED
    BY <1>3, <1>6, <2>5
<1> QED
  BY <1>3, <1>5, <1>6

(* Registers a store stores. *)
Regs(i) == IF i.form = "ST" THEN 1 ELSE i.imm

(* Stores stay behind their base for less than the memory.                 *)
LEMMA StoreRoom ==
  ASSUME NEW i \in Insns, Legal(i), i.form \in {"ST", "STM"}
  PROVE  /\ Regs(i) \in Nat \ {0} /\ i.ha \in Nat /\ i.ha + Regs(i) <= NReg /\ NReg \in Nat /\ i.file \in Files
         /\ \A k \in 0 .. Regs(i) - 1 : k * Size(i.mop) \in Nat /\ k * Size(i.mop) + Size(i.mop) <= M
<1>1. Regs(i) \in Nat \ {0} /\ i.ha \in Nat /\ i.ha + Regs(i) <= NReg /\ NReg \in Nat /\ i.file \in Files
  <2>1. CASE i.form = "ST"
    <3>1. i.ha \in 0 .. NReg - 1 /\ NReg \in Nat
      BY Fields, MachineAssumption
    <3>2. i.file \in Files
      BY <2>1, InputAssumption DEF Encodable, StForms, Files
    <3> QED
      BY <2>1, <3>1, <3>2 DEF Regs
  <2>2. CASE i.form = "STM"
    BY <2>2, BlockFields DEF Regs
  <2> QED
    BY <2>1, <2>2
<1>2. M \in Nat /\ 8 * NReg <= M
  BY WordSizes, MachineAssumption
<1>3. PICK n \in {1, 2, 4, 8} : n = Size(i.mop)
  BY SizeType
<1>4. ASSUME NEW k \in 0 .. Regs(i) - 1 PROVE k * n \in Nat /\ k * n + n <= M
  <2>1. k \in Nat /\ k + 1 <= NReg
    BY <1>1
  <2>2. CASE n = 1
    BY <1>1, <1>2, <2>1, <2>2
  <2>3. CASE n = 2
    BY <1>1, <1>2, <2>1, <2>3
  <2>4. CASE n = 4
    BY <1>1, <1>2, <2>1, <2>4
  <2>5. CASE n = 8
    BY <1>1, <1>2, <2>1, <2>5
  <2> QED
    BY <2>2, <2>3, <2>4, <2>5
<1> QED
  BY <1>1, <1>3, <1>4

(* What a store of register k of a block writes is what the architecture   *)
(* has there.                                                              *)
LEMMA StoreAt ==
  ASSUME NEW i \in Insns, Legal(i), i.form \in {"ST", "STM"}, NEW s \in State, NEW base \in Int, base = Base(i, s),
         NEW k \in 0 .. Regs(i) - 1, NEW n, n = Size(i.mop), NEW m \in [Octa -> Byte],
         NEW b \in Octa, NEW q, q = Cut(b - base)
  PROVE  /\ q \in Nat
         /\ Stored(m, Cut(base + k * n), s[i.file][i.ha + k], i.mop)[b]
              = IF k * n <= q /\ q < k * n + n THEN StoredBy(i, s)[b] ELSE m[b]
         /\ q >= n * Regs(i) => StoredBy(i, s)[b] = s.mem[b]
<1>1. n \in {1, 2, 4, 8} /\ k \in Nat /\ Regs(i) \in Nat /\ k + 1 <= Regs(i) /\ k * n \in Nat /\ k * n + n <= M
  BY StoreRoom, SizeType
<1>2. PICK kn \in Nat : kn = k * n
  BY <1>1
<1>3. b \in Int
  BY OctaInt
<1>4. PICK d : d = Cut(b - Cut(base + kn))
  OBVIOUS
<1>5. /\ q \in Nat /\ d \in Nat
      /\ d < n <=> kn <= q /\ q < kn + n
      /\ d < n => q \div n = k /\ q % n = d
  BY <1>1, <1>2, <1>3, <1>4, ByteAt
<1>6. PICK x : x = s[i.file][i.ha + k]
  OBVIOUS
<1>7. Stored(m, Cut(base + kn), x, i.mop)[b] = IF d < n THEN CutTo(B, x \div Pow2[d * B]) ELSE m[b]
  BY <1>4 DEF Stored
<1>8. DOMAIN s.mem = Octa
  BY DEF State
<1>9. StoredBy(i, s)[b] = IF q < n * Regs(i) THEN CutTo(B, s[i.file][i.ha + q \div n] \div Pow2[B * (q % n)])
                          ELSE s.mem[b]
  BY <1>8 DEF StoredBy, Regs
<1>10. ASSUME d < n PROVE StoredBy(i, s)[b] = CutTo(B, x \div Pow2[d * B])
  <2>1. q < kn + n /\ q \div n = k /\ q % n = d
    BY <1>5, <1>10
  <2>2. q < n * Regs(i)
    <3>1. CASE n = 1
      BY <1>1, <1>2, <1>5, <2>1, <3>1
    <3>2. CASE n = 2
      BY <1>1, <1>2, <1>5, <2>1, <3>2
    <3>3. CASE n = 4
      BY <1>1, <1>2, <1>5, <2>1, <3>3
    <3>4. CASE n = 8
      BY <1>1, <1>2, <1>5, <2>1, <3>4
    <3> QED
      BY <1>1, <3>1, <3>2, <3>3, <3>4
  <2>3. B * d = d * B
    BY <1>5, BAssumption
  <2>4. StoredBy(i, s)[b] = CutTo(B, s[i.file][i.ha + q \div n] \div Pow2[B * (q % n)])
    BY <1>9, <2>2
  <2> QED
    BY <1>6, <2>1, <2>3, <2>4
<1>11. q >= n * Regs(i) => StoredBy(i, s)[b] = s.mem[b]
  <2>1. n * Regs(i) \in Nat
    <3>1. PICK r \in Nat, l \in Nat : r = Regs(i) /\ l = n
      BY <1>1
    <3>2. l * r \in Nat
      OBVIOUS
    <3> QED
      BY <3>1, <3>2
  <2> QED
    BY <1>5, <1>9, <2>1
<1>12. Stored(m, Cut(base + kn), x, i.mop)[b] = IF kn <= q /\ q < kn + n THEN StoredBy(i, s)[b] ELSE m[b]
  BY <1>5, <1>7, <1>10
<1> QED
  BY <1>2, <1>5, <1>6, <1>11, <1>12

(* The state before store k of a block: the bytes before it are stored,    *)
(* those behind it may be, by an earlier start.                            *)
StoredTo(i, s, k, x) ==
  /\ x \in State /\ SameFiles(s, x)
  /\ Alone => \A b \in Octa : /\ x.mem[b] \in {s.mem[b], StoredBy(i, s)[b]}
                              /\ Cut(b - Base(i, s)) < k * Size(i.mop) => x.mem[b] = StoredBy(i, s)[b]

(* One store.                                                              *)
LEMMA StStep ==
  ASSUME NEW i \in Insns, Legal(i), i.form \in {"ST", "STM"}, NEW s \in State, Base(i, s) \in Int,
         NEW k \in 0 .. Regs(i) - 1, NEW x, StoredTo(i, s, k, x), x.t[1] = Cut(Base(i, s) + k * Size(i.mop)),
         NEW y, Does(<<"st", T(1), <<i.file, i.ha + k>>, i.mop>>, x, y)
  PROVE  StoredTo(i, s, k + 1, y) /\ y.t[1] = x.t[1]
<1>1. /\ Regs(i) \in Nat \ {0} /\ i.ha \in Nat /\ i.ha + Regs(i) <= NReg /\ NReg \in Nat /\ i.file \in Files
      /\ k \in Nat /\ k * Size(i.mop) \in Nat
  BY StoreRoom
<1>2. i.ha + k \in 0 .. NReg - 1
  BY <1>1
<1>3. PICK n \in {1, 2, 4, 8} : n = Size(i.mop)
  BY SizeType
<1>4. PICK base \in Int : base = Base(i, s)
  OBVIOUS
<1>5. /\ x \in State /\ Source(T(1)) /\ Source(<<i.file, i.ha + k>>) /\ Reg("t", 1)
      /\ \A f \in Files, m \in 0 .. NReg - 1 : Reg(f, m)
  <2>1. 1 \in 1..3
    OBVIOUS
  <2> QED
    BY <1>1, <1>2, <2>1, Operands DEF StoredTo, Reg
<1>6. PICK v : v = s[i.file][i.ha + k]
  OBVIOUS
<1>7. At(x, T(1)) = Cut(base + k * n) /\ At(x, <<i.file, i.ha + k>>) = v
  BY <1>1, <1>2, <1>3, <1>4, <1>6, Reads, SMTT(60) DEF StoredTo, SameFiles
<1>8. /\ y \in State /\ SameRegs(x, y)
      /\ Alone => y.mem = Stored(x.mem, Cut(base + k * n), v, i.mop)
  <2>1. /\ y \in State /\ SameRegs(x, y)
        /\ Alone => y.mem = Stored(x.mem, At(x, T(1)), At(x, <<i.file, i.ha + k>>), i.mop)
    BY <1>5, DoesStore, ZenonT(60)
  <2> QED
    BY <1>7, <2>1
<1>9. y.t[1] = x.t[1] /\ SameFiles(s, y)
  BY <1>5, <1>8 DEF SameRegs, SameFiles, StoredTo
<1>10. ASSUME Alone, NEW b \in Octa
       PROVE  /\ y.mem[b] \in {s.mem[b], StoredBy(i, s)[b]}
              /\ Cut(b - base) < (k + 1) * n => y.mem[b] = StoredBy(i, s)[b]
  <2>1. PICK q : q = Cut(b - base)
    OBVIOUS
  <2>2. x.mem \in [Octa -> Byte]
    BY <1>5 DEF State
  <2>3. PICK kn \in Nat : kn = k * n
    BY <1>1, <1>3
  <2>4. q \in Nat /\ y.mem[b] = IF kn <= q /\ q < kn + n THEN StoredBy(i, s)[b] ELSE x.mem[b]
    BY <1>3, <1>4, <1>6, <1>8, <1>10, <2>1, <2>2, <2>3, StoreAt
  <2>5. x.mem[b] \in {s.mem[b], StoredBy(i, s)[b]} /\ (q < kn => x.mem[b] = StoredBy(i, s)[b])
    BY <1>3, <1>4, <1>10, <2>1, <2>3 DEF StoredTo
  <2>6. (k + 1) * n = kn + n
    BY <1>1, <1>3, <2>3
  <2> QED
    BY <1>3, <2>1, <2>3, <2>4, <2>5, <2>6
<1> QED
  BY <1>3, <1>4, <1>8, <1>9, <1>10 DEF StoredTo

(* All of it.                                                              *)
LEMMA StoredAll ==
  ASSUME NEW i \in Insns, Legal(i), i.form \in {"ST", "STM"}, NEW s \in State, Base(i, s) \in Int,
         NEW y, StoredTo(i, s, Regs(i), y)
  PROVE  Ends(i, s, y)
<1>1. /\ Regs(i) \in Nat \ {0} /\ 0 \in 0 .. Regs(i) - 1 /\ y \in State
  BY StoreRoom DEF StoredTo
<1>2. PICK n \in {1, 2, 4, 8} : n = Size(i.mop)
  BY SizeType
<1>3. PICK base \in Int : base = Base(i, s)
  OBVIOUS
<1>4. ASSUME Alone PROVE y.mem = StoredBy(i, s)
  <2>1. s.mem \in [Octa -> Byte] /\ y.mem \in [Octa -> Byte]
    BY <1>1 DEF State
  <2>2. ASSUME NEW b \in Octa PROVE y.mem[b] = StoredBy(i, s)[b]
    <3>1. PICK q : q = Cut(b - base)
      OBVIOUS
    <3>2. q \in Nat /\ (q >= n * Regs(i) => StoredBy(i, s)[b] = s.mem[b])
      BY <1>1, <1>2, <1>3, <2>1, <3>1, StoreAt
    <3>3. y.mem[b] \in {s.mem[b], StoredBy(i, s)[b]} /\ (q < Regs(i) * n => y.mem[b] = StoredBy(i, s)[b])
      BY <1>2, <1>3, <1>4, <3>1 DEF StoredTo
    <3>4. Regs(i) * n = n * Regs(i) /\ n * Regs(i) \in Nat
      BY <1>1
    <3> QED
      BY <3>2, <3>3, <3>4
  <2>3. StoredBy(i, s) = [b \in Octa |-> StoredBy(i, s)[b]]
    <3>1. DOMAIN s.mem = Octa
      BY <2>1
    <3> QED
      BY <3>1 DEF StoredBy
  <2>4. y.mem = [b \in Octa |-> y.mem[b]]
    BY <2>1
  <2> QED
    BY <2>2, <2>3, <2>4
<1>5. Writes(i, s) = {}
  <2>1. CASE i.form = "ST"
    BY <2>1 DEF Writes
  <2>2. CASE i.form = "STM"
    BY <2>2 DEF Writes
  <2> QED
    BY <2>1, <2>2
<1>6. Leaves({}, s, y)
  BY DEF Leaves, StoredTo, SameFiles
<1> QED
  BY <1>1, <1>4, <1>5, <1>6 DEF Ends, Branches

(* The operations of a block store.                                        *)
LEMMA StmCode ==
  ASSUME NEW i \in Insns, Legal(i), i.form = "STM"
  PROVE  /\ Len(STM(i)) = 1 + 2 * i.imm /\ STM(i)[1] = <<"add", T(1), RB(i.hb), RD(i.hc)>>
         /\ \A k \in 0 .. i.imm - 1 :
              /\ STM(i)[2 * k + 2] = <<"st", T(1), <<i.file, i.ha + k>>, i.mop>>
              /\ STM(i)[2 * k + 3] = <<"add", T(1), T(1), K(Size(i.mop))>>
<1> DEFINE n == i.imm
           u1(k) == <<"st", T(1), <<i.file, i.ha + k>>, i.mop>>
           u2 == <<"add", T(1), T(1), K(Size(i.mop))>>
           block(k) == <<u1(k), u2>>
           c == Times(n, 2, block)
           u0 == <<"add", T(1), RB(i.hb), RD(i.hc)>>
<1>1. n \in Nat
  BY BlockFields
<1>2. STM(i) = <<u0>> \o c
  BY DEF STM, Times
<1>3. c = [j \in 1 .. n * 2 |-> block((j - 1) \div 2)[((j - 1) % 2) + 1]]
  BY DEF Times
<1> HIDE DEF u0, u1, u2, c
<1>4. \A k : block(k)[1] = u1(k) /\ block(k)[2] = u2
  OBVIOUS
<1> HIDE DEF block, n
<1>5. PICK g : g = [k \in 0 .. n - 1 |-> block(k)]
  OBVIOUS
<1>6. Repeats(c, n, 2, g)
  <2>1. Len(c) = n * 2
    BY <1>1, <1>3
  <2>2. ASSUME NEW j \in 1 .. n * 2 PROVE c[j] = g[(j - 1) \div 2][((j - 1) % 2) + 1]
    <3>1. PICK k : k = (j - 1) \div 2
      OBVIOUS
    <3>2. k \in 0 .. n - 1
      BY <1>1, <3>1
    <3>3. c[j] = block(k)[((j - 1) % 2) + 1]
      BY <1>3, <3>1
    <3>4. g[k] = block(k)
      BY <1>5, <3>2
    <3> QED
      BY <3>1, <3>3, <3>4
  <2> QED
    BY <2>1, <2>2 DEF Repeats
<1>7. PICK d, u : d = STM(i) /\ u = u0
  OBVIOUS
<1>8. /\ Len(d) = 1 + 2 * n /\ d[1] = u
      /\ \A k \in 0 .. n - 1, l \in 1 .. 2 : d[2 * k + (l + 1)] = g[k][l]
  <2>1. 2 \in Widths
    BY DEF Widths
  <2>2. d = <<u>> \o c
    BY <1>2, <1>7
  <2>3. BlocksAfter(d, n, 2, g, u)
    BY <1>1, <1>6, <2>1, <2>2, BlockAfter, Zenon
  <2> QED
    BY <2>3 DEF BlocksAfter
<1>9. ASSUME NEW k \in 0 .. n - 1 PROVE d[2 * k + 2] = u1(k) /\ d[2 * k + 3] = u2
  <2>1. d[2 * k + (1 + 1)] = g[k][1] /\ d[2 * k + (2 + 1)] = g[k][2]
    BY <1>8
  <2>2. g[k][1] = u1(k) /\ g[k][2] = u2
    BY <1>4, <1>5
  <2> QED
    BY <2>1, <2>2
<1> QED
  BY <1>7, <1>8, <1>9 DEF n, u0, u1, u2

(* The state a store begins in: some of its bytes may be stored. *)
StBegun(i, s, x) ==
  /\ i \in Insns /\ Legal(i) /\ i.form \in {"ST", "STM"} /\ s \in State
  /\ x \in State /\ SameFiles(s, x)
  /\ Alone => \A b \in Octa : x.mem[b] \in {s.mem[b], StoredBy(i, s)[b]}

(* The state after the address is computed.                                *)
LEMMA StStart ==
  ASSUME NEW i, NEW s, NEW x, StBegun(i, s, x), NEW y,
         Does(<<"add", T(1), RB(i.hb), IF i.form \in {"LD", "ST"} THEN K(i.imm) ELSE RD(i.hc)>>, x, y)
  PROVE  /\ Base(i, s) \in Int /\ StoredTo(i, s, 0, y) /\ y.t[1] = Cut(Base(i, s) + 0 * Size(i.mop))
<1>1. Base(i, s) \in Int /\ Sets(x, y, T(1), Cut(Base(i, s)))
  BY Address DEF StBegun
<1>2. T(1) = <<"t", 1>> /\ Reg("t", 1) /\ \A f \in Files, m \in 0 .. NReg - 1 : Reg(f, m) /\ f # "t"
  BY DEF T, Reg, Files
<1>3. y.t[1] = Cut(Base(i, s)) /\ y \in State /\ (Alone => y.mem = x.mem)
  BY <1>1, <1>2 DEF Sets
<1>4. 0 * Size(i.mop) = 0 /\ Base(i, s) + 0 * Size(i.mop) = Base(i, s)
  BY <1>1, SizeType
<1>5. SameFiles(s, y)
  BY <1>1, <1>2 DEF Sets, SameFiles, StBegun
<1>6. ASSUME NEW b \in Octa PROVE ~(Cut(b - Base(i, s)) < 0)
  <2>1. b - Base(i, s) \in Int
    BY <1>1, OctaInt
  <2>2. PICK q : q = Cut(b - Base(i, s))
    OBVIOUS
  <2>3. q \in Nat
    BY <2>1, <2>2, CutLaws, OctaInt
  <2> QED
    BY <2>2, <2>3
<1>7. Alone => \A b \in Octa : y.mem[b] \in {s.mem[b], StoredBy(i, s)[b]}
  BY <1>3 DEF StBegun
<1> QED
  BY <1>1, <1>3, <1>4, <1>5, <1>6, <1>7 DEF StoredTo

(* The operations of a store.                                              *)
StShape(i, c) ==
  /\ c[1] = <<"add", T(1), RB(i.hb), IF i.form \in {"LD", "ST"} THEN K(i.imm) ELSE RD(i.hc)>>
  /\ \A k \in 0 .. Regs(i) - 1 : c[2 * k + 2] = <<"st", T(1), <<i.file, i.ha + k>>, i.mop>>
  /\ i.form = "STM" => /\ Len(c) = 1 + 2 * Regs(i)
                       /\ \A k \in 0 .. Regs(i) - 1 : c[2 * k + 3] = <<"add", T(1), T(1), K(Size(i.mop))>>
  /\ i.form = "ST" => Len(c) = 2

(* The code of a store.                                                    *)
LEMMA StCode ==
  ASSUME NEW i \in Insns, Legal(i), i.form \in {"ST", "STM"}, NEW pc, NEW c, c = trans(i, pc)
  PROVE  StShape(i, c)
<1> USE DEF StShape
<1>1. CASE i.form = "ST"
  <2>1. PICK u1, u2 : u1 = <<"add", T(1), RB(i.hb), K(i.imm)>> /\ u2 = <<"st", T(1), <<i.file, i.ha>>, i.mop>>
    OBVIOUS
  <2>2. c = <<u1, u2>>
    BY <1>1, <2>1 DEF trans, ST
  <2>3. Len(c) = 2 /\ c[1] = u1 /\ c[2] = u2
    BY <2>2
  <2>4. Regs(i) = 1 /\ i.ha + 0 = i.ha
    BY <1>1, Fields DEF Regs
  <2>5. \A k \in 0 .. Regs(i) - 1 : k = 0 /\ 2 * k + 2 = 2
    BY <2>4
  <2> QED
    BY <1>1, <2>1, <2>3, <2>4, <2>5
<1>2. CASE i.form = "STM"
  <2>1. c = STM(i) /\ Regs(i) = i.imm
    BY <1>2 DEF trans, Regs
  <2> QED
    BY <1>2, <2>1, StmCode
<1> QED
  BY <1>1, <1>2

(* A store, as far as it has come: the state before each of its stores.    *)
LEMMA StRun ==
  ASSUME NEW i, NEW s, NEW h, NEW c, StBegun(i, s, h[0]), c = trans(i, s.rb[0]), NEW z \in Nat,
         z <= Len(c), Len(c) \in Nat, Run(c, z, h)
  PROVE  /\ z > 0 => Base(i, s) \in Int
         /\ \A k \in 0 .. Regs(i) : 2 * k + 1 <= z => StoredTo(i, s, k, h[2 * k + 1])
         /\ \A k \in 0 .. Regs(i) - 1 : 2 * k + 2 <= z => StoredTo(i, s, k + 1, h[2 * k + 2])
<1> DEFINE u0 == <<"add", T(1), RB(i.hb), IF i.form \in {"LD", "ST"} THEN K(i.imm) ELSE RD(i.hc)>>
           u1(k) == <<"st", T(1), <<i.file, i.ha + k>>, i.mop>>
           u2 == <<"add", T(1), T(1), K(Size(i.mop))>>
<1>1. i \in Insns /\ Legal(i) /\ s \in State /\ i.form \in {"ST", "STM"} /\ Regs(i) \in Nat
  BY StoreRoom DEF StBegun
<1>2. PICK n \in Nat : n = Regs(i)
  BY <1>1
<1>3. /\ c[1] = u0 /\ (\A k \in 0 .. n - 1 : c[2 * k + 2] = u1(k)) /\ (i.form = "ST" => Len(c) = 2)
      /\ i.form = "STM" => Len(c) = 1 + 2 * n /\ \A k \in 0 .. n - 1 : c[2 * k + 3] = u2
  <2>1. PICK pc : c = trans(i, pc)
    OBVIOUS
  <2> HIDE DEF u0, u1, u2
  <2>2. /\ c[1] = u0 /\ (\A k \in 0 .. Regs(i) - 1 : c[2 * k + 2] = u1(k)) /\ (i.form = "ST" => Len(c) = 2)
        /\ i.form = "STM" => Len(c) = 1 + 2 * Regs(i) /\ \A k \in 0 .. Regs(i) - 1 : c[2 * k + 3] = u2
    <3>1. StShape(i, c)
      BY <1>1, <2>1, StCode
    <3> QED
      BY <3>1, Zenon DEF StShape, u0, u1, u2
  <2> QED
    BY <1>2, <2>2
<1> HIDE DEF u0, u1, u2
<1>4. (\A j \in 0 .. z : h[j] \in State) /\ (\A j \in 1 .. z : Does(c[j], h[j - 1], h[j]))
  BY DEF Run
<1>5. ASSUME z > 0
      PROVE  Base(i, s) \in Int /\ StoredTo(i, s, 0, h[1]) /\ h[1].t[1] = Cut(Base(i, s) + 0 * Size(i.mop))
  <2>1. Does(u0, h[0], h[1])
    BY <1>3, <1>4, <1>5
  <2> QED
    BY <2>1, StStart DEF u0
<1>6. CASE z = 0
  BY <1>6
<1>7. CASE z > 0
  <2>1. PICK base \in Int : base = Base(i, s)
    BY <1>5, <1>7
  <2>2. PICK sz \in {1, 2, 4, 8} : sz = Size(i.mop)
    BY SizeType
  <2> DEFINE S == {k \in Nat : k <= n /\ 2 * k + 1 <= z =>
                                 StoredTo(i, s, k, h[2 * k + 1]) /\ h[2 * k + 1].t[1] = Cut(base + k * sz)}
  <2>3. ASSUME NEW k \in Nat, k \in S, k + 1 <= n, 2 * k + 2 <= z
        PROVE  StoredTo(i, s, k + 1, h[2 * k + 2]) /\ h[2 * k + 2].t[1] = Cut(base + k * sz)
    <3>1. k \in 0 .. n - 1 /\ StoredTo(i, s, k, h[2 * k + 1]) /\ h[2 * k + 1].t[1] = Cut(base + k * sz)
      BY <2>3
    <3>2. PICK x, y : x = h[2 * k + 1] /\ y = h[2 * k + 2]
      OBVIOUS
    <3>3. Does(u1(k), x, y)
      <4>1. PICK j : j = 2 * k + 2
        OBVIOUS
      <4>2. j \in 1 .. z /\ j - 1 = 2 * k + 1
        BY <2>3, <4>1
      <4>3. Does(c[j], h[j - 1], h[j]) /\ c[j] = u1(k)
        BY <1>3, <1>4, <3>1, <4>1, <4>2
      <4> QED
        BY <3>2, <4>1, <4>2, <4>3
    <3>4. StoredTo(i, s, k + 1, y) /\ y.t[1] = x.t[1]
      <4>1. k \in 0 .. Regs(i) - 1 /\ Base(i, s) \in Int
        BY <1>2, <2>1, <3>1
      <4>2. StoredTo(i, s, k, x) /\ x.t[1] = Cut(Base(i, s) + k * Size(i.mop))
        BY <2>1, <2>2, <3>1, <3>2
      <4> QED
        BY <1>1, <3>3, <4>1, <4>2, StStep DEF u1
    <3> QED
      BY <3>1, <3>2, <3>4
  <2>4. \A k \in Nat : k \in S
    <3>1. 0 \in S
      BY <1>5, <1>7, <2>1, <2>2
    <3>2. ASSUME NEW k \in Nat, k \in S PROVE k + 1 \in S
      <4>1. SUFFICES ASSUME k + 1 <= n, 2 * (k + 1) + 1 <= z
                     PROVE  /\ StoredTo(i, s, k + 1, h[2 * (k + 1) + 1])
                            /\ h[2 * (k + 1) + 1].t[1] = Cut(base + (k + 1) * sz)
        OBVIOUS
      <4>2. PICK j \in Nat : j = 2 * k + 2
        OBVIOUS
      <4>3. j <= z /\ j + 1 \in 1 .. z /\ (j + 1) - 1 = j /\ 2 * k + 3 = j + 1 /\ 2 * (k + 1) + 1 = j + 1
            /\ k \in 0 .. n - 1
        BY <4>1, <4>2
      <4>4. PICK x1, x2 : x1 = h[j] /\ x2 = h[j + 1]
        OBVIOUS
      <4>5. StoredTo(i, s, k + 1, x1) /\ x1.t[1] = Cut(base + k * sz)
        BY <2>3, <3>2, <4>1, <4>2, <4>3, <4>4
      <4>6. Does(u2, x1, x2)
        <5>1. i.form = "STM"
          <6>1. i.form = "ST" => z <= 2
            BY <1>3
          <6>2. ~(z <= 2)
            BY <4>1
          <6> QED
            BY <1>1, <6>1, <6>2
        <5>2. c[j + 1] = u2
          BY <1>3, <4>3, <5>1
        <5>3. Does(c[j + 1], h[(j + 1) - 1], h[j + 1])
          BY <1>4, <4>3
        <5> QED
          BY <4>3, <4>4, <5>2, <5>3
      <4>7. PICK ks \in Int : ks = k * sz
        <5>1. k * sz \in Int
          OBVIOUS
        <5> QED
          BY <5>1
      <4>8. Sets(x1, x2, T(1), Cut((base + ks) + sz))
        <5>1. x1 \in State /\ base + ks \in Int /\ x1.t[1] = Cut(base + ks)
          BY <4>5, <4>7 DEF StoredTo
        <5> QED
          BY <2>2, <4>6, <5>1, NextAddress DEF u2
      <4>9. x2.t[1] = Cut((base + ks) + sz) /\ x2 \in State /\ (Alone => x2.mem = x1.mem) /\ SameFiles(x1, x2)
        <5>1. T(1) = <<"t", 1>> /\ Reg("t", 1) /\ \A f \in Files, m \in 0 .. NReg - 1 : Reg(f, m) /\ f # "t"
          BY DEF T, Reg, Files
        <5> QED
          BY <4>8, <5>1 DEF Sets, SameFiles
      <4>10. StoredTo(i, s, k + 1, x2)
        BY <4>5, <4>9 DEF StoredTo, SameFiles
      <4>11. base + (k + 1) * sz = (base + ks) + sz
        BY <4>7
      <4> QED
        BY <4>3, <4>4, <4>9, <4>10, <4>11
    <3> HIDE DEF S
    <3> QED
      BY <3>1, <3>2, NatSteps
  <2>5. ASSUME NEW k \in 0 .. n, 2 * k + 1 <= z PROVE StoredTo(i, s, k, h[2 * k + 1])
    BY <2>4, <2>5
  <2>6. ASSUME NEW k \in 0 .. n - 1, 2 * k + 2 <= z PROVE StoredTo(i, s, k + 1, h[2 * k + 2])
    <3> HIDE DEF S
    <3>1. k \in Nat /\ k + 1 <= n
      OBVIOUS
    <3>2. k \in S
      BY <2>4, <3>1
    <3> QED
      BY <2>3, <2>6, <3>1, <3>2
  <2> QED
    BY <1>2, <1>5, <1>7, <2>5, <2>6
<1> QED
  BY <1>6, <1>7

(* Stores.                                                                 *)
LEMMA DoneSt ==
  ASSUME NEW i, NEW s, NEW h, Execution(i, s, h), i.form \in {"ST", "STM"}
  PROVE  Ends(i, s, Final(i, s, h))
<1>1. i \in Insns /\ Legal(i) /\ s \in State /\ h[0] \in State /\ Len(trans(i, s.rb[0])) \in Nat
  BY Entry
<1>2. StBegun(i, s, h[0])
  BY <1>1 DEF Execution, StBegun
<1>3. PICK c, z : c = trans(i, s.rb[0]) /\ z = Len(c)
  OBVIOUS
<1>4. z \in Nat /\ z <= Len(c) /\ Run(c, z, h) /\ Final(i, s, h) = h[z]
  BY <1>1, <1>3 DEF Execution, Final
<1>5. /\ z > 0 => Base(i, s) \in Int
      /\ \A k \in 0 .. Regs(i) : 2 * k + 1 <= z => StoredTo(i, s, k, h[2 * k + 1])
      /\ \A k \in 0 .. Regs(i) - 1 : 2 * k + 2 <= z => StoredTo(i, s, k + 1, h[2 * k + 2])
  BY <1>2, <1>3, <1>4, StRun
<1>6. PICK n \in Nat : n = Regs(i)
  BY <1>1, StoreRoom
<1>7. (i.form = "ST" => z = 2 /\ n = 1) /\ (i.form = "STM" => z = 1 + 2 * n)
  <2>1. PICK pc : c = trans(i, pc)
    BY <1>3
  <2>2. StShape(i, c)
    BY <1>1, <2>1, StCode
  <2> QED
    BY <1>3, <1>6, <2>2 DEF Regs, StShape
<1>8. StoredTo(i, s, n, h[z])
  <2>1. CASE i.form = "ST"
    <3>1. 0 \in 0 .. Regs(i) - 1 /\ 2 * 0 + 2 = 2 /\ 0 + 1 = 1 /\ 2 * 0 + 2 <= z
      BY <1>6, <1>7, <2>1
    <3>2. StoredTo(i, s, 0 + 1, h[2 * 0 + 2])
      BY <1>5, <3>1
    <3> QED
      BY <1>7, <2>1, <3>1, <3>2
  <2>2. CASE i.form = "STM"
    <3>1. n \in 0 .. Regs(i) /\ 2 * n + 1 = z /\ 2 * n + 1 <= z
      BY <1>6, <1>7, <2>2
    <3> QED
      BY <1>5, <3>1
  <2> QED
    BY <2>1, <2>2
<1>9. Base(i, s) \in Int
  BY <1>5, <1>7
<1> QED
  BY <1>1, <1>4, <1>6, <1>8, <1>9, StoredAll

(* Before a store operation, the registers are as they were and the bytes  *)
(* of the memory are as before or as after the instruction.                *)
LEMMA StAgain ==
  ASSUME NEW i, NEW s, NEW h, NEW c, StBegun(i, s, h[0]), c = trans(i, s.rb[0]), NEW z \in Nat,
         z < Len(c), Len(c) \in Nat, Run(c, z, h), c[z + 1][1] = "st"
  PROVE  StBegun(i, s, h[z])
<1>1. i \in Insns /\ Legal(i) /\ s \in State /\ i.form \in {"ST", "STM"} /\ Regs(i) \in Nat
  BY StoreRoom DEF StBegun
<1>2. PICK n \in Nat : n = Regs(i)
  BY <1>1
<1>3. /\ c[1][1] = "add" /\ (i.form = "ST" => Len(c) = 2)
      /\ i.form = "STM" => Len(c) = 1 + 2 * n /\ \A k \in 0 .. n - 1 : c[2 * k + 3][1] = "add"
  <2>1. PICK pc : c = trans(i, pc)
    OBVIOUS
  <2>2. PICK u0, u2 : /\ u0 = <<"add", T(1), RB(i.hb), IF i.form \in {"LD", "ST"} THEN K(i.imm) ELSE RD(i.hc)>>
                      /\ u2 = <<"add", T(1), T(1), K(Size(i.mop))>>
    OBVIOUS
  <2>3. /\ c[1] = u0 /\ (i.form = "ST" => Len(c) = 2)
        /\ i.form = "STM" => Len(c) = 1 + 2 * Regs(i) /\ \A k \in 0 .. Regs(i) - 1 : c[2 * k + 3] = u2
    <3>1. StShape(i, c)
      BY <1>1, <2>1, StCode
    <3> QED
      BY <2>2, <3>1, Zenon DEF StShape
  <2>4. u0[1] = "add" /\ u2[1] = "add"
    BY <2>2
  <2> QED
    BY <1>2, <2>3, <2>4
<1>4. PICK k \in 0 .. n : z = 2 * k + 1
  <2>1. z # 0
    BY <1>3
  <2>2. CASE i.form = "ST"
    <3>1. z = 1 /\ n = 1
      BY <1>2, <1>3, <2>1, <2>2 DEF Regs
    <3> QED
      BY <3>1
  <2>3. CASE i.form = "STM"
    <3>1. z < 1 + 2 * n
      BY <1>3, <2>3
    <3>2. PICK k \in Nat : z = 2 * k + 1 \/ z = 2 * k + 2
      <4>1. PICK k : k = (z - 1) \div 2
        OBVIOUS
      <4>2. k \in Nat /\ (z = 2 * k + 1 \/ z = 2 * k + 2)
        BY <2>1, <4>1
      <4> QED
        BY <4>2
    <3>3. k \in 0 .. n - 1
      BY <3>1, <3>2
    <3>4. z # 2 * k + 2
      <4>1. ASSUME z = 2 * k + 2 PROVE FALSE
        <5>1. c[2 * k + 3][1] = "add" /\ z + 1 = 2 * k + 3
          BY <1>3, <2>3, <3>3, <4>1
        <5> QED
          BY <5>1
      <4> QED
        BY <4>1
    <3>5. k \in 0 .. n /\ z = 2 * k + 1
      BY <3>2, <3>3, <3>4
    <3> QED
      BY <3>5
  <2> QED
    BY <1>1, <2>2, <2>3
<1>5. StoredTo(i, s, k, h[z])
  <2>1. z <= Len(c) /\ k \in 0 .. Regs(i) /\ 2 * k + 1 <= z
    BY <1>2, <1>4
  <2>2. \A l \in 0 .. Regs(i) : 2 * l + 1 <= z => StoredTo(i, s, l, h[2 * l + 1])
    BY <2>1, StRun
  <2> QED
    BY <1>4, <2>1, <2>2
<1> QED
  BY <1>1, <1>5 DEF StoredTo, StBegun

-----------------------------------------------------------------------------
(* Blocks of registers. *)

(* Register n is among the first k a block copy writes. *)
Copied(i, k, n) == IF i.hb > i.hc THEN i.imm - k <= n - i.hb /\ n - i.hb < i.imm
                   ELSE 0 <= n - i.hb /\ n - i.hb < k

(* The order of copying: every register of the block is written once, and  *)
(* no register is read after it is written.                                *)
LEMMA CopyLaws ==
  ASSUME NEW i \in Insns, Legal(i), i.form \in {"R2R", "FCVT"}, NEW k \in 0 .. i.imm - 1,
         NEW j, j = CopyOrder(i.hb, i.hc, i.imm, k)
  PROVE  /\ j \in 0 .. i.imm - 1 /\ i.hb + j \in 0 .. NReg - 1 /\ i.hc + j \in 0 .. NReg - 1
         /\ \A n \in Nat : Copied(i, k + 1, n) <=> Copied(i, k, n) \/ n = i.hb + j
         /\ ~Copied(i, k, i.hc + j)
<1>1. /\ NReg \in Nat /\ i.hb \in Nat /\ i.hc \in Nat /\ i.imm \in Nat
      /\ i.hb + i.imm <= NReg /\ i.hc + i.imm <= NReg
  BY BlockFields
<1>2. k \in Nat /\ k < i.imm
  BY <1>1
<1>3. CASE i.hb > i.hc
  <2>1. j = i.imm - 1 - k
    BY <1>3 DEF CopyOrder
  <2> QED
    BY <1>1, <1>2, <1>3, <2>1 DEF Copied
<1>4. CASE ~(i.hb > i.hc)
  <2>1. j = k
    BY <1>4 DEF CopyOrder
  <2> QED
    BY <1>1, <1>2, <1>4, <2>1 DEF Copied
<1> QED
  BY <1>3, <1>4

(* Nothing at first, everything at last.                                   *)
LEMMA CopyEnds ==
  ASSUME NEW i \in Insns, Legal(i), i.form \in {"R2R", "FCVT"}, NEW n \in Nat
  PROVE  ~Copied(i, 0, n) /\ (Copied(i, i.imm, n) <=> i.hb <= n /\ n < i.hb + i.imm)
<1>1. i.hb \in Nat /\ i.hc \in Nat /\ i.imm \in Nat
  BY BlockFields
<1> QED
  BY <1>1 DEF Copied

(* The operations of a block copy.                                         *)
CopyOp(i, k) ==
  LET j == CopyOrder(i.hb, i.hc, i.imm, k)
  IN  Unless0(i.hb + j # 0 \/ i.file \in {"rf", "ra"}, <<"mov", <<i.file, i.hb + j>>, <<i.from, i.hc + j>>>>)

(* The code of a block copy.                                               *)
LEMMA R2rCode ==
  ASSUME NEW i \in Insns, Legal(i), i.form = "R2R"
  PROVE  Len(R2R(i)) = i.imm /\ \A k \in 0 .. i.imm - 1 : R2R(i)[k + 1] = CopyOp(i, k)
<1>1. i.imm \in Nat
  BY BlockFields
<1>2. PICK n \in Nat : n = i.imm
  BY <1>1
<1>3. R2R(i) = [j \in 1 .. n * 1 |-> <<CopyOp(i, (j - 1) \div 1)>>[((j - 1) % 1) + 1]]
  BY <1>2 DEF R2R, Times, CopyOp
<1>4. n * 1 = n
  OBVIOUS
<1>5. \A j \in 1 .. n : (j - 1) \div 1 = j - 1 /\ ((j - 1) % 1) + 1 = 1
  <2> SUFFICES ASSUME NEW j \in 1 .. n PROVE (j - 1) \div 1 = j - 1 /\ ((j - 1) % 1) + 1 = 1
    OBVIOUS
  <2>1. 1 \in Nat \ {0} /\ j - 1 \in Int /\ 0 \in 0 .. 1 - 1
    OBVIOUS
  <2>2. (1 * (j - 1) + 0) \div 1 = j - 1 /\ (1 * (j - 1) + 0) % 1 = 0
    BY <2>1, DivModUnique
  <2>3. 1 * (j - 1) + 0 = j - 1
    OBVIOUS
  <2>4. (j - 1) \div 1 = j - 1 /\ (j - 1) % 1 = 0
    BY <2>2, <2>3
  <2> QED
    BY <2>4
<1>6. Len(R2R(i)) = n
  BY <1>3, <1>4
<1>7. ASSUME NEW k \in 0 .. n - 1 PROVE R2R(i)[k + 1] = CopyOp(i, k)
  <2>1. PICK j \in 1 .. n : j = k + 1
    OBVIOUS
  <2>2. PICK d, m : d = (j - 1) \div 1 /\ m = ((j - 1) % 1) + 1
    OBVIOUS
  <2>3. R2R(i)[j] = <<CopyOp(i, d)>>[m]
    BY <1>3, <1>4, <2>2
  <2>4. d = k /\ m = 1
    BY <1>5, <2>1, <2>2
  <2> QED
    BY <2>1, <2>3, <2>4
<1> QED
  BY <1>2, <1>6, <1>7

(* The state before step k of a block copy. *)
CopiedTo(i, s, k, x) ==
  /\ x \in State /\ (Alone => x.mem = s.mem)
  /\ \A f \in Files, n \in 0 .. NReg - 1 :
       x[f][n] = IF f = i.file /\ Copied(i, k, n) /\ (n # 0 \/ i.file \in {"rf", "ra"})
                 THEN s[i.from][i.hc + (n - i.hb)] ELSE s[f][n]

(* One step of it.                                                         *)
LEMMA R2rStep ==
  ASSUME NEW i \in Insns, Legal(i), i.form = "R2R", NEW s \in State, NEW k \in 0 .. i.imm - 1,
         NEW x, CopiedTo(i, s, k, x), NEW y \in State, Does(CopyOp(i, k), x, y)
  PROVE  CopiedTo(i, s, k + 1, y)
<1>1. PICK j : j = CopyOrder(i.hb, i.hc, i.imm, k)
  OBVIOUS
<1>2. /\ i.imm \in Nat /\ i.hb \in Nat /\ i.hc \in Nat /\ NReg \in Nat /\ i.file \in Files /\ i.from \in Files
  BY BlockFields
<1>3. /\ j \in Nat /\ i.hb + j \in 0 .. NReg - 1 /\ i.hc + j \in 0 .. NReg - 1
      /\ \A n \in Nat : Copied(i, k + 1, n) <=> Copied(i, k, n) \/ n = i.hb + j
      /\ ~Copied(i, k, i.hc + j)
  BY <1>1, <1>2, CopyLaws
<1>4. PICK d, e : d = i.hb + j /\ e = i.hc + j
  OBVIOUS
<1> DEFINE g == d # 0 \/ i.file \in {"rf", "ra"}
<1>5. CopyOp(i, k) = Unless0(g, <<"mov", <<i.file, d>>, <<i.from, e>>>>)
  BY <1>1, <1>4 DEF CopyOp
<1>6. x \in State /\ x[i.from][e] = s[i.from][e] /\ d - i.hb = j /\ i.hc + (d - i.hb) = e
  BY <1>2, <1>3, <1>4 DEF CopiedTo
<1> HIDE DEF g
<1>7. \A f \in Files, n \in 0 .. NReg - 1 : Reg(f, n)
  BY DEF Reg
<1>8. /\ Alone => y.mem = x.mem
      /\ \A f \in Files, n \in 0 .. NReg - 1 : y[f][n] = IF f = i.file /\ n = d /\ g THEN s[i.from][e] ELSE x[f][n]
  <2>1. CASE g
    <3>1. Does(<<"mov", <<i.file, d>>, <<i.from, e>>>>, x, y)
      BY <1>5, <2>1 DEF Unless0
    <3>2. Place(<<i.file, d>>) /\ Source(<<i.from, e>>) /\ At(x, <<i.from, e>>) = s[i.from][e]
      BY <1>2, <1>3, <1>4, <1>6, Operands, Reads
    <3>3. Sets(x, y, <<i.file, d>>, s[i.from][e])
      BY <1>6, <3>1, <3>2, DoesShapes
    <3>4. <<i.file, d>>[1] = i.file /\ <<i.file, d>>[2] = d
      OBVIOUS
    <3> QED
      BY <1>7, <2>1, <3>3, <3>4 DEF Sets
  <2>2. CASE ~g
    <3>1. Does(NoOp, x, y)
      BY <1>5, <2>2 DEF Unless0
    <3>2. Keeps(x, y)
      BY <1>6, <3>1, DoesTest
    <3> QED
      BY <1>7, <2>2, <3>2 DEF Keeps, SameRegs
  <2> QED
    BY <2>1, <2>2
<1>9. ASSUME NEW f \in Files, NEW n \in 0 .. NReg - 1
      PROVE  y[f][n] = IF f = i.file /\ Copied(i, k + 1, n) /\ (n # 0 \/ i.file \in {"rf", "ra"})
                       THEN s[i.from][i.hc + (n - i.hb)] ELSE s[f][n]
  <2>1. n \in Nat
    BY <1>2
  <2>2. Copied(i, k + 1, n) <=> Copied(i, k, n) \/ n = d
    BY <1>3, <1>4, <2>1
  <2>3. x[f][n] = IF f = i.file /\ Copied(i, k, n) /\ (n # 0 \/ i.file \in {"rf", "ra"})
                  THEN s[i.from][i.hc + (n - i.hb)] ELSE s[f][n]
    BY DEF CopiedTo
  <2>4. CASE f = i.file /\ n = d
    BY <1>6, <1>8, <2>2, <2>3, <2>4 DEF g
  <2>5. CASE ~(f = i.file /\ n = d)
    BY <1>8, <2>2, <2>3, <2>5
  <2> QED
    BY <2>4, <2>5
<1> QED
  BY <1>8, <1>9 DEF CopiedTo

(* A copy of a block of registers, the two blocks overlapping or not.      *)
LEMMA DoneR2r ==
  ASSUME NEW i, NEW s, NEW h, Execution(i, s, h), i.form = "R2R"
  PROVE  Ends(i, s, Final(i, s, h))
<1>1. i \in Insns /\ Legal(i) /\ s \in State /\ Plain(i) /\ h[0] \in State
  BY Entry DEF Plain, Branches
<1>2. /\ i.imm \in Nat /\ i.hb \in Nat /\ i.hc \in Nat /\ NReg \in Nat /\ i.file \in Files /\ i.from \in Files
  BY <1>1, BlockFields
<1>3. PICK n \in Nat : n = i.imm
  BY <1>2
<1>4. PICK c : c = trans(i, s.rb[0])
  OBVIOUS
<1>5. Len(c) = n /\ \A k \in 0 .. n - 1 : c[k + 1] = CopyOp(i, k)
  <2>1. c = R2R(i)
    BY <1>4 DEF trans
  <2> QED
    BY <1>1, <1>3, <2>1, R2rCode
<1>6. /\ \A j \in 0 .. n : h[j] \in State
      /\ \A j \in 1 .. n : Does(c[j], h[j - 1], h[j])
      /\ Final(i, s, h) = h[n]
  <2>1. Len(trans(i, s.rb[0])) = n
    BY <1>4, <1>5
  <2>2. /\ \A j \in 0 .. n : h[j] \in State
        /\ \A j \in 1 .. n : Does(trans(i, s.rb[0])[j], h[j - 1], h[j])
        /\ Final(i, s, h) = h[n]
    BY <2>1, ShortAt
  <2> QED
    BY <1>4, <2>2
<1>7. StoredBy(i, s) = s.mem /\ (Alone => h[0].mem = s.mem)
  BY Entry
<1> DEFINE S == {k \in Nat : k <= n => CopiedTo(i, s, k, h[k])}
<1>8. \A k \in Nat : k \in S
  <2>1. 0 \in S
    <3>1. \A m \in 0 .. NReg - 1 : m \in Nat /\ ~Copied(i, 0, m)
      BY <1>1, <1>2, CopyEnds
    <3>2. CopiedTo(i, s, 0, h[0])
      BY <1>1, <1>7, <3>1, Entry DEF CopiedTo
    <3> QED
      BY <3>2
  <2>2. ASSUME NEW k \in Nat, k \in S PROVE k + 1 \in S
    <3>1. SUFFICES ASSUME k + 1 <= n PROVE CopiedTo(i, s, k + 1, h[k + 1])
      OBVIOUS
    <3>2. k \in 0 .. n - 1 /\ CopiedTo(i, s, k, h[k]) /\ k + 1 \in 1 .. n /\ k + 1 \in 0 .. n /\ (k + 1) - 1 = k
      BY <2>2, <3>1
    <3>3. PICK x, y : x = h[k] /\ y = h[k + 1]
      OBVIOUS
    <3>4. Does(c[k + 1], h[(k + 1) - 1], h[k + 1]) /\ c[k + 1] = CopyOp(i, k) /\ h[k + 1] \in State
      BY <1>5, <1>6, <3>2
    <3>5. Does(CopyOp(i, k), x, y) /\ y \in State /\ CopiedTo(i, s, k, x)
      BY <3>2, <3>3, <3>4
    <3>6. CopiedTo(i, s, k + 1, y)
      BY <1>1, <1>3, <3>2, <3>5, R2rStep
    <3> QED
      BY <3>3, <3>6
  <2> HIDE DEF S
  <2> QED
    BY <2>1, <2>2, NatSteps
<1>9. PICK y : y = Final(i, s, h)
  OBVIOUS
<1>10. CopiedTo(i, s, n, y)
  <2>1. n <= n /\ n \in S
    BY <1>8
  <2> QED
    BY <1>6, <1>9, <2>1
<1> DEFINE w == {<<<<i.file, i.hb + k>>, s[i.from][i.hc + k]>> : k \in 0 .. n - 1}
<1>11. Writes(i, s) = w
  BY <1>3 DEF Writes
<1>12. Leaves(w, s, y)
  <2> SUFFICES ASSUME NEW f \in Files, NEW m \in 0 .. NReg - 1, <<f, m>> \notin Special
               PROVE  \/ <<<<f, m>>, y[f][m]>> \in w
                      \/ y[f][m] = s[f][m] /\ \A u \in w : u[1] # <<f, m>>
    BY DEF Leaves
  <2>0. m \in Nat
    BY <1>2
  <2>1. y[f][m] = IF f = i.file /\ Copied(i, n, m) /\ (m # 0 \/ i.file \in {"rf", "ra"})
                  THEN s[i.from][i.hc + (m - i.hb)] ELSE s[f][m]
    BY <1>10 DEF CopiedTo
  <2>2. Copied(i, n, m) <=> i.hb <= m /\ m < i.hb + n
    BY <1>1, <1>3, <2>0, CopyEnds
  <2>3. m # 0 \/ f = "ra"
    BY DEF Special, RD, RB, RF, Files
  <2>4. CASE f = i.file /\ i.hb <= m /\ m < i.hb + n
    <3>1. PICK k : k = m - i.hb
      OBVIOUS
    <3>2. k \in 0 .. n - 1 /\ i.hb + k = m
      BY <1>2, <2>0, <2>4, <3>1
    <3>3. y[f][m] = s[i.from][i.hc + k]
      BY <2>1, <2>2, <2>3, <2>4, <3>1
    <3> QED
      BY <2>4, <3>2, <3>3
  <2>5. CASE ~(f = i.file /\ i.hb <= m /\ m < i.hb + n)
    <3>1. \A k \in 0 .. n - 1 : <<i.file, i.hb + k>> # <<f, m>>
      BY <1>2, <2>5
    <3>2. \A u \in w : u[1] # <<f, m>>
      BY <3>1
    <3> QED
      BY <2>1, <2>2, <2>5, <3>2
  <2> QED
    BY <2>4, <2>5
<1> HIDE DEF w
<1>13. y \in State /\ (Alone => y.mem = StoredBy(i, s)) /\ Leaves(Writes(i, s), s, y)
  BY <1>7, <1>10, <1>11, <1>12 DEF CopiedTo
<1> QED
  BY <1>1, <1>9, <1>13 DEF Ends, Plain

(* The state before step k of a block conversion. *)
Converted(i, s, k, x) ==
  /\ x \in State /\ (Alone => x.mem = s.mem /\ Kept(s.rf[0], x.rf[0]))
  /\ \A f \in Files, n \in 0 .. NReg - 1 : <<f, n>> \notin Special =>
       IF f = i.file /\ Copied(i, k, n) THEN x[f][n] \in FpResults ELSE x[f][n] = s[f][n]

(* A step of it, which converts a register or, for register zero, nothing. *)
LEMMA CvtStep ==
  ASSUME NEW i \in Insns, Legal(i), i.form = "FCVT", NEW s \in State, NEW k \in 0 .. i.imm - 1,
         NEW x, Converted(i, s, k, x), NEW y,
         IF CvtDst(i, k)[2] = 0 THEN TempSets(x, y) ELSE FpStep(x, y, CvtDst(i, k))
  PROVE  Converted(i, s, k + 1, y)
<1>1. PICK j : j = CopyOrder(i.hb, i.hc, i.imm, k)
  OBVIOUS
<1>2. /\ i.imm \in Nat /\ i.hb \in Nat /\ i.hc \in Nat /\ NReg \in Nat /\ i.file \in Files
  BY BlockFields
<1>3. i.file \in {"rd", "rf"}
  BY InputAssumption DEF Encodable, FcvtForms
<1>4. /\ j \in Nat /\ i.hb + j \in 0 .. NReg - 1
      /\ \A n \in Nat : Copied(i, k + 1, n) <=> Copied(i, k, n) \/ n = i.hb + j
  BY <1>1, <1>2, CopyLaws
<1>5. PICK d : d = i.hb + j
  OBVIOUS
<1>6. CvtDst(i, k) = <<i.file, d>> /\ d \in Nat
  BY <1>1, <1>2, <1>4, <1>5 DEF CvtDst
<1>7. x \in State /\ s.rf[0] \in Octa /\ x.rf[0] \in Octa
  <2>1. 0 \in 0 .. NReg - 1
    BY Operands
  <2> QED
    BY <2>1 DEF Converted, State, RegFile
<1>8. CASE d = 0
  <2>1. TempSets(x, y)
    BY <1>6, <1>8
  <2>2. \A f \in Files, n \in 0 .. NReg - 1 : y[f][n] = x[f][n]
    BY <2>1 DEF TempSets, SameFiles
  <2>3. y.rf[0] = x.rf[0]
    BY <2>2, Operands DEF Files
  <2>4. ASSUME NEW f \in Files, NEW n \in 0 .. NReg - 1, <<f, n>> \notin Special
        PROVE  IF f = i.file /\ Copied(i, k + 1, n) THEN y[f][n] \in FpResults ELSE y[f][n] = s[f][n]
    <3>1. n \in Nat /\ (f = i.file => n # d)
      BY <1>2, <1>3, <1>8, <2>4 DEF Special, RD, RF
    <3>2. f = i.file => (Copied(i, k + 1, n) <=> Copied(i, k, n))
      BY <1>4, <1>5, <3>1
    <3> QED
      BY <2>2, <2>4, <3>2 DEF Converted
  <2> QED
    BY <2>1, <2>3, <2>4 DEF Converted, TempSets
<1>9. CASE d # 0
  <2>1. FpStep(x, y, <<i.file, d>>) /\ <<i.file, d>> # RF(0)
    BY <1>6, <1>9 DEF RF
  <2>2. y \in State /\ (Alone => y.mem = x.mem /\ Kept(x.rf[0], y.rf[0]))
    BY <2>1 DEF FpStep
  <2>3. y.rf[0] \in Octa
    <3>1. 0 \in 0 .. NReg - 1
      BY Operands
    <3> QED
      BY <2>2, <3>1 DEF State, RegFile
  <2>4. Alone => Kept(s.rf[0], y.rf[0])
    <3>1. Alone => Kept(s.rf[0], x.rf[0])
      BY DEF Converted
    <3> QED
      BY <1>7, <2>2, <2>3, <3>1, KeptLaws
  <2>5. ASSUME NEW f \in Files, NEW n \in 0 .. NReg - 1, <<f, n>> \notin Special
        PROVE  IF f = i.file /\ Copied(i, k + 1, n) THEN y[f][n] \in FpResults ELSE y[f][n] = s[f][n]
    <3>1. n \in Nat
      BY <1>2
    <3>2. Copied(i, k + 1, n) <=> Copied(i, k, n) \/ n = d
      BY <1>4, <1>5, <3>1
    <3>3. CASE f = i.file /\ n = d
      <4>1. y[f][n] \in FpResults
        BY <2>1, <3>3 DEF FpStep
      <4> QED
        BY <3>2, <3>3, <4>1
    <3>4. CASE ~(f = i.file /\ n = d)
      <4>1. <<f, n>> # <<i.file, d>> /\ <<f, n>> # RF(0)
        BY <2>5, <3>4 DEF Special
      <4>2. y[f][n] = x[f][n]
        BY <2>1, <4>1 DEF FpStep
      <4> QED
        BY <2>5, <3>2, <3>4, <4>2 DEF Converted
    <3> QED
      BY <3>3, <3>4
  <2> QED
    BY <2>2, <2>4, <2>5 DEF Converted
<1> QED
  BY <1>8, <1>9

(* A block of operations converts one register.                            *)
LEMMA CvtBlockDoes ==
  ASSUME NEW i \in Insns, Legal(i), i.form = "FCVT", NEW k \in 0 .. i.imm - 1,
         NEW x \in State, NEW x1 \in State, NEW x2 \in State, NEW x3 \in State, NEW x4 \in State,
         Does(CvtBlock(i, k)[1], x, x1), Does(CvtBlock(i, k)[2], x1, x2),
         CvtOps(i) = 4 => Does(CvtBlock(i, k)[3], x2, x3) /\ Does(CvtBlock(i, k)[4], x3, x4),
         NEW y, y = IF CvtOps(i) = 4 THEN x4 ELSE x2
  PROVE  IF CvtDst(i, k)[2] = 0 THEN TempSets(x, y) ELSE FpStep(x, y, CvtDst(i, k))
<1>1. CvtDst(i, k)[2] \in 0 .. NReg - 1 /\ i.file \in Files
  BY FcvtBlocks, BlockFields
<1>2. PICK f, n : f = i.file /\ n = CvtDst(i, k)[2]
  OBVIOUS
<1>3. CvtDst(i, k) = <<f, n>> /\ f \in Files /\ n \in 0 .. NReg - 1
  BY <1>1, <1>2 DEF CvtDst
<1>4. PICK srcs : srcs = <<CvtSrc(i, k)>>
  OBVIOUS
<1>5. CASE n = 0
  <2>1. CvtBlock(i, k) = IF CvtOps(i) = 4 THEN <<NoOp, NoOp, NoOp, NoOp>> ELSE <<NoOp, NoOp>>
    BY <1>2, <1>5 DEF CvtBlock, CvtOps
  <2>2. Does(NoOp, x, x1) /\ Does(NoOp, x1, x2)
    BY <2>1
  <2>3. CvtOps(i) = 4 => Does(NoOp, x2, x3) /\ Does(NoOp, x3, x4)
    BY <2>1
  <2>4. TempSets(x, x1) /\ TempSets(x1, x2) /\ (CvtOps(i) = 4 => TempSets(x2, x3) /\ TempSets(x3, x4))
    BY <2>2, <2>3, DoesTest, TempSteps
  <2>5. TempSets(x, x2) /\ (CvtOps(i) = 4 => TempSets(x, x3) /\ TempSets(x, x4))
    BY <2>4, TempSteps
  <2> QED
    BY <1>2, <1>5, <2>5
<1>6. CASE n # 0 /\ i.alu = "cls"
  <2>1. PICK u1, u2 : u1 = <<"fp", T(3), srcs>> /\ u2 = <<"mov", <<f, n>>, T(3)>>
    OBVIOUS
  <2>2. CvtBlock(i, k) = <<u1, u2>> /\ CvtOps(i) = 2
    BY <1>2, <1>3, <1>4, <1>6, <2>1 DEF CvtBlock, CvtOps, ftcls
  <2>3. Does(u1, x, x1) /\ Does(u2, x1, x2) /\ y = x2
    BY <2>2
  <2>4. FpStep(x, x2, <<f, n>>)
    BY <1>3, <2>1, <2>3, FpBlock, Zenon
  <2> QED
    BY <1>2, <1>3, <1>6, <2>3, <2>4
<1>7. CASE n # 0 /\ i.alu # "cls"
  <2>1. PICK u1, u2, u3, u4 : /\ u1 = <<"head">> /\ u2 = <<"fp", T(3), srcs>> /\ u3 = <<"tail">>
                              /\ u4 = <<"mov", <<f, n>>, T(3)>>
    OBVIOUS
  <2>2. CvtBlock(i, k) = <<u1, u2, u3, u4>> /\ CvtOps(i) = 4
    BY <1>2, <1>3, <1>4, <1>7, <2>1 DEF CvtBlock, CvtOps, FCVT_s1d1, Helper
  <2>3. Does(u1, x, x1) /\ Does(u2, x1, x2) /\ Does(u3, x2, x3) /\ Does(u4, x3, x4) /\ y = x4
    BY <2>2
  <2>4. FpStep(x, x4, <<f, n>>)
    BY <1>3, <2>1, <2>3, FpBlock, Zenon
  <2> QED
    BY <1>2, <1>3, <1>7, <2>3, <2>4
<1> QED
  BY <1>5, <1>6, <1>7

(* The operations of a block conversion.                                   *)
LEMMA CvtCode ==
  ASSUME NEW i \in Insns, Legal(i), i.form = "FCVT", NEW n, n = i.imm, NEW m, m = CvtOps(i),
         NEW c, c = FCVT(i)
  PROVE  /\ n \in Nat /\ m \in {2, 4} /\ Len(c) = n * m /\ n * m = m * n
         /\ \A k \in 0 .. n - 1, l \in 1 .. m : c[m * k + l] = CvtBlock(i, k)[l]
<1>1. n \in Nat /\ m \in {2, 4}
  BY BlockFields DEF CvtOps
<1>2. c = [j \in 1 .. n * m |-> CvtBlock(i, (j - 1) \div m)[((j - 1) % m) + 1]]
  BY FcvtBlocks
<1>3. PICK g : g = [k \in 0 .. n - 1 |-> CvtBlock(i, k)]
  OBVIOUS
<1>4. Repeats(c, n, m, g)
  <2>0. n * m \in Nat
    BY <1>1
  <2>1. Len(c) = n * m
    BY <1>2, <2>0
  <2>2. ASSUME NEW j \in 1 .. n * m PROVE c[j] = g[(j - 1) \div m][((j - 1) % m) + 1]
    <3>1. PICK k : k = (j - 1) \div m
      OBVIOUS
    <3>2. k \in 0 .. n - 1
      <4>1. CASE m = 2
        BY <1>1, <3>1, <4>1
      <4>2. CASE m = 4
        BY <1>1, <3>1, <4>2
      <4> QED
        BY <1>1, <4>1, <4>2
    <3>3. c[j] = CvtBlock(i, k)[((j - 1) % m) + 1]
      BY <1>2, <3>1
    <3>4. g[k] = CvtBlock(i, k)
      BY <1>3, <3>2
    <3> QED
      BY <3>1, <3>3, <3>4
  <2> QED
    BY <2>1, <2>2 DEF Repeats
<1>5. Blocks(c, n, m, g)
  <2>1. m \in Widths
    BY <1>1 DEF Widths
  <2> QED
    BY <1>1, <1>4, <2>1, BlockAt, Zenon
<1>6. Len(c) = n * m /\ n * m = m * n /\ \A k \in 0 .. n - 1, l \in 1 .. m : c[m * k + l] = g[k][l]
  BY <1>5 DEF Blocks
<1>7. \A k \in 0 .. n - 1 : g[k] = CvtBlock(i, k)
  BY <1>3
<1>8. ASSUME NEW k \in 0 .. n - 1, NEW l \in 1 .. m PROVE c[m * k + l] = CvtBlock(i, k)[l]
  <2>1. c[m * k + l] = g[k][l]
    BY <1>6
  <2> QED
    BY <1>7, <2>1
<1> QED
  BY <1>1, <1>6, <1>8

(* Conversions.                                                            *)
LEMMA DoneFcvt ==
  ASSUME NEW i, NEW s, NEW h, Execution(i, s, h), i.form = "FCVT"
  PROVE  FpEnds(i, s, Final(i, s, h))
<1>1. i \in Insns /\ Legal(i) /\ s \in State /\ Plain(i) /\ h[0] \in State
  BY Entry DEF Plain, Branches
<1>2. i.hb \in Nat /\ NReg \in Nat /\ i.file \in Files
  BY <1>1, BlockFields
<1>3. PICK n, m, c : n = i.imm /\ m = CvtOps(i) /\ c = FCVT(i)
  OBVIOUS
<1>4. /\ n \in Nat /\ m \in {2, 4} /\ Len(c) = n * m /\ n * m = m * n
      /\ \A k \in 0 .. n - 1, l \in 1 .. m : c[m * k + l] = CvtBlock(i, k)[l]
  BY <1>1, <1>3, CvtCode
<1>5. PICK z \in Nat : z = m * n
  <2>1. m * n \in Nat
    BY <1>4
  <2> QED
    BY <2>1
<1>6. /\ \A j \in 0 .. z : h[j] \in State
      /\ \A j \in 1 .. z : Does(c[j], h[j - 1], h[j])
      /\ Final(i, s, h) = h[z]
  <2>1. c = trans(i, s.rb[0])
    BY <1>3 DEF trans
  <2>2. Len(trans(i, s.rb[0])) = z
    BY <1>4, <1>5, <2>1
  <2>3. /\ \A j \in 0 .. z : h[j] \in State
        /\ \A j \in 1 .. z : Does(trans(i, s.rb[0])[j], h[j - 1], h[j])
        /\ Final(i, s, h) = h[z]
    BY <2>2, ShortAt
  <2> QED
    BY <2>1, <2>3
<1>7. StoredBy(i, s) = s.mem /\ (Alone => h[0].mem = s.mem)
  BY Entry
<1>8. s.rf[0] \in Octa /\ h[0].rf[0] = s.rf[0]
  BY Entry, Operands
<1> DEFINE S == {k \in Nat : k <= n => Converted(i, s, k, h[m * k])}
<1>9. \A k \in Nat : k \in S
  <2>1. 0 \in S
    <3>1. \A l \in 0 .. NReg - 1 : l \in Nat /\ ~Copied(i, 0, l)
      BY <1>1, <1>2, CopyEnds
    <3>2. Kept(s.rf[0], h[0].rf[0])
      BY <1>8, KeptLaws
    <3>3. Converted(i, s, 0, h[0])
      BY <1>1, <1>7, <3>1, <3>2, Entry DEF Converted
    <3>4. m * 0 = 0
      BY <1>4
    <3> QED
      BY <3>3, <3>4
  <2>2. ASSUME NEW k \in Nat, k \in S PROVE k + 1 \in S
    <3>1. SUFFICES ASSUME k + 1 <= n PROVE Converted(i, s, k + 1, h[m * (k + 1)])
      OBVIOUS
    <3>2. k \in 0 .. n - 1 /\ Converted(i, s, k, h[m * k]) /\ k \in 0 .. i.imm - 1
      BY <1>3, <1>4, <2>2, <3>1
    <3>3. PICK j \in Nat : j = m * k
      <4>1. m * k \in Nat
        BY <1>4
      <4> QED
        BY <4>1
    <3>4. j + m <= z /\ m * (k + 1) = j + m
      <4>1. CASE m = 2
        BY <1>4, <1>5, <3>1, <3>3, <4>1
      <4>2. CASE m = 4
        BY <1>4, <1>5, <3>1, <3>3, <4>2
      <4> QED
        BY <1>4, <4>1, <4>2
    <3>5. /\ h[j] \in State
          /\ \A l \in 1 .. m : h[j + l] \in State /\ Does(CvtBlock(i, k)[l], h[(j + l) - 1], h[j + l])
      <4>1. ASSUME NEW l \in 1 .. m
            PROVE  h[j + l] \in State /\ Does(CvtBlock(i, k)[l], h[(j + l) - 1], h[j + l])
        <5>1. j + l \in 1 .. z /\ j + l \in 0 .. z
          BY <1>4, <3>4
        <5>2. c[j + l] = CvtBlock(i, k)[l]
          BY <1>4, <3>2, <3>3
        <5>3. h[j + l] \in State /\ Does(c[j + l], h[(j + l) - 1], h[j + l])
          BY <1>6, <5>1
        <5> QED
          BY <5>2, <5>3
      <4>2. j \in 0 .. z
        BY <1>4, <3>4
      <4> QED
        BY <1>6, <4>1, <4>2
    <3>6. PICK x, x1, x2 : x = h[j] /\ x1 = h[j + 1] /\ x2 = h[j + 2]
      OBVIOUS
    <3>7. /\ x \in State /\ x1 \in State /\ x2 \in State
          /\ Does(CvtBlock(i, k)[1], x, x1) /\ Does(CvtBlock(i, k)[2], x1, x2)
      <4>1. 1 \in 1 .. m /\ 2 \in 1 .. m /\ (j + 1) - 1 = j /\ (j + 2) - 1 = j + 1
        BY <1>4
      <4>2. /\ h[j + 1] \in State /\ Does(CvtBlock(i, k)[1], h[(j + 1) - 1], h[j + 1])
            /\ h[j + 2] \in State /\ Does(CvtBlock(i, k)[2], h[(j + 2) - 1], h[j + 2])
        BY <3>5, <4>1
      <4> QED
        BY <3>5, <3>6, <4>1, <4>2
    <3>8. Converted(i, s, k, x)
      BY <3>2, <3>3, <3>6
    <3>9. CASE m = 2
      <4>1. IF CvtDst(i, k)[2] = 0 THEN TempSets(x, x2) ELSE FpStep(x, x2, CvtDst(i, k))
        <5>1. CvtOps(i) # 4
          BY <1>3, <3>9
        <5> QED
          BY <1>1, <3>2, <3>7, <5>1, CvtBlockDoes
      <4>2. Converted(i, s, k + 1, x2)
        BY <1>1, <3>2, <3>8, <4>1, CvtStep
      <4> QED
        BY <3>4, <3>6, <3>9, <4>2
    <3>10. CASE m = 4
      <4>1. PICK x3, x4 : x3 = h[j + 3] /\ x4 = h[j + 4]
        OBVIOUS
      <4>2. /\ x3 \in State /\ x4 \in State
            /\ Does(CvtBlock(i, k)[3], x2, x3) /\ Does(CvtBlock(i, k)[4], x3, x4)
        <5>1. 3 \in 1 .. m /\ 4 \in 1 .. m /\ (j + 3) - 1 = j + 2 /\ (j + 4) - 1 = j + 3
          BY <3>10
        <5>2. /\ h[j + 3] \in State /\ Does(CvtBlock(i, k)[3], h[(j + 3) - 1], h[j + 3])
              /\ h[j + 4] \in State /\ Does(CvtBlock(i, k)[4], h[(j + 4) - 1], h[j + 4])
          BY <3>5, <5>1
        <5> QED
          BY <3>6, <4>1, <5>1, <5>2
      <4>3. IF CvtDst(i, k)[2] = 0 THEN TempSets(x, x4) ELSE FpStep(x, x4, CvtDst(i, k))
        <5>1. CvtOps(i) = 4
          BY <1>3, <3>10
        <5> QED
          BY <1>1, <3>2, <3>7, <4>2, <5>1, CvtBlockDoes
      <4>4. Converted(i, s, k + 1, x4)
        BY <1>1, <3>2, <3>8, <4>3, CvtStep
      <4> QED
        BY <3>4, <3>10, <4>1, <4>4
    <3> QED
      BY <1>4, <3>9, <3>10
  <2> HIDE DEF S
  <2> QED
    BY <2>1, <2>2, NatSteps
<1>10. PICK y : y = Final(i, s, h)
  OBVIOUS
<1>11. Converted(i, s, n, y)
  <2>1. n <= n /\ n \in S
    BY <1>4, <1>9
  <2> QED
    BY <1>5, <1>6, <1>10, <2>1
<1> DEFINE w == {<<<<i.file, i.hb + k>>, v>> : k \in 0 .. n - 1, v \in FpResults}
<1>12. Writes(i, s) = w
  BY <1>3 DEF Writes
<1>13. Leaves(w, s, y)
  <2> SUFFICES ASSUME NEW f \in Files, NEW l \in 0 .. NReg - 1, <<f, l>> \notin Special
               PROVE  \/ <<<<f, l>>, y[f][l]>> \in w
                      \/ y[f][l] = s[f][l] /\ \A u \in w : u[1] # <<f, l>>
    BY DEF Leaves
  <2>0. n \in Nat
    BY <1>4
  <2>1. IF f = i.file /\ Copied(i, n, l) THEN y[f][l] \in FpResults ELSE y[f][l] = s[f][l]
    BY <1>11 DEF Converted
  <2>2. l \in Nat /\ (Copied(i, n, l) <=> i.hb <= l /\ l < i.hb + n)
    BY <1>1, <1>2, <1>3, CopyEnds
  <2>3. CASE f = i.file /\ i.hb <= l /\ l < i.hb + n
    <3>1. PICK k : k = l - i.hb
      OBVIOUS
    <3>2. k \in 0 .. n - 1 /\ i.hb + k = l
      BY <1>2, <2>0, <2>2, <2>3, <3>1
    <3>3. y[f][l] \in FpResults
      BY <2>1, <2>2, <2>3
    <3> QED
      BY <2>3, <3>2, <3>3
  <2>4. CASE ~(f = i.file /\ i.hb <= l /\ l < i.hb + n)
    <3>1. \A k \in 0 .. n - 1 : <<i.file, i.hb + k>> # <<f, l>>
      BY <1>2, <2>0, <2>2, <2>4
    <3>2. \A u \in w : u[1] # <<f, l>>
      BY <3>1
    <3> QED
      BY <2>1, <2>2, <2>4, <3>2
  <2> QED
    BY <2>3, <2>4
<1> HIDE DEF w
<1>14. /\ y \in State /\ (Alone => y.mem = StoredBy(i, s)) /\ Leaves(Writes(i, s), s, y)
       /\ Alone => Kept(s.rf[0], y.rf[0])
  BY <1>7, <1>11, <1>12, <1>13 DEF Converted
<1> QED
  BY <1>1, <1>10, <1>14 DEF FpEnds, Ends, Plain

-----------------------------------------------------------------------------
(* Whole instructions. *)

(* What an instruction leaves, whatever its form.                          *)
LEMMA AllDone ==
  ASSUME NEW i, NEW s, NEW h, Execution(i, s, h)
  PROVE  Ends(i, s, Final(i, s, h)) /\ (UsesFp(i) => FpEnds(i, s, Final(i, s, h)))
<1>1. CASE i.form \in {"CSET1", "CSET2", "FCSET"}
  BY <1>1, DoneCset DEF UsesFp
<1>2. CASE i.form \in {"SETOW", "SETZW", "ORW", "ANDNW"}
  BY <1>2, DoneWyde DEF UsesFp
<1>3. CASE i.form \in {"ALG1rb", "ADDI", "LOGICr", "LOGICi", "ANDI"}
  BY <1>3, DoneAlu DEF UsesFp
<1>4. CASE i.form \in {"EXTr", "EXTi"}
  BY <1>4, DoneExt DEF UsesFp
<1>5. CASE i.form \in {"CMPi", "CMPr"}
  BY <1>5, DoneCmp DEF UsesFp
<1>6. CASE i.form \in Branches
  BY <1>6, DoneBranch DEF UsesFp, Branches
<1>7. CASE i.form \in {"ST", "STM"}
  BY <1>7, DoneSt DEF UsesFp
<1>8. CASE i.form \in {"FALG2", "FALG3", "FALG4", "FCMP"}
  BY <1>8, DoneFp DEF FpEnds
<1>9. CASE i.form = "FCVT"
  BY <1>9, DoneFcvt DEF FpEnds
<1>10. CASE i.form \in {"SETW", "XNOR", "ADRP"}
  BY <1>10, DoneSetw, DoneXnor, DoneAdrp DEF UsesFp
<1>11. CASE i.form \in {"MUL", "DIV", "ALG1"}
  BY <1>11, DoneMul, DoneDiv, DoneAlg1 DEF UsesFp
<1>12. CASE i.form \in {"LD", "LDM", "R2R"}
  BY <1>12, DoneLd, DoneLdm, DoneR2r DEF UsesFp
<1>13. CASE i.form = "SWYM"
  BY <1>13, DoneNone DEF UsesFp
<1>14. CASE /\ i.form \notin {"CSET1", "CSET2", "FCSET"} /\ i.form \notin {"SETOW", "SETZW", "ORW", "ANDNW"}
            /\ i.form \notin {"ALG1rb", "ADDI", "LOGICr", "LOGICi", "ANDI"} /\ i.form \notin {"EXTr", "EXTi"}
            /\ i.form \notin {"CMPi", "CMPr"} /\ i.form \notin Branches /\ i.form \notin {"ST", "STM"}
            /\ i.form \notin {"FALG2", "FALG3", "FALG4", "FCMP"} /\ i.form # "FCVT"
            /\ i.form \notin {"SETW", "XNOR", "ADRP"} /\ i.form \notin {"MUL", "DIV", "ALG1"}
            /\ i.form \notin {"LD", "LDM", "R2R"} /\ i.form # "SWYM"
  <2>1. trans(i, s.rb[0]) = TRAP \/ trans(i, s.rb[0]) = gen_exception_illegal_instruction
    <3>1. CASE i.form = "TRAP"
      BY <3>1 DEF trans
    <3>2. CASE i.form # "TRAP"
      <4>1. PICK pc : pc = s.rb[0]
        OBVIOUS
      <4>2. i.form \notin {"LD", "ST", "LDM", "STM", "R2R", "CSET1", "CSET2", "FCSET", "SETOW", "SETZW",
                           "ORW", "ANDNW", "SETW", "ALG1", "ALG1rb", "ADDI", "CMPi", "CMPr", "MUL", "DIV",
                           "ADRP", "LOGICr", "XNOR", "ANDI", "EXTr", "EXTi", "LOGICi", "BR2", "BR1",
                           "JUMPi", "JUMPr", "FCVT", "FALG2", "FALG3", "FALG4", "FCMP", "TRAP", "SWYM"}
        BY <1>14, <3>2 DEF Branches
      <4>3. trans(i, pc) = gen_exception_illegal_instruction
        BY <4>2 DEF trans
      <4> QED
        BY <4>1, <4>3
    <3> QED
      BY <3>1, <3>2
  <2>2. PICK c : c = trans(i, s.rb[0])
    OBVIOUS
  <2>3. c = <<<<"excp", "TRAP">>>> \/ c = <<<<"excp", "ILLI">>>>
    BY <2>1, <2>2 DEF TRAP, gen_exception_illegal_instruction
  <2>4. Len(c) = 1 /\ (c[1] = <<"excp", "TRAP">> \/ c[1] = <<"excp", "ILLI">>)
    BY <2>3
  <2> QED
    BY <2>2, <2>4, DoneNone
<1> QED
  BY <1>1, <1>2, <1>3, <1>4, <1>5, <1>6, <1>7, <1>8, <1>9, <1>10, <1>11, <1>12, <1>13, <1>14

(* The state an instruction works on, out of the state it began in: rd0 is *)
(* zero and rf0 has its fixed bits.                                        *)
LEMMA CanonicalLaws ==
  ASSUME NEW b \in State, NEW s, s = Canonical(b)
  PROVE  /\ s \in State /\ s.rd[0] = 0 /\ s.rf[0] = Clean(b.rf[0]) /\ s.mem = b.mem /\ s.rb = b.rb
         /\ \A f \in Files, n \in 0 .. NReg - 1 : <<f, n>> \notin {RD(0), RF(0)} => s[f][n] = b[f][n]
         /\ b.rf[0] \in Octa /\ b.rb[0] \in Octa
<1>1. 0 \in 0 .. NReg - 1 /\ 0 \in Octa
  BY Operands, SmallOcta
<1>2. PICK v : v = Clean(b.rf[0])
  OBVIOUS
<1>3. b.rf[0] \in Octa /\ b.rb[0] \in Octa
  BY <1>1 DEF State, RegFile
<1>4. v \in Octa
  BY <1>2, <1>3, CleanLaws
<1>5. s = [b EXCEPT !.rd[0] = 0, !.rf[0] = v]
  BY <1>2 DEF Canonical, Clean, Mask
<1>6. PICK d, g : d = [b.rd EXCEPT ![0] = 0] /\ g = [b.rf EXCEPT ![0] = v]
  OBVIOUS
<1>7. d \in RegFile /\ g \in RegFile /\ d[0] = 0 /\ g[0] = v
      /\ \A n \in 0 .. NReg - 1 : n # 0 => d[n] = b.rd[n] /\ g[n] = b.rf[n]
  BY <1>1, <1>4, <1>6 DEF State, RegFile
<1>8. s = [b EXCEPT !.rd = d, !.rf = g]
  BY <1>5, <1>6 DEF State
<1>9. /\ s \in State /\ s.rd = d /\ s.rf = g /\ s.mem = b.mem /\ s.rb = b.rb /\ s.ra = b.ra
  BY <1>7, <1>8 DEF State
<1>10. ASSUME NEW f \in Files, NEW n \in 0 .. NReg - 1, <<f, n>> \notin {RD(0), RF(0)} PROVE s[f][n] = b[f][n]
  BY <1>7, <1>9, <1>10 DEF Files, RD, RF
<1> QED
  BY <1>2, <1>3, <1>7, <1>9, <1>10

(* The state an instruction begins in, for the first time or again after a *)
(* store of its own touched its code.                                      *)
Begun(i, b, x) ==
  /\ i \in Insns /\ Legal(i) /\ b \in State /\ x \in State
  /\ SameFiles(b, x) \/ SameFiles(Canonical(b), x)
  /\ Alone => \A a \in Octa : x.mem[a] \in {b.mem[a], StoredBy(i, Canonical(b))[a]}

(* The first three operations restore the fixed registers.                 *)
LEMMA FixedRun ==
  ASSUME NEW i, NEW b, NEW h, NEW c, Begun(i, b, h[0]), c = translate_insn(i, b.rb[0]),
         NEW z \in Nat, z >= 3, Run(c, z, h)
  PROVE  /\ h[3] \in State /\ SameFiles(Canonical(b), h[3])
         /\ Alone => \A a \in Octa : h[3].mem[a] \in {b.mem[a], StoredBy(i, Canonical(b))[a]}
<1>1. PICK s : s = Canonical(b)
  OBVIOUS
<1>2. /\ i \in Insns /\ Legal(i) /\ b \in State /\ h[0] \in State
      /\ SameFiles(b, h[0]) \/ SameFiles(s, h[0])
  BY <1>1 DEF Begun
<1>3. /\ s \in State /\ s.rd[0] = 0 /\ s.rf[0] = Clean(b.rf[0]) /\ s.rb = b.rb
      /\ \A f \in Files, n \in 0 .. NReg - 1 : <<f, n>> \notin {RD(0), RF(0)} => s[f][n] = b[f][n]
      /\ b.rf[0] \in Octa /\ b.rb[0] \in Octa
  BY <1>1, <1>2, CanonicalLaws
<1>4. c[1] = Fixed[1] /\ c[2] = Fixed[2] /\ c[3] = Fixed[3]
  BY <1>2, <1>3, TranslateOK
<1>5. /\ h[1] \in State /\ h[2] \in State /\ h[3] \in State
      /\ Does(Fixed[1], h[0], h[1]) /\ Does(Fixed[2], h[1], h[2]) /\ Does(Fixed[3], h[2], h[3])
  BY <1>4 DEF Run
<1>6. Mask \in Octa /\ FcsrDefault \in Octa /\ 0 \in Octa
  <2>1. RdMode \in Octa /\ FFlags \in Octa /\ FcsrDefault \in Octa
    BY MachineAssumption
  <2>2. Alu("or", RdMode, FFlags) \in Octa
    BY <2>1, AluType DEF Arith
  <2>3. Mask = Alu("or", RdMode, FFlags)
    BY Masks DEF Alu
  <2> QED
    BY <2>1, <2>2, <2>3, SmallOcta
<1>7. /\ Place(RD(0)) /\ Place(RF(0)) /\ Source(RF(0))
      /\ \A v \in {0, Mask, FcsrDefault} : Source(K(v)) /\ \A x : At(x, K(v)) = v
  BY <1>6, Operands, ConstAt
<1>8. Sets(h[0], h[1], RD(0), 0)
  <2>1. Fixed[1] = <<"mov", RD(0), K(0)>>
    BY DEF Fixed
  <2>2. Sets(h[0], h[1], RD(0), At(h[0], K(0)))
    BY <1>2, <1>5, <1>7, <2>1, DoesShapes
  <2> QED
    BY <1>7, <2>2
<1>9. Sets(h[1], h[2], RF(0), h[1].rf[0] & Mask)
  <2>1. Fixed[2] = <<"and", RF(0), RF(0), K(Mask)>> /\ "and" \in Arith
    BY DEF Fixed, Mask, Arith
  <2>2. Sets(h[1], h[2], RF(0), Alu("and", At(h[1], RF(0)), At(h[1], K(Mask))))
    BY <1>5, <1>7, <2>1, DoesShapes
  <2>3. At(h[1], RF(0)) = h[1].rf[0] /\ At(h[1], K(Mask)) = Mask
    BY <1>7, Reads
  <2> QED
    BY <2>2, <2>3 DEF Alu
<1>10. Sets(h[2], h[3], RF(0), h[2].rf[0] | FcsrDefault)
  <2>1. Fixed[3] = <<"or", RF(0), RF(0), K(FcsrDefault)>> /\ "or" \in Arith
    BY DEF Fixed, Arith
  <2>2. Sets(h[2], h[3], RF(0), Alu("or", At(h[2], RF(0)), At(h[2], K(FcsrDefault))))
    BY <1>5, <1>7, <2>1, DoesShapes
  <2>3. At(h[2], RF(0)) = h[2].rf[0] /\ At(h[2], K(FcsrDefault)) = FcsrDefault
    BY <1>7, Reads
  <2> QED
    BY <2>2, <2>3 DEF Alu
<1>11. PICK v1, v2 : v1 = h[1].rf[0] & Mask /\ v2 = h[2].rf[0] | FcsrDefault
  OBVIOUS
<1>12. /\ \A f \in Files, n \in 0 .. NReg - 1 : Reg(f, n)
       /\ 0 \in 0 .. NReg - 1 /\ "rf" \in Files /\ "rd" \in Files
       /\ RD(0)[1] = "rd" /\ RD(0)[2] = 0 /\ RF(0)[1] = "rf" /\ RF(0)[2] = 0
  BY Operands DEF Reg, Files, RD, RF
<1>13. \A f \in Files, n \in 0 .. NReg - 1 :
         /\ h[1][f][n] = IF f = "rd" /\ n = 0 THEN 0 ELSE h[0][f][n]
         /\ h[2][f][n] = IF f = "rf" /\ n = 0 THEN v1 ELSE h[1][f][n]
         /\ h[3][f][n] = IF f = "rf" /\ n = 0 THEN v2 ELSE h[2][f][n]
  BY <1>8, <1>9, <1>10, <1>11, <1>12 DEF Sets
<1>14. v2 = Clean(h[0].rf[0])
  <2>1. h[1]["rf"][0] = h[0]["rf"][0] /\ h[2]["rf"][0] = v1
    BY <1>12, <1>13
  <2> QED
    BY <1>11, <2>1 DEF Clean
<1>15. Clean(h[0].rf[0]) = s.rf[0]
  <2>1. CASE SameFiles(b, h[0])
    <3>1. h[0]["rf"][0] = b["rf"][0]
      BY <1>12, <2>1 DEF SameFiles
    <3> QED
      BY <1>3, <3>1
  <2>2. CASE SameFiles(s, h[0])
    <3>1. h[0]["rf"][0] = s["rf"][0]
      BY <1>12, <2>2 DEF SameFiles
    <3>2. Clean(Clean(b.rf[0])) = Clean(b.rf[0])
      BY <1>3, CleanLaws
    <3> QED
      BY <1>3, <3>1, <3>2
  <2> QED
    BY <1>2, <2>1, <2>2
<1>16. ASSUME NEW f \in Files, NEW n \in 0 .. NReg - 1 PROVE h[3][f][n] = s[f][n]
  <2>1. CASE f = "rd" /\ n = 0
    BY <1>3, <1>13, <2>1
  <2>2. CASE f = "rf" /\ n = 0
    BY <1>13, <1>14, <1>15, <2>2
  <2>3. CASE ~(f = "rd" /\ n = 0) /\ ~(f = "rf" /\ n = 0)
    <3>1. h[3][f][n] = h[0][f][n]
      BY <1>13, <2>3
    <3>2. s[f][n] = b[f][n]
      BY <1>3, <2>3 DEF RD, RF
    <3>3. h[0][f][n] = b[f][n] \/ h[0][f][n] = s[f][n]
      BY <1>2 DEF SameFiles
    <3> QED
      BY <3>1, <3>2, <3>3
  <2> QED
    BY <2>1, <2>2, <2>3
<1>17. Alone => h[3].mem = h[0].mem
  BY <1>8, <1>9, <1>10 DEF Sets
<1>18. Alone => \A a \in Octa : h[0].mem[a] \in {b.mem[a], StoredBy(i, Canonical(b))[a]}
  BY DEF Begun
<1>19. SameFiles(Canonical(b), h[3])
  BY <1>1, <1>16 DEF SameFiles
<1> QED
  BY <1>5, <1>17, <1>18, <1>19

(* A run without its first three operations.                               *)
LEMMA RunAfter ==
  ASSUME NEW c, NEW d, NEW n \in Nat, NEW h, Run(c, n + 3, h), \A j \in 1 .. n : c[j + 3] = d[j],
         NEW g, g = [j \in 0 .. n |-> h[j + 3]]
  PROVE  Run(d, n, g)
<1>1. ASSUME NEW j \in 0 .. n PROVE g[j] \in State
  BY DEF Run
<1>2. ASSUME NEW j \in 1 .. n PROVE Does(d[j], g[j - 1], g[j])
  <2>1. j + 3 \in 1 .. n + 3 /\ (j + 3) - 1 = (j - 1) + 3 /\ j - 1 \in 0 .. n /\ j \in 0 .. n
    OBVIOUS
  <2>2. Does(c[j + 3], h[(j + 3) - 1], h[j + 3])
    BY <2>1 DEF Run
  <2>3. g[j - 1] = h[(j + 3) - 1] /\ g[j] = h[j + 3] /\ c[j + 3] = d[j]
    BY <2>1
  <2> QED
    BY <2>2, <2>3
<1> QED
  BY <1>1, <1>2 DEF Run

(* What a whole instruction leaves, its fixed operations included.         *)
LEMMA WholeRun ==
  ASSUME NEW i, NEW b, NEW h, NEW c, Begun(i, b, h[0]), c = translate_insn(i, b.rb[0]),
         Run(c, Len(c), h), NEW s, s = Canonical(b), Specified(i, s), i.form \in {"LD", "LDM"} => Alone,
         NEW y, y = h[Len(c)]
  PROVE  /\ y \in State /\ Leaves(Writes(i, s), s, y) /\ y.rb[0] = NextPc(i, s)
         /\ Alone => y.mem = StoredBy(i, s)
         /\ UsesFp(i) /\ Alone /\ (\A v \in Writes(i, s) : v[1] # RF(0)) => Kept(b.rf[0], y.rf[0])
<1>1. i \in Insns /\ Legal(i) /\ b \in State /\ h[0] \in State
  BY DEF Begun
<1>2. /\ s \in State /\ s.rd[0] = 0 /\ s.rf[0] = Clean(b.rf[0]) /\ s.mem = b.mem /\ s.rb = b.rb
      /\ b.rf[0] \in Octa /\ b.rb[0] \in Octa
  BY <1>1, CanonicalLaws
<1>0. PICK pc \in Octa : pc = b.rb[0]
  BY <1>2
<1>3. PICK d, n : d = trans(i, pc) /\ n = Len(d)
  OBVIOUS
<1>4. /\ n \in Nat /\ Len(c) = n + 4 /\ c[n + 4] = tb_stop(i, pc)[1]
      /\ \A j \in 1 .. n : c[j + 3] = d[j]
  <2>1. /\ Len(c) = 3 + n + 1 /\ n \in Nat /\ c[3 + n + 1] = tb_stop(i, pc)[1]
        /\ \A j \in 1 .. n : c[j + 3] = d[j]
    BY <1>0, <1>1, <1>3, TranslateOK, Zenon
  <2> QED
    BY <2>1
<1>5. /\ \A j \in 0 .. n + 4 : h[j] \in State
      /\ \A j \in 1 .. n + 4 : Does(c[j], h[j - 1], h[j])
      /\ h \in [0 .. n + 4 -> State]
  BY <1>4 DEF Run
<1>6. /\ h[3] \in State /\ SameFiles(s, h[3])
      /\ Alone => \A a \in Octa : h[3].mem[a] \in {s.mem[a], StoredBy(i, s)[a]}
  <2>1. PICK z \in Nat : z = n + 4
    BY <1>4
  <2>2. z >= 3 /\ Run(c, z, h)
    BY <1>4, <2>1
  <2> QED
    BY <1>2, <2>2, FixedRun
<1>7. PICK g : g = [j \in 0 .. n |-> h[j + 3]]
  OBVIOUS
<1>8. Run(d, n, g)
  <2>1. PICK h1 : h1 = [j \in 0 .. n + 3 |-> h[j]]
    OBVIOUS
  <2>2. Run(c, n + 3, h1)
    <3>1. \A j \in 0 .. n + 3 : h1[j] \in State
      BY <1>4, <1>5, <2>1
    <3>2. ASSUME NEW j \in 1 .. n + 3 PROVE Does(c[j], h1[j - 1], h1[j])
      <4>1. j \in 1 .. n + 4 /\ h1[j - 1] = h[j - 1] /\ h1[j] = h[j]
        BY <1>4, <2>1
      <4> QED
        BY <1>5, <4>1
    <3> QED
      BY <2>1, <3>1, <3>2 DEF Run
  <2>3. g = [j \in 0 .. n |-> h1[j + 3]]
    BY <1>4, <1>7, <2>1
  <2>4. n \in Nat /\ \A j \in 1 .. n : c[j + 3] = d[j]
    BY <1>4
  <2> QED
    BY <2>2, <2>3, <2>4, RunAfter
<1>9. g[0] = h[3] /\ g[n] = h[n + 3]
  BY <1>4, <1>7
<1>10. Execution(i, s, g)
  BY <1>0, <1>1, <1>2, <1>3, <1>6, <1>8, <1>9 DEF Execution
<1>11. Final(i, s, g) = h[n + 3]
  BY <1>0, <1>2, <1>3, <1>9 DEF Final
<1>12. PICK x : x = h[n + 3]
  OBVIOUS
<1>13. Ends(i, s, x) /\ (UsesFp(i) => FpEnds(i, s, x))
  BY <1>10, <1>11, <1>12, AllDone
<1>14. y = h[n + 4] /\ x \in State /\ Does(tb_stop(i, pc)[1], x, y)
  <2>1. n + 4 \in 1 .. n + 4 /\ (n + 4) - 1 = n + 3 /\ n + 3 \in 0 .. n + 4
    BY <1>4
  <2> QED
    BY <1>4, <1>5, <1>12, <2>1
<1>15. Sets(x, y, RB(0), NextPc(i, s))
  <2>1. Place(RB(0)) /\ Source(JMP) /\ Source(K(pc + 4)) /\ pc \in Octa
    <3>1. pc \in Octa /\ pc + 4 \in Int
      BY <1>2, <1>0, OctaInt
    <3> QED
      BY <3>1, Operands
  <2>2. CASE i.form \in Branches
    <3>1. tb_stop(i, pc)[1] = <<"mov", RB(0), JMP>>
      BY <2>2 DEF tb_stop
    <3>2. Sets(x, y, RB(0), At(x, JMP))
      BY <1>14, <2>1, <3>1, DoesShapes
    <3> QED
      BY <1>13, <2>2, <3>2, Reads DEF Ends
  <2>3. CASE i.form \notin Branches
    <3>1. tb_stop(i, pc)[1] = <<"mov", RB(0), K(pc + 4)>>
      BY <2>3 DEF tb_stop
    <3>2. Sets(x, y, RB(0), At(x, K(pc + 4)))
      BY <1>14, <2>1, <3>1, DoesShapes
    <3>3. At(x, K(pc + 4)) = Cut(pc + 4)
      BY DEF At, K
    <3>4. NextPc(i, s) = Cut(pc + 4)
      BY <1>0, <1>2, <2>3 DEF NextPc, Branches
    <3> QED
      BY <3>2, <3>3, <3>4
  <2> QED
    BY <2>2, <2>3
<1>16. /\ y \in State /\ (Alone => y.mem = x.mem)
       /\ y.rb[0] = NextPc(i, s) /\ y.rf[0] = x.rf[0]
       /\ \A f \in Files, m \in 0 .. NReg - 1 : <<f, m>> \notin Special => y[f][m] = x[f][m]
  <2>1. Reg("rb", 0) /\ Reg("rf", 0) /\ \A f \in Files, m \in 0 .. NReg - 1 : Reg(f, m)
    BY Operands DEF Reg, Files
  <2>2. RB(0)[1] = "rb" /\ RB(0)[2] = 0 /\ RB(0) = <<"rb", 0>>
    BY DEF RB
  <2>3. y.rb[0] = NextPc(i, s) /\ y.rf[0] = x.rf[0]
    BY <1>15, <2>1, <2>2 DEF Sets
  <2>4. ASSUME NEW f \in Files, NEW m \in 0 .. NReg - 1, <<f, m>> \notin Special PROVE y[f][m] = x[f][m]
    <3>1. ~(f = "rb" /\ m = 0)
      BY <2>2, <2>4 DEF Special
    <3> QED
      BY <1>15, <2>1, <2>2, <3>1 DEF Sets
  <2> QED
    BY <1>15, <2>3, <2>4 DEF Sets
<1>17. Leaves(Writes(i, s), s, y)
  <2>1. PICK w : w = Writes(i, s)
    OBVIOUS
  <2>2. Leaves(w, s, x)
    BY <1>13, <2>1 DEF Ends
  <2>3. Leaves(w, s, y)
    BY <1>16, <2>2 DEF Leaves
  <2> QED
    BY <2>1, <2>3
<1>18. Alone => y.mem = StoredBy(i, s)
  BY <1>13, <1>16 DEF Ends
<1>19. ASSUME UsesFp(i), Alone, \A v \in Writes(i, s) : v[1] # RF(0) PROVE Kept(b.rf[0], y.rf[0])
  <2>1. Kept(s.rf[0], x.rf[0])
    BY <1>13, <1>19 DEF FpEnds
  <2>2. Kept(b.rf[0], s.rf[0])
    BY <1>2, KeptLaws
  <2>3. s.rf[0] \in Octa /\ x.rf[0] \in Octa
    BY <1>2, <1>14, Operands DEF State, RegFile
  <2> QED
    BY <1>2, <1>16, <2>1, <2>2, <2>3, KeptLaws
<1> QED
  BY <1>16, <1>17, <1>18, <1>19

(* The operations of a division.                                           *)
LEMMA DivCode ==
  ASSUME NEW i \in Insns, Legal(i), i.form = "DIV", NEW pc \in Octa, NEW c, c = translate_insn(i, pc)
  PROVE  /\ Len(c) \in Nat /\ Len(c) >= 7 /\ \A j \in 1 .. Len(c) : j \notin {5, 6} => c[j][1] \notin {"div", "rem"}
         /\ c[4] = <<"excpz", "FPER", RD(i.hd)>>
         /\ c[5] = <<"div", T(1), i.sign, RD(i.hc), RD(i.hd)>>
         /\ c[6] = <<"rem", T(2), i.sign, RD(i.hc), RD(i.hd)>>
<1> DEFINE u1 == <<"excpz", "FPER", RD(i.hd)>>
           u2 == <<"div", T(1), i.sign, RD(i.hc), RD(i.hd)>>
           u3 == <<"rem", T(2), i.sign, RD(i.hc), RD(i.hd)>>
           m1 == <<"mov", RD(i.ha), T(2)>>
           m2 == <<"mov", RD(i.hb), T(1)>>
           q1 == When(i.ha # 0, <<m1>>)
           q2 == When(i.hb # 0, <<m2>>)
<1>1. PICK d, a, r : d = trans(i, pc) /\ a = <<u1, u2, u3>> /\ r = q1 \o q2
  OBVIOUS
<1>2. d = a \o r
  BY <1>1 DEF trans, DIV, TwoResults
<1>3. Len(a) = 3 /\ a[1] = u1 /\ a[2] = u2 /\ a[3] = u3
  BY <1>1
<1>4. m1[1] = "mov" /\ m2[1] = "mov"
  OBVIOUS
<1>5. Len(r) \in Nat /\ \A j \in 1 .. Len(r) : r[j][1] = "mov"
  <2> HIDE DEF m1, m2
  <2>1. /\ Len(q1) = (IF i.ha # 0 THEN 1 ELSE 0) /\ Len(q1) \in Nat /\ (i.ha # 0 => q1[1] = m1)
        /\ Len(q2) = (IF i.hb # 0 THEN 1 ELSE 0) /\ Len(q2) \in Nat /\ (i.hb # 0 => q2[1] = m2)
    BY WhenAt
  <2> HIDE DEF q1, q2
  <2>2. PICK l1 \in 0..1, l2 \in 0..1 : l1 = Len(q1) /\ l2 = Len(q2)
    BY <2>1
  <2>3. Len(r) = l1 + l2 /\ (\A j \in 1 .. l1 : r[j] = q1[j]) /\ (\A j \in 1 .. l2 : r[l1 + j] = q2[j])
    BY <1>1, <2>1, <2>2, SeqCat
  <2>4. (\A j \in 1 .. l1 : q1[j][1] = "mov") /\ (\A j \in 1 .. l2 : q2[j][1] = "mov")
    BY <1>4, <2>1, <2>2
  <2>5. ASSUME NEW j \in 1 .. l1 + l2 PROVE r[j][1] = "mov"
    <3>1. CASE j <= l1
      BY <2>3, <2>4, <3>1
    <3>2. CASE j > l1
      <4>1. j - l1 \in 1 .. l2 /\ l1 + (j - l1) = j
        BY <3>2
      <4> QED
        BY <2>3, <2>4, <4>1
    <3> QED
      BY <3>1, <3>2
  <2> QED
    BY <2>3, <2>5
<1> HIDE DEF u1, u2, u3, m1, m2, q1, q2
<1>6. /\ Len(d) = 3 + Len(r) /\ d[1] = u1 /\ d[2] = u2 /\ d[3] = u3
      /\ \A j \in 1 .. Len(r) : d[3 + j] = r[j]
  <2>1. Len(a) \in Nat /\ Len(r) \in Nat
    BY <1>3, <1>5
  <2>2. /\ Len(d) = Len(a) + Len(r) /\ (\A j \in 1 .. Len(a) : d[j] = a[j])
        /\ \A j \in 1 .. Len(r) : d[Len(a) + j] = r[j]
    BY <1>2, <2>1, SeqCat
  <2> QED
    BY <1>3, <2>1, <2>2
<1>7. /\ Len(c) = 3 + Len(d) + 1 /\ (\A j \in 1..3 : c[j] = Fixed[j])
      /\ (\A j \in 1 .. Len(d) : c[j + 3] = d[j]) /\ c[3 + Len(d) + 1] = tb_stop(i, pc)[1]
  BY <1>1, TranslateOK, Zenon
<1>8. PICK l \in Nat : l = Len(r)
  BY <1>5
<1>9. /\ Len(c) = l + 7 /\ c[4] = u1 /\ c[5] = u2 /\ c[6] = u3 /\ c[l + 7] = tb_stop(i, pc)[1]
      /\ \A j \in 1 .. l : c[6 + j] = r[j]
  <2>1. Len(d) = l + 3 /\ 3 + (l + 3) + 1 = l + 7
    BY <1>6, <1>8
  <2>2. 1 \in 1 .. Len(d) /\ 2 \in 1 .. Len(d) /\ 3 \in 1 .. Len(d) /\ 1 + 3 = 4 /\ 2 + 3 = 5 /\ 3 + 3 = 6
    BY <2>1
  <2>3. c[4] = u1 /\ c[5] = u2 /\ c[6] = u3
    BY <1>6, <1>7, <2>2
  <2>4. ASSUME NEW j \in 1 .. l PROVE c[6 + j] = r[j]
    <3>1. 3 + j \in 1 .. Len(d) /\ (3 + j) + 3 = 6 + j
      BY <2>1
    <3> QED
      BY <1>6, <1>7, <1>8, <3>1
  <2> QED
    BY <1>7, <2>1, <2>3, <2>4
<1>10. c[l + 7][1] = "mov" /\ c[1][1] = "mov" /\ c[2][1] = "and" /\ c[3][1] = "or" /\ c[4][1] = "excpz"
  BY <1>7, <1>9 DEF tb_stop, Fixed, u1
<1>11. ASSUME NEW j \in 1 .. l + 7, j \notin {5, 6} PROVE c[j][1] \notin {"div", "rem"}
  <2>1. CASE j \in 1..4
    BY <1>10, <2>1
  <2>2. CASE j = l + 7
    BY <1>10, <2>2
  <2>3. CASE j \notin 1..4 /\ j # l + 7
    <3>1. j - 6 \in 1 .. l /\ 6 + (j - 6) = j
      BY <1>11, <2>3
    <3>2. c[j] = r[j - 6] /\ r[j - 6][1] = "mov"
      BY <1>5, <1>8, <1>9, <3>1
    <3> QED
      BY <3>2
  <2> QED
    BY <2>1, <2>2, <2>3
<1> QED
  BY <1>8, <1>9, <1>11 DEF u1, u2, u3

(* A divisor is tested before it divides.                                  *)
LEMMA DivReady ==
  ASSUME NEW i, NEW b, NEW h, NEW c, Begun(i, b, h[0]), c = translate_insn(i, b.rb[0]),
         NEW k \in Nat, k < Len(c), Run(c, k, h)
  PROVE  DivOK(c[k + 1], h[k])
<1>1. i \in Insns /\ Legal(i) /\ b \in State /\ b.rb[0] \in Octa
  BY CanonicalLaws DEF Begun
<1>2. SUFFICES ASSUME c[k + 1][1] \in {"div", "rem"} PROVE At(h[k], c[k + 1][5]) # 0
  BY DEF DivOK
<1>3. CodeOK(i, c)
  BY <1>1, TranslateOK
<1>4. k + 1 \in 1 .. Len(c) /\ OpOK(i, c[k + 1])
  BY <1>3 DEF CodeOK
<1>5. i.form = "DIV"
  BY <1>2, <1>4 DEF OpOK
<1>6. /\ \A j \in 1 .. Len(c) : j \notin {5, 6} => c[j][1] \notin {"div", "rem"}
      /\ c[4] = <<"excpz", "FPER", RD(i.hd)>>
      /\ c[5] = <<"div", T(1), i.sign, RD(i.hc), RD(i.hd)>>
      /\ c[6] = <<"rem", T(2), i.sign, RD(i.hc), RD(i.hd)>>
  <2>1. PICK pc \in Octa : c = translate_insn(i, pc)
    BY <1>1
  <2> QED
    BY <1>1, <1>5, <2>1, DivCode
<1>7. k \in {4, 5}
  BY <1>2, <1>4, <1>6
<1>8. (\A j \in 0 .. k : h[j] \in State) /\ (\A j \in 1 .. k : Does(c[j], h[j - 1], h[j]))
  BY DEF Run
<1>9. /\ h[3] \in State /\ h[4] \in State /\ Does(<<"excpz", "FPER", RD(i.hd)>>, h[3], h[4])
  <2>1. 3 \in 0 .. k /\ 4 \in 0 .. k /\ 4 \in 1 .. k /\ 4 - 1 = 3
    BY <1>7
  <2>2. h[3] \in State /\ h[4] \in State /\ Does(c[4], h[4 - 1], h[4])
    BY <1>8, <2>1
  <2> QED
    BY <1>6, <2>1, <2>2
<1>10. /\ i.hc \in 0 .. NReg - 1 /\ i.hd \in 0 .. NReg - 1
       /\ Source(RD(i.hd)) /\ Source(RD(i.hc)) /\ Place(T(1)) /\ Reg("rd", i.hd) /\ "FPER" \in Excp \ {"none"}
  BY <1>1, Fields, Operands DEF Reg, Files, Excp
<1>11. h[4].rd[i.hd] # 0
  <2>1. Keeps(h[3], h[4]) /\ At(h[3], RD(i.hd)) # 0
    BY <1>9, <1>10, DoesTest
  <2> QED
    BY <1>10, <2>1, Reads DEF Keeps, SameRegs
<1>12. CASE k = 4
  BY <1>6, <1>11, <1>12, Reads
<1>13. CASE k = 5
  <2>1. Does(<<"div", T(1), i.sign, RD(i.hc), RD(i.hd)>>, h[4], h[5])
    <3>1. 5 \in 1 .. k /\ 5 - 1 = 4
      BY <1>13
    <3>2. Does(c[5], h[5 - 1], h[5])
      BY <1>8, <3>1
    <3> QED
      BY <1>6, <3>1, <3>2
  <2>2. At(h[4], RD(i.hd)) # 0
    BY <1>11, Reads
  <2>3. Sets(h[4], h[5], T(1), DivRem("div", i.sign, At(h[4], RD(i.hc)), At(h[4], RD(i.hd))))
    BY <1>9, <1>10, <2>1, <2>2, DoesShapes
  <2>4. h[5].rd[i.hd] = h[4].rd[i.hd]
    BY <1>10, <2>3 DEF Sets, T
  <2> QED
    BY <1>6, <1>11, <1>13, <2>4, Reads
<1> QED
  BY <1>7, <1>12, <1>13

(* Started again before one of its stores, an instruction has its          *)
(* registers as they were.                                                 *)
LEMMA BegunAgain ==
  ASSUME NEW i, NEW b, NEW h, NEW c, Begun(i, b, h[0]), c = translate_insn(i, b.rb[0]),
         NEW k \in Nat, k < Len(c), Run(c, k, h), c[k + 1][1] = "st"
  PROVE  Begun(i, b, h[k])
<1>1. i \in Insns /\ Legal(i) /\ b \in State /\ b.rb[0] \in Octa
  BY CanonicalLaws DEF Begun
<1>2. PICK s : s = Canonical(b)
  OBVIOUS
<1>3. s \in State /\ s.mem = b.mem /\ s.rb = b.rb
  BY <1>1, <1>2, CanonicalLaws
<1>4. PICK pc \in Octa : pc = b.rb[0]
  BY <1>1
<1>5. PICK d, n : d = trans(i, pc) /\ n = Len(d)
  OBVIOUS
<1>6. /\ CodeOK(i, c) /\ n \in Nat /\ Len(c) = 3 + n + 1 /\ (\A j \in 1..3 : c[j] = Fixed[j])
      /\ (\A j \in 1 .. n : c[j + 3] = d[j]) /\ c[3 + n + 1] = tb_stop(i, pc)[1]
  BY <1>1, <1>4, <1>5, TranslateOK, Zenon
<1>7. i.form \in {"ST", "STM"}
  <2>1. k + 1 \in 1 .. Len(c) /\ OpOK(i, c[k + 1])
    BY <1>6 DEF CodeOK
  <2> QED
    BY <2>1 DEF OpOK
<1>8. c[1][1] = "mov" /\ c[2][1] = "and" /\ c[3][1] = "or" /\ c[3 + n + 1][1] = "mov"
  BY <1>6 DEF tb_stop, Fixed
<1>9. k >= 3 /\ k # n + 3
  <2>1. k + 1 # 1 /\ k + 1 # 2 /\ k + 1 # 3 /\ k + 1 # 3 + n + 1
    BY <1>8
  <2> QED
    BY <1>6, <2>1
<1>10. PICK z \in Nat : k = z + 3
  <2>1. k - 3 \in Nat /\ k = (k - 3) + 3
    BY <1>9
  <2> QED
    BY <2>1
<1>11. z < n /\ d[z + 1] = c[k + 1]
  <2>1. z < n
    BY <1>6, <1>9, <1>10
  <2>2. z + 1 \in 1 .. n /\ (z + 1) + 3 = k + 1
    BY <1>6, <1>10, <2>1
  <2> QED
    BY <1>6, <2>1, <2>2
<1>12. /\ h[3] \in State /\ SameFiles(s, h[3])
       /\ Alone => \A a \in Octa : h[3].mem[a] \in {s.mem[a], StoredBy(i, s)[a]}
  BY <1>2, <1>3, <1>9, FixedRun
<1>13. PICK g : g = [j \in 0 .. z |-> h[j + 3]]
  OBVIOUS
<1>14. g[0] = h[3] /\ g[z] = h[k]
  BY <1>10, <1>13
<1>15. Run(d, z, g)
  <2>1. \A j \in 1 .. z : c[j + 3] = d[j]
    BY <1>6, <1>11
  <2>2. Run(c, z + 3, h)
    BY <1>10
  <2> QED
    BY <1>13, <2>1, <2>2, RunAfter
<1>16. StBegun(i, s, g[0])
  BY <1>1, <1>3, <1>7, <1>12, <1>14 DEF StBegun
<1>17. StBegun(i, s, g[z])
  <2>1. d = trans(i, s.rb[0]) /\ Len(d) \in Nat /\ z < Len(d) /\ d[z + 1][1] = "st"
    BY <1>3, <1>4, <1>5, <1>6, <1>11
  <2> QED
    BY <1>15, <1>16, <2>1, StAgain
<1> QED
  BY <1>1, <1>2, <1>3, <1>14, <1>17 DEF StBegun, Begun

-----------------------------------------------------------------------------
(* The inductive invariant. A thread has not begun, or an exception or a   *)
(* system call stopped it, or its instruction has run from a state it      *)
(* began in, through k of its operations.                                  *)
Fresh(c, o, i) == i = NoInsn /\ o = <<>> /\ c.excp = "none"

Stopped(c, o, i) ==
  /\ o = <<>> /\ i \in Insns
  /\ c.excp # "none" \/ i.form = "TRAP"
  /\ c.excp = "TRAP" => i.form = "TRAP"

RunsTo(c, o, i, b, m, f, k, h) ==
  LET all == translate_insn(i, b.rb[0])
  IN  /\ Begun(i, b, h[0]) /\ k \in 0 .. Len(all) /\ Run(all, k, h)
      /\ Own(h[k]) = c /\ c.excp = "none"
      /\ Alone => h[k].mem = m /\ h[k].rf0_fcsr = f
      /\ IsSeq(o) /\ Len(o) = Len(all) - k /\ \A j \in 1 .. Len(o) : o[j] = all[k + j]

ThreadOK(c, o, i, b, m, f) ==
  /\ c = Own(c) /\ Seen(c, m, f) \in State /\ b \in State
  /\ \/ Fresh(c, o, i)
     \/ Stopped(c, o, i)
     \/ \E k, h : RunsTo(c, o, i, b, m, f, k, h)

IInv ==
  /\ DOMAIN cpu = Threads /\ DOMAIN code = Threads /\ DOMAIN insn = Threads /\ DOMAIN before = Threads
  /\ mem \in [Octa -> Byte] /\ rf0_fcsr \in Octa
  /\ \A t \in Threads : ThreadOK(cpu[t], code[t], insn[t], before[t], mem, rf0_fcsr)

(* Only TRAP raises the exception of a system call.                        *)
LEMMA ApplyExcp ==
  ASSUME NEW i, NEW u, OpOK(i, u), NEW x \in State, x.excp = "none", DivOK(u, x), NEW fp, NEW fl,
         Apply(u, x, fp, fl).excp = "TRAP"
  PROVE  i.form = "TRAP"
<1>1. CASE SingleOK(u)
  <2>1. Sets(x, Apply(u, x, fp, fl), u[2], Value(u, x))
    BY <1>1, SingleSets
  <2> QED
    BY <2>1 DEF Sets
<1>2. CASE DoubleOK(u)
  <2>1. PICK z : z = Put(x, u[2], Wide(u, x) % M)
    OBVIOUS
  <2>2. Sets(x, z, u[2], Wide(u, x) % M) /\ Sets(z, Apply(u, x, fp, fl), u[4], Wide(u, x) \div M)
    BY <1>2, <2>1, DoubleSets
  <2> QED
    BY <2>2 DEF Sets
<1>3. CASE u[1] = "st" \/ u[1] = "nop"
  BY <1>3 DEF Apply, State
<1>4. CASE u[1] = "head" \/ u[1] = "tail"
  BY <1>4 DEF Apply, dadao_fpu_head, dadao_fpu_tail, State
<1>5. CASE u[1] = "fp" /\ Place(u[2])
  <2>1. PICK z : z = Put(x, u[2], fp)
    OBVIOUS
  <2>2. z.excp = x.excp
    <3>1. u[2][1] # "excp"
      BY <1>5 DEF Place, Reg, Files
    <3> QED
      BY <2>1, <3>1 DEF Put, State
  <2>3. Apply(u, x, fp, fl) = [z EXCEPT !.flags = @ | fl]
    BY <1>5, <2>1 DEF Apply
  <2>4. DOMAIN z = DOMAIN x /\ "flags" \in DOMAIN x /\ "excp" \in DOMAIN x
    BY <2>1 DEF Put, State
  <2> QED
    BY <2>2, <2>3, <2>4
<1>6. CASE u[1] = "excp"
  <2>1. Apply(u, x, fp, fl) = [x EXCEPT !.excp = u[2]]
    BY <1>6 DEF Apply
  <2>2. Apply(u, x, fp, fl).excp = u[2]
    BY <2>1 DEF State
  <2> QED
    BY <1>6, <2>2 DEF OpOK
<1>7. CASE u[1] = "excpz"
  <2>1. Apply(u, x, fp, fl) = IF At(x, u[3]) = 0 THEN [x EXCEPT !.excp = u[2]] ELSE x
    BY <1>7 DEF Apply
  <2>2. Apply(u, x, fp, fl).excp \in {u[2], x.excp}
    BY <2>1 DEF State
  <2> QED
    BY <1>7, <2>2 DEF OpOK
<1> QED
  BY <1>1, <1>2, <1>3, <1>4, <1>5, <1>6, <1>7 DEF OpOK, OpForm, OtherOK

(* What a thread sees is what it has and what is shared.                   *)
LEMMA OwnSeen ==
  ASSUME NEW s \in State
  PROVE  /\ \A m, f : Seen(Own(s), m, f) = Seen(s, m, f)
         /\ Seen(Own(s), s.mem, s.rf0_fcsr) = s
         /\ Own(s).excp = s.excp /\ Own(s) = Own(Own(s))
         /\ \A f \in Files : Own(s)[f] = s[f]
         /\ Own(s).t = s.t /\ Own(s).flags = s.flags
<1>1. \A m, f : Seen(Own(s), m, f) = Seen(s, m, f)
  BY DEF Own, Seen
<1>2. Seen(s, s.mem, s.rf0_fcsr) = s
  BY SeenState DEF State
<1> QED
  BY <1>1, <1>2 DEF Own, Files

(* An operation of the thread itself.                                      *)
LEMMA StepThread ==
  ASSUME NEW c, NEW o, NEW i, NEW b, NEW m \in [Octa -> Byte], NEW f \in Octa, ThreadOK(c, o, i, b, m, f), o # <<>>,
         NEW fp \in (IF Head(o)[1] = "fp" THEN FpResults ELSE {0}),
         NEW fl \in (IF Head(o)[1] = "fp" THEN 0 .. SoftFlags ELSE {0}),
         NEW s, s = Apply(Head(o), Seen(c, m, f), fp, fl)
  PROVE  /\ s.mem \in [Octa -> Byte] /\ s.rf0_fcsr \in Octa
         /\ ThreadOK(Own(s), IF s.excp = "none" THEN Tail(o) ELSE <<>>, i, b, s.mem, s.rf0_fcsr)
<1>1. PICK k, h : RunsTo(c, o, i, b, m, f, k, h)
  BY DEF ThreadOK, Fresh, Stopped
<1>2. PICK all : all = translate_insn(i, b.rb[0])
  OBVIOUS
<1>3. /\ Begun(i, b, h[0]) /\ k \in 0 .. Len(all) /\ Run(all, k, h)
      /\ Own(h[k]) = c /\ c.excp = "none"
      /\ Alone => h[k].mem = m /\ h[k].rf0_fcsr = f
      /\ IsSeq(o) /\ Len(o) = Len(all) - k /\ \A j \in 1 .. Len(o) : o[j] = all[k + j]
  BY <1>1, <1>2 DEF RunsTo
<1>4. i \in Insns /\ Legal(i) /\ b \in State /\ b.rb[0] \in Octa
  BY <1>3, CanonicalLaws DEF Begun
<1>5. CodeOK(i, all)
  BY <1>2, <1>4, TranslateOK
<1>6. PICK l \in Nat : l = Len(all)
  BY <1>5 DEF CodeOK
<1>7. Len(o) \in Nat \ {0} /\ IsSeq(Tail(o)) /\ Len(Tail(o)) = Len(o) - 1 /\ k \in Nat /\ k < l
  <2>1. Len(o) \in Nat /\ Len(o) # 0 /\ IsSeq(Tail(o)) /\ Len(Tail(o)) = Len(o) - 1
    BY <1>3, Sequence
  <2> QED
    BY <1>3, <1>6, <2>1
<1>8. PICK u : u = Head(o)
  OBVIOUS
<1>9. u = all[k + 1]
  <2>1. 1 \in 1 .. Len(o) /\ o[1] = all[k + 1]
    BY <1>3, <1>7
  <2>2. Head(o) = o[1]
    BY <1>7
  <2> QED
    BY <1>8, <2>1, <2>2
<1>10. OpOK(i, u) /\ OpForm(u)
  <2>1. k + 1 \in 1 .. Len(all)
    BY <1>6, <1>7
  <2> QED
    BY <1>5, <1>9, <2>1 DEF CodeOK, OpOK
<1>11. h[k] \in State /\ DivOK(u, h[k])
  <2>1. h[k] \in State
    BY <1>3, <1>7 DEF Run
  <2>2. k < Len(all) /\ k \in Nat
    BY <1>6, <1>7
  <2> QED
    BY <1>2, <1>3, <1>9, <2>1, <2>2, DivReady
<1>12. PICK x : x = Seen(c, m, f)
  OBVIOUS
<1>13. x = Seen(h[k], m, f) /\ x \in State /\ x.excp = "none"
  <2>1. x = Seen(h[k], m, f)
    BY <1>3, <1>11, <1>12, OwnSeen
  <2>2. h[k].excp = "none"
    BY <1>3, <1>11, OwnSeen
  <2> QED
    BY <1>11, <2>1, <2>2, SeenState
<1>14. DivOK(u, x)
  <2>1. CASE u[1] \in {"div", "rem"}
    <3>1. Source(u[5])
      BY <1>10, <2>1 DEF OpForm, SingleOK, DoubleOK, OtherOK
    <3>2. At(x, u[5]) = At(h[k], u[5])
      BY <1>11, <1>13, <3>1, SeenAt
    <3> QED
      BY <1>11, <3>2 DEF DivOK
  <2>2. CASE u[1] \notin {"div", "rem"}
    BY <2>2 DEF DivOK
  <2> QED
    BY <2>1, <2>2
<1>15. fp \in Octa /\ fl \in 0 .. SoftFlags /\ (u[1] = "fp" => fp \in FpResults)
  <2>1. 0 \in Octa /\ FpResults \subseteq Octa /\ 0 \in 0 .. SoftFlags
    BY SmallOcta, InputAssumption, FlagBounds, Masks, MachineAssumption
  <2> QED
    BY <1>8, <2>1
<1>16. s = Apply(u, x, fp, fl) /\ s \in State
  BY <1>8, <1>10, <1>12, <1>13, <1>14, <1>15, ApplyType
<1>17. s.mem \in [Octa -> Byte] /\ s.rf0_fcsr \in Octa
  BY <1>16 DEF State
<1>18. Seen(Own(s), s.mem, s.rf0_fcsr) \in State /\ Own(s).excp = s.excp /\ Own(s) = Own(Own(s))
  BY <1>16, OwnSeen
<1>19. CASE s.excp = "none"
  <2>1. PICK g : g = [j \in 0 .. k + 1 |-> IF j = k + 1 THEN s ELSE h[j]]
    OBVIOUS
  <2>2. k + 1 \in 0 .. Len(all) /\ g[k + 1] = s /\ g[0] = h[0] /\ \A j \in 0 .. k : g[j] = h[j]
    BY <1>6, <1>7, <2>1
  <2>3. Does(u, h[k], s)
    <3>1. /\ u[1] = "fp" => fp \in FpResults
          /\ Alone => m = h[k].mem /\ f = h[k].rf0_fcsr
          /\ s = Apply(u, Seen(h[k], m, f), fp, fl)
          /\ s.excp = "none"
      BY <1>3, <1>13, <1>15, <1>16, <1>19
    <3> QED
      BY <1>15, <3>1 DEF Does
  <2>4. Run(all, k + 1, g)
    <3>1. \A j \in 0 .. k : h[j] \in State
      BY <1>3 DEF Run
    <3>2. \A j \in 0 .. k + 1 : g[j] \in State
      BY <1>7, <1>16, <2>1, <3>1
    <3>3. ASSUME NEW j \in 1 .. k + 1 PROVE Does(all[j], g[j - 1], g[j])
      <4>1. CASE j = k + 1
        <5>1. j - 1 = k /\ k \in 0 .. k
          BY <1>7, <4>1
        <5> QED
          BY <1>9, <2>2, <2>3, <4>1, <5>1
      <4>2. CASE j # k + 1
        <5>1. j \in 1 .. k /\ j - 1 \in 0 .. k /\ j \in 0 .. k
          BY <1>7, <4>2
        <5>2. Does(all[j], h[j - 1], h[j])
          BY <1>3, <5>1 DEF Run
        <5> QED
          BY <2>2, <5>1, <5>2
      <4> QED
        BY <4>1, <4>2
    <3>4. g \in [0 .. k + 1 -> State]
      BY <2>1, <3>2
    <3> QED
      BY <3>3, <3>4 DEF Run
  <2>5. PICK w : w = Tail(o)
    OBVIOUS
  <2>6. IsSeq(w) /\ Len(w) = Len(all) - (k + 1)
    BY <1>3, <1>6, <1>7, <2>5
  <2>7. ASSUME NEW j \in 1 .. Len(w) PROVE w[j] = all[(k + 1) + j]
    <3>1. j + 1 \in 1 .. Len(o) /\ k + (j + 1) = (k + 1) + j /\ j \in 1 .. Len(o) - 1
      BY <1>6, <1>7, <2>5, <2>6
    <3>2. o[j + 1] = all[k + (j + 1)]
      BY <1>3, <3>1
    <3>3. w[j] = o[j + 1]
      BY <1>7, <2>5, <3>1
    <3> QED
      BY <3>1, <3>2, <3>3
  <2>8. Begun(i, b, g[0])
    BY <1>3, <2>2
  <2>9. RunsTo(Own(s), w, i, b, s.mem, s.rf0_fcsr, k + 1, g)
    BY <1>2, <1>18, <1>19, <2>2, <2>4, <2>6, <2>7, <2>8 DEF RunsTo
  <2>10. ThreadOK(Own(s), w, i, b, s.mem, s.rf0_fcsr)
    BY <1>4, <1>18, <2>9 DEF ThreadOK
  <2> QED
    BY <1>17, <1>19, <2>5, <2>10
<1>20. CASE s.excp # "none"
  <2>1. s.excp = "TRAP" => i.form = "TRAP"
    BY <1>10, <1>13, <1>14, <1>16, ApplyExcp
  <2>2. Stopped(Own(s), <<>>, i)
    BY <1>4, <1>18, <1>20, <2>1 DEF Stopped
  <2>3. ThreadOK(Own(s), <<>>, i, b, s.mem, s.rf0_fcsr)
    BY <1>4, <1>18, <2>2 DEF ThreadOK
  <2> QED
    BY <1>17, <1>20, <2>3
<1> QED
  BY <1>19, <1>20

(* An operation of another thread.                                         *)
LEMMA OtherThread ==
  ASSUME NEW c, NEW o, NEW i, NEW b, NEW m, NEW f, ThreadOK(c, o, i, b, m, f), ~Alone,
         NEW m2 \in [Octa -> Byte], NEW f2 \in Octa
  PROVE  ThreadOK(c, o, i, b, m2, f2)
<1>1. Seen(c, m2, f2) \in State
  <2>1. Seen(c, m, f) \in State
    BY DEF ThreadOK
  <2> QED
    BY <2>1 DEF Seen, State
<1>2. ASSUME NEW k, NEW h, RunsTo(c, o, i, b, m, f, k, h) PROVE RunsTo(c, o, i, b, m2, f2, k, h)
  BY <1>2 DEF RunsTo
<1> QED
  BY <1>1, <1>2 DEF ThreadOK

(* An instruction begins.                                                  *)
LEMMA BeginThread ==
  ASSUME NEW c, NEW o, NEW i, NEW b, NEW m \in [Octa -> Byte], NEW f \in Octa, ThreadOK(c, o, i, b, m, f),
         c.excp = "none", NEW j \in Insns, Legal(j), NEW x, x = Seen(c, m, f)
  PROVE  ThreadOK(c, translate_insn(j, c.rb[0]), j, x, m, f)
<1>1. x \in State /\ x.rb = c.rb /\ x.mem = m /\ x.rf0_fcsr = f /\ x.rb[0] \in Octa
  BY CanonicalLaws DEF ThreadOK, Seen
<1>2. PICK all : all = translate_insn(j, c.rb[0])
  OBVIOUS
<1>3. CodeOK(j, all) /\ all = translate_insn(j, x.rb[0])
  BY <1>1, <1>2, TranslateOK
<1>4. IsSeq(all) /\ Len(all) \in Nat
  BY <1>3 DEF CodeOK
<1>5. PICK h : h = [n \in 0 .. 0 |-> x]
  OBVIOUS
<1>6. h[0] = x /\ Run(all, 0, h)
  BY <1>1, <1>5 DEF Run
<1>7. Begun(j, x, h[0])
  BY <1>1, <1>6 DEF Begun, SameFiles
<1>8. Own(x) = c
  <2>1. Own(x) = Own(c)
    BY DEF Own, Seen
  <2> QED
    BY <2>1 DEF ThreadOK
<1>9. RunsTo(c, all, j, x, m, f, 0, h)
  BY <1>1, <1>3, <1>4, <1>6, <1>7, <1>8 DEF RunsTo
<1> QED
  BY <1>1, <1>2, <1>9 DEF ThreadOK

(* An instruction begins again.                                            *)
LEMMA RestartThread ==
  ASSUME NEW c, NEW o, NEW i, NEW b, NEW m \in [Octa -> Byte], NEW f \in Octa, ThreadOK(c, o, i, b, m, f),
         o # <<>>, Head(o)[1] = "st"
  PROVE  ThreadOK(c, translate_insn(i, b.rb[0]), i, b, m, f)
<1>1. PICK k, h : RunsTo(c, o, i, b, m, f, k, h)
  BY DEF ThreadOK, Fresh, Stopped
<1>2. PICK all : all = translate_insn(i, b.rb[0])
  OBVIOUS
<1>3. /\ Begun(i, b, h[0]) /\ k \in 0 .. Len(all) /\ Run(all, k, h)
      /\ Own(h[k]) = c /\ c.excp = "none"
      /\ Alone => h[k].mem = m /\ h[k].rf0_fcsr = f
      /\ IsSeq(o) /\ Len(o) = Len(all) - k /\ \A j \in 1 .. Len(o) : o[j] = all[k + j]
  BY <1>1, <1>2 DEF RunsTo
<1>4. i \in Insns /\ Legal(i) /\ b \in State /\ b.rb[0] \in Octa
  BY <1>3, CanonicalLaws DEF Begun
<1>5. IsSeq(all) /\ Len(all) \in Nat
  BY <1>2, <1>4, TranslateOK DEF CodeOK
<1>6. Len(o) \in Nat \ {0} /\ k \in Nat /\ k < Len(all)
  <2>1. Len(o) \in Nat /\ Len(o) # 0
    BY <1>3, Sequence
  <2> QED
    BY <1>3, <1>5, <2>1
<1>7. all[k + 1][1] = "st"
  <2>1. 1 \in 1 .. Len(o) /\ o[1] = all[k + 1]
    BY <1>3, <1>6
  <2>2. Head(o) = o[1]
    BY <1>6
  <2> QED
    BY <2>1, <2>2
<1>8. PICK x : x = h[k]
  OBVIOUS
<1>9. Begun(i, b, x)
  BY <1>2, <1>3, <1>6, <1>7, <1>8, BegunAgain
<1>10. PICK g : g = [n \in 0 .. 0 |-> x]
  OBVIOUS
<1>11. g[0] = x /\ Run(all, 0, g)
  BY <1>9, <1>10 DEF Run, Begun
<1>12. RunsTo(c, all, i, b, m, f, 0, g)
  BY <1>2, <1>3, <1>5, <1>8, <1>9, <1>11 DEF RunsTo
<1> QED
  BY <1>2, <1>12 DEF ThreadOK

(* A processor after a system call: its address and its result register.   *)
Answered(c, v, w) == [c EXCEPT !.excp = "none", !.rb[0] = v, !.rd[RetReg] = w]

(* A system call ends: the thread goes on behind TRAP, or on TRAP again.   *)
LEMMA SyscallThread ==
  ASSUME NEW c, NEW i, NEW b, NEW m \in [Octa -> Byte], NEW f \in Octa, ThreadOK(c, <<>>, i, b, m, f),
         c.excp = "TRAP", NEW v \in Octa, NEW w \in Octa, NEW d, d = Answered(c, v, w)
  PROVE  ThreadOK(d, <<>>, i, b, m, f)
<1> USE DEF Answered
<1>1. i \in Insns /\ i.form = "TRAP"
  BY DEF ThreadOK, Fresh, Stopped, RunsTo
<1>2. c = Own(c) /\ Seen(c, m, f) \in State /\ b \in State
  BY DEF ThreadOK
<1>3. c.rd \in RegFile /\ c.rb \in RegFile
  BY <1>2 DEF Seen, State
<1>4. PICK p, q : p = [c.rb EXCEPT ![0] = v] /\ q = [c.rd EXCEPT ![RetReg] = w]
  OBVIOUS
<1>5. p \in RegFile /\ q \in RegFile
  BY <1>3, <1>4 DEF RegFile
<1>6. /\ DOMAIN c = {"rd", "rb", "rf", "ra", "t", "jmp", "flags", "excp"}
      /\ d = [c EXCEPT !.excp = "none", !.rb = p, !.rd = q]
  <2>1. DOMAIN c = {"rd", "rb", "rf", "ra", "t", "jmp", "flags", "excp"}
    BY <1>2 DEF Own
  <2> QED
    BY <1>4, <2>1
<1>7. /\ d.rd = q /\ d.rb = p /\ d.rf = c.rf /\ d.ra = c.ra /\ d.t = c.t /\ d.jmp = c.jmp
      /\ d.flags = c.flags /\ d.excp = "none"
  BY <1>6
<1>8. d = Own(d)
  BY <1>6 DEF Own
<1>9. Seen(d, m, f) \in State
  BY <1>2, <1>5, <1>7 DEF Seen, State, Excp
<1>10. Stopped(d, <<>>, i)
  BY <1>1, <1>7 DEF Stopped
<1> QED
  BY <1>2, <1>8, <1>9, <1>10 DEF ThreadOK

-----------------------------------------------------------------------------
(* The invariant holds at first.                                           *)
LEMMA IInvInit == Init => IInv
<1> SUFFICES ASSUME Init PROVE IInv
  OBVIOUS
<1>1. PICK c \in [Threads -> Starts] : cpu = [t \in Threads |-> Reset(c[t])]
  BY DEF Init
<1>2. /\ mem = InitMem /\ rf0_fcsr = 0 /\ code = [t \in Threads |-> <<>>]
      /\ insn = [t \in Threads |-> NoInsn] /\ before = [t \in Threads |-> Now(t)]
  BY DEF Init
<1>3. mem \in [Octa -> Byte] /\ rf0_fcsr \in Octa /\ 0 \in Octa /\ 0 \in 0 .. SoftFlags
  BY <1>2, SmallOcta, InputAssumption, FlagBounds, Masks, MachineAssumption
<1>4. ASSUME NEW t \in Threads PROVE ThreadOK(cpu[t], code[t], insn[t], before[t], mem, rf0_fcsr)
  <2>1. cpu[t] = Reset(c[t]) /\ code[t] = <<>> /\ insn[t] = NoInsn /\ before[t] = Now(t)
    BY <1>1, <1>2
  <2>2. PICK a, x : a = c[t] /\ x = Reset(a)
    OBVIOUS
  <2>3. a.rd \in RegFile /\ a.rb \in RegFile /\ a.rf \in RegFile /\ a.ra \in RegFile
    <3>1. a \in Starts
      BY <2>2
    <3> QED
      BY <3>1, InputAssumption
  <2>4. x = Own(x) /\ x.excp = "none"
    BY <2>2 DEF Reset, Own
  <2>5. Seen(x, mem, rf0_fcsr) \in State
    BY <1>3, <2>2, <2>3 DEF Seen, Reset, State, Excp
  <2>6. Now(t) \in State
    BY <2>1, <2>2, <2>5 DEF Now
  <2>7. Fresh(x, <<>>, NoInsn)
    BY <2>4 DEF Fresh
  <2> QED
    BY <2>1, <2>2, <2>4, <2>5, <2>6, <2>7 DEF ThreadOK
<1> QED
  BY <1>1, <1>2, <1>3, <1>4 DEF IInv

(* Every step keeps it.                                                    *)
LEMMA IInvStep == IInv /\ [Next]_vars => IInv'
<1> SUFFICES ASSUME IInv, [Next]_vars PROVE IInv'
  OBVIOUS
<1>1. /\ DOMAIN cpu = Threads /\ DOMAIN code = Threads /\ DOMAIN insn = Threads /\ DOMAIN before = Threads
      /\ mem \in [Octa -> Byte] /\ rf0_fcsr \in Octa
      /\ \A t \in Threads : ThreadOK(cpu[t], code[t], insn[t], before[t], mem, rf0_fcsr)
  BY DEF IInv
<1>2. ASSUME NEW t \in Threads,
             /\ DOMAIN cpu' = Threads /\ DOMAIN code' = Threads /\ DOMAIN insn' = Threads
             /\ DOMAIN before' = Threads /\ mem' \in [Octa -> Byte] /\ rf0_fcsr' \in Octa,
             ThreadOK(cpu'[t], code'[t], insn'[t], before'[t], mem', rf0_fcsr'),
             \A u \in Threads \ {t} : /\ cpu'[u] = cpu[u] /\ code'[u] = code[u] /\ insn'[u] = insn[u]
                                      /\ before'[u] = before[u]
      PROVE  IInv'
  <2>1. ASSUME NEW u \in Threads \ {t} PROVE ThreadOK(cpu'[u], code'[u], insn'[u], before'[u], mem', rf0_fcsr')
    <3>1. ~Alone
      BY DEF Alone
    <3>2. ThreadOK(cpu[u], code[u], insn[u], before[u], mem, rf0_fcsr)
      BY <1>1
    <3>3. ThreadOK(cpu[u], code[u], insn[u], before[u], mem', rf0_fcsr')
      BY <1>2, <3>1, <3>2, OtherThread
    <3> QED
      BY <1>2, <3>3
  <2> QED
    BY <1>2, <2>1 DEF IInv
<1>3. ASSUME NEW t \in Threads, NEW i \in Insns, Begin(t, i) PROVE IInv'
  <2>1. /\ cpu[t].excp = "none" /\ Legal(i)
        /\ code' = [code EXCEPT ![t] = translate_insn(i, cpu[t].rb[0])]
        /\ insn' = [insn EXCEPT ![t] = i]
        /\ before' = [before EXCEPT ![t] = Now(t)]
        /\ cpu' = cpu /\ mem' = mem /\ rf0_fcsr' = rf0_fcsr
    BY <1>3 DEF Begin
  <2>2. ThreadOK(cpu[t], translate_insn(i, cpu[t].rb[0]), i, Now(t), mem, rf0_fcsr)
    <3>1. ThreadOK(cpu[t], code[t], insn[t], before[t], mem, rf0_fcsr)
      BY <1>1
    <3> QED
      BY <1>1, <2>1, <3>1, BeginThread DEF Now
  <2>3. code'[t] = translate_insn(i, cpu[t].rb[0]) /\ insn'[t] = i /\ before'[t] = Now(t) /\ cpu'[t] = cpu[t]
    BY <1>1, <2>1
  <2>4. ThreadOK(cpu'[t], code'[t], insn'[t], before'[t], mem', rf0_fcsr')
    BY <2>1, <2>2, <2>3
  <2>5. /\ DOMAIN cpu' = Threads /\ DOMAIN code' = Threads /\ DOMAIN insn' = Threads
        /\ DOMAIN before' = Threads /\ mem' \in [Octa -> Byte] /\ rf0_fcsr' \in Octa
    BY <1>1, <2>1
  <2>6. \A u \in Threads \ {t} : /\ cpu'[u] = cpu[u] /\ code'[u] = code[u] /\ insn'[u] = insn[u]
                                 /\ before'[u] = before[u]
    BY <1>1, <2>1
  <2> QED
    BY <1>2, <2>4, <2>5, <2>6
<1>4. ASSUME NEW t \in Threads, Step(t) PROVE IInv'
  <2>1. PICK fp \in (IF Head(code[t])[1] = "fp" THEN FpResults ELSE {0}),
             fl \in (IF Head(code[t])[1] = "fp" THEN 0 .. SoftFlags ELSE {0}) :
          LET s == Apply(Head(code[t]), Now(t), fp, fl)
          IN  /\ cpu' = [cpu EXCEPT ![t] = Own(s)]
              /\ mem' = s.mem
              /\ rf0_fcsr' = s.rf0_fcsr
              /\ code' = [code EXCEPT ![t] = IF s.excp = "none" THEN Tail(@) ELSE <<>>]
    BY <1>4 DEF Step
  <2>2. PICK s : s = Apply(Head(code[t]), Now(t), fp, fl)
    OBVIOUS
  <2>3. PICK o : o = IF s.excp = "none" THEN Tail(code[t]) ELSE <<>>
    OBVIOUS
  <2>4. /\ cpu' = [cpu EXCEPT ![t] = Own(s)] /\ mem' = s.mem /\ rf0_fcsr' = s.rf0_fcsr
        /\ code' = [code EXCEPT ![t] = o] /\ insn' = insn /\ before' = before /\ code[t] # <<>>
    BY <1>1, <1>4, <2>1, <2>2, <2>3 DEF Step, Idle
  <2>5. /\ s.mem \in [Octa -> Byte] /\ s.rf0_fcsr \in Octa
        /\ ThreadOK(Own(s), o, insn[t], before[t], s.mem, s.rf0_fcsr)
    <3>1. ThreadOK(cpu[t], code[t], insn[t], before[t], mem, rf0_fcsr)
      BY <1>1
    <3>2. s = Apply(Head(code[t]), Seen(cpu[t], mem, rf0_fcsr), fp, fl)
      BY <2>2 DEF Now
    <3>3. PICK c1, c2, c3, c4 : c1 = cpu[t] /\ c2 = code[t] /\ c3 = insn[t] /\ c4 = before[t]
      OBVIOUS
    <3>4. /\ ThreadOK(c1, c2, c3, c4, mem, rf0_fcsr) /\ c2 # <<>>
          /\ fp \in (IF Head(c2)[1] = "fp" THEN FpResults ELSE {0})
          /\ fl \in (IF Head(c2)[1] = "fp" THEN 0 .. SoftFlags ELSE {0})
          /\ s = Apply(Head(c2), Seen(c1, mem, rf0_fcsr), fp, fl)
      BY <2>4, <3>1, <3>2, <3>3
    <3>5. /\ s.mem \in [Octa -> Byte] /\ s.rf0_fcsr \in Octa
          /\ ThreadOK(Own(s), IF s.excp = "none" THEN Tail(c2) ELSE <<>>, c3, c4, s.mem, s.rf0_fcsr)
      BY <1>1, <3>4, StepThread
    <3> QED
      BY <2>3, <3>3, <3>5
  <2>6. cpu'[t] = Own(s) /\ code'[t] = o /\ insn'[t] = insn[t] /\ before'[t] = before[t]
    BY <1>1, <2>4
  <2>7. ThreadOK(cpu'[t], code'[t], insn'[t], before'[t], mem', rf0_fcsr')
    BY <2>4, <2>5, <2>6
  <2>8. /\ DOMAIN cpu' = Threads /\ DOMAIN code' = Threads /\ DOMAIN insn' = Threads
        /\ DOMAIN before' = Threads /\ mem' \in [Octa -> Byte] /\ rf0_fcsr' \in Octa
    BY <1>1, <2>4, <2>5
  <2>9. \A u \in Threads \ {t} : /\ cpu'[u] = cpu[u] /\ code'[u] = code[u] /\ insn'[u] = insn[u]
                                 /\ before'[u] = before[u]
    BY <1>1, <2>4
  <2> QED
    BY <1>2, <2>7, <2>8, <2>9
<1>5. ASSUME NEW t \in Threads, Restart(t) PROVE IInv'
  <2>1. /\ code[t] # <<>> /\ Head(code[t])[1] = "st"
        /\ code' = [code EXCEPT ![t] = translate_insn(insn[t], before[t].rb[0])]
        /\ cpu' = cpu /\ insn' = insn /\ before' = before /\ mem' = mem /\ rf0_fcsr' = rf0_fcsr
    BY <1>5 DEF Restart, Idle
  <2>2. ThreadOK(cpu[t], translate_insn(insn[t], before[t].rb[0]), insn[t], before[t], mem, rf0_fcsr)
    <3>1. ThreadOK(cpu[t], code[t], insn[t], before[t], mem, rf0_fcsr)
      BY <1>1
    <3> QED
      BY <1>1, <2>1, <3>1, RestartThread
  <2>3. /\ code'[t] = translate_insn(insn[t], before[t].rb[0]) /\ insn'[t] = insn[t]
        /\ before'[t] = before[t] /\ cpu'[t] = cpu[t]
    BY <1>1, <2>1
  <2>4. ThreadOK(cpu'[t], code'[t], insn'[t], before'[t], mem', rf0_fcsr')
    BY <2>1, <2>2, <2>3
  <2>5. /\ DOMAIN cpu' = Threads /\ DOMAIN code' = Threads /\ DOMAIN insn' = Threads
        /\ DOMAIN before' = Threads /\ mem' \in [Octa -> Byte] /\ rf0_fcsr' \in Octa
    BY <1>1, <2>1
  <2>6. \A u \in Threads \ {t} : /\ cpu'[u] = cpu[u] /\ code'[u] = code[u] /\ insn'[u] = insn[u]
                                 /\ before'[u] = before[u]
    BY <1>1, <2>1
  <2> QED
    BY <1>2, <2>4, <2>5, <2>6
<1>6. ASSUME NEW t \in Threads, NEW again \in BOOLEAN, NEW ret \in FpResults, Syscall(t, again, ret) PROVE IInv'
  <2>1. PICK v, w : /\ v = (IF again THEN cpu[t].rb[0] ELSE Cut(cpu[t].rb[0] + 4))
                    /\ w = (IF again THEN cpu[t].rd[RetReg] ELSE ret)
    OBVIOUS
  <2>2. PICK d : d = [cpu[t] EXCEPT !.excp = "none", !.rb[0] = v, !.rd[RetReg] = w]
    OBVIOUS
  <2>3. ThreadOK(cpu[t], code[t], insn[t], before[t], mem, rf0_fcsr)
    BY <1>1
  <2>4. cpu[t] = Own(cpu[t]) /\ Seen(cpu[t], mem, rf0_fcsr) \in State
    BY <2>3 DEF ThreadOK
  <2>5. cpu[t].rb \in RegFile /\ cpu[t].rd \in RegFile
    BY <2>4 DEF Seen, State
  <2>6. cpu[t].rb[0] \in Octa /\ cpu[t].rd[RetReg] \in Octa /\ ret \in Octa
    BY <2>5, Operands, MachineAssumption, InputAssumption DEF RegFile
  <2>7. v \in Octa /\ w \in Octa
    <3>1. Cut(cpu[t].rb[0] + 4) \in Octa
      <4>1. cpu[t].rb[0] + 4 \in Int
        BY <2>6, OctaInt
      <4> QED
        BY <4>1, CutLaws
    <3> QED
      BY <2>1, <2>6, <3>1
  <2>8. /\ code[t] = <<>> /\ cpu[t].excp = "TRAP" /\ code' = code /\ insn' = insn /\ before' = before
        /\ mem' = mem /\ rf0_fcsr' = rf0_fcsr
    BY <1>6 DEF Syscall, Idle
  <2>9. cpu' = [cpu EXCEPT ![t] = d]
    <3>1. DOMAIN cpu[t] = {"rd", "rb", "rf", "ra", "t", "jmp", "flags", "excp"}
      BY <2>4 DEF Own
    <3>2. cpu' = [cpu EXCEPT ![t].excp = "none",
                        ![t].rb[0] = IF again THEN @ ELSE Cut(@ + 4),
                        ![t].rd[RetReg] = IF again THEN @ ELSE ret]
      BY <1>6 DEF Syscall
    <3> QED
      BY <1>1, <2>1, <2>2, <3>1, <3>2
  <2>10. ThreadOK(d, code[t], insn[t], before[t], mem, rf0_fcsr)
    <3>1. PICK x, i, b : x = cpu[t] /\ i = insn[t] /\ b = before[t]
      OBVIOUS
    <3>2. /\ ThreadOK(x, <<>>, i, b, mem, rf0_fcsr) /\ x.excp = "TRAP"
          /\ d = Answered(x, v, w)
      BY <2>2, <2>3, <2>8, <3>1 DEF Answered
    <3>3. ThreadOK(d, <<>>, i, b, mem, rf0_fcsr)
      BY <1>1, <2>7, <3>2, SyscallThread
    <3> QED
      BY <2>8, <3>1, <3>3
  <2>11. cpu'[t] = d /\ code'[t] = code[t] /\ insn'[t] = insn[t] /\ before'[t] = before[t]
    BY <1>1, <2>8, <2>9
  <2>12. ThreadOK(cpu'[t], code'[t], insn'[t], before'[t], mem', rf0_fcsr')
    BY <2>8, <2>10, <2>11
  <2>13. /\ DOMAIN cpu' = Threads /\ DOMAIN code' = Threads /\ DOMAIN insn' = Threads
         /\ DOMAIN before' = Threads /\ mem' \in [Octa -> Byte] /\ rf0_fcsr' \in Octa
    BY <1>1, <2>8, <2>9
  <2>14. \A u \in Threads \ {t} : /\ cpu'[u] = cpu[u] /\ code'[u] = code[u] /\ insn'[u] = insn[u]
                                  /\ before'[u] = before[u]
    BY <1>1, <2>8, <2>9
  <2> QED
    BY <1>2, <2>12, <2>13, <2>14
<1>7. CASE UNCHANGED vars
  BY <1>1, <1>7 DEF vars, IInv
<1> QED
  BY <1>3, <1>4, <1>5, <1>6, <1>7 DEF Next

(* The invariant holds in every state of every behaviour.                  *)
THEOREM Invariance == Spec => []IInv
<1>1. Init => IInv
  BY IInvInit
<1>2. IInv /\ [Next]_vars => IInv'
  BY IInvStep
<1> QED
  BY <1>1, <1>2, PTL DEF Spec

(* Registers, temporaries and rf0_fcsr always hold words, the memory bytes *)
(* and the status flags: no operation of a translation, and no             *)
(* interleaving of two threads, takes a value out of its width.            *)
THEOREM TypeCorrect == Spec => []TypeOK
<1>1. IInv => TypeOK
  <2> SUFFICES ASSUME IInv PROVE TypeOK
    OBVIOUS
  <2>1. mem \in [Octa -> Byte] /\ rf0_fcsr \in Octa
    BY DEF IInv
  <2>2. ASSUME NEW t \in Threads PROVE
          /\ \A p \in Places(cpu[t]) : cpu[t][p[1]][p[2]] \in Octa
          /\ \A k \in 1..3 : cpu[t].t[k] \in Octa
          /\ cpu[t].excp \in {"none", "TRAP", "ILLI", "FPER"}
          /\ cpu[t].flags \in 0 .. SoftFlags
    <3>1. PICK c : c = cpu[t]
      OBVIOUS
    <3>2. Seen(c, mem, rf0_fcsr) \in State
      BY <3>1 DEF IInv, ThreadOK
    <3>3. /\ c.rd \in RegFile /\ c.rb \in RegFile /\ c.rf \in RegFile /\ c.ra \in RegFile
          /\ c.t \in [1..3 -> Octa] /\ c.excp \in Excp /\ c.flags \in 0 .. SoftFlags
      BY <3>2 DEF Seen, State
    <3>4. ASSUME NEW f \in Files, NEW n \in 0 .. NReg - 1 PROVE c[f][n] \in Octa
      BY <3>3 DEF Files, RegFile
    <3>5. ASSUME NEW p \in Places(c) PROVE c[p[1]][p[2]] \in Octa
      <4>1. PICK f \in Files, n \in 0 .. NReg - 1 : p = <<f, n>>
        BY DEF Places, Files
      <4> QED
        BY <3>4, <4>1
    <3> QED
      BY <3>1, <3>3, <3>5 DEF Excp
  <2> QED
    BY <2>1, <2>2 DEF TypeOK
<1> QED
  BY <1>1, Invariance, PTL

(* A thread that is done has run all operations of its instruction.        *)
LEMMA DoneRun ==
  ASSUME IInv, NEW t \in Threads, Done(t), NEW i, i = insn[t], NEW b, b = before[t],
         NEW s, s = Canonical(b), Specified(i, s), i.form \in {"LD", "LDM"} => Alone
  PROVE  \E y : /\ y \in State /\ cpu[t] = Own(y) /\ (Alone => mem = y.mem)
                /\ Leaves(Writes(i, s), s, y) /\ y.rb[0] = NextPc(i, s)
                /\ Alone => y.mem = StoredBy(i, s)
                /\ UsesFp(i) /\ Alone /\ (\A v \in Writes(i, s) : v[1] # RF(0)) => Kept(b.rf[0], y.rf[0])
<1>1. PICK c, o : c = cpu[t] /\ o = code[t]
  OBVIOUS
<1>2. ThreadOK(c, o, i, b, mem, rf0_fcsr)
  BY <1>1 DEF IInv
<1>3. o = <<>> /\ i # NoInsn /\ c.excp = "none" /\ i.form # "TRAP"
  BY <1>1 DEF Done, Idle
<1>4. PICK k, h : RunsTo(c, o, i, b, mem, rf0_fcsr, k, h)
  BY <1>2, <1>3 DEF ThreadOK, Fresh, Stopped
<1>5. PICK all : all = translate_insn(i, b.rb[0])
  OBVIOUS
<1>6. /\ Begun(i, b, h[0]) /\ k \in 0 .. Len(all) /\ Run(all, k, h)
      /\ Own(h[k]) = c /\ (Alone => h[k].mem = mem) /\ Len(o) = Len(all) - k
  BY <1>4, <1>5 DEF RunsTo
<1>7. Len(all) \in Nat /\ b \in State
  <2>1. i \in Insns /\ Legal(i) /\ b \in State /\ b.rb[0] \in Octa
    BY <1>6, CanonicalLaws DEF Begun
  <2> QED
    BY <1>5, <2>1, TranslateOK DEF CodeOK
<1>8. k = Len(all)
  <2>1. Len(o) = 0
    BY <1>3
  <2> QED
    BY <1>6, <1>7, <2>1
<1>9. PICK y : y = h[k]
  OBVIOUS
<1>10. /\ y \in State /\ Leaves(Writes(i, s), s, y) /\ y.rb[0] = NextPc(i, s)
       /\ Alone => y.mem = StoredBy(i, s)
       /\ UsesFp(i) /\ Alone /\ (\A v \in Writes(i, s) : v[1] # RF(0)) => Kept(b.rf[0], y.rf[0])
  <2>1. Run(all, Len(all), h) /\ y = h[Len(all)]
    BY <1>6, <1>8, <1>9
  <2> QED
    BY <1>5, <1>6, <2>1, WholeRun
<1> QED
  BY <1>1, <1>6, <1>9, <1>10

(* Every finished instruction did what the architecture says: all operands *)
(* read before a result is written, whatever registers it names and        *)
(* whether or not a store into its own page started it again. Between its  *)
(* operations other threads may run; only what a load then finds is        *)
(* theirs to change, so loads are covered when the program has one thread. *)
THEOREM Architected ==
  Alone \/ (\A i \in Insns : i.form \notin {"LD", "LDM"}) => (Spec => []AsArchitected)
<1>1. ASSUME Alone \/ (\A i \in Insns : i.form \notin {"LD", "LDM"}), IInv PROVE AsArchitected
  <2> SUFFICES ASSUME NEW t \in Threads, NEW i, i = insn[t], NEW s, s = Canonical(before[t]),
                      NEW w, w = Writes(i, s), Done(t), Specified(i, s)
               PROVE  /\ \A p \in Places(s) \ {RD(0), RB(0), RF(0)} :
                           LET vs == {v[2] : v \in {u \in w : u[1] = p}}
                           IN  IF vs = {} THEN cpu[t][p[1]][p[2]] = s[p[1]][p[2]]
                               ELSE cpu[t][p[1]][p[2]] \in vs
                      /\ cpu[t].rb[0] = NextPc(i, s)
                      /\ Cardinality(Threads) = 1 => mem = StoredBy(i, s)
    BY DEF AsArchitected
  <2>1. PICK b : b = before[t]
    OBVIOUS
  <2>2. i.form \in {"LD", "LDM"} => Alone
    <3>1. ThreadOK(cpu[t], code[t], i, b, mem, rf0_fcsr)
      BY <1>1, <2>1 DEF IInv
    <3>2. i \in Insns
      BY <3>1 DEF ThreadOK, Fresh, Stopped, RunsTo, Begun, Done
    <3> QED
      BY <1>1, <3>2
  <2>3. PICK y : /\ y \in State /\ cpu[t] = Own(y) /\ (Alone => mem = y.mem)
                 /\ Leaves(w, s, y) /\ y.rb[0] = NextPc(i, s)
                 /\ Alone => y.mem = StoredBy(i, s)
    BY <1>1, <2>1, <2>2, DoneRun
  <2>4. PICK c : c = cpu[t]
    OBVIOUS
  <2>5. \A f \in Files : c[f] = y[f]
    BY <2>3, <2>4, OwnSeen
  <2>6. ASSUME NEW p \in Places(s) \ {RD(0), RB(0), RF(0)}, NEW vs, vs = {v[2] : v \in {u \in w : u[1] = p}}
        PROVE  IF vs = {} THEN c[p[1]][p[2]] = s[p[1]][p[2]] ELSE c[p[1]][p[2]] \in vs
    <3>1. PICK f \in Files, n \in 0 .. NReg - 1 : p = <<f, n>>
      BY DEF Places, Files
    <3>2. <<f, n>> \notin Special
      BY <3>1 DEF Special
    <3>3. \/ <<<<f, n>>, y[f][n]>> \in w
          \/ y[f][n] = s[f][n] /\ \A u \in w : u[1] # <<f, n>>
      BY <2>3, <3>2 DEF Leaves
    <3>4. c[p[1]][p[2]] = y[f][n] /\ s[p[1]][p[2]] = s[f][n]
      BY <2>5, <3>1
    <3>5. CASE <<<<f, n>>, y[f][n]>> \in w
      <4>1. PICK u : u = <<<<f, n>>, y[f][n]>>
        OBVIOUS
      <4>2. u \in w /\ u[1] = p /\ u[2] = y[f][n]
        BY <3>1, <3>5, <4>1
      <4>3. y[f][n] \in vs
        BY <2>6, <4>2
      <4> QED
        BY <3>4, <4>3
    <3>6. CASE y[f][n] = s[f][n] /\ \A u \in w : u[1] # <<f, n>>
      <4>1. vs = {}
        BY <2>6, <3>1, <3>6
      <4> QED
        BY <3>4, <3>6, <4>1
    <3> QED
      BY <3>3, <3>5, <3>6
  <2>7. c.rb[0] = NextPc(i, s)
    BY <2>3, <2>5 DEF Files
  <2>8. Cardinality(Threads) = 1 => mem = StoredBy(i, s)
    <3>1. ASSUME Cardinality(Threads) = 1 PROVE Alone
      <4>1. \E u : Threads = {u}
        BY <3>1, InputAssumption, FS_Singleton
      <4> QED
        BY <4>1 DEF Alone
    <3> QED
      BY <2>3, <3>1
  <2> QED
    BY <2>4, <2>6, <2>7, <2>8
<1>2. CASE Alone \/ (\A i \in Insns : i.form \notin {"LD", "LDM"})
  <2>1. IInv => AsArchitected
    BY <1>1, <1>2
  <2> QED
    BY <2>1, Invariance, PTL
<1> QED
  BY <1>2

(* In a program of one thread, floating-point instructions keep the        *)
(* rounding mode of rf0 and only add flags to it, however often they are   *)
(* started and whatever the functions return (helper-fpu.c). With more     *)
(* threads rf0_fcsr is shared, and this does not hold.                     *)
THEOREM StatusIsKept == Alone => (Spec => []StatusKept)
<1>1. ASSUME Alone, IInv PROVE StatusKept
  <2> SUFFICES ASSUME NEW t \in Threads, NEW i, i = insn[t], NEW b, b = before[t], NEW s, s = Canonical(b),
                      Done(t), UsesFp(i), \A v \in Writes(i, s) : v[1] # RF(0)
               PROVE  Kept(b.rf[0], cpu[t].rf[0])
    BY DEF StatusKept
  <2>1. Specified(i, s)
    BY DEF Specified, UsesFp
  <2>2. PICK y : y \in State /\ cpu[t] = Own(y) /\ Kept(b.rf[0], y.rf[0])
    BY <1>1, <2>1, DoneRun
  <2>3. cpu[t].rf = y.rf
    BY <2>2 DEF Own
  <2> QED
    BY <2>2, <2>3
<1>2. CASE Alone
  <2>1. IInv => StatusKept
    BY <1>1, <1>2
  <2> QED
    BY <2>1, Invariance, PTL
<1> QED
  BY <1>2
=============================================================================
