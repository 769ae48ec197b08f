---------------------------- MODULE CodeMachine ----------------------------
(***************************************************************************)
(* The part of the machine that compiled functions run on: the            *)
(* instructions the two compilers emit, as records, and what each of them  *)
(* does to registers and memory. Words are to scale (see Words): with B    *)
(* bits to the byte an octa has 8 * B bits, addresses count bytes, and the *)
(* immediate of an instruction keeps its 12 bits.                          *)
(*                                                                         *)
(* Registers are <<"rd", n>>, <<"rb", n>>, <<"rf", n>>; <<"v", n>> is a    *)
(* value for which the register allocator, which is not part of the ports, *)
(* finds a register that no call has to keep.                              *)
(***************************************************************************)
EXTENDS Words, TLC

rd0 == <<"rd", 0>>
IP == <<"rd", 7>>
SP == <<"rb", 1>>
FP == <<"rb", 2>>
Arg(i) == <<"rd", 15 + i>>
RV == <<"rd", 31>>
V(n) == <<"v", n>>

(* An instruction: destination d, sources a, b and e, immediate or label i, *)
(* and for a memory access its width w in bytes.                           *)
Insn == [op |-> "label", d |-> rd0, a |-> rd0, b |-> rd0, e |-> rd0,
         i |-> 0, w |-> 8]
Alu(op, d, a, b) == [Insn EXCEPT !.op = op, !.d = d, !.a = a, !.b = b]
AluI(op, d, a, i) == [Insn EXCEPT !.op = op \o "i", !.d = d, !.a = a, !.i = i]
Set(d, i) == [Insn EXCEPT !.op = "set", !.d = d, !.i = i]
Mv(d, a) == [Insn EXCEPT !.op = "mv", !.d = d, !.a = a]
Cs(op, d, c, t, f) == [Insn EXCEPT !.op = op, !.d = d, !.a = c, !.b = t, !.e = f]
MulDiv(op, d, e, a, b) ==
    [Insn EXCEPT !.op = op, !.d = d, !.e = e, !.a = a, !.b = b]
Ld(w, d, a, i) == [Insn EXCEPT !.op = "ld", !.d = d, !.a = a, !.i = i, !.w = w]
St(w, d, a, i) == [Insn EXCEPT !.op = "st", !.d = d, !.a = a, !.i = i, !.w = w]
Ldm(w, d, a, b) == [Insn EXCEPT !.op = "ldm", !.d = d, !.a = a, !.b = b, !.w = w]
Stm(w, d, a, b) == [Insn EXCEPT !.op = "stm", !.d = d, !.a = a, !.b = b, !.w = w]
Br(op, a, b, l) == [Insn EXCEPT !.op = op, !.a = a, !.b = b, !.i = l]
Jump(l) == [Insn EXCEPT !.op = "jump", !.i = l]
Label(l) == [Insn EXCEPT !.i = l]
Call == [Insn EXCEPT !.op = "call"]
Ret == [Insn EXCEPT !.op = "ret"]

(* A line the compiler does not get past (llvm_unreachable, fatal_insn), or *)
(* one the assembler refuses.                                              *)
Refuse == [Insn EXCEPT !.op = "refuse"]
Refused(code) == \E k \in DOMAIN code : code[k].op = "refuse"

AluOps == {"addi", "andi", "shrui", "add", "sub", "and", "orr", "xor",
           "cmps", "cmpu", "shlu", "shru"}
Conditions == {"csn", "csz", "csp"}
Pairs == {"muls", "divs", "divu"}
Branches == {"brn", "brnn", "brz", "brnz", "brp", "brnp", "breq", "brne", "jump"}

Sgn(x, y) == Cut(IF x < y THEN -1 ELSE IF x > y THEN 1 ELSE 0)

(* The twelve bits of the immediate field are all that is encoded; andi    *)
(* reads them without a sign.                                              *)
Imm(op, i) == IF op = "andi" THEN i % 2^12 ELSE SignedIn(12, i % 2^12)

(* What an arithmetic instruction computes. A shift by the width of the    *)
(* word or more leaves what the host's shift leaves: the amount wrapped, or *)
(* zero (u).                                                               *)
Computed(op, x, y, u) ==
    LET far == Signed(y) \notin 0 .. XLEN - 1
        k == y % XLEN
    IN
    CASE op \in {"add", "addi"} -> Cut(x + y)
      [] op = "sub"             -> Cut(x - y)
      [] op \in {"and", "andi"} -> x & y
      [] op = "orr"             -> x | y
      [] op = "xor"             -> x ^^ y
      [] op = "cmps"            -> Sgn(Signed(x), Signed(y))
      [] op = "cmpu"            -> Sgn(x, y)
      [] op = "shlu"            -> IF far /\ u THEN 0 ELSE (x % 2^(XLEN - k)) * 2^k
      [] op \in {"shru", "shrui"} ->
             IF far /\ u THEN 0 ELSE x \div 2^k

Chosen(op, c) == CASE op = "csn" -> Signed(c) < 0
                   [] op = "csz" -> c = 0
                   [] op = "csp" -> Signed(c) > 0

Taken(op, x, y) == CASE op = "brn"  -> Signed(x) < 0
                     [] op = "brnn" -> Signed(x) >= 0
                     [] op = "brz"  -> x = 0
                     [] op = "brnz" -> x # 0
                     [] op = "brp"  -> Signed(x) > 0
                     [] op = "brnp" -> Signed(x) <= 0
                     [] op = "breq" -> x = y
                     [] op = "brne" -> x # y
                     [] op = "jump" -> TRUE

(* High and low half of a product; remainder and quotient. *)
PairOf(op, x, y) ==
    CASE op = "muls" -> LET p == Signed(x) * Signed(y) IN <<Cut(p \div M), Cut(p)>>
      [] op = "divs" -> <<Cut(Rem(Signed(x), Signed(y))), Cut(Quot(Signed(x), Signed(y)))>>
      [] op = "divu" -> <<x % y, x \div y>>

(* Cells at the addresses that are used, each read with the width it was   *)
(* written with; a narrow access is to the low end of its cell.            *)
Cell(mem, a) == IF a \in DOMAIN mem THEN mem[a] ELSE 0
Low(w, x) == x % 2^Bits(w)
Stored(mem, w, a, x) ==
    (a :> Cut(Low(w, x) + (Cell(mem, a) - Low(w, Cell(mem, a))))) @@ mem
============================================================================
