---------------------------- MODULE MCToolchain ----------------------------
(***************************************************************************)
(* Bytes of one bit: addresses have 8 bits, wydes 2. Branches reach 4 and  *)
(* 2 instructions back, so short programs need long ones.                  *)
(***************************************************************************)
EXTENDS Toolchain

Stmt(op) == [op |-> op, file |-> "rd", reg |-> 1, reg2 |-> 2, from |-> "rd", cond |-> "EQ",
             imm |-> 0, sym |-> "none", insn |-> Insn("SWYM")]
To(op, sym) == [Stmt(op) EXCEPT !.sym = sym]
LabelAt(sym) == To("label", sym)
Plain(i) == [Stmt("insn") EXCEPT !.insn = i]
Add == Plain([Insn("ADDI") EXCEPT !.ha = 3, !.hb = 3, !.imm = 1])
Zero == Plain(Insn("ZERO"))

MCBind == [l |-> "local", g |-> "global", w |-> "weak", e |-> "undef", f |-> "undef", h |-> "undef", far |-> "undef"]
MCElsewhere == [e |-> 21, f |-> 96, h |-> 3, far |-> 144]

(* Branches of every length: four statements, one label among them and one *)
(* at an end.                                                              *)
Steps == {Add, To("BRCC", "l"), To("BRCC12", "l"), To("ABS", "l"), To("BRCC12", "g")}
WithLabel(p, k, sym) == SubSeq(p, 1, k) \o <<LabelAt(sym)>> \o SubSeq(p, k + 1, Len(p))
RelaxPrograms ==
  {WithLabel(WithLabel(<<a, b, c, d, Add, Add>>, k, "l"), m, "g")
   : a, b, c, d \in Steps, k \in 0..5, m \in {0, 7}}

(* Constants with every pattern of wydes; symbols near, far and elsewhere. *)
SetPrograms ==
  {<<[Stmt("setimm") EXCEPT !.file = f, !.imm = x]>> : f \in {"rd", "rb", "rf"}, x \in Octa}
  \cup {<<LabelAt("w"), [To("ABS", y) EXCEPT !.file = f], Add, LabelAt("l"), [To("ABS", z) EXCEPT !.file = f], LabelAt("g"), Add>>
        : f \in {"rd", "rb"}, y, z \in {"l", "g", "w", "e", "f", "h"}}
  \cup {<<[To("HI18", y) EXCEPT !.file = "rb"], To("LO12", y), Add>> : y \in {"e", "f", "h"}}
  \cup {<<To("HI18", "l"), LabelAt("l"), Add>>}
  \cup {<<[Stmt("setreg") EXCEPT !.file = "rb", !.from = "rd"], Add>>}

(* Branches the linker resolves, with words in reserve or without. *)
Reserve(op) == IF op = "BRCC" THEN <<Zero, Zero, Zero, Zero, Zero>> ELSE <<Zero, Zero, Zero, Zero>>
LinkPrograms ==
  {<<To(x, y), Add>> \o (IF r THEN <<To(z, v)>> \o Reserve(z) ELSE <<To(z, v)>>)
     \o <<LabelAt("w"), Add, To("CALL", "w"), Add, LabelAt("g"), Add>>
   : x \in {"ABS", "JUMP", "BRCC12"}, z \in {"JUMP", "CALL", "BRCC"}, y, v \in {"w", "e", "f"}, r \in BOOLEAN}

Blocks(form, file, from) ==
  {<<[Stmt("multi") EXCEPT !.insn = [Insn(form) EXCEPT !.file = file, !.from = from, !.ha = a,
                                     !.hb = b, !.hc = c, !.imm = n, !.mop = "UW"]], Add>>
   : a, b, c \in 0..2, n \in 1..2}
MultiPrograms ==
  {p \in Blocks("LDM", "rd", "rd") \cup Blocks("STM", "rd", "rd") \cup Blocks("R2R", "rd", "rd")
         \cup Blocks("R2R", "rb", "rd") : p[1].insn.hb + p[1].insn.imm <= 4}

MCPrograms == RelaxPrograms \cup SetPrograms \cup LinkPrograms \cup MultiPrograms

File(a, b, c, d) == (0 :> a) @@ (1 :> b) @@ (2 :> c) @@ (3 :> d)
MCMachines ==
  {[rd |-> File(0, x[1], x[2], 7), rb |-> File(0, 64, 130, 9), rf |-> File(FcsrDefault, 17, 34, 51),
    ra |-> File(1, 2, 3, 5), t |-> [k \in 1..3 |-> 0], jmp |-> (0 :> 0), flags |-> 0,
    excp |-> "none", mem |-> [a \in Octa |-> (a \div 3 + a) % 2], rf0_fcsr |-> 0]
   : x \in {<<0, 5>>, <<6, 6>>}}

(* Branches just out of reach: behind instructions of the same frag, over  *)
(* a set of a symbol, and to another object.                               *)
FarPrograms ==
  {<<LabelAt("l"), Add, Add, Add, To("BRCC12", "l"), Add>>,
   <<LabelAt("l"), To("ABS", "e"), To("ABS", "e"), To("BRCC", "l"), Add>>,
   <<To("JUMP", "far"), Add>>}
============================================================================
