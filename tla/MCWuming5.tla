----------------------------- MODULE MCWuming5 -----------------------------
(***************************************************************************)
(* Programs for Wuming5.  Each set of programs is every sequence of End    *)
(* instructions over a small instruction set, padded with SWYM, that       *)
(* starts with one that has an effect when all registers and words are 0.  *)
(***************************************************************************)
EXTENDS Wuming5

SWYM == Inst("SWYM", 0, 0, 0, 0, 0)

Pad(p) == [a \in Pc |-> IF a < End THEN p[a] ELSE SWYM]

Over(starts, insts) == {Pad(p) : p \in {q \in [0..(End - 1) -> insts] : q[0].op \in starts}}

(* Data hazards: every kind of operand and of destination, loads and       *)
(* stores that may miss, branches that depend on a result in flight.  The  *)
(* upper half of ADDrd goes to rd2, which only ALU operands read.          *)
HazardInsts ==
  { Inst("ADDIrd", 1, 1, 0, 0, 1), Inst("ADDIrd", 1, 2, 0, 0, 3),
    Inst("ADDrd", 2, 1, 1, 2, 0), Inst("RD2RB", 0, 1, 1, 0, 0),
    Inst("RB2RD", 0, 1, 1, 0, 0),
    Inst("LDOrd", 1, 1, 0, 0, 0), Inst("STOrd", 1, 1, 0, 0, 0),
    Inst("CSZrd", 1, 1, 2, 1, 0), Inst("BRZ", 1, 0, 0, 0, 2),
    Inst("BRNE", 1, 0, 0, 0, 2) }
HazardPrograms == Over({"ADDIrd", "LDOrd", "STOrd"}, HazardInsts)

(* Control transfers: calls and returns in any order, computed jumps,      *)
(* fences, with memory that always answers at once.                        *)
CallInsts ==
  { Inst("CALLi", 0, 0, 0, 0, 2), Inst("CALLr", 1, 1, 0, 0, 1),
    Inst("RET", 1, 0, 0, 0, 1), Inst("JUMPi", 0, 0, 0, 0, -1),
    Inst("JUMPr", 1, 1, 0, 0, 2), Inst("ADDIrd", 1, 1, 0, 0, 1),
    Inst("ADDIrb", 1, 1, 0, 0, 1), Inst("BREQ", 1, 2, 0, 0, 2),
    Inst("FENCE", 0, 0, 0, 0, 0) }
CallPrograms == Over({"CALLi", "RET", "ADDIrd", "ADDIrb"}, CallInsts)

(* Exceptions: illegal instructions, misaligned accesses (address 3),      *)
(* TRAP, ESCAPE and CSR accesses.                                          *)
TrapInsts ==
  { Inst("ILL", 0, 0, 0, 0, 0), Inst("TRAP", 0, 0, 0, 0, 0),
    Inst("ESCAPE", 0, 0, 0, 0, 0), Inst("CPRD", 0, 0, 0, 1, 0),
    Inst("CPWR", 0, 0, 0, 1, 0), Inst("ADDIrd", 1, 1, 0, 0, 1),
    Inst("LDOrb", 1, 1, 0, 0, 3), Inst("STOrb", 1, 1, 0, 0, 2),
    Inst("BRNZ", 1, 0, 0, 0, 2) }
TrapPrograms == Over({"ADDIrd"}, TrapInsts)

(* Calls, fences, misses and exceptions in one program.                    *)
MixedInsts ==
  { Inst("CALLi", 0, 0, 0, 0, 2), Inst("RET", 1, 0, 0, 0, 1),
    Inst("FENCE", 0, 0, 0, 0, 0), Inst("LDOrd", 1, 1, 0, 0, 3),
    Inst("STOrd", 1, 0, 0, 0, 2), Inst("ILL", 0, 0, 0, 0, 0),
    Inst("CPRD", 0, 0, 0, 1, 0), Inst("ADDIrb", 1, 1, 0, 0, 1) }
MixedPrograms == Over({"CALLi", "RET", "STOrd", "ADDIrb"}, MixedInsts)

(* What the core runs like the sequential machine. *)
AllPrograms ==
  {p \in HazardPrograms \cup CallPrograms \cup TrapPrograms \cup MixedPrograms : Regular(p)}
=============================================================================
