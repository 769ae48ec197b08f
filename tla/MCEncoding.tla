----------------------------- MODULE MCEncoding -----------------------------
(* Lines made from every row of the opcode table: registers at the ends of *)
(* their file and of another file, immediates at and past the ends of      *)
(* their range, symbols a few instructions away.                           *)
EXTENDS Encoding

LOCAL Wrong == [rd |-> "rb", rb |-> "rd", rf |-> "rd", ra |-> "rb", cp |-> "rd", cr |-> "rd"]

LOCAL Edges(kind) == {Imm(v) : v \in UNION {{e - 1, e} : e \in
                        IF kind \in Unsigned THEN {0, 2^(Width[kind] - 1), 2^Width[kind]}
                        ELSE {-(2^(Width[kind] - 1)), 0, 2^(Width[kind] - 1), 2^Width[kind]}}}

LOCAL Operands(row, kind) ==
  CASE kind \in RegFiles ->
         {Reg(kind, n) : n \in IF row.n = 4 THEN {15, 63} ELSE {0, 15, 63}} \cup {Reg(Wrong[kind], 1)}
    [] kind = "ww" -> {Ww(0), Ww(3)}
    [] kind \in DOMAIN Width ->
         Edges(kind) \cup IF IsOffset(row, kind) THEN {Sym(-2), Sym(0), Sym(3)} ELSE {}

LOCAL FromRow(row) ==
  LET s == Slots(row)
      all(i) == IF i <= Len(s) THEN Operands(row, s[i].kind) ELSE {Imm(0)}
  IN  {Text(row.name, SubSeq(<<a, b, c, d>>, 1, Len(s))) :
         a \in all(1), b \in all(2), c \in all(3), d \in all(4)}

LOCAL Sets ==
  UNION {{Text(name, <<Reg(PseudoSet[name], 5), e>>) :
           e \in {Reg(f, 7) : f \in DOMAIN R2R[PseudoSet[name]]} \cup {Sym(2)}} : name \in {"setrd", "setrb"}}

LOCAL Shifts == {Text("ldmo", <<Reg("rd", 1), Reg("rb", 2), Shl(Reg("rd", 3), 4)>>), Text("ret", <<>>),
                  Text("rd2rd", <<Reg("rd", 1), Reg("rd", 2), Shl(Reg("rd", 3), 4)>>),
                  Text("ra2rd", <<Reg("rd", 1), Reg("ra", 2), Shl(Reg("ra", 3), 4)>>)}

MCTexts == UNION {FromRow(row) : row \in ToSet(dadao_opcodes)} \cup Sets \cup Shifts
============================================================================
