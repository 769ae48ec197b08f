--------------------------- MODULE MCQemuMachine ---------------------------
(***************************************************************************)
(* QemuMachine on four registers of each file and bytes of one bit: octas  *)
(* have 8 bits, and the memory is an octa of addresses, wrapping around.   *)
(* Every form of instruction meets every way its operands can coincide.    *)
(***************************************************************************)
EXTENDS QemuMachine, TLC

R == 0..2

Blank == [form |-> "none", ha |-> 0, hb |-> 0, hc |-> 0, hd |-> 0, imm |-> 0, ww |-> 0,
          file |-> "rd", from |-> "rd", mop |-> "UQ", cond |-> "EQ", alu |-> "add", sign |-> "s"]

RRRR(blank) == {[blank EXCEPT !.ha = a, !.hb = b, !.hc = c, !.hd = d] : a, b, c, d \in R}
ORRR(blank) == {[blank EXCEPT !.hb = b, !.hc = c, !.hd = d] : b, c, d \in R}
Block(blank) == {[blank EXCEPT !.ha = a, !.hb = b, !.hc = c, !.imm = n]
                 : a \in 0..3, b, c \in {1, 2}, n \in 1..3}
Move(blank) == {[blank EXCEPT !.hb = b, !.hc = c, !.imm = n] : b, c \in 0..3, n \in 1..3}
RWII(blank) == {[blank EXCEPT !.ha = a, !.ww = w, !.imm = n] : a \in {0, 1}, w \in 0..3, n \in 0..3}
Imm(blank, imms) == {[blank EXCEPT !.ha = a, !.hb = b, !.hc = b, !.imm = n] : a, b \in R, n \in imms}
As(form) == [Blank EXCEPT !.form = form]

MemInsns ==
  UNION ({Imm([As("LD") EXCEPT !.file = f[1], !.mop = f[2]], {-1}) : f \in LdForms}
    \cup {Imm([As("ST") EXCEPT !.file = f[1], !.mop = f[2]], {1}) : f \in StForms}
    \cup {Block([As("LDM") EXCEPT !.file = f[1], !.mop = f[2]]) : f \in {<<"rd", "SW">>, <<"rb", "UQ">>, <<"ra", "UQ">>, <<"rf", "UL">>}}
    \cup {Block([As("STM") EXCEPT !.file = f[1], !.mop = f[2]]) : f \in {<<"rd", "UB">>, <<"rb", "UQ">>, <<"ra", "UQ">>}})

MoveInsns ==
  UNION ({Move([As("R2R") EXCEPT !.from = f[1], !.file = f[2]]) : f \in R2RForms}
    \cup {RRRR([As("CSET1") EXCEPT !.cond = c]) : c \in {"LT", "EQ", "GT"}}
    \cup {ORRR([As("CSET1") EXCEPT !.cond = c, !.file = "rf", !.ha = 1]) : c \in {"LT", "EQ"}}
    \cup {RRRR([As("CSET2") EXCEPT !.cond = c]) : c \in {"EQ", "NE"}}
    \cup {ORRR([As("FCSET") EXCEPT !.cond = c]) : c \in {"EQ", "NE"}}
    \cup {RWII([As(form) EXCEPT !.file = f]) : form \in {"SETZW", "ORW", "ANDNW"}, f \in {"rd", "rb"}}
    \cup {RWII(As(form)) : form \in {"SETOW", "SETW"}})

AluInsns ==
  UNION ({RRRR([As("ALG1") EXCEPT !.alu = o]) : o \in {"add", "sub"}}
    \cup {RRRR([As(form) EXCEPT !.sign = g]) : form \in {"MUL", "DIV"}, g \in {"s", "u"}}
    \cup {ORRR([As("ALG1rb") EXCEPT !.alu = o]) : o \in {"add", "sub"}}
    \cup {Imm([As("ADDI") EXCEPT !.file = f], {-1, 3}) : f \in {"rd", "rb"}}
    \cup {Imm([As("CMPi") EXCEPT !.cond = "GT"], {-1, 2}), Imm([As("CMPi") EXCEPT !.cond = "GTU"], {0, 200})}
    \cup {ORRR([As("CMPr") EXCEPT !.cond = f[1], !.file = f[2]]) : f \in {<<"GT", "rd">>, <<"GTU", "rd">>, <<"GTU", "rb">>}}
    \cup {Imm(As("ADRP"), {-2, 1})}
    \cup {ORRR([As("LOGICr") EXCEPT !.alu = o]) : o \in {"and", "or", "xor", "shl", "shr", "sar"}}
    \cup {ORRR(As("XNOR")), Imm(As("ANDI"), {5})}
    \cup {ORRR([As("EXTr") EXCEPT !.alu = o]) : o \in {"shr", "sar"}}
    \cup {ORRR([As(form) EXCEPT !.alu = o, !.imm = k]) : form \in {"EXTi", "LOGICi"}, o \in {"shr", "sar"}, k \in {0, 3, 7}})

JumpInsns ==
  UNION ({Imm([As("BR2") EXCEPT !.cond = c], {-1, 3}) : c \in {"EQ", "NE"}}
    \cup {Imm([As("BR1") EXCEPT !.cond = c], {-1, 3}) : c \in {"LT", "GE", "EQ", "NE", "GT", "LE"}}
    \cup {Imm(As("JUMPi"), {-1, 3}), Imm(As("JUMPr"), {-1, 3}), {As("SWYM"), As("UNIMP"), As("TRAP")}})

FpInsns ==
  UNION ({Move([As("FCVT") EXCEPT !.from = f[1], !.file = f[2], !.alu = f[3]]) : f \in FcvtForms}
    \cup {ORRR([As("FALG3") EXCEPT !.alu = o]) : o \in {"alg", "sgn"}}
    \cup {ORRR([As("FALG4") EXCEPT !.ha = 1]), ORRR([As("FALG2") EXCEPT !.imm = 2]), {As("FALG2")}, ORRR(As("FCMP"))})

MCInsns == MemInsns \cup MoveInsns \cup AluInsns \cup JumpInsns \cup FpInsns

(* rd0 may hold the result of a comparison, rf0 anything a load left. *)
File(a, b, c, d) == (0 :> a) @@ (1 :> b) @@ (2 :> c) @@ (3 :> d)
MCStarts ==
  {[rd |-> File(p[1], p[2], p[3], 96), rb |-> File(20, 64, 130, 9),
    rf |-> File(FcsrDefault + p[4], 17, 34, 51), ra |-> File(1, 2, 3, 5)]
   : p \in {<<255, 1, 2, RdMode>>, <<0, 255, 128, 1>>, <<1, 127, 254, RdMode>>,
            <<255, 5, 5, 1>>, <<0, 0, 7, 3>>}}
MCMem == [a \in Octa |-> (a \div 3 + a) % 2]
============================================================================
