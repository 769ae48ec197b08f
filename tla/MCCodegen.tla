----------------------------- MODULE MCCodegen ------------------------------
(***************************************************************************)
(* The programs compiled, with two bits to the byte: words of 16 bits.     *)
(*                                                                         *)
(* Left out is what is known not to work (README, section 6): calls across *)
(* the compilers with variable or more than sixteen arguments, more than   *)
(* sixteen arguments under GCC, frames of more than 2 KB under LLVM whose  *)
(* locals no instruction names, realigned frames with allocated blocks,    *)
(* pointer registers from rb32 on in LLVM's functions, GT and LE against   *)
(* 0xFFFFFFFF, double shifts by more than a word.                          *)
(***************************************************************************)
EXTENDS Codegen

rd(n) == <<"rd", n>>
MCKept == {rd(32), rd(40), <<"rb", 33>>, <<"rf", 34>>}

Edge == {0, 1, 2, Cut(-1), HalfOnes, 2^(XLEN - 1), 2^(XLEN - 1) - 1}
Few == {0, 1, Cut(-1), 2^(XLEN - 1)}

Fn(by, locals, dyn, realign, uses) ==
    [by |-> by, locals |-> locals, dyn |-> dyn, realign |-> realign, uses |-> uses]
Plain(by) == Fn(by, <<8>>, 0, FALSE, {})
Program(caller, callee, fixed, vals, agg, direct, printf, body) ==
    [caller |-> caller, callee |-> callee, fixed |-> fixed, vals |-> vals, agg |-> agg,
     direct |-> direct, printf |-> printf, body |-> body]
Simple(caller, callee, vals, body) ==
    Program(caller, callee, Len(vals), vals, 0, TRUE, FALSE, body)

----------------------------------------------------------------------------
(* Expressions, compiled by LLVM. *)

X == <<"arg", 1>>
Y == <<"arg", 2>>
Codes == {"EQ", "NE", "LT", "LE", "GT", "GE", "ULT", "ULE", "UGT", "UGE"}

Operations == {<<op, X, Y>> : op \in {"add", "sub", "and", "or", "xor", "mul"}}
Comparisons == {<<"setcc", X, Y, cc>> : cc \in Codes}
                 \union {<<"setcc", X, Const(c), cc>> : c \in {0, 1, -1}, cc \in Codes}
Conditional(c) ==
    {<<"zext", c>>, <<"sext", c>>}
      \union {<<"select", c, Const(k), Y>> : k \in {0, -1}}
      \union {<<"select", c, Y, Const(k)>> : k \in {0, -1}}
Combinations ==
    UNION { {<<op, X, n>>, <<op, n, X>>} :
            op \in {"add", "sub", "and", "or", "xor"},
            n \in UNION {Conditional(SetCC(X, Y, cc)) : cc \in {"EQ", "LT", "UGE"}} }

Expression(n, vals) == Simple(Plain("llvm"), Plain("llvm"), vals, <<"expr", n>>)
Divisible(x, y) == y # 0 /\ ~(Signed(x) = -(2^(XLEN - 1)) /\ Signed(y) = -1)

Expressions ==
    {Expression(n, <<x, y>>) : n \in Operations \union Comparisons, x \in Edge, y \in Edge}
      \union {Expression(n, <<x, y>>) : n \in Combinations, x \in {1, Cut(-1)}, y \in {1, 5}}
      \union {Expression(<<op, X, Y>>, v) : op \in {"sdiv", "srem", "udiv", "urem"},
                 v \in {<<x, y>> : x \in Edge, y \in Edge} \intersect
                       {<<x, y>> \in Edge \X Edge : Divisible(x, y)}}
      \union {Expression(<<op, X, Y, Const(a)>>, <<x, y>>) :
                 op \in {"srl_lo", "srl_hi"}, a \in {0, 1, XLEN - 1, XLEN}, x \in Few, y \in Few}
      \union {Expression(<<op, X, Y, Const(1)>>, <<1, 1>>) : op \in {"shl_lo", "shl_hi"}}

(* Branches, and the orders LLVM may lay the four blocks out in. *)
Orders == {<<1>> \o q : q \in {<<2,3,4>>, <<2,4,3>>, <<3,2,4>>, <<3,4,2>>, <<4,2,3>>, <<4,3,2>>}}
BranchPrograms ==
    {Simple(Plain(by), Plain(by), <<x, y>>, <<"br", cc, X, Y, <<1, 2, 3, 4>>, TRUE>>) :
        by \in {"llvm", "gcc"}, cc \in Codes, x \in Few, y \in Few}
      \union {Simple(Plain("llvm"), Plain("llvm"), <<x, 0>>, <<"br", cc, X, Const(0), o, m>>) :
                 cc \in {"LT", "GE", "EQ"}, x \in Few, o \in Orders, m \in BOOLEAN}

----------------------------------------------------------------------------
(* Calls and frames. *)

LlvmFns == {f \in {Fn("llvm", l, d, r, u) : l \in {<<8>>, <<8, 24>>}, d \in {0, 16}, r \in BOOLEAN,
                                            u \in {{}, {rd(20), rd(32), rd(40)}}} :
            ~(f.realign /\ f.dyn > 0)}
GccFns == {Fn("gcc", l, d, FALSE, u) : l \in {<<8>>, <<8, 24, 4096>>}, d \in {0, 16},
                                       u \in {{}, {rd(20), rd(32), <<"rb", 33>>, <<"rf", 34>>}}}
Leaves == {Fn("gcc", <<>>, 0, FALSE, {rd(32)}), Fn("llvm", <<>>, 0, FALSE, {rd(32)}),
           Fn("llvm", <<8, 4096>>, 0, FALSE, {})}
Pairings == (LlvmFns \union GccFns) \X (LlvmFns \union GccFns \union Leaves)

Numbers(n) == [i \in 1 .. n |-> i]
Called(caller, callee, n) == Simple(caller, callee, Numbers(n), <<"expr", <<"arg", n>> >>)
VarArgs(caller, callee, fixed, n, j, printf) ==
    Program(caller, callee, fixed, Numbers(n), 0, TRUE, printf, <<"vararg", j>>)
Structure(caller, callee) ==
    Program(caller, callee, 2, <<0, 2>>, 1, FALSE, FALSE, <<"agg">>)

Fancy(by) == IF by = "llvm" THEN Fn(by, <<8, 24>>, 16, FALSE, {rd(32)})
                            ELSE Fn(by, <<8, 24>>, 16, FALSE, {rd(32), <<"rb", 33>>})
Both == {"llvm", "gcc"}

CallPrograms ==
    {Called(q[1], q[2], 2) : q \in Pairings}
      \union {Called(Fancy(a), Fancy(b), 16) : a \in Both, b \in Both}
      \union {Called(q[1], q[2], 18) : q \in LlvmFns \X LlvmFns}
      \union {Structure(a, b) : a \in {Plain("llvm"), Plain("gcc"), Fancy("llvm"), Fancy("gcc")},
                                b \in {Plain("llvm"), Plain("gcc"), Fancy("llvm"), Fancy("gcc")}}
      \union {VarArgs(a, b, fixed, fixed + 2, j, FALSE) :
                 a \in LlvmFns, b \in LlvmFns, fixed \in {1, 16, 17}, j \in {1, 2}}
      \union {VarArgs(a, b, fixed, fixed + 2, j, FALSE) :
                 a \in GccFns, b \in GccFns, fixed \in {1, 14}, j \in {1, 2}}
      \union {VarArgs(Plain("llvm"), b, 1, 3, j, TRUE) : b \in GccFns, j \in {1, 2}}
      \union {Simple(Plain("llvm"), Fancy("llvm"), <<1>>, <<"outer">>),
              Simple(Fancy("llvm"), Fancy("llvm"), <<1>>, <<"outer">>)}

----------------------------------------------------------------------------
(* Addresses: the pointer is argument 1 and the index, 8, argument 2. The  *)
(* pointer's octas hold 8, 16 and 0.                                       *)

PTR == Reg(<<"rb", 8>>)
IDX == Reg(<<"rd", 9>>)
GccAddresses ==
    { <<PTR, 0>>, <<Plus(PTR, CInt(8)), 8>>, <<Plus(PTR, IDX), 8>>, <<Plus(IDX, PTR), 8>>,
      <<Plus(Plus(PTR, CInt(8)), IDX), 16>>,
      <<Plus(PTR, Mem(Plus(PTR, CInt(8)))), 16>>, <<Plus(PTR, Mem(Plus(PTR, IDX))), 16>>,
      <<Plus(PTR, Mem(Plus(IDX, PTR))), 16>>, <<Plus(PTR, Mem(PTR)), 8>>,
      <<Plus(Mem(Plus(PTR, CInt(8))), PTR), 16>>,
      <<Plus(PTR, Mem(Plus(PTR, Mem(Plus(PTR, CInt(16)))))), 8>> }
LlvmAddresses == { <<X, 0>>, <<<<"add", X, Const(8)>>, 8>>, <<<<"add", X, Y>>, 8>> }

Holder(by) == Fn(by, <<8, 24>>, 0, FALSE, {})
Access2(callee, a, w, fl, v) ==
    Simple(Holder(callee), Plain(callee), <<0, 8, v>>, <<"ldst", w, a[1], fl, a[2]>>)
AddressPrograms ==
    {Access2("gcc", a, w, FALSE, v) : a \in GccAddresses, w \in {1, 2, 4, 8}, v \in {5, Cut(-1)}}
      \union {Access2("gcc", a, w, TRUE, v) : a \in GccAddresses, w \in {4, 8}, v \in {5, Cut(-1)}}
      \union {Access2("llvm", a, w, FALSE, v) :
                 a \in LlvmAddresses, w \in {1, 2, 4, 8}, v \in {5, Cut(-1)}}

MCProgs == Expressions \union BranchPrograms \union CallPrograms \union AddressPrograms
============================================================================
