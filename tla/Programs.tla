------------------------------ MODULE Programs ------------------------------
(***************************************************************************)
(* The programs the two compilers are given, and what they mean: a caller  *)
(* and a callee, which are no part of the repository.                      *)
(*                                                                         *)
(* A program p is a pair of functions p.caller and p.callee, each a record *)
(* of the compiler it is compiled by, the sizes of its locals, the size of *)
(* the block it allocates while it runs (dyn), whether a local wants more  *)
(* alignment than the stack has (realign), and the registers its body      *)
(* uses. The callee is declared with p.fixed parameters; p.vals are the    *)
(* values the call passes, and those beyond p.fixed are variable           *)
(* arguments. Argument p.agg (0: none) is a structure passed by value. The *)
(* call names the callee (p.direct), whose name may be printf. The         *)
(* callee's body is one of                                                 *)
(*   <<"expr", node>>             the value of an expression               *)
(*   <<"br", cc, l, r, new, m>>   1 or 2 according to a comparison; LLVM    *)
(*                                lays the blocks out in the order new     *)
(*   <<"outer">>                  the caller's first local, found through  *)
(*                                the frame address one call up            *)
(*   <<"agg">>                    the structure; then it is overwritten     *)
(*   <<"vararg", j>>              the j-th variable argument               *)
(*   <<"ldst", w, address, fl, at>>  the third argument stored and loaded   *)
(*                                back, w bytes, fl: in a floating         *)
(*                                register, where the address is byte at   *)
(*                                of the caller's second local             *)
(* and the caller returns its result plus its own first local, and after   *)
(* "ldst" what it finds at byte at.                                        *)
(*                                                                         *)
(* An expression is a tuple <<opcode, operands>>: <<"arg", n>>,            *)
(* <<"const", c>>, <<"load", address>>, <<"setcc", l, r, cc>>,             *)
(* <<"zext", i1>>, <<"sext", i1>>, <<"select", i1, t, f>>, <<op, l, r>>,   *)
(* and <<op, lo, hi, n>> for one half of a shifted double word.            *)
(***************************************************************************)
EXTENDS CodeMachine, SequencesExt

CONSTANTS Mark, Junk     \* what the functions write

Const(c) == <<"const", Cut(c)>>
IsConst(n) == n[1] = "const"
Fi(k) == <<"fi", k>>                     \* the address of the k-th local
Variadic(p) == Len(p.vals) > p.fixed
IsLdSt(p) == p.body[1] = "ldst"

Compares(cc, x, y) ==
    LET s == Signed(x)  t == Signed(y) IN
    CASE cc = "EQ" -> x = y [] cc = "NE" -> x # y
      [] cc = "LT" -> s < t [] cc = "LE" -> s <= t [] cc = "GT" -> s > t [] cc = "GE" -> s >= t
      [] cc = "ULT" -> x < y [] cc = "ULE" -> x <= y [] cc = "UGT" -> x > y [] cc = "UGE" -> x >= y

(* A double word shifted right by a. The double word itself would not fit  *)
(* a number of the model checker.                                          *)
Shifted(lo, hi, a) ==
    IF a >= XLEN THEN <<hi \div 2^(a - XLEN), 0>>
    ELSE <<(lo \div 2^a) + (hi % 2^a) * 2^(XLEN - a), hi \div 2^a>>

(* The value of an expression, given those of the arguments. *)
RECURSIVE Meaning(_, _)
Meaning(n, vals) ==
    LET Of(m) == Meaning(m, vals)
        x == Of(n[2])  y == Of(n[3])
        s == Signed(x)  t == Signed(y)
    IN CASE n[1] = "arg"    -> vals[n[2]]
         [] n[1] = "const"  -> n[2]
         [] n[1] = "setcc"  -> IF Compares(n[4], x, y) THEN 1 ELSE 0
         [] n[1] = "zext"   -> x
         [] n[1] = "sext"   -> Cut(-x)
         [] n[1] = "select" -> IF x # 0 THEN y ELSE Of(n[4])
         [] n[1] = "add"    -> Cut(x + y)
         [] n[1] = "sub"    -> Cut(x - y)
         [] n[1] = "and"    -> x & y
         [] n[1] = "or"     -> x | y
         [] n[1] = "xor"    -> x ^^ y
         [] n[1] = "mul"    -> Cut(s * t)
         [] n[1] = "udiv"   -> x \div y
         [] n[1] = "urem"   -> x % y
         [] n[1] = "sdiv"   -> Cut(Quot(s, t))
         [] n[1] = "srem"   -> Cut(Rem(s, t))
         [] n[1] = "srl_lo" -> Shifted(x, y, Of(n[4]))[1]
         [] n[1] = "srl_hi" -> Shifted(x, y, Of(n[4]))[2]

(* What the program returns. *)
Result(p) ==
    LET b == p.body
        callee == CASE b[1] = "expr"   -> Meaning(b[2], p.vals)
                    [] b[1] = "br"     -> IF Compares(b[2], Meaning(b[3], p.vals),
                                                      Meaning(b[4], p.vals)) THEN 1 ELSE 2
                    [] b[1] \in {"agg", "outer"} -> Mark
                    [] b[1] = "vararg" -> p.vals[p.fixed + b[2]]
                    [] b[1] = "ldst"   -> 2 * Low(b[2], p.vals[3])
    IN Cut(callee + Mark)

----------------------------------------------------------------------------
(* The parts of the functions that are the same whoever compiles them,     *)
(* given how a value is stored to a local.                                 *)

Most(x, y) == IF x > y THEN x ELSE y
AlignTo(x, a) == ((x + a - 1) \div a) * a

(* Room for the first k of a sequence of objects. *)
RECURSIVE SizeOf(_, _)
SizeOf(objects, k) == IF k = 0 THEN 0 ELSE AlignTo(objects[k], 8) + SizeOf(objects, k - 1)

(* The locals of function f: its own, the copy of a structure it passes by *)
(* value, the va_list it reads variable arguments with.                    *)
Objects(p, f) ==
    p[f].locals \o (IF f = "caller" /\ p.agg # 0 THEN <<8>> ELSE <<>>)
                \o (IF f = "callee" /\ p.body[1] = "vararg" THEN <<8>> ELSE <<>>)
ExtraObject(p, f) == Len(p[f].locals) + 1

(* What the call passes as argument i: the address of the copy of the      *)
(* structure, of the caller's second local, or a value.                    *)
ArgNode(p, i) == IF i = p.agg THEN Fi(ExtraObject(p, "caller"))
                 ELSE IF IsLdSt(p) /\ i = 1 THEN Fi(2)
                 ELSE Const(p.vals[i])

(* The caller's locals before the call; its second local holds offsets     *)
(* into itself.                                                            *)
Prepared(p, store(_, _, _)) ==
    <<Set(V(90), Mark)>> \o store(V(90), 1, 0)
      \o (IF ~IsLdSt(p) THEN <<>>
          ELSE FlattenSeq([j \in 1 .. 3 |->
                   <<Set(V(90), 8 * (j % 3))>> \o store(V(90), 2, 8 * (j - 1))]))

(* What the caller returns, given the register of the call's result and    *)
(* how it loads from a local.                                              *)
Returned(p, result, load(_, _, _, _)) ==
    load(8, V(91), 1, 0) \o <<Alu("add", RV, result, V(91))>>
      \o (IF ~IsLdSt(p) THEN <<>>
          ELSE load(p.body[2], V(91), 2, p.body[5]) \o <<Alu("add", RV, RV, V(91))>>)

(* What stands for the rest of a body: every register it uses and both     *)
(* ends of every local are overwritten.                                    *)
ClobberRegs(fn) == LET uses == SetToSeq(fn.uses) IN
                   [k \in DOMAIN uses |-> Set(uses[k], Junk)]
ClobberLocals(fn, store(_, _, _)) ==
    IF fn.locals = <<>> THEN <<>>
    ELSE <<Set(V(90), Junk)>>
           \o FlattenSeq([k \in DOMAIN fn.locals |->
                  store(V(90), k, 0) \o store(V(90), k, fn.locals[k] - 8)])
============================================================================
