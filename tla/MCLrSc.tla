------------------------------- MODULE MCLrSc -------------------------------
(***************************************************************************)
(* Instances of LrSc: words 0, 1 and 2, of which 0 and 1 are addresses of  *)
(* memory, and the counter at 1, so that a counter's value names the       *)
(* counter itself, another word, or no memory.                             *)
(***************************************************************************)
EXTENDS LrSc

(* Every kind of call, with arguments for which the declining ones take    *)
(* both ways, and the values are put back that an sco compares with.       *)
SomeCalls ==
  {[kind |-> "read", v |-> 1], [kind |-> "set", v |-> 1, a |-> 1],
   [kind |-> "add_return", v |-> 1, a |-> 1],
   [kind |-> "fetch_add", v |-> 1, a |-> 2],
   [kind |-> "xchg", v |-> 1, a |-> 0],
   [kind |-> "cmpxchg", v |-> 1, a |-> 0, b |-> 1],
   [kind |-> "fetch_add_unless", v |-> 1, a |-> 1, b |-> 0]}
=============================================================================
