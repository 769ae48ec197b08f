----------------------------- MODULE CallStack -----------------------------
(***************************************************************************)
(* What the return-address stack (RAS) of a simrisc processor promises to  *)
(* the program: an unbounded stack of return addresses.  CALL pushes, RET  *)
(* pops and jumps to what it popped.  The processor may give up on a CALL  *)
(* (no room left for the stack), never on a RET that has a matching CALL.  *)
(* A RET without one stops the program or leaves it running "wild".        *)
(***************************************************************************)
EXTENDS Naturals, Sequences

CONSTANT Addr            \* the return addresses a CALL can push

VARIABLES
  stack,                 \* outstanding return addresses, oldest first
  target,                \* where the last RET went
  status                 \* "run", "stopped" or "wild"

vars == <<stack, target, status>>

Init ==
  /\ stack = << >>
  /\ target = 0
  /\ status = "run"

Call(a) ==
  /\ status = "run"
  /\ stack' = Append(stack, a)
  /\ UNCHANGED <<target, status>>

CallFails ==
  /\ status = "run"
  /\ status' = "stopped"
  /\ UNCHANGED <<stack, target>>

Return ==
  /\ status = "run"
  /\ stack # << >>
  /\ target' = stack[Len(stack)]
  /\ stack' = SubSeq(stack, 1, Len(stack) - 1)
  /\ UNCHANGED status

(* RET with no CALL outstanding: nothing sensible can be promised. *)
Underflow ==
  /\ status = "run"
  /\ stack = << >>
  /\ \/ status' = "stopped" /\ UNCHANGED target
     \/ status' = "wild" /\ target' \in Addr \cup {0}
  /\ UNCHANGED stack

Next ==
  \/ \E a \in Addr : Call(a)
  \/ CallFails
  \/ Return
  \/ Underflow

Spec == Init /\ [][Next]_vars
=============================================================================
