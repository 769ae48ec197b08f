----------------------------- MODULE AtomicCell -----------------------------
(***************************************************************************)
(* What the kernel's atomic64_* operations deliver, as they are written:   *)
(* the value of the counter is fetched and taken for an address; at one    *)
(* moment the word at that address is read, decided on and written, with   *)
(* nothing in between; then the fetched value is stored to the counter.    *)
(* Fetch and store are plain accesses. An address without memory stops the *)
(* processor.                                                              *)
(***************************************************************************)
EXTENDS AtomicOps

VARIABLES
  memory,         \* the value of each word
  phase,          \* of each processor: "idle", "called", "fetched",
                  \* "effective", "done" or "stopped"
  call,           \* the operation it is in, or NoCall
  word,           \* from "fetched" on: the address it took from the counter
  result          \* from "effective" on: what the operation returns

vars == <<memory, phase, call, word, result>>

(* Operations that leave a word with value x alone.                        *)
Declines(o, x) ==
  \/ o.kind = "read"
  \/ o.kind = "cmpxchg" /\ x # o.a
  \/ o.kind = "fetch_add_unless" /\ x = o.b

Sum(o, x) == (x + o.a) % M

(* The value an operation gives a word with value x, and its result.       *)
Updated(o, x) ==
  IF Declines(o, x) THEN x
  ELSE CASE o.kind \in {"xchg", "set"} -> o.a
         [] o.kind = "cmpxchg"         -> o.b
         [] OTHER                      -> Sum(o, x)

Returned(o, x) ==
  CASE o.kind = "set"        -> 0
    [] o.kind = "add_return" -> Sum(o, x)
    [] OTHER                 -> x

Init ==
  /\ memory \in [Mapped -> Word]
  /\ phase = [c \in Cpu |-> "idle"]
  /\ call = [c \in Cpu |-> NoCall]
  /\ word = [c \in Cpu |-> 0]
  /\ result = [c \in Cpu |-> 0]

Enter(c, label) == phase' = [phase EXCEPT ![c] = label]

Call(c, o) ==
  /\ phase[c] = "idle" /\ Enter(c, "called")
  /\ call' = [call EXCEPT ![c] = o]
  /\ UNCHANGED <<memory, word, result>>

Fetch(c) ==
  /\ phase[c] = "called" /\ ~Plain(call[c]) /\ Enter(c, "fetched")
  /\ word' = [word EXCEPT ![c] = memory[call[c].v]]
  /\ UNCHANGED <<memory, call, result>>

Stop(c) ==
  /\ phase[c] = "fetched" /\ word[c] \notin Mapped /\ Enter(c, "stopped")
  /\ UNCHANGED <<memory, call, word, result>>

(* The one moment: on word x, after which the operation is in label. *)
Effect(c, x, label) ==
  /\ Enter(c, label)
  /\ memory' = [memory EXCEPT ![x] = Updated(call[c], memory[x])]
  /\ result' = [result EXCEPT ![c] = Returned(call[c], memory[x])]
  /\ UNCHANGED <<call, word>>

TakeEffect(c) ==
  \/ phase[c] = "called" /\ Plain(call[c]) /\ Effect(c, call[c].v, "done")
  \/ phase[c] = "fetched" /\ word[c] \in Mapped /\ Effect(c, word[c], "effective")

PutBack(c) ==
  /\ phase[c] = "effective" /\ Enter(c, "done")
  /\ memory' = [memory EXCEPT ![call[c].v] = word[c]]
  /\ UNCHANGED <<call, word, result>>

Return(c) ==
  /\ phase[c] = "done" /\ Enter(c, "idle")
  /\ call' = [call EXCEPT ![c] = NoCall]
  /\ word' = [word EXCEPT ![c] = 0]
  /\ result' = [result EXCEPT ![c] = 0]
  /\ UNCHANGED memory

Next ==
  \E c \in Cpu :
    (\E o \in Calls : Call(c, o)) \/ Fetch(c) \/ Stop(c) \/ TakeEffect(c) \/ PutBack(c) \/ Return(c)

Spec == Init /\ [][Next]_vars
=============================================================================
