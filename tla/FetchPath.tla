----------------------------- MODULE FetchPath -----------------------------
(***************************************************************************)
(* Instruction fetch of the five-stage core when code may lie behind the   *)
(* bus: the fetch pc, the one-entry queues for instruction and pc, the     *)
(* kill flag, the router and the bridge to the bus.  A step is one clock   *)
(* cycle.                                                                  *)
(*                                                                         *)
(* Of the instructions behind the fetch only this matters: a branch in EXE *)
(* redirects the fetch as long as it stays there, an interrupt or an       *)
(* exception kills everything at any time, an instruction in DEC may stall *)
(* while there is another ahead of it, one in MEM may miss, and a FENCE    *)
(* has what follows it fetched again, from DEC and in the cycle after.  An *)
(* instruction is identified with the address it was read from.            *)
(***************************************************************************)
EXTENDS MasterAdapter

CONSTANTS
  Last,           \* code addresses are 0..Last
  Ranges          \* the possible address ranges of the scratchpad

ASSUME FetchAssumption ==
  Last \in Nat /\ \A r \in Ranges : r \subseteq 0..Last

VARIABLES
  range,          \* the addresses of the scratchpad
  if_pc,          \* if_reg_pc
  if_buf,         \* both queues: [full, pc, word]
  if_killed,      \* if_reg_killed
  dec,            \* [valid, pc, word, fence]
  fencei1,        \* RegNext(cs_fencei): was there a FENCE in DEC in the last cycle?
  exe,            \* [valid, target]: target is None unless a taken branch
  in_mem,         \* is there an instruction in MEM?
  ahead,          \* the control path's shadows of EXE, MEM and WB
  expected        \* history: the next instruction of the program

vars == <<range, if_pc, if_buf, if_killed, dec, fencei1, exe, in_mem, ahead, expected,
          adapterVars>>

Pc == 0..Last
None == Last + 1
(* Mutant of Plus: the pc leaves the address space. *)
PlusUncut(pc) == pc + 1

Plus(pc) == (pc + 1) % (Last + 1)
NoEntry == [full |-> FALSE, pc |-> 0, word |-> 0]
Bubble == [valid |-> FALSE, pc |-> 0, word |-> 0, fence |-> FALSE]

Init ==
  /\ range \in Ranges
  /\ if_pc = 0 /\ if_buf = NoEntry /\ if_killed = FALSE
  /\ dec = Bubble /\ fencei1 = FALSE
  /\ exe = [valid |-> FALSE, target |-> None]
  /\ in_mem = FALSE
  /\ ahead = [i \in 1..3 |-> FALSE]
  /\ expected = 0
  /\ AdapterInit

-----------------------------------------------------------------------------
(* The request wires: io.imem.req. *)
if_request == [addr |-> if_pc, typ |-> 7, fcn |-> "XRD", data |-> 0]

in_range == if_pc \in range

(* Mutant of imem_req_valid: a fetch is made although the queue is full.   *)
imem_req_valid_always == TRUE

imem_req_valid == ~if_buf.full
master_req == imem_req_valid /\ ~in_range

(* The answer the router passes on, and what was read.                     *)
resp_valid(d_valid) == IF in_range THEN imem_req_valid ELSE d_valid
resp_word == IF in_range THEN if_pc ELSE bus.addr

(* The queues let an entry flow through in the cycle it arrives. *)
in_fire(d_valid) == resp_valid(d_valid) /\ ~if_buf.full
out_valid(d_valid) == resp_valid(d_valid) \/ if_buf.full
out_bits == IF if_buf.full THEN if_buf ELSE [full |-> TRUE, pc |-> if_pc, word |-> resp_word]

(* What the rest of the pipeline does to the fetch in a cycle: kill is the *)
(* target of an exception or None.                                         *)
redirects == exe.valid /\ exe.target # None
dec_kill(kill) == kill # None \/ redirects

fencei == dec.fence \/ fencei1
if_kill(kill) == dec_kill(kill) \/ fencei

(* A FENCE has the fetch repeated, but only in a cycle in which the        *)
(* pipeline moves.                                                         *)
if_pc_next(moves, kill) ==
  CASE kill # None -> kill
    [] kill = None /\ redirects -> exe.target
    [] ~dec_kill(kill) /\ fencei /\ moves -> if_pc
    [] OTHER -> Plus(if_pc)

(* No FENCE is held: it is not directly behind a CSR access nor one or two *)
(* places behind an access that misses.  One that is held loses the        *)
(* instruction behind it (README, section 4).                              *)
FenceFree(moves, kill) == fencei => moves \/ dec_kill(kill)

MayStall == IF dec.valid /\ (\E i \in 1..3 : ahead[i]) THEN BOOLEAN ELSE {FALSE}
MayMiss == IF in_mem THEN BOOLEAN ELSE {FALSE}

(* Mutant of Fetch: the kill flag is not kept for the answer to come.      *)
FetchNoFlag(moves, kill, d_valid) ==
  LET out_fire == moves /\ out_valid(d_valid)
  IN  /\ if_buf' = CASE in_fire(d_valid) /\ ~out_fire -> out_bits
                     [] if_buf.full /\ out_fire -> NoEntry
                     [] OTHER -> if_buf
      /\ if_killed' = FALSE
      /\ if_pc' = IF in_fire(d_valid) \/ if_kill(kill) THEN if_pc_next(moves, kill) ELSE if_pc

(* Mutant of Fetch: the pc moves again when a killed answer arrives.       *)
FetchMovesTwice(moves, kill, d_valid) ==
  LET out_fire == moves /\ out_valid(d_valid)
  IN  /\ if_buf' = CASE in_fire(d_valid) /\ ~out_fire -> out_bits
                     [] if_buf.full /\ out_fire -> NoEntry
                     [] OTHER -> if_buf
      /\ if_killed' = CASE if_kill(kill) /\ ~out_fire -> TRUE
                        [] if_killed /\ out_fire -> FALSE
                        [] OTHER -> if_killed
      /\ if_pc' = IF in_fire(d_valid) \/ if_kill(kill) THEN if_pc_next(moves, kill) ELSE if_pc

Fetch(moves, kill, d_valid) ==
  LET out_fire == moves /\ out_valid(d_valid)
  IN  /\ if_buf' = CASE in_fire(d_valid) /\ ~out_fire -> out_bits
                     [] if_buf.full /\ out_fire -> NoEntry
                     [] OTHER -> if_buf
      /\ if_killed' = CASE if_kill(kill) /\ ~out_fire -> TRUE
                        [] if_killed /\ out_fire -> FALSE
                        [] OTHER -> if_killed
      /\ if_pc' = IF (in_fire(d_valid) /\ ~if_killed) \/ if_kill(kill)
                  THEN if_pc_next(moves, kill) ELSE if_pc

(* A right instruction enters DEC. *)
Delivers(moves, kill, d_valid) ==
  moves /\ ~if_kill(kill) /\ ~if_killed /\ out_valid(d_valid)

Decode(moves, kill, d_valid) ==
  /\ CASE Delivers(moves, kill, d_valid) ->
            \E f \in BOOLEAN :
              dec' = [valid |-> TRUE, pc |-> out_bits.pc, word |-> out_bits.word, fence |-> f]
       [] ~Delivers(moves, kill, d_valid) /\ (moves \/ if_kill(kill) \/ if_killed) ->
            dec' = Bubble
       [] OTHER -> dec' = dec
  /\ fencei1' = dec.fence

(* EXE, MEM and the shadows; what a new instruction in EXE will do is not  *)
(* known.                                                                  *)
Rest(stall, miss, kill) ==
  LET enters == ~stall /\ ~miss /\ ~dec_kill(kill) /\ dec.valid
  IN  /\ CASE kill # None \/ (~miss /\ ~enters) -> exe' = [valid |-> FALSE, target |-> None]
           [] kill = None /\ enters ->
                exe' \in [valid : {TRUE}, target : IF dec.fence THEN {None} ELSE Pc \cup {None}]
           [] OTHER -> exe' = exe
      /\ in_mem' = IF kill # None THEN FALSE ELSE IF miss THEN in_mem ELSE exe.valid
      /\ ahead' = IF miss THEN ahead ELSE <<enters, ahead[1], ahead[2]>>

Cycle(stall, miss, kill, a_ready, d_valid) ==
  LET moves == ~stall /\ ~miss
  IN  /\ Fetch(moves, kill, d_valid)
      /\ Decode(moves, kill, d_valid)
      /\ Rest(stall, miss, kill)
      /\ Adapter(master_req, if_request, a_ready, d_valid)
      /\ expected' = CASE kill # None -> kill
                       [] kill = None /\ redirects -> exe.target
                       [] Delivers(moves, kill, d_valid) -> Plus(expected)
                       [] OTHER -> expected
      /\ UNCHANGED range

Next ==
  \E stall \in MayStall, miss \in MayMiss, kill \in Pc \cup {None},
     a_ready \in BOOLEAN, d_valid \in MayAnswer :
       /\ FenceFree(~stall /\ ~miss, kill)
       /\ Cycle(stall, miss, kill, a_ready, d_valid)

Spec == Init /\ [][Next]_vars

-----------------------------------------------------------------------------
(***************************************************************************)
(* Properties                                                              *)
(***************************************************************************)

(* Type invariant. *)
TypeOK ==
  /\ if_pc \in Pc /\ expected \in Pc /\ if_killed \in BOOLEAN
  /\ if_buf \in [full : BOOLEAN, pc : Pc, word : Pc]
  /\ dec \in [valid : BOOLEAN, pc : Pc, word : Pc, fence : BOOLEAN] /\ fencei1 \in BOOLEAN
  /\ exe \in [valid : BOOLEAN, target : Pc \cup {None}]
  /\ in_mem \in BOOLEAN /\ ahead \in [1..3 -> BOOLEAN]
  /\ state \in {"s_ready", "s_active", "s_inflight"}

(* The instruction that enters DEC with a pc is the one stored there: no   *)
(* answer to a fetch that was killed is taken for a later fetch.           *)
RightInstruction == dec.valid => dec.word = dec.pc

(* What waits in the queue, or is being fetched, is the next instruction   *)
(* of the program, and after a kill the fetch pc already is: nothing is    *)
(* skipped or fetched twice, however kills, stalls, FENCEs and answers     *)
(* interleave.                                                             *)
FetchFollowsProgram ==
  expected = IF if_killed \/ ~if_buf.full THEN if_pc ELSE if_buf.pc

(* The assertion "Instruction backlog" (dpath.scala): no answer arrives    *)
(* while the queue is full.                                                *)
NoBacklog ==
  \A d_valid \in MayAnswer : ~(resp_valid(d_valid) /\ if_buf.full)
=============================================================================
