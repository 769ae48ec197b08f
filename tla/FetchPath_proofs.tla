-------------------------- MODULE FetchPath_proofs --------------------------
(***************************************************************************)
(* Proofs about FetchPath, for any amount of code, when all of it lies on  *)
(* the same side of the router: behind the bus or in the scratchpad.       *)
(***************************************************************************)
EXTENDS FetchPath, TLAPS

Uniform == range = {} \/ range = Pc

(* The bridge: a message is outstanding exactly in s_inflight, and it is   *)
(* the one the request register holds.                                     *)
BridgeInv ==
  /\ bus # NoMessage <=> state = "s_inflight"
  /\ state = "s_inflight" => bus.addr = req_reg.addr
  /\ req_reg.addr \in Pc

(* The queue is empty while a fetch is outstanding, so the one kill flag   *)
(* can only mean either the fetch or the entry in the queue; a fetch that  *)
(* is not to be killed is for the fetch pc.                                *)
OneFetch ==
  /\ state # "s_ready" => ~if_buf.full
  /\ state # "s_ready" /\ ~if_killed => req_reg.addr = if_pc
  /\ range = Pc => state = "s_ready"

(* An entry that waits in the queue is right, and the fetch pc has moved   *)
(* on by one.                                                              *)
QueueRight ==
  if_buf.full /\ ~if_killed => if_buf.word = if_buf.pc /\ if_pc = Plus(if_buf.pc)

(* A FENCE in DEC has emptied the queue, and in the cycle after it what    *)
(* the queue may hold was killed: the fetch pc is what follows the FENCE.  *)
FenceInv ==
  /\ dec.fence => ~if_buf.full
  /\ fencei1 => if_killed \/ ~if_buf.full

IInv ==
  TypeOK /\ Uniform /\ BridgeInv /\ OneFetch /\ QueueRight /\ RightInstruction
  /\ FetchFollowsProgram /\ FenceInv

-----------------------------------------------------------------------------
(* The next fetch address is a code address.                               *)
LEMMA PlusType == ASSUME NEW p \in Pc PROVE Plus(p) \in Pc
  BY FetchAssumption DEF Plus, Pc

(* The empty entries have their type.                                      *)
LEMMA EmptyTypes ==
  /\ NoEntry \in [full : BOOLEAN, pc : Pc, word : Pc]
  /\ Bubble \in [valid : BOOLEAN, pc : Pc, word : Pc, fence : BOOLEAN]
  /\ [valid |-> FALSE, target |-> None] \in [valid : BOOLEAN, target : Pc \cup {None}]
<1>1. 0 \in Pc
  BY FetchAssumption DEF Pc
<1>2. FALSE \in BOOLEAN
  OBVIOUS
<1> QED BY <1>1, <1>2, Zenon DEF NoEntry, Bubble

(* Nothing is fetched yet, and the router has one side only.               *)
LEMMA InitIInv == ASSUME Ranges \subseteq {{}, Pc}, Init PROVE IInv
<1> USE FetchAssumption DEF Init, AdapterInit
<1>1. TypeOK
  <2>1. if_buf \in [full : BOOLEAN, pc : Pc, word : Pc]
    BY EmptyTypes
  <2>2. dec \in [valid : BOOLEAN, pc : Pc, word : Pc, fence : BOOLEAN]
    BY EmptyTypes
  <2>3. exe \in [valid : BOOLEAN, target : Pc \cup {None}]
    BY EmptyTypes
  <2>4. ahead \in [1..3 -> BOOLEAN]
    OBVIOUS
  <2>5. 0 \in Pc
    BY DEF Pc
  <2> QED BY <2>1, <2>2, <2>3, <2>4, <2>5 DEF TypeOK
<1>2. Uniform
  BY DEF Uniform
<1>3. BridgeInv
  BY DEF BridgeInv, NoMessage, Pc
<1>4. OneFetch /\ QueueRight /\ RightInstruction /\ FetchFollowsProgram /\ FenceInv
  BY DEF NoEntry, Bubble, OneFetch, QueueRight, RightInstruction, FetchFollowsProgram,
         FenceInv
<1> QED BY <1>1, <1>2, <1>3, <1>4 DEF IInv

(* When the router passes an answer on, the queue is empty and what was    *)
(* read is the word at the fetch pc, unless the fetch was killed.          *)
LEMMA AnswerRight ==
  ASSUME IInv, NEW d_valid \in MayAnswer, resp_valid(d_valid)
  PROVE  /\ ~if_buf.full
         /\ resp_word \in Pc
         /\ ~if_killed => resp_word = if_pc
<1> USE DEF IInv
<1>1. CASE range = Pc
  BY <1>1 DEF TypeOK, resp_valid, resp_word, in_range, imem_req_valid
<1>2. CASE range = {}
  <2>1. ~in_range /\ d_valid
    BY <1>2 DEF resp_valid, in_range
  <2>2. state = "s_inflight"
    BY <2>1 DEF MayAnswer, BridgeInv
  <2> QED BY <2>1, <2>2 DEF resp_word, BridgeInv, OneFetch
<1> QED BY <1>1, <1>2 DEF Uniform

(* What leaves the queue is right unless it was killed.                    *)
LEMMA OutRight ==
  ASSUME IInv, NEW d_valid \in MayAnswer, out_valid(d_valid)
  PROVE  /\ out_bits.pc \in Pc /\ out_bits.word \in Pc
         /\ ~if_killed => out_bits.word = out_bits.pc /\ out_bits.pc = expected
<1>1. CASE if_buf.full
  BY <1>1 DEF IInv, TypeOK, out_bits, QueueRight, FetchFollowsProgram
<1>2. CASE ~if_buf.full
  <2>1. resp_word \in Pc /\ (~if_killed => resp_word = if_pc)
    BY <1>2, AnswerRight DEF out_valid
  <2> QED BY <1>2, <2>1 DEF IInv, TypeOK, out_bits, FetchFollowsProgram
<1> QED BY <1>1, <1>2

(* One clock cycle keeps the invariant, whatever stalls, misses, kills and *)
(* the bus do in it.                                                       *)
LEMMA CycleIInv ==
  ASSUME IInv,
         NEW stall \in MayStall, NEW miss \in MayMiss, NEW kill \in Pc \cup {None},
         NEW a_ready \in BOOLEAN, NEW d_valid \in MayAnswer,
         FenceFree(~stall /\ ~miss, kill),
         Cycle(stall, miss, kill, a_ready, d_valid)
  PROVE  IInv'
<1> DEFINE moves == ~stall /\ ~miss
           out_fire == moves /\ out_valid(d_valid)
           a_fire == state = "s_active" /\ a_ready
<1>0. TypeOK /\ stall \in BOOLEAN /\ miss \in BOOLEAN /\ d_valid \in BOOLEAN
  BY DEF IInv, MayStall, MayMiss, MayAnswer
<1>1. /\ Fetch(moves, kill, d_valid) /\ Decode(moves, kill, d_valid)
      /\ Rest(stall, miss, kill)
      /\ Adapter(master_req, if_request, a_ready, d_valid)
      /\ expected' = CASE kill # None -> kill
                       [] kill = None /\ redirects -> exe.target
                       [] Delivers(moves, kill, d_valid) -> Plus(expected)
                       [] OTHER -> expected
      /\ range' = range
  BY DEF Cycle
<1>2. if_pc_next(moves, kill) \in Pc
  BY <1>0, PlusType DEF TypeOK, if_pc_next, redirects
<1>2a. dec_kill(kill) => expected' = if_pc_next(moves, kill)
  BY <1>1 DEF dec_kill, if_pc_next, Delivers, if_kill
<1>2b. ~dec_kill(kill) =>
         expected' = IF Delivers(moves, kill, d_valid) THEN Plus(expected) ELSE expected
  BY <1>1 DEF dec_kill
<1>3. Uniform'
  BY <1>1 DEF IInv, Uniform
<1>4. TypeOK'
  <2>1. if_pc' \in Pc /\ expected' \in Pc
    BY <1>0, <1>1, <1>2, <1>2a, <1>2b, PlusType DEF Fetch, TypeOK
  <2>2. if_buf' \in [full : BOOLEAN, pc : Pc, word : Pc]
    <3>1. CASE in_fire(d_valid) /\ ~out_fire
      <4>1. if_buf' = out_bits
        BY <1>1, <3>1 DEF Fetch
      <4>2. out_bits = [full |-> TRUE, pc |-> if_pc, word |-> resp_word]
        BY <3>1 DEF in_fire, out_bits
      <4>3. resp_word \in Pc
        BY <3>1, AnswerRight DEF in_fire
      <4> QED BY <1>0, <4>1, <4>2, <4>3 DEF TypeOK
    <3>2. CASE ~(in_fire(d_valid) /\ ~out_fire)
      <4>1. if_buf' = NoEntry \/ if_buf' = if_buf
        BY <1>1, <3>2 DEF Fetch
      <4> QED BY <1>0, <4>1, EmptyTypes DEF TypeOK
    <3> QED BY <3>1, <3>2
  <2>3. if_killed' \in BOOLEAN
    BY <1>0, <1>1 DEF Fetch, TypeOK
  <2>4. dec' \in [valid : BOOLEAN, pc : Pc, word : Pc, fence : BOOLEAN]
    <3>1. CASE Delivers(moves, kill, d_valid)
      <4>1. PICK f \in BOOLEAN :
              dec' = [valid |-> TRUE, pc |-> out_bits.pc, word |-> out_bits.word, fence |-> f]
        BY <1>1, <3>1 DEF Decode
      <4>2. out_bits.pc \in Pc /\ out_bits.word \in Pc
        BY <3>1, OutRight DEF Delivers
      <4> QED BY <4>1, <4>2
    <3>2. CASE ~Delivers(moves, kill, d_valid)
      <4>1. dec' = Bubble \/ dec' = dec
        BY <1>1, <3>2 DEF Decode
      <4> QED BY <1>0, <4>1, EmptyTypes DEF TypeOK
    <3> QED BY <3>1, <3>2
  <2>5. exe' \in [valid : BOOLEAN, target : Pc \cup {None}]
    <3>1. \/ exe' = [valid |-> FALSE, target |-> None]
          \/ exe' \in [valid : {TRUE}, target : Pc \cup {None}]
          \/ exe' = exe
      BY <1>1 DEF Rest
    <3>2. [valid : {TRUE}, target : Pc \cup {None}]
             \subseteq [valid : BOOLEAN, target : Pc \cup {None}]
      OBVIOUS
    <3> QED BY <1>0, <3>1, <3>2, EmptyTypes DEF TypeOK
  <2>9. fencei1' \in BOOLEAN
    BY <1>0, <1>1 DEF Decode, TypeOK
  <2>8. in_mem' \in BOOLEAN
    BY <1>0, <1>1 DEF Rest, TypeOK
  <2>6. ahead' \in [1..3 -> BOOLEAN]
    BY <1>0, <1>1 DEF Rest, TypeOK
  <2>7. state' \in {"s_ready", "s_active", "s_inflight"}
    BY <1>0, <1>1 DEF Adapter, TypeOK
  <2> QED BY <2>1, <2>2, <2>3, <2>4, <2>5, <2>6, <2>7, <2>8, <2>9 DEF TypeOK
<1>5. BridgeInv'
  BY <1>0, <1>1 DEF IInv, BridgeInv, Adapter, accepts, MayAnswer, NoMessage, TypeOK,
                    if_request
<1>6. OneFetch'
  <2>1. range' = Pc => state' = "s_ready"
    BY <1>0, <1>1 DEF IInv, OneFetch, Adapter, accepts, master_req, in_range, TypeOK
  <2>2. CASE state' # "s_ready"
    <3>1. range = {}
      BY <1>1, <2>1, <2>2 DEF IInv, Uniform
    <3>2. ~if_buf.full /\ ~d_valid
      BY <1>0, <1>1, <2>2, <3>1
         DEF IInv, OneFetch, BridgeInv, Adapter, accepts, master_req, in_range,
             imem_req_valid, TypeOK, MayAnswer
    <3>3. ~out_valid(d_valid) /\ ~in_fire(d_valid)
      BY <1>0, <3>1, <3>2 DEF out_valid, in_fire, resp_valid, in_range
    <3>4. if_buf' = if_buf /\ if_killed' = (if_kill(kill) \/ if_killed)
      BY <1>0, <1>1, <3>2, <3>3 DEF Fetch, TypeOK
    <3>5. ~if_killed' => if_pc' = if_pc /\ ~if_killed
      BY <1>0, <1>1, <3>3, <3>4 DEF Fetch, TypeOK
    <3>6. ~if_killed' => req_reg'.addr = if_pc'
      BY <1>0, <1>1, <2>2, <3>5
         DEF IInv, OneFetch, Adapter, accepts, if_request, TypeOK
    <3> QED BY <2>1, <3>2, <3>4, <3>6 DEF OneFetch
  <2> QED BY <2>1, <2>2 DEF OneFetch
<1>7. QueueRight'
  <2> SUFFICES ASSUME if_buf'.full, ~if_killed'
               PROVE  if_buf'.word = if_buf'.pc /\ if_pc' = Plus(if_buf'.pc)
    BY DEF QueueRight
  <2>0. ~out_fire => ~if_kill(kill) /\ if_pc_next(moves, kill) = Plus(if_pc)
    BY <1>0, <1>1 DEF Fetch, TypeOK, if_kill, dec_kill, if_pc_next
  <2>1. ~out_fire => ~if_killed
    BY <1>0, <1>1 DEF Fetch, TypeOK
  <2>2. CASE in_fire(d_valid) /\ ~out_fire
    <3>1. if_buf' = out_bits /\ out_valid(d_valid)
      BY <1>1, <2>2 DEF Fetch, in_fire, out_valid
    <3>2. if_buf'.word = if_buf'.pc /\ if_buf'.pc = if_pc
      BY <2>1, <2>2, <3>1, OutRight DEF in_fire, out_bits
    <3>3. if_pc' = Plus(if_pc)
      BY <1>1, <2>0, <2>1, <2>2 DEF Fetch
    <3> QED BY <3>2, <3>3
  <2>3. CASE ~in_fire(d_valid) /\ ~out_fire
    BY <1>1, <2>0, <2>1, <2>3 DEF Fetch, IInv, QueueRight
  <2>4. CASE out_fire
    <3>1. ~if_buf.full
      BY <1>1, <2>4 DEF Fetch, NoEntry
    <3>2. if_buf' = if_buf
      BY <1>1, <2>4, <3>1 DEF Fetch
    <3> QED BY <3>1, <3>2
  <2> QED BY <2>2, <2>3, <2>4
<1>8. RightInstruction'
  <2>1. CASE Delivers(moves, kill, d_valid)
    <3>1. PICK f \in BOOLEAN :
            dec' = [valid |-> TRUE, pc |-> out_bits.pc, word |-> out_bits.word, fence |-> f]
      BY <1>1, <2>1 DEF Decode
    <3> QED BY <2>1, <3>1, OutRight DEF Delivers, RightInstruction
  <2>2. CASE ~Delivers(moves, kill, d_valid)
    <3>1. dec'.valid = FALSE \/ dec' = dec
      BY <1>1, <2>2 DEF Decode, Bubble
    <3> QED BY <3>1 DEF IInv, RightInstruction
  <2> QED BY <2>1, <2>2
<1>9. FetchFollowsProgram'
  <2>1. CASE if_kill(kill)
    <3>0. if_pc' = if_pc_next(moves, kill)
      BY <1>1, <2>1 DEF Fetch
    <3>1. expected' = if_pc'
      <4>1. CASE dec_kill(kill)
        BY <1>2a, <3>0, <4>1
      <4>2. CASE ~dec_kill(kill)
        <5>1. fencei /\ moves
          BY <2>1, <4>2 DEF if_kill, FenceFree
        <5>2. if_pc_next(moves, kill) = if_pc
          BY <4>2, <5>1 DEF if_pc_next, dec_kill
        <5>3. expected' = expected
          BY <1>2b, <2>1, <4>2 DEF Delivers
        <5>4. expected = if_pc
          BY <5>1 DEF IInv, FenceInv, FetchFollowsProgram, fencei
        <5> QED BY <3>0, <5>2, <5>3, <5>4
      <4> QED BY <4>1, <4>2
    <3>2. CASE out_fire
      <4>1. if_buf' = if_buf \/ if_buf' = NoEntry
        BY <1>1, <3>2 DEF Fetch
      <4>2. ~if_buf'.full
        BY <1>1, <3>2, <4>1 DEF Fetch, NoEntry
      <4> QED BY <3>1, <4>2 DEF FetchFollowsProgram
    <3>3. CASE ~out_fire
      BY <1>1, <2>1, <3>1, <3>3 DEF Fetch, FetchFollowsProgram
    <3> QED BY <3>2, <3>3
  <2>2. CASE ~if_kill(kill) /\ if_killed
    <3>1. if_pc' = if_pc /\ expected' = expected /\ expected = if_pc
      BY <1>1, <1>2b, <2>2 DEF Fetch, Delivers, IInv, FetchFollowsProgram, if_kill
    <3>2. CASE out_fire
      <4>1. ~if_buf'.full
        BY <1>1, <3>2 DEF Fetch, NoEntry
      <4> QED BY <3>1, <4>1 DEF FetchFollowsProgram
    <3>3. CASE ~out_fire
      <4>1. if_killed' = if_killed
        BY <1>1, <2>2, <3>3 DEF Fetch
      <4> QED BY <2>2, <3>1, <4>1 DEF FetchFollowsProgram
    <3> QED BY <3>2, <3>3
  <2>3. CASE ~if_kill(kill) /\ ~if_killed
    <3>1. if_killed' = FALSE
      BY <1>0, <1>1, <2>3 DEF Fetch, TypeOK
    <3>2. if_pc_next(moves, kill) = Plus(if_pc)
      BY <2>3 DEF if_pc_next, if_kill, dec_kill
    <3>3. CASE out_fire
      <4>1. ~if_buf'.full
        BY <1>1, <3>3 DEF Fetch, NoEntry
      <4>2. expected' = Plus(expected)
        BY <1>2b, <2>3, <3>3 DEF Delivers, if_kill
      <4>3. CASE if_buf.full
        <5>1. in_fire(d_valid) = FALSE
          BY <4>3 DEF in_fire
        <5>2. if_pc' = if_pc
          BY <1>1, <2>3, <5>1 DEF Fetch
        <5>3. expected = if_buf.pc /\ if_pc = Plus(if_buf.pc)
          BY <2>3, <4>3 DEF IInv, FetchFollowsProgram, QueueRight
        <5> QED BY <4>1, <4>2, <5>2, <5>3 DEF FetchFollowsProgram
      <4>4. CASE ~if_buf.full
        <5>1. in_fire(d_valid)
          BY <3>3, <4>4 DEF in_fire, out_valid
        <5>2. if_pc' = Plus(if_pc) /\ expected = if_pc
          BY <1>1, <2>3, <3>2, <4>4, <5>1 DEF Fetch, IInv, FetchFollowsProgram
        <5> QED BY <4>1, <4>2, <5>2 DEF FetchFollowsProgram
      <4> QED BY <4>3, <4>4
    <3>4. CASE ~out_fire
      <4>1. expected' = expected
        BY <1>2b, <2>3, <3>4 DEF Delivers, if_kill
      <4>2. CASE in_fire(d_valid)
        <5>1. if_buf' = [full |-> TRUE, pc |-> if_pc, word |-> resp_word] /\ ~if_buf.full
          BY <1>1, <3>4, <4>2 DEF Fetch, in_fire, out_bits
        <5> QED BY <2>3, <3>1, <4>1, <5>1 DEF IInv, FetchFollowsProgram
      <4>3. CASE ~in_fire(d_valid)
        <5>1. if_buf' = if_buf /\ if_pc' = if_pc
          BY <1>1, <2>3, <3>4, <4>3 DEF Fetch
        <5> QED BY <2>3, <3>1, <4>1, <5>1 DEF IInv, FetchFollowsProgram
      <4> QED BY <4>2, <4>3
    <3> QED BY <3>3, <3>4
  <2> QED BY <2>1, <2>2, <2>3
<1>10. FenceInv'
  <2>1. dec'.fence => ~if_buf'.full
    <3>1. CASE Delivers(moves, kill, d_valid)
      <4>1. out_fire
        BY <3>1 DEF Delivers
      <4> QED BY <1>1, <4>1 DEF Fetch, NoEntry
    <3>2. CASE ~Delivers(moves, kill, d_valid)
      <4>1. dec'.fence = FALSE \/ (dec' = dec /\ ~moves /\ ~if_kill(kill))
        BY <1>1, <3>2 DEF Decode, Bubble
      <4>2. ~if_kill(kill) => ~dec.fence
        BY DEF if_kill, fencei
      <4> QED BY <4>1, <4>2
    <3> QED BY <3>1, <3>2
  <2>2. fencei1' => if_killed' \/ ~if_buf'.full
    <3> SUFFICES ASSUME fencei1' PROVE if_killed' \/ ~if_buf'.full
      OBVIOUS
    <3>1. if_kill(kill)
      BY <1>0, <1>1 DEF Decode, if_kill, fencei, TypeOK
    <3>2. CASE out_fire
      BY <1>1, <3>2 DEF Fetch, NoEntry
    <3>3. CASE ~out_fire
      BY <1>1, <3>1, <3>3 DEF Fetch
    <3> QED BY <3>2, <3>3
  <2> QED BY <2>1, <2>2 DEF FenceInv
<1> QED BY <1>3, <1>4, <1>5, <1>6, <1>7, <1>8, <1>9, <1>10 DEF IInv

(* So does every step.                                                     *)
LEMMA NextIInv == IInv /\ [Next]_vars => IInv'
<1> SUFFICES ASSUME IInv, [Next]_vars PROVE IInv'
  OBVIOUS
<1>1. CASE Next
  BY <1>1, CycleIInv DEF Next
<1>2. CASE UNCHANGED vars
  BY <1>2 DEF IInv, TypeOK, Uniform, BridgeInv, OneFetch, QueueRight, RightInstruction,
              FetchFollowsProgram, FenceInv, vars, adapterVars
<1> QED BY <1>1, <1>2

(* The inductive invariant holds when the code is all on one side.         *)
THEOREM InvariantHolds == ASSUME Ranges \subseteq {{}, Pc} PROVE Spec => []IInv
<1>1. Init => IInv
  BY InitIInv
<1> QED BY <1>1, NextIInv, PTL DEF Spec

(* Type correctness of the fetch stage and its bridge.                     *)
THEOREM TypeCorrect == ASSUME Ranges \subseteq {{}, Pc} PROVE Spec => []TypeOK
<1>1. IInv => TypeOK
  BY DEF IInv
<1> QED BY <1>1, InvariantHolds, PTL

(* No answer to a killed fetch is ever taken for a later one.              *)
THEOREM FetchesRightInstruction ==
  ASSUME Ranges \subseteq {{}, Pc} PROVE Spec => []RightInstruction
<1>1. IInv => RightInstruction
  BY DEF IInv
<1> QED BY <1>1, InvariantHolds, PTL

(* Fetching follows the program whatever kills, stalls and answers do.     *)
THEOREM FetchesInOrder ==
  ASSUME Ranges \subseteq {{}, Pc} PROVE Spec => []FetchFollowsProgram
<1>1. IInv => FetchFollowsProgram
  BY DEF IInv
<1> QED BY <1>1, InvariantHolds, PTL

(* The assertion "Instruction backlog" never fires.                        *)
THEOREM NeverBacklogged ==
  ASSUME Ranges \subseteq {{}, Pc} PROVE Spec => []NoBacklog
<1>1. IInv => NoBacklog
  BY AnswerRight DEF NoBacklog
<1> QED BY <1>1, InvariantHolds, PTL
=============================================================================
