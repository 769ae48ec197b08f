-------------------------- MODULE DataPort_proofs ---------------------------
(***************************************************************************)
(* Proofs about DataPort, for any addresses, any part of them in the       *)
(* scratchpad, any values and any timing of the bus.                       *)
(***************************************************************************)
EXTENDS DataPort, TLAPS

Message == [fcn : {"XRD", "XWR"}, addr : Addr, size : 0..3, data : Data]

(* The message the bridge has to send for a request.                       *)
MessageOf(req) == [fcn |-> req.fcn, addr |-> req.addr,
                   size |-> getTLSize(req.typ), data |-> req.data]

(* What holds with interrupts as well: the types, also of the registers    *)
(* that TypeOK does not mention, and that a message is outstanding exactly *)
(* in s_inflight.                                                          *)
BridgeInv ==
  /\ TypeOK
  /\ mem.val => mem.req \in Request
  /\ bus \in Message \cup {NoMessage}
  /\ bus # NoMessage <=> state = "s_inflight"

(* What the bridge has latched while it works is the access in MEM, which  *)
(* the scratchpad does not answer; the message on the bus is made from it. *)
OwnRequest ==
  ~irq /\ state # "s_ready" =>
    /\ mem.val /\ mem.req = asked /\ ~in_range
    /\ req_reg = [addr |-> asked.addr, size |-> getTLSize(asked.typ), data |-> asked.data]
    /\ state = "s_inflight" =>
         /\ bus = MessageOf(asked)
         /\ a_reg = [addr |-> asked.addr, signed |-> getTLSize(asked.typ) % 2 = 1]

(* The answered stores are in memory in the cycle of their answer.         *)
InStep == ~irq => memory = ref

IInv == BridgeInv /\ OwnRequest /\ InStep

-----------------------------------------------------------------------------
(* The size of every access type is a TileLink size.                       *)
LEMMA SizeType == ASSUME NEW t \in 1..7 PROVE getTLSize(t) \in 0..3
  BY DEF getTLSize

(* The wires always carry a request with an address, a size and a value.   *)
LEMMA RequestFields ==
  ASSUME NEW req \in Request \cup {NoRequest}
  PROVE  /\ req.addr \in Addr /\ req.data \in Data /\ req.fcn \in {"XRD", "XWR"}
         /\ getTLSize(req.typ) \in 0..3
<1>1. CASE req \in Request
  BY <1>1, SizeType, DataPortAssumption DEF Request
<1>2. CASE req = NoRequest
  BY <1>2, SizeType, DataPortAssumption DEF NoRequest
<1> QED BY <1>1, <1>2

(* No message has the code of none.                                        *)
LEMMA MessageNotNone == ASSUME NEW m \in Message PROVE m # NoMessage
  BY DEF Message, NoMessage

(* The core comes out of reset with an idle bridge and equal memories.     *)
LEMMA InitIInv == Init => IInv
<1> SUFFICES ASSUME Init PROVE IInv
  OBVIOUS
<1> USE DataPortAssumption DEF Init, AdapterInit
<1>1. TypeOK
  <2>1. mem \in [val : BOOLEAN, req : Request \cup {NoRequest}]
    BY DEF NoAccess
  <2>2. irq \in BOOLEAN /\ refill \in 0..Refill
    BY DEF Refill
  <2>3. memory \in [Addr -> Data] /\ ref \in [Addr -> Data]
    OBVIOUS
  <2> QED BY <2>1, <2>2, <2>3 DEF TypeOK
<1>2. BridgeInv
  BY <1>1 DEF BridgeInv, NoAccess
<1>3. OwnRequest /\ InStep
  BY DEF OwnRequest, InStep
<1> QED BY <1>2, <1>3 DEF IInv

(* What one cycle does to the bridge, case by case.                        *)
LEMMA AdapterCases ==
  ASSUME NEW valid \in BOOLEAN, NEW req, NEW a_ready \in BOOLEAN, NEW d_valid \in MayAnswer,
         bus # NoMessage <=> state = "s_inflight",
         state \in {"s_ready", "s_active", "s_inflight"},
         Adapter(valid, req, a_ready, d_valid)
  PROVE  \/ /\ state = "s_ready" /\ valid /\ state' = "s_active" /\ asked' = req
            /\ req_reg' = [addr |-> req.addr, size |-> getTLSize(req.typ), data |-> req.data]
            /\ bus' = bus
         \/ /\ state = "s_active" /\ state' = "s_inflight"
            /\ asked' = asked /\ req_reg' = req_reg
            /\ a_reg' = [addr |-> req.addr, signed |-> getTLSize(req.typ) % 2 = 1]
            /\ bus' = [fcn |-> req.fcn, addr |-> req_reg.addr,
                       size |-> req_reg.size, data |-> req_reg.data]
         \/ /\ state = "s_inflight" /\ d_valid /\ state' = "s_ready" /\ bus' = NoMessage
            /\ asked' = asked /\ req_reg' = req_reg
         \/ /\ state = "s_ready" => ~valid
            /\ state = "s_inflight" => ~d_valid
            /\ UNCHANGED adapterVars
<1>1. d_valid \in BOOLEAN /\ (d_valid => state = "s_inflight")
  BY DEF MayAnswer
<1>2. CASE state = "s_ready"
  BY <1>1, <1>2 DEF Adapter, accepts, adapterVars
<1>3. CASE state = "s_active"
  BY <1>1, <1>3 DEF Adapter, accepts, adapterVars
<1>4. CASE state = "s_inflight"
  BY <1>1, <1>4 DEF Adapter, accepts, adapterVars
<1> QED BY <1>2, <1>3, <1>4

(* The types, and the bridge's two ends, survive a cycle with or without a *)
(* kill.                                                                   *)
LEMMA CycleBridge ==
  ASSUME BridgeInv, NEW a_ready \in BOOLEAN, NEW d_valid \in MayAnswer, NEW kill \in {FALSE, irq},
         Cycle(a_ready, d_valid, kill)
  PROVE  BridgeInv'
<1>0. /\ TypeOK /\ mem.req \in Request \cup {NoRequest} /\ mem.val \in BOOLEAN
      /\ kill \in BOOLEAN /\ d_valid \in BOOLEAN /\ (d_valid => bus \in Message)
      /\ Adapter(master_req, mem.req, a_ready, d_valid) /\ irq' = irq
  BY DEF BridgeInv, TypeOK, MayAnswer, Cycle
<1>1. /\ mem.req.addr \in Addr /\ mem.req.data \in Data /\ mem.req.fcn \in {"XRD", "XWR"}
      /\ getTLSize(mem.req.typ) \in 0..3
  BY <1>0, RequestFields
<1>2. /\ state' \in {"s_ready", "s_active", "s_inflight"}
      /\ req_reg'.addr \in Addr /\ req_reg'.size \in 0..3 /\ req_reg'.data \in Data
      /\ bus' \in Message \cup {NoMessage}
      /\ bus' # NoMessage <=> state' = "s_inflight"
  <2>1. master_req \in BOOLEAN
    BY DEF master_req
  <2>2. /\ bus # NoMessage <=> state = "s_inflight"
        /\ state \in {"s_ready", "s_active", "s_inflight"}
        /\ bus \in Message \cup {NoMessage}
        /\ req_reg.addr \in Addr /\ req_reg.size \in 0..3 /\ req_reg.data \in Data
    BY DEF BridgeInv, TypeOK
  <2>3. [fcn |-> mem.req.fcn, addr |-> req_reg.addr, size |-> req_reg.size,
         data |-> req_reg.data] \in Message
    BY <1>1, <2>2 DEF Message
  <2> QED BY <1>0, <1>1, <2>1, <2>2, <2>3, AdapterCases, MessageNotNone DEF adapterVars
<1>3. /\ memory' \in [Addr -> Data] /\ ref' \in [Addr -> Data]
  <2>1. \A a \in Addr : memory[a] \in Data
    BY <1>0 DEF TypeOK
  <2>2. d_valid => bus.data \in Data
    BY <1>0 DEF Message
  <2>3. memory' = Stored(d_valid)
    BY DEF Cycle
  <2>4. memory' \in [Addr -> Data]
    BY <1>1, <2>1, <2>2, <2>3 DEF Stored
  <2>5. ref' \in [Addr -> Data]
    BY <1>0, <1>1 DEF TypeOK, Cycle
  <2> QED BY <2>4, <2>5
<1>4. /\ mem' \in [val : BOOLEAN, req : Request \cup {NoRequest}]
      /\ mem'.val => mem'.req \in Request
      /\ refill' \in 0..Refill
  <2>0. NoAccess \in [val : BOOLEAN, req : Request \cup {NoRequest}] /\ ~NoAccess.val
    BY DEF NoAccess
  <2>1. CASE kill
    <3>1. mem' = [mem EXCEPT !.val = FALSE] /\ refill' = 2
      BY <2>1 DEF Cycle, Refill
    <3>2. mem' \in [val : BOOLEAN, req : Request \cup {NoRequest}] /\ ~mem'.val
      BY <1>0, <3>1 DEF TypeOK
    <3> QED BY <3>1, <3>2 DEF Refill
  <2>2. CASE ~kill /\ full_stall(d_valid)
    BY <1>0, <2>2 DEF Cycle, BridgeInv, TypeOK
  <2>3. CASE ~kill /\ ~full_stall(d_valid) /\ refill > 0
    <3>1. mem' = NoAccess /\ refill' = refill - 1
      BY <2>3 DEF Cycle
    <3> QED BY <1>0, <2>0, <2>3, <3>1 DEF TypeOK, Refill
  <2>4. CASE ~kill /\ ~full_stall(d_valid) /\ ~(refill > 0)
    <3>1. mem' \in Access \cup {NoAccess} /\ refill' = refill
      BY <2>4 DEF Cycle
    <3>2. CASE mem' \in Access
      BY <1>0, <3>1, <3>2 DEF TypeOK, Access
    <3> QED BY <1>0, <2>0, <3>1, <3>2 DEF TypeOK
  <2> QED BY <2>1, <2>2, <2>3, <2>4
<1> QED BY <1>0, <1>2, <1>3, <1>4 DEF BridgeInv, TypeOK

(* While the bridge works without its answer the pipeline stalls, so the   *)
(* access stays in MEM; the answer comes in the cycle that ends both.      *)
LEMMA CycleOwn ==
  ASSUME IInv, ~irq, NEW a_ready \in BOOLEAN, NEW d_valid \in MayAnswer,
         Cycle(a_ready, d_valid, FALSE)
  PROVE  OwnRequest'
<1>0. /\ mem.val \in BOOLEAN /\ d_valid \in BOOLEAN
      /\ (bus # NoMessage <=> state = "s_inflight")
      /\ state \in {"s_ready", "s_active", "s_inflight"}
      /\ Adapter(master_req, mem.req, a_ready, d_valid) /\ master_req \in BOOLEAN
      /\ irq' = irq
  BY DEF IInv, BridgeInv, TypeOK, MayAnswer, Cycle, master_req
<1>1. SUFFICES ASSUME state' # "s_ready"
               PROVE  OwnRequest'
  BY DEF OwnRequest
<1>2. mem.val /\ ~in_range /\ ~d_valid
  BY <1>0, <1>1, AdapterCases DEF IInv, OwnRequest, MayAnswer, master_req, adapterVars
<1>3. mem' = mem
  BY <1>2 DEF Cycle, full_stall, resp_valid
<1>4. ~in_range'
  BY <1>2, <1>3 DEF in_range
<1>5. CASE state = "s_ready"
  BY <1>0, <1>1, <1>2, <1>3, <1>4, <1>5, AdapterCases DEF OwnRequest, adapterVars
<1>6. CASE state # "s_ready"
  <2>1. /\ mem.req = asked
        /\ req_reg = [addr |-> asked.addr, size |-> getTLSize(asked.typ), data |-> asked.data]
        /\ state = "s_inflight" =>
             /\ bus = MessageOf(asked)
             /\ a_reg = [addr |-> asked.addr, signed |-> getTLSize(asked.typ) % 2 = 1]
    BY <1>6 DEF IInv, OwnRequest
  <2>2. asked' = asked /\ req_reg' = req_reg
    BY <1>0, <1>6, AdapterCases DEF adapterVars
  <2>3. state' = "s_inflight" =>
             /\ bus' = MessageOf(asked)
             /\ a_reg' = [addr |-> asked.addr, signed |-> getTLSize(asked.typ) % 2 = 1]
    <3>1. CASE state = "s_active" /\ state' = "s_inflight"
      <4>1. /\ a_reg' = [addr |-> mem.req.addr, signed |-> getTLSize(mem.req.typ) % 2 = 1]
            /\ bus' = [fcn |-> mem.req.fcn, addr |-> req_reg.addr,
                       size |-> req_reg.size, data |-> req_reg.data]
        BY <1>0, <3>1, AdapterCases DEF adapterVars
      <4> QED BY <2>1, <4>1 DEF MessageOf
    <3>2. CASE state = "s_inflight"
      BY <1>0, <1>1, <2>1, <3>2, AdapterCases DEF adapterVars
    <3>3. state = "s_active" \/ state = "s_inflight"
      BY <1>0, <1>6
    <3> QED BY <3>1, <3>2, <3>3
  <2> QED BY <1>2, <1>3, <1>4, <2>1, <2>2, <2>3 DEF OwnRequest, MessageOf
<1> QED BY <1>5, <1>6

(* A store is carried out in the cycle in which it is answered.            *)
LEMMA CycleInStep ==
  ASSUME IInv, ~irq, NEW a_ready \in BOOLEAN, NEW d_valid \in MayAnswer,
         Cycle(a_ready, d_valid, FALSE)
  PROVE  InStep'
<1>0. /\ memory = ref /\ memory \in [Addr -> Data] /\ mem.val \in BOOLEAN
      /\ mem.req.addr \in Addr
      /\ memory' = Stored(d_valid)
      /\ ref' = IF Answered(d_valid) /\ mem.req.fcn = "XWR"
                THEN [ref EXCEPT ![mem.req.addr] = mem.req.data] ELSE ref
  BY RequestFields DEF IInv, BridgeInv, TypeOK, InStep, Cycle
<1>1. CASE in_range
  <2>1. ~d_valid
    BY <1>1 DEF IInv, BridgeInv, OwnRequest, MayAnswer
  <2> QED BY <1>0, <1>1, <2>1 DEF InStep, Stored, Answered, resp_valid, scratch_req
<1>2. CASE ~in_range /\ d_valid
  <2>1. state = "s_inflight"
    BY <1>2 DEF IInv, BridgeInv, MayAnswer
  <2>2. mem.val /\ bus = MessageOf(mem.req)
    BY <2>1 DEF IInv, OwnRequest
  <2> QED BY <1>0, <1>2, <2>2 DEF InStep, Stored, Answered, resp_valid, scratch_req, MessageOf
<1>3. CASE ~in_range /\ ~d_valid
  BY <1>0, <1>3 DEF InStep, Stored, Answered, resp_valid, scratch_req
<1> QED BY <1>1, <1>2, <1>3

(* Every step keeps the invariant.                                         *)
LEMMA NextIInv == IInv /\ [Next]_vars => IInv'
<1> SUFFICES ASSUME IInv, [Next]_vars PROVE IInv'
  OBVIOUS
<1>1. CASE Next
  <2>1. PICK a_ready \in BOOLEAN, d_valid \in MayAnswer, kill \in {FALSE, irq} :
          Cycle(a_ready, d_valid, kill)
    BY <1>1 DEF Next
  <2>2. BridgeInv'
    BY <2>1, CycleBridge DEF IInv
  <2>3. CASE ~irq
    <3>1. kill = FALSE
      BY <2>3 DEF IInv, BridgeInv, TypeOK
    <3> QED BY <2>1, <2>2, <2>3, <3>1, CycleOwn, CycleInStep DEF IInv
  <2>4. CASE irq
    BY <2>1, <2>2, <2>4 DEF IInv, OwnRequest, InStep, Cycle
  <2> QED BY <2>3, <2>4
<1>2. CASE UNCHANGED vars
  BY <1>2 DEF IInv, BridgeInv, TypeOK, OwnRequest, InStep, in_range, vars, adapterVars
<1> QED BY <1>1, <1>2

(* The inductive invariant holds in every reachable state.                 *)
THEOREM InvariantHolds == Spec => []IInv
  BY InitIInv, NextIInv, PTL DEF Spec

(* Type correctness of the data port, also when interrupts take accesses   *)
(* away.                                                                   *)
THEOREM TypeCorrect == Spec => []TypeOK
<1>1. IInv => TypeOK
  BY DEF IInv, BridgeInv
<1> QED BY <1>1, InvariantHolds, PTL

(* Between accesses nothing is left to be carried out: memory holds the    *)
(* answered stores and the bridge is idle.                                 *)
THEOREM IdleBetweenAccesses == Spec => []NothingOutstanding
<1>1. IInv => NothingOutstanding
  BY DEF IInv, OwnRequest, InStep, NothingOutstanding
<1> QED BY <1>1, InvariantHolds, PTL

(* A load returns what the last store to its address wrote, whichever of   *)
(* the two memories it is in.                                              *)
THEOREM LoadsReadLastStore == Spec => []LoadsSeeStores
<1>1. IInv => LoadsSeeStores
  <2> SUFFICES ASSUME IInv, NEW d_valid \in MayAnswer, ~irq, Answered(d_valid)
               PROVE  resp_data = ref[mem.req.addr]
    BY DEF LoadsSeeStores
  <2>1. memory = ref
    BY DEF IInv, InStep
  <2>2. CASE in_range
    BY <2>1, <2>2 DEF resp_data
  <2>3. CASE ~in_range
    <3>1. d_valid
      BY <2>3 DEF Answered, resp_valid
    <3>2. bus.addr = mem.req.addr
      <4>1. state = "s_inflight"
        BY <3>1 DEF IInv, BridgeInv, MayAnswer
      <4> QED BY <4>1 DEF IInv, OwnRequest, MessageOf
    <3> QED BY <2>1, <2>3, <3>2 DEF resp_data
  <2> QED BY <2>2, <2>3
<1> QED BY <1>1, InvariantHolds, PTL

(* While the pipeline waits the bridge works for the access in MEM, sends  *)
(* what was asked, whatever its type, and keeps its address for LoadGen.   *)
THEOREM BridgeWorksForMem == Spec => []WaitsForOwn
<1>1. IInv => WaitsForOwn
  <2> SUFFICES ASSUME IInv, ~irq, state # "s_ready"
               PROVE  mem.val /\ mem.req = asked /\ ~in_range /\ SentAsAsked /\ AddressForLoadGen
    BY DEF WaitsForOwn
  <2>1. mem.val /\ mem.req = asked /\ ~in_range
    BY DEF IInv, OwnRequest
  <2>2. SentAsAsked
    BY DEF IInv, BridgeInv, OwnRequest, SentAsAsked, MessageOf
  <2>3. AddressForLoadGen
    BY DEF IInv, OwnRequest, AddressForLoadGen
  <2> QED BY <2>1, <2>2, <2>3
<1> QED BY <1>1, InvariantHolds, PTL
=============================================================================
