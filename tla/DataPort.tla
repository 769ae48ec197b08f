------------------------------ MODULE DataPort ------------------------------
(***************************************************************************)
(* The data port of the five-stage core: the access in MEM, the router     *)
(* that sends it to the scratchpad (answered in the same cycle) or to the  *)
(* bus, and the bridge to the bus.  A step is one clock cycle.             *)
(*                                                                         *)
(* The pipeline waits for the answer (full_stall).  Only a pipeline_kill   *)
(* ends an access before it is answered; an interrupt does that in any     *)
(* cycle, and the bus transaction then runs on without its owner.          *)
(***************************************************************************)
EXTENDS MasterAdapter

CONSTANTS
  Addr,           \* data addresses
  Scratch,        \* those of the scratchpad
  Data,           \* the values stored
  Typ,            \* access types, a set of MemReq.typ
  Interrupts      \* may accesses be killed while they wait? a set of answers

ASSUME DataPortAssumption ==
  Addr \subseteq Nat /\ Scratch \subseteq Addr /\ Typ \subseteq 1..7
  /\ 0 \in Addr /\ 0 \in Data /\ Interrupts \subseteq BOOLEAN

VARIABLES
  irq,            \* are interrupts enabled?
  mem,            \* [val, req]: mem_reg_ctrl_mem_val and the request in MEM
  refill,         \* bubbles on their way to MEM after a kill
  memory,         \* scratchpad and bus memory
  ref             \* history: memory as the answered accesses left it

vars == <<irq, mem, refill, memory, ref, adapterVars>>

Request == [addr : Addr, typ : Typ, fcn : {"XRD", "XWR"}, data : Data]

(* What an instruction that does not access memory, or a bubble, leaves on *)
(* the wires: M_X has the code of M_XRD.                                   *)
NoAccess == [val |-> FALSE, req |-> NoRequest]
Access == [val : {TRUE}, req : Request]

(* A kill empties IF, DEC and EXE as well.                                 *)
Refill == 3

Init ==
  /\ irq \in Interrupts
  /\ mem = NoAccess
  /\ refill = 0
  /\ memory = [a \in Addr |-> 0]
  /\ ref = memory
  /\ AdapterInit

in_range == mem.req.addr \in Scratch

(* WumingRequestRouter: what each side sees, and whose answer is taken.    *)
(* Mutant of master_req: the bus sees scratchpad accesses as well.         *)
master_req_all == mem.val

master_req == mem.val /\ ~in_range
scratch_req == mem.val /\ in_range

(* Mutant of resp_valid: an access counts as answered once it was sent.    *)
resp_valid_early(d_valid) == IF in_range THEN scratch_req ELSE bus # NoMessage

resp_valid(d_valid) == IF in_range THEN scratch_req ELSE d_valid

full_stall(d_valid) == mem.val /\ ~resp_valid(d_valid)

(* What the access in MEM reads: the scratchpad, or what the bus answers.  *)
resp_data == IF in_range THEN memory[mem.req.addr] ELSE memory[bus.addr]

(* Memory at the end of the cycle: a scratchpad write, and the write the   *)
(* bus carries out before it answers.                                      *)
Stored(d_valid) ==
  [a \in Addr |->
     IF scratch_req /\ mem.req.fcn = "XWR" /\ a = mem.req.addr THEN mem.req.data
     ELSE IF d_valid /\ bus.fcn = "XWR" /\ a = bus.addr THEN bus.data
     ELSE memory[a]]

Answered(d_valid) == mem.val /\ resp_valid(d_valid)

Cycle(a_ready, d_valid, kill) ==
  /\ Adapter(master_req, mem.req, a_ready, d_valid)
  /\ memory' = Stored(d_valid)
  /\ ref' = IF Answered(d_valid) /\ mem.req.fcn = "XWR"
            THEN [ref EXCEPT ![mem.req.addr] = mem.req.data] ELSE ref
  /\ IF kill THEN mem' = [mem EXCEPT !.val = FALSE] /\ refill' = Refill - 1
     ELSE IF full_stall(d_valid) THEN UNCHANGED <<mem, refill>>
     ELSE IF refill > 0 THEN mem' = NoAccess /\ refill' = refill - 1
     ELSE mem' \in Access \cup {NoAccess} /\ UNCHANGED refill
  /\ UNCHANGED irq

Next ==
  \E a_ready \in BOOLEAN, d_valid \in MayAnswer, kill \in {FALSE, irq} :
     Cycle(a_ready, d_valid, kill)

Spec == Init /\ [][Next]_vars

(* The bus accepts what is offered and answers what it accepted. *)
BusProgress ==
  /\ state # "s_ready"
  /\ \E kill \in {FALSE, irq} : Cycle(TRUE, bus # NoMessage, kill)

FairSpec == Spec /\ WF_vars(BusProgress)

-----------------------------------------------------------------------------
(***************************************************************************)
(* Properties                                                              *)
(***************************************************************************)

(* Type invariant. *)
TypeOK ==
  /\ irq \in BOOLEAN
  /\ mem \in [val : BOOLEAN, req : Request \cup {NoRequest}] /\ refill \in 0..Refill
  /\ memory \in [Addr -> Data] /\ ref \in [Addr -> Data]
  /\ state \in {"s_ready", "s_active", "s_inflight"}
  /\ req_reg.addr \in Addr /\ req_reg.size \in 0..3 /\ req_reg.data \in Data

(* A load gets what the last store to its address wrote, in program order, *)
(* although one goes to the scratchpad and the other over the bus, and it  *)
(* never gets the answer of an earlier access.                             *)
LoadsSeeStores ==
  \A d_valid \in MayAnswer :
    ~irq /\ Answered(d_valid) /\ mem.req.fcn = "XRD" => resp_data = ref[mem.req.addr]

(* Between accesses memory holds exactly the answered stores: none is lost *)
(* or carried out late, and none is left to be carried out again.          *)
NothingOutstanding == ~irq /\ ~mem.val => memory = ref /\ state = "s_ready"

(* While the pipeline waits, the bridge works for the access in MEM and    *)
(* for no other: the message on the bus is what was asked for, whatever    *)
(* its type, and LoadGen has its address (not its signedness, which is     *)
(* ExtendedAsAsked).                                                       *)
WaitsForOwn ==
  ~irq /\ state # "s_ready" =>
    mem.val /\ mem.req = asked /\ ~in_range /\ SentAsAsked /\ AddressForLoadGen

(* No access stalls the pipeline for good: the bridge becomes ready again, *)
(* even when interrupts take away the accesses it works for.               *)
NoEternalStall == []<>(state = "s_ready")
=============================================================================
