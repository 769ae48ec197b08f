--------------------------- MODULE MasterAdapter ---------------------------
(***************************************************************************)
(* WumingMasterAdapter: the bridge from one memory port of the core to     *)
(* TileLink, one for instructions and one for data.  It takes one request  *)
(* at a time through ready -> active (message offered on channel A) ->     *)
(* inflight (answer awaited on channel D).                                 *)
(*                                                                         *)
(* A module that has such a port conjoins one clock cycle of the bridge,   *)
(* Adapter(valid, req, a_ready, d_valid), to its own step: valid and req   *)
(* are what the core's wires carry in that cycle, a_ready and d_valid are  *)
(* what the bus does.                                                      *)
(***************************************************************************)
EXTENDS Integers

VARIABLES
  state,          \* "s_ready", "s_active" or "s_inflight"
  req_reg,        \* req_address_reg, req_size_reg and req_data_reg
  a_reg,          \* a_address_reg and a_signed_reg, for LoadGen
  bus,            \* the message the bus has not answered yet, or NoMessage
  asked           \* history: the request the bridge last accepted

adapterVars == <<state, req_reg, a_reg, bus, asked>>

(* MemReq.typ is MT_B, MT_W, MT_T, MT_O (signed) or MT_BU, MT_WU, MT_TU.   *)
(* Mutant of getTLSize: the unsigned types keep their upper bit.           *)
getTLSizeWide(typ) == typ - 1

getTLSize(typ) == (typ - 1) % 4
getTLSigned(typ) == (typ - 1) \div 4 = 0

NoMessage == [fcn |-> "none"]
NoRequest == [addr |-> 0, typ |-> 7, fcn |-> "XRD", data |-> 0]

AdapterInit ==
  /\ state = "s_ready"
  /\ req_reg = [addr |-> 0, size |-> 0, data |-> 0]
  /\ a_reg = [addr |-> 0, signed |-> FALSE]
  /\ bus = NoMessage
  /\ asked = NoRequest

accepts(valid) == state = "s_ready" /\ valid

(* Mutant of Adapter: the request is latched when the message is sent, not *)
(* when it is accepted.                                                    *)
AdapterLatchesLate(valid, req, a_ready, d_valid) ==
  LET a_fire == state = "s_active" /\ a_ready
  IN  /\ state' = CASE accepts(valid) -> "s_active"
                    [] a_fire -> "s_inflight"
                    [] state = "s_inflight" /\ d_valid -> "s_ready"
                    [] OTHER -> state
      /\ asked' = IF accepts(valid) THEN req ELSE asked
      /\ req_reg' = IF a_fire
                    THEN [addr |-> req.addr, size |-> getTLSize(req.typ), data |-> req.data]
                    ELSE req_reg
      /\ a_reg' = IF a_fire THEN [addr |-> req.addr, signed |-> getTLSize(req.typ) % 2 = 1]
                  ELSE a_reg
      /\ bus' = CASE a_fire -> [fcn |-> req.fcn, addr |-> req_reg.addr,
                                size |-> req_reg.size, data |-> req_reg.data]
                  [] d_valid -> NoMessage
                  [] OTHER -> bus

(* Mutant of Adapter: the answer does not make the bridge ready again.     *)
AdapterStuck(valid, req, a_ready, d_valid) ==
  LET a_fire == state = "s_active" /\ a_ready
  IN  /\ state' = CASE accepts(valid) -> "s_active"
                    [] a_fire -> "s_inflight"
                    [] OTHER -> state
      /\ asked' = IF accepts(valid) THEN req ELSE asked
      /\ req_reg' = IF accepts(valid)
                    THEN [addr |-> req.addr, size |-> getTLSize(req.typ), data |-> req.data]
                    ELSE req_reg
      /\ a_reg' = IF a_fire THEN [addr |-> req.addr, signed |-> getTLSize(req.typ) % 2 = 1]
                  ELSE a_reg
      /\ bus' = CASE a_fire -> [fcn |-> req.fcn, addr |-> req_reg.addr,
                                size |-> req_reg.size, data |-> req_reg.data]
                  [] d_valid -> NoMessage
                  [] OTHER -> bus

(* One cycle.  The function code of the message is the one on the wires    *)
(* when the message is sent, everything else comes from the request        *)
(* register; a_signed_reg is one bit and takes the low bit of the size.    *)
Adapter(valid, req, a_ready, d_valid) ==
  LET a_fire == state = "s_active" /\ a_ready
  IN  /\ state' = CASE accepts(valid) -> "s_active"
                    [] a_fire -> "s_inflight"
                    [] state = "s_inflight" /\ d_valid -> "s_ready"
                    [] OTHER -> state
      /\ asked' = IF accepts(valid) THEN req ELSE asked
      /\ req_reg' = IF accepts(valid)
                    THEN [addr |-> req.addr, size |-> getTLSize(req.typ), data |-> req.data]
                    ELSE req_reg
      /\ a_reg' = IF a_fire THEN [addr |-> req.addr, signed |-> getTLSize(req.typ) % 2 = 1]
                  ELSE a_reg
      /\ bus' = CASE a_fire -> [fcn |-> req.fcn, addr |-> req_reg.addr,
                                size |-> req_reg.size, data |-> req_reg.data]
                  [] d_valid -> NoMessage
                  [] OTHER -> bus

(* The bus answers only what it was sent. *)
MayAnswer == IF bus = NoMessage THEN {FALSE} ELSE BOOLEAN

-----------------------------------------------------------------------------
(***************************************************************************)
(* Properties                                                              *)
(***************************************************************************)

(* "store the request when the input port fires to avoid value changes     *)
(* when sending the TileLink request" (master_adapter.scala): what goes to *)
(* the bus is the request that was accepted, whatever the wires carry now. *)
(* The function code is read from the wires all the same, so this needs an *)
(* access that is not taken away before it is sent (DataPort's WaitsForOwn). *)
SentAsAsked ==
  bus # NoMessage =>
    bus = [fcn |-> asked.fcn, addr |-> asked.addr,
           size |-> getTLSize(asked.typ), data |-> asked.data]

(* The address LoadGen shifts the answer by is that of the request.        *)
AddressForLoadGen == state = "s_inflight" => a_reg.addr = asked.addr

(* "Address and signedness of the request to be used by LoadGen"           *)
(* (master_adapter.scala): while the answer is awaited the registers hold  *)
(* those of the request.  The low bit of the size is the signedness of     *)
(* MT_W, MT_O, MT_BU and MT_TU only; run DataPortSigned has the others.    *)
ExtendedAsAsked ==
  state = "s_inflight" =>
    a_reg = [addr |-> asked.addr, signed |-> getTLSigned(asked.typ)]
=============================================================================
