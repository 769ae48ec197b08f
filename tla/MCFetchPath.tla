---------------------------- MODULE MCFetchPath ----------------------------
(***************************************************************************)
(* Address maps for FetchPath.                                             *)
(***************************************************************************)
EXTENDS FetchPath

(* All code behind the bus, or all code in the scratchpad. *)
UniformRanges == {{}, 0..3}
=============================================================================
