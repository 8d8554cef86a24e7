------------------------------ MODULE MCUserLog ------------------------------
(***************************************************************************)
(* Instances of UserLog for TLC: which sessions have the same port.        *)
(***************************************************************************)
EXTENDS UserLog, TLC

CONSTANTS c1, c2, c3

(* c1 and c2 come from different hosts with the same port. *)
SharedPort == (c1 :> 5000) @@ (c2 :> 5000) @@ (c3 :> 5001)
==============================================================================
