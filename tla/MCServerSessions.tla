-------------------------- MODULE MCServerSessions --------------------------
(***************************************************************************)
(* Instances of ServerSessions for TLC: what the control thread calls      *)
(* besides StartServer, and the symmetry of sessions and workers.          *)
(***************************************************************************)
EXTENDS ServerSessions, TLC

(* A server that is only started, stopped and restarted. *)
LifeOps == {"stop"}

AllOps == {"stop", "disconnect", "send", "connect"}

Symmetry == Permutations(Sessions) \cup Permutations(Workers)
==============================================================================
