---------------------------- MODULE MCThreadPool ----------------------------
(***************************************************************************)
(* Instances of ThreadPool for TLC: the life-cycle operations each user of *)
(* the pool calls.                                                         *)
(***************************************************************************)
EXTENDS ThreadPool

(* Server: StopServer/StartServer reset, JoinLoop joins, ~Server destroys. *)
ServerOps == {"join", "reset", "destroy"}

(* Everything the class offers. *)
AllOps == {"stop", "start", "join", "reset", "destroy"}
==============================================================================
