--------------------------- MODULE SessionService ---------------------------
(***************************************************************************)
(* What Server (Server/TCP/src/sourse.cpp) promises to the data, connect   *)
(* and disconnect handlers it is given, with tasks, locks and the session  *)
(* list left out: a session is opened once, its messages are handed over   *)
(* one at a time, none twice and none after the disconnect handler has     *)
(* seen the session, which it does once.  Stopping the server drops every  *)
(* open session without telling the handler.  ServerSessions is shown to   *)
(* implement this module.                                                  *)
(***************************************************************************)
EXTENDS Naturals, Sequences

CONSTANTS
  Sessions,       \* client connections, each made once
  MaxMsgs,        \* messages 1 .. MaxMsgs of a session, in sending order
  Ordered         \* TRUE: messages are handed over in that order

VARIABLES
  phase,          \* [Sessions -> Phase]
  got             \* [Sessions -> Seq(1 .. MaxMsgs)], messages handed over

vars == <<phase, got>>

Phase == {"none", "open", "closed", "dropped"}

TypeOK ==
  /\ phase \in [Sessions -> Phase]
  /\ got \in [Sessions -> Seq(1 .. MaxMsgs)]

Init ==
  /\ phase = [s \in Sessions |-> "none"]
  /\ got = [s \in Sessions |-> <<>>]

(* The connect handler sees the session. *)
Open(s) ==
  /\ phase[s] = "none"
  /\ phase' = [phase EXCEPT ![s] = "open"]
  /\ UNCHANGED got

(* The data handler gets a message of an open session. *)
Deliver(s, m) ==
  /\ phase[s] = "open"
  /\ \A i \in DOMAIN got[s] : got[s][i] # m
  /\ Ordered => m = Len(got[s]) + 1
  /\ got' = [got EXCEPT ![s] = Append(@, m)]
  /\ UNCHANGED phase

(* The disconnect handler sees the session. *)
Close(s) ==
  /\ phase[s] = "open"
  /\ phase' = [phase EXCEPT ![s] = "closed"]
  /\ UNCHANGED got

(* StopServer. *)
DropAll ==
  /\ phase' = [s \in Sessions |-> IF phase[s] = "open" THEN "dropped" ELSE phase[s]]
  /\ UNCHANGED got

Next ==
  \/ \E s \in Sessions :
       Open(s) \/ Close(s) \/ \E m \in 1 .. MaxMsgs : Deliver(s, m)
  \/ DropAll

Spec == Init /\ [][Next]_vars
==============================================================================
