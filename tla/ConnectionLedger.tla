-------------------------- MODULE ConnectionLedger --------------------------
(***************************************************************************)
(* What the server's user records (Server/TCP/src/sourse.cpp) amount to,   *)
(* with sessions, names and locks left out: an authentication is entered   *)
(* once, rows are written for it only while it is entered, and an entry    *)
(* that is cleared never comes back.  UserLog is shown to implement it.    *)
(***************************************************************************)
EXTENDS Naturals

CONSTANTS
  MaxAuths,       \* bound: authentications, numbered as they are entered
  Once            \* TRUE: no authentication gets a second row

VARIABLES
  seen,           \* authentications entered so far
  pending,        \* those not cleared yet
  rows            \* [1 .. MaxAuths -> Nat], rows in the table of each

vars == <<seen, pending, rows>>

Init ==
  /\ seen = 0
  /\ pending = {}
  /\ rows = [a \in 1 .. MaxAuths |-> 0]

Enter ==
  /\ seen < MaxAuths
  /\ seen' = seen + 1
  /\ pending' = pending \cup {seen + 1}
  /\ UNCHANGED rows

Write(a) ==
  /\ a \in pending
  /\ Once => rows[a] = 0
  /\ rows' = [rows EXCEPT ![a] = @ + 1]
  /\ UNCHANGED <<seen, pending>>

Clear ==
  /\ \E some \in SUBSET pending : pending' = pending \ some
  /\ UNCHANGED <<seen, rows>>

Next == Enter \/ Clear \/ \E a \in 1 .. MaxAuths : Write(a)

Spec == Init /\ [][Next]_vars
==============================================================================
