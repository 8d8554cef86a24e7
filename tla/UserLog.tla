------------------------------- MODULE UserLog -------------------------------
(***************************************************************************)
(* The user records of the server: the data handler of Server/main.cpp     *)
(* enters a record for each message that names a user, the disconnect      *)
(* handler completes a record, writes the user's records to the database   *)
(* and clears them (Server/TCP/src/sourse.cpp).                            *)
(*                                                                         *)
(* Server calls the handlers as SessionService promises: for one session   *)
(* one at a time, the disconnect handler last and once.  Handlers of       *)
(* different sessions run at the same time, as many as there are workers.  *)
(* Passwords and times are left out; a record is completed by the session  *)
(* whose end it shows.                                                     *)
(*                                                                         *)
(* usersMutex guards every change of the map, but WriteToDB reads the map  *)
(* without it.  A step is a section under the mutex, entered and left in   *)
(* two steps so that the unlocked reads can fall inside, or one such read. *)
(***************************************************************************)
EXTENDS Naturals, Sequences, FiniteSets

CONSTANTS
  Sessions,       \* bound: the client sessions of a behaviour
  PortOf,         \* [Sessions -> port]; ports of different hosts may agree
  Names,          \* user names
  NoName,         \* the empty name, which a session has before any message
  None,           \* no session: a record that is not completed
  MaxAuths,       \* bound: messages that name a user
  MaxHandlers     \* workers: handlers that run at the same time

ASSUME UserLogAssumption ==
  /\ NoName \in Names
  /\ None \notin Sessions
  /\ MaxAuths \in Nat
  /\ MaxHandlers \in Nat

VARIABLES
  (* state of the program *)
  pc,             \* [Sessions -> PC], where the session's handler stands
  username,       \* [Sessions -> Names], username_
  users,          \* [Names -> Seq(Auths)], users; empty: not in the map
  end,            \* [Auths -> Sessions \cup {None}], completed by
  mutex,          \* the session whose handler holds usersMutex, or None
  cursor,         \* [Sessions -> [i, n]], the loop of WriteToDB
  stale,          \* the sessions whose loop runs over freed memory
  table,          \* rows of UserInfo, in order of insertion
  fault,          \* what undefined behaviour was met, or "no"
  (* history *)
  auths,          \* who entered the records, and for which name
  failed          \* records for which an insertion has failed

recordVars == <<users, end, auths>>
rowVars == <<table, failed>>
vars == <<pc, username, users, end, mutex, cursor, stale, table, fault, auths, failed>>

Auths == 1 .. MaxAuths

(***************************************************************************)
(* "auth", "fill" and "erase" want the mutex, "append", "complete" and     *)
(* "clear" hold it; "find" and "write" are WriteToDB before and in its     *)
(* loop.  A session StopServer drops never sees its disconnect handler.    *)
(***************************************************************************)
Waiting == {"auth", "fill", "erase"}
Holding == {"append", "complete", "clear"}
PC == {"none", "open", "find", "write", "closed", "dropped"} \cup Waiting \cup Holding

Row == [auth : Auths, end : Sessions \cup {None}, by : Sessions]

TypeOK ==
  /\ pc \in [Sessions -> PC]
  /\ username \in [Sessions -> Names]
  /\ users \in [Names -> Seq(Auths)]
  /\ end \in [Auths -> Sessions \cup {None}]
  /\ mutex \in Sessions \cup {None}
  /\ cursor \in [Sessions -> [i : 0 .. MaxAuths + 1, n : 0 .. MaxAuths]]
  /\ stale \subseteq Sessions
  /\ table \in Seq(Row)
  /\ fault \in {"no", "race", "freed"}
  /\ auths \in Seq([by : Sessions, name : Names]) /\ Len(auths) <= MaxAuths
  /\ failed \subseteq Auths

Init ==
  /\ pc = [s \in Sessions |-> "none"]
  /\ username = [s \in Sessions |-> NoName]
  /\ users = [n \in Names |-> <<>>]
  /\ end = [a \in Auths |-> None]
  /\ mutex = None
  /\ cursor = [s \in Sessions |-> [i |-> 0, n |-> 0]]
  /\ stale = {}
  /\ table = <<>>
  /\ fault = "no"
  /\ auths = <<>>
  /\ failed = {}

-----------------------------------------------------------------------------
Alive == fault = "no"

Goto(s, from, to) == Alive /\ pc[s] = from /\ pc' = [pc EXCEPT ![s] = to]

Running == {s \in Sessions : pc[s] \notin {"none", "open", "closed", "dropped"}}

WorkerFree == Cardinality(Running) < MaxHandlers

(* lock(), and the end of the scope of the lock_guard *)
Lock(s, from, to) == Goto(s, from, to) /\ mutex = None /\ mutex' = s
Unlock(s, from, to) == Goto(s, from, to) /\ mutex' = None

Mine(s) == users[username[s]]

(* The loops of other sessions over the records of the same user *)
OtherLoops(s) == {t \in Sessions \ {s} : pc[t] = "write" /\ username[t] = username[s]}

(* A vector that started with one element grows when its length is 1, 2,   *)
(* 4, ... and its elements then move.                                      *)
Reallocates(length) == \E k \in 0 .. length : length = 2 ^ k

(* The place in users[n] of the first record with this port, or 0. *)
FirstAt(n, port) ==
  LET at == {i \in DOMAIN users[n] : PortOf[auths[users[n][i]].by] = port}
  IN  IF at = {} THEN 0 ELSE CHOOSE i \in at : \A j \in at : i <= j

-----------------------------------------------------------------------------
(* Faulty variants, one slip each, against which the properties are tried; *)
(* they are no part of the specification.                                  *)

(* The record replaces the others of the user. *)
AuthenticateReplaces(s) ==
  /\ Unlock(s, "append", "open")
  /\ auths' = Append(auths, [by |-> s, name |-> username[s]])
  /\ users' = [users EXCEPT ![username[s]] = <<Len(auths) + 1>>]
  /\ UNCHANGED <<username, end, cursor, stale, rowVars, fault>>

(* No record is completed. *)
OnDisconnectNoFill(s) ==
  /\ Unlock(s, "complete", "find")
  /\ UNCHANGED <<username, recordVars, cursor, stale, rowVars, fault>>

(* The last record with the port is completed. *)
OnDisconnectFillLast(s) ==
  LET at == {i \in DOMAIN Mine(s) : PortOf[auths[Mine(s)[i]].by] = PortOf[s]} IN
  /\ Unlock(s, "complete", "find")
  /\ end' = [a \in Auths |->
               IF \E i \in at : a = Mine(s)[i] /\ \A j \in at : j <= i THEN s ELSE end[a]]
  /\ UNCHANGED <<username, users, auths, cursor, stale, rowVars, fault>>

(* The loop runs one too far. *)
WriteFindOneMore(s) ==
  /\ Goto(s, "find", IF Mine(s) = <<>> THEN "closed" ELSE "write")
  /\ cursor' = [cursor EXCEPT ![s] = [i |-> 1, n |-> Len(Mine(s)) + 1]]
  /\ UNCHANGED <<username, recordVars, mutex, stale, rowVars, fault>>

(* The user's records are not cleared. *)
ClearUserKeeps(s) ==
  /\ Unlock(s, "clear", "closed")
  /\ UNCHANGED <<username, recordVars, cursor, stale, rowVars, fault>>

-----------------------------------------------------------------------------
Connect(s) ==
  /\ Goto(s, "none", "open")
  /\ UNCHANGED <<username, recordVars, mutex, cursor, stale, rowVars, fault>>

(* AutentficateUserInfo: a message with a colon names a user ...           *)
Authenticate(s, n) ==
  /\ WorkerFree
  /\ Len(auths) + Cardinality({t \in Sessions : pc[t] \in {"auth", "append"}}) < MaxAuths
  /\ Goto(s, "open", "auth")
  /\ username' = [username EXCEPT ![s] = n]
  /\ UNCHANGED <<recordVars, mutex, cursor, stale, rowVars, fault>>

AuthenticateLock(s) ==
  /\ Lock(s, "auth", "append")
  /\ UNCHANGED <<username, recordVars, cursor, stale, rowVars, fault>>

(* ... and the record is put behind the others of that user.               *)
AuthenticateAppend(s) ==
  /\ Unlock(s, "append", "open")
  /\ auths' = Append(auths, [by |-> s, name |-> username[s]])
  /\ users' = [users EXCEPT ![username[s]] = Append(@, Len(auths) + 1)]
  /\ stale' = IF Reallocates(Len(Mine(s))) THEN stale \cup OtherLoops(s) ELSE stale
  /\ UNCHANGED <<username, end, cursor, rowVars, fault>>

(* The disconnect handler: OnDisconnect ...                                *)
Disconnect(s) ==
  /\ WorkerFree
  /\ Goto(s, "open", "fill")
  /\ UNCHANGED <<username, recordVars, mutex, cursor, stale, rowVars, fault>>

OnDisconnectLock(s) ==
  /\ Lock(s, "fill", "complete")
  /\ UNCHANGED <<username, recordVars, cursor, stale, rowVars, fault>>

(* ... completes the first record of the user that has the session's port. *)
OnDisconnectFill(s) ==
  LET i == FirstAt(username[s], PortOf[s]) IN
  /\ Unlock(s, "complete", "find")
  /\ end' = IF i = 0 THEN end ELSE [end EXCEPT ![Mine(s)[i]] = s]
  /\ UNCHANGED <<username, users, auths, cursor, stale, rowVars, fault>>

-----------------------------------------------------------------------------
(* WriteToDB *)

(* A reader without the mutex meets the holder's change of the map, or of  *)
(* the record it reads: anything may happen, all may go well.              *)
MapChanging(s) == \E t \in Sessions \ {s} : pc[t] \in {"append", "clear"}

RecordChanging(s, i) ==
  \E t \in Sessions \ {s} :
    /\ username[t] = username[s]
    /\ \/ pc[t] = "clear"
       \/ pc[t] = "append" /\ Reallocates(Len(Mine(s)))
       \/ pc[t] = "complete" /\ FirstAt(username[s], PortOf[t]) = i

Fail(f) ==
  /\ fault' = f
  /\ UNCHANGED <<pc, username, recordVars, mutex, cursor, stale, rowVars>>

(* users.find, and the bounds of the loop *)
WriteFind(s) ==
  /\ Goto(s, "find", IF Mine(s) = <<>> THEN "closed" ELSE "write")
  /\ cursor' = [cursor EXCEPT ![s] = IF Mine(s) = <<>> THEN [i |-> 0, n |-> 0]
                                     ELSE [i |-> 1, n |-> Len(Mine(s))]]
  /\ UNCHANGED <<username, recordVars, mutex, stale, rowVars, fault>>

WriteFindRaces(s) ==
  /\ Alive
  /\ pc[s] = "find"
  /\ MapChanging(s)
  /\ Fail("race")

(* writeToDatabase: the insertion succeeds or fails, the loop goes on.     *)
WriteRecord(s, inserted) ==
  LET i == cursor[s].i  a == Mine(s)[i] IN
  /\ Alive
  /\ pc[s] = "write"
  /\ i <= cursor[s].n
  /\ s \notin stale /\ i \in DOMAIN Mine(s)
  /\ cursor' = [cursor EXCEPT ![s].i = i + 1]
  /\ IF inserted
     THEN /\ table' = Append(table, [auth |-> a, end |-> end[a], by |-> s])
          /\ UNCHANGED failed
     ELSE /\ failed' = failed \cup {a}
          /\ UNCHANGED table
  /\ UNCHANGED <<pc, username, recordVars, mutex, stale, fault>>

WriteRecordFaults(s) ==
  LET i == cursor[s].i IN
  /\ Alive
  /\ pc[s] = "write"
  /\ i <= cursor[s].n
  /\ IF s \in stale \/ i \notin DOMAIN Mine(s)
     THEN Fail("freed")
     ELSE RecordChanging(s, i) /\ Fail("race")

WriteEnd(s) ==
  /\ cursor[s].i > cursor[s].n
  /\ Goto(s, "write", "erase")
  /\ cursor' = [cursor EXCEPT ![s] = [i |-> 0, n |-> 0]]
  /\ stale' = stale \ {s}
  /\ UNCHANGED <<username, recordVars, mutex, rowVars, fault>>

(* clearUser: all records of the user go, whoever entered them.            *)
ClearLock(s) ==
  /\ Lock(s, "erase", "clear")
  /\ UNCHANGED <<username, recordVars, cursor, stale, rowVars, fault>>

ClearUser(s) ==
  /\ Unlock(s, "clear", "closed")
  /\ users' = [users EXCEPT ![username[s]] = <<>>]
  /\ stale' = stale \cup OtherLoops(s)
  /\ UNCHANGED <<username, end, auths, cursor, rowVars, fault>>

-----------------------------------------------------------------------------
(* StopServer, when no handler runs: the sessions go, the records stay. *)
StopServer ==
  /\ Alive
  /\ Running = {}
  /\ pc' = [s \in Sessions |-> IF pc[s] = "open" THEN "dropped" ELSE pc[s]]
  /\ UNCHANGED <<username, recordVars, mutex, cursor, stale, rowVars, fault>>

DataHandler(s) ==
  \/ \E n \in Names : Authenticate(s, n)
  \/ AuthenticateLock(s)
  \/ AuthenticateAppend(s)

DisconnectHandler(s) ==
  \/ Disconnect(s)
  \/ OnDisconnectLock(s)
  \/ OnDisconnectFill(s)
  \/ WriteFind(s)
  \/ WriteFindRaces(s)
  \/ \E inserted \in BOOLEAN : WriteRecord(s, inserted)
  \/ WriteRecordFaults(s)
  \/ WriteEnd(s)
  \/ ClearLock(s)
  \/ ClearUser(s)

Next ==
  \/ \E s \in Sessions : Connect(s) \/ DataHandler(s) \/ DisconnectHandler(s)
  \/ StopServer

Spec == Init /\ [][Next]_vars

-----------------------------------------------------------------------------
(* Safety *)

Pending == {a \in Auths : \E n \in Names : \E i \in DOMAIN users[n] : users[n][i] = a}

RowsOf(a) == {k \in DOMAIN table : table[k].auth = a}

(* With one worker WriteToDB never reads a record that is changed or freed *)
(* under it.                                                               *)
SafeReads == fault = "no"

(* A record that is still in the map when its session has been closed was  *)
(* entered under another name than the session's last one: WriteToDB       *)
(* takes every record of that last name, and no other of the session.      *)
LeftoverOnlyRenamed ==
  \A a \in Pending :
    pc[auths[a].by] = "closed" => auths[a].name # username[auths[a].by]

(* A user name that only one session has used, for one message, gives      *)
(* exactly one row, with that session's end, once the session is closed,   *)
(* or none if the insertion failed; whatever the other sessions do.        *)
SoleAuth(a) ==
  /\ auths[a].name # NoName
  /\ auths[a].name = username[auths[a].by]
  /\ \A b \in DOMAIN auths : auths[b].name = auths[a].name => a = b

LoggedOnce ==
  \A a \in DOMAIN auths :
    SoleAuth(a) /\ pc[auths[a].by] = "closed" =>
      \/ \E k \in RowsOf(a) : RowsOf(a) = {k} /\ table[k].end = auths[a].by
      \/ RowsOf(a) = {} /\ a \in failed

(* A row lacks the end of its session for one of two reasons only: it was  *)
(* written by another session of the same user, or an earlier record of    *)
(* the same user and port was completed in its place.                      *)
IncompleteRow ==
  \A k \in DOMAIN table :
    LET a == table[k].auth IN
    table[k].end = None =>
      \/ table[k].by # auths[a].by
      \/ \E b \in 1 .. a - 1 :
           /\ auths[b].name = auths[a].name
           /\ PortOf[auths[b].by] = PortOf[auths[a].by]

-----------------------------------------------------------------------------
(* The records implement ConnectionLedger: with one worker each            *)
(* authentication gets at most one row, with more it may get several, but  *)
(* in both cases none before it is entered and none after it is cleared.   *)
rowCount == [a \in Auths |-> Cardinality(RowsOf(a))]

OneRow == INSTANCE ConnectionLedger
            WITH seen <- Len(auths), pending <- Pending, rows <- rowCount, Once <- TRUE
SomeRows == INSTANCE ConnectionLedger
              WITH seen <- Len(auths), pending <- Pending, rows <- rowCount, Once <- FALSE

OneRowEach == OneRow!Spec
SomeRowsEach == SomeRows!Spec
==============================================================================
