---------------------------- MODULE UserLogProofs ----------------------------
(***************************************************************************)
(* The user records of the server, for any number of sessions, names,      *)
(* messages and handlers: what a record in the map is, which records are   *)
(* left there, how often and by whom they are written, and, for a server   *)
(* with one worker, that WriteToDB never reads memory that changes.        *)
(***************************************************************************)
EXTENDS UserLog, FiniteSetTheorems, SequenceTheorems, WellFoundedInduction, TLAPS

-----------------------------------------------------------------------------
(* The inductive invariant *)

(* Handlers that are about to enter a record *)
Entering == {t \in Sessions : pc[t] \in {"auth", "append"}}

(* There is room for the records of the handlers that are about to enter   *)
(* one.  What is in the map under a name was entered for that name, in the *)
(* order of the map; what is in the table was entered.                     *)
Entered ==
  /\ IsFiniteSet(Entering) /\ Len(auths) + Cardinality(Entering) <= MaxAuths
  /\ \A n \in Names :
       /\ Len(users[n]) <= Len(auths)
       /\ \A i \in DOMAIN users[n] :
            users[n][i] \in DOMAIN auths /\ auths[users[n][i]].name = n
       /\ \A i, j \in DOMAIN users[n] : i < j => users[n][i] < users[n][j]
  /\ \A k \in DOMAIN table : table[k].auth \in DOMAIN auths

(* A session has the name of a record it has entered, but for the moment   *)
(* before it enters the first one of that name.                            *)
NameUsed ==
  \A t \in Sessions :
    /\ pc[t] = "none" => username[t] = NoName
    /\ username[t] # NoName /\ pc[t] \notin {"auth", "append"} =>
         \E b \in DOMAIN auths : auths[b] = [by |-> t, name |-> username[t]]

(* An earlier record of the same user and port *)
Replaced(a) ==
  \E b \in 1 .. a - 1 :
    /\ auths[b].name = auths[a].name
    /\ PortOf[auths[b].by] = PortOf[auths[a].by]

(* WriteToDB finds the session's records completed, or an earlier one in   *)
(* their place.                                                            *)
Completed ==
  \A s \in Sessions : pc[s] \in {"find", "write"} =>
    \A i \in DOMAIN Mine(s) :
      auths[Mine(s)[i]].by = s => end[Mine(s)[i]] # None \/ Replaced(Mine(s)[i])

(* One row with the session's end, or none because the insertion failed *)
Written(a) ==
  \/ \E k \in RowsOf(a) : RowsOf(a) = {k} /\ table[k].end = auths[a].by
  \/ RowsOf(a) = {} /\ a \in failed

(* The only record of a name, along the way of its session *)
SoleState(a) ==
  LET s == auths[a].by IN
  /\ pc[s] \in {"open", "fill", "complete", "find", "dropped"} =>
       Mine(s) = <<a>> /\ RowsOf(a) = {}
  /\ pc[s] = "find" => end[a] = s
  /\ pc[s] = "write" =>
       /\ Mine(s) = <<a>> /\ cursor[s].n = 1 /\ end[a] = s
       /\ \/ cursor[s].i = 1 /\ RowsOf(a) = {}
          \/ cursor[s].i = 2 /\ Written(a)
  /\ pc[s] \in {"erase", "clear", "closed"} => Written(a)

Sole == \A a \in DOMAIN auths : SoleAuth(a) => SoleState(a)

(* What holds whatever the number of handlers *)
Inv ==
  /\ TypeOK /\ Entered /\ NameUsed
  /\ Completed /\ LeftoverOnlyRenamed /\ IncompleteRow
  /\ Sole

(* With one handler at a time: a record that has a row and is still in the *)
(* map belongs to the session that is writing or about to clear it.        *)
RowsOnce ==
  \A n \in Names : \A i \in DOMAIN users[n] : RowsOf(users[n][i]) # {} =>
    \E s \in Sessions :
      /\ username[s] = n
      /\ pc[s] \in {"erase", "clear"} \/ (pc[s] = "write" /\ i < cursor[s].i)

InLoop(s) ==
  pc[s] = "write" =>
    cursor[s].i \in 1 .. cursor[s].n + 1 /\ cursor[s].n <= Len(Mine(s))

Serial ==
  /\ fault = "no" /\ stale = {}
  /\ IsFiniteSet(Running)
  /\ \A s, t \in Running : s = t
  /\ \A s \in Sessions : InLoop(s)
  /\ RowsOnce

-----------------------------------------------------------------------------

(* FirstAt is the lowest place with the port. *)
LEMMA FirstFound ==
  ASSUME NEW n \in Names, NEW port, users[n] \in Seq(Auths)
  PROVE  LET at == {i \in DOMAIN users[n] : PortOf[auths[users[n][i]].by] = port}
         IN  /\ at = {} => FirstAt(n, port) = 0
             /\ at # {} => FirstAt(n, port) \in at
             /\ \A j \in at : FirstAt(n, port) <= j
<1> DEFINE at == {i \in DOMAIN users[n] : PortOf[auths[users[n][i]].by] = port}
<1>1. at \subseteq Nat
  OBVIOUS
<1> HIDE DEF at
<1>2. ASSUME at # {} PROVE \E i \in at : \A j \in at : i <= j
  <2>1. PICK x \in at : \A y \in at : ~ (<<y, x>> \in OpToRel(<, Nat))
    BY <1>1, <1>2, NatLessThanWellFounded, WFMin
  <2>2. \A y \in at : <<y, x>> \in OpToRel(<, Nat) <=>
                        <<y, x>> \in Nat \X Nat /\ <<y, x>>[1] < <<y, x>>[2]
    BY Zenon DEF OpToRel
  <2>3. ASSUME NEW y \in at PROVE x <= y
    <3>1. <<y, x>> \in Nat \X Nat
      BY <1>1
    <3>2. ~ (<<y, x>>[1] < <<y, x>>[2])
      BY <2>1, <2>2, <3>1, Zenon
    <3> QED
      BY <1>1, <3>2
  <2> QED
    BY <2>3
<1>3. FirstAt(n, port) = IF at = {} THEN 0 ELSE CHOOSE i \in at : \A j \in at : i <= j
  BY DEF FirstAt, at
<1>4. /\ at = {} => FirstAt(n, port) = 0
      /\ at # {} => FirstAt(n, port) \in at
      /\ \A j \in at : FirstAt(n, port) <= j
  BY <1>2, <1>3
<1> QED
  BY <1>4 DEF at

(* A row at the end of the table is a row of its record only. *)
LEMMA RowAdded ==
  ASSUME table \in Seq(Row), NEW r \in Row, table' = Append(table, r), NEW a
  PROVE  RowsOf(a)' = IF r.auth = a THEN RowsOf(a) \cup {Len(table) + 1} ELSE RowsOf(a)
<1>1. DOMAIN table' = DOMAIN table \cup {Len(table) + 1}
  OBVIOUS
<1>2. \A k \in DOMAIN table : table'[k] = table[k]
  OBVIOUS
<1>3. table'[Len(table) + 1] = r
  OBVIOUS
<1>4. Len(table) + 1 \notin DOMAIN table
  OBVIOUS
<1> QED
  BY <1>1, <1>2, <1>3, <1>4 DEF RowsOf

(* Rows stay what they are in a step that writes none. *)
LEMMA RowsSame == ASSUME UNCHANGED table, NEW a PROVE RowsOf(a)' = RowsOf(a)
  BY DEF RowsOf

(* Handlers that move one step: a set of them gains or loses one session. *)
LEMMA OneMore ==
  ASSUME NEW S, IsFiniteSet(S), NEW T, NEW s, T \subseteq S \cup {s}
  PROVE  /\ IsFiniteSet(T)
         /\ Cardinality(T) <= Cardinality(S) + 1
         /\ T \subseteq S => Cardinality(T) <= Cardinality(S)
         /\ s \in S /\ s \notin T => Cardinality(T) <= Cardinality(S) - 1
         /\ Cardinality(S) \in Nat /\ Cardinality(T) \in Nat
<1>1. /\ IsFiniteSet(S \cup {s})
      /\ Cardinality(S \cup {s}) = IF s \in S THEN Cardinality(S) ELSE Cardinality(S) + 1
  BY FS_AddElement
<1>2. IsFiniteSet(T) /\ Cardinality(T) <= Cardinality(S \cup {s})
  BY <1>1, FS_Subset
<1>3. Cardinality(S) \in Nat /\ Cardinality(T) \in Nat
  BY <1>2, FS_CardinalityType
<1>4. T \subseteq S => Cardinality(T) <= Cardinality(S)
  BY FS_Subset
<1>5. ASSUME s \in S, s \notin T PROVE Cardinality(T) <= Cardinality(S) - 1
  <2>1. IsFiniteSet(S \ {s}) /\ Cardinality(S \ {s}) = Cardinality(S) - 1
    BY <1>5, FS_RemoveElement
  <2>2. T \subseteq S \ {s}
    BY <1>5
  <2> QED
    BY <2>1, <2>2, FS_Subset
<1> QED
  BY <1>1, <1>2, <1>3, <1>4, <1>5

-----------------------------------------------------------------------------
(* At the start nothing is entered, written or running. *)
LEMMA InitInv == ASSUME Init PROVE Inv /\ Serial
<1> USE UserLogAssumption
<1>0. IsFiniteSet({}) /\ Cardinality({}) = 0
  BY FS_EmptySet
<1>1. TypeOK
  BY DEF Init, TypeOK, PC, Auths
<1>2. Entering = {} /\ Running = {}
  BY DEF Init, Entering, Running
<1>3. Entered /\ NameUsed /\ Completed /\ IncompleteRow /\ Sole
  BY <1>0, <1>2 DEF Init, Entered, NameUsed, Completed, IncompleteRow, Sole
<1>4. LeftoverOnlyRenamed
  BY DEF Init, LeftoverOnlyRenamed, Pending
<1>5. Serial
  BY <1>0, <1>2 DEF Init, Serial, InLoop, RowsOnce
<1> QED
  BY <1>1, <1>3, <1>4, <1>5 DEF Inv

(* The bounds a step keeps to, and the record the loop has in hand *)
LEMMA Bounds ==
  ASSUME TypeOK, Entered
  PROVE  /\ MaxAuths \in Nat /\ Len(auths) \in Nat /\ Len(auths) <= MaxAuths
         /\ \A n \in Names :
              /\ users[n] \in Seq(Auths) /\ Len(users[n]) \in 0 .. MaxAuths
              /\ \A i \in DOMAIN users[n] : users[n][i] \in Auths
         /\ \A s \in Sessions : username[s] \in Names /\ Mine(s) \in Seq(Auths)
         /\ \A s \in Entering : Len(auths) + 1 <= MaxAuths
<1> USE UserLogAssumption
<1>1. MaxAuths \in Nat /\ Len(auths) \in Nat /\ Len(auths) <= MaxAuths
  BY DEF TypeOK
<1>2. \A n \in Names : users[n] \in Seq(Auths)
  BY DEF TypeOK
<1>3. ASSUME NEW n \in Names
      PROVE  Len(users[n]) \in 0 .. MaxAuths /\ \A i \in DOMAIN users[n] : users[n][i] \in Auths
  BY <1>1, <1>2, <1>3 DEF Entered
<1>4. \A s \in Sessions : username[s] \in Names /\ Mine(s) \in Seq(Auths)
  BY <1>2 DEF TypeOK, Mine
<1>5. ASSUME NEW s \in Entering PROVE Len(auths) + 1 <= MaxAuths
  <2>1. Cardinality(Entering) # 0 /\ Cardinality(Entering) \in Nat
    BY <1>5, FS_EmptySet, FS_CardinalityType DEF Entered
  <2> QED
    BY <1>1, <2>1 DEF Entered
<1> QED
  BY <1>1, <1>2, <1>3, <1>4, <1>5

(* The history of entries is a sequence of entries. *)
LEMMA EntryType ==
  ASSUME TypeOK
  PROVE  /\ DOMAIN auths = 1 .. Len(auths) /\ Len(auths) \in Nat
         /\ \A a \in DOMAIN auths :
              /\ a \in Nat /\ auths[a] \in [by : Sessions, name : Names]
              /\ auths[a].by \in Sessions /\ auths[a].name \in Names
<1> DEFINE Entry == [by : Sessions, name : Names]
<1>1. auths \in Seq(Entry)
  BY DEF TypeOK
<1> HIDE DEF Entry
<1>2. /\ DOMAIN auths = 1 .. Len(auths) /\ Len(auths) \in Nat
      /\ \A a \in 1 .. Len(auths) : auths[a] \in Entry
  BY <1>1, ElementOfSeq
<1>3. \A a \in 1 .. Len(auths) : a \in Nat
  BY <1>2
<1> QED
  BY <1>2, <1>3 DEF Entry

(* Every step keeps the types. *)
LEMMA StepType == ASSUME TypeOK, Entered, [Next]_vars PROVE TypeOK'
<1> USE UserLogAssumption DEF TypeOK
<1>0. /\ Len(auths) <= MaxAuths
      /\ \A n \in Names : users[n] \in Seq(Auths) /\ Len(users[n]) \in 0 .. MaxAuths
      /\ \A s \in Sessions : username[s] \in Names /\ Mine(s) \in Seq(Auths)
      /\ \A s \in Entering : Len(auths) + 1 <= MaxAuths
  BY Bounds
<1>1. CASE UNCHANGED vars
  BY <1>1 DEF vars, recordVars, rowVars
<1>2. CASE StopServer
  BY <1>2 DEF StopServer, PC, recordVars, rowVars
<1>3. ASSUME NEW s \in Sessions,
             Connect(s) \/ AuthenticateLock(s) \/ Disconnect(s) \/ OnDisconnectLock(s)
               \/ ClearLock(s)
      PROVE  TypeOK'
  BY <1>3 DEF Connect, AuthenticateLock, Disconnect, OnDisconnectLock, ClearLock, Goto,
              Lock, PC, Waiting, Holding, recordVars, rowVars
<1>4. ASSUME NEW s \in Sessions, NEW n \in Names, Authenticate(s, n) PROVE TypeOK'
  BY <1>4 DEF Authenticate, Goto, PC, Waiting, recordVars, rowVars
<1>5. ASSUME NEW s \in Sessions, AuthenticateAppend(s) PROVE TypeOK'
  <2>1. s \in Entering
    BY <1>5 DEF AuthenticateAppend, Unlock, Goto, Entering
  <2>2. /\ auths' \in Seq([by : Sessions, name : Names]) /\ Len(auths') <= MaxAuths
        /\ Len(auths) + 1 \in Auths
    BY <1>0, <1>5, <2>1 DEF AuthenticateAppend, Auths
  <2>3. users' \in [Names -> Seq(Auths)]
    <3>1. Append(users[username[s]], Len(auths) + 1) \in Seq(Auths)
      BY <1>0, <2>2
    <3> QED
      BY <1>0, <1>5, <3>1 DEF AuthenticateAppend
  <2>4. stale' \subseteq Sessions
    BY <1>5 DEF AuthenticateAppend, OtherLoops
  <2> QED
    BY <1>5, <2>2, <2>3, <2>4 DEF AuthenticateAppend, Unlock, Goto, PC, rowVars
<1>6. ASSUME NEW s \in Sessions, OnDisconnectFill(s) PROVE TypeOK'
  <2>1. end' \in [Auths -> Sessions \cup {None}]
    BY <1>6 DEF OnDisconnectFill
  <2> QED
    BY <1>6, <2>1 DEF OnDisconnectFill, Unlock, Goto, PC, rowVars
<1>7. ASSUME NEW s \in Sessions, WriteFind(s) PROVE TypeOK'
  <2>1. Len(Mine(s)) \in 0 .. MaxAuths
    BY <1>0 DEF Mine
  <2>2. cursor' \in [Sessions -> [i : 0 .. MaxAuths + 1, n : 0 .. MaxAuths]]
    BY <1>7, <2>1 DEF WriteFind
  <2> QED
    BY <1>7, <2>2 DEF WriteFind, Goto, PC, recordVars, rowVars
<1>8. ASSUME NEW s \in Sessions, NEW inserted \in BOOLEAN, WriteRecord(s, inserted)
      PROVE  TypeOK'
  <2> DEFINE a == Mine(s)[cursor[s].i]
  <2>1. a \in Auths
    BY <1>0, <1>8 DEF WriteRecord
  <2>2. cursor' \in [Sessions -> [i : 0 .. MaxAuths + 1, n : 0 .. MaxAuths]]
    <3>1. cursor[s].i + 1 \in 0 .. MaxAuths + 1
      BY <1>8 DEF WriteRecord
    <3>2. cursor' = [cursor EXCEPT ![s].i = cursor[s].i + 1]
      BY <1>8 DEF WriteRecord
    <3>3. cursor[s] \in [i : 0 .. MaxAuths + 1, n : 0 .. MaxAuths]
      OBVIOUS
    <3>4. [cursor[s] EXCEPT !.i = cursor[s].i + 1]
            \in [i : 0 .. MaxAuths + 1, n : 0 .. MaxAuths]
      BY <3>1, <3>3
    <3> QED
      BY <3>2, <3>4
  <2>3. table' \in Seq(Row)
    <3>1. [auth |-> a, end |-> end[a], by |-> s] \in Row
      BY <2>1 DEF Row
    <3>2. CASE inserted
      <4>1. table' = Append(table, [auth |-> a, end |-> end[a], by |-> s])
        BY <1>8, <3>2 DEF WriteRecord
      <4>2. table \in Seq(Row)
        OBVIOUS
      <4> HIDE DEF TypeOK, a
      <4> QED
        BY <3>1, <4>1, <4>2
    <3>3. CASE ~inserted
      BY <1>8, <3>3 DEF WriteRecord
    <3> QED
      BY <3>2, <3>3
  <2>4. failed' \subseteq Auths
    BY <1>8, <2>1 DEF WriteRecord
  <2> QED
    BY <1>8, <2>2, <2>3, <2>4 DEF WriteRecord, recordVars
<1>9. ASSUME NEW s \in Sessions, WriteFindRaces(s) \/ WriteRecordFaults(s) PROVE TypeOK'
  BY <1>9 DEF WriteFindRaces, WriteRecordFaults, Fail, recordVars, rowVars
<1>10. ASSUME NEW s \in Sessions, WriteEnd(s) PROVE TypeOK'
  <2>1. cursor' \in [Sessions -> [i : 0 .. MaxAuths + 1, n : 0 .. MaxAuths]]
    BY <1>10 DEF WriteEnd
  <2> QED
    BY <1>10, <2>1 DEF WriteEnd, Goto, PC, Waiting, recordVars, rowVars
<1>11. ASSUME NEW s \in Sessions, ClearUser(s) PROVE TypeOK'
  <2>1. users' \in [Names -> Seq(Auths)] /\ stale' \subseteq Sessions
    BY <1>11 DEF ClearUser, OtherLoops
  <2> QED
    BY <1>11, <2>1 DEF ClearUser, Unlock, Goto, PC, rowVars
<1> QED
  BY <1>1, <1>2, <1>3, <1>4, <1>5, <1>6, <1>7, <1>8, <1>9, <1>10, <1>11
     DEF Next, DataHandler, DisconnectHandler

-----------------------------------------------------------------------------
(* What the steps do to the records: the effects of the actions, without   *)
(* mutex, stale loops and faults.                                          *)

Goes(s, from, to) ==
  /\ pc[s] = from
  /\ pc'[s] = to
  /\ \A t \in Sessions \ {s} : pc'[t] = pc[t]
  /\ DOMAIN pc' = Sessions

NothingEffect == UNCHANGED <<pc, username, users, end, auths, cursor, table, failed>>

StopEffect ==
  /\ Running = {}
  /\ pc' = [s \in Sessions |-> IF pc[s] = "open" THEN "dropped" ELSE pc[s]]
  /\ UNCHANGED <<username, users, end, auths, cursor, table, failed>>

MoveEffect(s) ==
  /\ \/ Goes(s, "none", "open")
     \/ Goes(s, "auth", "append")
     \/ Goes(s, "open", "fill")
     \/ Goes(s, "fill", "complete")
     \/ Goes(s, "write", "erase") /\ cursor[s].i > cursor[s].n
     \/ Goes(s, "erase", "clear")
  /\ \A t \in Sessions \ {s} : cursor'[t] = cursor[t]
  /\ UNCHANGED <<username, users, end, auths, table, failed>>

NameEffect(s, n) ==
  /\ Len(auths) + Cardinality(Entering) < MaxAuths
  /\ Goes(s, "open", "auth")
  /\ username'[s] = n
  /\ \A t \in Sessions \ {s} : username'[t] = username[t]
  /\ UNCHANGED <<users, end, auths, cursor, table, failed>>

AppendEffect(s) ==
  /\ Goes(s, "append", "open")
  /\ auths' = Append(auths, [by |-> s, name |-> username[s]])
  /\ users' = [users EXCEPT ![username[s]] = Append(users[username[s]], Len(auths) + 1)]
  /\ UNCHANGED <<username, end, cursor, table, failed>>

FillEffect(s) ==
  LET i == FirstAt(username[s], PortOf[s]) IN
  /\ Goes(s, "complete", "find")
  /\ end' = IF i = 0 THEN end ELSE [end EXCEPT ![Mine(s)[i]] = s]
  /\ UNCHANGED <<username, users, auths, cursor, table, failed>>

FindEffect(s) ==
  /\ \/ Mine(s) = <<>> /\ Goes(s, "find", "closed")
     \/ /\ Mine(s) # <<>> /\ Goes(s, "find", "write")
        /\ cursor'[s] = [i |-> 1, n |-> Len(Mine(s))]
  /\ \A t \in Sessions \ {s} : cursor'[t] = cursor[t]
  /\ UNCHANGED <<username, users, end, auths, table, failed>>

RowEffect(s) ==
  LET i == cursor[s].i  a == Mine(s)[i] IN
  /\ pc[s] = "write"
  /\ i <= cursor[s].n /\ i \in DOMAIN Mine(s)
  /\ cursor'[s].i = i + 1 /\ cursor'[s].n = cursor[s].n
  /\ \A t \in Sessions \ {s} : cursor'[t] = cursor[t]
  /\ \/ /\ table' = Append(table, [auth |-> a, end |-> end[a], by |-> s])
        /\ UNCHANGED failed
     \/ failed' = failed \cup {a} /\ UNCHANGED table
  /\ UNCHANGED <<pc, username, users, end, auths>>

ClearEffect(s) ==
  /\ Goes(s, "clear", "closed")
  /\ users' = [users EXCEPT ![username[s]] = <<>>]
  /\ UNCHANGED <<username, end, auths, cursor, table, failed>>

RecordEffect ==
  \/ NothingEffect
  \/ StopEffect
  \/ \E s \in Sessions :
       \/ MoveEffect(s)
       \/ \E n \in Names : NameEffect(s, n)
       \/ AppendEffect(s)
       \/ FillEffect(s)
       \/ FindEffect(s)
       \/ RowEffect(s)
       \/ ClearEffect(s)

(* Every step has one of these effects. *)
LEMMA RecordMoves == ASSUME TypeOK, [Next]_vars PROVE RecordEffect
<1>0. /\ pc \in [Sessions -> PC] /\ username \in [Sessions -> Names]
      /\ cursor \in [Sessions -> [i : 0 .. MaxAuths + 1, n : 0 .. MaxAuths]]
  BY DEF TypeOK
<1>1. CASE UNCHANGED vars
  BY <1>1 DEF vars, recordVars, rowVars, RecordEffect, NothingEffect
<1>2. CASE StopServer
  BY <1>2 DEF StopServer, recordVars, rowVars, RecordEffect, StopEffect
<1>3. ASSUME NEW s \in Sessions,
             Connect(s) \/ AuthenticateLock(s) \/ Disconnect(s) \/ OnDisconnectLock(s)
               \/ ClearLock(s) \/ WriteEnd(s)
      PROVE  RecordEffect
  <2>1. MoveEffect(s)
    BY <1>0, <1>3 DEF Connect, AuthenticateLock, Disconnect, OnDisconnectLock, ClearLock,
              WriteEnd, Goto, Lock, recordVars, rowVars, MoveEffect, Goes
  <2> QED
    BY <2>1 DEF RecordEffect
<1>4. ASSUME NEW s \in Sessions, NEW n \in Names, Authenticate(s, n) PROVE RecordEffect
  <2>1. NameEffect(s, n)
    BY <1>0, <1>4 DEF Authenticate, Goto, recordVars, rowVars, NameEffect, Goes, Entering
  <2> QED
    BY <2>1 DEF RecordEffect
<1>5. ASSUME NEW s \in Sessions, AuthenticateAppend(s) PROVE RecordEffect
  <2>1. AppendEffect(s)
    BY <1>0, <1>5 DEF AuthenticateAppend, Unlock, Goto, rowVars, AppendEffect, Goes
  <2> QED
    BY <2>1 DEF RecordEffect
<1>6. ASSUME NEW s \in Sessions, OnDisconnectFill(s) PROVE RecordEffect
  <2>1. FillEffect(s)
    BY <1>0, <1>6 DEF OnDisconnectFill, Unlock, Goto, rowVars, FillEffect, Goes
  <2> QED
    BY <2>1 DEF RecordEffect
<1>7. ASSUME NEW s \in Sessions, WriteFind(s) PROVE RecordEffect
  <2>1. FindEffect(s)
    BY <1>0, <1>7 DEF WriteFind, Goto, recordVars, rowVars, FindEffect, Goes
  <2> QED
    BY <2>1 DEF RecordEffect
<1>8. ASSUME NEW s \in Sessions, NEW inserted \in BOOLEAN, WriteRecord(s, inserted)
      PROVE  RecordEffect
  <2>1. /\ pc[s] = "write"
        /\ cursor[s].i <= cursor[s].n /\ cursor[s].i \in DOMAIN Mine(s)
        /\ cursor' = [cursor EXCEPT ![s].i = cursor[s].i + 1]
        /\ UNCHANGED <<pc, username, users, end, auths>>
    BY <1>8 DEF WriteRecord, recordVars
  <2>2. \/ /\ table' = Append(table, [auth |-> Mine(s)[cursor[s].i],
                                      end |-> end[Mine(s)[cursor[s].i]], by |-> s])
           /\ UNCHANGED failed
        \/ failed' = failed \cup {Mine(s)[cursor[s].i]} /\ UNCHANGED table
    BY <1>8 DEF WriteRecord
  <2>3. /\ cursor'[s].i = cursor[s].i + 1 /\ cursor'[s].n = cursor[s].n
        /\ \A t \in Sessions \ {s} : cursor'[t] = cursor[t]
    BY <1>0, <2>1
  <2>4. RowEffect(s)
    BY <2>1, <2>2, <2>3 DEF RowEffect
  <2> QED
    BY <2>4 DEF RecordEffect
<1>9. ASSUME NEW s \in Sessions, WriteFindRaces(s) \/ WriteRecordFaults(s) PROVE RecordEffect
  BY <1>9 DEF WriteFindRaces, WriteRecordFaults, Fail, recordVars, rowVars, RecordEffect,
              NothingEffect
<1>10. ASSUME NEW s \in Sessions, ClearUser(s) PROVE RecordEffect
  <2>1. ClearEffect(s)
    BY <1>0, <1>10 DEF ClearUser, Unlock, Goto, rowVars, ClearEffect, Goes
  <2> QED
    BY <2>1 DEF RecordEffect
<1> QED
  BY <1>1, <1>2, <1>3, <1>4, <1>5, <1>6, <1>7, <1>8, <1>9, <1>10
     DEF Next, DataHandler, DisconnectHandler

-----------------------------------------------------------------------------
(* A record that is entered takes the next number; the others keep their   *)
(* entry and their place.                                                  *)
LEMMA AppendFacts ==
  ASSUME TypeOK, Entered, NEW s \in Sessions, AppendEffect(s)
  PROVE  LET n == username[s]  new == Len(auths) + 1 IN
         /\ n \in Names /\ new \in Auths
         /\ DOMAIN auths = 1 .. Len(auths)
         /\ Len(auths') = new /\ DOMAIN auths' = 1 .. new
         /\ \A a \in DOMAIN auths : auths'[a] = auths[a]
         /\ auths'[new] = [by |-> s, name |-> n]
         /\ \A k \in Names \ {n} : users'[k] = users[k]
         /\ Len(users'[n]) = Len(users[n]) + 1
         /\ DOMAIN users[n] = 1 .. Len(users[n])
         /\ DOMAIN users'[n] = 1 .. Len(users[n]) + 1
         /\ \A i \in DOMAIN users[n] : users'[n][i] = users[n][i]
         /\ users'[n][Len(users[n]) + 1] = new
<1> DEFINE n == username[s]
           new == Len(auths) + 1
<1>1. /\ n \in Names /\ users[n] \in Seq(Auths) /\ Len(auths) \in Nat
      /\ s \in Entering => new <= MaxAuths
  BY Bounds
<1>2. s \in Entering
  BY DEF AppendEffect, Goes, Entering
<1>3. new \in Auths
  BY <1>1, <1>2, UserLogAssumption DEF Auths
<1>4. auths \in Seq([by : Sessions, name : Names]) /\ users \in [Names -> Seq(Auths)]
  BY DEF TypeOK
<1>5. /\ DOMAIN auths = 1 .. Len(auths)
      /\ Len(auths') = new /\ DOMAIN auths' = 1 .. new
      /\ \A a \in DOMAIN auths : auths'[a] = auths[a]
      /\ auths'[new] = [by |-> s, name |-> n]
  <2>1. auths' = Append(auths, [by |-> s, name |-> n])
    BY DEF AppendEffect
  <2>2. [by |-> s, name |-> n] \in [by : Sessions, name : Names]
    BY <1>1
  <2> QED
    BY <1>4, <2>1, <2>2
<1>6. users' = [users EXCEPT ![n] = Append(users[n], new)]
  BY DEF AppendEffect
<1>7. users'[n] = Append(users[n], new) /\ \A k \in Names \ {n} : users'[k] = users[k]
  BY <1>1, <1>4, <1>6
<1> HIDE DEF n, new
<1>8. /\ Len(users'[n]) = Len(users[n]) + 1
      /\ DOMAIN users[n] = 1 .. Len(users[n])
      /\ DOMAIN users'[n] = 1 .. Len(users[n]) + 1
      /\ \A i \in DOMAIN users[n] : users'[n][i] = users[n][i]
      /\ users'[n][Len(users[n]) + 1] = new
  BY <1>1, <1>3, <1>7
<1> QED
  BY <1>1, <1>3, <1>5, <1>7, <1>8 DEF n, new

(* The table and the map grow and shrink as Entered says. *)
LEMMA StepEntered == ASSUME TypeOK, Entered, RecordEffect PROVE Entered'
<1> DEFINE Room == IsFiniteSet(Entering) /\ Len(auths) + Cardinality(Entering) <= MaxAuths
           Placed(n) == /\ Len(users[n]) <= Len(auths)
                        /\ \A i \in DOMAIN users[n] :
                             users[n][i] \in DOMAIN auths /\ auths[users[n][i]].name = n
                        /\ \A i, j \in DOMAIN users[n] : i < j => users[n][i] < users[n][j]
           Rows == \A k \in DOMAIN table : table[k].auth \in DOMAIN auths
<1>0. Room /\ (\A n \in Names : Placed(n)) /\ Rows
  BY DEF Entered
<1>a. /\ MaxAuths \in Nat /\ Len(auths) \in Nat /\ Cardinality(Entering) \in Nat
      /\ \A n \in Names :
           users[n] \in Seq(Auths) /\ \A i \in DOMAIN users[n] : users[n][i] \in Auths
      /\ \A s \in Sessions : username[s] \in Names
      /\ Auths \subseteq Nat /\ auths \in Seq([by : Sessions, name : Names])
      /\ table \in Seq(Row) /\ end \in [Auths -> Sessions \cup {None}]
      /\ users \in [Names -> Seq(Auths)]
  BY <1>0, Bounds, FS_CardinalityType DEF TypeOK, Auths
<1>b. (\A n \in Names : Placed(n)') /\ Rows' /\ Room' => Entered'
  BY DEF Entered
<1>c. ASSUME Entering' \subseteq Entering, UNCHANGED auths PROVE Room'
  <2>1. IsFiniteSet(Entering') /\ Cardinality(Entering') <= Cardinality(Entering)
    BY <1>0, <1>c, FS_Subset
  <2>2. Cardinality(Entering') \in Nat
    BY <2>1, FS_CardinalityType
  <2> QED
    BY <1>0, <1>a, <1>c, <2>1, <2>2
<1>1. CASE NothingEffect
  BY <1>0, <1>b, <1>c, <1>1 DEF NothingEffect, Entering
<1>2. CASE StopEffect
  BY <1>0, <1>b, <1>c, <1>2 DEF StopEffect, Entering
<1>3. ASSUME NEW s \in Sessions, MoveEffect(s) \/ FillEffect(s) \/ FindEffect(s)
      PROVE  Entered'
  <2>1. Entering' \subseteq Entering
    BY <1>3 DEF MoveEffect, FillEffect, FindEffect, Goes, Entering
  <2> QED
    BY <1>0, <1>b, <1>c, <1>3, <2>1 DEF MoveEffect, FillEffect, FindEffect
<1>4. ASSUME NEW s \in Sessions, NEW n \in Names, NameEffect(s, n) PROVE Entered'
  <2>1. Entering' \subseteq Entering \cup {s}
    BY <1>4 DEF NameEffect, Goes, Entering
  <2>2. /\ IsFiniteSet(Entering') /\ Cardinality(Entering') <= Cardinality(Entering) + 1
        /\ Cardinality(Entering') \in Nat
    BY <1>0, <2>1, OneMore
  <2>3. Len(auths) + Cardinality(Entering) < MaxAuths /\ UNCHANGED <<users, auths, table>>
    BY <1>4 DEF NameEffect
  <2>4. Room'
    BY <1>a, <2>2, <2>3
  <2> QED
    BY <1>0, <1>b, <2>3, <2>4
<1>5. ASSUME NEW s \in Sessions, AppendEffect(s) PROVE Entered'
  <2>0. PICK n \in Names, new \in Nat : n = username[s] /\ new = Len(auths) + 1
    BY <1>a
  <2>1. /\ n \in Names
        /\ DOMAIN auths = 1 .. Len(auths) /\ Len(auths') = new /\ DOMAIN auths' = 1 .. new
        /\ \A a \in DOMAIN auths : auths'[a] = auths[a]
        /\ auths'[new] = [by |-> s, name |-> n]
        /\ \A k \in Names \ {n} : users'[k] = users[k]
        /\ Len(users'[n]) = Len(users[n]) + 1
        /\ DOMAIN users[n] = 1 .. Len(users[n]) /\ DOMAIN users'[n] = 1 .. Len(users[n]) + 1
        /\ \A i \in DOMAIN users[n] : users'[n][i] = users[n][i]
        /\ users'[n][Len(users[n]) + 1] = new
    BY <1>5, <2>0, AppendFacts
  <2>2. s \in Entering /\ s \notin Entering' /\ Entering' \subseteq Entering \cup {s}
    BY <1>5 DEF AppendEffect, Goes, Entering
  <2>3. Room'
    <3>1. /\ IsFiniteSet(Entering') /\ Cardinality(Entering') <= Cardinality(Entering) - 1
          /\ Cardinality(Entering') \in Nat
      BY <1>0, <2>2, OneMore
    <3>2. Len(auths') = Len(auths) + 1
      BY <2>0, <2>1
    <3> QED
      BY <1>0, <1>a, <3>1, <3>2
  <2>4. ASSUME NEW k \in Names, k # n PROVE Placed(k)'
    <3>1. users'[k] = users[k] /\ Placed(k)
      BY <1>0, <2>1, <2>4
    <3>2. DOMAIN auths \subseteq DOMAIN auths' /\ Len(auths) <= Len(auths')
      BY <1>a, <2>0, <2>1
    <3> QED
      BY <1>a, <2>1, <3>1, <3>2
  <2>5. Placed(n)'
    <3>1. Placed(n)
      BY <1>0, <2>1
    <3>2. Len(users[n]) \in Nat /\ new = Len(auths) + 1
      BY <1>a, <2>0, <2>1
    <3>3. ASSUME NEW i \in DOMAIN users'[n]
          PROVE  users'[n][i] \in DOMAIN auths' /\ auths'[users'[n][i]].name = n
      <4>1. CASE i \in DOMAIN users[n]
        BY <1>a, <2>1, <3>1, <3>2, <4>1
      <4>2. CASE i = Len(users[n]) + 1
        BY <1>a, <2>1, <3>2, <4>2
      <4> QED
        BY <2>1, <3>2, <3>3, <4>1, <4>2
    <3>4. ASSUME NEW i \in DOMAIN users'[n], NEW j \in DOMAIN users'[n], i < j
          PROVE  users'[n][i] < users'[n][j]
      <4>1. i \in DOMAIN users[n]
        BY <2>1, <3>2, <3>4
      <4>2. CASE j \in DOMAIN users[n]
        BY <2>1, <3>1, <3>4, <4>1, <4>2
      <4>3. CASE j = Len(users[n]) + 1
        <5>1. users[n][i] \in 1 .. Len(auths)
          BY <2>1, <3>1, <4>1
        <5> QED
          BY <1>a, <2>1, <3>2, <4>1, <4>3, <5>1
      <4> QED
        BY <2>1, <3>2, <3>4, <4>2, <4>3
    <3>5. Len(users'[n]) <= Len(auths')
      BY <1>a, <2>1, <3>1, <3>2
    <3> QED
      BY <3>3, <3>4, <3>5
  <2>6. Rows'
    <3>1. UNCHANGED table
      BY <1>5 DEF AppendEffect
    <3> QED
      BY <1>0, <1>a, <2>0, <2>1, <3>1
  <2>7. \A k \in Names : Placed(k)'
    BY <2>4, <2>5
  <2> QED
    BY <1>b, <2>3, <2>6, <2>7
<1>6. ASSUME NEW s \in Sessions, RowEffect(s) PROVE Entered'
  <2> DEFINE a == Mine(s)[cursor[s].i]
  <2>1. a \in DOMAIN auths /\ a \in Auths
    BY <1>0, <1>a, <1>6 DEF RowEffect, Mine
  <2>2. Rows'
    <3>1. CASE table' = Append(table, [auth |-> a, end |-> end[a], by |-> s])
      <4>1. [auth |-> a, end |-> end[a], by |-> s] \in Row
        BY <1>a, <2>1 DEF Row
      <4> HIDE DEF a
      <4>2. \A k \in DOMAIN table' :
              \/ k \in DOMAIN table /\ table'[k] = table[k]
              \/ table'[k] = [auth |-> a, end |-> end[a], by |-> s]
        BY <1>a, <3>1, <4>1
      <4> QED
        BY <1>0, <1>6, <2>1, <4>2 DEF RowEffect
    <3>2. CASE UNCHANGED table
      BY <1>0, <1>6, <3>2 DEF RowEffect
    <3> QED
      BY <1>6, <3>1, <3>2 DEF RowEffect
  <2>3. UNCHANGED <<pc, users, auths>>
    BY <1>6 DEF RowEffect
  <2>4. Room'
    BY <1>c, <2>3 DEF Entering
  <2> QED
    BY <1>0, <1>b, <2>2, <2>3, <2>4
<1>7. ASSUME NEW s \in Sessions, ClearEffect(s) PROVE Entered'
  <2>1. UNCHANGED <<auths, table>>
    BY <1>7 DEF ClearEffect
  <2>2. Room'
    <3>1. Entering' \subseteq Entering
      BY <1>7 DEF ClearEffect, Goes, Entering
    <3> QED
      BY <1>c, <2>1, <3>1
  <2>3. ASSUME NEW k \in Names PROVE Placed(k)'
    <3>1. users'[k] = users[k] \/ users'[k] = <<>>
      BY <1>a, <1>7 DEF ClearEffect
    <3> QED
      BY <1>0, <1>a, <2>1, <3>1
  <2> QED
    BY <1>0, <1>b, <2>1, <2>2, <2>3
<1> QED
  BY <1>1, <1>2, <1>3, <1>4, <1>5, <1>6, <1>7 DEF RecordEffect

-----------------------------------------------------------------------------
(* A session gets its name with its first record of that name. *)
LEMMA StepName == ASSUME TypeOK, Entered, NameUsed, RecordEffect PROVE NameUsed'
<1> DEFINE Used(t) == \E b \in DOMAIN auths : auths[b] = [by |-> t, name |-> username[t]]
           Fine(t) == /\ pc[t] = "none" => username[t] = NoName
                      /\ username[t] # NoName /\ pc[t] \notin {"auth", "append"} => Used(t)
<1>0. (\A t \in Sessions : Fine(t)) /\ ((\A t \in Sessions : Fine(t)') => NameUsed')
  BY DEF NameUsed
<1>1. CASE NothingEffect \/ StopEffect
  BY <1>0, <1>1 DEF NothingEffect, StopEffect
<1>2. ASSUME NEW s \in Sessions,
             MoveEffect(s) \/ FillEffect(s) \/ FindEffect(s) \/ RowEffect(s) \/ ClearEffect(s)
      PROVE  NameUsed'
  <2>1. UNCHANGED <<username, auths>>
    BY <1>2 DEF MoveEffect, FillEffect, FindEffect, RowEffect, ClearEffect
  <2>2. \A t \in Sessions : pc'[t] # "none" \/ pc[t] = "none"
    BY <1>2 DEF MoveEffect, FillEffect, FindEffect, RowEffect, ClearEffect, Goes
  <2>3. \A t \in Sessions :
          pc'[t] \notin {"auth", "append"} => pc[t] \notin {"auth", "append"}
    BY <1>2 DEF MoveEffect, FillEffect, FindEffect, RowEffect, ClearEffect, Goes
  <2>4. \A t \in Sessions : Used(t) => Used(t)'
    BY <2>1
  <2> QED
    BY <1>0, <2>1, <2>2, <2>3, <2>4
<1>3. ASSUME NEW s \in Sessions, NEW n \in Names, NameEffect(s, n) PROVE NameUsed'
  <2>1. ASSUME NEW t \in Sessions, t # s PROVE Fine(t)'
    BY <1>0, <1>3, <2>1 DEF NameEffect, Goes
  <2>2. Fine(s)'
    BY <1>3 DEF NameEffect, Goes
  <2> QED
    BY <1>0, <2>1, <2>2
<1>4. ASSUME NEW s \in Sessions, AppendEffect(s) PROVE NameUsed'
  <2>1. PICK new : /\ DOMAIN auths' = 1 .. new /\ new = Len(auths) + 1
                   /\ \A a \in DOMAIN auths : auths'[a] = auths[a]
                   /\ DOMAIN auths = 1 .. Len(auths)
                   /\ auths'[new] = [by |-> s, name |-> username[s]]
    BY <1>4, AppendFacts
  <2>2. Len(auths) \in Nat
    BY Bounds
  <2>3. username' = username /\ Goes(s, "append", "open")
    BY <1>4 DEF AppendEffect
  <2>4. ASSUME NEW t \in Sessions, t # s PROVE Fine(t)'
    <3>1. Used(t) => Used(t)'
      BY <2>1, <2>2, <2>3
    <3> QED
      BY <1>0, <2>3, <2>4, <3>1 DEF Goes
  <2>5. Fine(s)'
    <3>1. new \in DOMAIN auths'
      BY <2>1, <2>2
    <3> QED
      BY <2>1, <2>3, <3>1 DEF Goes
  <2> QED
    BY <1>0, <2>4, <2>5
<1> QED
  BY <1>1, <1>2, <1>3, <1>4 DEF RecordEffect

(* A record in the map is in it under its own name. *)
LEMMA PendingHome ==
  ASSUME TypeOK, Entered, NEW a
  PROVE  /\ a \in Pending <=>
              \E n \in Names : \E i \in DOMAIN users[n] : users[n][i] = a
         /\ a \in Pending =>
              /\ a \in DOMAIN auths /\ auths[a].name \in Names
              /\ \E i \in DOMAIN users[auths[a].name] : users[auths[a].name][i] = a
  BY Bounds DEF Pending, Entered

(* The step that closes a session empties the map at its name, or finds it *)
(* empty.                                                                  *)
LEMMA StepLeftover ==
  ASSUME TypeOK, Entered, LeftoverOnlyRenamed, RecordEffect, Entered', TypeOK'
  PROVE  LeftoverOnlyRenamed'
<1> DEFINE Renamed(a) ==
             pc[auths[a].by] = "closed" => auths[a].name # username[auths[a].by]
<1>0. /\ \A a \in Pending : Renamed(a)
      /\ (\A a \in Pending' : Renamed(a)') => LeftoverOnlyRenamed'
      /\ \A a \in Pending : a \in DOMAIN auths /\ auths[a].by \in Sessions
      /\ \A s \in Sessions : username[s] \in Names
  <2>1. \A a \in Pending : a \in DOMAIN auths
    BY PendingHome
  <2>2. /\ auths \in Seq([by : Sessions, name : Names])
        /\ \A s \in Sessions : username[s] \in Names
    BY DEF TypeOK
  <2>3. \A a \in DOMAIN auths : auths[a].by \in Sessions
    BY EntryType
  <2> QED
    BY <2>1, <2>2, <2>3 DEF LeftoverOnlyRenamed
<1>1. CASE NothingEffect \/ StopEffect
  <2>1. Pending' = Pending
    BY <1>1 DEF NothingEffect, StopEffect, Pending
  <2> QED
    BY <1>0, <1>1, <2>1 DEF NothingEffect, StopEffect
<1>2. ASSUME NEW s \in Sessions, MoveEffect(s) \/ FillEffect(s) \/ RowEffect(s)
      PROVE  LeftoverOnlyRenamed'
  <2>1. Pending' = Pending
    BY <1>2 DEF MoveEffect, FillEffect, RowEffect, Pending
  <2>2. \A t \in Sessions : pc'[t] = "closed" => pc[t] = "closed"
    BY <1>2 DEF MoveEffect, FillEffect, RowEffect, Goes
  <2>3. UNCHANGED <<username, auths>>
    BY <1>2 DEF MoveEffect, FillEffect, RowEffect
  <2> QED
    BY <1>0, <2>1, <2>2, <2>3
<1>3. ASSUME NEW s \in Sessions, NEW n \in Names, NameEffect(s, n)
      PROVE  LeftoverOnlyRenamed'
  <2>1. Pending' = Pending
    BY <1>3 DEF NameEffect, Pending
  <2> QED
    BY <1>0, <1>3, <2>1 DEF NameEffect, Goes
<1>4. ASSUME NEW s \in Sessions, AppendEffect(s) PROVE LeftoverOnlyRenamed'
  <2>1. /\ Len(auths) \in Nat /\ DOMAIN auths = 1 .. Len(auths)
        /\ \A a \in DOMAIN auths : auths'[a] = auths[a]
        /\ auths'[Len(auths) + 1] = [by |-> s, name |-> username[s]]
        /\ username' = username /\ Goes(s, "append", "open")
    BY <1>4, AppendFacts, Bounds DEF AppendEffect
  <2>2. ASSUME NEW a \in Pending', a # Len(auths) + 1 PROVE a \in Pending
    <3>1. PICK n \in Names : \E i \in DOMAIN users'[n] : users'[n][i] = a
      BY <2>2 DEF Pending
    <3>2. PICK i \in DOMAIN users'[n] : users'[n][i] = a
      BY <3>1
    <3>3. i \in DOMAIN users[n] /\ users[n][i] = a
      <4>1. CASE n # username[s]
        <5>1. users'[n] = users[n]
          BY <1>4, <4>1, AppendFacts
        <5> QED
          BY <3>2, <5>1
      <4>2. CASE n = username[s]
        <5>1. /\ DOMAIN users'[n] = 1 .. Len(users[n]) + 1
              /\ DOMAIN users[n] = 1 .. Len(users[n])
              /\ \A j \in DOMAIN users[n] : users'[n][j] = users[n][j]
              /\ users'[n][Len(users[n]) + 1] = Len(auths) + 1
          BY <1>4, <4>2, AppendFacts
        <5>2. Len(users[n]) \in Nat
          BY Bounds
        <5>3. i # Len(users[n]) + 1
          BY <2>2, <3>2, <5>1
        <5> QED
          BY <3>2, <5>1, <5>2, <5>3
      <4> QED
        BY <4>1, <4>2
    <3> QED
      BY <3>3, PendingHome
  <2>3. ASSUME NEW a \in Pending' PROVE Renamed(a)'
    <3>1. CASE a = Len(auths) + 1
      BY <2>1, <3>1 DEF Goes
    <3>2. CASE a \in Pending
      BY <1>0, <2>1, <3>2 DEF Goes
    <3> QED
      BY <2>2, <3>1, <3>2
  <2> QED
    BY <1>0, <2>3
<1>5. ASSUME NEW s \in Sessions, FindEffect(s) \/ ClearEffect(s)
      PROVE  LeftoverOnlyRenamed'
  <2>1. Pending' \subseteq Pending
    <3>1. users \in [Names -> Seq(Auths)]
      BY DEF TypeOK
    <3> QED
      BY <1>0, <1>5, <3>1 DEF FindEffect, ClearEffect, Pending
  <2>2. UNCHANGED <<username, auths>>
    BY <1>5 DEF FindEffect, ClearEffect
  <2>3. \A t \in Sessions \ {s} : pc'[t] = pc[t]
    BY <1>5 DEF FindEffect, ClearEffect, Goes
  <2>4. pc'[s] = "closed" => users'[username[s]] = <<>>
    BY <1>0, <1>5 DEF FindEffect, ClearEffect, Goes, Mine, TypeOK
  <2>5. ASSUME NEW a \in Pending', auths[a].by = s, pc'[s] = "closed"
        PROVE  auths[a].name # username[s]
    <3>1. \E i \in DOMAIN users'[auths'[a].name] : TRUE
      BY <2>5 DEF Pending, Entered
    <3> QED
      BY <2>2, <2>4, <2>5, <3>1
  <2>6. ASSUME NEW a \in Pending' PROVE Renamed(a)'
    BY <1>0, <2>1, <2>2, <2>3, <2>5
  <2> QED
    BY <1>0, <2>6
<1> QED
  BY <1>1, <1>2, <1>3, <1>4, <1>5 DEF RecordEffect

-----------------------------------------------------------------------------
(* OnDisconnect completes the first record of user and port; the others of *)
(* the session have that one before them.                                  *)
LEMMA StepCompleted ==
  ASSUME TypeOK, Entered, Completed, RecordEffect PROVE Completed'
<1> DEFINE Fine(t, i) ==
             auths[Mine(t)[i]].by = t => end[Mine(t)[i]] # None \/ Replaced(Mine(t)[i])
           Looks(t) == pc[t] \in {"find", "write"}
<1>0. /\ \A t \in Sessions : Looks(t) => \A i \in DOMAIN Mine(t) : Fine(t, i)
      /\ (\A t \in Sessions : Looks(t)' => \A i \in DOMAIN Mine(t)' : Fine(t, i)') => Completed'
  BY DEF Completed
<1>1. CASE NothingEffect \/ StopEffect
  <2>1. UNCHANGED <<username, users, end, auths>>
    BY <1>1 DEF NothingEffect, StopEffect
  <2>2. \A t \in Sessions : Looks(t)' => Looks(t)
    BY <1>1 DEF NothingEffect, StopEffect
  <2> QED
    BY <1>0, <2>1, <2>2 DEF Mine, Replaced
<1>2. ASSUME NEW s \in Sessions, MoveEffect(s) \/ FindEffect(s) \/ RowEffect(s)
      PROVE  Completed'
  <2>1. UNCHANGED <<username, users, end, auths>>
    BY <1>2 DEF MoveEffect, FindEffect, RowEffect
  <2>2. \A t \in Sessions : Looks(t)' => Looks(t)
    BY <1>2 DEF MoveEffect, FindEffect, RowEffect, Goes
  <2> QED
    BY <1>0, <2>1, <2>2 DEF Mine, Replaced
<1>3. ASSUME NEW s \in Sessions, NEW n \in Names, NameEffect(s, n) PROVE Completed'
  <2>1. UNCHANGED <<users, end, auths>>
    BY <1>3 DEF NameEffect
  <2>2. \A t \in Sessions : Looks(t)' => Looks(t) /\ username'[t] = username[t]
    BY <1>3 DEF NameEffect, Goes
  <2> QED
    BY <1>0, <2>1, <2>2 DEF Mine, Replaced
<1>4. ASSUME NEW s \in Sessions, AppendEffect(s) PROVE Completed'
  <2>0. PICK n \in Names, new \in Nat : n = username[s] /\ new = Len(auths) + 1
    BY Bounds
  <2>1. /\ auths'[new] = [by |-> s, name |-> n]
        /\ \A a \in DOMAIN auths : auths'[a] = auths[a]
        /\ \A k \in Names \ {n} : users'[k] = users[k]
        /\ DOMAIN users[n] = 1 .. Len(users[n]) /\ DOMAIN users'[n] = 1 .. Len(users[n]) + 1
        /\ \A i \in DOMAIN users[n] : users'[n][i] = users[n][i]
        /\ users'[n][Len(users[n]) + 1] = new
    BY <1>4, <2>0, AppendFacts
  <2>2. /\ \A t \in Sessions : Looks(t)' => t # s /\ Looks(t)
        /\ UNCHANGED <<username, end>>
    BY <1>4 DEF AppendEffect, Goes
  <2>3. ASSUME NEW t \in Sessions, Looks(t)', NEW i \in DOMAIN Mine(t)' PROVE Fine(t, i)'
    <3>1. username[t] \in Names /\ Len(users[n]) \in Nat
      BY Bounds
    <3>2. CASE i \in DOMAIN Mine(t) /\ Mine(t)'[i] = Mine(t)[i]
      <4> DEFINE a == Mine(t)[i]
      <4>1. a \in DOMAIN auths /\ a \in Nat
        BY <3>1, <3>2, EntryType DEF Entered, Mine
      <4>2. Fine(t, i)
        BY <1>0, <2>2, <2>3, <3>2
      <4>3. Replaced(a) => \E b \in 1 .. a - 1 :
                             /\ auths'[b].name = auths'[a].name
                             /\ PortOf[auths'[b].by] = PortOf[auths'[a].by]
        <5>1. \A b \in 1 .. a - 1 : b \in DOMAIN auths
          BY <4>1, EntryType
        <5> QED
          BY <2>1, <4>1, <5>1 DEF Replaced
      <4>4. Mine(t)'[i] = a /\ auths'[a] = auths[a] /\ end' = end
        BY <2>1, <2>2, <3>2, <4>1
      <4> HIDE DEF a
      <4>5. auths[a].by = t => end[a] # None \/ Replaced(a)
        BY <4>2 DEF a
      <4> QED
        BY <4>3, <4>4, <4>5 DEF Replaced
    <3>3. CASE username[t] = n /\ i = Len(users[n]) + 1
      <4>1. Mine(t)'[i] = new
        BY <2>1, <2>2, <3>3 DEF Mine
      <4> QED
        BY <2>1, <2>2, <2>3, <4>1
    <3>4. \/ i \in DOMAIN Mine(t) /\ Mine(t)'[i] = Mine(t)[i]
          \/ username[t] = n /\ i = Len(users[n]) + 1
      <4>1. CASE username[t] = n
        <5>1. Mine(t) = users[n] /\ Mine(t)' = users'[n]
          BY <2>2, <4>1 DEF Mine
        <5>2. i \in 1 .. Len(users[n]) + 1
          BY <2>1, <2>3, <5>1
        <5> QED
          BY <2>1, <3>1, <4>1, <5>1, <5>2
      <4>2. CASE username[t] # n
        <5>1. Mine(t)' = Mine(t)
          BY <2>1, <2>2, <3>1, <4>2 DEF Mine
        <5> QED
          BY <2>3, <5>1
      <4> QED
        BY <4>1, <4>2
    <3> QED
      BY <3>2, <3>3, <3>4
  <2> QED
    BY <1>0, <2>3
<1>5. ASSUME NEW s \in Sessions, FillEffect(s) PROVE Completed'
  <2>0. PICK f, n : f = FirstAt(username[s], PortOf[s]) /\ n = username[s] /\ n \in Names
    BY Bounds
  <2>1. /\ UNCHANGED <<username, users, auths>>
        /\ \A t \in Sessions \ {s} : pc'[t] = pc[t]
        /\ end' = IF f = 0 THEN end ELSE [end EXCEPT ![users[n][f]] = s]
    BY <1>5, <2>0 DEF FillEffect, Goes, Mine
  <2>2. end \in [Auths -> Sessions \cup {None}] /\ None \notin Sessions
    BY UserLogAssumption DEF TypeOK
  <2>3. \A a \in Auths : end[a] # None => end'[a] # None
    BY <2>1, <2>2
  <2>4. ASSUME NEW t \in Sessions, t # s, Looks(t)', NEW i \in DOMAIN Mine(t)'
        PROVE  Fine(t, i)'
    <3>1. i \in DOMAIN Mine(t) /\ Mine(t)' = Mine(t) /\ Looks(t) /\ Mine(t)[i] \in Auths
      BY <2>1, <2>4, Bounds DEF Mine
    <3> QED
      BY <1>0, <2>1, <2>3, <3>1 DEF Replaced
  <2>5. ASSUME NEW i \in DOMAIN Mine(s)', auths[users[n][i]].by = s
        PROVE  end'[users[n][i]] # None \/ Replaced(users[n][i])
    <3>1. i \in DOMAIN users[n] /\ users[n] \in Seq(Auths) /\ DOMAIN users[n] \subseteq Nat
      BY <2>0, <2>1, <2>5, Bounds DEF Mine
    <3>2. f \in DOMAIN users[n] /\ PortOf[auths[users[n][f]].by] = PortOf[s] /\ f <= i
      BY <2>0, <2>5, <3>1, FirstFound
    <3>3. f # 0 /\ users[n][f] \in Auths
      BY <3>1, <3>2
    <3>4. CASE f = i
      BY <2>1, <2>2, <3>3, <3>4
    <3>5. CASE f # i
      <4>1. f < i
        BY <3>1, <3>2, <3>5
      <4>2. /\ users[n][f] < users[n][i]
            /\ users[n][f] \in DOMAIN auths /\ users[n][i] \in DOMAIN auths
            /\ auths[users[n][f]].name = n /\ auths[users[n][i]].name = n
        BY <2>0, <3>1, <3>2, <4>1 DEF Entered
      <4>3. users[n][f] \in 1 .. users[n][i] - 1
        BY <4>2, EntryType
      <4> QED
        BY <2>5, <3>2, <4>2, <4>3 DEF Replaced
    <3> QED
      BY <3>4, <3>5
  <2>6. ASSUME NEW i \in DOMAIN Mine(s)' PROVE Fine(s, i)'
    <3>1. Mine(s)' = users[n]
      BY <2>0, <2>1 DEF Mine
    <3> QED
      BY <2>1, <2>5, <2>6, <3>1 DEF Replaced
  <2> QED
    BY <1>0, <2>4, <2>6
<1>6. ASSUME NEW s \in Sessions, ClearEffect(s) PROVE Completed'
  <2>1. /\ UNCHANGED <<username, end, auths>>
        /\ \A t \in Sessions : Looks(t)' => Looks(t)
    BY <1>6 DEF ClearEffect, Goes
  <2>2. \A t \in Sessions : Mine(t)' = Mine(t) \/ Mine(t)' = <<>>
    <3>1. users \in [Names -> Seq(Auths)]
      BY DEF TypeOK
    <3> QED
      BY <1>6, <3>1, Bounds DEF ClearEffect, Mine
  <2> QED
    BY <1>0, <2>1, <2>2 DEF Replaced
<1> QED
  BY <1>1, <1>2, <1>3, <1>4, <1>5, <1>6 DEF RecordEffect

-----------------------------------------------------------------------------
(* A row without an end has a reason when it is written. *)
LEMMA StepIncomplete ==
  ASSUME TypeOK, Entered, Completed, IncompleteRow, RecordEffect
  PROVE  IncompleteRow'
<1> DEFINE Fine(r) == r.end = None => r.by # auths[r.auth].by \/ Replaced(r.auth)
<1>0. /\ \A k \in DOMAIN table : Fine(table[k])
      /\ (\A k \in DOMAIN table' : Fine(table[k])') => IncompleteRow'
  BY DEF IncompleteRow, Replaced
<1>1. CASE UNCHANGED <<table, auths>>
  BY <1>0, <1>1 DEF Replaced
<1>2. ASSUME NEW s \in Sessions, AppendEffect(s) PROVE IncompleteRow'
  <2>1. UNCHANGED table /\ \A a \in DOMAIN auths : auths'[a] = auths[a]
    BY <1>2, AppendFacts DEF AppendEffect
  <2>2. ASSUME NEW a \in DOMAIN auths PROVE Replaced(a) => Replaced(a)'
    <3>1. \A b \in 1 .. a - 1 : b \in DOMAIN auths
      BY EntryType
    <3> QED
      BY <2>1, <3>1 DEF Replaced
  <2>3. ASSUME NEW k \in DOMAIN table PROVE Fine(table[k])'
    <3>1. PICK a \in DOMAIN auths : a = table[k].auth
      BY DEF Entered
    <3>2. Fine(table[k]) /\ auths'[a] = auths[a] /\ (Replaced(a) => Replaced(a)')
      BY <1>0, <2>1, <2>2
    <3> QED
      BY <2>1, <3>1, <3>2 DEF Replaced
  <2> QED
    BY <1>0, <2>1, <2>3
<1>3. ASSUME NEW s \in Sessions, RowEffect(s) PROVE IncompleteRow'
  <2>0. PICK a, r : /\ a = Mine(s)[cursor[s].i]
                    /\ r = [auth |-> a, end |-> end[a], by |-> s]
    OBVIOUS
  <2>1. pc[s] = "write" /\ cursor[s].i \in DOMAIN Mine(s) /\ UNCHANGED auths
    BY <1>3 DEF RowEffect
  <2>2. Fine(r)
    BY <2>0, <2>1 DEF Completed
  <2>3. a \in Auths
    BY <2>0, <2>1, Bounds DEF Mine
  <2>4. CASE table' = Append(table, r)
    <3>1. r \in Row
      BY <2>0, <2>3 DEF Row, TypeOK
    <3>2. \A k \in DOMAIN table' :
              \/ k \in DOMAIN table /\ table'[k] = table[k]
              \/ table'[k] = r
      <4>1. table \in Seq(Row)
        BY DEF TypeOK
      <4> QED
        BY <2>4, <3>1, <4>1
    <3> QED
      BY <1>0, <2>1, <2>2, <3>2 DEF Replaced
  <2>5. CASE UNCHANGED table
    BY <1>1, <2>1, <2>5
  <2> QED
    BY <1>3, <2>0, <2>4, <2>5 DEF RowEffect
<1> QED
  BY <1>1, <1>2, <1>3 DEF RecordEffect, NothingEffect, StopEffect, MoveEffect, NameEffect,
     FillEffect, FindEffect, ClearEffect

-----------------------------------------------------------------------------
(* Nobody but its session has the name of a record that is alone.          *)
LEMMA SoleName ==
  ASSUME TypeOK, Entered, NameUsed, NEW a \in DOMAIN auths, SoleAuth(a)
  PROVE  /\ \A t \in Sessions :
              username[t] = auths[a].name /\ pc[t] \notin {"auth", "append"} =>
                t = auths[a].by
         /\ \A t \in Sessions : \A i \in DOMAIN Mine(t) :
              Mine(t)[i] = a => username[t] = auths[a].name
<1>1. ASSUME NEW t \in Sessions, username[t] = auths[a].name,
             pc[t] \notin {"auth", "append"}
      PROVE  t = auths[a].by
  <2>1. PICK b \in DOMAIN auths : auths[b] = [by |-> t, name |-> username[t]]
    BY <1>1 DEF NameUsed, SoleAuth
  <2>2. a = b
    BY <1>1, <2>1 DEF SoleAuth
  <2> QED
    BY <2>1, <2>2
<1>2. ASSUME NEW t \in Sessions, NEW i \in DOMAIN Mine(t), Mine(t)[i] = a
      PROVE  username[t] = auths[a].name
  BY <1>2, Bounds DEF Entered, Mine
<1> QED
  BY <1>1, <1>2

(* A step that does not touch a record and its session *)
Untouched(a, s) ==
  /\ auths'[a] = auths[a]
  /\ pc'[s] = pc[s] \/ (pc[s] = "open" /\ pc'[s] = "dropped")
  /\ username'[s] = username[s] /\ users'[username[s]] = users[username[s]]
  /\ cursor'[s] = cursor[s] /\ end'[a] = end[a]
  /\ RowsOf(a)' = RowsOf(a) /\ \A k \in RowsOf(a) : table'[k] = table[k]
  /\ failed \subseteq failed'

(* What is not touched stays as it is. *)
LEMMA StaysSole ==
  ASSUME Sole, NEW a \in DOMAIN auths, SoleAuth(a), NEW s \in Sessions, s = auths[a].by,
         Untouched(a, s)
  PROVE  SoleState(a)'
<1>1. SoleState(a)
  BY DEF Sole
<1>2. Written(a) => Written(a)'
  BY DEF Written, Untouched
<1>3. Mine(s)' = Mine(s)
  BY DEF Mine, Untouched
<1> QED
  BY <1>1, <1>2, <1>3 DEF SoleState, Untouched

(* A record of one name only, along the way of its session *)
LEMMA StepSole ==
  ASSUME TypeOK, Entered, NameUsed, Sole, RecordEffect PROVE Sole'
<1> USE DEF PC
<1>0. /\ \A a \in DOMAIN auths : SoleAuth(a) => SoleState(a)
      /\ (\A a \in DOMAIN auths' : SoleAuth(a)' => SoleState(a)') => Sole'
  BY DEF Sole
<1>1. CASE NothingEffect \/ StopEffect
  <2>1. ASSUME NEW a \in DOMAIN auths', SoleAuth(a)' PROVE SoleState(a)'
    <3>1. a \in DOMAIN auths /\ SoleAuth(a) /\ auths' = auths
      BY <1>1, <2>1 DEF NothingEffect, StopEffect, SoleAuth
    <3>2. PICK s \in Sessions : s = auths[a].by
      BY <3>1, EntryType
    <3>3. Untouched(a, s)
      BY <1>1, <3>1, <3>2, RowsSame DEF NothingEffect, StopEffect, Untouched
    <3> QED
      BY <3>1, <3>2, <3>3, StaysSole
  <2> QED
    BY <1>0, <2>1
<1>2. ASSUME NEW t \in Sessions, MoveEffect(t) PROVE Sole'
  <2>0. UNCHANGED <<username, users, end, auths, table, failed>>
    BY <1>2 DEF MoveEffect
  <2>1. ASSUME NEW a \in DOMAIN auths', SoleAuth(a)' PROVE SoleState(a)'
    <3>1. a \in DOMAIN auths /\ SoleAuth(a) /\ RowsOf(a)' = RowsOf(a)
      BY <2>0, <2>1, RowsSame DEF SoleAuth
    <3>2. PICK s \in Sessions : s = auths[a].by
      BY <3>1, EntryType
    <3>3. CASE s # t
      <4>1. Untouched(a, s)
        BY <1>2, <2>0, <3>1, <3>3 DEF MoveEffect, Goes, Untouched
      <4> QED
        BY <3>1, <3>2, <4>1, StaysSole
    <3>4. CASE s = t
      <4>1. SoleState(a) /\ (Written(a) => Written(a)') /\ Mine(s)' = Mine(s)
        BY <1>0, <2>0, <3>1 DEF Written, Mine
      <4>2. pc[s] # "none"
        BY <3>1, <3>2 DEF NameUsed, SoleAuth
      <4> QED
        BY <1>2, <2>0, <3>1, <3>2, <3>4, <4>1, <4>2 DEF MoveEffect, Goes, SoleState
    <3> QED
      BY <3>3, <3>4
  <2> QED
    BY <1>0, <2>1
<1>3. ASSUME NEW t \in Sessions, NEW n \in Names, NameEffect(t, n) PROVE Sole'
  <2>0. UNCHANGED <<users, end, auths, cursor, table, failed>> /\ Goes(t, "open", "auth")
        /\ \A s \in Sessions \ {t} : username'[s] = username[s]
    BY <1>3 DEF NameEffect
  <2>1. ASSUME NEW a \in DOMAIN auths', SoleAuth(a)' PROVE SoleState(a)'
    <3>1. a \in DOMAIN auths /\ RowsOf(a)' = RowsOf(a)
      BY <2>0, <2>1, RowsSame
    <3>2. PICK s \in Sessions : s = auths[a].by
      BY <3>1, EntryType
    <3>3. CASE s # t
      <4>1. SoleAuth(a)
        BY <2>0, <2>1, <3>2, <3>3 DEF SoleAuth
      <4>2. pc'[s] = pc[s]
        BY <2>0, <3>3 DEF Goes
      <4> QED
        <5>1. Untouched(a, s)
          BY <2>0, <3>1, <3>3, <4>2 DEF Untouched
        <5> QED
          BY <3>1, <3>2, <4>1, <5>1, StaysSole
    <3>4. CASE s = t
      BY <2>0, <3>2, <3>4 DEF Goes, SoleState
    <3> QED
      BY <3>3, <3>4
  <2> QED
    BY <1>0, <2>1
<1>4. ASSUME NEW t \in Sessions, AppendEffect(t) PROVE Sole'
  <2>0. PICK n \in Names, new \in Nat : n = username[t] /\ new = Len(auths) + 1
    BY Bounds
  <2>1. /\ DOMAIN auths = 1 .. Len(auths) /\ DOMAIN auths' = 1 .. new
        /\ auths'[new] = [by |-> t, name |-> n]
        /\ \A a \in DOMAIN auths : auths'[a] = auths[a]
        /\ \A k \in Names \ {n} : users'[k] = users[k]
        /\ users'[n] = Append(users[n], new)
    <3>1. users \in [Names -> Seq(Auths)]
      BY DEF TypeOK
    <3>2. users'[n] = Append(users[n], new)
      BY <1>4, <2>0, <3>1 DEF AppendEffect
    <3> QED
      BY <1>4, <2>0, <3>2, AppendFacts
  <2>2. UNCHANGED <<username, end, cursor, table, failed>> /\ Goes(t, "append", "open")
    BY <1>4 DEF AppendEffect
  <2>3. DOMAIN auths' = DOMAIN auths \cup {new} /\ new \notin DOMAIN auths
    BY <2>0, <2>1, EntryType
  <2>4. ASSUME NEW a \in DOMAIN auths, SoleAuth(a)' PROVE SoleState(a)'
    <3>1. PICK s \in Sessions : s = auths[a].by
      BY EntryType
    <3>2. auths[a].name # n
      <4>1. auths'[new].name = n /\ auths'[a].name = auths[a].name /\ a # new
        BY <2>1, <2>3
      <4> QED
        BY <2>3, <2>4, <4>1 DEF SoleAuth
    <3>3. s # t
      BY <2>0, <2>1, <2>2, <2>4, <3>1, <3>2 DEF SoleAuth
    <3>4. SoleAuth(a) /\ username[s] = auths[a].name
      BY <2>1, <2>2, <2>3, <2>4, <3>1 DEF SoleAuth
    <3>5. users'[username[s]] = users[username[s]]
      BY <2>1, <3>2, <3>4, EntryType
    <3>6. pc'[s] = pc[s] /\ RowsOf(a)' = RowsOf(a)
      BY <2>2, <3>3, RowsSame DEF Goes
    <3> QED
      <4>1. Untouched(a, s)
        BY <2>1, <2>2, <3>5, <3>6 DEF Untouched
      <4> QED
        BY <3>1, <3>4, <4>1, StaysSole
  <2>5. ASSUME SoleAuth(new)' PROVE SoleState(new)'
    <3>1. users[n] = <<>>
      <4>1. users[n] \in Seq(Auths) /\ \A i \in DOMAIN users[n] :
              users[n][i] \in DOMAIN auths /\ auths[users[n][i]].name = n
        BY Bounds DEF Entered
      <4>2. ASSUME NEW i \in DOMAIN users[n] PROVE FALSE
        <5>1. /\ users[n][i] \in DOMAIN auths' /\ users[n][i] # new
              /\ auths'[users[n][i]].name = n
          BY <2>1, <2>3, <4>1
        <5> QED
          BY <2>1, <2>5, <5>1 DEF SoleAuth
      <4> QED
        BY <4>1, <4>2
    <3>2. users'[n] = <<new>>
      BY <2>1, <3>1
    <3>3. RowsOf(new)' = {}
      BY <2>2, <2>3 DEF RowsOf, Entered
    <3>4. pc'[t] = "open" /\ Mine(t)' = <<new>>
      BY <2>0, <2>2, <3>2 DEF Goes, Mine
    <3>5. auths'[new].by = t
      BY <2>1
    <3> QED
      BY <3>3, <3>4, <3>5 DEF SoleState
  <2>6. ASSUME NEW a \in DOMAIN auths', SoleAuth(a)' PROVE SoleState(a)'
    BY <2>3, <2>4, <2>5, <2>6
  <2> QED
    BY <1>0, <2>6
<1>5. ASSUME NEW t \in Sessions, FillEffect(t) PROVE Sole'
  <2>0. PICK f, n : f = FirstAt(username[t], PortOf[t]) /\ n = username[t] /\ n \in Names
    BY Bounds
  <2>1. /\ UNCHANGED <<username, users, auths, cursor, table, failed>>
        /\ Goes(t, "complete", "find")
        /\ end' = IF f = 0 THEN end ELSE [end EXCEPT ![users[n][f]] = t]
    BY <1>5, <2>0 DEF FillEffect, Mine
  <2>2. users[n] \in Seq(Auths) /\ end \in [Auths -> Sessions \cup {None}]
    BY <2>0, Bounds DEF TypeOK
  <2>3. f # 0 => f \in DOMAIN users[n]
    BY <2>0, <2>2, FirstFound
  <2>4. ASSUME NEW a \in DOMAIN auths', SoleAuth(a)' PROVE SoleState(a)'
    <3>1. a \in DOMAIN auths /\ SoleAuth(a) /\ RowsOf(a)' = RowsOf(a)
      BY <2>1, <2>4, RowsSame DEF SoleAuth
    <3>2. PICK s \in Sessions : s = auths[a].by /\ SoleState(a)
      BY <1>0, <3>1, EntryType
    <3>3. CASE s # t
      <4>1. f # 0 => users[n][f] # a
        <5>1. pc[t] \notin {"auth", "append"}
          BY <2>1 DEF Goes
        <5> QED
          BY <2>0, <2>3, <3>1, <3>2, <3>3, <5>1, SoleName DEF Mine
      <4>2. end'[a] = end[a]
        BY <2>1, <2>2, <4>1
      <4>3. Untouched(a, s)
        BY <2>1, <3>1, <3>3, <4>2 DEF Untouched, Goes
      <4> QED
        BY <3>1, <3>2, <4>3, StaysSole
    <3>4. CASE s = t
      <4>1. users[n] = <<a>> /\ RowsOf(a) = {}
        BY <2>0, <2>1, <3>2, <3>4 DEF Goes, SoleState, Mine
      <4>2. f = 1
        <5> DEFINE at == {i \in DOMAIN users[n] : PortOf[auths[users[n][i]].by] = PortOf[t]}
        <5>1. DOMAIN users[n] = {1} /\ users[n][1] = a
          BY <4>1
        <5>2. PortOf[auths[users[n][1]].by] = PortOf[t]
          BY <3>2, <3>4, <5>1
        <5>3. 1 \in at /\ \A i \in at : i = 1
          BY <5>1, <5>2, Zenon
        <5>4. at # {} => f \in at
          BY <2>0, <2>2, FirstFound
        <5> QED
          BY <5>3, <5>4
      <4>3. a \in Auths
        BY <2>2, <4>1
      <4>4. end'[a] = t
        BY <2>1, <2>2, <4>1, <4>2, <4>3
      <4> QED
        BY <2>0, <2>1, <3>1, <3>2, <3>4, <4>1, <4>4 DEF Goes, SoleState, Mine
    <3> QED
      BY <3>3, <3>4
  <2> QED
    BY <1>0, <2>4
<1>6. ASSUME NEW t \in Sessions, FindEffect(t) PROVE Sole'
  <2>1. UNCHANGED <<username, users, end, auths, table, failed>>
    BY <1>6 DEF FindEffect
  <2>2. ASSUME NEW a \in DOMAIN auths', SoleAuth(a)' PROVE SoleState(a)'
    <3>1. a \in DOMAIN auths /\ SoleAuth(a) /\ RowsOf(a)' = RowsOf(a)
      BY <2>1, <2>2, RowsSame DEF SoleAuth
    <3>2. PICK s \in Sessions : s = auths[a].by /\ SoleState(a)
      BY <1>0, <3>1, EntryType
    <3>3. CASE s # t
      <4>1. Untouched(a, s)
        BY <1>6, <2>1, <3>1, <3>3 DEF Untouched, FindEffect, Goes
      <4> QED
        BY <3>1, <3>2, <4>1, StaysSole
    <3>4. CASE s = t
      <4>1. Mine(s) = <<a>> /\ RowsOf(a) = {} /\ end[a] = s
        BY <1>6, <3>2, <3>4 DEF FindEffect, Goes, SoleState
      <4>2. pc'[s] = "write" /\ cursor'[s].i = 1 /\ cursor'[s].n = 1
        BY <1>6, <3>4, <4>1 DEF FindEffect, Goes
      <4>3. Mine(s)' = <<a>>
        BY <2>1, <4>1 DEF Mine
      <4> QED
        BY <2>1, <3>1, <3>2, <4>1, <4>2, <4>3 DEF SoleState
    <3> QED
      BY <3>3, <3>4
  <2> QED
    BY <1>0, <2>2
<1>7. ASSUME NEW t \in Sessions, RowEffect(t) PROVE Sole'
  <2>0. PICK i, b, r : /\ i = cursor[t].i /\ b = Mine(t)[i]
                       /\ r = [auth |-> b, end |-> end[b], by |-> t]
    OBVIOUS
  <2>1. /\ UNCHANGED <<pc, username, users, end, auths>>
        /\ pc[t] = "write" /\ i \in DOMAIN Mine(t) /\ i <= cursor[t].n
        /\ cursor'[t].i = i + 1 /\ cursor'[t].n = cursor[t].n
        /\ \A s \in Sessions \ {t} : cursor'[s] = cursor[s]
        /\ \/ table' = Append(table, r) /\ UNCHANGED failed
           \/ failed' = failed \cup {b} /\ UNCHANGED table
    BY <1>7, <2>0 DEF RowEffect
  <2>2. b \in Auths /\ r \in Row /\ table \in Seq(Row)
    <3>1. b \in Auths
      BY <2>0, <2>1, Bounds
    <3> QED
      BY <2>0, <3>1 DEF Row, TypeOK
  <2>3. ASSUME NEW a \in DOMAIN auths', SoleAuth(a)' PROVE SoleState(a)'
    <3>1. a \in DOMAIN auths /\ SoleAuth(a)
      BY <2>1, <2>3 DEF SoleAuth
    <3>2. PICK s \in Sessions : s = auths[a].by /\ SoleState(a)
      BY <1>0, <3>1, EntryType
    <3>3. CASE s # t
      <4>1. b # a
        BY <2>0, <2>1, <3>1, <3>2, <3>3, SoleName
      <4>2. RowsOf(a)' = RowsOf(a) /\ \A k \in RowsOf(a) : table'[k] = table[k]
        <5>1. CASE table' = Append(table, r)
          <6>1. RowsOf(a)' = RowsOf(a)
            BY <2>0, <2>2, <4>1, <5>1, RowAdded
          <6>2. \A k \in DOMAIN table : table'[k] = table[k]
            BY <2>2, <5>1
          <6> QED
            BY <6>1, <6>2 DEF RowsOf
        <5>2. CASE UNCHANGED table
          BY <5>2, RowsSame
        <5> QED
          BY <2>1, <5>1, <5>2
      <4>3. failed \subseteq failed'
        BY <2>1
      <4>4. Untouched(a, s)
        BY <2>1, <3>3, <4>2, <4>3 DEF Untouched
      <4> QED
        BY <3>1, <3>2, <4>4, StaysSole
    <3>4. CASE s = t
      <4>1. Mine(s) = <<a>> /\ cursor[s].n = 1 /\ end[a] = s
        BY <2>1, <3>2, <3>4 DEF SoleState
      <4>2. i = 1 /\ b = a /\ RowsOf(a) = {}
        BY <2>0, <2>1, <3>2, <3>4, <4>1 DEF SoleState
      <4>3. Written(a)'
        <5>1. CASE table' = Append(table, r)
          <6>1. RowsOf(a)' = {Len(table) + 1}
            BY <2>0, <2>2, <4>2, <5>1, RowAdded
          <6>2. table'[Len(table) + 1] = r
            BY <2>2, <5>1
          <6> QED
            BY <2>0, <2>1, <3>2, <4>1, <4>2, <6>1, <6>2 DEF Written
        <5>2. CASE failed' = failed \cup {b} /\ UNCHANGED table
          BY <4>2, <5>2, RowsSame DEF Written
        <5> QED
          BY <2>1, <5>1, <5>2
      <4>4. Mine(s)' = Mine(s)
        BY <2>1 DEF Mine
      <4> QED
        BY <2>1, <3>2, <3>4, <4>1, <4>2, <4>3, <4>4 DEF SoleState
    <3> QED
      BY <3>3, <3>4
  <2> QED
    BY <1>0, <2>3
<1>8. ASSUME NEW t \in Sessions, ClearEffect(t) PROVE Sole'
  <2>1. /\ UNCHANGED <<username, end, auths, cursor, table, failed>>
        /\ Goes(t, "clear", "closed")
        /\ users' = [users EXCEPT ![username[t]] = <<>>]
    BY <1>8 DEF ClearEffect
  <2>2. users \in [Names -> Seq(Auths)]
    BY DEF TypeOK
  <2>3. ASSUME NEW a \in DOMAIN auths', SoleAuth(a)' PROVE SoleState(a)'
    <3>1. a \in DOMAIN auths /\ SoleAuth(a) /\ RowsOf(a)' = RowsOf(a)
      BY <2>1, <2>3, RowsSame DEF SoleAuth
    <3>2. PICK s \in Sessions : s = auths[a].by /\ SoleState(a)
      BY <1>0, <3>1, EntryType
    <3>3. CASE s # t
      <4>1. username[s] # username[t]
        BY <2>1, <3>1, <3>2, <3>3, SoleName DEF Goes, SoleAuth
      <4>2. users'[username[s]] = users[username[s]]
        BY <2>1, <2>2, <4>1, Bounds
      <4>3. Untouched(a, s)
        BY <2>1, <3>1, <3>3, <4>2 DEF Untouched, Goes
      <4> QED
        BY <3>1, <3>2, <4>3, StaysSole
    <3>4. CASE s = t
      <4>1. Written(a)'
        BY <2>1, <3>1, <3>2, <3>4 DEF SoleState, Goes, Written
      <4> QED
        BY <2>1, <3>2, <3>4, <4>1 DEF SoleState, Goes
    <3> QED
      BY <3>3, <3>4
  <2> QED
    BY <1>0, <2>3
<1> QED
  BY <1>1, <1>2, <1>3, <1>4, <1>5, <1>6, <1>7, <1>8 DEF RecordEffect

-----------------------------------------------------------------------------
(* The invariant is inductive, and the properties follow from it. *)
LEMMA StepInv == ASSUME Inv, [Next]_vars PROVE Inv'
<1> USE DEF Inv
<1>1. RecordEffect
  BY RecordMoves
<1>2. TypeOK' /\ Entered'
  BY <1>1, StepType, StepEntered
<1>3. NameUsed' /\ Completed' /\ IncompleteRow' /\ Sole'
  BY <1>1, StepName, StepCompleted, StepIncomplete, StepSole
<1>4. LeftoverOnlyRenamed'
  BY <1>1, <1>2, StepLeftover
<1> QED
  BY <1>2, <1>3, <1>4

(* The inductive invariant holds in every behaviour. *)
THEOREM InvHolds == Spec => []Inv
<1>1. Init => Inv
  BY InitInv
<1>2. Inv /\ [Next]_vars => Inv'
  BY StepInv
<1> QED
  BY <1>1, <1>2, PTL DEF Spec

(* Every variable of the user records keeps its type, for any number of    *)
(* sessions, names, messages and handlers at a time.                       *)
THEOREM LogTypeCorrect == Spec => []TypeOK
<1>1. Inv => TypeOK
  BY DEF Inv
<1> QED
  BY <1>1, InvHolds, PTL

(* The records that stay in the map behind a closed session are those it   *)
(* entered under another name than its last, for any number of sessions    *)
(* and of handlers at a time.                                              *)
THEOREM Leftovers == Spec => []LeftoverOnlyRenamed
<1>1. Inv => LeftoverOnlyRenamed
  BY DEF Inv
<1> QED
  BY <1>1, InvHolds, PTL

(* A row lacks the end of its session only because another session wrote   *)
(* it or an earlier record of the user and port took the end.              *)
THEOREM Incompletes == Spec => []IncompleteRow
<1>1. Inv => IncompleteRow
  BY DEF Inv
<1> QED
  BY <1>1, InvHolds, PTL

(* A name of one session and one message gives one complete row, or none   *)
(* because the insertion failed, whatever the other handlers do.           *)
THEOREM OneRowPerSole == Spec => []LoggedOnce
<1>1. ASSUME Inv PROVE LoggedOnce
  <2>1. ASSUME NEW a \in DOMAIN auths, SoleAuth(a), pc[auths[a].by] = "closed"
        PROVE  Written(a)
    BY <1>1, <2>1 DEF Inv, Sole, SoleState
  <2> QED
    BY <2>1 DEF LoggedOnce, Written
<1> QED
  BY <1>1, InvHolds, PTL

-----------------------------------------------------------------------------
(* One handler at a time: who runs is alone. *)
LEMMA AloneFrame ==
  ASSUME Inv, Serial, MaxHandlers <= 1, [Next]_vars
  PROVE  /\ fault' = "no" /\ stale' = {}
         /\ IsFiniteSet(Running') /\ \A s, t \in Running' : s = t
<1> USE DEF Inv
<1>0. /\ fault = "no" /\ stale = {} /\ IsFiniteSet(Running)
      /\ \A s, t \in Running : s = t
      /\ \A s \in Sessions : InLoop(s) /\ pc[s] \in PC
      /\ pc \in [Sessions -> PC]
  BY DEF Serial, TypeOK
<1>1. ASSUME Running' \subseteq Running, fault' = "no", stale' = {}
      PROVE  IsFiniteSet(Running') /\ \A s, t \in Running' : s = t
  BY <1>0, <1>1, FS_Subset
<1>2. CASE UNCHANGED vars
  BY <1>0, <1>1, <1>2 DEF vars, recordVars, rowVars, Running
<1>3. CASE StopServer
  <2>1. Running' \subseteq Running /\ fault' = "no" /\ stale' = {}
    BY <1>0, <1>3 DEF StopServer, Running
  <2> QED
    BY <1>1, <2>1
<1>4. ASSUME NEW s \in Sessions, \/ Connect(s) \/ AuthenticateLock(s) \/ OnDisconnectLock(s)
                                 \/ ClearLock(s) \/ OnDisconnectFill(s) \/ WriteFind(s)
                                 \/ WriteEnd(s)
      PROVE  /\ fault' = "no" /\ stale' = {}
             /\ IsFiniteSet(Running') /\ \A t, u \in Running' : t = u
  <2>1. Running' \subseteq Running
    BY <1>0, <1>4 DEF Connect, AuthenticateLock, OnDisconnectLock, ClearLock, OnDisconnectFill,
              WriteFind, WriteEnd, Goto, Lock, Unlock, Running
  <2>2. fault' = "no" /\ stale' = {}
    BY <1>0, <1>4 DEF Connect, AuthenticateLock, OnDisconnectLock, ClearLock, OnDisconnectFill,
              WriteFind, WriteEnd
  <2> QED
    BY <1>1, <2>1, <2>2
<1>5. ASSUME NEW s \in Sessions, NEW n, Authenticate(s, n) \/ Disconnect(s)
      PROVE  /\ fault' = "no" /\ stale' = {}
             /\ IsFiniteSet(Running') /\ \A t, u \in Running' : t = u
  <2>1. Running = {}
    <3>1. Cardinality(Running) < MaxHandlers /\ Cardinality(Running) \in Nat
      BY <1>0, <1>5, FS_CardinalityType DEF Authenticate, Disconnect, WorkerFree
    <3>2. Cardinality(Running) = 0
      BY <3>1, UserLogAssumption
    <3> QED
      BY <1>0, <3>2, FS_EmptySet
  <2>2. Running' \subseteq Running \cup {s}
    BY <1>0, <1>5 DEF Authenticate, Disconnect, Goto, Running
  <2>3. fault' = "no" /\ stale' = {}
    BY <1>0, <1>5 DEF Authenticate, Disconnect
  <2>4. IsFiniteSet(Running')
    BY <1>0, <2>2, OneMore
  <2> QED
    BY <2>1, <2>2, <2>3, <2>4
<1>6. ASSUME NEW s \in Sessions, AuthenticateAppend(s) \/ ClearUser(s)
      PROVE  /\ fault' = "no" /\ stale' = {}
             /\ IsFiniteSet(Running') /\ \A t, u \in Running' : t = u
  <2>1. Running' \subseteq Running /\ s \in Running
    BY <1>0, <1>6 DEF AuthenticateAppend, ClearUser, Goto, Unlock, Running
  <2>2. OtherLoops(s) = {}
    BY <1>0, <2>1 DEF OtherLoops, Running
  <2>3. fault' = "no" /\ stale' = {}
    BY <1>0, <1>6, <2>2 DEF AuthenticateAppend, ClearUser
  <2> QED
    BY <1>1, <2>1, <2>3
<1>7. ASSUME NEW s \in Sessions, NEW inserted \in BOOLEAN, WriteRecord(s, inserted)
      PROVE  /\ fault' = "no" /\ stale' = {}
             /\ IsFiniteSet(Running') /\ \A t, u \in Running' : t = u
  <2>1. Running' = Running /\ fault' = "no" /\ stale' = {}
    BY <1>0, <1>7 DEF WriteRecord, Running
  <2> QED
    BY <1>0, <2>1
<1>8. ASSUME NEW s \in Sessions, WriteFindRaces(s) PROVE FALSE
  BY <1>0, <1>8 DEF WriteFindRaces, MapChanging, Running
<1>9. ASSUME NEW s \in Sessions, WriteRecordFaults(s) PROVE FALSE
  <2>1. pc[s] = "write" /\ cursor[s].i <= cursor[s].n /\ s \in Running
    BY <1>9 DEF WriteRecordFaults, Running
  <2>2. s \notin stale /\ cursor[s].i \in DOMAIN Mine(s)
    <3>1. cursor[s].i \in 1 .. cursor[s].n + 1 /\ cursor[s].n <= Len(Mine(s))
      BY <1>0, <2>1 DEF InLoop
    <3>2. Mine(s) \in Seq(Auths) /\ cursor[s].n \in Nat
      BY Bounds DEF TypeOK
    <3> QED
      BY <1>0, <2>1, <3>1, <3>2
  <2>3. RecordChanging(s, cursor[s].i)
    BY <1>9, <2>2 DEF WriteRecordFaults
  <2> QED
    BY <1>0, <2>1, <2>3 DEF RecordChanging, Running
<1> QED
  BY <1>2, <1>3, <1>4, <1>5, <1>6, <1>7, <1>8, <1>9
     DEF Next, DataHandler, DisconnectHandler

(* The loop stays inside the records, since nobody else changes them. *)
LEMMA StepInLoop ==
  ASSUME Inv, Serial, RecordEffect PROVE \A s \in Sessions : InLoop(s)'
<1>0. /\ \A s, t \in Running : s = t
      /\ \A s \in Sessions : InLoop(s)
      /\ \A s \in Sessions : pc[s] \in {"append", "clear", "write"} => s \in Running
      /\ \A s \in Sessions : cursor[s].n \in Nat /\ cursor[s].i \in Nat
  BY DEF Serial, Running, Inv, TypeOK
<1>1. CASE NothingEffect \/ StopEffect
  BY <1>0, <1>1 DEF NothingEffect, StopEffect, InLoop, Mine
<1>2. ASSUME NEW t \in Sessions,
             MoveEffect(t) \/ FillEffect(t) \/ FindEffect(t) \/ RowEffect(t),
             NEW s \in Sessions
      PROVE  InLoop(s)'
  <2>1. Mine(s)' = Mine(s)
    BY <1>2 DEF MoveEffect, FillEffect, FindEffect, RowEffect, Mine
  <2>2. CASE s # t
    BY <1>0, <1>2, <2>1, <2>2 DEF MoveEffect, FillEffect, FindEffect, RowEffect, Goes, InLoop
  <2>3. CASE s = t /\ FindEffect(t)
    <3>1. Len(Mine(s)) \in Nat
      BY Bounds DEF Mine, Inv
    <3>2. CASE pc'[s] = "write"
      <4>1. cursor'[s] = [i |-> 1, n |-> Len(Mine(s))]
        BY <2>3, <3>2 DEF FindEffect, Goes
      <4> QED
        BY <2>1, <3>1, <4>1 DEF InLoop
    <3> QED
      BY <3>2 DEF InLoop
  <2>4. CASE s = t /\ RowEffect(t)
    <3>1. /\ cursor'[s].i = cursor[s].i + 1 /\ cursor'[s].n = cursor[s].n
          /\ cursor[s].i <= cursor[s].n /\ pc[s] = "write"
      BY <2>4 DEF RowEffect
    <3> QED
      BY <1>0, <2>1, <3>1 DEF InLoop
  <2>5. CASE s = t /\ (MoveEffect(t) \/ FillEffect(t))
    BY <2>5 DEF MoveEffect, FillEffect, Goes, InLoop
  <2> QED
    BY <1>2, <2>2, <2>3, <2>4, <2>5
<1>3. ASSUME NEW t \in Sessions, NEW n \in Names, NameEffect(t, n), NEW s \in Sessions
      PROVE  InLoop(s)'
  BY <1>0, <1>3 DEF NameEffect, Goes, InLoop, Mine
<1>4. ASSUME NEW t \in Sessions, AppendEffect(t) \/ ClearEffect(t), NEW s \in Sessions
      PROVE  InLoop(s)'
  BY <1>0, <1>4 DEF AppendEffect, ClearEffect, Goes, InLoop
<1> QED
  BY <1>1, <1>2, <1>3, <1>4 DEF RecordEffect

(* No record gets a second row while it is in the map. *)
LEMMA StepRowsOnce == ASSUME Inv, Serial, RecordEffect PROVE RowsOnce'
<1> DEFINE Has(s, n, i) ==
             /\ username[s] = n
             /\ pc[s] \in {"erase", "clear"} \/ (pc[s] = "write" /\ i < cursor[s].i)
           Fine(n, i) == RowsOf(users[n][i]) # {} => \E s \in Sessions : Has(s, n, i)
<1>0. /\ \A s, t \in Running : s = t
      /\ \A n \in Names : \A i \in DOMAIN users[n] : Fine(n, i)
      /\ \A s \in Sessions :
           pc[s] \in {"append", "complete", "find", "write", "erase", "clear"} => s \in Running
      /\ \A s \in Sessions : cursor[s].i \in Nat
      /\ (\A n \in Names : \A i \in DOMAIN users'[n] : Fine(n, i)') => RowsOnce'
      /\ \A s \in Sessions : username[s] \in Names
      /\ users \in [Names -> Seq(Auths)]
      /\ TypeOK /\ Entered
  <2>1. /\ \A s, t \in Running : s = t
        /\ \A n \in Names : \A i \in DOMAIN users[n] : Fine(n, i)
        /\ (\A n \in Names : \A i \in DOMAIN users'[n] : Fine(n, i)') => RowsOnce'
    BY DEF Serial, RowsOnce
  <2>2. TypeOK /\ Entered
    BY DEF Inv
  <2>3. \A s \in Sessions :
           pc[s] \in {"append", "complete", "find", "write", "erase", "clear"} => s \in Running
    BY DEF Running
  <2>4. /\ \A s \in Sessions : cursor[s].i \in Nat
        /\ \A s \in Sessions : username[s] \in Names
        /\ users \in [Names -> Seq(Auths)]
    BY <2>2, UserLogAssumption DEF TypeOK
  <2> QED
    BY <2>1, <2>2, <2>3, <2>4
<1>a. ASSUME NEW n \in Names, NEW i \in DOMAIN users[n], NEW t \in Running,
             pc[t] \notin {"write", "erase", "clear"}
      PROVE  RowsOf(users[n][i]) = {}
  BY <1>0, <1>a
<1>1. CASE NothingEffect \/ StopEffect
  <2>1. ASSUME NEW n \in Names, NEW i \in DOMAIN users'[n] PROVE Fine(n, i)'
    <3>1. Fine(n, i) /\ users' = users /\ table' = table
      BY <1>0, <1>1 DEF NothingEffect, StopEffect
    <3>2. ASSUME NEW s \in Sessions, Has(s, n, i) PROVE Has(s, n, i)'
      BY <1>1, <3>2 DEF NothingEffect, StopEffect
    <3> QED
      BY <3>1, <3>2 DEF RowsOf
  <2> QED
    BY <1>0, <2>1
<1>2. ASSUME NEW t \in Sessions, NEW k \in Names, MoveEffect(t) \/ NameEffect(t, k)
      PROVE  RowsOnce'
  <2>1. ASSUME NEW n \in Names, NEW i \in DOMAIN users'[n] PROVE Fine(n, i)'
    <3>1. users' = users /\ table' = table
      BY <1>2 DEF MoveEffect, NameEffect
    <3>0. Fine(n, i)
      BY <1>0, <2>1, <3>1
    <3>2. ASSUME NEW s \in Sessions, Has(s, n, i) PROVE Has(s, n, i)'
      BY <1>2, <3>2 DEF MoveEffect, NameEffect, Goes
    <3> QED
      BY <3>0, <3>1, <3>2 DEF RowsOf
  <2> QED
    BY <1>0, <2>1
<1>3. ASSUME NEW t \in Sessions, FillEffect(t) \/ FindEffect(t) PROVE RowsOnce'
  <2>1. t \in Running /\ pc[t] \notin {"write", "erase", "clear"}
    BY <1>0, <1>3 DEF FillEffect, FindEffect, Goes
  <2>2. users' = users /\ table' = table
    BY <1>3 DEF FillEffect, FindEffect
  <2>3. ASSUME NEW n \in Names, NEW i \in DOMAIN users'[n] PROVE RowsOf(users[n][i])' = {}
    <3>1. RowsOf(users[n][i]) = {}
      BY <1>a, <2>1, <2>2
    <3> QED
      BY <2>2, <3>1 DEF RowsOf
  <2> QED
    BY <1>0, <2>2, <2>3
<1>4. ASSUME NEW t \in Sessions, AppendEffect(t) PROVE RowsOnce'
  <2>0. PICK m \in Names, new \in Nat : m = username[t] /\ new = Len(auths) + 1
    BY <1>0, EntryType
  <2>1. /\ \A k \in Names \ {m} : users'[k] = users[k]
        /\ DOMAIN users'[m] = 1 .. Len(users[m]) + 1 /\ DOMAIN users[m] = 1 .. Len(users[m])
        /\ \A i \in DOMAIN users[m] : users'[m][i] = users[m][i]
        /\ users'[m][Len(users[m]) + 1] = new
    BY <1>0, <1>4, <2>0, AppendFacts
  <2>2. t \in Running /\ pc[t] \notin {"write", "erase", "clear"} /\ table' = table
    BY <1>0, <1>4 DEF AppendEffect, Goes
  <2>3. ASSUME NEW n \in Names, NEW i \in DOMAIN users'[n], NEW x, x = users'[n][i]
        PROVE  RowsOf(x) = {}
    <3>1. CASE i \in DOMAIN users[n] /\ users'[n][i] = users[n][i]
      BY <1>a, <2>2, <2>3, <3>1
    <3>2. CASE x = new
      <4>1. new \notin DOMAIN auths
        BY <1>0, <2>0, EntryType
      <4> QED
        BY <1>0, <3>2, <4>1 DEF RowsOf, Entered
    <3>3. (i \in DOMAIN users[n] /\ users'[n][i] = users[n][i]) \/ x = new
      <4>1. Len(users[m]) \in Nat
        BY <1>0
      <4>2. CASE n = m
        <5>1. i \in 1 .. Len(users[m]) + 1
          BY <2>1, <2>3, <4>2
        <5> QED
          BY <2>1, <2>3, <4>1, <4>2, <5>1
      <4>3. CASE n # m
        BY <2>1, <2>3, <4>3
      <4> QED
        BY <4>2, <4>3
    <3> QED
      BY <3>1, <3>2, <3>3
  <2>4. ASSUME NEW n \in Names, NEW i \in DOMAIN users'[n] PROVE Fine(n, i)'
    <3>1. PICK x : x = users'[n][i] /\ RowsOf(x) = {}
      BY <2>3
    <3>2. {k \in DOMAIN table' : table'[k].auth = x} = {}
      BY <2>2, <3>1 DEF RowsOf
    <3> QED
      BY <3>1, <3>2 DEF RowsOf
  <2> QED
    BY <1>0, <2>4
<1>5. ASSUME NEW t \in Sessions, RowEffect(t) PROVE RowsOnce'
  <2>0. PICK j, m, b : /\ j = cursor[t].i /\ m = username[t] /\ b = Mine(t)[j]
    OBVIOUS
  <2>1. /\ UNCHANGED <<pc, username, users>>
        /\ pc[t] = "write" /\ j \in DOMAIN users[m] /\ b = users[m][j] /\ m \in Names
        /\ cursor'[t].i = j + 1
        /\ \A s \in Sessions \ {t} : cursor'[s] = cursor[s]
        /\ table' = Append(table, [auth |-> b, end |-> end[b], by |-> t]) \/ UNCHANGED table
        /\ j \in Nat
    BY <1>0, <1>5, <2>0 DEF RowEffect, Mine
  <2>2. ASSUME NEW a, a # b PROVE RowsOf(a)' = RowsOf(a)
    <3>1. CASE table' = Append(table, [auth |-> b, end |-> end[b], by |-> t])
      <4>1. [auth |-> b, end |-> end[b], by |-> t] \in Row
        <5>1. b \in Auths
          BY <1>0, <2>1
        <5> QED
          BY <1>0, <5>1 DEF Row, TypeOK
      <4>2. table \in Seq(Row)
        BY <1>0 DEF TypeOK
      <4>3. [auth |-> b, end |-> end[b], by |-> t].auth = b
        OBVIOUS
      <4> QED
        BY <2>2, <3>1, <4>1, <4>2, <4>3, RowAdded
    <3> QED
      BY <2>1, <3>1, RowsSame
  <2>3. ASSUME NEW n \in Names, NEW i \in DOMAIN users'[n] PROVE Fine(n, i)'
    <3>0. i \in DOMAIN users[n] /\ i \in Nat /\ users'[n][i] = users[n][i] /\ Fine(n, i)
      <4>1. users[n] \in Seq(Auths)
        BY <1>0
      <4> QED
        BY <1>0, <2>1, <2>3, <4>1
    <3>1. CASE users[n][i] = b
      <4>1. n = m /\ i = j
        <5>1. n = m
          <6>1. auths[users[n][i]].name = n /\ auths[users[m][j]].name = m
            BY <1>0, <2>1, <3>0 DEF Entered
          <6> QED
            BY <2>1, <3>1, <6>1
        <5>2. \A x, y \in DOMAIN users[m] : x < y => users[m][x] < users[m][y]
          BY <1>0, <2>1 DEF Entered
        <5>3. users[m][j] \in Nat
          <6>1. users[m][j] \in Auths
            BY <1>0, <2>1, Bounds
          <6> QED
            BY <6>1, UserLogAssumption DEF Auths
        <5> QED
          BY <2>1, <3>0, <3>1, <5>1, <5>2, <5>3
      <4>2. Has(t, n, i)'
        BY <2>0, <2>1, <3>0, <4>1
      <4> QED
        BY <4>2
    <3>2. CASE users[n][i] # b
      <4>1. PICK a : a = users[n][i]
        OBVIOUS
      <4>2. RowsOf(a)' = RowsOf(a)
        BY <2>2, <3>2, <4>1
      <4>3. ASSUME NEW s \in Sessions, Has(s, n, i) PROVE Has(s, n, i)'
        <5>1. CASE s # t
          BY <2>1, <4>3, <5>1
        <5>2. CASE s = t
          BY <2>0, <2>1, <3>0, <4>3, <5>2
        <5> QED
          BY <5>1, <5>2
      <4>4. RowsOf(users[n][i])' = RowsOf(a)'
        BY <3>0, <4>1 DEF RowsOf
      <4> QED
        BY <3>0, <4>1, <4>2, <4>3, <4>4
    <3> QED
      BY <3>1, <3>2
  <2> QED
    BY <1>0, <2>3
<1>6. ASSUME NEW t \in Sessions, ClearEffect(t) PROVE RowsOnce'
  <2>1. /\ UNCHANGED <<username, table>> /\ t \in Running /\ pc[t] = "clear"
        /\ \A s \in Sessions \ {t} : pc'[s] = pc[s]
        /\ users' = [users EXCEPT ![username[t]] = <<>>]
    BY <1>0, <1>6 DEF ClearEffect, Goes
  <2>2. ASSUME NEW n \in Names, NEW i \in DOMAIN users'[n] PROVE Fine(n, i)'
    <3>1. n # username[t] /\ users'[n] = users[n]
      BY <1>0, <2>1, <2>2
    <3>2. ~ \E s \in Sessions : Has(s, n, i)
      BY <1>0, <2>1, <3>1
    <3>3. RowsOf(users[n][i]) = {}
      BY <1>0, <2>2, <3>1, <3>2
    <3> QED
      BY <2>1, <3>1, <3>3 DEF RowsOf
  <2> QED
    BY <1>0, <2>2
<1> QED
  BY <1>1, <1>2, <1>3, <1>4, <1>5, <1>6, UserLogAssumption DEF RecordEffect

-----------------------------------------------------------------------------
(* With one worker the whole of Serial holds. *)
LEMMA AloneStep ==
  ASSUME MaxHandlers <= 1, Inv, Serial, [Next]_vars PROVE Inv' /\ Serial'
<1>1. Inv' /\ RecordEffect
  BY StepInv, RecordMoves DEF Inv
<1>2. /\ fault' = "no" /\ stale' = {}
      /\ IsFiniteSet(Running') /\ \A s, t \in Running' : s = t
  BY AloneFrame
<1>3. (\A s \in Sessions : InLoop(s)') /\ RowsOnce'
  BY <1>1, StepInLoop, StepRowsOnce
<1> QED
  BY <1>1, <1>2, <1>3 DEF Serial

(* With one worker nothing changes under a handler, in every behaviour. *)
THEOREM SerialHolds == ASSUME MaxHandlers <= 1 PROVE Spec => [](Inv /\ Serial)
<1>1. Init => Inv /\ Serial
  BY InitInv
<1>2. (Inv /\ Serial) /\ [Next]_vars => (Inv /\ Serial)'
  BY AloneStep
<1> QED
  BY <1>1, <1>2, PTL DEF Spec

(* With one worker WriteToDB never reads a record that is changed or freed *)
(* under it.                                                               *)
THEOREM ReadsAreSafe == ASSUME MaxHandlers <= 1 PROVE Spec => []SafeReads
<1>1. Inv /\ Serial => SafeReads
  BY DEF Serial, SafeReads
<1> QED
  BY <1>1, SerialHolds, PTL

-----------------------------------------------------------------------------
(* The refinement of ConnectionLedger *)

(* A record has finitely many rows, none of them beyond the table. *)
LEMMA RowsFinite ==
  ASSUME TypeOK, NEW a
  PROVE  IsFiniteSet(RowsOf(a)) /\ Len(table) + 1 \notin RowsOf(a)
<1>1. RowsOf(a) \subseteq 1 .. Len(table) /\ Len(table) \in Nat
  BY DEF TypeOK, RowsOf
<1>2. IsFiniteSet(1 .. Len(table))
  BY <1>1, FS_Interval
<1>3. IsFiniteSet(RowsOf(a))
  BY <1>1, <1>2, FS_Subset
<1>4. Len(table) + 1 \notin 1 .. Len(table)
  BY <1>1
<1> QED
  BY <1>1, <1>3, <1>4

(* What a step does to the ledger *)
EnterEffect ==
  /\ Len(auths) < MaxAuths
  /\ Len(auths') = Len(auths) + 1
  /\ Pending' = Pending \cup {Len(auths) + 1}
  /\ UNCHANGED rowCount

WriteEffect(s, a) ==
  /\ pc[s] = "write" /\ cursor[s].i \in DOMAIN Mine(s) /\ a = Mine(s)[cursor[s].i]
  /\ a \in Pending
  /\ rowCount' = [rowCount EXCEPT ![a] = rowCount[a] + 1]
  /\ UNCHANGED <<Len(auths), Pending>>

LedgerEffect ==
  \/ UNCHANGED <<Len(auths), Pending, rowCount>>
  \/ EnterEffect
  \/ \E s \in Sessions, a \in Auths : WriteEffect(s, a)
  \/ Pending' \subseteq Pending /\ UNCHANGED <<Len(auths), rowCount>>

(* Every step has one of these effects. *)
LEMMA LedgerMoves == ASSUME Inv, RecordEffect PROVE LedgerEffect
<1> USE DEF Inv
<1>0. /\ \A s \in Sessions : username[s] \in Names
      /\ users \in [Names -> Seq(Auths)] /\ table \in Seq(Row)
  BY DEF TypeOK
<1>1. UNCHANGED users => UNCHANGED Pending
  BY DEF Pending
<1>2. UNCHANGED table => UNCHANGED rowCount
  BY DEF rowCount, RowsOf
<1>3. CASE UNCHANGED <<users, auths, table>>
  BY <1>1, <1>2, <1>3 DEF LedgerEffect
<1>4. ASSUME NEW s \in Sessions, AppendEffect(s) PROVE LedgerEffect
  <2>0. PICK n \in Names, new \in Nat : n = username[s] /\ new = Len(auths) + 1
    BY <1>0, EntryType
  <2>1. /\ Len(auths') = new /\ new \in Auths
        /\ \A k \in Names \ {n} : users'[k] = users[k]
        /\ DOMAIN users'[n] = 1 .. Len(users[n]) + 1 /\ DOMAIN users[n] = 1 .. Len(users[n])
        /\ \A i \in DOMAIN users[n] : users'[n][i] = users[n][i]
        /\ users'[n][Len(users[n]) + 1] = new
    BY <1>4, <2>0, AppendFacts
  <2>7. Len(users[n]) \in Nat
    BY <1>0
  <2>2. ASSUME NEW a PROVE a \in Pending' <=> a \in Pending \/ a = new
    <3>1. ASSUME a \in Pending PROVE a \in Pending'
      <4>1. PICK k \in Names : \E i \in DOMAIN users[k] : users[k][i] = a
        BY <3>1 DEF Pending
      <4>2. PICK i \in DOMAIN users[k] : users[k][i] = a
        BY <4>1
      <4>3. i \in DOMAIN users'[k] /\ users'[k][i] = a
        <5>1. CASE k = n
          BY <2>1, <2>7, <4>2, <5>1
        <5>2. CASE k # n
          BY <2>1, <4>2, <5>2
        <5> QED
          BY <5>1, <5>2
      <4> QED
        BY <3>1, <4>3 DEF Pending
    <3>2. ASSUME a = new PROVE a \in Pending'
      <4>1. Len(users[n]) + 1 \in DOMAIN users'[n]
        BY <2>1, <2>7
      <4> QED
        BY <2>1, <3>2, <4>1 DEF Pending
    <3>3. ASSUME a \in Pending' PROVE a \in Pending \/ a = new
      <4>1. PICK k \in Names : \E i \in DOMAIN users'[k] : users'[k][i] = a
        BY <3>3 DEF Pending
      <4>2. PICK i \in DOMAIN users'[k] : users'[k][i] = a
        BY <4>1
      <4>3. CASE k = n
        <5>1. i \in DOMAIN users[n] \/ i = Len(users[n]) + 1
          BY <2>1, <2>7, <4>2, <4>3
        <5> QED
          BY <2>1, <3>3, <4>2, <4>3, <5>1 DEF Pending
      <4>4. CASE k # n
        BY <2>1, <3>3, <4>2, <4>4 DEF Pending
      <4> QED
        BY <4>3, <4>4
    <3> QED
      BY <3>1, <3>2, <3>3
  <2>3. Pending' = Pending \cup {new}
    BY <2>2
  <2>4. Len(auths) < MaxAuths
    BY <2>0, <2>1, UserLogAssumption, EntryType DEF Auths
  <2>5. UNCHANGED table
    BY <1>4 DEF AppendEffect
  <2>6. EnterEffect
    BY <1>2, <2>0, <2>1, <2>3, <2>4, <2>5 DEF EnterEffect
  <2> QED
    BY <2>6 DEF LedgerEffect
<1>5. ASSUME NEW s \in Sessions, RowEffect(s) PROVE LedgerEffect
  <2>1. PICK a \in Auths : a = Mine(s)[cursor[s].i]
    BY <1>0, <1>5, Bounds DEF RowEffect
  <2>2. /\ pc[s] = "write" /\ cursor[s].i \in DOMAIN Mine(s) /\ UNCHANGED <<users, auths>>
        /\ \/ table' = Append(table, [auth |-> a, end |-> end[a], by |-> s])
           \/ UNCHANGED table
    BY <1>5, <2>1 DEF RowEffect
  <2>3. CASE UNCHANGED table
    BY <1>3, <2>2, <2>3
  <2>4. CASE table' = Append(table, [auth |-> a, end |-> end[a], by |-> s])
    <3>1. [auth |-> a, end |-> end[a], by |-> s] \in Row
      BY <2>1 DEF Row, TypeOK
    <3>2. \A b : RowsOf(b)' = IF b = a THEN RowsOf(b) \cup {Len(table) + 1} ELSE RowsOf(b)
      <4>1. PICK r \in Row : r = [auth |-> a, end |-> end[a], by |-> s]
        BY <3>1
      <4>2. table' = Append(table, r) /\ r.auth = a
        BY <2>4, <4>1
      <4> QED
        BY <1>0, <4>2, RowAdded
    <3>3. /\ IsFiniteSet(RowsOf(a)) /\ Len(table) + 1 \notin RowsOf(a)
      BY RowsFinite
    <3>4. Cardinality(RowsOf(a)') = Cardinality(RowsOf(a)) + 1
      BY <3>2, <3>3, FS_AddElement
    <3>5. rowCount' = [rowCount EXCEPT ![a] = rowCount[a] + 1]
      <4>1. rowCount' = [b \in Auths |-> Cardinality(RowsOf(b)')]
        BY DEF rowCount
      <4>2. \A b \in Auths : Cardinality(RowsOf(b)') =
              IF b = a THEN rowCount[a] + 1 ELSE rowCount[b]
        BY <3>2, <3>4 DEF rowCount
      <4>3. rowCount = [b \in Auths |-> rowCount[b]]
        BY DEF rowCount
      <4> QED
        BY <4>1, <4>2, <4>3
    <3>6. a \in Pending
      BY <1>0, <2>1, <2>2 DEF Pending, Mine
    <3>7. WriteEffect(s, a)
      BY <1>1, <2>1, <2>2, <3>5, <3>6 DEF WriteEffect
    <3> QED
      BY <3>7 DEF LedgerEffect
  <2> QED
    BY <2>2, <2>3, <2>4
<1>6. ASSUME NEW s \in Sessions, ClearEffect(s) PROVE LedgerEffect
  <2>1. UNCHANGED <<auths, table>> /\ users' = [users EXCEPT ![username[s]] = <<>>]
    BY <1>6 DEF ClearEffect
  <2>2. \A n \in Names : users'[n] = users[n] \/ users'[n] = <<>>
    BY <1>0, <2>1
  <2>3. Pending' \subseteq Pending
    BY <2>2 DEF Pending
  <2> QED
    BY <1>2, <2>1, <2>3 DEF LedgerEffect
<1> QED
  BY <1>3, <1>4, <1>5, <1>6 DEF RecordEffect, NothingEffect, StopEffect, MoveEffect,
     NameEffect, FillEffect, FindEffect

(* The records start as the empty ledger. *)
LEMMA LedgerInit == ASSUME Init PROVE SomeRows!Init /\ OneRow!Init
<1>1. Len(auths) = 0 /\ Pending = {}
  BY DEF Init, Pending
<1>2. \A a \in Auths : RowsOf(a) = {}
  BY DEF Init, RowsOf
<1>3. rowCount = [a \in 1 .. MaxAuths |-> 0]
  BY <1>2, FS_EmptySet DEF rowCount, Auths
<1> QED
  BY <1>1, <1>3 DEF SomeRows!Init, OneRow!Init

(* The user records implement ConnectionLedger, for any number of sessions *)
(* and of handlers at a time: a record gets rows only between the moment   *)
(* it is entered and the moment it is cleared.  Entering a record is       *)
(* Enter, an insertion that succeeds is Write, clearUser is Clear; every   *)
(* other step changes nothing in the ledger.                               *)
THEOREM LogImplementsLedger == Spec => SomeRowsEach
<1>1. Init => SomeRows!Init
  BY LedgerInit
<1>2. Inv /\ [Next]_vars => [SomeRows!Next]_(SomeRows!vars)
  <2> SUFFICES ASSUME Inv, [Next]_vars
               PROVE  SomeRows!Next \/ UNCHANGED <<Len(auths), Pending, rowCount>>
    BY DEF SomeRows!vars
  <2>1. LedgerEffect
    BY RecordMoves, LedgerMoves DEF Inv
  <2>2. ASSUME EnterEffect PROVE SomeRows!Next
    BY <2>2 DEF EnterEffect, SomeRows!Next, SomeRows!Enter
  <2>3. ASSUME NEW s \in Sessions, NEW a \in Auths, WriteEffect(s, a) PROVE SomeRows!Next
    <3>1. SomeRows!Write(a)
      BY <2>3 DEF WriteEffect, SomeRows!Write
    <3> QED
      BY <3>1 DEF SomeRows!Next, Auths
  <2>4. ASSUME Pending' \subseteq Pending, UNCHANGED <<Len(auths), rowCount>>
        PROVE  SomeRows!Next
    <3>1. Pending' = Pending \ (Pending \ Pending') /\ Pending \ Pending' \in SUBSET Pending
      BY <2>4
    <3>2. SomeRows!Clear
      BY <2>4, <3>1 DEF SomeRows!Clear
    <3> QED
      BY <3>2 DEF SomeRows!Next
  <2> QED
    BY <2>1, <2>2, <2>3, <2>4 DEF LedgerEffect
<1> QED
  BY <1>1, <1>2, InvHolds, PTL DEF Spec, SomeRowsEach, SomeRows!Spec

(* With one worker no record gets a second row. *)
THEOREM LogWritesOnce == ASSUME MaxHandlers <= 1 PROVE Spec => OneRowEach
<1>1. Init => OneRow!Init
  BY LedgerInit
<1>2. (Inv /\ Serial) /\ [Next]_vars => [OneRow!Next]_(OneRow!vars)
  <2> SUFFICES ASSUME Inv, Serial, [Next]_vars
               PROVE  OneRow!Next \/ UNCHANGED <<Len(auths), Pending, rowCount>>
    BY DEF OneRow!vars
  <2>1. LedgerEffect
    BY RecordMoves, LedgerMoves DEF Inv
  <2>2. ASSUME EnterEffect PROVE OneRow!Next
    BY <2>2 DEF EnterEffect, OneRow!Next, OneRow!Enter
  <2>3. ASSUME NEW s \in Sessions, NEW a \in Auths, WriteEffect(s, a) PROVE OneRow!Next
    <3>1. PICK n, i : n = username[s] /\ i = cursor[s].i
      OBVIOUS
    <3>2. pc[s] = "write" /\ i \in DOMAIN users[n] /\ a = users[n][i] /\ n \in Names
      BY <2>3, <3>1, Bounds DEF WriteEffect, Mine, Inv
    <3>3. RowsOf(a) = {}
      <4>1. ASSUME NEW t \in Sessions, pc[t] \in {"erase", "clear", "write"} PROVE t = s
        BY <3>2, <4>1 DEF Serial, Running
      <4>2. ~ \E t \in Sessions :
                /\ username[t] = n
                /\ pc[t] \in {"erase", "clear"} \/ (pc[t] = "write" /\ i < cursor[t].i)
        <5>1. cursor[s].i \in Nat
          BY UserLogAssumption DEF Inv, TypeOK
        <5> QED
          BY <3>1, <3>2, <4>1, <5>1
      <4> QED
        BY <3>2, <4>2 DEF Serial, RowsOnce
    <3>4. rowCount[a] = 0
      BY <3>3, FS_EmptySet DEF rowCount
    <3>5. OneRow!Write(a)
      BY <2>3, <3>4 DEF WriteEffect, OneRow!Write
    <3> QED
      BY <3>5 DEF OneRow!Next, Auths
  <2>4. ASSUME Pending' \subseteq Pending, UNCHANGED <<Len(auths), rowCount>>
        PROVE  OneRow!Next
    <3>1. Pending' = Pending \ (Pending \ Pending') /\ Pending \ Pending' \in SUBSET Pending
      BY <2>4
    <3>2. OneRow!Clear
      BY <2>4, <3>1 DEF OneRow!Clear
    <3> QED
      BY <3>2 DEF OneRow!Next
  <2> QED
    BY <2>1, <2>2, <2>3, <2>4 DEF LedgerEffect
<1> QED
  BY <1>1, <1>2, SerialHolds, PTL DEF Spec, OneRowEach, OneRow!Spec
==============================================================================
