------------------------------ MODULE LogViewer ------------------------------
(***************************************************************************)
(* The database viewer (SQLite/main.cpp, SQLite/Lib/src/sourse.cpp), a     *)
(* program of its own that reads the table while the server writes to it.  *)
(* The two meet in the database file only: while a SELECT is stepped the   *)
(* file is locked for reading and the server's insertions fail, and a      *)
(* SELECT that starts within an insertion fails in turn.                   *)
(*                                                                         *)
(* A step of the viewer is one call of sqlite3_step and what is done with  *)
(* the row.  A SELECT that fails is reported, and its total printed all    *)
(* the same; a command that fails before its SELECT leaves no trace.       *)
(***************************************************************************)
EXTENDS UserLog, Integers, FiniteSetsExt

CONSTANTS
  DayOf,          \* [Sessions -> day], timeToday of the session's records
  Lasting,        \* [Sessions -> Nat], seconds between connection and end
  Garbage,        \* times that memory may hold by chance
  MaxCommands     \* bound: the commands of a behaviour

ASSUME LogViewerAssumption ==
  /\ Lasting \in [Sessions -> Nat]
  /\ Garbage \subseteq Nat \X Nat \X Nat /\ <<0, 0, 0>> \in Garbage
  /\ MaxCommands \in Nat

VARIABLE viewer   \* [at, query, row, local, total, commands]

NoQuery == [name |-> None, day |-> None]

Queries == [name : Names \ {NoName}, day : {DayOf[s] : s \in Sessions}]

ViewerInit ==
  viewer = [at |-> "idle", query |-> NoQuery, row |-> 0,
            local |-> <<0, 0, 0>>, total |-> <<0, 0, 0>>, commands |-> 0]

-----------------------------------------------------------------------------
(* ConnectionTimes: seconds as hours, minutes and seconds *)
ConnectionTimes(sec) == <<sec \div 3600, sec \div 60 % 60, sec % 60>>

Seconds(t) == 3600 * t[1] + 60 * t[2] + t[3]

Plus(t, u) == <<t[1] + u[1], t[2] + u[2], t[3] + u[3]>>

(* Faulty variant: the minutes are not carried. *)
CarryNoHours(t) == <<t[1], (t[2] + t[3] \div 60) % 60, t[3] % 60>>

(* What is carried before the total is printed *)
Carry(t) ==
  LET m == t[2] + t[3] \div 60 IN <<t[1] + m \div 60, m % 60, t[3] % 60>>

(* formatTime has room for eight characters; below a thousand hours all    *)
(* that is cut off is the last digit.                                      *)
FormatTime(t) == IF t[1] < 100 THEN t ELSE <<t[1], t[2], t[3] \div 10>>

(* WHERE username = ? AND timeToday = ?, among the first n rows *)
Selected(q, n) ==
  {k \in 1 .. n : LET a == auths[table[k].auth] IN a.name = q.name /\ DayOf[a.by] = q.day}

Remaining == Selected(viewer.query, Len(table)) \ (1 .. viewer.row)

-----------------------------------------------------------------------------
(* sscanf: a row without a duration leaves the local variables as they     *)
(* are, uninitialised: what the last row left there, or anything.          *)
Scanned(k) ==
  IF table[k].end = None THEN Garbage \cup {viewer.local}
  ELSE {ConnectionTimes(Lasting[table[k].end])}

CalculateTime(q) ==
  /\ viewer.at \in {"idle", "printed", "failed"}
  /\ viewer.commands < MaxCommands
  /\ viewer' = [at |-> "first", query |-> q, row |-> 0, local |-> <<0, 0, 0>>,
                total |-> <<0, 0, 0>>, commands |-> viewer.commands + 1]

ReadRow(t) ==
  /\ viewer.at \in {"first", "reading"}
  /\ Remaining # {}
  /\ t \in Scanned(Min(Remaining))
  /\ viewer' = [viewer EXCEPT !.at = "reading", !.row = Min(Remaining),
                              !.local = t, !.total = Plus(@, t)]

(* The loop over the rows is left: the total of the rows so far is carried *)
(* and printed, after an error too.                                        *)
PrintLine(outcome) ==
  viewer' = [viewer EXCEPT !.at = outcome, !.local = <<0, 0, 0>>,
                           !.total = FormatTime(Carry(@))]

(* SQLITE_DONE *)
PrintTotal ==
  /\ viewer.at \in {"first", "reading"}
  /\ Remaining = {}
  /\ PrintLine("printed")

(* SQLITE_BUSY, which is reported on the error stream: the first step does *)
(* not get the lock.  Once it has it the file cannot become busy.          *)
ReadBusy ==
  /\ viewer.at = "first"
  /\ \E s \in Sessions : pc[s] = "write"
  /\ PrintLine("failed")

(* readAllFromDatabase, printUserData: what they print is left out, the    *)
(* file is locked while their rows are stepped.                            *)
PrintRows ==
  /\ viewer.at \in {"idle", "printed", "failed"}
  /\ viewer.commands < MaxCommands
  /\ viewer' = [viewer EXCEPT !.at = "printing", !.commands = @ + 1]

PrintedRows == viewer.at = "printing" /\ viewer' = [viewer EXCEPT !.at = "idle"]

ViewerNext ==
  \/ PrintRows
  \/ PrintedRows
  \/ \E q \in Queries : CalculateTime(q)
  \/ \E t \in Garbage \cup {viewer.local} \cup {ConnectionTimes(Lasting[s]) : s \in Sessions} :
       ReadRow(t)
  \/ PrintTotal
  \/ ReadBusy

(* writeToDatabase gets SQLITE_BUSY while the viewer has the file locked.  *)
ServerNext == Next /\ (viewer.at \in {"reading", "printing"} => UNCHANGED table)

LogNext ==
  \/ ServerNext /\ UNCHANGED viewer
  \/ ViewerNext /\ UNCHANGED vars

LogSpec == Init /\ ViewerInit /\ [][LogNext]_<<vars, viewer>>

-----------------------------------------------------------------------------
(* Properties *)

(* The messages that named the user on that day *)
Named(q) == {a \in DOMAIN auths : auths[a].name = q.name /\ DayOf[auths[a].by] = q.day}

(* Each named the user for another session, each from another port, all    *)
(* under the session's last name; the sessions have ended, no insertion    *)
(* has failed, and none of the records was written by another session of   *)
(* the user that ended first.                                              *)
Accounted(q) ==
  /\ failed \cap Named(q) = {}
  /\ \A k \in DOMAIN table : table[k].auth \in Named(q) => table[k].by = auths[table[k].auth].by
  /\ \A a \in DOMAIN auths : auths[a].name = q.name =>
       /\ auths[a].name = username[auths[a].by]
       /\ pc[auths[a].by] = "closed"
       /\ \A b \in DOMAIN auths :
            auths[b].name = q.name /\ PortOf[auths[a].by] = PortOf[auths[b].by] => a = b

(* End to end, from the handlers of the server to the line the viewer      *)
(* prints.  A total comes with a report or it is right: for a user that is *)
(* accounted for, what calculateTime prints without reporting an error is  *)
(* the lengths of the user's sessions of that day, added up, if below a    *)
(* hundred hours.  With the report, of a busy file, it prints the total of *)
(* the rows it has seen, and that is the zero of no rows: no part of a     *)
(* user's time is ever printed as a total.                                 *)
TotalIsTime ==
  [][LET prints == viewer.at \in {"first", "reading"}
         time == MapThenSumSet(LAMBDA a : Lasting[auths[a].by], Named(viewer.query))
         total == Seconds(viewer'.total)
     IN  /\ prints /\ viewer'.at = "printed" /\ Accounted(viewer.query) =>
              (time < 360000 => total = time)
         /\ prints /\ viewer'.at = "failed" => total = 0]_viewer

(* What the viewer's help says of calculateTime (SQLite/main.cpp:23): the  *)
(* connection time of the user on that day, the durations of the rows      *)
(* added up.  A row without a duration has nothing to add.                 *)
CalculatesTime ==
  viewer.at = "printed" =>
    LET k == {r \in Selected(viewer.query, viewer.row) : table[r].end # None}
        time == MapThenSumSet(LAMBDA r : Lasting[table[r].end], k)
    IN  time < 360000 => Seconds(viewer.total) = time
==============================================================================
