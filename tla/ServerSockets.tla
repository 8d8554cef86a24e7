---------------------------- MODULE ServerSockets ----------------------------
(***************************************************************************)
(* The descriptors of the server: the listening socket, the sockets of the *)
(* sessions, and who opens and closes them (Server/TCP/src/sourse.cpp).    *)
(*                                                                         *)
(* Disconnect of a session takes no lock.  The waiting loop calls it from  *)
(* LoadData, the control thread from ServerDisconnectAll, a disconnect     *)
(* task from the destructor.  Its steps are the mark and the test of the   *)
(* descriptor, the close, and the reset of the descriptor to -1; the       *)
(* system gives a closed number to the next socket that is opened.         *)
(* StopServer tests no status and leaves m_socketServer_ as it is, which   *)
(* before the first start is 0, the number of the standard input.          *)
(* Messages, handlers and the list itself are left to ServerSessions.      *)
(***************************************************************************)
EXTENDS Naturals, FiniteSetsExt

CONSTANTS
  Sessions,       \* bound: the sessions ever created
  MaxFd,          \* descriptors the process can have open
  MaxStarts       \* bound: calls of StartServer

Fds == 1 .. MaxFd       \* f stands for f - 1 of the code
NoFd == 0
Nobody == "nobody"      \* the descriptor is closed
Listening == "listening"
StdIn == "stdin"
Threads == {"loop", "control"} \cup Sessions    \* s: the disconnect task of s

ASSUME ServerSocketsAssumption ==
  /\ MaxFd \in Nat \ {0} /\ MaxStarts \in Nat /\ Sessions # {}
  /\ Sessions \cap {"loop", "control", Nobody, Listening, StdIn} = {}

VARIABLES
  holder,         \* [Fds -> Sessions, Listening, StdIn or Nobody], what is open
  server,         \* m_serverStatus_: "Connected", "Disconnected", "Error"
  listener,       \* m_socketServer_
  life,           \* [Sessions -> "none", "listed", "released", "deleted"]
  conn,           \* [Sessions -> "Connected", "Disconnected"]
  fd,             \* [Sessions -> Fds \cup {NoFd}], m_socketDescriptor_
  pc,             \* [Threads -> PC], the place in Disconnect
  at,             \* [Threads -> Sessions], whose Disconnect it is
  starts,         \* calls of StartServer left
  (* history *)
  wrong,          \* somebody closed a descriptor that was not his
  overlap,        \* two threads have been in Disconnect of one session
  stale,          \* a session was made with a descriptor already closed
  restop,         \* StopServer without a running server, on a number not its own
  abandoned       \* a listening socket was overwritten without a close

sessionVars == <<life, conn, fd>>
threadVars == <<pc, at>>
serverVars == <<server, listener, starts, abandoned>>
vars == <<holder, serverVars, sessionVars, threadVars, wrong, overlap, stale, restop>>

Owners == Sessions \cup {Listening, StdIn, Nobody}

PC == {"idle", "close", "reset", "final"}

TypeOK ==
  /\ holder \in [Fds \cup {NoFd} -> Owners]
  /\ holder[NoFd] = Nobody
  /\ server \in {"Connected", "Disconnected", "Error"}
  /\ listener \in Fds \cup {NoFd}
  /\ life \in [Sessions -> {"none", "listed", "released", "deleted"}]
  /\ conn \in [Sessions -> {"Connected", "Disconnected"}]
  /\ fd \in [Sessions -> Fds \cup {NoFd}]
  /\ pc \in [Threads -> PC] /\ at \in [Threads -> Sessions]
  /\ starts \in 0 .. MaxStarts
  /\ {wrong, overlap, stale, restop, abandoned} \subseteq BOOLEAN

Init ==
  /\ holder = [f \in Fds \cup {NoFd} |-> IF f = 1 THEN StdIn ELSE Nobody]
  /\ server = "Disconnected" /\ listener = 1
  /\ life = [s \in Sessions |-> "none"]
  /\ conn = [s \in Sessions |-> "Connected"]
  /\ fd = [s \in Sessions |-> NoFd]
  /\ pc = [t \in Threads |-> "idle"]
  /\ at = [t \in Threads |-> IF t \in Sessions THEN t ELSE CHOOSE s \in Sessions : TRUE]
  /\ starts = MaxStarts
  /\ wrong = FALSE /\ overlap = FALSE /\ stale = FALSE
  /\ restop = FALSE /\ abandoned = FALSE

-----------------------------------------------------------------------------
Free == {f \in Fds : holder[f] = Nobody}

Close(f, owner) ==
  /\ holder' = [holder EXCEPT ![f] = Nobody]
  /\ wrong' = (wrong \/ holder[f] # owner)

Listed == {s \in Sessions : life[s] = "listed"}

Busy(s) == {t \in Threads : pc[t] # "idle" /\ at[t] = s}

Overlapping == \E t, u \in Threads : t # u /\ at[t] = at[u] /\ "idle" \notin {pc[t], pc[u]}

Goto(t, from, to) == pc[t] = from /\ pc' = [pc EXCEPT ![t] = to]

-----------------------------------------------------------------------------
(* StopServer, called in any status, when the reset of the pool has ended  *)
(* all tasks: the session list is cleared by the destructors.  A server    *)
(* that does not run has closed its socket already, or never had one; the  *)
(* number may by now be a session's, whose destructor closes it again.     *)
(* That is restop, and not counted as wrong.                               *)
StopServer ==
  LET mine == {s \in Listed : fd[s] # NoFd}
      closed == {listener} \cup {fd[s] : s \in mine}
  IN  /\ \A t \in Threads : pc[t] = "idle"
      /\ server' = "Disconnected"
      /\ holder' = [f \in DOMAIN holder |-> IF f \in closed THEN Nobody ELSE holder[f]]
      /\ restop' = (restop \/ (server # "Connected" /\ holder[listener] # Listening))
      /\ wrong' = (wrong \/ (server = "Connected" /\ holder[listener] # Listening)
                         \/ \E s \in mine : holder[fd[s]] # s)
      /\ life' = [s \in Sessions |-> IF s \in Listed THEN "deleted" ELSE life[s]]
      /\ fd' = [s \in Sessions |-> IF s \in Listed THEN NoFd ELSE fd[s]]
      /\ UNCHANGED <<listener, starts, abandoned, conn, threadVars, overlap, stale>>

(* StartServer after its StopServer.  A server that cannot bind or listen  *)
(* keeps the socket, and the next call overwrites it.                      *)
StartServer ==
  /\ starts > 0 /\ starts' = starts - 1
  /\ server # "Connected" /\ pc["control"] = "idle"
  /\ abandoned' = (abandoned \/ holder[listener] = Listening)
  /\ \/ /\ Free # {}
        /\ listener' = Min(Free)
        /\ holder' = [holder EXCEPT ![Min(Free)] = Listening]
        /\ server' \in {"Connected", "Error"}
     \/ /\ Free = {}
        /\ listener' = NoFd
        /\ server' = "Error"
        /\ UNCHANGED holder
  /\ UNCHANGED <<sessionVars, threadVars, wrong, overlap, stale, restop>>

NewSession(s) ==
  /\ life[s] = "none" /\ Free # {}
  /\ life' = [life EXCEPT ![s] = "listed"]
  /\ fd' = [fd EXCEPT ![s] = Min(Free)]
  /\ UNCHANGED <<conn, serverVars, threadVars, wrong, overlap, restop>>

(* HandlingAcceptLoop and ServerConnectTo: a session for a new socket ... *)
Connect(s) ==
  /\ NewSession(s)
  /\ (server = "Connected" /\ holder[listener] = Listening) \/ pc["control"] = "idle"
  /\ holder' = [holder EXCEPT ![Min(Free)] = s]
  /\ UNCHANGED stale

(* ... which ServerConnectTo makes for a closed one if keep-alive fails. *)
ConnectWithoutKeepAlive(s) ==
  /\ NewSession(s)
  /\ pc["control"] = "idle"
  /\ stale' = TRUE
  /\ UNCHANGED holder

-----------------------------------------------------------------------------
(* Disconnect of s by t.  The loop finds the end of the stream or an error *)
(* in LoadData, the control thread may choose any session of the list.     *)
Enter(t, s) ==
  /\ pc[t] = "idle"
  /\ at' = [at EXCEPT ![t] = s]
  /\ conn' = [conn EXCEPT ![s] = "Disconnected"]
  /\ pc' = [pc EXCEPT ![t] = IF fd[s] # NoFd THEN "close"
                             ELSE IF t = s THEN "final" ELSE "idle"]

Disconnect(t, s) ==
  /\ s \in Listed
  /\ t = "control" \/ (t = "loop" /\ server = "Connected" /\ conn[s] = "Connected")
  /\ Enter(t, s)
  /\ UNCHANGED <<holder, serverVars, life, fd, wrong, stale>>

(* The disconnect task, once the loop has seen the status: it takes the    *)
(* object out of the list and deletes it.                                  *)
DisconnectTask(s) ==
  /\ s \in Listed /\ conn[s] = "Disconnected" /\ server = "Connected"
  /\ life' = [life EXCEPT ![s] = "released"]
  /\ Enter(s, s)
  /\ UNCHANGED <<holder, serverVars, fd, wrong, stale>>

CloseSocket(t) ==
  /\ Goto(t, "close", "reset")
  /\ Close(fd[at[t]], at[t])
  /\ UNCHANGED <<serverVars, sessionVars, at, stale>>

Resets(t, to) ==
  /\ Goto(t, "reset", IF t \in Sessions THEN "final" ELSE "idle")
  /\ fd' = [fd EXCEPT ![at[t]] = to]
  /\ UNCHANGED <<holder, serverVars, life, conn, at, wrong, stale>>

(* Faulty variant: the session keeps the number of the closed socket. *)
ResetDescriptorNot(t) == Resets(t, fd[at[t]])

ResetDescriptor(t) == Resets(t, NoFd)

(* The rest of the destructor tests the descriptor once more. *)
Delete(s) ==
  /\ Goto(s, "final", "idle")
  /\ life' = [life EXCEPT ![s] = "deleted"]
  /\ IF fd[s] = NoFd THEN UNCHANGED <<holder, wrong>> ELSE Close(fd[s], s)
  /\ UNCHANGED <<serverVars, conn, fd, at, stale>>

-----------------------------------------------------------------------------
DisconnectStep ==
  \/ \E t \in Threads : CloseSocket(t) \/ ResetDescriptor(t)
  \/ \E t \in {"loop", "control"}, s \in Sessions : Disconnect(t, s)
  \/ \E s \in Sessions : DisconnectTask(s) \/ Delete(s)

Next ==
  \/ /\ \/ StopServer \/ StartServer
        \/ \E s \in Sessions : Connect(s) \/ ConnectWithoutKeepAlive(s)
     /\ UNCHANGED overlap
  \/ /\ DisconnectStep
     /\ overlap' = (overlap \/ Overlapping')
     /\ UNCHANGED restop

Spec == Init /\ [][Next]_vars

-----------------------------------------------------------------------------
(***************************************************************************)
(* Every socket has one owner who closes it once.  As long as no two       *)
(* threads have been in Disconnect of one session and no session was made  *)
(* with a closed descriptor: no Disconnect, no destructor and no           *)
(* StopServer of a running server closes what is not its own; a session    *)
(* that nobody is disconnecting has its own socket or none; the socket of  *)
(* a session that is gone is closed; the one listening socket is the       *)
(* server's, unless a start failed and was repeated; and the standard      *)
(* input stays open, unless StopServer came without a running server.      *)
(* Such a StopServer closes a number that is no longer its own, and may    *)
(* do so again and again; even then no session that survives the call      *)
(* has lost its socket, whatever number it was given.                      *)
(***************************************************************************)
SocketsOwned ==
  overlap \/ stale \/
    /\ ~wrong
    /\ \A s \in Sessions : fd[s] # NoFd /\ Busy(s) = {} => holder[fd[s]] = s
    /\ \A f \in Fds : holder[f] \in Sessions =>
                        fd[holder[f]] = f /\ life[holder[f]] \in {"listed", "released"}
    /\ \A f \in Fds : holder[f] = Listening => f = listener \/ abandoned
    /\ server = "Connected" => holder[listener] = Listening
    /\ holder[1] = StdIn \/ restop
==============================================================================
