------------------------- MODULE ServerSocketsProofs -------------------------
(***************************************************************************)
(* The owners of the server's sockets, for any number of sessions and      *)
(* descriptors.                                                            *)
(***************************************************************************)
EXTENDS ServerSockets, WellFoundedInduction, TLAPS

(* A session has the descriptor it holds, but for the moment between the   *)
(* close and the reset; a session that has begun and not ended may have    *)
(* one.                                                                    *)
Owning ==
  /\ \A s \in Sessions : life[s] = "none" => fd[s] = NoFd
  /\ \A s \in Sessions :
       fd[s] # NoFd /\ (\A t \in Threads : at[t] = s => pc[t] # "reset") => holder[fd[s]] = s
  /\ \A f \in Fds : holder[f] \in Sessions =>
                      fd[holder[f]] = f /\ life[holder[f]] \in {"listed", "released"}

(* What a thread inside Disconnect knows of the descriptor *)
Placed ==
  \A t \in Threads :
    /\ t \in Sessions => at[t] = t /\ (life[t] = "released" => pc[t] # "idle")
    /\ pc[t] # "idle" => life[at[t]] # "none"
    /\ pc[t] = "close" => fd[at[t]] # NoFd
    /\ pc[t] = "reset" => fd[at[t]] # NoFd /\ holder[fd[at[t]]] # at[t]
    /\ pc[t] = "final" => fd[at[t]] = NoFd

(* The listening socket is the server's, and the standard input nobody's   *)
(* but for a stop without a running server.                                *)
Serving ==
  /\ holder[1] = StdIn \/ restop
  /\ \A f \in Fds : holder[f] = Listening => f = listener \/ abandoned
  /\ server = "Connected" => holder[listener] = Listening

Good == ~wrong /\ ~Overlapping /\ Owning /\ Placed /\ Serving

Inv == TypeOK /\ (overlap \/ stale \/ Good)

-----------------------------------------------------------------------------
(* The lowest free number is a free number. *)
LEMMA MinIn == ASSUME NEW S, S \subseteq Nat, S # {} PROVE Min(S) \in S
<1>1. PICK x \in S : \A y \in S : ~ (<<y, x>> \in OpToRel(<, Nat))
  BY NatLessThanWellFounded, WFMin
<1>2. \A y \in S : <<y, x>> \in OpToRel(<, Nat) <=>
                      <<y, x>> \in Nat \X Nat /\ <<y, x>>[1] < <<y, x>>[2]
  BY Zenon DEF OpToRel
<1>3. ASSUME NEW y \in S PROVE x <= y
  <2>1. <<y, x>> \in Nat \X Nat
    OBVIOUS
  <2>2. ~ (<<y, x>>[1] < <<y, x>>[2])
    BY <1>1, <1>2, <2>1, Zenon
  <2> QED
    BY <2>2
<1> QED
  BY <1>3 DEF Min

LEMMA Lowest ==
  ASSUME Free # {} PROVE Min(Free) \in Fds /\ holder[Min(Free)] = Nobody
<1>1. Free \subseteq Nat
  BY DEF Free, Fds
<1>2. Min(Free) \in Free
  BY <1>1, MinIn
<1> QED
  BY <1>2 DEF Free

(* The names of owners and threads are different, and so are the numbers   *)
(* of descriptors from "none".                                             *)
LEMMA Names ==
  /\ Nobody # Listening /\ Nobody \notin Sessions /\ Listening \notin Sessions
  /\ "loop" \notin Sessions /\ "control" \notin Sessions
  /\ StdIn \notin Sessions \cup {Nobody, Listening}
  /\ NoFd \notin Fds /\ 1 \in Fds /\ Sessions \subseteq Threads
  BY ServerSocketsAssumption DEF Nobody, Listening, StdIn, NoFd, Fds, Threads

LEMMA InitInv == ASSUME Init PROVE Inv
<1>1. TypeOK
  <2>1. (CHOOSE s \in Sessions : TRUE) \in Sessions
    BY ServerSocketsAssumption
  <2>2. at \in [Threads -> Sessions]
    BY <2>1 DEF Init
  <2>3. starts \in 0 .. MaxStarts
    BY ServerSocketsAssumption DEF Init
  <2>4. /\ holder \in [Fds \cup {NoFd} -> Owners] /\ holder[NoFd] = Nobody
        /\ listener \in Fds
    BY Names DEF Init, Owners, NoFd
  <2> QED
    BY <2>2, <2>3, <2>4 DEF Init, TypeOK, PC
<1>2. Good
  BY Names DEF Init, Good, Overlapping, Owning, Placed, Serving, NoFd, Threads
<1> QED
  BY <1>1, <1>2 DEF Inv
-----------------------------------------------------------------------------
(* Every step keeps the types. *)
LEMMA StepType == ASSUME TypeOK, [Next]_vars PROVE TypeOK'
<1> USE DEF TypeOK, Owners
<1>1. CASE UNCHANGED vars
  BY <1>1 DEF vars, serverVars, sessionVars, threadVars
<1>2. CASE StopServer /\ UNCHANGED overlap
  <2>1. /\ holder' \in [Fds \cup {NoFd} -> Owners]
        /\ holder'[NoFd] = Nobody
    BY <1>2 DEF StopServer
  <2>2. life' \in [Sessions -> {"none", "listed", "released", "deleted"}]
    BY <1>2 DEF StopServer
  <2>3. fd' \in [Sessions -> Fds \cup {NoFd}]
    BY <1>2 DEF StopServer
  <2>4. wrong' \in BOOLEAN /\ restop' \in BOOLEAN
    BY <1>2 DEF StopServer
  <2> QED
    BY <1>2, <2>1, <2>2, <2>3, <2>4 DEF StopServer, threadVars
<1>3. CASE StartServer /\ UNCHANGED overlap
  <2>1. starts' \in 0 .. MaxStarts
    BY <1>3, ServerSocketsAssumption DEF StartServer
  <2>2. abandoned' \in BOOLEAN
    BY <1>3 DEF StartServer
  <2>3. CASE /\ Free # {} /\ listener' = Min(Free)
             /\ holder' = [holder EXCEPT ![Min(Free)] = Listening]
             /\ server' \in {"Connected", "Error"}
    BY <1>3, <2>1, <2>2, <2>3, Lowest, Names DEF StartServer, sessionVars, threadVars
  <2>4. CASE listener' = NoFd /\ server' = "Error" /\ UNCHANGED holder
    BY <1>3, <2>1, <2>2, <2>4 DEF StartServer, sessionVars, threadVars
  <2> QED
    BY <1>3, <2>3, <2>4 DEF StartServer
<1>4. ASSUME NEW s \in Sessions, Connect(s) \/ ConnectWithoutKeepAlive(s),
             UNCHANGED overlap
      PROVE  TypeOK'
  <2>1. Min(Free) \in Fds
    BY <1>4, Lowest DEF Connect, ConnectWithoutKeepAlive, NewSession
  <2>2. /\ holder' \in [Fds \cup {NoFd} -> Owners]
        /\ holder'[NoFd] = Nobody
    BY <1>4, <2>1, Names DEF Connect, ConnectWithoutKeepAlive
  <2>3. life' \in [Sessions -> {"none", "listed", "released", "deleted"}]
    BY <1>4 DEF Connect, ConnectWithoutKeepAlive, NewSession
  <2>4. fd' \in [Sessions -> Fds \cup {NoFd}]
    BY <1>4, <2>1 DEF Connect, ConnectWithoutKeepAlive, NewSession
  <2>5. stale' \in BOOLEAN
    BY <1>4 DEF Connect, ConnectWithoutKeepAlive
  <2> QED
    BY <1>4, <2>2, <2>3, <2>4, <2>5
       DEF Connect, ConnectWithoutKeepAlive, NewSession, serverVars, threadVars
<1>5. CASE DisconnectStep /\ overlap' = (overlap \/ Overlapping') /\ UNCHANGED restop
  <2>0. overlap' \in BOOLEAN /\ restop' \in BOOLEAN
    BY <1>5
  <2>1. ASSUME NEW t \in Threads, CloseSocket(t) PROVE TypeOK'
    BY <2>0, <2>1, Names DEF CloseSocket, Goto, Close, PC, serverVars, sessionVars
  <2>2. ASSUME NEW t \in Threads, ResetDescriptor(t) PROVE TypeOK'
    BY <2>0, <2>2 DEF ResetDescriptor, Resets, Goto, PC, serverVars
  <2>3. ASSUME NEW t \in Threads, NEW s \in Sessions, Disconnect(t, s) PROVE TypeOK'
    BY <2>0, <2>3 DEF Disconnect, Enter, PC, serverVars
  <2>4. ASSUME NEW s \in Sessions, DisconnectTask(s) PROVE TypeOK'
    BY <2>0, <2>4, Names DEF DisconnectTask, Enter, PC, serverVars
  <2>5. ASSUME NEW s \in Sessions, Delete(s) PROVE TypeOK'
    BY <2>0, <2>5, Names DEF Delete, Close, Goto, PC, serverVars
  <2> QED
    BY <1>5, <2>1, <2>2, <2>3, <2>4, <2>5 DEF DisconnectStep, Threads
<1> QED
  BY <1>1, <1>2, <1>3, <1>4, <1>5 DEF Next

-----------------------------------------------------------------------------
(* Steps outside Disconnect *)
LEMMA StopKeeps == ASSUME TypeOK, Good, StopServer PROVE Good'
<1> USE DEF TypeOK
<1>1. ~Overlapping'
  BY DEF StopServer, Good, Overlapping, threadVars
<1>0. \A s \in Sessions : life[s] # "released"
  BY Names DEF StopServer, Good, Placed
<1>2. \A s \in Listed : fd[s] # NoFd => holder[fd[s]] = s
  BY DEF StopServer, Good, Owning, Listed
<1>3. ~wrong'
  BY <1>2 DEF StopServer, Good, Serving
<1>4. \A f \in Fds \cup {NoFd} : holder'[f] # Nobody =>
        /\ holder'[f] = holder[f] /\ f # listener
        /\ \A s \in Listed : fd[s] # NoFd => f # fd[s]
  BY DEF StopServer
<1>5. Owning'
  <2>1. \A s \in Sessions : life'[s] = "none" => fd'[s] = NoFd
    BY DEF StopServer, Good, Owning
  <2>2. ASSUME NEW s \in Sessions, fd'[s] # NoFd,
               \A t \in Threads : at'[t] = s => pc'[t] # "reset"
        PROVE  holder'[fd'[s]] = s
    <3>1. s \notin Listed /\ fd'[s] = fd[s] /\ fd[s] \in Fds
      BY <2>2, Names DEF StopServer
    <3>2. holder[fd[s]] = s
      BY <2>2, <3>1 DEF StopServer, Good, Owning
    <3>3. life[s] = "listed"
      BY <1>0, <3>1, <3>2 DEF Good, Owning
    <3> QED
      BY <3>1, <3>3 DEF Listed
  <2>3. ASSUME NEW f \in Fds, holder'[f] \in Sessions
        PROVE  fd'[holder'[f]] = f /\ life'[holder'[f]] \in {"listed", "released"}
    <3>1. holder'[f] = holder[f] /\ \A s \in Listed : fd[s] # NoFd => f # fd[s]
      BY <1>4, <2>3, Names
    <3>2. fd[holder[f]] = f /\ life[holder[f]] \in {"listed", "released"} /\ f # NoFd
      BY <2>3, <3>1, Names DEF Good, Owning
    <3>3. holder[f] \in Sessions \ Listed
      BY <2>3, <3>1, <3>2
    <3> QED
      BY <3>1, <3>2, <3>3 DEF StopServer
  <2> QED
    BY <2>1, <2>2, <2>3 DEF Owning
<1>6. Placed'
  BY DEF StopServer, Good, Placed, threadVars
<1>7. holder'[1] = StdIn \/ restop'
  <2>1. CASE restop
    BY <2>1 DEF StopServer
  <2>2. CASE ~restop /\ listener = 1
    <3>1. server # "Connected" /\ holder[listener] # Listening
      BY <2>2, Names DEF Good, Serving
    <3>2. restop' = (restop \/ (server # "Connected" /\ holder[listener] # Listening))
      BY DEF StopServer
    <3> QED
      BY <3>1, <3>2
  <2>3. CASE ~restop /\ listener # 1
    <3>1. holder[1] = StdIn /\ 1 \in Fds
      BY <2>3, Names DEF Good, Serving
    <3>2. \A s \in Listed : fd[s] # NoFd => fd[s] # 1 /\ s \in Sessions
      BY <1>2, <3>1, Names DEF Listed
    <3> QED
      BY <2>3, <3>1, <3>2 DEF StopServer
  <2> QED
    BY <2>1, <2>2, <2>3
<1>8. Serving'
  BY <1>4, <1>7, Names DEF StopServer, Good, Serving
<1> QED
  BY <1>1, <1>3, <1>5, <1>6, <1>8 DEF Good

LEMMA StartKeeps == ASSUME TypeOK, Good, StartServer PROVE Good'
<1> USE DEF TypeOK
<1>1. ~wrong' /\ ~Overlapping'
  BY DEF StartServer, Good, Overlapping, threadVars
<1>2. CASE /\ Free # {} /\ listener' = Min(Free)
           /\ holder' = [holder EXCEPT ![Min(Free)] = Listening]
  <2>1. Min(Free) \in Fds /\ holder[Min(Free)] = Nobody
    BY <1>2, Lowest
  <2>2. Owning'
    BY <1>2, <2>1, Names DEF StartServer, Good, Owning, sessionVars, threadVars
  <2>3. Placed'
    BY <1>2, <2>1, Names DEF StartServer, Good, Placed, sessionVars, threadVars
  <2>4. Serving'
    BY <1>2, <2>1, Names DEF StartServer, Good, Serving
  <2> QED
    BY <1>1, <2>2, <2>3, <2>4 DEF Good
<1>3. CASE listener' = NoFd /\ server' = "Error" /\ UNCHANGED holder
  <2>1. Owning' /\ Placed'
    BY <1>3 DEF StartServer, Good, Owning, Placed, sessionVars, threadVars
  <2>2. Serving'
    BY <1>3 DEF StartServer, Good, Serving
  <2> QED
    BY <1>1, <2>1, <2>2 DEF Good
<1> QED
  BY <1>2, <1>3 DEF StartServer

LEMMA ConnectKeeps ==
  ASSUME TypeOK, Good, NEW s \in Sessions, Connect(s) PROVE Good'
<1> USE DEF TypeOK
<1> DEFINE f == Min(Free)
<1>1. f \in Fds /\ holder[f] = Nobody
  BY Lowest DEF Connect, NewSession
<1> HIDE DEF f
<1>2. /\ life[s] = "none" /\ fd[s] = NoFd
      /\ holder' = [holder EXCEPT ![f] = s]
      /\ life' = [life EXCEPT ![s] = "listed"]
      /\ fd' = [fd EXCEPT ![s] = f]
  BY DEF f, Connect, NewSession, Good, Owning
<1>3. UNCHANGED <<server, listener, abandoned, pc, at, wrong, restop>>
  BY DEF Connect, NewSession, serverVars, threadVars
<1>4. ~wrong' /\ ~Overlapping'
  BY <1>3 DEF Good, Overlapping
<1>5. Owning'
  <2>1. \A u \in Sessions : life'[u] = "none" => fd'[u] = NoFd
    BY <1>2 DEF Good, Owning
  <2>2. ASSUME NEW u \in Sessions, fd'[u] # NoFd,
               \A t \in Threads : at'[t] = u => pc'[t] # "reset"
        PROVE  holder'[fd'[u]] = u
    BY <1>1, <1>2, <1>3, <2>2, Names DEF Good, Owning
  <2>3. ASSUME NEW g \in Fds, holder'[g] \in Sessions
        PROVE  fd'[holder'[g]] = g /\ life'[holder'[g]] \in {"listed", "released"}
    BY <1>1, <1>2, <2>3, Names DEF Good, Owning
  <2> QED
    BY <2>1, <2>2, <2>3 DEF Owning
<1>6. Placed'
  BY <1>1, <1>2, <1>3, Names DEF Good, Placed
<1>7. Serving'
  BY <1>1, <1>2, <1>3, Names DEF Good, Serving
<1> QED
  BY <1>4, <1>5, <1>6, <1>7 DEF Good

-----------------------------------------------------------------------------
(* Steps of Disconnect, as long as no other thread is in that of the same  *)
(* session *)
LEMMA CloseKeeps ==
  ASSUME TypeOK, Good, NEW t \in Threads, CloseSocket(t), ~Overlapping',
         UNCHANGED restop
  PROVE  Good'
<1> USE DEF TypeOK
<1> DEFINE s == at[t]
<1>1. /\ s \in Sessions /\ pc[t] = "close" /\ fd[s] \in Fds
      /\ pc' = [pc EXCEPT ![t] = "reset"] /\ holder' = [holder EXCEPT ![fd[s]] = Nobody]
      /\ UNCHANGED <<server, listener, abandoned, life, fd, at>>
  BY DEF CloseSocket, Goto, Close, Good, Placed, serverVars, sessionVars
<1>2. \A u \in Threads : at[u] = s /\ u # t => pc[u] = "idle"
  BY <1>1 DEF Good, Overlapping
<1>3. holder[fd[s]] = s
  BY <1>1, <1>2, Names DEF Good, Owning
<1>4. ~wrong'
  BY <1>3 DEF CloseSocket, Close, Good
<1>5. Owning'
  <2>1. ASSUME NEW u \in Sessions, fd'[u] # NoFd,
               \A v \in Threads : at'[v] = u => pc'[v] # "reset"
        PROVE  holder'[fd'[u]] = u
    <3>1. u # s
      BY <1>1, <2>1
    <3>2. \A v \in Threads : at[v] = u => pc[v] # "reset"
      BY <1>1, <2>1, <3>1
    <3>3. holder[fd[u]] = u /\ fd[u] # fd[s]
      BY <1>1, <1>3, <2>1, <3>1, <3>2 DEF Good, Owning
    <3> QED
      BY <1>1, <3>3
  <2>2. \A g \in Fds : holder'[g] \in Sessions => holder'[g] = holder[g]
    BY <1>1, Names
  <2> QED
    BY <1>1, <2>1, <2>2 DEF Good, Owning
<1>6. Placed'
  BY <1>1, <1>2, <1>3, Names DEF Good, Placed
<1>7. Serving'
  BY <1>1, <1>3, Names DEF Good, Serving
<1> QED
  BY <1>4, <1>5, <1>6, <1>7 DEF Good

LEMMA ResetKeeps ==
  ASSUME TypeOK, Good, NEW t \in Threads, ResetDescriptor(t), ~Overlapping',
         UNCHANGED restop
  PROVE  Good'
<1> USE DEF TypeOK
<1> DEFINE s == at[t]
<1>1. /\ s \in Sessions /\ pc[t] = "reset" /\ fd[s] \in Fds /\ holder[fd[s]] # s
      /\ pc' = [pc EXCEPT ![t] = IF t \in Sessions THEN "final" ELSE "idle"]
      /\ fd' = [fd EXCEPT ![s] = NoFd]
      /\ UNCHANGED <<server, listener, abandoned, holder, life, at, wrong>>
  BY DEF ResetDescriptor, Resets, Goto, Good, Placed, serverVars
<1>2. \A u \in Threads : at[u] = s /\ u # t => pc[u] = "idle"
  BY <1>1 DEF Good, Overlapping
<1>3. Owning'
  BY <1>1, Names DEF Good, Owning
<1>4. Placed'
  BY <1>1, <1>2, Names DEF Good, Placed
<1>5. Serving'
  BY <1>1 DEF Good, Serving
<1> QED
  BY <1>1, <1>3, <1>4, <1>5 DEF Good

(* A thread enters Disconnect of s, which is in the list. *)
LEMMA EnterKeeps ==
  ASSUME TypeOK, Good, NEW t \in Threads, NEW s \in Sessions, Enter(t, s), ~Overlapping',
         t \in Sessions => t = s, life[s] = "listed",
         life' = life \/ (t = s /\ life' = [life EXCEPT ![s] = "released"]),
         UNCHANGED <<server, listener, abandoned, holder, fd, wrong, restop>>
  PROVE  Good'
<1> USE DEF TypeOK
<1>1. /\ pc[t] = "idle" /\ at' = [at EXCEPT ![t] = s]
      /\ pc' = [pc EXCEPT ![t] = IF fd[s] # NoFd THEN "close"
                                 ELSE IF t = s THEN "final" ELSE "idle"]
  BY DEF Enter
<1>2. \A u \in Sessions :
        /\ life'[u] = "none" <=> life[u] = "none"
        /\ life[u] \in {"listed", "released"} => life'[u] \in {"listed", "released"}
  OBVIOUS
<1>3. \A u \in Threads : pc[u] = "reset" => pc'[u] = "reset" /\ at'[u] = at[u]
  BY <1>1
<1>4. Owning'
  BY <1>2, <1>3 DEF Good, Owning
<1>5. Placed'
  <2>1. ASSUME NEW u \in Sessions, u \in Threads, life'[u] = "released" PROVE pc'[u] # "idle"
    <3>1. CASE u = t /\ t = s
      BY <1>1, <3>1
    <3>2. CASE ~ (u = t /\ t = s)
      <4>1. life[u] = "released"
        BY <2>1, <3>2
      <4>2. u # t
        BY <3>2, <4>1
      <4> QED
        BY <1>1, <2>1, <4>1, <4>2 DEF Good, Placed
    <3> QED
      BY <3>1, <3>2
  <2>2. \A u \in Threads :
          /\ u \in Sessions => at'[u] = u
          /\ pc'[u] # "idle" => life'[at'[u]] # "none"
    BY <1>1, <1>2 DEF Good, Placed
  <2>3. \A u \in Threads :
          /\ pc'[u] = "close" => fd[at'[u]] # NoFd
          /\ pc'[u] = "reset" => fd[at'[u]] # NoFd /\ holder[fd[at'[u]]] # at'[u]
          /\ pc'[u] = "final" => fd[at'[u]] = NoFd
    BY <1>1 DEF Good, Placed
  <2> QED
    BY <2>1, <2>2, <2>3 DEF Placed
<1>6. Serving'
  BY DEF Good, Serving
<1> QED
  BY <1>4, <1>5, <1>6 DEF Good

LEMMA DeleteKeeps ==
  ASSUME TypeOK, Good, NEW s \in Sessions, Delete(s), ~Overlapping',
         UNCHANGED restop
  PROVE  Good'
<1> USE DEF TypeOK
<1>1. s \in Threads /\ at[s] = s /\ pc[s] = "final" /\ fd[s] = NoFd
  BY Names DEF Delete, Goto, Good, Placed
<1>2. /\ pc' = [pc EXCEPT ![s] = "idle"] /\ life' = [life EXCEPT ![s] = "deleted"]
      /\ UNCHANGED <<server, listener, abandoned, holder, fd, at, wrong>>
  BY <1>1 DEF Delete, Goto, serverVars
<1>3. Owning'
  BY <1>1, <1>2, Names DEF Good, Owning
<1>4. Placed'
  BY <1>1, <1>2 DEF Good, Placed
<1>5. Serving'
  BY <1>2 DEF Good, Serving
<1> QED
  BY <1>2, <1>3, <1>4, <1>5 DEF Good

-----------------------------------------------------------------------------
LEMMA StepInv == ASSUME Inv, [Next]_vars PROVE Inv'
<1>1. TypeOK'
  BY StepType DEF Inv
<1>2. ASSUME ~overlap', ~stale' PROVE Good'
  <2>1. TypeOK /\ Good /\ ~overlap /\ ~stale
    BY <1>2 DEF Inv, TypeOK, Next, vars, StopServer, StartServer, Connect,
       ConnectWithoutKeepAlive, DisconnectStep, CloseSocket, ResetDescriptor,
       Resets, Disconnect, DisconnectTask, Delete
  <2>2. CASE UNCHANGED vars
    BY <2>1, <2>2 DEF Good, Overlapping, Owning, Placed, Serving,
       vars, serverVars, sessionVars, threadVars
  <2>3. CASE StopServer
    BY <2>1, <2>3, StopKeeps
  <2>4. CASE StartServer
    BY <2>1, <2>4, StartKeeps
  <2>5. ASSUME NEW s \in Sessions, Connect(s) \/ ConnectWithoutKeepAlive(s) PROVE Good'
    BY <1>2, <2>1, <2>5, ConnectKeeps DEF ConnectWithoutKeepAlive
  <2>6. CASE DisconnectStep /\ overlap' = (overlap \/ Overlapping') /\ UNCHANGED restop
    <3>1. ~Overlapping'
      BY <1>2, <2>6
    <3>2. ASSUME NEW t \in Threads, CloseSocket(t) \/ ResetDescriptor(t) PROVE Good'
      BY <2>1, <2>6, <3>1, <3>2, CloseKeeps, ResetKeeps
    <3>3. ASSUME NEW t \in {"loop", "control"}, NEW s \in Sessions, Disconnect(t, s) PROVE Good'
      BY <2>1, <2>6, <3>1, <3>3, EnterKeeps, Names DEF Disconnect, Listed, serverVars, Threads
    <3>4. ASSUME NEW s \in Sessions, DisconnectTask(s) PROVE Good'
      BY <2>1, <2>6, <3>1, <3>4, EnterKeeps, Names DEF DisconnectTask, Listed, serverVars
    <3>5. ASSUME NEW s \in Sessions, Delete(s) PROVE Good'
      BY <2>1, <2>6, <3>1, <3>5, DeleteKeeps
    <3> QED
      BY <2>6, <3>2, <3>3, <3>4, <3>5 DEF DisconnectStep
  <2> QED
    BY <2>2, <2>3, <2>4, <2>5, <2>6 DEF Next
<1> QED
  BY <1>1, <1>2 DEF Inv

LEMMA Invariant == Spec => []Inv
<1>1. Init => Inv
  BY InitInv
<1>2. Inv /\ [Next]_vars => Inv'
  BY StepInv
<1> QED
  BY <1>1, <1>2, PTL DEF Spec

-----------------------------------------------------------------------------
(* Every variable of the descriptor model keeps its type: the sockets and  *)
(* statuses of Server and of its sessions, the places in Disconnect.       *)
THEOREM SocketsTypeCorrect == Spec => []TypeOK
  BY Invariant, PTL DEF Inv

(* Unless two threads were in Disconnect of one session or a session got a *)
(* closed descriptor, every socket of the server is closed by its owner    *)
(* and no session that ended keeps one open.  StopServer may come at any   *)
(* time, also through a number that is no longer the server's: the         *)
(* standard input may be closed then, and a session's socket, but of no    *)
(* session that is left.                                                   *)
THEOREM OneOwnerPerSocket == Spec => []SocketsOwned
<1>1. Inv => SocketsOwned
  <2>1. ASSUME TypeOK, Good, NEW s \in Sessions, fd[s] # NoFd, Busy(s) = {}
        PROVE  holder[fd[s]] = s
    BY <2>1 DEF Good, Owning, Busy
  <2> QED
    BY <2>1 DEF Inv, Good, Owning, Serving, SocketsOwned
<1> QED
  BY <1>1, Invariant, PTL
=============================================================================
