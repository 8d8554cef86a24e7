--------------------------- MODULE ServerSessions ---------------------------
(***************************************************************************)
(* Server of Server/TCP/src/sourse.cpp: an accept loop and a waiting loop  *)
(* that run as tasks of the thread pool and submit themselves again, one   *)
(* task per received message, one task per session that is found           *)
(* disconnected, and the list of sessions they share.                      *)
(*                                                                         *)
(* The pool is the FIFO queue of WorkQueue, which ThreadPool implements,   *)
(* with a fixed set of workers.  A step is what one thread does between    *)
(* two points where another can interfere: a lock, an access to a list     *)
(* node through the reference a task holds, the end of a handler.          *)
(*                                                                         *)
(* One thread, the control thread, calls the operations of the class that  *)
(* are not tasks; each client connection is a session, made at most once.  *)
(***************************************************************************)
EXTENDS Naturals, Sequences, FiniteSets, SequencesExt

CONSTANTS
  Sessions,       \* bound: the client connections of a behaviour
  Workers,        \* the threads of m_threadPoolServer_
  MaxMsgs,        \* bound: messages per session, numbered as sent
  MaxSent,        \* bound: messages of all sessions
  CtlOps,         \* operations the control thread calls besides StartServer
  MaxCalls,       \* bound: calls of the control thread
  None,           \* no session; the end of the list
  Free, Ctl       \* m_clientMutex_ is free, or held by the control thread

ASSUME ServerAssumption ==
  /\ MaxMsgs \in Nat /\ MaxSent \in Nat
  /\ MaxCalls \in Nat
  /\ None \notin Sessions
  /\ Free \notin Workers /\ Ctl \notin Workers /\ Free # Ctl
  /\ CtlOps \subseteq {"stop", "disconnect", "send", "connect"}

Msgs == 1 .. MaxMsgs

VARIABLES
  status,         \* m_serverStatus_
  terminate,      \* the pool is inside ResetJob: AddTask refuses
  queue,          \* the pool's queue of tasks
  work,           \* [Workers -> Work], what each worker does and where it is
  list,           \* m_session_list_, its nodes in order
  node,           \* [Sessions -> NodePtr], the unique_ptr in the list node
  obj,            \* [Sessions -> ObjState], the InterfaceClientSession
  conn,           \* [Sessions -> {"up", "down"}], m_connectionStatus_
  access,         \* [Sessions -> Workers \cup {Free}], m_accessMutex_
  clientMutex,    \* holder of m_clientMutex_
  wire,           \* [Sessions -> Seq(Msgs)], messages not read yet
  sent,           \* [Sessions -> 0 .. MaxMsgs], messages sent by the peer
  peer,           \* [Sessions -> {"up", "gone"}], the peer has not closed
  handled,        \* [Sessions -> Seq(Msgs)], messages the data handler got
  gone,           \* [Sessions -> Nat], calls of the disconnect handler
  ctl,            \* the control thread: operation, place in it, sessions
  calls,          \* calls made by the control thread
  fault           \* what undefined behaviour was met, or "no"

poolVars == <<terminate, queue, work>>
listVars == <<list, node, obj, conn, access, clientMutex>>
peerVars == <<wire, sent, peer>>
doneVars == <<handled, gone>>
ctlVars == <<ctl, calls>>
stillVars == <<status, terminate, ctlVars, fault>>  \* what no task changes
vars == <<status, terminate, queue, work, list, node, obj, conn, access,
          clientMutex, wire, sent, peer, handled, gone, ctl, calls, fault>>

Task == [do : {"accept", "wait"}, s : {None}, m : {0}]
          \cup [do : {"data"}, s : Sessions, m : Msgs]
          \cup [do : {"gone"}, s : Sessions, m : {0}]

AcceptTask == [do |-> "accept", s |-> None, m |-> 0]
WaitTask == [do |-> "wait", s |-> None, m |-> 0]
(* A faulty variant: the buffer is captured after it was moved from. *)
DataTaskMoved(s, m) == [do |-> "data", s |-> s, m |-> 0]

DataTask(s, m) == [do |-> "data", s |-> s, m |-> m]
GoneTask(s) == [do |-> "gone", s |-> s, m |-> 0]

(***************************************************************************)
(* A worker's place in its task.  In the waiting loop s is the session its *)
(* iterator stands on, None at the end of the list.                        *)
(***************************************************************************)
Place == {"idle", "begin", "lock", "append", "check", "load", "enter",
          "handle", "erase", "delete"}
IdleWork == [do |-> "none", s |-> None, m |-> 0, at |-> "idle"]
Work == [do : {"none", "accept", "wait", "data", "gone"},
         s : Sessions \cup {None}, m : 0 .. MaxMsgs, at : Place]

NodePtr == {"none", "owned", "released"}
ObjState == {"new", "waiting", "refused", "live", "deleted"}
Status == {"Connected", "Disconnected", "BindError"}
CtlOp == {"none", "start", "stop", "disconnect", "send", "connect"}
CtlPlace == {"idle", "join", "close", "open", "second", "visit", "lock", "append"}
IdleCtl == [op |-> "none", at |-> "idle", s |-> None, who |-> {}]
Fault == {"no", "null", "freed", "race"}

TypeOK ==
  /\ status \in Status
  /\ terminate \in BOOLEAN
  /\ queue \in Seq(Task)
  /\ work \in [Workers -> Work]
  /\ list \in Seq(Sessions)
  /\ node \in [Sessions -> NodePtr]
  /\ obj \in [Sessions -> ObjState]
  /\ conn \in [Sessions -> {"up", "down"}]
  /\ access \in [Sessions -> Workers \cup {Free}]
  /\ clientMutex \in Workers \cup {Free, Ctl}
  /\ wire \in [Sessions -> Seq(Msgs)]
  /\ sent \in [Sessions -> 0 .. MaxMsgs]
  /\ peer \in [Sessions -> {"up", "gone"}]
  /\ handled \in [Sessions -> Seq(Msgs)]
  /\ gone \in [Sessions -> 0 .. 1]
  /\ ctl \in [op : CtlOp, at : CtlPlace, s : Sessions \cup {None}, who : SUBSET Sessions]
  /\ calls \in 0 .. MaxCalls
  /\ fault \in Fault

Init ==
  /\ status = "Disconnected"
  /\ terminate = FALSE
  /\ queue = <<>>
  /\ work = [w \in Workers |-> IdleWork]
  /\ list = <<>>
  /\ node = [s \in Sessions |-> "none"]
  /\ obj = [s \in Sessions |-> "new"]
  /\ conn = [s \in Sessions |-> "up"]
  /\ access = [s \in Sessions |-> Free]
  /\ clientMutex = Free
  /\ wire = [s \in Sessions |-> <<>>]
  /\ sent = [s \in Sessions |-> 0]
  /\ peer = [s \in Sessions |-> "up"]
  /\ handled = [s \in Sessions |-> <<>>]
  /\ gone = [s \in Sessions |-> 0]
  /\ ctl = IdleCtl
  /\ calls = 0
  /\ fault = "no"

-----------------------------------------------------------------------------
Alive == fault = "no"

Listed(s) == \E i \in DOMAIN list : list[i] = s

First == IF list = <<>> THEN None ELSE Head(list)

(* An iterator on the node of a listed session, and ++iterator *)
Position(s) == CHOOSE i \in DOMAIN list : list[i] = s

After(s) == IF Position(s) = Len(list) THEN None ELSE list[Position(s) + 1]

(* erase(iterator) *)
Erased(s) == RemoveAt(list, Position(s))

(* AddTask on the pool *)
Submitted(t) == IF terminate THEN queue ELSE Append(queue, t)

(* A loop submits itself again while the server runs. *)
Resubmitted(t) == IF status = "Connected" THEN Submitted(t) ELSE queue

At(w, do, at) == Alive /\ work[w].do = do /\ work[w].at = at
Goto(w, at) == work' = [work EXCEPT ![w].at = at]
Done(w) == work' = [work EXCEPT ![w] = IdleWork]

(* A reference into a list node, or an iterator, is used after the node    *)
(* was erased, or its unique_ptr is followed when it is null.              *)
Dangling(s) == ~Listed(s)
Null(s) == Listed(s) /\ node[s] # "owned"
Usable(s) == Listed(s) /\ node[s] = "owned"

Fail(f) ==
  /\ fault' = f
  /\ UNCHANGED <<status, poolVars, listVars, peerVars, doneVars, ctlVars>>

(* client->...: through a reference to the unique_ptr in the node *)
BadDeref(s) == (Dangling(s) /\ Fail("freed")) \/ (Null(s) /\ Fail("null"))

(* InterfaceClientSession::Disconnect *)
Disconnected(s) == [conn EXCEPT ![s] = "down"]

(* InterfaceClientSession::LoadData returns a message, or finds nothing to *)
(* read (EAGAIN), or leaves the session disconnected, which it may have    *)
(* been before.                                                            *)
LoadMessage(s) == conn[s] = "up" /\ wire[s] # <<>>
LoadNothing(s) == conn[s] = "up" /\ wire[s] = <<>> /\ peer[s] = "up"
LoadEnds(s) == conn[s] = "down" \/ (wire[s] = <<>> /\ peer[s] = "gone")

-----------------------------------------------------------------------------
TakeAt(w, i) ==
  /\ Alive
  /\ work[w] = IdleWork
  /\ i \in DOMAIN queue
  /\ ~terminate
  /\ LET t == queue[i] IN
       work' = [work EXCEPT ![w] = [do |-> t.do, s |-> t.s, m |-> t.m, at |-> "begin"]]
  /\ queue' = RemoveAt(queue, i)
  /\ UNCHANGED <<stillVars, listVars, peerVars, doneVars>>

(* A faulty variant: the tasks are handed out in no particular order. *)
TakeAny(w) == \E i \in DOMAIN queue : TakeAt(w, i)

(* The pool hands a worker the oldest task. *)
Take(w) == TakeAt(w, 1)

-----------------------------------------------------------------------------
(* HandlingAcceptLoop *)

(* Nobody to accept: only the resubmission is left. *)
AcceptNobody(w) ==
  /\ At(w, "accept", "begin")
  /\ \A s \in Sessions : obj[s] # "waiting"
  /\ Done(w)
  /\ queue' = Resubmitted(AcceptTask)
  /\ UNCHANGED <<stillVars, listVars, peerVars, doneVars>>

(* EnableKeepAlive fails on the new socket: it is closed again. *)
AcceptRefuse(w, s) ==
  /\ At(w, "accept", "begin")
  /\ obj[s] = "waiting"
  /\ obj' = [obj EXCEPT ![s] = "refused"]
  /\ wire' = [wire EXCEPT ![s] = <<>>]
  /\ Done(w)
  /\ queue' = Resubmitted(AcceptTask)
  /\ UNCHANGED <<stillVars, list, node, conn, access, clientMutex, sent, peer, doneVars>>

(* A session object is made and shown to the connect handler. *)
AcceptClient(w, s) ==
  /\ At(w, "accept", "begin")
  /\ status = "Connected"
  /\ obj[s] = "waiting"
  /\ obj' = [obj EXCEPT ![s] = "live"]
  /\ work' = [work EXCEPT ![w].s = s, ![w].at = "lock"]
  /\ UNCHANGED <<stillVars, queue, list, node, conn, access, clientMutex, peerVars,
                 doneVars>>

AcceptLock(w) ==
  /\ At(w, "accept", "lock")
  /\ clientMutex = Free
  /\ clientMutex' = w
  /\ Goto(w, "append")
  /\ UNCHANGED <<stillVars, queue, list, node, obj, conn, access, peerVars, doneVars>>

(* emplace_back, unlock and resubmission *)
AcceptAppend(w) ==
  /\ At(w, "accept", "append")
  /\ list' = Append(list, work[w].s)
  /\ node' = [node EXCEPT ![work[w].s] = "owned"]
  /\ clientMutex' = Free
  /\ Done(w)
  /\ queue' = Resubmitted(AcceptTask)
  /\ UNCHANGED <<stillVars, obj, conn, access, peerVars, doneVars>>

-----------------------------------------------------------------------------
(* WaitingDataLoop *)

WaitLock(w) ==
  /\ At(w, "wait", "begin")
  /\ clientMutex = Free
  /\ clientMutex' = w
  /\ work' = [work EXCEPT ![w].s = First, ![w].at = "check"]
  /\ UNCHANGED <<stillVars, queue, list, node, obj, conn, access, peerVars, doneVars>>

(* The iterator stands on a node that a disconnect task has erased. *)
WaitErased(w) ==
  /\ work[w].do = "wait" /\ work[w].at \in {"check", "load"}
  /\ Alive
  /\ work[w].s # None
  /\ Dangling(work[w].s)
  /\ Fail("freed")

(* if (client): skip a node whose session a disconnect task has taken. *)
WaitCheck(w) ==
  LET s == work[w].s IN
  /\ At(w, "wait", "check")
  /\ s # None
  /\ Listed(s)
  /\ IF node[s] = "owned"
     THEN Goto(w, "load")
     ELSE work' = [work EXCEPT ![w].s = After(s)]
  /\ UNCHANGED <<stillVars, queue, listVars, peerVars, doneVars>>

(* The node was emptied between the test and its use. *)
WaitNull(w) ==
  /\ At(w, "wait", "load")
  /\ Null(work[w].s)
  /\ Fail("null")

(* The loop has loaded from a session and steps on to the next. *)
Pass(w) ==
  /\ At(w, "wait", "load")
  /\ Usable(work[w].s)
  /\ work' = [work EXCEPT ![w].s = After(work[w].s), ![w].at = "check"]

Reads(w, left) ==
  LET s == work[w].s IN
  /\ Pass(w)
  /\ LoadMessage(s)
  /\ queue' = Submitted(DataTask(s, Head(wire[s])))
  /\ wire' = [wire EXCEPT ![s] = left]
  /\ UNCHANGED <<stillVars, listVars, sent, peer, doneVars>>

(* A faulty variant: the message is left in the socket (MSG_PEEK). *)
WaitDataPeek(w) == Reads(w, wire[work[w].s])

(* LoadData returns the next message, which a data task will handle. *)
WaitData(w) == Reads(w, Tail(wire[work[w].s]))

(* LoadData finds nothing to read (EAGAIN). *)
WaitNothing(w) ==
  /\ Pass(w)
  /\ LoadNothing(work[w].s)
  /\ UNCHANGED <<stillVars, queue, listVars, peerVars, doneVars>>

Ends(w, q) ==
  LET s == work[w].s IN
  /\ Pass(w)
  /\ LoadEnds(s)
  /\ conn' = Disconnected(s)
  /\ queue' = q
  /\ UNCHANGED <<stillVars, list, node, obj, access, clientMutex, peerVars, doneVars>>

(* Faulty variants: the disconnect task is submitted twice, or forgotten. *)
WaitGoneTwice(w) ==
  Ends(w, Submitted(GoneTask(work[w].s)) \o <<GoneTask(work[w].s)>>)
WaitGoneNoTask(w) == Ends(w, queue)

(* LoadData meets the end of the stream or an error and disconnects, or    *)
(* the session has been disconnected before: a disconnect task is          *)
(* submitted, in every pass until one of them has taken the session.       *)
WaitGone(w) == Ends(w, Submitted(GoneTask(work[w].s)))

PassEnds(w, q) ==
  /\ At(w, "wait", "check")
  /\ work[w].s = None
  /\ clientMutex' = Free
  /\ Done(w)
  /\ queue' = q
  /\ UNCHANGED <<stillVars, list, node, obj, conn, access, peerVars, doneVars>>

(* A faulty variant: the waiting loop does not submit itself again. *)
WaitEndStops(w) == PassEnds(w, queue)

(* end of the pass: unlock and resubmit *)
WaitEnd(w) == PassEnds(w, Resubmitted(WaitTask))

-----------------------------------------------------------------------------
(* The data task *)

(* client->m_accessMutex_: the node is followed to the session's mutex. *)
Begin(w, do) ==
  LET s == work[w].s IN
  /\ At(w, do, "begin")
  /\ \/ BadDeref(s)
     \/ /\ Usable(s)
        /\ Goto(w, "lock")
        /\ UNCHANGED <<stillVars, queue, listVars, peerVars, doneVars>>

DataBegin(w) == Begin(w, "data")

Locks(w, takes) ==
  LET s == work[w].s IN
  /\ At(w, "data", "lock")
  /\ \/ obj[s] = "deleted" /\ Fail("freed")
     \/ /\ obj[s] # "deleted"
        /\ takes => access[s] = Free
        /\ access' = IF takes THEN [access EXCEPT ![s] = w] ELSE access
        /\ Goto(w, "enter")
        /\ UNCHANGED <<stillVars, queue, list, node, obj, conn, clientMutex,
                       peerVars, doneVars>>

(* A faulty variant: the data task does not take the session's mutex. *)
DataLockNot(w) == Locks(w, FALSE)

(* lock(), perhaps after a wait; the session may be gone by then. *)
DataLock(w) == Locks(w, TRUE)

(* m_handler_(data, *client): the node is followed again. *)
DataEnter(w) ==
  LET s == work[w].s IN
  /\ At(w, "data", "enter")
  /\ \/ BadDeref(s)
     \/ /\ Usable(s)
        /\ Goto(w, "handle")
        /\ handled' = [handled EXCEPT ![s] = Append(@, work[w].m)]
        /\ UNCHANGED <<stillVars, queue, listVars, peerVars, gone>>

(* The handler returns, and the mutex is released through the node. *)
DataDone(w) ==
  LET s == work[w].s IN
  /\ At(w, "data", "handle")
  /\ \/ BadDeref(s)
     \/ /\ Usable(s)
        /\ access' = [access EXCEPT ![s] = Free]
        /\ Done(w)
        /\ UNCHANGED <<stillVars, queue, list, node, obj, conn, clientMutex,
                       peerVars, doneVars>>

-----------------------------------------------------------------------------
(* The disconnect task *)

GoneBegin(w) == Begin(w, "gone")

(* lock(), release() of the unique_ptr, unlock(): with a pointer that      *)
(* another disconnect task has released before, unlock() is called on      *)
(* null.                                                                   *)
GoneRelease(w) ==
  LET s == work[w].s IN
  /\ At(w, "gone", "lock")
  /\ \/ obj[s] = "deleted" /\ Fail("freed")
     \/ obj[s] # "deleted" /\ access[s] = Free /\ BadDeref(s)
     \/ /\ obj[s] # "deleted"
        /\ access[s] = Free
        /\ Usable(s)
        /\ node' = [node EXCEPT ![s] = "released"]
        /\ gone' = [gone EXCEPT ![s] = @ + 1]
        /\ Goto(w, "handle")
        /\ UNCHANGED <<stillVars, queue, list, obj, conn, access, clientMutex,
                       peerVars, handled>>

(* The disconnect handler returns. *)
GoneHandled(w) ==
  /\ At(w, "gone", "handle")
  /\ Goto(w, "erase")
  /\ UNCHANGED <<stillVars, queue, listVars, peerVars, doneVars>>

(* Another thread is about to link or unlink a node. *)
OtherWriter(w) ==
  \/ ctl.at = "append"
  \/ \E v \in Workers \ {w} : work[v].at \in {"append", "erase"}

(* m_session_list_.erase, without m_clientMutex_.  Against another writer  *)
(* of the list it is a data race, which may go well or break the list; a   *)
(* reader is hurt when it stands on the erased node (WaitErased, BadDeref). *)
GoneErase(w) ==
  /\ At(w, "gone", "erase")
  /\ \/ OtherWriter(w) /\ Fail("race")
     \/ /\ list' = Erased(work[w].s)
        /\ Goto(w, "delete")
        /\ UNCHANGED <<stillVars, queue, node, obj, conn, access, clientMutex,
                       peerVars, doneVars>>

(* delete pointer, which disconnects once more *)
GoneDelete(w) ==
  LET s == work[w].s IN
  /\ At(w, "gone", "delete")
  /\ obj' = [obj EXCEPT ![s] = "deleted"]
  /\ conn' = Disconnected(s)
  /\ wire' = [wire EXCEPT ![s] = <<>>]
  /\ Done(w)
  /\ UNCHANGED <<stillVars, queue, list, node, access, clientMutex, sent, peer, doneVars>>

-----------------------------------------------------------------------------
(* The control thread *)

CtlCall(op, at, s, who) ==
  /\ Alive
  /\ ctl.at = "idle"
  /\ calls < MaxCalls
  /\ calls' = calls + 1
  /\ ctl' = [op |-> op, at |-> at, s |-> s, who |-> who]

CtlGoto(at) == ctl' = [ctl EXCEPT !.at = at]

(* StartServer (SetServerPort too): a running server is stopped first. *)
StartServer ==
  /\ CtlCall("start", IF status = "Connected" THEN "join" ELSE "open", None, {})
  /\ terminate' = (status = "Connected")
  /\ UNCHANGED <<status, queue, work, listVars, peerVars, doneVars, fault>>

(* StopServer begins with ResetJob, which makes AddTask refuse ... *)
StopServer ==
  /\ "stop" \in CtlOps
  /\ CtlCall("stop", "join", None, {})
  /\ terminate' = TRUE
  /\ UNCHANGED <<status, queue, work, listVars, peerVars, doneVars, fault>>

Resets(q) ==
  /\ Alive
  /\ ctl.at = "join"
  /\ \A w \in Workers : work[w] = IdleWork
  /\ terminate' = FALSE
  /\ queue' = q
  /\ CtlGoto("close")
  /\ UNCHANGED <<status, work, listVars, peerVars, doneVars, calls, fault>>

(* A faulty variant: ResetJob keeps the pending tasks. *)
StopResetKeeps == Resets(queue)

(* ... waits for the running tasks, and discards the others.               *)
StopReset == Resets(<<>>)

(* The listening socket is closed, with the connections not accepted yet,  *)
(* and the sessions are destroyed without a word to the handlers.          *)
StopClose ==
  /\ Alive
  /\ ctl.at = "close"
  /\ status' = "Disconnected"
  /\ list' = <<>>
  /\ obj' = [s \in Sessions |-> IF Listed(s) THEN "deleted"
                                ELSE IF obj[s] = "waiting" THEN "refused"
                                ELSE obj[s]]
  /\ conn' = [s \in Sessions |-> IF Listed(s) THEN "down" ELSE conn[s]]
  /\ wire' = [s \in Sessions |-> <<>>]
  /\ ctl' = IF ctl.op = "start" THEN [ctl EXCEPT !.at = "open"] ELSE IdleCtl
  /\ UNCHANGED <<poolVars, node, access, clientMutex, sent, peer, doneVars, calls, fault>>

(* socket, bind, listen: one of them fails ... *)
StartFails ==
  /\ Alive
  /\ ctl.at = "open"
  /\ status' = "BindError"
  /\ ctl' = IdleCtl
  /\ UNCHANGED <<poolVars, listVars, peerVars, doneVars, calls, fault>>

(* ... or the server listens and submits its two loops.                    *)
StartListens ==
  /\ Alive
  /\ ctl.at = "open"
  /\ status' = "Connected"
  /\ queue' = Submitted(AcceptTask)
  /\ CtlGoto("second")
  /\ UNCHANGED <<terminate, work, listVars, peerVars, doneVars, calls, fault>>

StartWaits ==
  /\ Alive
  /\ ctl.at = "second"
  /\ queue' = Submitted(WaitTask)
  /\ ctl' = IdleCtl
  /\ UNCHANGED <<status, terminate, work, listVars, peerVars, doneVars, calls, fault>>

(* ServerSendData and ServerDisconnectAll, or with one target              *)
(* ServerSendDataBy and ServerDisconnectBy: a walk over the list without   *)
(* m_clientMutex_, in which the sessions in who are disconnected.          *)
Walk(op, who) ==
  /\ op \in CtlOps
  /\ CtlCall(op, "visit", First, who)
  /\ UNCHANGED <<status, poolVars, listVars, peerVars, doneVars, fault>>

WalkVisit ==
  LET s == ctl.s IN
  /\ Alive
  /\ ctl.at = "visit"
  /\ s # None
  /\ \/ BadDeref(s)
     \/ /\ Usable(s)
        /\ conn' = IF s \in ctl.who THEN Disconnected(s) ELSE conn
        /\ ctl' = [ctl EXCEPT !.s = After(s)]
        /\ UNCHANGED <<status, poolVars, list, node, obj, access, clientMutex,
                       peerVars, doneVars, calls, fault>>

WalkEnd ==
  /\ Alive
  /\ ctl.at = "visit"
  /\ ctl.s = None
  /\ ctl' = IdleCtl
  /\ UNCHANGED <<status, poolVars, listVars, peerVars, doneVars, calls, fault>>

(* ServerConnectTo: the server connects to a peer and lists the session.   *)
(* If EnableKeepAlive fails the socket is closed, and the function goes on *)
(* with a session whose reads fail, as if its peer were gone; unless the   *)
(* number is given to another connection first, whose messages the session *)
(* would then take: that is left to the descriptors, in ServerSockets.     *)
ServerConnectTo(s, keptAlive) ==
  /\ "connect" \in CtlOps
  /\ obj[s] = "new"
  /\ CtlCall("connect", "lock", s, {})
  /\ obj' = [obj EXCEPT ![s] = "live"]
  /\ peer' = [peer EXCEPT ![s] = IF keptAlive THEN "up" ELSE "gone"]
  /\ UNCHANGED <<status, poolVars, list, node, conn, access, clientMutex, wire, sent,
                 doneVars, fault>>

ConnectLock ==
  /\ Alive
  /\ ctl.at = "lock"
  /\ clientMutex = Free
  /\ clientMutex' = Ctl
  /\ CtlGoto("append")
  /\ UNCHANGED <<status, poolVars, list, node, obj, conn, access, peerVars, doneVars,
                 calls, fault>>

ConnectAppend ==
  /\ Alive
  /\ ctl.at = "append"
  /\ list' = Append(list, ctl.s)
  /\ node' = [node EXCEPT ![ctl.s] = "owned"]
  /\ clientMutex' = Free
  /\ ctl' = IdleCtl
  /\ UNCHANGED <<status, poolVars, obj, conn, access, peerVars, doneVars, calls, fault>>

-----------------------------------------------------------------------------
(* The clients *)

PeerConnects(s) ==
  /\ Alive
  /\ status = "Connected"
  /\ obj[s] = "new"
  /\ obj' = [obj EXCEPT ![s] = "waiting"]
  /\ UNCHANGED <<status, poolVars, list, node, conn, access, clientMutex, peerVars,
                 doneVars, ctlVars, fault>>

PeerSends(s) ==
  /\ Alive
  /\ obj[s] \in {"waiting", "live"}
  /\ conn[s] = "up" /\ peer[s] = "up"
  /\ sent[s] < MaxMsgs /\ MapThenSumSet(LAMBDA x : sent[x], Sessions) < MaxSent
  /\ sent' = [sent EXCEPT ![s] = @ + 1]
  /\ wire' = [wire EXCEPT ![s] = Append(@, sent[s] + 1)]
  /\ UNCHANGED <<status, poolVars, listVars, peer, doneVars, ctlVars, fault>>

(* The stream ends, breaks, or brings a frame LoadData fails on. *)
PeerEnds(s) ==
  /\ Alive
  /\ obj[s] \in {"waiting", "live"}
  /\ peer[s] = "up"
  /\ peer' = [peer EXCEPT ![s] = "gone"]
  /\ UNCHANGED <<status, poolVars, listVars, wire, sent, doneVars, ctlVars, fault>>

-----------------------------------------------------------------------------
AcceptStep(w) ==
  \/ AcceptNobody(w)
  \/ \E s \in Sessions : AcceptRefuse(w, s) \/ AcceptClient(w, s)
  \/ AcceptLock(w)
  \/ AcceptAppend(w)

WaitStep(w) ==
  \/ WaitLock(w)
  \/ WaitErased(w)
  \/ WaitCheck(w)
  \/ WaitNull(w)
  \/ WaitData(w)
  \/ WaitNothing(w)
  \/ WaitGone(w)
  \/ WaitEnd(w)

DataStep(w) == DataBegin(w) \/ DataLock(w) \/ DataEnter(w) \/ DataDone(w)

GoneStep(w) ==
  \/ GoneBegin(w)
  \/ GoneRelease(w)
  \/ GoneHandled(w)
  \/ GoneErase(w)
  \/ GoneDelete(w)

WorkerStep(w) ==
  Take(w) \/ AcceptStep(w) \/ WaitStep(w) \/ DataStep(w) \/ GoneStep(w)

CtlBegin ==
  \/ StartServer
  \/ StopServer
  \/ Walk("send", {})
  \/ \E who \in {Sessions} \cup {{s} : s \in Sessions} : Walk("disconnect", who)
  \/ \E s \in Sessions, keptAlive \in BOOLEAN : ServerConnectTo(s, keptAlive)

CtlRuns ==
  \/ StopClose
  \/ StartFails
  \/ StartListens
  \/ StartWaits
  \/ WalkVisit
  \/ WalkEnd
  \/ ConnectLock
  \/ ConnectAppend

PeerStep == \E s \in Sessions : PeerConnects(s) \/ PeerSends(s) \/ PeerEnds(s)

Next ==
  \/ \E w \in Workers : WorkerStep(w)
  \/ CtlBegin
  \/ StopReset
  \/ CtlRuns
  \/ PeerStep

Spec == Init /\ [][Next]_vars

(***************************************************************************)
(* Workers and control thread run when they can, and handlers return.      *)
(* Nothing is assumed of the clients, of the calls of the control thread,  *)
(* nor of the join in ResetJob, which may hang (see ThreadPool).           *)
(***************************************************************************)
FairSpec ==
  /\ Spec
  /\ \A w \in Workers : WF_vars(WorkerStep(w))
  /\ WF_vars(CtlRuns)

-----------------------------------------------------------------------------
(* Safety *)

Loops(do) ==
  Cardinality({i \in DOMAIN queue : queue[i].do = do})
    + Cardinality({w \in Workers : work[w].do = do})

(* A running server has exactly one accept loop and one waiting loop, and  *)
(* never two of a kind, however often it is stopped and started again.     *)
OneLoopEach ==
  /\ Loops("accept") <= 1 /\ Loops("wait") <= 1
  /\ status = "Connected" /\ ctl.at \notin {"join", "close", "second"} =>
       Loops("accept") = 1 /\ Loops("wait") = 1

(* m_accessMutex_ keeps the handlers of a session apart: no two data       *)
(* handlers, and no data handler beside the disconnect handler, run for    *)
(* the same session at a time, whatever the number of workers.             *)
HandlersExclusive ==
  \A v, w \in Workers :
    work[v].at = "handle" /\ work[w].at = "handle" /\ work[v].s = work[w].s => v = w

(* A server with one worker, whose control thread only starts and stops    *)
(* it, never touches a session or a list node that is gone.                *)
NoFault == fault = "no"

(* With more workers, or a control thread that walks or extends the list,  *)
(* it may, but only once a disconnect task has begun to take a session     *)
(* away: clients that stay connected, and restarts, do no harm.            *)
FaultNeedsDisconnect == fault # "no" => \E s \in Sessions : node[s] = "released"

(* With one worker the disconnect handler is the last to see a session: no *)
(* task for the session is pending, not even a second disconnect task.     *)
GoneIsLast ==
  \A s \in Sessions : gone[s] > 0 => \A i \in DOMAIN queue : queue[i].s # s

-----------------------------------------------------------------------------
(* Progress *)

Stopped == terminate \/ status # "Connected"

(* With one worker every message that reaches a listed session is handled, *)
(* also when its peer has closed in the meantime.                          *)
MessageHandled ==
  \A s \in Sessions : \A m \in Msgs :
    (Listed(s) /\ \E i \in DOMAIN wire[s] : wire[s][i] = m)
      ~> ((\E i \in DOMAIN handled[s] : handled[s][i] = m) \/ Stopped)

(* With one worker a session whose peer has gone is shown to the           *)
(* disconnect handler and destroyed.                                       *)
EndNoticed ==
  \A s \in Sessions :
    (Listed(s) /\ peer[s] = "gone") ~> (obj[s] = "deleted" \/ Stopped)

-----------------------------------------------------------------------------
(* The server implements SessionService: with one worker the messages of a *)
(* session are handled in the order they were sent, with more in any       *)
(* order; in both cases each at most once, none after the disconnect       *)
(* handler, which runs at most once.                                       *)
phase ==
  [s \in Sessions |->
     IF gone[s] > 0 THEN "closed"
     ELSE CASE obj[s] = "live" -> "open"
            [] obj[s] = "deleted" -> "dropped"
            [] OTHER -> "none"]

InOrder == INSTANCE SessionService WITH got <- handled, Ordered <- TRUE
AnyOrder == INSTANCE SessionService WITH got <- handled, Ordered <- FALSE

InOrderService == InOrder!Spec
AnyOrderService == AnyOrder!Spec
==============================================================================
