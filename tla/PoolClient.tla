----------------------------- MODULE PoolClient -----------------------------
(***************************************************************************)
(* The client program (Client/main.cpp) and Client in thread-pool mode     *)
(* (Client/TCP/src/sourse.cpp).  Each client has a thread that connects    *)
(* and sets a handler, runClient, and a console thread, clientIOThread.    *)
(* Setting a handler starts a chain: a task on the shared pool that reads  *)
(* once and submits itself again while the client is connected.  main      *)
(* waits for the threads of all clients and destroys the clients in        *)
(* reverse order, then the pool.                                           *)
(*                                                                         *)
(* A step is what a thread does between two accesses to what others        *)
(* change: status, descriptor, the process's table of descriptors, queue.  *)
(* shutdown and close are one step, and so are a refused connect and the   *)
(* close after it.  Setting and running a handler change no client and are *)
(* one step each, in which m_handleMutex_ comes and goes.                  *)
(*                                                                         *)
(* A message is read in two pieces, its length and its payload, and each   *)
(* looks up the descriptor anew.  The payload is waited for, on the        *)
(* connection the descriptor named when the wait began: shutdown (SHUT_RD  *)
(* here) wakes the reader, close alone does not.  With two chains a piece  *)
(* may be taken for what it is not, so a length is anything; the bytes of  *)
(* a frame, and SendData, are the matter of Framing.                       *)
(***************************************************************************)
EXTENDS Naturals, Sequences, FiniteSets, FiniteSetsExt

CONSTANTS
  NClients,       \* clients of main, in order of construction
  Consoles,       \* bound: the clients whose console is used, see Init
  Workers,        \* threads of the shared pool
  MaxFd,          \* descriptors the process can have open
  MaxConnects,    \* bound: connect commands on the consoles
  MaxPieces       \* bound: lengths and payloads sent to the clients

Clients == 1 .. NClients
Fds == 1 .. MaxFd
Nobody == 0             \* the owner of a closed descriptor
NoFd == 0               \* SOCKET_INVALID
Lost == MaxFd + 1       \* a connection that is read but has no number any more
Users == {"run", "console"} \X Clients
Destroyers == {"main"} \X Clients   \* main, in the destructor of a client
Threads == Workers \cup Users \cup Destroyers

ASSUME PoolClientAssumption ==
  /\ NClients \in Nat \ {0} /\ Consoles \subseteq Clients
  /\ {MaxFd, MaxConnects, MaxPieces} \subseteq Nat
  /\ Workers \cap (Users \cup Destroyers) = {}

VARIABLES
  (* state of the program *)
  pc,             \* [Threads -> PC]
  task,           \* [Workers -> Clients], the client of the task in hand
  queue,          \* clients whose HandleThreadPool is queued, oldest first
  terminate,      \* m_terminatePool_
  status,         \* [Clients -> Status], m_statusClient_
  waits,          \* [Workers -> Fds \cup {NoFd, Lost}], what a blocked worker
                  \* waits on, NoFd if that was shut down
  sock,           \* [Clients -> Fds \cup {NoFd}], m_socketClient_
  desc,           \* the descriptor table: owner, state and unread pieces
  connects, pieces, \* what is left of the bounds
  (* history *)
  ready,          \* clients with a handler set after the last connection
  threw,          \* clients with a chain that ended with an exception
  relinked,       \* clients that called ConnectTo while connected
  overlap,        \* two calls changing one client have overlapped
  wrong           \* clients that closed a descriptor they did not own

memberVars == <<status, sock>>
poolVars == <<task, queue, terminate, waits>>
boundVars == <<connects, pieces>>
noteVars == <<ready, threw, relinked, wrong>>
vars == <<pc, poolVars, memberVars, desc, boundVars, noteVars, overlap>>

Status == {"Connected", "InitError", "ConnectError", "Disconnected"}
Closed == [owner |-> Nobody, link |-> "new", inbox |-> 0]
Descriptor == [owner : Clients \cup {Nobody}, link : {"new", "up", "ended"},
               inbox : 0 .. MaxPieces]

(***************************************************************************)
(* A worker is at "read" in LoadData past the test of the status, at       *)
(* "payload" and "blocked" before and in its second recv, at "test" when   *)
(* LoadData calls Disconnect, at "check" and "push" before it submits the  *)
(* task again.  A user is at "socket" or, on the console, at "loop" before *)
(* ConnectTo or Disconnect, and at "add" in SetHandler.                    *)
(***************************************************************************)
Disconnecting == {"set", "close"}
Connecting == {"connect", "nofd", "failed", "up"}
PC == {"idle", "read", "payload", "blocked", "handle", "check", "push", "test",
       "socket", "handler", "add", "loop", "wait", "done", "exit"}
        \cup Disconnecting \cup Connecting

TypeOK ==
  /\ pc \in [Threads -> PC]
  /\ task \in [Workers -> Clients]
  /\ queue \in Seq(Clients)
  /\ terminate \in BOOLEAN
  /\ waits \in [Workers -> Fds \cup {NoFd, Lost}]
  /\ status \in [Clients -> Status]
  /\ sock \in [Clients -> Fds \cup {NoFd}]
  /\ desc \in [Fds \cup {NoFd} -> Descriptor] /\ desc[NoFd] = Closed
  /\ connects \in 0 .. MaxConnects /\ pieces \in 0 .. MaxPieces
  /\ {ready, threw, relinked, wrong} \subseteq SUBSET Clients
  /\ overlap \in BOOLEAN

(* On the other consoles exit has been typed: the handler was set, its     *)
(* chain read once and ended, and there was nothing to disconnect.         *)
FirstPC(p) ==
  CASE p \in Workers -> "idle"
    [] p \in Destroyers -> "wait"
    [] p \in {"run"} \X Clients -> "socket"
    [] p \in {"console"} \X Consoles -> "handler"
    [] OTHER -> "done"

Init ==
  /\ pc = [p \in Threads |-> FirstPC(p)]
  /\ task = [w \in Workers |-> 1]
  /\ queue = <<>>
  /\ terminate = FALSE
  /\ waits = [w \in Workers |-> NoFd]
  /\ status = [c \in Clients |-> "Disconnected"]
  /\ sock = [c \in Clients |-> NoFd]
  /\ desc = [f \in Fds \cup {NoFd} |-> Closed]
  /\ connects = MaxConnects /\ pieces = MaxPieces
  /\ ready = {} /\ threw = {} /\ relinked = {} /\ wrong = {}
  /\ overlap = FALSE

-----------------------------------------------------------------------------
ClientOf(p) == IF p \in Workers THEN task[p] ELSE p[2]

(* The client p works on, while p does *)
Inside(p, c) == ClientOf(p) = c /\ pc[p] \in Disconnecting \cup Connecting

Destroyed(c) == pc[<<"main", c>>] = "done"

(* std::exit in one of the threads ends the process. *)
Alive == \A p \in Users : pc[p] # "exit"

Goto(p, from, to) == Alive /\ pc[p] = from /\ pc' = [pc EXCEPT ![p] = to]

(* The tasks that keep a client read: queued, or with a worker *)
Chains(c) == {i \in DOMAIN queue : queue[i] = c}
               \cup {w \in Workers : pc[w] # "idle" /\ task[w] = c}

(* Where a call of Disconnect returns to *)
AfterDisconnect(p) == IF p \in Workers THEN "check" ELSE "done"

(* runClient exits without a connection, and goes on to SetHandler unless  *)
(* SendAuthData fails.                                                     *)
AfterConnect(p, connected) ==
  IF p[1] = "console" THEN {"loop"}
  ELSE IF connected THEN {"handler", "done"} ELSE {"exit"}

Opening(f) == desc[f].owner # Nobody /\ desc[f].link = "new"

(* close takes the number from a connection.  A worker that waits on it is *)
(* woken by a shutdown, and by the error of a connect that failed.         *)
CloseSocket(c, woken) ==
  /\ desc' = [desc EXCEPT ![sock[c]] = Closed]
  /\ waits' = LET end == IF woken THEN NoFd ELSE Lost
              IN  [w \in Workers |-> IF waits[w] = sock[c] THEN end ELSE waits[w]]
  /\ wrong' = IF desc[sock[c]].owner = c THEN wrong ELSE wrong \cup {c}

(* Where a worker goes when there was no length to read, on a socket that  *)
(* is connected, one that may be connecting and any other, and from its    *)
(* last look at the status                                                 *)
AfterReadEnds(f) == IF desc[f].link = "up" THEN {"idle"} ELSE {"test"}

AfterRead(f) ==
  CASE desc[f].link = "up" -> {"check"}
    [] Opening(f) -> {"check", "test"}
    [] OTHER -> {"test"}

AfterCheck(c) == IF status[c] = "Connected" THEN "push" ELSE "idle"

Submit(c) == queue' = IF terminate THEN queue ELSE Append(queue, c)

-----------------------------------------------------------------------------
(* ConnectTo, called by runClient and by the connect command.  An open     *)
(* connection of the client is forgotten, not closed.                      *)
OpenSocket(p) ==
  LET c == ClientOf(p)
      free == {f \in Fds : desc[f].owner = Nobody}
  IN  /\ \/ pc[p] = "socket" /\ UNCHANGED connects
         \/ pc[p] = "loop" /\ connects > 0 /\ connects' = connects - 1
      /\ relinked' = IF status[c] = "Connected" THEN relinked \cup {c} ELSE relinked
      /\ \/ /\ free # {}
            /\ Goto(p, pc[p], "connect")
            /\ sock' = [sock EXCEPT ![c] = Min(free)]
            /\ desc' = [desc EXCEPT ![Min(free)].owner = c]
         \/ /\ free = {}
            /\ Goto(p, pc[p], "nofd")
            /\ sock' = [sock EXCEPT ![c] = NoFd]
            /\ UNCHANGED desc
      /\ UNCHANGED <<status, poolVars, pieces, ready, threw, wrong>>

ConnectAcceptedAny(p) ==
  /\ desc' = [desc EXCEPT ![sock[ClientOf(p)]].link = "up"]
  /\ Goto(p, "connect", "up")
  /\ UNCHANGED <<memberVars, poolVars, boundVars, noteVars>>

ConnectAccepted(p) ==
  LET f == sock[ClientOf(p)]
  IN  /\ Opening(f)
      /\ desc' = [desc EXCEPT ![f].link = "up"]
      /\ Goto(p, "connect", "up")
      /\ UNCHANGED <<memberVars, poolVars, boundVars, noteVars>>

ConnectRefused(p) ==
  /\ Goto(p, "connect", "failed")
  /\ CloseSocket(ClientOf(p), desc[sock[ClientOf(p)]].link = "new")
  /\ UNCHANGED <<memberVars, task, queue, terminate, boundVars, ready, threw, relinked>>

ConnectEnds(p, from, result) ==
  /\ \E to \in AfterConnect(p, result = "Connected") : Goto(p, from, to)
  /\ status' = [status EXCEPT ![ClientOf(p)] = result]
  /\ UNCHANGED <<sock, poolVars, desc, boundVars, threw, relinked, wrong>>

ConnectFails(p) ==
  /\ ConnectEnds(p, "failed", "ConnectError") \/ ConnectEnds(p, "nofd", "InitError")
  /\ UNCHANGED ready

Connected(p) == ConnectEnds(p, "up", "Connected") /\ ready' = ready \ {ClientOf(p)}

(* Disconnect, called by LoadData, by the exit command and by main in the  *)
(* destructors, the last client first.  The status is tested and set       *)
(* without a lock, and the descriptor keeps its value after the close.     *)
MayDisconnect(p) ==
  \/ p \in Workers /\ pc[p] = "test"
  \/ p \in Users /\ pc[p] = "loop"
  \/ /\ p \in Destroyers /\ pc[p] = "wait"
     /\ \A u \in Users : pc[u] = "done"
     /\ \A c \in Clients : c > p[2] => Destroyed(c)

TestStatusNot(p) ==
  /\ MayDisconnect(p)
  /\ Goto(p, pc[p], "set")
  /\ UNCHANGED <<memberVars, poolVars, desc, boundVars, noteVars>>

TestStatus(p) ==
  /\ MayDisconnect(p)
  /\ Goto(p, pc[p], IF status[ClientOf(p)] = "Connected" THEN "set" ELSE AfterDisconnect(p))
  /\ UNCHANGED <<memberVars, poolVars, desc, boundVars, noteVars>>

SetDisconnected(p) ==
  /\ Goto(p, "set", "close")
  /\ status' = [status EXCEPT ![ClientOf(p)] = "Disconnected"]
  /\ UNCHANGED <<sock, poolVars, desc, boundVars, noteVars>>

CloseOnly(p) ==
  /\ Goto(p, "close", AfterDisconnect(p))
  /\ CloseSocket(ClientOf(p), FALSE)
  /\ UNCHANGED <<memberVars, task, queue, terminate, boundVars, ready, threw, relinked>>

CloseConnection(p) ==
  /\ Goto(p, "close", AfterDisconnect(p))
  /\ CloseSocket(ClientOf(p), TRUE)
  /\ UNCHANGED <<memberVars, task, queue, terminate, boundVars, ready, threw, relinked>>

(* SetHandler starts a chain, connected or not. *)
SetHandler(p) ==
  /\ Goto(p, "handler", "add")
  /\ UNCHANGED <<memberVars, poolVars, desc, boundVars, noteVars>>

StartChain(p) ==
  /\ Goto(p, "add", IF p[1] = "run" THEN "done" ELSE "loop")
  /\ Submit(ClientOf(p))
  /\ ready' = ready \cup {ClientOf(p)}
  /\ UNCHANGED <<memberVars, task, terminate, waits, desc, boundVars,
                 threw, relinked, wrong>>

-----------------------------------------------------------------------------
(* A worker in HandleThreadPool: LoadData tests the status ... *)
Take(w) ==
  /\ queue # <<>> /\ ~terminate
  /\ Goto(w, "idle", IF status[Head(queue)] = "Connected" THEN "read" ELSE "check")
  /\ task' = [task EXCEPT ![w] = Head(queue)]
  /\ queue' = Tail(queue)
  /\ UNCHANGED <<terminate, waits, memberVars, desc, boundVars, noteVars>>

(* ... and reads a length from whatever the descriptor is by now: zero, a  *)
(* large one, one too large for the memory, whose exception ends the       *)
(* chain, or any other.                                                    *)
ReadLength(w) ==
  LET f == sock[task[w]]
  IN  /\ \/ /\ desc[f].inbox > 0
            /\ desc' = [desc EXCEPT ![f].inbox = @ - 1]
            /\ \/ /\ \E to \in {"check", "test", "payload"} : Goto(w, "read", to)
                  /\ UNCHANGED threw
               \/ Goto(w, "read", "idle") /\ threw' = threw \cup {task[w]}
         \/ /\ desc[f].inbox = 0
            /\ \E to \in AfterRead(f) : Goto(w, "read", to)
            /\ UNCHANGED <<desc, threw>>
      /\ UNCHANGED <<memberVars, poolVars, boundVars, ready, relinked, wrong>>

(* The second recv returns what is there, or the end of the connection:    *)
(* the buffer goes to the handler, full or not, but for an error.          *)
Receive(w, from, f) ==
  \/ \E n \in 1 .. desc[f].inbox :
       /\ Goto(w, from, "handle")
       /\ desc' = [desc EXCEPT ![f].inbox = @ - n]
  \/ /\ desc[f].inbox = 0 /\ desc[f].link = "ended"
     /\ \E to \in {"handle", "test"} : Goto(w, from, to)
     /\ UNCHANGED desc

ReadPayload(w) ==
  LET f == sock[task[w]]
  IN  /\ \/ Receive(w, "payload", f) /\ UNCHANGED waits
         \/ /\ desc[f].inbox = 0 /\ (desc[f].link = "up" \/ Opening(f))
            /\ Goto(w, "payload", "blocked")
            /\ waits' = [waits EXCEPT ![w] = f]
            /\ UNCHANGED desc
         \/ /\ desc[f].link = "new"
            /\ Goto(w, "payload", "test")
            /\ UNCHANGED <<desc, waits>>
      /\ UNCHANGED <<memberVars, task, queue, terminate, boundVars, noteVars>>

Wake(w) ==
  /\ waits[w] # Lost
  /\ \/ Receive(w, "blocked", waits[w])
     \/ /\ waits[w] = NoFd
        /\ \E to \in {"handle", "test"} : Goto(w, "blocked", to)
        /\ UNCHANGED desc
  /\ waits' = [waits EXCEPT ![w] = NoFd]
  /\ UNCHANGED <<memberVars, task, queue, terminate, boundVars, noteVars>>

RunHandlerLast(w) ==
  /\ Goto(w, "handle", "idle")
  /\ UNCHANGED <<memberVars, poolVars, desc, boundVars, noteVars>>

RunHandler(w) ==
  /\ Goto(w, "handle", "check")
  /\ UNCHANGED <<memberVars, poolVars, desc, boundVars, noteVars>>

Check(w) ==
  /\ Goto(w, "check", AfterCheck(task[w]))
  /\ UNCHANGED <<memberVars, poolVars, desc, boundVars, noteVars>>

SubmitAgain(w) ==
  /\ Goto(w, "push", "idle")
  /\ Submit(task[w])
  /\ UNCHANGED <<memberVars, task, terminate, waits, desc, boundVars, noteVars>>

-----------------------------------------------------------------------------
(* SetDataPc may fail: runClient gives up. *)
RunGivesUp(p) ==
  /\ p[1] = "run"
  /\ Goto(p, "socket", "done")
  /\ UNCHANGED <<memberVars, poolVars, desc, boundVars, noteVars>>

(* After the clients main destroys the pool. *)
StopPool ==
  /\ Alive /\ \A c \in Clients : Destroyed(c)
  /\ ~terminate /\ terminate' = TRUE
  /\ UNCHANGED <<pc, task, queue, waits, memberVars, desc, boundVars, noteVars>>

(* The server's side of an accepted connection *)
Deliver(f) ==
  /\ Alive /\ pieces > 0 /\ desc[f].link = "up"
  /\ desc' = [desc EXCEPT ![f].inbox = @ + 1]
  /\ pieces' = pieces - 1
  /\ UNCHANGED <<pc, memberVars, poolVars, connects, noteVars>>

PeerEnds(f) ==
  /\ Alive /\ desc[f].link = "up"
  /\ desc' = [desc EXCEPT ![f].link = "ended"]
  /\ UNCHANGED <<pc, memberVars, poolVars, boundVars, noteVars>>

(* The other side of a connection without a number sends or ends. *)
LostEnds(w) ==
  /\ waits[w] = Lost /\ waits' = [waits EXCEPT ![w] = NoFd]
  /\ \E to \in {"handle", "test"} : Goto(w, "blocked", to)
  /\ UNCHANGED <<memberVars, task, queue, terminate, desc, boundVars, noteVars>>

-----------------------------------------------------------------------------
DisconnectStep(p) == TestStatus(p) \/ SetDisconnected(p) \/ CloseConnection(p)

WorkerStep(w) ==
  \/ Take(w) \/ ReadLength(w) \/ ReadPayload(w) \/ Wake(w)
  \/ RunHandler(w) \/ Check(w) \/ SubmitAgain(w) \/ DisconnectStep(w)

UserStep(p) ==
  \/ RunGivesUp(p) \/ SetHandler(p) \/ StartChain(p)
  \/ OpenSocket(p) \/ ConnectAccepted(p) \/ ConnectRefused(p)
  \/ ConnectFails(p) \/ Connected(p)
  \/ DisconnectStep(p)

MainStep == StopPool \/ \E p \in Destroyers : DisconnectStep(p)

Network ==
  \/ \E f \in Fds : Deliver(f) \/ PeerEnds(f)
  \/ \E w \in Workers : LostEnds(w)

Overlapping ==
  \E c \in Clients, p \in Threads : Inside(p, c) /\ \E q \in Threads \ {p} : Inside(q, c)

Noted == overlap' = (overlap \/ Overlapping')

Next ==
  /\ \/ \E w \in Workers : WorkerStep(w)
     \/ \E p \in Users : UserStep(p)
     \/ MainStep
     \/ Network
  /\ Noted

Spec == Init /\ [][Next]_vars

(* The scheduler runs every worker that can go on, and handlers return.    *)
(* Nothing is assumed of what the users do next, of the server or of the   *)
(* network.  Every step of a thread moves its pc.                          *)
FairSpec == Spec /\ \A w \in Workers : WF_pc(WorkerStep(w))

(* Nor do the calls of connect, shutdown and close last for ever.          *)
CallStep(p) ==
  \/ ConnectAccepted(p) \/ ConnectRefused(p) \/ ConnectFails(p) \/ Connected(p)
  \/ SetDisconnected(p) \/ CloseConnection(p)

FairCallsSpec ==
  FairSpec /\ \A p \in Users \cup Destroyers : WF_pc(CallStep(p))

-----------------------------------------------------------------------------
(***************************************************************************)
(* Descriptors.  Disconnect tests and sets the status without a lock and   *)
(* leaves the closed descriptor in place, and the system gives its number  *)
(* to the next connection, of any client.  As long as no two calls of      *)
(* Disconnect or ConnectTo for one client have overlapped: nobody closes a *)
(* descriptor of another client or one that is closed; a connected client  *)
(* that is not in such a call owns its descriptor; and what is open        *)
(* belongs to a client that is connected or in a call, unless that client  *)
(* has called ConnectTo while it was connected, which loses the old one.   *)
(***************************************************************************)
DescriptorsOwned ==
  LET busy(c) == \E p \in Threads : Inside(p, c)
  IN  overlap \/
        /\ wrong = {}
        /\ \A c \in Clients : status[c] = "Connected" /\ ~busy(c) => desc[sock[c]].owner = c
        /\ \A f \in Fds : LET c == desc[f].owner
                          IN  c = Nobody \/ c \in relinked
                                \/ (sock[c] = f /\ (status[c] = "Connected" \/ busy(c)))

(***************************************************************************)
(* A connected client is read: it has a chain, provided its handler was    *)
(* set after the connection and no chain ended with an exception.  (The    *)
(* handler of the console thread is set before; after a connect command    *)
(* nobody reads.)                                                          *)
(***************************************************************************)
ReadyHasReader ==
  \A c \in Clients : status[c] = "Connected" /\ c \in ready \ threw => Chains(c) # {}

(* A worker that no step of the process wakes: it is in the recv of a      *)
(* payload that does not come.                                             *)
Stuck(w) ==
  /\ pc[w] = "blocked" /\ waits[w] # NoFd
  /\ waits[w] # Lost => desc[waits[w]].inbox = 0 /\ desc[waits[w]].link # "ended"

(***************************************************************************)
(* Once a client is not connected its chains die out, unless it is         *)
(* connected again: so does the task that is left when a client is         *)
(* destroyed, which may still use it a last time.  A payload that never    *)
(* comes does not hold a chain of a disconnected client, since Disconnect  *)
(* wakes the reader: unless ConnectTo was called while the client was      *)
(* connected, or a call overlapped another, so that the reader's           *)
(* connection is not the one Disconnect closes, or the reader found the    *)
(* number with another client.  No chain ends when all workers wait.       *)
(***************************************************************************)
ChainDrains ==
  LET left(w, c) == /\ Stuck(w) /\ task[w] = c
                    /\ \/ overlap \/ c \in relinked
                       \/ waits[w] \in {f \in Fds : desc[f].owner # c}
  IN  \A c \in Clients :
        \/ <>[]((\A w \in Workers : Stuck(w)) \/ \E w \in Workers : left(w, c))
        \/ status[c] # "Connected" ~>
              (status[c] = "Connected" \/ Chains(c) = {} \/ terminate \/ ~Alive)

(***************************************************************************)
(* What a client that is being read is sent is all taken in the end,       *)
(* although the chains of all clients share the workers, come and go, and  *)
(* handlers run: unless all workers, or the workers of all its chains,     *)
(* wait for ever for payloads that do not come.                            *)
(***************************************************************************)
MessageRead ==
  LET pending(c) == /\ Alive /\ status[c] = "Connected" /\ c \in ready \ threw
                    /\ desc[sock[c]].inbox > 0
      held(c) == \/ \A w \in Workers : Stuck(w)
                 \/ Chains(c) # {} /\ \A i \in Chains(c) : i \in Workers /\ Stuck(i)
  IN  \A c \in Clients : <>[]held(c) \/ (pending(c) ~> ~pending(c))
==============================================================================
