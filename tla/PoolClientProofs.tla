--------------------------- MODULE PoolClientProofs ---------------------------
(***************************************************************************)
(* The clients on the shared pool, for any number of clients, workers and  *)
(* descriptors: who owns which descriptor as long as no two calls for one  *)
(* client overlap, and that a client that is ready is being read.          *)
(***************************************************************************)
EXTENDS PoolClient, WellFoundedInduction, TLAPS

-----------------------------------------------------------------------------
(* The inductive invariant *)

Busy == Disconnecting \cup Connecting

Owner(f) == desc[f].owner

(* The recvs of LoadData; in the last of them a worker may wait on a       *)
(* connection that has lost its number.                                    *)
Reading(w) == ReadLength(w) \/ ReadPayload(w) \/ Wake(w) \/ LostEnds(w)

(* There is room for the pieces that may still be sent. *)
Room == \A f \in Fds \cup {NoFd} : desc[f].inbox + pieces <= MaxPieces

(* The clients are destroyed when their threads have ended, and the pool   *)
(* after all of them; a client that has been destroyed is not connected.   *)
Ending ==
  /\ \A d \in Destroyers : pc[d] \in {"wait", "set", "close", "done"}
  /\ \A d \in Destroyers : pc[d] # "wait" => \A u \in Users : pc[u] = "done"
  /\ \A d \in Destroyers : pc[d] \in {"close", "done"} => status[d[2]] # "Connected"
  /\ terminate => \A c \in Clients : Destroyed(c)

(* No two calls of ConnectTo or Disconnect for one client *)
Apart ==
  \A p, q \in Threads :
    pc[p] \in Busy /\ pc[q] \in Busy /\ ClientOf(p) = ClientOf(q) => p = q

(* What a call knows of the client's descriptor and status *)
Held(p) ==
  /\ pc[p] \in {"connect", "up", "set", "close"} => Owner(sock[ClientOf(p)]) = ClientOf(p)
  /\ pc[p] \in {"failed", "nofd"} => Owner(sock[ClientOf(p)]) # ClientOf(p)
  /\ pc[p] = "set" => status[ClientOf(p)] = "Connected"
  /\ pc[p] = "close" => status[ClientOf(p)] # "Connected"

Holding == \A p \in Threads : Held(p)

(* A connected client owns its descriptor unless it is in ConnectTo. *)
LinkedTo(c) ==
  status[c] = "Connected" /\ (\A p \in Threads : ClientOf(p) = c => pc[p] \notin Connecting)
    => Owner(sock[c]) = c

Linked == \A c \in Clients : LinkedTo(c)

(* An open descriptor is known to its owner, but for those a second        *)
(* ConnectTo has forgotten.                                                *)
Known(f) ==
  \/ status[Owner(f)] = "Connected"
  \/ \E p \in Threads : ClientOf(p) = Owner(f) /\ pc[p] \in {"connect", "up", "close"}

AccountedFor(f) ==
  \/ Owner(f) = Nobody
  \/ Owner(f) \in relinked
  \/ sock[Owner(f)] = f /\ Known(f)

Accounted == \A f \in Fds : AccountedFor(f)

Good == wrong = {} /\ Apart /\ Holding /\ Linked /\ Accounted

Inv == TypeOK /\ Room /\ Ending /\ ReadyHasReader /\ (overlap \/ Good)

-----------------------------------------------------------------------------

(* The lowest number of a set of numbers is in the set. *)
LEMMA MinIn == ASSUME NEW S, S \subseteq Nat, S # {} PROVE Min(S) \in S
<1>1. PICK x \in S : \A y \in S : ~ (<<y, x>> \in OpToRel(<, Nat))
  BY NatLessThanWellFounded, WFMin
<1>2. \A y \in S : <<y, x>> \in OpToRel(<, Nat) <=>
                      <<y, x>> \in Nat \X Nat /\ <<y, x>>[1] < <<y, x>>[2]
  BY Zenon DEF OpToRel
<1>3. ASSUME NEW y \in S PROVE x <= y
  <2>1. <<y, x>> \in Nat \X Nat
    OBVIOUS
  <2>2. ~ (<<y, x>>[1] < <<y, x>>[2])
    BY <1>1, <1>2, <2>1, Zenon
  <2> QED
    BY <2>2
<1> QED
  BY <1>3 DEF Min

(* The threads are of three kinds, and each works on a client. *)
LEMMA ThreadKinds ==
  /\ Workers \cap Users = {} /\ Workers \cap Destroyers = {} /\ Users \cap Destroyers = {}
  /\ \A p \in Users : p[1] \in {"run", "console"} /\ p[2] \in Clients
  /\ \A d \in Destroyers : d[2] \in Clients /\ d = <<"main", d[2]>>
  /\ \A c \in Clients : <<"main", c>> \in Destroyers /\ <<"main", c>>[2] = c
<1>1. Users \cap Destroyers = {}
  BY DEF Users, Destroyers
<1> QED
  BY <1>1, PoolClientAssumption DEF Users, Destroyers

(* The numbers of clients and descriptors, and what is neither *)
LEMMA NumberFacts ==
  /\ NClients \in Nat \ {0} /\ MaxFd \in Nat /\ MaxConnects \in Nat /\ MaxPieces \in Nat
  /\ 1 \in Clients /\ Clients \subseteq Nat \ {0} /\ Nobody \notin Clients
  /\ Fds \subseteq Nat /\ NoFd \notin Fds
<1>1. NClients \in Nat \ {0} /\ MaxFd \in Nat /\ MaxConnects \in Nat /\ MaxPieces \in Nat
  BY PoolClientAssumption
<1> QED
  BY <1>1 DEF Clients, Fds, Nobody, NoFd

(* Every thread works on a client of the program. *)
LEMMA WhoFacts ==
  ASSUME TypeOK
  PROVE  /\ \A p \in Threads : ClientOf(p) \in Clients
         /\ \A w \in Workers : ClientOf(w) = task[w]
         /\ \A p \in Users \cup Destroyers : ClientOf(p) = p[2]
         /\ \A c \in Clients : sock[c] \in Fds \cup {NoFd} /\ status[c] \in Status
<1>1. \A w \in Workers : ClientOf(w) = task[w] /\ task[w] \in Clients
  BY DEF ClientOf, TypeOK
<1>2. \A p \in Users \cup Destroyers : ClientOf(p) = p[2] /\ p[2] \in Clients
  BY ThreadKinds DEF ClientOf
<1>3. \A c \in Clients : sock[c] \in Fds \cup {NoFd} /\ status[c] \in Status
  BY DEF TypeOK
<1> QED
  BY <1>1, <1>2, <1>3 DEF Threads

(* The invariant holds at the start. *)
LEMMA InitInv == ASSUME Init PROVE Inv
<1> USE NumberFacts
<1>0. /\ \A w \in Workers : pc[w] = "idle"
      /\ \A d \in Destroyers : pc[d] = "wait"
      /\ \A p \in Users : pc[p] \in {"socket", "handler", "done"}
      /\ pc \in [Threads -> PC]
  <2>1. pc = [p \in Threads |-> FirstPC(p)]
    BY DEF Init
  <2>2. ASSUME NEW p \in Workers PROVE pc[p] = "idle"
    <3>1. p \notin Destroyers /\ p \notin Users
      BY <2>2, ThreadKinds
    <3>2. p \notin {"run"} \X Clients /\ p \notin {"console"} \X Consoles
      BY <3>1, PoolClientAssumption DEF Users
    <3>3. FirstPC(p) = "idle"
      BY <2>2, <3>1, <3>2, Zenon DEF FirstPC
    <3> QED
      BY <2>1, <2>2, <3>3 DEF Threads
  <2>3. ASSUME NEW p \in Destroyers PROVE pc[p] = "wait"
    BY <2>1, <2>3, ThreadKinds DEF Threads, FirstPC
  <2>4. ASSUME NEW p \in Users PROVE pc[p] \in {"socket", "handler", "done"}
    <3>1. FirstPC(p) \in {"socket", "handler", "done"}
      BY <2>4, ThreadKinds, Zenon DEF FirstPC
    <3> QED
      BY <2>1, <2>4, <3>1 DEF Threads
  <2>5. pc = [p \in Threads |-> pc[p]]
    BY <2>1
  <2>6. \A p \in Threads : pc[p] \in PC
    BY <2>2, <2>3, <2>4 DEF Threads, PC
  <2> QED
    BY <2>2, <2>3, <2>4, <2>5, <2>6
<1>1. TypeOK
  <2>1. Closed \in Descriptor
    BY DEF Closed, Descriptor
  <2>2. desc \in [Fds \cup {NoFd} -> Descriptor] /\ desc[NoFd] = Closed
    BY <2>1 DEF Init
  <2>3. /\ task \in [Workers -> Clients] /\ sock \in [Clients -> Fds \cup {NoFd}]
        /\ waits \in [Workers -> Fds \cup {NoFd, Lost}]
    BY DEF Init
  <2>4. status \in [Clients -> Status]
    BY DEF Init, Status
  <2>5. queue \in Seq(Clients)
    BY DEF Init
  <2>6. connects \in 0 .. MaxConnects /\ pieces \in 0 .. MaxPieces
    BY DEF Init
  <2>7. /\ terminate \in BOOLEAN /\ overlap \in BOOLEAN
        /\ {ready, threw, relinked, wrong} \subseteq SUBSET Clients
    BY DEF Init
  <2> QED
    BY <1>0, <2>2, <2>3, <2>4, <2>5, <2>6, <2>7 DEF TypeOK
<1>2. Room
  BY DEF Init, Room, Closed
<1>3. Ending
  BY <1>0 DEF Init, Ending
<1>4. ReadyHasReader
  BY DEF Init, ReadyHasReader
<1>5. Good
  <2>1. \A p \in Threads : pc[p] \notin Busy
    BY <1>0 DEF Threads, Busy, Connecting, Disconnecting
  <2>2. \A f \in Fds : Owner(f) = Nobody
    BY DEF Init, Owner, Closed
  <2> QED
    BY <2>1, <2>2 DEF Init, Good, Apart, Holding, Held, Linked, LinkedTo, Accounted,
                      AccountedFor, Busy, Connecting, Disconnecting
<1> QED
  BY <1>1, <1>2, <1>3, <1>4, <1>5 DEF Inv

(* The steps of Next, each of a thread of its kind *)
LEMMA Steps ==
  ASSUME Next
  PROVE  \/ \E w \in Workers : \/ Take(w) \/ Reading(w) \/ RunHandler(w) \/ Check(w)
                               \/ SubmitAgain(w)
         \/ \E p \in Users : \/ RunGivesUp(p) \/ SetHandler(p) \/ StartChain(p)
                             \/ OpenSocket(p) \/ ConnectAccepted(p) \/ ConnectRefused(p)
                             \/ ConnectFails(p) \/ Connected(p)
         \/ \E p \in Threads : DisconnectStep(p)
         \/ StopPool
         \/ \E f \in Fds : Deliver(f) \/ PeerEnds(f)
BY Zenon DEF Next, WorkerStep, UserStep, MainStep, Network, Threads, Reading

(* A thread that goes on *)
LEMMA GotoFacts ==
  ASSUME TypeOK, NEW p \in Threads, NEW from, NEW to \in PC, Goto(p, from, to)
  PROVE  /\ pc' \in [Threads -> PC]
         /\ pc[p] = from /\ pc'[p] = to
         /\ \A q \in Threads \ {p} : pc'[q] = pc[q]
<1>1. pc \in [Threads -> PC]
  BY DEF TypeOK
<1> QED
  BY <1>1 DEF Goto

(* The descriptor table, its entries and the room in it *)
DescType == desc \in [Fds \cup {NoFd} -> Descriptor] /\ desc[NoFd] = Closed

(* An entry of the table is of its type. *)
LEMMA EntryFacts ==
  ASSUME DescType, NEW f \in Fds \cup {NoFd}
  PROVE  /\ desc[f] \in Descriptor
         /\ desc[f].owner \in Clients \cup {Nobody}
         /\ desc[f].link \in {"new", "up", "ended"}
         /\ desc[f].inbox \in 0 .. MaxPieces
<1>1. desc[f] \in Descriptor
  BY DEF DescType
<1> QED
  BY <1>1 DEF Descriptor

(* The changes of an entry *)
LEMMA OwnerChange ==
  ASSUME DescType, Room, pieces' = pieces, NEW f \in Fds, NEW c \in Clients,
         desc' = [desc EXCEPT ![f].owner = c]
  PROVE  /\ DescType' /\ Room'
         /\ \A g \in Fds \cup {NoFd} : Owner(g)' = IF g = f THEN c ELSE Owner(g)
<1> USE NumberFacts
<1>1. [desc[f] EXCEPT !.owner = c] \in Descriptor /\ desc[f] \in Descriptor
  BY DEF DescType, Descriptor
<1>2. /\ desc' = [desc EXCEPT ![f] = [desc[f] EXCEPT !.owner = c]]
      /\ [desc[f] EXCEPT !.owner = c].owner = c
      /\ [desc[f] EXCEPT !.owner = c].inbox = desc[f].inbox
  BY <1>1 DEF Descriptor
<1>3. DescType'
  BY <1>1, <1>2 DEF DescType
<1>4. \A g \in Fds \cup {NoFd} : desc'[g].inbox = desc[g].inbox
  BY <1>2 DEF DescType
<1>5. \A g \in Fds \cup {NoFd} : desc'[g].owner = IF g = f THEN c ELSE desc[g].owner
  BY <1>2 DEF DescType
<1> QED
  BY <1>3, <1>4, <1>5 DEF Room, Owner

(* A connection comes up or ends. *)
LEMMA LinkChange ==
  ASSUME DescType, Room, pieces' = pieces, NEW f \in Fds, NEW l \in {"new", "up", "ended"},
         desc' = [desc EXCEPT ![f].link = l]
  PROVE  /\ DescType' /\ Room'
         /\ \A g \in Fds \cup {NoFd} : Owner(g)' = Owner(g)
<1> USE NumberFacts
<1>1. [desc[f] EXCEPT !.link = l] \in Descriptor /\ desc[f] \in Descriptor
  BY DEF DescType, Descriptor
<1>2. /\ desc' = [desc EXCEPT ![f] = [desc[f] EXCEPT !.link = l]]
      /\ [desc[f] EXCEPT !.link = l].owner = desc[f].owner
      /\ [desc[f] EXCEPT !.link = l].inbox = desc[f].inbox
  BY <1>1 DEF Descriptor
<1>3. DescType'
  BY <1>1, <1>2 DEF DescType
<1>4. \A g \in Fds \cup {NoFd} : desc'[g].inbox = desc[g].inbox
  BY <1>2 DEF DescType
<1>5. \A g \in Fds \cup {NoFd} : desc'[g].owner = desc[g].owner
  BY <1>2 DEF DescType
<1> QED
  BY <1>3, <1>4, <1>5 DEF Room, Owner

(* A piece arrives or pieces are taken, within what the server may still send. *)
LEMMA InboxChange ==
  ASSUME DescType, Room, NEW n \in 0 .. MaxPieces, NEW f \in Fds,
         pieces \in Nat, pieces' \in Nat, pieces' <= pieces, n + pieces' <= MaxPieces,
         desc' = [desc EXCEPT ![f].inbox = n]
  PROVE  /\ DescType' /\ Room'
         /\ \A g \in Fds \cup {NoFd} : Owner(g)' = Owner(g)
<1> USE NumberFacts
<1>1. [desc[f] EXCEPT !.inbox = n] \in Descriptor /\ desc[f] \in Descriptor
  BY DEF DescType, Descriptor
<1>2. /\ desc' = [desc EXCEPT ![f] = [desc[f] EXCEPT !.inbox = n]]
      /\ [desc[f] EXCEPT !.inbox = n].owner = desc[f].owner
      /\ [desc[f] EXCEPT !.inbox = n].inbox = n
  BY <1>1 DEF Descriptor
<1>3. DescType'
  BY <1>1, <1>2 DEF DescType
<1>4. \A g \in Fds \cup {NoFd} : desc'[g].inbox = IF g = f THEN n ELSE desc[g].inbox
  BY <1>2 DEF DescType
<1>5. \A g \in Fds \cup {NoFd} : desc'[g].owner = desc[g].owner
  BY <1>2 DEF DescType
<1>6. \A g \in Fds \cup {NoFd} : desc[g].inbox \in Nat /\ desc[g].inbox + pieces <= MaxPieces
  BY EntryFacts DEF Room
<1>7. Room'
  BY <1>4, <1>6 DEF Room
<1> QED
  BY <1>3, <1>5, <1>7 DEF Owner

(* A descriptor is closed. *)
LEMMA CloseChange ==
  ASSUME DescType, Room, pieces \in 0 .. MaxPieces, pieces' = pieces, NEW f \in Fds \cup {NoFd},
         desc' = [desc EXCEPT ![f] = Closed]
  PROVE  /\ DescType' /\ Room'
         /\ \A g \in Fds \cup {NoFd} : Owner(g)' = IF g = f THEN Nobody ELSE Owner(g)
<1> USE NumberFacts
<1>1. Closed \in Descriptor /\ Closed.owner = Nobody /\ Closed.inbox = 0
  BY DEF Closed, Descriptor
<1>2. DescType'
  BY <1>1 DEF DescType
<1>3. \A g \in Fds \cup {NoFd} : desc'[g].inbox = IF g = f THEN 0 ELSE desc[g].inbox
  BY <1>1 DEF DescType
<1>4. \A g \in Fds \cup {NoFd} : desc'[g].owner = IF g = f THEN Nobody ELSE desc[g].owner
  BY <1>1 DEF DescType
<1>5. Room'
  BY <1>3 DEF Room
<1> QED
  BY <1>2, <1>4, <1>5 DEF Owner

(* The parts of the type invariant *)
PoolTypes ==
  /\ task \in [Workers -> Clients] /\ queue \in Seq(Clients) /\ terminate \in BOOLEAN
  /\ waits \in [Workers -> Fds \cup {NoFd, Lost}]
MemberTypes == status \in [Clients -> Status] /\ sock \in [Clients -> Fds \cup {NoFd}]
BoundTypes == connects \in 0 .. MaxConnects /\ pieces \in 0 .. MaxPieces
NoteTypes == {ready, threw, relinked, wrong} \subseteq SUBSET Clients

(* The type invariant taken apart ... *)
LEMMA TypeParts ==
  ASSUME TypeOK
  PROVE  /\ pc \in [Threads -> PC] /\ overlap \in BOOLEAN
         /\ PoolTypes /\ MemberTypes /\ DescType /\ BoundTypes /\ NoteTypes
BY DEF TypeOK, PoolTypes, MemberTypes, DescType, BoundTypes, NoteTypes

(* ... and put together after a step *)
LEMMA TypeWhole ==
  ASSUME pc' \in [Threads -> PC], Noted,
         PoolTypes', MemberTypes', DescType', BoundTypes', NoteTypes'
  PROVE  TypeOK'
<1>1. overlap' \in BOOLEAN
  BY Zenon DEF Noted
<1> QED
  BY <1>1 DEF TypeOK, PoolTypes, MemberTypes, DescType, BoundTypes, NoteTypes

(* What is not changed keeps its type. *)
LEMMA TypesKept ==
  ASSUME TypeOK
  PROVE  /\ UNCHANGED poolVars => PoolTypes'
         /\ UNCHANGED memberVars => MemberTypes'
         /\ UNCHANGED boundVars => BoundTypes'
         /\ UNCHANGED noteVars => NoteTypes'
         /\ UNCHANGED desc => DescType'
<1>1. PoolTypes /\ MemberTypes /\ DescType /\ BoundTypes /\ NoteTypes
  BY TypeParts
<1>2. UNCHANGED poolVars => PoolTypes'
  BY <1>1 DEF poolVars, PoolTypes
<1>3. UNCHANGED memberVars => MemberTypes'
  BY <1>1 DEF memberVars, MemberTypes
<1>4. UNCHANGED boundVars => BoundTypes'
  BY <1>1 DEF boundVars, BoundTypes
<1>5. UNCHANGED noteVars => NoteTypes'
  BY <1>1 DEF noteVars, NoteTypes
<1>6. UNCHANGED desc => DescType'
  BY <1>1 DEF DescType
<1> QED
  BY <1>2, <1>3, <1>4, <1>5, <1>6

(* Where table and bound stay, so does the room. *)
LEMMA RoomKept == ASSUME Room, UNCHANGED desc, UNCHANGED pieces PROVE Room'
BY DEF Room

(* A step that changes nothing but where a thread is *)
Quiet == UNCHANGED <<memberVars, poolVars, desc, boundVars, noteVars>>

(* Such a step keeps the types. *)
LEMMA QuietTypes ==
  ASSUME TypeOK, Room, Noted, Quiet,
         NEW p \in Threads, NEW from, NEW to \in PC, Goto(p, from, to)
  PROVE  TypeOK' /\ Room'
<1>1. pc' \in [Threads -> PC]
  BY GotoFacts
<1>2. /\ UNCHANGED poolVars /\ UNCHANGED memberVars /\ UNCHANGED boundVars
      /\ UNCHANGED noteVars /\ UNCHANGED desc
  BY DEF Quiet
<1>3. Room'
  BY <1>2, RoomKept DEF boundVars
<1> QED
  BY <1>1, <1>2, <1>3, TypesKept, TypeWhole

(* Types of the queue as it is used *)
LEMMA SubmitType ==
  ASSUME PoolTypes, NEW c \in Clients, Submit(c), UNCHANGED task, UNCHANGED terminate,
         UNCHANGED waits
  PROVE  PoolTypes'
<1>1. queue \in Seq(Clients)
  BY DEF PoolTypes
<1>2. Append(queue, c) \in Seq(Clients)
  BY <1>1
<1> QED
  BY <1>1, <1>2 DEF Submit, PoolTypes

(* The oldest task of a queue that is not empty *)
LEMMA HeadFacts ==
  ASSUME PoolTypes, queue # <<>>
  PROVE  /\ Head(queue) \in Clients /\ Tail(queue) \in Seq(Clients)
         /\ 1 \in DOMAIN queue /\ Head(queue) = queue[1]
<1>1. queue \in Seq(Clients)
  BY DEF PoolTypes
<1> QED
  BY <1>1

(* Closing a descriptor: it is in nobody's hands afterwards. *)
LEMMA CloseFacts ==
  ASSUME TypeOK, Room, NEW c \in Clients, NEW woken, CloseSocket(c, woken),
         UNCHANGED pieces, UNCHANGED <<task, queue, terminate>>
  PROVE  /\ DescType' /\ Room' /\ wrong' \in SUBSET Clients /\ PoolTypes'
         /\ sock[c] \in Fds \cup {NoFd}
         /\ \A g \in Fds \cup {NoFd} : Owner(g)' = IF g = sock[c] THEN Nobody ELSE Owner(g)
         /\ Owner(sock[c]) = c => wrong' = wrong
<1>1. DescType /\ pieces \in 0 .. MaxPieces /\ wrong \in SUBSET Clients
  BY TypeParts DEF BoundTypes, NoteTypes
<1>2. sock[c] \in Fds \cup {NoFd}
  BY WhoFacts
<1>3. desc' = [desc EXCEPT ![sock[c]] = Closed]
  BY DEF CloseSocket
<1>4. /\ DescType' /\ Room'
      /\ \A g \in Fds \cup {NoFd} : Owner(g)' = IF g = sock[c] THEN Nobody ELSE Owner(g)
  BY <1>1, <1>2, <1>3, CloseChange
<1>5. wrong' \in SUBSET Clients /\ (Owner(sock[c]) = c => wrong' = wrong)
  BY <1>1 DEF CloseSocket, Owner
<1>6. PoolTypes'
  <2>1. PoolTypes
    BY TypeParts
  <2>2. PICK end \in {NoFd, Lost} :
          waits' = [w \in Workers |-> IF waits[w] = sock[c] THEN end ELSE waits[w]]
    BY DEF CloseSocket
  <2> QED
    BY <2>1, <2>2 DEF PoolTypes
<1> QED
  BY <1>2, <1>4, <1>5, <1>6

(* The steps that change nothing but where a thread is *)
QuietStep(p) == Quiet /\ \E from \in PC, to \in PC : Goto(p, from, to)

(* The actions that are such steps *)
LEMMA QuietSteps ==
  ASSUME TypeOK, NEW p \in Threads,
         \/ RunHandler(p) \/ TestStatus(p) \/ SetHandler(p) \/ RunGivesUp(p)
         \/ (p \in Workers /\ Check(p))
  PROVE  QuietStep(p)
<1> USE DEF PC, Disconnecting, Connecting
<1>1. pc[p] \in PC
  BY TypeParts
<1>2. CASE RunHandler(p)
  <2>1. Goto(p, "handle", "check") /\ Quiet
    BY <1>2 DEF RunHandler, Quiet
  <2> QED
    BY <2>1 DEF QuietStep
<1>3. CASE TestStatus(p)
  <2> DEFINE to == IF status[ClientOf(p)] = "Connected" THEN "set" ELSE AfterDisconnect(p)
  <2>1. Goto(p, pc[p], to) /\ Quiet
    BY <1>3 DEF TestStatus, Quiet
  <2>2. to \in PC
    BY DEF AfterDisconnect
  <2> QED
    BY <1>1, <2>1, <2>2, Zenon DEF QuietStep
<1>4. CASE SetHandler(p)
  <2>1. Goto(p, "handler", "add") /\ Quiet
    BY <1>4 DEF SetHandler, Quiet
  <2> QED
    BY <2>1 DEF QuietStep
<1>5. CASE RunGivesUp(p)
  <2>1. Goto(p, "socket", "done") /\ Quiet
    BY <1>5 DEF RunGivesUp, Quiet
  <2> QED
    BY <2>1 DEF QuietStep
<1>6. CASE p \in Workers /\ Check(p)
  <2> DEFINE to == AfterCheck(task[p])
  <2>1. Goto(p, "check", to) /\ Quiet
    BY <1>6 DEF Check, Quiet
  <2>2. to \in PC
    BY DEF AfterCheck
  <2>3. "check" \in PC
    OBVIOUS
  <2> QED
    BY <2>1, <2>2, <2>3, Zenon DEF QuietStep
<1> QED
  BY <1>2, <1>3, <1>4, <1>5, <1>6

(* Types, action by action *)
LEMMA TakeType == ASSUME TypeOK, Room, Noted, NEW w \in Workers, Take(w) PROVE TypeOK' /\ Room'
<1>1. PoolTypes /\ queue # <<>>
  BY TypeParts DEF Take
<1>2. Head(queue) \in Clients /\ Tail(queue) \in Seq(Clients)
  BY <1>1, HeadFacts
<1>3. PoolTypes'
  <2>1. /\ task' = [task EXCEPT ![w] = Head(queue)] /\ queue' = Tail(queue)
        /\ terminate' = terminate /\ waits' = waits
    BY DEF Take
  <2> QED
    BY <1>1, <1>2, <2>1 DEF PoolTypes
<1>4. pc' \in [Threads -> PC]
  <2> DEFINE to == IF status[Head(queue)] = "Connected" THEN "read" ELSE "check"
  <2>1. to \in PC
    BY DEF PC
  <2>2. Goto(w, "idle", to) /\ w \in Threads
    BY DEF Take, Threads
  <2> QED
    BY <2>1, <2>2, GotoFacts
<1>5. /\ UNCHANGED memberVars /\ UNCHANGED boundVars /\ UNCHANGED noteVars
      /\ UNCHANGED desc /\ UNCHANGED pieces
  BY DEF Take, boundVars
<1>6. Room'
  BY <1>5, RoomKept
<1> QED
  BY <1>3, <1>4, <1>5, <1>6, TypesKept, TypeWhole

(* A recv changes what was read, where the worker is and what it waits on, *)
(* and after an exception that the chain has ended.                        *)
LEMMA ReadingFrame ==
  ASSUME NEW w \in Workers, Reading(w)
  PROVE  UNCHANGED <<status, sock, task, queue, terminate, connects, pieces, ready,
                     relinked, wrong>>
BY DEF Reading, ReadLength, ReadPayload, Wake, LostEnds, memberVars, poolVars, boundVars,
       noteVars

(* Where a worker goes from there *)
LEMMA ReadingGoes ==
  ASSUME NEW w \in Workers, Reading(w)
  PROVE  \/ /\ threw' = threw
            /\ \E from \in {"read", "payload", "blocked"},
                  to \in {"check", "test", "payload", "blocked", "handle"} : Goto(w, from, to)
         \/ threw' = threw \cup {task[w]} /\ Goto(w, "read", "idle")
<1>1. CASE ReadLength(w)
  BY <1>1 DEF ReadLength, AfterRead
<1>2. CASE ReadPayload(w)
  BY <1>2 DEF ReadPayload, Receive, noteVars
<1>3. CASE Wake(w)
  BY <1>3 DEF Wake, Receive, noteVars
<1>4. CASE LostEnds(w)
  BY <1>4 DEF LostEnds, noteVars
<1> QED
  BY <1>1, <1>2, <1>3, <1>4 DEF Reading

(* Owners stay. *)
OwnersKept == \A g \in Fds \cup {NoFd} : Owner(g)' = Owner(g)

(* Some of what a connection holds is taken. *)
LEMMA PiecesTaken ==
  ASSUME DescType, Room, pieces \in 0 .. MaxPieces, pieces' = pieces,
         NEW f \in Fds \cup {NoFd}, NEW n \in 1 .. desc[f].inbox,
         desc' = [desc EXCEPT ![f].inbox = @ - n]
  PROVE  DescType' /\ Room' /\ OwnersKept
<1> USE NumberFacts
<1>1. desc[f].inbox \in 0 .. MaxPieces /\ desc[f].inbox + pieces <= MaxPieces
  BY EntryFacts DEF Room
<1>2. desc[f].inbox # 0
  BY <1>1
<1>3. f \in Fds
  BY <1>2 DEF DescType, Closed
<1>4. PICK m \in 0 .. MaxPieces : m = desc[f].inbox - n
  BY <1>1
<1>5. desc' = [desc EXCEPT ![f].inbox = m]
  BY <1>4
<1>6. m + pieces' <= MaxPieces /\ pieces' <= pieces /\ pieces' \in Nat /\ pieces \in Nat
  BY <1>1, <1>4
<1> QED
  BY <1>3, <1>5, <1>6, InboxChange DEF OwnersKept

(* So does a recv, or it takes nothing. *)
LEMMA ReadingTakes ==
  ASSUME TypeOK, NEW w \in Workers, Reading(w)
  PROVE  \/ desc' = desc
         \/ \E f \in Fds \cup {NoFd} : \E n \in 1 .. desc[f].inbox :
              desc' = [desc EXCEPT ![f].inbox = @ - n]
<1> USE NumberFacts
<1>1. DescType /\ PoolTypes /\ task[w] \in Clients
  BY TypeParts DEF PoolTypes
<1>2. PICK f \in Fds \cup {NoFd} : f = sock[task[w]]
  BY <1>1, WhoFacts
<1>3. CASE ReadLength(w)
  <2>1. \/ desc' = desc
        \/ desc[f].inbox > 0 /\ desc' = [desc EXCEPT ![f].inbox = @ - 1]
    BY <1>2, <1>3 DEF ReadLength
  <2>2. desc[f].inbox \in Nat
    BY <1>1, EntryFacts
  <2>3. desc[f].inbox > 0 => 1 \in 1 .. desc[f].inbox
    BY <2>2
  <2> QED
    BY <2>1, <2>3
<1>4. CASE ReadPayload(w)
  BY <1>2, <1>4 DEF ReadPayload, Receive
<1>5. CASE Wake(w)
  <2>1. waits[w] \in Fds \cup {NoFd}
    BY <1>1, <1>5 DEF Wake, PoolTypes
  <2> QED
    BY <1>5, <2>1 DEF Wake, Receive
<1>6. CASE LostEnds(w)
  BY <1>6 DEF LostEnds
<1> QED
  BY <1>3, <1>4, <1>5, <1>6 DEF Reading

(* A recv keeps the table, its room and its owners, and waits on a connection. *)
LEMMA ReadingTypes ==
  ASSUME TypeOK, Room, NEW w \in Workers, Reading(w)
  PROVE  DescType' /\ Room' /\ OwnersKept /\ PoolTypes'
<1>1. DescType /\ PoolTypes /\ BoundTypes /\ task[w] \in Clients
  BY TypeParts DEF PoolTypes
<1>2. pieces' = pieces /\ UNCHANGED <<task, queue, terminate>>
  BY ReadingFrame
<1>3. DescType' /\ Room' /\ OwnersKept
  <2>1. CASE desc' = desc
    BY <1>1, <1>2, <2>1, RoomKept DEF DescType, OwnersKept, Owner
  <2>2. CASE \E f \in Fds \cup {NoFd} : \E n \in 1 .. desc[f].inbox :
               desc' = [desc EXCEPT ![f].inbox = @ - n]
    BY <1>1, <1>2, <2>2, PiecesTaken DEF BoundTypes
  <2> QED
    BY <2>1, <2>2, ReadingTakes
<1>4. waits' = waits \/ \E f \in Fds \cup {NoFd} : waits' = [waits EXCEPT ![w] = f]
  <2>1. sock[task[w]] \in Fds \cup {NoFd} /\ NoFd \in Fds \cup {NoFd}
    BY <1>1, WhoFacts
  <2> QED
    BY <2>1 DEF Reading, ReadLength, ReadPayload, Wake, LostEnds, poolVars
<1>5. PoolTypes'
  BY <1>1, <1>2, <1>4 DEF PoolTypes
<1> QED
  BY <1>3, <1>5

(* So the types stay. *)
LEMMA ReadType ==
  ASSUME TypeOK, Room, Noted, NEW w \in Workers, Reading(w) PROVE TypeOK' /\ Room'
<1>1. NoteTypes /\ PoolTypes /\ w \in Threads /\ task[w] \in Clients
  BY TypeParts DEF Threads, PoolTypes
<1>2. /\ UNCHANGED memberVars /\ UNCHANGED boundVars
      /\ UNCHANGED <<ready, relinked, wrong>>
  BY ReadingFrame DEF memberVars, boundVars
<1>3. NoteTypes'
  BY <1>1, <1>2, ReadingGoes DEF NoteTypes
<1>4. pc' \in [Threads -> PC]
  <2>1. {"handle", "idle", "check", "test", "payload", "blocked"} \subseteq PC
    BY DEF PC
  <2> QED
    BY <1>1, <2>1, ReadingGoes, GotoFacts
<1>5. DescType' /\ Room' /\ PoolTypes'
  BY ReadingTypes
<1> QED
  BY <1>2, <1>3, <1>4, <1>5, TypesKept, TypeWhole

(* The task goes back into the queue. *)
LEMMA SubmitAgainType ==
  ASSUME TypeOK, Room, Noted, NEW w \in Workers, SubmitAgain(w) PROVE TypeOK' /\ Room'
<1>1. PoolTypes /\ w \in Threads /\ task[w] \in Clients
  BY TypeParts DEF Threads, PoolTypes
<1>2. /\ UNCHANGED memberVars /\ UNCHANGED boundVars /\ UNCHANGED noteVars
      /\ UNCHANGED desc /\ UNCHANGED pieces
      /\ Submit(task[w]) /\ UNCHANGED task /\ UNCHANGED terminate /\ UNCHANGED waits
  BY DEF SubmitAgain, boundVars
<1>3. PoolTypes'
  BY <1>1, <1>2, SubmitType
<1>4. pc' \in [Threads -> PC]
  <2>1. Goto(w, "push", "idle") /\ "idle" \in PC
    BY DEF SubmitAgain, PC
  <2> QED
    BY <1>1, <2>1, GotoFacts
<1>5. Room'
  BY <1>2, RoomKept
<1> QED
  BY <1>2, <1>3, <1>4, <1>5, TypesKept, TypeWhole

(* SetHandler submits the first task. *)
LEMMA StartChainType ==
  ASSUME TypeOK, Room, Noted, NEW p \in Users, StartChain(p) PROVE TypeOK' /\ Room'
<1>1. PoolTypes /\ NoteTypes /\ p \in Threads /\ ClientOf(p) \in Clients
  BY TypeParts, WhoFacts DEF Threads
<1>2. /\ UNCHANGED memberVars /\ UNCHANGED boundVars
      /\ UNCHANGED desc /\ UNCHANGED pieces
      /\ Submit(ClientOf(p)) /\ UNCHANGED task /\ UNCHANGED terminate /\ UNCHANGED waits
      /\ ready' = ready \cup {ClientOf(p)} /\ UNCHANGED <<threw, relinked, wrong>>
  BY DEF StartChain, boundVars
<1>3. PoolTypes'
  BY <1>1, <1>2, SubmitType
<1>4. pc' \in [Threads -> PC]
  <2> DEFINE to == IF p[1] = "run" THEN "done" ELSE "loop"
  <2>1. Goto(p, "add", to) /\ to \in PC
    BY DEF StartChain, PC
  <2> QED
    BY <1>1, <2>1, GotoFacts
<1>5. Room'
  BY <1>2, RoomKept
<1>6. NoteTypes'
  BY <1>1, <1>2 DEF NoteTypes
<1> QED
  BY <1>2, <1>3, <1>4, <1>5, <1>6, TypesKept, TypeWhole

(* Disconnect sets the status. *)
LEMMA SetType ==
  ASSUME TypeOK, Room, Noted, NEW p \in Threads, SetDisconnected(p) PROVE TypeOK' /\ Room'
<1>1. MemberTypes /\ ClientOf(p) \in Clients
  BY TypeParts, WhoFacts
<1>2. /\ UNCHANGED poolVars /\ UNCHANGED boundVars /\ UNCHANGED noteVars /\ UNCHANGED desc
      /\ UNCHANGED pieces
      /\ status' = [status EXCEPT ![ClientOf(p)] = "Disconnected"] /\ UNCHANGED sock
  BY DEF SetDisconnected, boundVars
<1>3. MemberTypes'
  BY <1>1, <1>2 DEF MemberTypes, Status
<1>4. pc' \in [Threads -> PC]
  <2>1. Goto(p, "set", "close") /\ "close" \in PC
    BY DEF SetDisconnected, PC, Disconnecting
  <2> QED
    BY <2>1, GotoFacts
<1>5. Room'
  BY <1>2, RoomKept
<1> QED
  BY <1>2, <1>3, <1>4, <1>5, TypesKept, TypeWhole

(* A close, in Disconnect or after a refused connect *)
LEMMA CloseType ==
  ASSUME TypeOK, Room, Noted, NEW p \in Threads, CloseConnection(p) \/ ConnectRefused(p)
  PROVE  TypeOK' /\ Room'
<1>1. NoteTypes /\ ClientOf(p) \in Clients
  BY TypeParts, WhoFacts
<1>2. /\ UNCHANGED <<task, queue, terminate>> /\ UNCHANGED boundVars
      /\ UNCHANGED memberVars /\ UNCHANGED pieces
      /\ \E woken \in {TRUE, desc[sock[ClientOf(p)]].link = "new"} :
           CloseSocket(ClientOf(p), woken)
      /\ UNCHANGED <<ready, threw, relinked>>
  BY DEF CloseConnection, ConnectRefused, boundVars
<1>3. DescType' /\ Room' /\ wrong' \in SUBSET Clients /\ PoolTypes'
  BY <1>1, <1>2, CloseFacts
<1>4. NoteTypes'
  BY <1>1, <1>2, <1>3 DEF NoteTypes
<1>5. pc' \in [Threads -> PC]
  <2>1. \/ Goto(p, "close", AfterDisconnect(p))
        \/ Goto(p, "connect", "failed")
    BY DEF CloseConnection, ConnectRefused
  <2>2. "failed" \in PC /\ AfterDisconnect(p) \in PC
    BY DEF PC, Connecting, AfterDisconnect
  <2> QED
    BY <2>1, <2>2, GotoFacts
<1> QED
  BY <1>2, <1>3, <1>4, <1>5, TypesKept, TypeWhole

(* OpenSocket takes the lowest closed descriptor, or none. *)
LEMMA OpenCases ==
  ASSUME TypeOK, NEW p \in Users, OpenSocket(p)
  PROVE  /\ pc[p] \in {"socket", "loop"}
         /\ connects' \in 0 .. MaxConnects
         /\ relinked' = IF status[ClientOf(p)] = "Connected"
                        THEN relinked \cup {ClientOf(p)} ELSE relinked
         /\ UNCHANGED <<status, poolVars, pieces, ready, threw, wrong>>
         /\ \/ \E f \in Fds : /\ Owner(f) = Nobody
                              /\ Goto(p, pc[p], "connect")
                              /\ sock' = [sock EXCEPT ![ClientOf(p)] = f]
                              /\ desc' = [desc EXCEPT ![f].owner = ClientOf(p)]
            \/ /\ Goto(p, pc[p], "nofd")
               /\ sock' = [sock EXCEPT ![ClientOf(p)] = NoFd]
               /\ UNCHANGED desc
<1> DEFINE free == {f \in Fds : desc[f].owner = Nobody}
<1>1. connects \in 0 .. MaxConnects
  BY TypeParts DEF BoundTypes
<1>2. connects' \in 0 .. MaxConnects /\ pc[p] \in {"socket", "loop"}
  BY <1>1, NumberFacts DEF OpenSocket
<1>3. /\ relinked' = IF status[ClientOf(p)] = "Connected"
                     THEN relinked \cup {ClientOf(p)} ELSE relinked
      /\ UNCHANGED <<status, poolVars, pieces, ready, threw, wrong>>
  BY DEF OpenSocket
<1>4. \/ /\ free # {}
         /\ Goto(p, pc[p], "connect")
         /\ sock' = [sock EXCEPT ![ClientOf(p)] = Min(free)]
         /\ desc' = [desc EXCEPT ![Min(free)].owner = ClientOf(p)]
      \/ /\ Goto(p, pc[p], "nofd")
         /\ sock' = [sock EXCEPT ![ClientOf(p)] = NoFd]
         /\ UNCHANGED desc
  BY Zenon DEF OpenSocket
<1>5. CASE free # {} /\ Goto(p, pc[p], "connect")
           /\ sock' = [sock EXCEPT ![ClientOf(p)] = Min(free)]
           /\ desc' = [desc EXCEPT ![Min(free)].owner = ClientOf(p)]
  <2>1. free \subseteq Nat
    BY NumberFacts
  <2>2. PICK f \in free : f = Min(free)
    BY <1>5, <2>1, MinIn
  <2>3. f \in Fds /\ Owner(f) = Nobody
    BY <2>2 DEF Owner
  <2>4. /\ Goto(p, pc[p], "connect")
        /\ sock' = [sock EXCEPT ![ClientOf(p)] = f]
        /\ desc' = [desc EXCEPT ![f].owner = ClientOf(p)]
    BY <1>5, <2>2
  <2> QED
    BY <1>2, <1>3, <2>3, <2>4
<1>6. CASE Goto(p, pc[p], "nofd") /\ sock' = [sock EXCEPT ![ClientOf(p)] = NoFd]
           /\ UNCHANGED desc
  BY <1>2, <1>3, <1>6
<1> QED
  BY <1>4, <1>5, <1>6

(* ConnectTo takes a descriptor or finds none. *)
LEMMA OpenType ==
  ASSUME TypeOK, Room, Noted, NEW p \in Users, OpenSocket(p) PROVE TypeOK' /\ Room'
<1>1. /\ DescType /\ MemberTypes /\ NoteTypes /\ BoundTypes
      /\ p \in Threads /\ ClientOf(p) \in Clients
  BY TypeParts, WhoFacts DEF Threads
<1>2. /\ connects' \in 0 .. MaxConnects
      /\ relinked' \in SUBSET Clients
      /\ UNCHANGED status /\ UNCHANGED poolVars /\ UNCHANGED pieces
      /\ UNCHANGED <<ready, threw, wrong>>
  BY <1>1, OpenCases DEF NoteTypes
<1>3. NoteTypes' /\ BoundTypes'
  BY <1>1, <1>2 DEF NoteTypes, BoundTypes
<1>4. pc' \in [Threads -> PC]
  <2>1. Goto(p, pc[p], "connect") \/ Goto(p, pc[p], "nofd")
    BY OpenCases
  <2>2. "connect" \in PC /\ "nofd" \in PC
    BY DEF PC, Connecting
  <2> QED
    BY <1>1, <2>1, <2>2, GotoFacts
<1>5. \E f \in Fds \cup {NoFd} : sock' = [sock EXCEPT ![ClientOf(p)] = f]
  BY OpenCases
<1>6. MemberTypes'
  BY <1>1, <1>2, <1>5 DEF MemberTypes
<1>7. DescType' /\ Room'
  <2>1. CASE UNCHANGED desc
    BY <1>2, <2>1, TypesKept, RoomKept
  <2>2. CASE \E f \in Fds : desc' = [desc EXCEPT ![f].owner = ClientOf(p)]
    BY <1>1, <1>2, <2>2, OwnerChange
  <2> QED
    BY <2>1, <2>2, OpenCases
<1> QED
  BY <1>2, <1>3, <1>4, <1>6, <1>7, TypesKept, TypeWhole

(* An accepted connect changes the link of an open descriptor only. *)
LEMMA AcceptedType ==
  ASSUME TypeOK, Room, Noted, NEW p \in Users, ConnectAccepted(p)
  PROVE  /\ TypeOK' /\ Room'
         /\ \A g \in Fds \cup {NoFd} : Owner(g)' = Owner(g)
<1>1. DescType /\ p \in Threads /\ ClientOf(p) \in Clients
  BY TypeParts, WhoFacts DEF Threads
<1>2. /\ UNCHANGED poolVars /\ UNCHANGED memberVars /\ UNCHANGED boundVars /\ UNCHANGED noteVars
      /\ UNCHANGED pieces
  BY DEF ConnectAccepted, boundVars
<1>3. PICK f \in Fds \cup {NoFd} : f = sock[ClientOf(p)]
  BY <1>1, WhoFacts
<1>4. desc' = [desc EXCEPT ![f].link = "up"] /\ desc[f].owner # Nobody
  BY <1>3 DEF ConnectAccepted, Opening
<1>5. f \in Fds
  BY <1>1, <1>4 DEF DescType, Closed
<1>6. DescType' /\ Room' /\ \A g \in Fds \cup {NoFd} : Owner(g)' = Owner(g)
  BY <1>1, <1>2, <1>4, <1>5, LinkChange
<1>7. pc' \in [Threads -> PC]
  <2>1. Goto(p, "connect", "up") /\ "up" \in PC
    BY DEF ConnectAccepted, PC, Connecting
  <2> QED
    BY <1>1, <2>1, GotoFacts
<1> QED
  BY <1>2, <1>6, <1>7, TypesKept, TypeWhole

(* ConnectTo returns. *)
LEMMA EndsType ==
  ASSUME TypeOK, Room, Noted, NEW p \in Users, ConnectFails(p) \/ Connected(p)
  PROVE  TypeOK' /\ Room'
<1>1. MemberTypes /\ NoteTypes /\ p \in Threads /\ ClientOf(p) \in Clients
  BY TypeParts, WhoFacts DEF Threads
<1>2. PICK result \in Status, from \in {"up", "failed", "nofd"} :
        /\ ConnectEnds(p, from, result)
        /\ ready' = ready \/ ready' = ready \ {ClientOf(p)}
  <2>1. {"Connected", "ConnectError", "InitError"} \subseteq Status
    BY DEF Status
  <2>2. CASE Connected(p)
    <3>1. ConnectEnds(p, "up", "Connected") /\ ready' = ready \ {ClientOf(p)}
      BY <2>2 DEF Connected
    <3> QED
      BY <2>1, <3>1
  <2>3. CASE ConnectFails(p)
    <3>1. /\ ConnectEnds(p, "failed", "ConnectError") \/ ConnectEnds(p, "nofd", "InitError")
          /\ ready' = ready
      BY <2>3 DEF ConnectFails
    <3> QED
      BY <2>1, <3>1
  <2> QED
    BY <2>2, <2>3
<1>3. /\ status' = [status EXCEPT ![ClientOf(p)] = result] /\ UNCHANGED sock
      /\ UNCHANGED poolVars /\ UNCHANGED desc /\ UNCHANGED boundVars /\ UNCHANGED pieces
      /\ UNCHANGED <<threw, relinked, wrong>>
  BY <1>2 DEF ConnectEnds, boundVars
<1>4. MemberTypes'
  BY <1>1, <1>3 DEF MemberTypes
<1>5. ready' \in SUBSET Clients
  BY <1>1, <1>2 DEF NoteTypes
<1>6. NoteTypes'
  BY <1>1, <1>3, <1>5 DEF NoteTypes
<1>7. pc' \in [Threads -> PC]
  <2>1. PICK to \in AfterConnect(p, result = "Connected") : Goto(p, from, to)
    BY <1>2 DEF ConnectEnds
  <2>2. to \in PC
    BY <2>1 DEF AfterConnect, PC
  <2> QED
    BY <1>1, <2>1, <2>2, GotoFacts
<1>8. Room'
  BY <1>3, RoomKept
<1> QED
  BY <1>3, <1>4, <1>6, <1>7, <1>8, TypesKept, TypeWhole

(* The server sends a piece or ends a connection; nobody's descriptor changes hands. *)
LEMMA NetworkType ==
  ASSUME TypeOK, Room, Noted, NEW f \in Fds, Deliver(f) \/ PeerEnds(f)
  PROVE  /\ TypeOK' /\ Room'
         /\ \A g \in Fds \cup {NoFd} : Owner(g)' = Owner(g)
<1> USE NumberFacts
<1>1. DescType /\ BoundTypes /\ f \in Fds \cup {NoFd} /\ pc \in [Threads -> PC]
  BY TypeParts
<1>2. /\ UNCHANGED poolVars /\ UNCHANGED memberVars /\ UNCHANGED noteVars /\ UNCHANGED pc
      /\ UNCHANGED connects
  BY DEF Deliver, PeerEnds, boundVars
<1>3. pc' \in [Threads -> PC]
  BY <1>1, <1>2
<1>4. CASE PeerEnds(f)
  <2>1. desc' = [desc EXCEPT ![f].link = "ended"] /\ UNCHANGED boundVars /\ UNCHANGED pieces
    BY <1>4 DEF PeerEnds, boundVars
  <2>2. DescType' /\ Room' /\ \A g \in Fds \cup {NoFd} : Owner(g)' = Owner(g)
    BY <1>1, <2>1, LinkChange
  <2> QED
    BY <1>2, <1>3, <2>1, <2>2, TypesKept, TypeWhole
<1>5. CASE Deliver(f)
  <2>1. desc' = [desc EXCEPT ![f].inbox = @ + 1] /\ pieces > 0 /\ pieces' = pieces - 1
    BY <1>5 DEF Deliver
  <2>2. pieces \in Nat /\ pieces' \in Nat /\ pieces' <= pieces /\ BoundTypes'
    BY <1>1, <1>2, <2>1 DEF BoundTypes
  <2>3. desc[f].inbox + pieces <= MaxPieces /\ desc[f].inbox \in Nat
    BY <1>1, EntryFacts DEF Room
  <2>4. PICK n \in 0 .. MaxPieces : n = desc[f].inbox + 1
    BY <2>1, <2>2, <2>3
  <2>5. desc' = [desc EXCEPT ![f].inbox = n] /\ n + pieces' <= MaxPieces
    BY <2>1, <2>2, <2>3, <2>4
  <2>6. DescType' /\ Room' /\ \A g \in Fds \cup {NoFd} : Owner(g)' = Owner(g)
    BY <1>1, <2>2, <2>5, InboxChange
  <2> QED
    BY <1>2, <1>3, <2>2, <2>6, TypesKept, TypeWhole
<1> QED
  BY <1>4, <1>5

(* main destroys the pool. *)
LEMMA StopPoolType == ASSUME TypeOK, Room, Noted, StopPool PROVE TypeOK' /\ Room'
<1>1. pc \in [Threads -> PC] /\ PoolTypes
  BY TypeParts
<1>2. /\ UNCHANGED pc /\ UNCHANGED memberVars /\ UNCHANGED noteVars /\ UNCHANGED boundVars
      /\ UNCHANGED desc /\ UNCHANGED pieces /\ UNCHANGED <<task, queue, waits>>
      /\ terminate' = TRUE
  BY DEF StopPool, boundVars
<1>3. PoolTypes' /\ pc' \in [Threads -> PC]
  BY <1>1, <1>2 DEF PoolTypes
<1>4. Room'
  BY <1>2, RoomKept
<1> QED
  BY <1>2, <1>3, <1>4, TypesKept, TypeWhole

(* Every step keeps the types and the room. *)
LEMMA StepType == ASSUME TypeOK, Room, Next PROVE TypeOK' /\ Room'
<1>1. Noted
  BY DEF Next
<1>2. Workers \subseteq Threads /\ Users \subseteq Threads
  BY DEF Threads
<1>3. ASSUME NEW p \in Threads, QuietStep(p) PROVE TypeOK' /\ Room'
  BY <1>1, <1>3, QuietTypes DEF QuietStep
<1>4. ASSUME NEW w \in Workers,
             Take(w) \/ Reading(w) \/ RunHandler(w) \/ Check(w) \/ SubmitAgain(w)
      PROVE  TypeOK' /\ Room'
  BY <1>1, <1>2, <1>3, <1>4, QuietSteps, TakeType, ReadType, SubmitAgainType
<1>5. ASSUME NEW p \in Users,
             \/ RunGivesUp(p) \/ SetHandler(p) \/ StartChain(p)
             \/ OpenSocket(p) \/ ConnectAccepted(p) \/ ConnectRefused(p)
             \/ ConnectFails(p) \/ Connected(p)
      PROVE  TypeOK' /\ Room'
  BY <1>1, <1>2, <1>3, <1>5, QuietSteps, StartChainType, OpenType, AcceptedType, CloseType,
     EndsType
<1>6. ASSUME NEW p \in Threads, DisconnectStep(p) PROVE TypeOK' /\ Room'
  BY <1>1, <1>3, <1>6, QuietSteps, SetType, CloseType DEF DisconnectStep
<1>7. ASSUME StopPool PROVE TypeOK' /\ Room'
  BY <1>1, <1>7, StopPoolType
<1>8. ASSUME NEW f \in Fds, Deliver(f) \/ PeerEnds(f) PROVE TypeOK' /\ Room'
  BY <1>1, <1>8, NetworkType
<1> QED
  BY <1>4, <1>5, <1>6, <1>7, <1>8, Steps

(* Destruction is not disturbed while users and destroyers stay where they are. *)
LEMMA EndingKept ==
  ASSUME Ending, terminate' = terminate,
         \A q \in Users \cup Destroyers : pc'[q] = pc[q],
         \A c \in Clients : status'[c] = "Connected" => status[c] = "Connected"
  PROVE  Ending'
<1>1. \A c \in Clients : <<"main", c>> \in Destroyers
  BY ThreadKinds
<1>2. \A d \in Destroyers : d[2] \in Clients
  BY ThreadKinds
<1> QED
  BY <1>1, <1>2 DEF Ending, Destroyed

(* While a thread of a client runs, no client is being destroyed. *)
LEMMA UserRuns ==
  ASSUME Ending, NEW p \in Users, pc[p] # "done"
  PROVE  /\ \A d \in Destroyers : pc[d] = "wait"
         /\ ~ terminate
<1>1. \A d \in Destroyers : pc[d] = "wait"
  BY DEF Ending
<1>2. <<"main", 1>> \in Destroyers /\ 1 \in Clients
  BY ThreadKinds, NumberFacts
<1> QED
  BY <1>1, <1>2 DEF Ending, Destroyed

(* What is left of it after a step of such a thread *)
LEMMA EndingByUser ==
  ASSUME TypeOK, Ending, NEW p \in Users, NEW from, NEW to \in PC, Goto(p, from, to),
         from # "done", terminate' = terminate
  PROVE  Ending'
<1>1. p \in Threads /\ Destroyers \subseteq Threads /\ p \notin Destroyers
  BY ThreadKinds DEF Threads
<1>2. pc[p] = from /\ \A q \in Threads \ {p} : pc'[q] = pc[q]
  BY <1>1, GotoFacts
<1>3. (\A d \in Destroyers : pc[d] = "wait") /\ ~ terminate
  BY <1>2, UserRuns
<1>4. \A d \in Destroyers : pc'[d] = "wait"
  BY <1>1, <1>2, <1>3
<1> QED
  BY <1>3, <1>4 DEF Ending

(* The steps of a worker, for the others *)
LEMMA EndingByWorker ==
  ASSUME TypeOK, Ending, NEW w \in Workers, NEW from, NEW to \in PC, Goto(w, from, to),
         terminate' = terminate,
         \A c \in Clients : status'[c] = "Connected" => status[c] = "Connected"
  PROVE  Ending'
<1>1. w \in Threads /\ \A q \in Users \cup Destroyers : q \in Threads /\ q # w
  BY ThreadKinds DEF Threads
<1>2. \A q \in Users \cup Destroyers : pc'[q] = pc[q]
  BY <1>1, GotoFacts
<1> QED
  BY <1>2, EndingKept

(* The steps of main in a destructor *)
LEMMA EndingByMain ==
  ASSUME TypeOK, Ending, NEW d \in Destroyers, DisconnectStep(d) PROVE Ending'
<1>1. d \in Threads /\ d \notin Workers /\ d \notin Users /\ Destroyers \subseteq Threads
  BY ThreadKinds DEF Threads
<1>2. /\ ClientOf(d) = d[2] /\ d[2] \in Clients /\ d = <<"main", d[2]>>
      /\ \A e \in Destroyers : e # d => e[2] # d[2]
      /\ \A q \in Users : q \in Threads /\ q # d
  <2>1. \A e \in Destroyers : e = <<"main", e[2]>>
    BY ThreadKinds
  <2>2. \A e \in Destroyers : e # d => e[2] # d[2]
    BY <2>1, Zenon
  <2>3. \A q \in Users : q \in Threads /\ q # d
    BY <1>1 DEF Threads
  <2> QED
    BY <2>1, <2>2, <2>3, WhoFacts, ThreadKinds
<1>3. AfterDisconnect(d) = "done"
  BY <1>1 DEF AfterDisconnect
<1>4. PICK to \in {"set", "close", "done"}, from \in PC : Goto(d, from, to)
  <2>1. \E to \in {"set", "close", "done"} : Goto(d, pc[d], to)
    BY <1>3 DEF DisconnectStep, TestStatus, SetDisconnected, CloseConnection, Goto
  <2>2. pc[d] \in PC
    BY <1>1 DEF TypeOK
  <2> QED
    BY <2>1, <2>2
<1>5. /\ pc[d] = from /\ pc'[d] = to
      /\ \A q \in Threads \ {d} : pc'[q] = pc[q]
  <2>1. to \in PC
    BY DEF PC, Disconnecting
  <2> QED
    BY <1>1, <1>4, <2>1, GotoFacts
<1>6. /\ \A e \in Destroyers \ {d} : pc'[e] = pc[e]
      /\ \A q \in Users : pc'[q] = pc[q]
  BY <1>1, <1>2, <1>5
<1>7. from \in {"wait", "set", "close"} /\ \A u \in Users : pc[u] = "done"
  <2>1. CASE TestStatus(d)
    BY <1>1, <1>5, <2>1 DEF TestStatus, MayDisconnect
  <2>2. CASE SetDisconnected(d)
    <3>1. pc[d] = "set"
      BY <2>2 DEF SetDisconnected, Goto
    <3> QED
      BY <1>5, <3>1 DEF Ending
  <2>3. CASE CloseConnection(d)
    <3>1. pc[d] = "close"
      BY <2>3 DEF CloseConnection, Goto
    <3> QED
      BY <1>5, <3>1 DEF Ending
  <2> QED
    BY <2>1, <2>2, <2>3 DEF DisconnectStep
<1>8. ~ terminate /\ terminate' = terminate
  <2>1. pc[<<"main", d[2]>>] # "done"
    BY <1>2, <1>5, <1>7
  <2>2. terminate' = terminate
    BY DEF DisconnectStep, TestStatus, SetDisconnected, CloseConnection, poolVars
  <2> QED
    BY <1>2, <2>1, <2>2 DEF Ending, Destroyed
<1>9. status' = status \/ status' = [status EXCEPT ![d[2]] = "Disconnected"]
  BY <1>2 DEF DisconnectStep, TestStatus, SetDisconnected, CloseConnection, memberVars
<1>10. status \in [Clients -> Status]
  BY DEF TypeOK
<1>11. \A c \in Clients : status'[c] = "Connected" => status[c] = "Connected"
  BY <1>2, <1>9, <1>10
<1>12. to \in {"close", "done"} => status'[d[2]] # "Connected"
  <2>1. CASE TestStatus(d)
    <3>1. pc'[d] = IF status[d[2]] = "Connected" THEN "set" ELSE "done"
      BY <1>1, <1>2, <1>3, <2>1 DEF TestStatus, Goto, TypeOK
    <3>2. status' = status
      BY <2>1 DEF TestStatus, memberVars
    <3> QED
      BY <1>5, <3>1, <3>2
  <2>2. CASE SetDisconnected(d)
    <3>1. status' = [status EXCEPT ![d[2]] = "Disconnected"]
      BY <1>2, <2>2 DEF SetDisconnected
    <3> QED
      BY <1>2, <1>10, <3>1
  <2>3. CASE CloseConnection(d)
    <3>1. pc[d] = "close" /\ status' = status
      BY <2>3 DEF CloseConnection, Goto, memberVars
    <3> QED
      BY <1>2, <3>1 DEF Ending
  <2> QED
    BY <2>1, <2>2, <2>3 DEF DisconnectStep
<1>13. \A e \in Destroyers : pc'[e] \in {"wait", "set", "close", "done"}
  BY <1>5, <1>6 DEF Ending
<1>14. \A u \in Users : pc'[u] = "done"
  BY <1>6, <1>7
<1>15. \A e \in Destroyers : pc'[e] \in {"close", "done"} => status'[e[2]] # "Connected"
  <2> TAKE e \in Destroyers
  <2>1. CASE e = d
    BY <1>5, <1>12, <2>1
  <2>2. CASE e # d
    <3>1. pc'[e] = pc[e] /\ e[2] \in Clients
      BY <1>6, <2>2, ThreadKinds
    <3>2. pc[e] \in {"close", "done"} => status[e[2]] # "Connected"
      BY DEF Ending
    <3> QED
      BY <1>11, <3>1, <3>2
  <2> QED
    BY <2>1, <2>2
<1> QED
  BY <1>8, <1>13, <1>14, <1>15 DEF Ending

(* The steps of a worker and of a user, for the destructors *)
Lowered == \A c \in Clients : status'[c] = "Connected" => status[c] = "Connected"

(* A worker's step lowers a status at most. *)
LEMMA WorkerGoes ==
  ASSUME TypeOK, NEW w \in Workers,
         \/ Take(w) \/ Reading(w) \/ RunHandler(w) \/ Check(w) \/ SubmitAgain(w)
         \/ DisconnectStep(w)
  PROVE  /\ terminate' = terminate /\ Lowered
         /\ \E from \in PC, to \in PC : Goto(w, from, to)
<1>1. w \in Threads
  BY DEF Threads
<1>2. ASSUME QuietStep(w)
      PROVE  /\ terminate' = terminate /\ Lowered
             /\ \E from \in PC, to \in PC : Goto(w, from, to)
  <2>1. terminate' = terminate /\ status' = status
    BY <1>2 DEF QuietStep, Quiet, poolVars, memberVars
  <2>2. \E from \in PC, to \in PC : Goto(w, from, to)
    BY <1>2, Zenon DEF QuietStep
  <2> QED
    BY <2>1, <2>2 DEF Lowered
<1>3. CASE RunHandler(w) \/ TestStatus(w) \/ Check(w)
  BY <1>1, <1>2, <1>3, QuietSteps
<1>4. CASE Take(w)
  <2>1. terminate' = terminate /\ status' = status
    BY <1>4 DEF Take, memberVars
  <2>2. Goto(w, "idle", "read") \/ Goto(w, "idle", "check")
    BY <1>4 DEF Take
  <2> QED
    BY <2>1, <2>2 DEF Lowered, PC
<1>5. CASE Reading(w)
  <2>1. terminate' = terminate /\ status' = status
    BY <1>5, ReadingFrame
  <2>2. \E from \in {"read", "payload", "blocked"},
           to \in {"handle", "idle", "check", "test", "payload", "blocked"} : Goto(w, from, to)
    BY <1>5, ReadingGoes
  <2> QED
    BY <2>1, <2>2 DEF Lowered, PC
<1>6. CASE SubmitAgain(w)
  <2>1. terminate' = terminate /\ status' = status /\ Goto(w, "push", "idle")
    BY <1>6 DEF SubmitAgain, memberVars
  <2> QED
    BY <2>1 DEF Lowered, PC
<1>7. CASE SetDisconnected(w)
  <2>1. /\ terminate' = terminate /\ status' = [status EXCEPT ![ClientOf(w)] = "Disconnected"]
        /\ Goto(w, "set", "close")
    BY <1>7 DEF SetDisconnected, poolVars
  <2>2. status \in [Clients -> Status]
    BY DEF TypeOK
  <2>3. Lowered
    BY <2>1, <2>2 DEF Lowered
  <2> QED
    BY <2>1, <2>3 DEF PC, Disconnecting
<1>8. CASE CloseConnection(w)
  <2>1. terminate' = terminate /\ status' = status /\ Goto(w, "close", "check")
    BY <1>8 DEF CloseConnection, poolVars, memberVars, AfterDisconnect
  <2> QED
    BY <2>1 DEF Lowered, PC, Disconnecting
<1> QED
  BY <1>3, <1>4, <1>5, <1>6, <1>7, <1>8 DEF DisconnectStep

(* A user that takes a step has not ended. *)
LEMMA UserGoes ==
  ASSUME TypeOK, NEW p \in Users,
         \/ RunGivesUp(p) \/ SetHandler(p) \/ StartChain(p)
         \/ OpenSocket(p) \/ ConnectAccepted(p) \/ ConnectRefused(p)
         \/ ConnectFails(p) \/ Connected(p) \/ DisconnectStep(p)
  PROVE  /\ terminate' = terminate
         /\ \E from \in PC \ {"done"}, to \in PC : Goto(p, from, to)
<1>1. p \in Threads /\ p \notin Workers /\ p \notin Destroyers
  BY ThreadKinds DEF Threads
<1>2. terminate' = terminate
  BY DEF RunGivesUp, SetHandler, StartChain, OpenSocket, ConnectAccepted, ConnectRefused,
         ConnectFails, Connected, ConnectEnds, DisconnectStep, TestStatus, SetDisconnected,
         CloseConnection, poolVars
<1>3. CASE RunGivesUp(p) \/ SetHandler(p) \/ StartChain(p)
  <2>1. Goto(p, "socket", "done") \/ Goto(p, "handler", "add") \/ Goto(p, "add", "done")
          \/ Goto(p, "add", "loop")
    BY <1>3 DEF RunGivesUp, SetHandler, StartChain
  <2> QED
    BY <1>2, <2>1 DEF PC
<1>4. CASE OpenSocket(p)
  <2>1. pc[p] \in {"socket", "loop"} /\ (Goto(p, pc[p], "connect") \/ Goto(p, pc[p], "nofd"))
    BY <1>4, OpenCases
  <2> QED
    BY <1>2, <2>1 DEF PC, Connecting
<1>5. CASE ConnectAccepted(p) \/ ConnectRefused(p)
  <2>1. Goto(p, "connect", "up") \/ Goto(p, "connect", "failed")
    BY <1>5 DEF ConnectAccepted, ConnectRefused
  <2> QED
    BY <1>2, <2>1 DEF PC, Connecting
<1>6. CASE ConnectFails(p) \/ Connected(p)
  <2>1. \E from \in {"up", "failed", "nofd"}, to \in {"loop", "handler", "done", "exit"} :
          Goto(p, from, to)
    BY <1>6 DEF ConnectFails, Connected, ConnectEnds, AfterConnect
  <2> QED
    BY <1>2, <2>1 DEF PC, Connecting
<1>7. CASE DisconnectStep(p)
  <2>1. CASE TestStatus(p)
    <3>1. pc[p] = "loop"
      BY <1>1, <2>1 DEF TestStatus, MayDisconnect
    <3>2. Goto(p, "loop", "set") \/ Goto(p, "loop", "done")
      BY <1>1, <2>1, <3>1 DEF TestStatus, AfterDisconnect
    <3> QED
      BY <1>2, <3>2 DEF PC, Disconnecting
  <2>2. CASE SetDisconnected(p) \/ CloseConnection(p)
    <3>1. Goto(p, "set", "close") \/ Goto(p, "close", "done")
      BY <1>1, <2>2 DEF SetDisconnected, CloseConnection, AfterDisconnect
    <3> QED
      BY <1>2, <3>1 DEF PC, Disconnecting
  <2> QED
    BY <1>7, <2>1, <2>2 DEF DisconnectStep
<1> QED
  BY <1>3, <1>4, <1>5, <1>6, <1>7

(* Every step keeps the order of the destructors. *)
LEMMA StepEnding == ASSUME TypeOK, Ending, Next PROVE Ending'
<1>1. ASSUME NEW w \in Workers,
             \/ Take(w) \/ Reading(w) \/ RunHandler(w) \/ Check(w) \/ SubmitAgain(w)
             \/ DisconnectStep(w)
      PROVE  Ending'
  <2>1. /\ terminate' = terminate /\ Lowered
        /\ \E from \in PC, to \in PC : Goto(w, from, to)
    BY <1>1, WorkerGoes
  <2> QED
    BY <2>1, EndingByWorker DEF Lowered
<1>2. ASSUME NEW p \in Users,
             \/ RunGivesUp(p) \/ SetHandler(p) \/ StartChain(p)
             \/ OpenSocket(p) \/ ConnectAccepted(p) \/ ConnectRefused(p)
             \/ ConnectFails(p) \/ Connected(p) \/ DisconnectStep(p)
      PROVE  Ending'
  <2>1. /\ terminate' = terminate
        /\ \E from \in PC \ {"done"}, to \in PC : Goto(p, from, to)
    BY <1>2, UserGoes
  <2> QED
    BY <2>1, EndingByUser
<1>3. ASSUME NEW p \in Threads, DisconnectStep(p) PROVE Ending'
  BY <1>1, <1>2, <1>3, EndingByMain DEF Threads
<1>4. ASSUME StopPool PROVE Ending'
  <2>1. /\ \A c \in Clients : Destroyed(c)
        /\ UNCHANGED pc /\ UNCHANGED status
    BY <1>4 DEF StopPool, memberVars
  <2> QED
    BY <2>1 DEF Ending, Destroyed
<1>5. ASSUME NEW f \in Fds, Deliver(f) \/ PeerEnds(f) PROVE Ending'
  <2>1. UNCHANGED pc /\ UNCHANGED status /\ UNCHANGED terminate
    BY <1>5 DEF Deliver, PeerEnds, memberVars, poolVars
  <2> QED
    BY <2>1 DEF Ending, Destroyed
<1> QED
  BY <1>1, <1>2, <1>3, <1>4, <1>5, Steps

(* A client has a reader: a task in the queue or in a worker's hands. *)
Queued(c) == \E i \in DOMAIN queue : queue[i] = c
InHand(c) == \E w \in Workers : pc[w] # "idle" /\ task[w] = c
Wanted(c) == status[c] = "Connected" /\ c \in ready \ threw

(* ReadyHasReader in these words, before and after a step *)
LEMMA ReaderMeans ==
  /\ ReadyHasReader <=> \A c \in Clients : Wanted(c) => Queued(c) \/ InHand(c)
  /\ ReadyHasReader' <=> \A c \in Clients : Wanted(c)' => Queued(c)' \/ InHand(c)'
<1>1. \A c \in Clients : Chains(c) # {} <=> Queued(c) \/ InHand(c)
  BY DEF Chains, Queued, InHand
<1>2. \A c \in Clients : Chains(c)' # {} <=> Queued(c)' \/ InHand(c)'
  BY DEF Chains, Queued, InHand
<1> QED
  BY <1>1, <1>2 DEF ReadyHasReader, Wanted

(* It keeps the readers that the clients that still want one have. *)
LEMMA ReaderKept ==
  ASSUME ReadyHasReader,
         \A c \in Clients : Wanted(c)' => Wanted(c),
         \A c \in Clients : Wanted(c)' /\ Queued(c) => Queued(c)' \/ InHand(c)',
         \A c \in Clients : Wanted(c)' /\ InHand(c) => Queued(c)' \/ InHand(c)'
  PROVE  ReadyHasReader'
BY ReaderMeans, Zenon

(* A submitted task is queued unless the pool stops. *)
LEMMA SubmitQueues ==
  ASSUME PoolTypes, NEW c \in Clients, Submit(c)
  PROVE  /\ \A d \in Clients : Queued(d) => Queued(d)'
         /\ ~ terminate => Queued(c)'
<1>1. queue \in Seq(Clients)
  BY DEF PoolTypes
<1>2. CASE terminate
  BY <1>2 DEF Submit, Queued
<1>3. CASE ~ terminate
  <2>1. queue' = Append(queue, c)
    BY <1>3 DEF Submit
  <2>2. Len(queue) + 1 \in DOMAIN queue' /\ queue'[Len(queue) + 1] = c
    BY <1>1, <2>1
  <2>3. \A i \in DOMAIN queue : i \in DOMAIN queue' /\ queue'[i] = queue[i]
    BY <1>1, <2>1
  <2> QED
    BY <2>2, <2>3 DEF Queued
<1> QED
  BY <1>2, <1>3

(* A step of a thread that stays out of "idle", or is not a worker *)
LEMMA InHandKept ==
  ASSUME TypeOK, NEW p \in Threads, NEW from, NEW to \in PC, Goto(p, from, to),
         task' = task, p \in Workers => to # "idle"
  PROVE  \A c \in Clients : InHand(c) => InHand(c)'
<1>1. pc'[p] = to /\ \A q \in Threads \ {p} : pc'[q] = pc[q]
  BY GotoFacts
<1>2. \A w \in Workers : w \in Threads /\ (pc[w] # "idle" => pc'[w] # "idle")
  BY <1>1 DEF Threads
<1> QED
  BY <1>2 DEF InHand

(* ... and one of a worker that ends the chain in its hands *)
LEMMA InHandButFor ==
  ASSUME TypeOK, NEW w \in Workers, NEW from, NEW to \in PC, Goto(w, from, to), task' = task
  PROVE  \A c \in Clients : c # task[w] /\ InHand(c) => InHand(c)'
<1>1. w \in Threads /\ \A q \in Threads \ {w} : pc'[q] = pc[q]
  BY GotoFacts DEF Threads
<1>2. \A v \in Workers \ {w} : v \in Threads /\ pc'[v] = pc[v]
  BY <1>1 DEF Threads
<1> QED
  BY <1>2 DEF InHand

(* The steps that leave the queue alone, and a client that wants a reader  *)
(* only if it did before *)
LEMMA ReaderByGoto ==
  ASSUME TypeOK, ReadyHasReader, NEW p \in Threads, NEW from, NEW to \in PC, Goto(p, from, to),
         task' = task, queue' = queue, p \in Workers => to # "idle",
         \A c \in Clients : Wanted(c)' => Wanted(c)
  PROVE  ReadyHasReader'
<1>1. \A c \in Clients : InHand(c) => InHand(c)'
  BY InHandKept
<1>2. \A c \in Clients : Queued(c) => Queued(c)'
  BY DEF Queued
<1> QED
  BY <1>1, <1>2, ReaderKept

(* ... and those that end the chain of the client of worker w *)
LEMMA ReaderByEnd ==
  ASSUME TypeOK, ReadyHasReader, NEW w \in Workers, NEW from, NEW to \in PC, Goto(w, from, to),
         task' = task, queue' = queue,
         \A c \in Clients : Wanted(c)' => Wanted(c) /\ c # task[w]
  PROVE  ReadyHasReader'
<1>1. \A c \in Clients : c # task[w] /\ InHand(c) => InHand(c)'
  BY InHandButFor
<1>2. \A c \in Clients : Queued(c) => Queued(c)'
  BY DEF Queued
<1> QED
  BY <1>1, <1>2, ReaderKept

(* A task moves from the queue into a worker's hands. *)
LEMMA TakeReader ==
  ASSUME TypeOK, ReadyHasReader, NEW w \in Workers, Take(w) PROVE ReadyHasReader'
<1>1. PoolTypes /\ queue # <<>> /\ w \in Threads
  BY TypeParts DEF Take, Threads
<1>2. queue \in Seq(Clients) /\ task \in [Workers -> Clients]
  BY <1>1 DEF PoolTypes
<1>3. /\ task' = [task EXCEPT ![w] = Head(queue)] /\ queue' = Tail(queue)
      /\ UNCHANGED <<status, ready, threw>>
  BY DEF Take, memberVars, noteVars
<1>4. PICK to \in {"read", "check"} : Goto(w, "idle", to)
  BY DEF Take
<1>5. pc[w] = "idle" /\ pc'[w] # "idle" /\ \A q \in Threads \ {w} : pc'[q] = pc[q]
  <2>1. to \in PC
    BY DEF PC
  <2> QED
    BY <1>1, <1>4, <2>1, GotoFacts
<1>6. task'[w] = queue[1] /\ \A v \in Workers \ {w} : task'[v] = task[v] /\ v \in Threads
  BY <1>1, <1>2, <1>3, HeadFacts DEF Threads
<1>7. ASSUME NEW c \in Clients, Queued(c) PROVE Queued(c)' \/ InHand(c)'
  <2>1. PICK i \in DOMAIN queue : queue[i] = c
    BY <1>7 DEF Queued
  <2>2. CASE i = 1
    BY <1>5, <1>6, <2>1, <2>2 DEF InHand
  <2>3. CASE i # 1
    <3>1. i - 1 \in DOMAIN queue' /\ queue'[i - 1] = c
      BY <1>1, <1>2, <1>3, <2>1, <2>3
    <3> QED
      BY <3>1 DEF Queued
  <2> QED
    BY <2>2, <2>3
<1>8. ASSUME NEW c \in Clients, InHand(c) PROVE InHand(c)'
  <2>1. PICK v \in Workers : pc[v] # "idle" /\ task[v] = c
    BY <1>8 DEF InHand
  <2>2. v \in Threads /\ v # w
    BY <1>5, <2>1 DEF Threads
  <2> QED
    BY <1>5, <1>6, <2>1, <2>2 DEF InHand
<1>9. \A c \in Clients : Wanted(c)' => Wanted(c)
  BY <1>3 DEF Wanted
<1> QED
  BY <1>7, <1>8, <1>9, ReaderKept

(* The task is back in the queue: the pool accepts it as long as anybody   *)
(* is connected. *)
LEMMA SubmitAgainReader ==
  ASSUME TypeOK, Ending, ReadyHasReader, NEW w \in Workers, SubmitAgain(w)
  PROVE  ReadyHasReader'
<1>1. PoolTypes /\ w \in Threads /\ task[w] \in Clients
  BY TypeParts DEF Threads, PoolTypes
<1>2. /\ Goto(w, "push", "idle") /\ "idle" \in PC /\ task' = task /\ Submit(task[w])
      /\ UNCHANGED <<status, ready, threw>>
  BY DEF SubmitAgain, PC, memberVars, noteVars
<1>3. \A c \in Clients : c # task[w] /\ InHand(c) => InHand(c)'
  BY <1>2, InHandButFor
<1>4. \A c \in Clients : Wanted(c)' => Wanted(c)
  BY <1>2 DEF Wanted
<1>5. \A c \in Clients : Wanted(c) => ~ terminate
  <2>1. \A d \in Clients : <<"main", d>> \in Destroyers /\ <<"main", d>>[2] = d
    BY ThreadKinds
  <2>2. \A d \in Clients : Destroyed(d) => status[d] # "Connected"
    BY <2>1 DEF Ending, Destroyed
  <2> QED
    BY <2>2 DEF Ending, Wanted
<1>6. PICK d \in Clients : d = task[w]
  BY <1>1
<1>7. /\ \A c \in Clients : Queued(c) => Queued(c)'
      /\ ~ terminate => Queued(d)'
  BY <1>1, <1>2, <1>6, SubmitQueues
<1>8. ASSUME NEW c \in Clients, Wanted(c)', InHand(c) PROVE Queued(c)' \/ InHand(c)'
  BY <1>3, <1>4, <1>5, <1>6, <1>7, <1>8, Zenon
<1> QED
  BY <1>4, <1>7, <1>8, ReaderKept

(* SetHandler makes the client want a reader, and gives it one: the pool still runs. *)
LEMMA StartChainReader ==
  ASSUME TypeOK, Ending, ReadyHasReader, NEW p \in Users, StartChain(p)
  PROVE  ReadyHasReader'
<1>1. PoolTypes /\ p \in Threads /\ p \notin Workers
  BY TypeParts, WhoFacts, ThreadKinds DEF Threads
<1>2. PICK d \in Clients : d = ClientOf(p)
  BY <1>1, WhoFacts
<1>3. /\ task' = task /\ Submit(d) /\ UNCHANGED <<status, threw>>
      /\ ready' = ready \cup {d}
      /\ Goto(p, "add", "done") \/ Goto(p, "add", "loop")
  BY <1>2 DEF StartChain, memberVars
<1>4. "done" \in PC /\ "loop" \in PC
  BY DEF PC
<1>5. \A c \in Clients : InHand(c) => InHand(c)'
  BY <1>1, <1>3, <1>4, InHandKept
<1>6. ~ terminate
  <2>1. pc[p] # "done"
    BY <1>3 DEF Goto
  <2> QED
    BY <2>1, UserRuns
<1>7. (\A c \in Clients : Queued(c) => Queued(c)') /\ Queued(d)'
  BY <1>1, <1>3, <1>6, SubmitQueues
<1>8. \A c \in Clients : Wanted(c)' => Wanted(c) \/ c = d
  BY <1>3 DEF Wanted
<1> QED
  BY <1>5, <1>7, <1>8, ReaderMeans

(* Nobody wants a reader who did not before. *)
LEMMA WantKept ==
  ASSUME UNCHANGED ready, UNCHANGED threw, Lowered
  PROVE  \A c \in Clients : Wanted(c)' => Wanted(c)
BY DEF Wanted, Lowered

(* A worker ends a chain only for a client that is not connected, or by an exception. *)
LEMMA WorkerReader ==
  ASSUME TypeOK, ReadyHasReader, NEW w \in Workers, Reading(w) \/ RunHandler(w) \/ Check(w)
  PROVE  ReadyHasReader'
<1>1. /\ w \in Threads /\ task[w] \in Clients
      /\ {"handle", "check", "test", "push", "idle", "payload", "blocked"} \subseteq PC
  BY TypeParts DEF Threads, PoolTypes, PC
<1>2. task' = task /\ queue' = queue /\ status' = status /\ ready' = ready
  BY ReadingFrame DEF RunHandler, Check, poolVars, memberVars, noteVars
<1>3. CASE RunHandler(w)
  <2>1. Goto(w, "handle", "check") /\ threw' = threw
    BY <1>3 DEF RunHandler, noteVars
  <2>2. \A c \in Clients : Wanted(c)' => Wanted(c)
    BY <1>2, <2>1 DEF Wanted
  <2> QED
    BY <1>1, <1>2, <2>1, <2>2, ReaderByGoto
<1>4. CASE Check(w)
  <2>1. threw' = threw
    BY <1>4 DEF Check, noteVars
  <2>2. \A c \in Clients : Wanted(c)' => Wanted(c)
    BY <1>2, <2>1 DEF Wanted
  <2>3. CASE status[task[w]] = "Connected"
    <3>1. Goto(w, "check", "push")
      BY <1>4, <2>3 DEF Check, AfterCheck
    <3> QED
      BY <1>1, <1>2, <2>2, <3>1, ReaderByGoto
  <2>4. CASE status[task[w]] # "Connected"
    <3>1. Goto(w, "check", "idle")
      BY <1>4, <2>4 DEF Check, AfterCheck
    <3>2. \A c \in Clients : Wanted(c)' => c # task[w]
      BY <1>2, <2>4 DEF Wanted
    <3> QED
      BY <1>1, <1>2, <2>2, <3>1, <3>2, ReaderByEnd
  <2> QED
    BY <2>3, <2>4
<1>5. CASE Reading(w)
  <2> DEFINE GoesOn == \E from \in {"read", "payload", "blocked"},
                          to \in {"check", "test", "payload", "blocked", "handle"} :
                         Goto(w, from, to)
  <2>1. \/ threw' = threw /\ GoesOn
        \/ threw' = threw \cup {task[w]} /\ Goto(w, "read", "idle")
    BY <1>5, ReadingGoes
  <2>2. CASE threw' = threw /\ GoesOn
    <3>1. \A c \in Clients : Wanted(c)' => Wanted(c)
      BY <1>2, <2>2 DEF Wanted
    <3> QED
      BY <1>1, <1>2, <2>2, <3>1, ReaderByGoto
  <2>3. CASE threw' = threw \cup {task[w]} /\ Goto(w, "read", "idle")
    <3>1. \A c \in Clients : Wanted(c)' => Wanted(c) /\ c # task[w]
      BY <1>2, <2>3 DEF Wanted
    <3> QED
      BY <1>1, <1>2, <2>3, <3>1, ReaderByEnd
  <2> QED
    BY <2>1, <2>2, <2>3
<1> QED
  BY <1>3, <1>4, <1>5

(* Disconnect makes nobody want a reader. *)
LEMMA DisconnectReader ==
  ASSUME TypeOK, ReadyHasReader, NEW p \in Threads, DisconnectStep(p) PROVE ReadyHasReader'
<1>1. /\ task' = task /\ queue' = queue /\ UNCHANGED <<ready, threw>>
      /\ status' = status \/ status' = [status EXCEPT ![ClientOf(p)] = "Disconnected"]
  BY DEF DisconnectStep, TestStatus, SetDisconnected, CloseConnection, poolVars, memberVars,
         noteVars
<1>2. Lowered
  BY <1>1 DEF Lowered, TypeOK
<1>3. \A c \in Clients : Wanted(c)' => Wanted(c)
  BY <1>1, <1>2, WantKept
<1>4. PICK to \in {"set", "close", "check", "done"}, from \in {pc[p], "set", "close"} :
        Goto(p, from, to)
  <2>1. AfterDisconnect(p) \in {"check", "done"}
    BY DEF AfterDisconnect
  <2>2. CASE TestStatus(p)
    <3>1. Goto(p, pc[p], "set") \/ Goto(p, pc[p], AfterDisconnect(p))
      BY <2>2 DEF TestStatus
    <3> QED
      BY <2>1, <3>1
  <2>3. CASE SetDisconnected(p) \/ CloseConnection(p)
    <3>1. Goto(p, "set", "close") \/ Goto(p, "close", AfterDisconnect(p))
      BY <2>3 DEF SetDisconnected, CloseConnection
    <3> QED
      BY <2>1, <3>1
  <2> QED
    BY <2>2, <2>3 DEF DisconnectStep
<1>5. to \in PC /\ to # "idle"
  BY DEF PC, Disconnecting
<1> QED
  BY <1>1, <1>3, <1>4, <1>5, ReaderByGoto

(* Neither does ConnectTo: the handler has to be set again. *)
LEMMA UserReader ==
  ASSUME TypeOK, ReadyHasReader, NEW p \in Users,
         \/ RunGivesUp(p) \/ SetHandler(p) \/ OpenSocket(p) \/ ConnectAccepted(p)
         \/ ConnectRefused(p) \/ ConnectFails(p) \/ Connected(p)
  PROVE  ReadyHasReader'
<1>1. p \in Threads /\ p \notin Workers /\ ClientOf(p) \in Clients
  BY WhoFacts, ThreadKinds DEF Threads
<1>2. task' = task /\ queue' = queue /\ threw' = threw
  BY DEF RunGivesUp, SetHandler, OpenSocket, ConnectAccepted, ConnectRefused, ConnectFails,
         Connected, ConnectEnds, poolVars, noteVars
<1>3. \E from \in PC, to \in PC : Goto(p, from, to)
  BY UserGoes
<1>4. \A c \in Clients : Wanted(c)' => Wanted(c)
  <2>1. CASE \/ RunGivesUp(p) \/ SetHandler(p) \/ OpenSocket(p) \/ ConnectAccepted(p)
             \/ ConnectRefused(p)
    <3>1. status' = status /\ ready' = ready
      BY <2>1 DEF RunGivesUp, SetHandler, OpenSocket, ConnectAccepted, ConnectRefused,
                  memberVars, noteVars
    <3> QED
      BY <1>2, <3>1 DEF Wanted
  <2>2. CASE ConnectFails(p)
    <3>1. ready' = ready /\ \E s \in {"ConnectError", "InitError"} :
                              status' = [status EXCEPT ![ClientOf(p)] = s]
      BY <2>2 DEF ConnectFails, ConnectEnds
    <3> QED
      BY <1>2, <3>1 DEF Wanted, TypeOK
  <2>3. CASE Connected(p)
    <3>1. /\ ready' = ready \ {ClientOf(p)}
          /\ status' = [status EXCEPT ![ClientOf(p)] = "Connected"]
      BY <2>3 DEF Connected, ConnectEnds
    <3> QED
      BY <1>2, <3>1 DEF Wanted, TypeOK
  <2> QED
    BY <2>1, <2>2, <2>3
<1> QED
  BY <1>1, <1>2, <1>3, <1>4, ReaderByGoto

(* Every step keeps the readers of the clients that want one. *)
LEMMA StepReader == ASSUME TypeOK, Ending, ReadyHasReader, Next PROVE ReadyHasReader'
<1>1. ASSUME UNCHANGED <<pc, task, queue, status, ready, threw>> PROVE ReadyHasReader'
  <2>1. \A c \in Clients : /\ Wanted(c)' => Wanted(c)
                           /\ Queued(c) => Queued(c)'
                           /\ InHand(c) => InHand(c)'
    BY <1>1 DEF Wanted, Queued, InHand
  <2> QED
    BY <2>1, ReaderKept
<1>2. ASSUME NEW w \in Workers,
             Take(w) \/ Reading(w) \/ RunHandler(w) \/ Check(w) \/ SubmitAgain(w)
      PROVE  ReadyHasReader'
  BY <1>2, TakeReader, WorkerReader, SubmitAgainReader
<1>3. ASSUME NEW p \in Users,
             \/ RunGivesUp(p) \/ SetHandler(p) \/ StartChain(p)
             \/ OpenSocket(p) \/ ConnectAccepted(p) \/ ConnectRefused(p)
             \/ ConnectFails(p) \/ Connected(p)
      PROVE  ReadyHasReader'
  BY <1>3, UserReader, StartChainReader
<1>4. ASSUME NEW p \in Threads, DisconnectStep(p) PROVE ReadyHasReader'
  BY <1>4, DisconnectReader
<1>5. ASSUME StopPool PROVE ReadyHasReader'
  BY <1>1, <1>5 DEF StopPool, memberVars, noteVars
<1>6. ASSUME NEW f \in Fds, Deliver(f) \/ PeerEnds(f) PROVE ReadyHasReader'
  BY <1>1, <1>6 DEF Deliver, PeerEnds, memberVars, noteVars, poolVars
<1> QED
  BY <1>2, <1>3, <1>4, <1>5, <1>6, Steps

(* The step of one thread p, for client c: the others stay where they are. *)
Moves(p, c, from, to) ==
  /\ pc[p] = from /\ pc'[p] = to /\ ClientOf(p)' = c
  /\ \A q \in Threads \ {p} : pc'[q] = pc[q] /\ ClientOf(q)' = ClientOf(q)

(* A step that leaves the tasks where they are is such a step. *)
LEMMA MoveFacts ==
  ASSUME TypeOK, NEW p \in Threads, NEW from, NEW to \in PC, Goto(p, from, to), task' = task,
         NEW c, ClientOf(p) = c
  PROVE  Moves(p, c, from, to)
<1>1. \A q \in Threads : ClientOf(q)' = ClientOf(q)
  BY DEF ClientOf
<1>2. pc[p] = from /\ pc'[p] = to /\ \A q \in Threads \ {p} : pc'[q] = pc[q]
  BY GotoFacts
<1> QED
  BY <1>1, <1>2 DEF Moves

(* What Noted says of a step after which no calls have overlapped *)
LEMMA StillApart ==
  ASSUME Noted, ~ overlap', TypeOK' PROVE ~ overlap /\ Apart'
<1>1. ~ overlap /\ ~ Overlapping'
  BY Zenon DEF Noted
<1>2. \A p \in Threads : ClientOf(p)' \in Clients
  <2>1. task' \in [Workers -> Clients]
    BY DEF TypeOK
  <2> QED
    BY <2>1, ThreadKinds DEF Threads, ClientOf
<1>3. ASSUME NEW p \in Threads, NEW q \in Threads, pc'[p] \in Busy, pc'[q] \in Busy,
             ClientOf(p)' = ClientOf(q)', p # q
      PROVE  FALSE
  <2>1. PICK c \in Clients : c = ClientOf(p)'
    BY <1>2
  <2>2. Inside(p, c)' /\ Inside(q, c)'
    BY <1>3, <2>1 DEF Inside, Busy
  <2> QED
    BY <1>1, <1>3, <2>2, Zenon DEF Overlapping
<1> QED
  BY <1>1, <1>3 DEF Apart

(* Owners stay, status and descriptors of the clients stay. *)
QuietEffect == UNCHANGED <<status, sock, wrong, relinked>> /\ OwnersKept

(* The threads in a call, of which an effect may speak *)
Inner == {"connect", "up", "close"}

(* A step outside of the calls, or one that enters Disconnect with the status Connected *)
LEMMA QuietGood ==
  ASSUME TypeOK, Good, Apart', QuietEffect,
         NEW p \in Threads, NEW c \in Clients, NEW from, NEW to,
         Moves(p, c, from, to), from \notin Busy,
         to \notin Busy \/ (to = "set" /\ status[c] = "Connected")
  PROVE  Good'
<1> USE DEF Busy, Connecting, Disconnecting
<1>1. \A q \in Threads : ClientOf(q) \in Clients
  BY WhoFacts
<1>2. \A d \in Clients : sock[d] \in Fds \cup {NoFd}
  BY WhoFacts
<1>3. /\ \A d \in Clients : sock'[d] = sock[d] /\ status'[d] = status[d]
      /\ \A g \in Fds \cup {NoFd} : Owner(g)' = Owner(g)
      /\ wrong' = {} /\ relinked' = relinked
  BY DEF QuietEffect, OwnersKept, Good
<1>4. /\ pc[p] = from /\ pc'[p] = to /\ ClientOf(p)' = c
      /\ \A q \in Threads \ {p} : pc'[q] = pc[q] /\ ClientOf(q)' = ClientOf(q)
  BY DEF Moves
<1>5. Linked'
  <2> SUFFICES ASSUME NEW d \in Clients, status'[d] = "Connected",
                      \A q \in Threads : ClientOf(q)' = d => pc'[q] \notin Connecting
               PROVE  Owner(sock[d])' = d
    BY DEF Linked, LinkedTo, Owner
  <2>1. \A q \in Threads : ClientOf(q) = d => pc[q] \notin Connecting
    BY <1>4
  <2>2. Owner(sock[d]) = d
    BY <1>3, <2>1 DEF Good, Linked, LinkedTo
  <2>3. PICK g \in Fds \cup {NoFd} : g = sock[d]
    BY <1>2
  <2> QED
    BY <1>3, <2>2, <2>3
<1>6. Accounted'
  <2> SUFFICES ASSUME NEW f \in Fds PROVE Owner(f)' = Nobody \/ Owner(f)' \in relinked'
                                            \/ (sock'[Owner(f)'] = f /\ Known(f)')
    BY DEF Accounted, AccountedFor
  <2>1. Owner(f)' = Owner(f) /\ relinked' = relinked
    BY <1>3
  <2>2. CASE Owner(f) = Nobody \/ Owner(f) \in relinked
    BY <2>1, <2>2
  <2>3. CASE sock[Owner(f)] = f /\ Known(f)
    <3>1. sock'[Owner(f)'] = f
      BY <2>1, <2>3 DEF QuietEffect
    <3>2. CASE status[Owner(f)] = "Connected"
      BY <2>1, <3>1, <3>2 DEF QuietEffect, Known
    <3>3. CASE \E q \in Threads : ClientOf(q) = Owner(f) /\ pc[q] \in Inner
      <4>1. PICK q \in Threads : ClientOf(q) = Owner(f) /\ pc[q] \in Inner
        BY <3>3
      <4>2. q # p
        BY <1>4, <4>1 DEF Inner
      <4>3. ClientOf(q)' = Owner(f)' /\ pc'[q] \in Inner
        BY <1>4, <2>1, <4>1, <4>2
      <4> QED
        BY <3>1, <4>3 DEF Known, Inner
    <3> QED
      BY <2>3, <3>2, <3>3 DEF Known, Inner
  <2> QED
    BY <2>2, <2>3 DEF Good, Accounted, AccountedFor
<1>7. Holding'
  <2>1. ASSUME NEW q \in Threads
        PROVE  /\ pc'[q] \in {"connect", "up", "set", "close"} =>
                    Owner(sock[ClientOf(q)])' = ClientOf(q)'
               /\ pc'[q] \in {"failed", "nofd"} => Owner(sock[ClientOf(q)])' # ClientOf(q)'
               /\ pc'[q] = "set" => status'[ClientOf(q)'] = "Connected"
               /\ pc'[q] = "close" => status'[ClientOf(q)'] # "Connected"
    <3>1. CASE q # p
      <4>1. pc'[q] = pc[q] /\ ClientOf(q)' = ClientOf(q)
        BY <1>4, <3>1
      <4>2. PICK g \in Fds \cup {NoFd} : g = sock[ClientOf(q)]
        BY <1>1, <1>2
      <4>3. sock'[ClientOf(q)'] = g /\ status'[ClientOf(q)'] = status[ClientOf(q)]
        BY <1>1, <1>3, <4>1, <4>2
      <4>4. Owner(g)' = Owner(g)
        BY <1>3
      <4>5. Owner(sock[ClientOf(q)])' = Owner(sock[ClientOf(q)])
        BY <4>2, <4>3, <4>4 DEF Owner
      <4> QED
        BY <4>1, <4>3, <4>5 DEF Good, Holding, Held
    <3>2. CASE q = p
      <4>1. CASE to \notin Busy
        BY <1>4, <3>2, <4>1
      <4>2. CASE to = "set" /\ status[c] = "Connected"
        <5>1. \A r \in Threads : ClientOf(r)' = c => pc'[r] \notin Connecting
          BY <1>4, <4>2 DEF Apart
        <5>2. Owner(sock[c])' = c
          BY <1>3, <1>5, <4>2, <5>1 DEF Linked, LinkedTo, Owner
        <5> QED
          BY <1>3, <1>4, <3>2, <4>2, <5>2
      <4> QED
        BY <4>1, <4>2
    <3> QED
      BY <3>1, <3>2
  <2> QED
    BY <2>1 DEF Holding, Held, Owner
<1> QED
  BY <1>3, <1>5, <1>6, <1>7 DEF Good

(* A step of a call for client c: what the other clients see, and that no  *)
(* other thread is in a call for it                                        *)
OthersKept(c) ==
  /\ \A d \in Clients \ {c} : status'[d] = status[d] /\ sock'[d] = sock[d]
  /\ \A g \in Fds \cup {NoFd} :
       Owner(g)' = Owner(g) \/ {Owner(g), Owner(g)'} \subseteq {c, Nobody}
  /\ relinked \subseteq relinked' /\ wrong' = {}

Alone(p, c) == \A q \in Threads \ {p} : ClientOf(q) = c => pc[q] \notin Busy

(* As no calls overlap, nobody else is in a call for that client. *)
LEMMA AloneFacts ==
  ASSUME TypeOK, Apart, Apart', NEW p \in Threads, NEW c \in Clients, NEW from, NEW to,
         ClientOf(p) = c, Moves(p, c, from, to), from \in Busy \/ to \in Busy
  PROVE  Alone(p, c)
<1>1. /\ pc[p] = from /\ pc'[p] = to /\ ClientOf(p)' = c
      /\ \A q \in Threads \ {p} : pc'[q] = pc[q] /\ ClientOf(q)' = ClientOf(q)
  BY DEF Moves
<1>2. CASE from \in Busy
  BY <1>1, <1>2 DEF Apart, Alone
<1>3. CASE to \in Busy
  <2> SUFFICES ASSUME NEW q \in Threads \ {p}, ClientOf(q) = c, pc[q] \in Busy PROVE FALSE
    BY DEF Alone
  <2>1. pc'[q] \in Busy /\ ClientOf(q)' = ClientOf(p)'
    BY <1>1
  <2> QED
    BY <1>1, <1>3, <2>1, Zenon DEF Apart
<1> QED
  BY <1>2, <1>3

(* It is enough to look at the client and the thread of the call. *)
LEMMA CallGood ==
  ASSUME TypeOK, Good, Apart', NEW p \in Threads, NEW c \in Clients, NEW from, NEW to,
         ClientOf(p) = c, Moves(p, c, from, to), Alone(p, c), OthersKept(c),
         Held(p)', LinkedTo(c)', \A f \in Fds : Owner(f)' = c => AccountedFor(f)'
  PROVE  Good'
<1>1. /\ pc[p] = from /\ pc'[p] = to /\ ClientOf(p)' = c
      /\ \A q \in Threads \ {p} : pc'[q] = pc[q] /\ ClientOf(q)' = ClientOf(q)
  BY DEF Moves
<1>2. Nobody \notin Clients
  BY NumberFacts
<1>3. /\ \A q \in Threads : ClientOf(q) \in Clients
      /\ \A d \in Clients : sock[d] \in Fds \cup {NoFd}
  BY WhoFacts
<1>4. /\ \A d \in Clients \ {c} : status'[d] = status[d] /\ sock'[d] = sock[d]
      /\ relinked \subseteq relinked' /\ wrong' = {}
  BY DEF OthersKept
<1>5. \A g \in Fds \cup {NoFd}, d \in Clients \ {c} : Owner(g)' = d <=> Owner(g) = d
  BY <1>2 DEF OthersKept
<1>6. ASSUME NEW d \in Clients \ {c} PROVE Owner(sock[d])' = d <=> Owner(sock[d]) = d
  <2>1. PICK g \in Fds \cup {NoFd} : g = sock[d]
    BY <1>3
  <2>2. sock'[d] = g
    BY <1>4, <2>1
  <2>3. Owner(g)' = d <=> Owner(g) = d
    BY <1>5
  <2> QED
    BY <2>1, <2>2, <2>3 DEF Owner
<1>7. Holding'
  <2> SUFFICES ASSUME NEW q \in Threads, q # p PROVE Held(q)'
    BY DEF Holding
  <2>1. pc'[q] = pc[q] /\ ClientOf(q)' = ClientOf(q) /\ Held(q)
    BY <1>1 DEF Good, Holding
  <2>2. CASE ClientOf(q) = c
    <3>1. pc'[q] \notin Busy
      BY <2>1, <2>2 DEF Alone
    <3> QED
      BY <3>1 DEF Held, Busy, Connecting, Disconnecting
  <2>3. CASE ClientOf(q) # c
    <3>1. PICK d \in Clients \ {c} : d = ClientOf(q)
      BY <1>3, <2>3
    <3>2. Owner(sock[d])' = d <=> Owner(sock[d]) = d
      BY <1>6
    <3>3. status'[d] = status[d] /\ sock'[d] = sock[d] /\ ClientOf(q)' = d
      BY <1>4, <2>1, <3>1
    <3> QED
      BY <2>1, <3>1, <3>2, <3>3 DEF Held, Owner
  <2> QED
    BY <2>2, <2>3
<1>8. Linked'
  <2> SUFFICES ASSUME NEW d \in Clients \ {c}, status'[d] = "Connected",
                      \A q \in Threads : ClientOf(q)' = d => pc'[q] \notin Connecting
               PROVE  Owner(sock[d])' = d
    BY DEF Linked, LinkedTo
  <2>1. \A q \in Threads : ClientOf(q) = d => pc[q] \notin Connecting
    BY <1>1
  <2>2. Owner(sock[d]) = d
    BY <1>4, <2>1 DEF Good, Linked, LinkedTo
  <2> QED
    BY <1>6, <2>2
<1>9. Accounted'
  <2> SUFFICES ASSUME NEW f \in Fds, Owner(f)' # c PROVE AccountedFor(f)'
    BY DEF Accounted
  <2>1. CASE Owner(f)' = Nobody
    BY <2>1 DEF AccountedFor
  <2>2. CASE Owner(f)' # Nobody
    <3>1. Owner(f)' = Owner(f)
      BY <2>2 DEF OthersKept
    <3>2. AccountedFor(f)
      BY DEF Good, Accounted
    <3>3. CASE Owner(f) \in relinked
      BY <1>4, <3>1, <3>3 DEF AccountedFor
    <3>4. CASE sock[Owner(f)] = f /\ Known(f)
      <4>1. Owner(f) \in Clients
        BY <2>2, <3>1, TypeParts, EntryFacts DEF Owner
      <4>2. PICK d \in Clients \ {c} : d = Owner(f)
        BY <3>1, <4>1
      <4>3. sock'[d] = f /\ status'[d] = status[d] /\ Owner(f)' = d
        BY <1>4, <3>1, <3>4, <4>2
      <4>4. CASE status[d] = "Connected"
        BY <4>3, <4>4 DEF AccountedFor, Known
      <4>5. CASE \E q \in Threads : ClientOf(q) = d /\ pc[q] \in Inner
        <5>1. PICK q \in Threads : ClientOf(q) = d /\ pc[q] \in Inner
          BY <4>5
        <5>2. ClientOf(q)' = d /\ pc'[q] \in Inner
          BY <1>1, <5>1
        <5>3. Known(f)'
          BY <4>3, <5>2 DEF Known, Inner
        <5> QED
          BY <4>3, <5>3 DEF AccountedFor
      <4> QED
        BY <3>4, <4>2, <4>4, <4>5 DEF Known, Inner
    <3> QED
      BY <2>2, <3>1, <3>2, <3>3, <3>4 DEF AccountedFor
  <2> QED
    BY <2>1, <2>2
<1> QED
  BY <1>4, <1>7, <1>8, <1>9 DEF Good

(* Closing the client's own descriptor *)
LEMMA CloseGood ==
  ASSUME TypeOK, Room, Good, Apart', NEW p \in Threads,
         CloseConnection(p) \/ (p \in Users /\ ConnectRefused(p))
  PROVE  Good'
<1> USE DEF Busy, Connecting, Disconnecting
<1>1. PICK c \in Clients : c = ClientOf(p)
  BY WhoFacts
<1>2. PICK from \in {"close", "connect"}, to \in {"check", "done", "failed"} :
        /\ Goto(p, from, to)
        /\ from = "close" => to # "failed"
        /\ from = "connect" => to = "failed"
  BY DEF CloseConnection, ConnectRefused, AfterDisconnect
<1>3. /\ \E woken \in {TRUE, desc[sock[c]].link = "new"} : CloseSocket(c, woken)
      /\ UNCHANGED <<task, queue, terminate>>
      /\ UNCHANGED <<status, sock, pieces, relinked>>
  BY <1>1 DEF CloseConnection, ConnectRefused, memberVars, poolVars, boundVars
<1>4. to \in PC
  BY DEF PC
<1>5. Moves(p, c, from, to)
  BY <1>1, <1>2, <1>3, <1>4, MoveFacts
<1>6. Alone(p, c)
  BY <1>1, <1>2, <1>5, AloneFacts DEF Good
<1>7. pc[p] = from /\ pc'[p] = to /\ ClientOf(p)' = c
  BY <1>5 DEF Moves
<1>8. Owner(sock[c]) = c /\ (from = "close" => status[c] # "Connected")
  BY <1>1, <1>2, <1>7 DEF Good, Holding, Held
<1>9. /\ sock[c] \in Fds \cup {NoFd} /\ wrong' = {}
      /\ \A g \in Fds \cup {NoFd} : Owner(g)' = IF g = sock[c] THEN Nobody ELSE Owner(g)
  BY <1>3, <1>8, CloseFacts DEF Good
<1>10. OthersKept(c)
  BY <1>3, <1>8, <1>9 DEF OthersKept
<1>11. PICK g \in Fds \cup {NoFd} : g = sock[c]
  BY <1>9
<1>12. Nobody # c
  BY NumberFacts
<1>13. Owner(sock[c])' = Nobody
  BY <1>3, <1>9, <1>11 DEF Owner
<1>14. Held(p)'
  BY <1>2, <1>7, <1>12, <1>13 DEF Held
<1>15. LinkedTo(c)'
  <2>1. CASE from = "close"
    BY <1>3, <1>8, <2>1 DEF LinkedTo
  <2>2. CASE from = "connect"
    BY <1>2, <1>7, <2>2 DEF LinkedTo
  <2> QED
    BY <2>1, <2>2
<1>16. ASSUME NEW f \in Fds, Owner(f)' = c PROVE AccountedFor(f)'
  <2>1. Owner(f) = c /\ f # sock[c]
    BY <1>9, <1>12, <1>16
  <2>2. c \in relinked'
    BY <1>3, <1>12, <2>1 DEF Good, Accounted, AccountedFor
  <2> QED
    BY <1>16, <2>2 DEF AccountedFor
<1> QED
  BY <1>1, <1>5, <1>6, <1>10, <1>14, <1>15, <1>16, CallGood

(* Disconnect sets the status of a client that owns its descriptor. *)
LEMMA SetGood ==
  ASSUME TypeOK, Good, Apart', NEW p \in Threads, SetDisconnected(p) PROVE Good'
<1> USE DEF Busy, Connecting, Disconnecting
<1>1. PICK c \in Clients : c = ClientOf(p)
  BY WhoFacts
<1>2. /\ Goto(p, "set", "close") /\ task' = task
      /\ status' = [status EXCEPT ![c] = "Disconnected"]
      /\ UNCHANGED <<sock, desc, relinked, wrong>>
  BY <1>1 DEF SetDisconnected, poolVars, noteVars
<1>3. "close" \in PC
  BY DEF PC
<1>4. Moves(p, c, "set", "close")
  BY <1>1, <1>2, <1>3, MoveFacts
<1>5. Alone(p, c)
  BY <1>1, <1>4, AloneFacts DEF Good
<1>6. pc[p] = "set" /\ pc'[p] = "close" /\ ClientOf(p)' = c
  BY <1>4 DEF Moves
<1>7. status'[c] # "Connected" /\ \A d \in Clients \ {c} : status'[d] = status[d]
  BY <1>2 DEF TypeOK
<1>8. \A g \in Fds \cup {NoFd} : Owner(g)' = Owner(g)
  BY <1>2 DEF Owner
<1>9. OthersKept(c)
  BY <1>2, <1>7, <1>8 DEF OthersKept, Good
<1>10. Owner(sock[c])' = c
  BY <1>1, <1>2, <1>6 DEF Good, Holding, Held, Owner
<1>11. Held(p)'
  BY <1>6, <1>7, <1>10 DEF Held
<1>12. LinkedTo(c)'
  BY <1>7 DEF LinkedTo
<1>13. ASSUME NEW f \in Fds, Owner(f)' = c PROVE AccountedFor(f)'
  <2>1. Owner(f) = c /\ Nobody # c
    BY <1>8, <1>13, NumberFacts
  <2>2. sock'[c] = f \/ c \in relinked'
    BY <1>2, <2>1 DEF Good, Accounted, AccountedFor
  <2>3. Known(f)'
    BY <1>6, <1>13 DEF Known
  <2> QED
    BY <1>13, <2>2, <2>3 DEF AccountedFor
<1> QED
  BY <1>1, <1>4, <1>5, <1>9, <1>11, <1>12, <1>13, CallGood

(* An accepted connect leaves the descriptor with its owner. *)
LEMMA AcceptedGood ==
  ASSUME TypeOK, Room, Noted, Good, Apart', NEW p \in Users, ConnectAccepted(p) PROVE Good'
<1> USE DEF Busy, Connecting, Disconnecting
<1>0. p \in Threads
  BY DEF Threads
<1>1. PICK c \in Clients : c = ClientOf(p)
  BY <1>0, WhoFacts
<1>2. /\ Goto(p, "connect", "up") /\ task' = task
      /\ UNCHANGED <<status, sock, relinked, wrong>>
  BY DEF ConnectAccepted, poolVars, noteVars, memberVars
<1>3. "up" \in PC
  BY DEF PC
<1>4. Moves(p, c, "connect", "up")
  BY <1>0, <1>1, <1>2, <1>3, MoveFacts
<1>5. Alone(p, c)
  BY <1>0, <1>1, <1>4, AloneFacts DEF Good
<1>6. pc[p] = "connect" /\ pc'[p] = "up" /\ ClientOf(p)' = c
  BY <1>4 DEF Moves
<1>7. \A g \in Fds \cup {NoFd} : Owner(g)' = Owner(g)
  BY AcceptedType
<1>8. OthersKept(c)
  BY <1>2, <1>7 DEF OthersKept, Good
<1>9. Owner(sock[c])' = c
  <2>1. Owner(sock[c]) = c
    BY <1>0, <1>1, <1>6 DEF Good, Holding, Held
  <2>2. PICK g \in Fds \cup {NoFd} : g = sock[c]
    BY WhoFacts
  <2> QED
    BY <1>2, <1>7, <2>1, <2>2 DEF Owner
<1>10. Held(p)'
  BY <1>6, <1>9 DEF Held
<1>11. LinkedTo(c)'
  BY <1>0, <1>6 DEF LinkedTo
<1>12. ASSUME NEW f \in Fds, Owner(f)' = c PROVE AccountedFor(f)'
  <2>1. Owner(f) = c /\ Nobody # c
    BY <1>7, <1>12, NumberFacts
  <2>2. sock'[c] = f \/ c \in relinked'
    BY <1>2, <2>1 DEF Good, Accounted, AccountedFor
  <2>3. Known(f)'
    BY <1>0, <1>6, <1>12 DEF Known
  <2> QED
    BY <1>12, <2>2, <2>3 DEF AccountedFor
<1> QED
  BY <1>0, <1>1, <1>4, <1>5, <1>8, <1>10, <1>11, <1>12, CallGood

(* ConnectTo returns: connected and owning the descriptor, or neither. *)
LEMMA EndsGood ==
  ASSUME TypeOK, Good, Apart', NEW p \in Users, ConnectFails(p) \/ Connected(p) PROVE Good'
<1> USE DEF Busy, Connecting, Disconnecting
<1>0. p \in Threads
  BY DEF Threads
<1>1. PICK c \in Clients : c = ClientOf(p)
  BY <1>0, WhoFacts
<1>2. PICK result \in {"Connected", "ConnectError", "InitError"},
           from \in {"up", "failed", "nofd"} :
        /\ ConnectEnds(p, from, result)
        /\ result = "Connected" <=> from = "up"
  <2>1. CASE Connected(p)
    <3>1. ConnectEnds(p, "up", "Connected")
      BY <2>1 DEF Connected
    <3> QED
      BY <3>1
  <2>2. CASE ConnectFails(p)
    <3>1. ConnectEnds(p, "failed", "ConnectError") \/ ConnectEnds(p, "nofd", "InitError")
      BY <2>2 DEF ConnectFails
    <3> QED
      BY <3>1
  <2> QED
    BY <2>1, <2>2
<1>3. /\ status' = [status EXCEPT ![c] = result] /\ task' = task
      /\ UNCHANGED <<sock, desc, relinked, wrong>>
  BY <1>1, <1>2 DEF ConnectEnds, poolVars
<1>4. PICK to \in {"loop", "handler", "done", "exit"} : Goto(p, from, to)
  BY <1>2 DEF ConnectEnds, AfterConnect
<1>5. to \in PC
  BY DEF PC
<1>6. Moves(p, c, from, to)
  BY <1>0, <1>1, <1>3, <1>4, <1>5, MoveFacts
<1>7. Alone(p, c)
  BY <1>0, <1>1, <1>6, AloneFacts DEF Good
<1>8. /\ pc[p] = from /\ pc'[p] = to /\ ClientOf(p)' = c
      /\ \A q \in Threads \ {p} : pc'[q] = pc[q] /\ ClientOf(q)' = ClientOf(q)
  BY <1>6 DEF Moves
<1>9. /\ status'[c] = result
      /\ \A d \in Clients \ {c} : status'[d] = status[d]
  BY <1>3 DEF TypeOK
<1>10. \A g \in Fds \cup {NoFd} : Owner(g)' = Owner(g)
  BY <1>3 DEF Owner
<1>11. OthersKept(c)
  BY <1>3, <1>9, <1>10 DEF OthersKept, Good
<1>12. Held(p)'
  BY <1>8 DEF Held
<1>13. from = "up" => Owner(sock[c]) = c
  BY <1>0, <1>1, <1>8 DEF Good, Holding, Held
<1>14. from # "up" => Owner(sock[c]) # c
  BY <1>0, <1>1, <1>8 DEF Good, Holding, Held
<1>15. LinkedTo(c)'
  BY <1>2, <1>3, <1>9, <1>13 DEF LinkedTo, Owner
<1>16. ASSUME NEW f \in Fds, Owner(f)' = c PROVE AccountedFor(f)'
  <2>1. Owner(f) = c /\ Nobody # c
    BY <1>10, <1>16, NumberFacts
  <2>2. sock[c] = f \/ c \in relinked
    BY <2>1 DEF Good, Accounted, AccountedFor
  <2>3. CASE c \in relinked
    BY <1>3, <1>16, <2>3 DEF AccountedFor
  <2>4. CASE sock[c] = f
    <3>1. status'[c] = "Connected"
      BY <1>2, <1>9, <1>14, <2>1, <2>4
    <3> QED
      BY <1>3, <1>16, <2>4, <3>1 DEF AccountedFor, Known
  <2> QED
    BY <2>2, <2>3, <2>4
<1> QED
  BY <1>0, <1>1, <1>6, <1>7, <1>11, <1>12, <1>15, <1>16, CallGood

(* ConnectTo: the new descriptor, or none *)
LEMMA OpenGood ==
  ASSUME TypeOK, Room, Good, Apart', NEW p \in Users, OpenSocket(p) PROVE Good'
<1> USE DEF Busy, Connecting, Disconnecting
<1>0. p \in Threads
  BY DEF Threads
<1>1. PICK c \in Clients : c = ClientOf(p)
  BY <1>0, WhoFacts
<1>2. /\ pc[p] \in {"socket", "loop"}
      /\ relinked' = IF status[c] = "Connected" THEN relinked \cup {c} ELSE relinked
      /\ UNCHANGED <<status, pieces, wrong>> /\ task' = task
  BY <1>1, OpenCases DEF poolVars
<1>3. PICK f \in Fds \cup {NoFd}, to \in {"connect", "nofd"} :
        /\ Goto(p, pc[p], to) /\ sock' = [sock EXCEPT ![c] = f]
        /\ \/ /\ to = "connect" /\ f \in Fds /\ Owner(f) = Nobody
              /\ desc' = [desc EXCEPT ![f].owner = c]
           \/ to = "nofd" /\ f = NoFd /\ desc' = desc
  BY <1>1, OpenCases
<1>4. to \in PC
  BY DEF PC
<1>5. PICK from \in {"socket", "loop"} : from = pc[p]
  BY <1>2
<1>6. Moves(p, c, from, to)
  BY <1>0, <1>1, <1>2, <1>3, <1>4, <1>5, MoveFacts
<1>7. Alone(p, c)
  BY <1>0, <1>1, <1>6, AloneFacts DEF Good
<1>8. /\ pc'[p] = to /\ ClientOf(p)' = c /\ Nobody # c
  BY <1>6, NumberFacts DEF Moves
<1>9. sock'[c] = f /\ \A d \in Clients \ {c} : sock'[d] = sock[d]
  BY <1>3 DEF TypeOK
<1>10. \A g \in Fds \cup {NoFd} : Owner(g)' = IF to = "connect" /\ g = f THEN c ELSE Owner(g)
  <2>1. CASE to = "connect"
    <3>1. f \in Fds /\ desc' = [desc EXCEPT ![f].owner = c] /\ pieces' = pieces
      BY <1>2, <1>3, <2>1
    <3>2. \A g \in Fds \cup {NoFd} : Owner(g)' = IF g = f THEN c ELSE Owner(g)
      BY <3>1, TypeParts, OwnerChange
    <3> QED
      BY <2>1, <3>2
  <2>2. CASE to = "nofd"
    BY <1>3, <2>2 DEF Owner
  <2> QED
    BY <2>1, <2>2
<1>11. Owner(f) = Nobody
  <2>1. Owner(NoFd) = Nobody
    BY DEF TypeOK, Closed, Owner
  <2> QED
    BY <1>3, <2>1
<1>12. OthersKept(c)
  BY <1>2, <1>9, <1>10, <1>11 DEF OthersKept, Good
<1>13. Owner(sock[c])' = IF to = "connect" THEN c ELSE Nobody
  BY <1>3, <1>9, <1>10, <1>11 DEF Owner
<1>14. Held(p)'
  BY <1>8, <1>9, <1>13 DEF Held
<1>15. LinkedTo(c)'
  BY <1>0, <1>8 DEF LinkedTo
<1>16. ASSUME NEW g \in Fds, Owner(g)' = c PROVE AccountedFor(g)'
  <2>1. CASE to = "connect" /\ g = f
    <3>1. Known(g)'
      BY <1>0, <1>8, <1>16, <2>1 DEF Known
    <3> QED
      BY <1>9, <1>16, <2>1, <3>1 DEF AccountedFor
  <2>2. CASE ~ (to = "connect" /\ g = f)
    <3>1. Owner(g) = c
      BY <1>10, <1>16, <2>2
    <3>2. \A q \in Threads : ClientOf(q) = c => pc[q] \notin Inner
      BY <1>1, <1>2, <1>7 DEF Alone, Inner
    <3>3. c \in relinked \/ status[c] = "Connected"
      BY <1>8, <3>1, <3>2 DEF Good, Accounted, AccountedFor, Known, Inner
    <3> QED
      BY <1>2, <1>16, <3>3 DEF AccountedFor
  <2> QED
    BY <2>1, <2>2
<1> QED
  BY <1>0, <1>1, <1>6, <1>7, <1>12, <1>14, <1>15, <1>16, CallGood

(* The steps outside of the calls *)
LEMMA OutsideGood ==
  ASSUME TypeOK, Good, Apart', QuietEffect, NEW p \in Threads, NEW from, NEW to \in PC,
         Goto(p, from, to), task' = task, from \notin Busy, to \notin Busy
  PROVE  Good'
<1>1. PICK c \in Clients : c = ClientOf(p)
  BY WhoFacts
<1>2. Moves(p, c, from, to)
  BY <1>1, MoveFacts
<1> QED
  BY <1>2, QuietGood

(* A worker outside of the calls *)
LEMMA WorkerGood ==
  ASSUME TypeOK, Room, Good, Apart', NEW w \in Workers,
         Take(w) \/ Reading(w) \/ RunHandler(w) \/ Check(w) \/ SubmitAgain(w)
  PROVE  Good'
<1> USE DEF Busy, Connecting, Disconnecting
<1>1. w \in Threads /\ {"read", "payload", "blocked", "check", "idle", "handle", "test",
                        "push"} \subseteq PC
  BY DEF Threads, PC
<1>2. CASE Take(w)
  <2>1. QuietEffect
    BY <1>2 DEF Take, memberVars, noteVars, QuietEffect, OwnersKept, Owner
  <2>2. PICK to \in {"read", "check"} : Goto(w, "idle", to)
    BY <1>2 DEF Take
  <2>3. PICK c \in Clients : c = Head(queue)
    BY <1>2, TypeParts, HeadFacts DEF Take
  <2>4. pc[w] = "idle" /\ pc'[w] = to /\ \A q \in Threads \ {w} : pc'[q] = pc[q]
    BY <1>1, <2>2, GotoFacts
  <2>5. task' = [task EXCEPT ![w] = c] /\ task \in [Workers -> Clients]
    BY <1>2, <2>3 DEF Take, TypeOK
  <2>6. ClientOf(w)' = c /\ \A q \in Threads \ {w} : ClientOf(q)' = ClientOf(q)
    BY <2>5 DEF ClientOf
  <2>7. Moves(w, c, "idle", to)
    BY <2>4, <2>6 DEF Moves
  <2> QED
    BY <1>1, <2>1, <2>7, QuietGood
<1>3. CASE Reading(w)
  <2>1. OwnersKept /\ task' = task /\ UNCHANGED <<status, sock, wrong, relinked>>
    BY <1>3, ReadingTypes, ReadingFrame
  <2>2. \E from \in {"read", "payload", "blocked"},
           to \in {"handle", "idle", "check", "test", "payload", "blocked"} : Goto(w, from, to)
    BY <1>3, ReadingGoes
  <2> QED
    BY <1>1, <2>1, <2>2, OutsideGood DEF QuietEffect
<1>4. CASE RunHandler(w) \/ Check(w) \/ SubmitAgain(w)
  <2>1. QuietEffect /\ task' = task
    BY <1>4 DEF RunHandler, Check, SubmitAgain, memberVars, noteVars, poolVars, QuietEffect,
                OwnersKept, Owner
  <2>2. \E from \in {"handle", "check", "push"}, to \in {"check", "push", "idle"} :
          Goto(w, from, to)
    BY <1>4 DEF RunHandler, Check, SubmitAgain, AfterCheck
  <2> QED
    BY <1>1, <2>1, <2>2, OutsideGood
<1> QED
  BY <1>2, <1>3, <1>4

(* A user outside of the calls *)
LEMMA UserGood ==
  ASSUME TypeOK, Good, Apart', NEW p \in Users, RunGivesUp(p) \/ SetHandler(p) \/ StartChain(p)
  PROVE  Good'
<1> USE DEF Busy, Connecting, Disconnecting
<1>1. p \in Threads /\ {"done", "add", "loop"} \subseteq PC
  BY DEF Threads, PC
<1>2. QuietEffect /\ task' = task
  BY DEF RunGivesUp, SetHandler, StartChain, memberVars, noteVars, poolVars, QuietEffect,
         OwnersKept, Owner
<1>3. \E from \in {"socket", "handler", "add"}, to \in {"done", "add", "loop"} :
        Goto(p, from, to)
  BY DEF RunGivesUp, SetHandler, StartChain
<1> QED
  BY <1>1, <1>2, <1>3, OutsideGood

(* Disconnect tests the status. *)
LEMMA TestGood ==
  ASSUME TypeOK, Good, Apart', NEW p \in Threads, TestStatus(p) PROVE Good'
<1> USE DEF Busy, Connecting, Disconnecting
<1>1. PICK c \in Clients : c = ClientOf(p)
  BY WhoFacts
<1>2. QuietEffect /\ task' = task
  BY DEF TestStatus, memberVars, noteVars, poolVars, QuietEffect, OwnersKept, Owner
<1>3. PICK from \in {"test", "loop", "wait"} : from = pc[p]
  BY DEF TestStatus, MayDisconnect
<1>4. \/ status[c] = "Connected" /\ Goto(p, from, "set")
      \/ \E to \in {"check", "done"} : Goto(p, from, to)
  BY <1>1, <1>3 DEF TestStatus, AfterDisconnect
<1>5. {"set", "check", "done"} \subseteq PC
  BY DEF PC
<1>6. CASE status[c] = "Connected" /\ Goto(p, from, "set")
  <2>1. Moves(p, c, from, "set")
    BY <1>1, <1>2, <1>5, <1>6, MoveFacts
  <2> QED
    BY <1>2, <1>6, <2>1, QuietGood
<1>7. CASE \E to \in {"check", "done"} : Goto(p, from, to)
  BY <1>2, <1>5, <1>7, OutsideGood
<1> QED
  BY <1>4, <1>6, <1>7

(* The network and main's last step move no thread. *)
LEMMA StillGood ==
  ASSUME TypeOK, Good, UNCHANGED <<pc, task, status, sock, wrong, relinked>>, OwnersKept
  PROVE  Good'
<1>1. \A q \in Threads : ClientOf(q)' = ClientOf(q) /\ ClientOf(q) \in Clients
  BY WhoFacts DEF ClientOf
<1>2. \A c \in Clients : sock[c] \in Fds \cup {NoFd}
  BY WhoFacts
<1>3. \A g \in Fds \cup {NoFd} : Owner(g)' = Owner(g)
  BY DEF OwnersKept
<1>4. ASSUME NEW c \in Clients PROVE Owner(sock[c])' = Owner(sock[c])
  <2>1. PICK g \in Fds \cup {NoFd} : g = sock[c]
    BY <1>2
  <2> QED
    BY <1>3, <2>1 DEF Owner
<1>5. Apart'
  BY <1>1 DEF Good, Apart
<1>6. Holding'
  <2> SUFFICES ASSUME NEW q \in Threads PROVE Held(q)'
    BY DEF Holding
  <2>1. PICK c \in Clients : c = ClientOf(q)
    BY <1>1
  <2>2. Owner(sock[c])' = Owner(sock[c]) /\ ClientOf(q)' = c /\ Held(q)
    BY <1>1, <1>4, <2>1 DEF Good, Holding
  <2> QED
    BY <2>1, <2>2 DEF Held, Owner
<1>7. Linked'
  BY <1>1, <1>4 DEF Good, Linked, LinkedTo
<1>8. Accounted'
  <2> SUFFICES ASSUME NEW f \in Fds PROVE AccountedFor(f)'
    BY DEF Accounted
  <2>1. Owner(f)' = Owner(f) /\ AccountedFor(f)
    BY <1>3 DEF Good, Accounted
  <2> QED
    BY <1>1, <2>1 DEF AccountedFor, Known
<1> QED
  BY <1>5, <1>6, <1>7, <1>8 DEF Good

(* Every step after which no calls have overlapped keeps the descriptors in order. *)
LEMMA StepGood ==
  ASSUME TypeOK, TypeOK', Room, Good, Next, Apart' PROVE Good'
<1>0. Noted /\ Workers \subseteq Threads /\ Users \subseteq Threads
  BY DEF Next, Threads
<1>1. ASSUME NEW w \in Workers,
             Take(w) \/ Reading(w) \/ RunHandler(w) \/ Check(w) \/ SubmitAgain(w)
      PROVE  Good'
  BY <1>1, WorkerGood
<1>2. ASSUME NEW p \in Users,
             \/ RunGivesUp(p) \/ SetHandler(p) \/ StartChain(p)
             \/ OpenSocket(p) \/ ConnectAccepted(p) \/ ConnectRefused(p)
             \/ ConnectFails(p) \/ Connected(p)
      PROVE  Good'
  BY <1>0, <1>2, UserGood, OpenGood, AcceptedGood, CloseGood, EndsGood
<1>3. ASSUME NEW p \in Threads, DisconnectStep(p) PROVE Good'
  BY <1>3, TestGood, SetGood, CloseGood DEF DisconnectStep
<1>4. ASSUME StopPool PROVE Good'
  BY <1>4, StillGood DEF StopPool, memberVars, noteVars, OwnersKept, Owner
<1>5. ASSUME NEW f \in Fds, Deliver(f) \/ PeerEnds(f) PROVE Good'
  <2>1. OwnersKept
    BY <1>0, <1>5, NetworkType DEF OwnersKept
  <2>2. UNCHANGED <<pc, task, status, sock, wrong, relinked>>
    BY <1>5 DEF Deliver, PeerEnds, memberVars, noteVars, poolVars
  <2> QED
    BY <2>1, <2>2, StillGood
<1> QED
  BY <1>1, <1>2, <1>3, <1>4, <1>5, Steps

(* Every step keeps the invariant. *)
LEMMA StepInv == ASSUME Inv, [Next]_vars PROVE Inv'
<1>1. TypeOK /\ Room /\ Ending /\ ReadyHasReader /\ (overlap \/ Good)
  BY DEF Inv
<1>2. CASE Next
  <2>1. TypeOK' /\ Room'
    BY <1>1, <1>2, StepType
  <2>2. Ending' /\ ReadyHasReader'
    BY <1>1, <1>2, StepEnding, StepReader
  <2>3. ASSUME ~ overlap' PROVE Good'
    <3>1. Noted
      BY <1>2 DEF Next
    <3>2. ~ overlap /\ Apart'
      BY <2>1, <2>3, <3>1, StillApart
    <3> QED
      BY <1>1, <1>2, <2>1, <3>2, StepGood
  <2> QED
    BY <2>1, <2>2, <2>3 DEF Inv
<1>3. CASE UNCHANGED vars
  <2>1. /\ UNCHANGED <<pc, task, queue, terminate, waits, status, sock, desc, connects, pieces>>
        /\ UNCHANGED <<ready, threw, relinked, wrong, overlap>>
    BY <1>3 DEF vars, poolVars, memberVars, boundVars, noteVars
  <2>2. TypeOK' /\ Room' /\ Ending'
    BY <1>1, <2>1 DEF TypeOK, Room, Ending, Destroyed
  <2>3. ReadyHasReader'
    BY <1>1, <2>1 DEF ReadyHasReader, Chains
  <2>4. overlap' \/ Good'
    BY <1>1, <2>1, StillGood DEF OwnersKept, Owner
  <2> QED
    BY <2>2, <2>3, <2>4 DEF Inv
<1> QED
  BY <1>2, <1>3

(* The clients keep the invariant. *)
THEOREM InvHolds == Spec => []Inv
<1>1. Init => Inv
  BY InitInv
<1>2. Inv /\ [Next]_vars => Inv'
  BY StepInv
<1> QED
  BY <1>1, <1>2, PTL DEF Spec

(* Every variable of the clients keeps its type: a descriptor of the table *)
(* is never asked to hold more than what the server can have sent.         *)
THEOREM ClientTypes == Spec => []TypeOK
<1>1. Inv => TypeOK
  BY DEF Inv
<1> QED
  BY <1>1, InvHolds, PTL

(* As long as no two calls of ConnectTo or Disconnect for one client       *)
(* overlap, no client closes a descriptor of another, a connected client   *)
(* owns its descriptor, and only a second ConnectTo loses one.             *)
THEOREM Descriptors == Spec => []DescriptorsOwned
<1>1. ASSUME Inv PROVE DescriptorsOwned
  <2>1. TypeOK /\ (overlap \/ Good)
    BY <1>1 DEF Inv
  <2> SUFFICES ASSUME Good PROVE DescriptorsOwned
    BY <2>1 DEF DescriptorsOwned
  <2> DEFINE busy(c) == \E p \in Threads : Inside(p, c)
  <2>2. wrong = {}
    BY DEF Good
  <2>3. ASSUME NEW c \in Clients, status[c] = "Connected", ~ busy(c)
        PROVE  desc[sock[c]].owner = c
    <3>1. \A p \in Threads : ClientOf(p) = c => pc[p] \notin Connecting
      BY <2>3 DEF Inside
    <3> QED
      BY <2>3, <3>1 DEF Good, Linked, LinkedTo, Owner
  <2>4. ASSUME NEW f \in Fds, desc[f].owner # Nobody, desc[f].owner \notin relinked
        PROVE  /\ sock[desc[f].owner] = f
               /\ status[desc[f].owner] = "Connected" \/ busy(desc[f].owner)
    <3>1. sock[Owner(f)] = f /\ Known(f)
      BY <2>4 DEF Good, Accounted, AccountedFor, Owner
    <3>2. Known(f) => status[Owner(f)] = "Connected" \/ busy(Owner(f))
      BY DEF Known, Inside, Connecting, Disconnecting
    <3> QED
      BY <3>1, <3>2 DEF Owner
  <2> HIDE DEF busy
  <2>5. /\ \A c \in Clients : status[c] = "Connected" /\ ~busy(c) => desc[sock[c]].owner = c
        /\ \A f \in Fds : \/ desc[f].owner = Nobody \/ desc[f].owner \in relinked
                          \/ /\ sock[desc[f].owner] = f
                             /\ status[desc[f].owner] = "Connected" \/ busy(desc[f].owner)
    BY <2>3, <2>4
  <2> USE DEF busy
  <2> QED
    BY <2>2, <2>5, Zenon DEF DescriptorsOwned
<1> QED
  BY <1>1, InvHolds, PTL

(* A connected client whose handler was set since is being read.           *)
THEOREM ReadersReady == Spec => []ReadyHasReader
<1>1. Inv => ReadyHasReader
  BY DEF Inv
<1> QED
  BY <1>1, InvHolds, PTL
==============================================================================
