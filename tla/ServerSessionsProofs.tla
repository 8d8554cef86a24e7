------------------------ MODULE ServerSessionsProofs ------------------------
(***************************************************************************)
(* The safety of ServerSessions for any number of workers and sessions and *)
(* all operations of the control thread.                                   *)
(*                                                                         *)
(* The invariant has one part per idea: where a worker and the control     *)
(* thread may stand, that nothing runs while the server does not, the      *)
(* life of a session and of its list node, who refers to a session, who    *)
(* holds its mutex, and how many loops there are.                          *)
(***************************************************************************)
EXTENDS ServerSessions, SequenceTheorems, FiniteSetTheorems, TLAPS

-----------------------------------------------------------------------------
(* Sequences: append, take from the front, remove from the middle *)

LEMMA AppendFacts ==
  ASSUME NEW S, NEW q \in Seq(S), NEW e \in S
  PROVE  /\ Append(q, e) \in Seq(S)
         /\ DOMAIN q = 1 .. Len(q) /\ Len(q) \in Nat
         /\ Len(Append(q, e)) = Len(q) + 1
         /\ DOMAIN Append(q, e) = 1 .. Len(q) + 1
         /\ \A i \in DOMAIN q : Append(q, e)[i] = q[i] /\ i # Len(q) + 1
         /\ Append(q, e)[Len(q) + 1] = e
  OBVIOUS

LEMMA RemoveFacts ==
  ASSUME NEW S, NEW q \in Seq(S), NEW k \in DOMAIN q
  PROVE  /\ RemoveAt(q, k) \in Seq(S)
         /\ Len(RemoveAt(q, k)) = Len(q) - 1
         /\ DOMAIN q = 1 .. Len(q) /\ Len(q) \in Nat
         /\ DOMAIN RemoveAt(q, k) = 1 .. Len(q) - 1
         /\ \A i \in 1 .. Len(q) - 1 :
              RemoveAt(q, k)[i] = IF i < k THEN q[i] ELSE q[i + 1]
<1>1. k \in Nat /\ k \in 1 .. Len(q) /\ Len(q) \in Nat /\ DOMAIN q = 1 .. Len(q)
  OBVIOUS
<1> DEFINE a == SubSeq(q, 1, k - 1)  b == SubSeq(q, k + 1, Len(q))
<1>2. /\ a \in Seq(S) /\ Len(a) = k - 1
      /\ \A i \in 1 .. k - 1 : a[i] = q[i]
  BY <1>1, SubSeqProperties
<1>3. /\ b \in Seq(S) /\ Len(b) = Len(q) - k
      /\ \A i \in 1 .. Len(q) - k : b[i] = q[i + k]
  BY <1>1, SubSeqProperties
<1>4. RemoveAt(q, k) = a \o b
  BY DEF RemoveAt
<1> HIDE DEF a, b
<1>5. /\ a \o b \in Seq(S) /\ Len(a \o b) = Len(a) + Len(b)
      /\ \A i \in 1 .. Len(a) + Len(b) :
           (a \o b)[i] = IF i <= Len(a) THEN a[i] ELSE b[i - Len(a)]
  BY <1>2, <1>3, ConcatProperties
<1>6. ASSUME NEW i \in 1 .. Len(q) - 1
      PROVE  (a \o b)[i] = IF i < k THEN q[i] ELSE q[i + 1]
  <2>1. i \in 1 .. Len(a) + Len(b)
    BY <1>1, <1>2, <1>3
  <2>2. CASE i < k
    BY <1>1, <1>2, <1>5, <2>1, <2>2
  <2>3. CASE ~(i < k)
    <3>1. i - (k - 1) \in 1 .. Len(q) - k
      BY <1>1, <2>3
    <3>2. b[i - (k - 1)] = q[i - (k - 1) + k]
      BY <1>3, <3>1
    <3>3. i - (k - 1) + k = i + 1
      BY <1>1
    <3> QED
      BY <1>1, <1>2, <1>5, <2>1, <2>3, <3>2, <3>3
  <2> QED
    BY <2>2, <2>3
<1>7. Len(a \o b) = Len(q) - 1 /\ DOMAIN (a \o b) = 1 .. Len(q) - 1
  <2>1. Len(a \o b) = Len(q) - 1
    BY <1>1, <1>2, <1>3, <1>5
  <2> QED
    BY <1>5, <2>1
<1> QED
  BY <1>1, <1>4, <1>5, <1>6, <1>7, Zenon

-----------------------------------------------------------------------------
(* Where a worker and the control thread may stand *)

WorkOK(r) ==
  /\ r.at = "idle" <=> r = IdleWork
  /\ r.do = "none" <=> r = IdleWork
  /\ r.do = "accept" => r.at \in {"begin", "lock", "append"}
  /\ r.do = "accept" /\ r.at # "begin" => r.s \in Sessions
  /\ r.do = "wait" => r.at \in {"begin", "check", "load"}
  /\ r.do = "wait" /\ r.at = "load" => r.s \in Sessions
  /\ r.do = "data" => r.at \in {"begin", "lock", "enter", "handle"}
  /\ r.do = "data" => r.s \in Sessions /\ r.m \in Msgs
  /\ r.do = "gone" => r.at \in {"begin", "lock", "handle", "erase", "delete"}
  /\ r.do = "gone" => r.s \in Sessions
  /\ r.do = "wait" /\ r.at = "begin" => r.s = None

WorkInv == \A w \in Workers : WorkOK(work[w])

CtlInv ==
  /\ ctl.at = "idle" => ctl = IdleCtl
  /\ ctl.at \in {"lock", "append"} => ctl.s \in Sessions
  /\ terminate <=> ctl.at = "join"
  /\ ctl.at = "open" => status # "Connected"
  /\ ctl.at = "second" => status = "Connected"

(* While the server is not connected, and while StopServer clears the      *)
(* sessions, there is no task.                                             *)
QuietInv ==
  status # "Connected" \/ ctl.at = "close" =>
    queue = <<>> /\ \A w \in Workers : work[w] = IdleWork

(* A new session is carried to the list by an accept loop, or by           *)
(* ServerConnectTo in the control thread.                                  *)
AcceptCarries(w, s) == work[w].do = "accept" /\ work[w].at \in {"lock", "append"} /\ work[w].s = s
CtlCarries(s) == ctl.at \in {"lock", "append"} /\ ctl.s = s
Carried(s) == CtlCarries(s) \/ \E w \in Workers : AcceptCarries(w, s)

(* A disconnect task past release() *)
Takes(w, s) == work[w].do = "gone" /\ work[w].at \in {"handle", "erase", "delete"} /\ work[w].s = s

Distinct == \A i, j \in DOMAIN list : list[i] = list[j] => i = j

NodeOK(s) ==
  /\ obj[s] \in {"new", "waiting", "refused"} => node[s] = "none"
  /\ Listed(s) => node[s] # "none"
  /\ Carried(s) => node[s] = "none" /\ obj[s] = "live"
  /\ node[s] = "none" /\ obj[s] = "live" => Carried(s)
  /\ node[s] = "owned" => (Listed(s) <=> obj[s] = "live")
  /\ gone[s] = (IF node[s] = "released" THEN 1 ELSE 0)

OneCarrier(s) ==
  \A w \in Workers :
    AcceptCarries(w, s) =>
      ~CtlCarries(s) /\ \A v \in Workers : AcceptCarries(v, s) => v = w

OneTaker(s) ==
  \A w \in Workers :
    Takes(w, s) =>
      /\ node[s] = "released"
      /\ work[w].at # "delete" => Listed(s)
      /\ \A v \in Workers : Takes(v, s) => v = w

NodeInv == Distinct /\ \A s \in Sessions : NodeOK(s) /\ OneCarrier(s) /\ OneTaker(s)

(* A data or disconnect task, the iterator of the waiting loop and that of *)
(* the control thread refer to sessions in the list, but for those that a  *)
(* disconnect task has taken.                                              *)
Anchored(s) == Listed(s) \/ node[s] = "released"

Refers(t) == t.do \in {"data", "gone"} \/ (t.do = "wait" /\ t.s # None)

RefInv ==
  /\ \A i \in DOMAIN queue : Refers(queue[i]) => Anchored(queue[i].s)
  /\ \A w \in Workers : Refers(work[w]) => Anchored(work[w].s)
  /\ ctl.at = "visit" /\ ctl.s # None => Anchored(ctl.s)

(* The data task between lock() and unlock() holds the session's mutex,    *)
(* and no disconnect task takes the session then.                          *)
AccessInv ==
  \A w \in Workers :
    /\ work[w].do = "data" /\ work[w].at \in {"enter", "handle"} => access[work[w].s] = w
    /\ work[w].do = "data" /\ work[w].at = "handle" => node[work[w].s] = "owned"

(* A loop is in the queue or with a worker, and is one.                    *)
Queued(do) == \E i \in DOMAIN queue : queue[i].do = do
Runs(do) == \E w \in Workers : work[w].do = do
Present(do) == Queued(do) \/ Runs(do)
AtMostOne(do) ==
  /\ \A i, j \in DOMAIN queue : queue[i].do = do /\ queue[j].do = do => i = j
  /\ \A v, w \in Workers : work[v].do = do /\ work[w].do = do => v = w
  /\ ~(Queued(do) /\ Runs(do))

LoopInv ==
  /\ AtMostOne("accept") /\ AtMostOne("wait")
  /\ status = "Connected" /\ ctl.at \notin {"join", "close"} =>
       /\ Present("accept")
       /\ ctl.at # "second" <=> Present("wait")

FaultInv == fault # "no" => \E s \in Sessions : node[s] = "released"

Inv ==
  /\ TypeOK /\ WorkInv /\ CtlInv /\ QuietInv /\ NodeInv
  /\ RefInv /\ AccessInv /\ LoopInv /\ FaultInv
-----------------------------------------------------------------------------
(* Types *)

LEMMA InitInv == ASSUME Init PROVE Inv
<1>1. TypeOK
  <2>1. work \in [Workers -> Work]
    BY ServerAssumption DEF Init, IdleWork, Work, Place
  <2>2. ctl \in [op : CtlOp, at : CtlPlace, s : Sessions \cup {None}, who : SUBSET Sessions]
    BY DEF Init, IdleCtl, CtlOp, CtlPlace
  <2>3. calls \in 0 .. MaxCalls /\ sent \in [Sessions -> 0 .. MaxMsgs]
    BY ServerAssumption DEF Init
  <2>4. queue \in Seq(Task) /\ list \in Seq(Sessions)
    BY DEF Init
  <2>5. wire \in [Sessions -> Seq(Msgs)] /\ handled \in [Sessions -> Seq(Msgs)]
    <3>1. <<>> \in Seq(Msgs)
      OBVIOUS
    <3> QED
      BY <3>1 DEF Init
  <2>6. /\ node \in [Sessions -> NodePtr] /\ obj \in [Sessions -> ObjState]
        /\ conn \in [Sessions -> {"up", "down"}] /\ peer \in [Sessions -> {"up", "gone"}]
        /\ access \in [Sessions -> Workers \cup {Free}] /\ gone \in [Sessions -> 0 .. 1]
    BY DEF Init, NodePtr, ObjState
  <2>7. /\ status \in Status /\ terminate \in BOOLEAN /\ fault \in Fault
        /\ clientMutex \in Workers \cup {Free, Ctl}
    BY DEF Init, Status, Fault
  <2> QED
    BY <2>1, <2>2, <2>3, <2>4, <2>5, <2>6, <2>7, Zenon DEF TypeOK
<1>2. WorkInv /\ CtlInv /\ QuietInv
  BY DEF Init, WorkInv, WorkOK, CtlInv, QuietInv, IdleWork, IdleCtl
<1>3. NodeInv
  BY DEF Init, NodeInv, Distinct, NodeOK, OneCarrier, OneTaker, Carried, CtlCarries,
     AcceptCarries, Takes, Listed, IdleWork, IdleCtl
<1>4. RefInv /\ AccessInv /\ FaultInv
  BY DEF Init, RefInv, Refers, AccessInv, FaultInv, IdleWork, IdleCtl
<1>5. LoopInv
  BY DEF Init, LoopInv, AtMostOne, Queued, Runs, IdleWork
<1> QED
  BY <1>1, <1>2, <1>3, <1>4, <1>5 DEF Inv

(* What AddTask and the workers do to the queue keeps its type, and what   *)
(* the loops find in the list are sessions.                                *)
LEMMA QueueType ==
  ASSUME TypeOK
  PROVE  /\ \A t \in Task : Submitted(t) \in Seq(Task) /\ Resubmitted(t) \in Seq(Task)
         /\ \A i \in DOMAIN queue : queue[i] \in Task /\ RemoveAt(queue, i) \in Seq(Task)
         /\ AcceptTask \in Task /\ WaitTask \in Task /\ <<>> \in Seq(Task)
         /\ \A s \in Sessions : GoneTask(s) \in Task
         /\ \A s \in Sessions, m \in Msgs : DataTask(s, m) \in Task
<1> USE DEF TypeOK
<1>1. \A t \in Task : Append(queue, t) \in Seq(Task)
  OBVIOUS
<1>2. ASSUME NEW i \in DOMAIN queue PROVE queue[i] \in Task /\ RemoveAt(queue, i) \in Seq(Task)
  BY RemoveFacts
<1>3. /\ AcceptTask \in Task /\ WaitTask \in Task /\ <<>> \in Seq(Task)
      /\ \A s \in Sessions : GoneTask(s) \in Task
      /\ \A s \in Sessions, m \in Msgs : DataTask(s, m) \in Task
  BY DEF AcceptTask, WaitTask, GoneTask, DataTask, Task
<1> QED
  BY <1>1, <1>2, <1>3, Zenon DEF Submitted, Resubmitted

LEMMA ListType ==
  ASSUME TypeOK
  PROVE  /\ First \in Sessions \cup {None}
         /\ \A s \in Sessions : Append(list, s) \in Seq(Sessions)
         /\ \A s \in Sessions : Listed(s) =>
              /\ Position(s) \in DOMAIN list /\ list[Position(s)] = s
              /\ After(s) \in Sessions \cup {None}
              /\ Erased(s) \in Seq(Sessions)
<1> USE DEF TypeOK
<1>1. First \in Sessions \cup {None}
  BY DEF First
<1>2. ASSUME NEW s \in Sessions, Listed(s)
      PROVE  /\ Position(s) \in DOMAIN list /\ list[Position(s)] = s
             /\ After(s) \in Sessions \cup {None}
             /\ Erased(s) \in Seq(Sessions)
  <2>1. Position(s) \in DOMAIN list /\ list[Position(s)] = s
    BY <1>2 DEF Listed, Position
  <2>2. After(s) \in Sessions \cup {None}
    BY <2>1 DEF After
  <2>3. Erased(s) \in Seq(Sessions)
    BY <2>1, RemoveFacts DEF Erased
  <2> QED
    BY <2>1, <2>2, <2>3
<1> QED
  BY <1>1, <1>2

(* What the steps of a worker make of its place in a task *)
Becomes(w, r) ==
  /\ work'[w] = r
  /\ \A v \in Workers : v # w => work'[v] = work[v]
  /\ work' \in [Workers -> Work]

Moved(w, s, at) == Becomes(w, [do |-> work[w].do, s |-> s, m |-> work[w].m, at |-> at])

LEMMA WorkMoves ==
  ASSUME TypeOK, NEW w \in Workers
  PROVE  /\ Done(w) => Becomes(w, IdleWork)
         /\ \A at \in Place : Goto(w, at) => Moved(w, work[w].s, at)
         /\ \A s \in Sessions \cup {None}, at \in Place :
              work' = [work EXCEPT ![w].s = s, ![w].at = at] => Moved(w, s, at)
         /\ \A s \in Sessions \cup {None} :
              work' = [work EXCEPT ![w].s = s] => Moved(w, s, work[w].at)
         /\ \A t \in Task :
              work' = [work EXCEPT ![w] = [do |-> t.do, s |-> t.s, m |-> t.m, at |-> "begin"]]
                => Becomes(w, [do |-> t.do, s |-> t.s, m |-> t.m, at |-> "begin"])
<1>1. work \in [Workers -> Work] /\ work[w] \in Work
  BY DEF TypeOK
<1>2. ASSUME NEW r \in Work, work' = [work EXCEPT ![w] = r] PROVE Becomes(w, r)
  BY <1>1, <1>2 DEF Becomes
<1>3. IdleWork \in Work
  BY ServerAssumption DEF IdleWork, Work, Place
<1>4. \A t \in Task : [do |-> t.do, s |-> t.s, m |-> t.m, at |-> "begin"] \in Work
  BY ServerAssumption DEF Task, Place, Msgs, Work
<1>5. ASSUME NEW s \in Sessions \cup {None}, NEW at \in Place
      PROVE  /\ [do |-> work[w].do, s |-> s, m |-> work[w].m, at |-> at] \in Work
             /\ [[work[w] EXCEPT !.s = s] EXCEPT !.at = at]
                  = [do |-> work[w].do, s |-> s, m |-> work[w].m, at |-> at]
  <2>1. [do |-> work[w].do, s |-> s, m |-> work[w].m, at |-> at] \in Work
    BY <1>1 DEF Work
  <2>2. [work[w] EXCEPT !.s = s]
          = [do |-> work[w].do, s |-> s, m |-> work[w].m, at |-> work[w].at]
    BY <1>1 DEF Work
  <2>3. [[do |-> work[w].do, s |-> s, m |-> work[w].m, at |-> work[w].at] EXCEPT !.at = at]
          = [do |-> work[w].do, s |-> s, m |-> work[w].m, at |-> at]
    OBVIOUS
  <2> QED
    BY <2>1, <2>2, <2>3, Zenon
<1>6. ASSUME NEW at \in Place, Goto(w, at) PROVE Moved(w, work[w].s, at)
  <2>1. work' = [work EXCEPT ![w] = [work[w] EXCEPT !.at = at]]
    BY <1>6 DEF Goto
  <2>2. [work[w] EXCEPT !.at = at]
          = [do |-> work[w].do, s |-> work[w].s, m |-> work[w].m, at |-> at]
    BY <1>1 DEF Work
  <2>3. work[w].s \in Sessions \cup {None}
    BY <1>1 DEF Work
  <2> QED
    BY <2>1, <2>2, <2>3, <1>2, <1>5 DEF Moved
<1>7. ASSUME NEW s \in Sessions \cup {None}, NEW at \in Place,
             work' = [work EXCEPT ![w].s = s, ![w].at = at]
      PROVE  Moved(w, s, at)
  <2>1. work' = [work EXCEPT ![w] = [[work[w] EXCEPT !.s = s] EXCEPT !.at = at]]
    BY <1>7
  <2> QED
    BY <2>1, <1>2, <1>5 DEF Moved
<1>8. ASSUME NEW s \in Sessions \cup {None}, work' = [work EXCEPT ![w].s = s]
      PROVE  Moved(w, s, work[w].at)
  <2>1. work' = [work EXCEPT ![w] = [work[w] EXCEPT !.s = s]]
    BY <1>8
  <2>2. [work[w] EXCEPT !.s = s]
          = [do |-> work[w].do, s |-> s, m |-> work[w].m, at |-> work[w].at]
    BY <1>1 DEF Work
  <2>3. work[w].at \in Place
    BY <1>1 DEF Work
  <2> QED
    BY <2>1, <2>2, <2>3, <1>2, <1>5 DEF Moved
<1> QED
  BY <1>2, <1>3, <1>4, <1>6, <1>7, <1>8 DEF Done

-----------------------------------------------------------------------------
(* A step that meets undefined behaviour changes nothing else, and some    *)
(* disconnect task has taken a session before it.                          *)
LEMMA OnlyFails ==
  ASSUME Inv, Next, fault' # fault
  PROVE  /\ UNCHANGED <<status, poolVars, listVars, peerVars, doneVars, ctlVars>>
         /\ \E s \in Sessions : node[s] = "released"
<1> USE DEF Inv
<1> DEFINE Rest == UNCHANGED <<status, poolVars, listVars, peerVars, doneVars, ctlVars>>
           Taken == \E s \in Sessions : node[s] = "released"
<1>1. ASSUME NEW s \in Sessions, Anchored(s), ~Listed(s) \/ Null(s) \/ obj[s] = "deleted"
      PROVE  Taken
  BY <1>1 DEF Anchored, Null, NodeInv, NodeOK, TypeOK, NodePtr
<1>2. ASSUME NEW w \in Workers, WorkerStep(w) PROVE Rest /\ Taken
  <2>1. CASE WaitErased(w)
    <3>1. work[w].s \in Sessions
      BY <2>1 DEF WaitErased, TypeOK, Work
    <3> QED
      BY <1>1, <2>1, <3>1 DEF WaitErased, Fail, RefInv, Refers, Dangling
  <2>2. CASE WaitNull(w)
    BY <1>1, <2>2, ServerAssumption DEF WaitNull, Fail, RefInv, Refers, Null, At, WorkInv, WorkOK
  <2>3. CASE DataBegin(w) \/ GoneBegin(w)
    BY <1>1, <2>3 DEF DataBegin, GoneBegin, Begin, BadDeref, Fail, RefInv, Refers, Dangling, At,
       WorkInv, WorkOK, stillVars
  <2>4. CASE DataLock(w) \/ DataEnter(w) \/ DataDone(w)
    BY <1>1, <2>4 DEF DataLock, Locks, DataEnter, DataDone, BadDeref, Fail, RefInv, Refers, Dangling, At,
       WorkInv, WorkOK, stillVars
  <2>5. CASE GoneRelease(w)
    BY <1>1, <2>5 DEF GoneRelease, BadDeref, Fail, RefInv, Refers, Dangling, At,
       WorkInv, WorkOK, stillVars
  <2>6. CASE GoneErase(w)
    BY <2>6 DEF GoneErase, Fail, NodeInv, OneTaker, Takes, At, WorkInv, WorkOK, stillVars
  <2>7. CASE Take(w) \/ AcceptStep(w)
    BY <1>2, <2>7 DEF Take, TakeAt, AcceptStep, AcceptNobody, AcceptRefuse, AcceptClient,
       AcceptLock, AcceptAppend, stillVars
  <2>8. CASE \/ WaitLock(w) \/ WaitCheck(w) \/ WaitData(w) \/ WaitNothing(w)
             \/ WaitGone(w) \/ WaitEnd(w) \/ GoneHandled(w) \/ GoneDelete(w)
    BY <2>8 DEF WaitLock, WaitCheck, WaitData, Reads, WaitNothing, WaitGone, Ends,
       WaitEnd, PassEnds, GoneHandled, GoneDelete, stillVars
  <2> QED
    BY <1>2, <2>1, <2>2, <2>3, <2>4, <2>5, <2>6, <2>7, <2>8
       DEF WorkerStep, WaitStep, DataStep, GoneStep
<1>3. CASE CtlRuns
  BY <1>1, <1>3 DEF CtlRuns, StopClose, StartFails, StartListens, StartWaits, WalkVisit,
     WalkEnd, ConnectLock, ConnectAppend, BadDeref, Fail, RefInv, Refers, Dangling, TypeOK
<1>4. CASE CtlBegin \/ StopReset
  BY <1>4 DEF CtlBegin, StartServer, StopServer, Walk, ServerConnectTo, StopReset, Resets
<1>5. CASE PeerStep
  BY <1>5 DEF PeerStep, PeerConnects, PeerSends, PeerEnds
<1> QED
  BY <1>2, <1>3, <1>4, <1>5 DEF Next

-----------------------------------------------------------------------------
(* Types *)

(* The records of the control thread *)
CtlRecord == [op : CtlOp, at : CtlPlace, s : Sessions \cup {None}, who : SUBSET Sessions]

LEMMA CtlMoves ==
  ASSUME TypeOK
  PROVE  /\ IdleCtl \in CtlRecord
         /\ \A at \in CtlPlace : CtlGoto(at) =>
              ctl' = [op |-> ctl.op, at |-> at, s |-> ctl.s, who |-> ctl.who]
         /\ \A s \in Sessions \cup {None} :
              [ctl EXCEPT !.s = s] = [op |-> ctl.op, at |-> ctl.at, s |-> s, who |-> ctl.who]
         /\ ctl.op \in CtlOp /\ ctl.at \in CtlPlace /\ ctl.s \in Sessions \cup {None}
         /\ ctl.who \in SUBSET Sessions
         /\ \A op \in CtlOp, at \in CtlPlace, s \in Sessions \cup {None}, who \in SUBSET Sessions :
              /\ [op |-> op, at |-> at, s |-> s, who |-> who] \in CtlRecord
              /\ CtlCall(op, at, s, who) => ctl' \in CtlRecord /\ calls' \in 0 .. MaxCalls
<1>1. ctl \in CtlRecord /\ calls \in 0 .. MaxCalls
  BY DEF TypeOK, CtlRecord
<1>2. IdleCtl \in CtlRecord
  BY DEF IdleCtl, CtlRecord, CtlOp, CtlPlace
<1>3. /\ \A at \in CtlPlace : CtlGoto(at) =>
              ctl' = [op |-> ctl.op, at |-> at, s |-> ctl.s, who |-> ctl.who]
      /\ \A s \in Sessions \cup {None} :
              [ctl EXCEPT !.s = s] = [op |-> ctl.op, at |-> ctl.at, s |-> s, who |-> ctl.who]
      /\ ctl.op \in CtlOp /\ ctl.at \in CtlPlace /\ ctl.s \in Sessions \cup {None}
      /\ ctl.who \in SUBSET Sessions
  BY <1>1 DEF CtlRecord, CtlGoto
<1>4. ASSUME NEW op \in CtlOp, NEW at \in CtlPlace, NEW s \in Sessions \cup {None},
             NEW who \in SUBSET Sessions
      PROVE  /\ [op |-> op, at |-> at, s |-> s, who |-> who] \in CtlRecord
             /\ CtlCall(op, at, s, who) => ctl' \in CtlRecord /\ calls' \in 0 .. MaxCalls
  <2>1. [op |-> op, at |-> at, s |-> s, who |-> who] \in CtlRecord
    BY <1>4 DEF CtlRecord
  <2> QED
    BY <1>1, <2>1, ServerAssumption DEF CtlCall
<1> QED
  BY <1>2, <1>3, <1>4

(* What the steps that can fail do when they do not *)
BeginEffect(w, do) ==
  /\ work[w].do = do /\ work[w].at = "begin" /\ work[w].s \in Sessions
  /\ Usable(work[w].s) /\ Moved(w, work[w].s, "lock")
  /\ UNCHANGED <<stillVars, queue, listVars, peerVars, doneVars>>

LockEffect(w) ==
  /\ work[w].do = "data" /\ work[w].at = "lock" /\ work[w].s \in Sessions
  /\ obj[work[w].s] # "deleted" /\ access[work[w].s] = Free
  /\ access' = [access EXCEPT ![work[w].s] = w]
  /\ Moved(w, work[w].s, "enter")
  /\ UNCHANGED <<stillVars, queue, list, node, obj, conn, clientMutex,
                 peerVars, doneVars>>

EnterEffect(w) ==
  /\ work[w].do = "data" /\ work[w].at = "enter" /\ work[w].s \in Sessions
  /\ work[w].m \in Msgs
  /\ Usable(work[w].s) /\ Moved(w, work[w].s, "handle")
  /\ handled' = [handled EXCEPT ![work[w].s] = Append(@, work[w].m)]
  /\ UNCHANGED <<stillVars, queue, listVars, peerVars, gone>>

DoneEffect(w) ==
  /\ work[w].do = "data" /\ work[w].at = "handle" /\ work[w].s \in Sessions
  /\ Usable(work[w].s) /\ Becomes(w, IdleWork)
  /\ access' = [access EXCEPT ![work[w].s] = Free]
  /\ UNCHANGED <<stillVars, queue, list, node, obj, conn, clientMutex,
                 peerVars, doneVars>>

ReleaseEffect(w) ==
  /\ work[w].do = "gone" /\ work[w].at = "lock" /\ work[w].s \in Sessions
  /\ Usable(work[w].s) /\ Moved(w, work[w].s, "handle")
  /\ access[work[w].s] = Free
  /\ gone[work[w].s] = 0
  /\ node' = [node EXCEPT ![work[w].s] = "released"]
  /\ gone' = [gone EXCEPT ![work[w].s] = 1]
  /\ UNCHANGED <<stillVars, queue, list, obj, conn, access, clientMutex,
                 peerVars, handled>>

EraseEffect(w) ==
  /\ work[w].do = "gone" /\ work[w].at = "erase" /\ work[w].s \in Sessions
  /\ Listed(work[w].s) /\ node[work[w].s] = "released"
  /\ Moved(w, work[w].s, "delete") /\ list' = Erased(work[w].s)
  /\ UNCHANGED <<stillVars, queue, node, obj, conn, access, clientMutex,
                 peerVars, doneVars>>

VisitEffect ==
  /\ ctl.at = "visit" /\ ctl.s \in Sessions /\ Usable(ctl.s)
  /\ conn' \in [Sessions -> {"up", "down"}]
  /\ ctl' = [op |-> ctl.op, at |-> "visit", s |-> After(ctl.s), who |-> ctl.who]
  /\ UNCHANGED <<status, poolVars, list, node, obj, access, clientMutex,
                 peerVars, doneVars, calls, fault>>

(* Undefined behaviour is not met, and the places of a worker are known. *)
LEMMA NotFailing ==
  ASSUME Inv, fault' = fault
  PROVE  /\ Alive => ~Fail("freed") /\ ~Fail("null") /\ ~Fail("race") /\ \A s \in Sessions : ~BadDeref(s)
         /\ \A w \in Workers :
              /\ Done(w) => Becomes(w, IdleWork)
              /\ \A at \in {"lock", "enter", "handle", "delete"} : Goto(w, at) => Moved(w, work[w].s, at)
              /\ \A do, at : At(w, do, at) => work[w].do = do /\ work[w].at = at /\ Alive
              /\ \A do \in {"data", "gone"} : work[w].do = do => work[w].s \in Sessions
              /\ work[w].do = "data" => work[w].m \in Msgs
<1>1. Alive => ~Fail("freed") /\ ~Fail("null") /\ ~Fail("race") /\ \A s \in Sessions : ~BadDeref(s)
  BY DEF Alive, Fail, BadDeref
<1>2. ASSUME NEW w \in Workers
      PROVE  /\ Done(w) => Becomes(w, IdleWork)
             /\ \A at \in {"lock", "enter", "handle", "delete"} : Goto(w, at) => Moved(w, work[w].s, at)
             /\ \A do, at : At(w, do, at) => work[w].do = do /\ work[w].at = at /\ Alive
             /\ \A do \in {"data", "gone"} : work[w].do = do => work[w].s \in Sessions
             /\ work[w].do = "data" => work[w].m \in Msgs
  BY WorkMoves DEF Inv, WorkInv, WorkOK, At, Place
<1> QED
  BY <1>1, <1>2

LEMMA BeginClean ==
  ASSUME Inv, fault' = fault, NEW w \in Workers, NEW do \in {"data", "gone"}, Begin(w, do)
  PROVE  BeginEffect(w, do)
BY NotFailing DEF Begin, BeginEffect

LEMMA DataLockClean ==
  ASSUME Inv, fault' = fault, NEW w \in Workers, DataLock(w)
  PROVE  LockEffect(w)
BY NotFailing DEF DataLock, Locks, LockEffect

LEMMA DataEnterClean ==
  ASSUME Inv, fault' = fault, NEW w \in Workers, DataEnter(w)
  PROVE  EnterEffect(w)
BY NotFailing DEF DataEnter, EnterEffect

LEMMA DataDoneClean ==
  ASSUME Inv, fault' = fault, NEW w \in Workers, DataDone(w)
  PROVE  DoneEffect(w)
BY NotFailing DEF DataDone, DoneEffect

LEMMA GoneReleaseClean ==
  ASSUME Inv, fault' = fault, NEW w \in Workers, GoneRelease(w)
  PROVE  ReleaseEffect(w)
<1>1. /\ work[w].do = "gone" /\ work[w].at = "lock" /\ work[w].s \in Sessions
      /\ Usable(work[w].s) /\ Moved(w, work[w].s, "handle")
      /\ access[work[w].s] = Free
      /\ node' = [node EXCEPT ![work[w].s] = "released"]
      /\ gone' = [gone EXCEPT ![work[w].s] = @ + 1]
      /\ UNCHANGED <<stillVars, queue, list, obj, conn, access, clientMutex,
                     peerVars, handled>>
  BY NotFailing DEF GoneRelease
<1>2. gone[work[w].s] = 0
  BY <1>1 DEF Inv, NodeInv, NodeOK, Usable
<1> QED
  BY <1>1, <1>2 DEF ReleaseEffect

LEMMA GoneEraseClean ==
  ASSUME Inv, fault' = fault, NEW w \in Workers, GoneErase(w)
  PROVE  EraseEffect(w)
<1>1. /\ work[w].do = "gone" /\ work[w].at = "erase" /\ work[w].s \in Sessions
      /\ Moved(w, work[w].s, "delete") /\ list' = Erased(work[w].s)
      /\ UNCHANGED <<stillVars, queue, node, obj, conn, access, clientMutex,
                     peerVars, doneVars>>
  BY NotFailing DEF GoneErase
<1>2. Listed(work[w].s) /\ node[work[w].s] = "released"
  BY <1>1 DEF Inv, NodeInv, OneTaker, Takes
<1> QED
  BY <1>1, <1>2 DEF EraseEffect

LEMMA WalkVisitClean ==
  ASSUME Inv, fault' = fault, WalkVisit
  PROVE  VisitEffect
<1> USE DEF Inv
<1>1. ctl.at = "visit" /\ ctl.s \in Sessions /\ Alive
  BY CtlMoves DEF WalkVisit
<1>2. /\ Usable(ctl.s)
      /\ conn' = IF ctl.s \in ctl.who THEN Disconnected(ctl.s) ELSE conn
      /\ ctl' = [ctl EXCEPT !.s = After(ctl.s)]
      /\ UNCHANGED <<status, poolVars, list, node, obj, access, clientMutex,
                     peerVars, doneVars, calls, fault>>
  BY NotFailing, <1>1 DEF WalkVisit
<1>3. After(ctl.s) \in Sessions \cup {None}
  BY ListType, <1>1, <1>2 DEF Usable
<1>4. ctl' = [op |-> ctl.op, at |-> "visit", s |-> After(ctl.s), who |-> ctl.who]
  BY CtlMoves, <1>1, <1>2, <1>3
<1>5. conn' \in [Sessions -> {"up", "down"}]
  BY <1>2 DEF Disconnected, TypeOK
<1> QED
  BY <1>1, <1>2, <1>4, <1>5 DEF VisitEffect

LEMMA TypeStep ==
  ASSUME Inv, Next, fault' = fault
  PROVE  TypeOK'
<1> USE DEF Inv, stillVars, poolVars, listVars, peerVars, doneVars, ctlVars
<1>1. /\ \A t \in Task : Submitted(t) \in Seq(Task) /\ Resubmitted(t) \in Seq(Task)
      /\ \A i \in DOMAIN queue : queue[i] \in Task /\ RemoveAt(queue, i) \in Seq(Task)
      /\ AcceptTask \in Task /\ WaitTask \in Task /\ <<>> \in Seq(Task)
      /\ \A s \in Sessions : GoneTask(s) \in Task
      /\ \A s \in Sessions, m \in Msgs : DataTask(s, m) \in Task
  BY QueueType
<1>2. \A s \in Sessions : Disconnected(s) \in [Sessions -> {"up", "down"}]
  BY DEF TypeOK, Disconnected
<1>3. <<>> \in Seq(Msgs) /\ <<>> \in Seq(Sessions)
  OBVIOUS
<1>4. ASSUME NEW w \in Workers, WorkerStep(w) PROVE TypeOK'
  <2> DEFINE s == work[w].s
  <2>1. CASE Take(w)
    BY <1>1, WorkMoves, <2>1 DEF Take, TakeAt, Becomes, TypeOK
  <2>2. CASE AcceptStep(w)
    <3>1. CASE AcceptNobody(w)
      BY <1>1, WorkMoves, <3>1 DEF AcceptNobody, Becomes, TypeOK
    <3>2. ASSUME NEW c \in Sessions, AcceptRefuse(w, c) PROVE TypeOK'
      BY <1>1, <1>3, WorkMoves, <3>2 DEF AcceptRefuse, Becomes, TypeOK, ObjState
    <3>3. ASSUME NEW c \in Sessions, AcceptClient(w, c) PROVE TypeOK'
      BY WorkMoves, <3>3 DEF AcceptClient, Moved, Becomes, Place, TypeOK, ObjState
    <3>4. CASE AcceptLock(w)
      BY WorkMoves, <3>4 DEF AcceptLock, Moved, Becomes, Place, TypeOK
    <3>5. CASE AcceptAppend(w)
      BY <1>1, ListType, WorkMoves, <3>5
         DEF AcceptAppend, WorkInv, WorkOK, At, Becomes, TypeOK, NodePtr
    <3> QED
      BY <2>2, <3>1, <3>2, <3>3, <3>4, <3>5 DEF AcceptStep
  <2>3. CASE WaitStep(w)
    <3>1. CASE WaitLock(w)
      BY ListType, WorkMoves, <3>1 DEF WaitLock, Moved, Becomes, Place, TypeOK
    <3>2. CASE WaitCheck(w)
      <4>1. s \in Sessions /\ After(s) \in Sessions \cup {None}
        BY ListType, <3>2 DEF WaitCheck, TypeOK, Work
      <4>2. work' \in [Workers -> Work]
        BY WorkMoves, <3>2, <4>1 DEF WaitCheck, Moved, Becomes, Place
      <4> QED
        BY <3>2, <4>2 DEF WaitCheck, TypeOK
    <3>3. ASSUME Pass(w) PROVE s \in Sessions /\ work' \in [Workers -> Work]
      BY ListType, WorkMoves, <3>3
         DEF Pass, At, Usable, WorkInv, WorkOK, Moved, Becomes, Place
    <3>4. CASE WaitData(w)
      <4>1. wire[s] \in Seq(Msgs) /\ wire[s] # <<>>
        BY <3>3, <3>4 DEF WaitData, Reads, LoadMessage, TypeOK
      <4>2. Head(wire[s]) \in Msgs /\ Tail(wire[s]) \in Seq(Msgs)
        BY <4>1
      <4> QED
        BY <1>1, <3>3, <3>4, <4>2 DEF WaitData, Reads, TypeOK
    <3>5. CASE WaitNothing(w)
      BY <3>3, <3>5 DEF WaitNothing, TypeOK
    <3>6. CASE WaitGone(w)
      BY <1>1, <1>2, <3>3, <3>6 DEF WaitGone, Ends, TypeOK
    <3>7. CASE WaitEnd(w)
      BY <1>1, WorkMoves, <3>7 DEF WaitEnd, PassEnds, Becomes, TypeOK
    <3> QED
      BY <2>3, <3>1, <3>2, <3>4, <3>5, <3>6, <3>7
         DEF WaitStep, WaitErased, WaitNull, Fail, Alive, At
  <2>4. CASE DataStep(w)
    <3>1. CASE DataBegin(w)
      <4>1. BeginEffect(w, "data")
        BY BeginClean, <3>1 DEF DataBegin
      <4> QED
        BY <4>1 DEF BeginEffect, Moved, Becomes, TypeOK
    <3>2. CASE DataLock(w)
      <4>1. LockEffect(w)
        BY DataLockClean, <3>2
      <4> QED
        BY <4>1 DEF LockEffect, Moved, Becomes, TypeOK
    <3>3. CASE DataEnter(w)
      <4>1. EnterEffect(w)
        BY DataEnterClean, <3>3
      <4>2. Append(handled[s], work[w].m) \in Seq(Msgs)
        BY <4>1 DEF EnterEffect, TypeOK
      <4> QED
        BY <4>1, <4>2 DEF EnterEffect, Moved, Becomes, TypeOK
    <3>4. CASE DataDone(w)
      <4>1. DoneEffect(w)
        BY DataDoneClean, <3>4
      <4> QED
        BY <4>1 DEF DoneEffect, Becomes, TypeOK
    <3> QED
      BY <2>4, <3>1, <3>2, <3>3, <3>4 DEF DataStep
  <2>5. CASE GoneStep(w)
    <3>1. CASE GoneBegin(w)
      <4>1. BeginEffect(w, "gone")
        BY BeginClean, <3>1 DEF GoneBegin
      <4> QED
        BY <4>1 DEF BeginEffect, Moved, Becomes, TypeOK
    <3>2. CASE GoneRelease(w)
      <4>1. ReleaseEffect(w)
        BY GoneReleaseClean, <3>2
      <4> QED
        BY <4>1 DEF ReleaseEffect, Moved, Becomes, TypeOK, NodePtr
    <3>3. CASE GoneHandled(w)
      BY WorkMoves, <3>3 DEF GoneHandled, Moved, Becomes, Place, TypeOK
    <3>4. CASE GoneErase(w)
      <4>1. EraseEffect(w)
        BY GoneEraseClean, <3>4
      <4>2. Erased(s) \in Seq(Sessions)
        BY ListType, <4>1 DEF EraseEffect
      <4> QED
        BY <4>1, <4>2 DEF EraseEffect, Moved, Becomes, TypeOK
    <3>5. CASE GoneDelete(w)
      BY WorkMoves, <1>2, <1>3, <3>5 DEF GoneDelete, At, WorkInv, WorkOK, Becomes, TypeOK, ObjState
    <3> QED
      BY <2>5, <3>1, <3>2, <3>3, <3>4, <3>5 DEF GoneStep
  <2> QED
    BY <1>4, <2>1, <2>2, <2>3, <2>4, <2>5 DEF WorkerStep
<1>5. CASE CtlBegin
  <2>1. CASE StartServer \/ StopServer
    <3>1. ctl' \in CtlRecord /\ calls' \in 0 .. MaxCalls
      BY CtlMoves, <2>1 DEF StartServer, StopServer, CtlOp, CtlPlace
    <3> QED
      BY <2>1, <3>1 DEF StartServer, StopServer, TypeOK, CtlRecord
  <2>2. ASSUME NEW op \in {"send", "disconnect"}, NEW who \in SUBSET Sessions, Walk(op, who)
        PROVE TypeOK'
    <3>1. ctl' \in CtlRecord /\ calls' \in 0 .. MaxCalls
      <4>1. CtlCall(op, "visit", First, who) /\ op \in CtlOp /\ "visit" \in CtlPlace
        BY <2>2 DEF Walk, CtlOp, CtlPlace
      <4> QED
        BY CtlMoves, ListType, <4>1
    <3> QED
      BY <2>2, <3>1 DEF Walk, TypeOK, CtlRecord
  <2>3. ASSUME NEW s \in Sessions, NEW keptAlive \in BOOLEAN, ServerConnectTo(s, keptAlive)
        PROVE TypeOK'
    <3>1. ctl' \in CtlRecord /\ calls' \in 0 .. MaxCalls
      BY CtlMoves, <2>3 DEF ServerConnectTo, CtlOp, CtlPlace
    <3> QED
      BY <2>3, <3>1 DEF ServerConnectTo, TypeOK, CtlRecord, ObjState
  <2> QED
    BY <1>5, <2>1, <2>2, <2>3 DEF CtlBegin
<1>6. CASE StopReset
  BY <1>1, <1>6 DEF StopReset, Resets, CtlGoto, CtlPlace, TypeOK
<1>7. CASE CtlRuns
  <2>1. IdleCtl \in CtlRecord
    BY CtlMoves
  <2>2. CASE StopClose
    <3>1. obj' \in [Sessions -> ObjState] /\ conn' \in [Sessions -> {"up", "down"}]
      BY <2>2 DEF StopClose, TypeOK, ObjState
    <3>2. list' \in Seq(Sessions) /\ wire' \in [Sessions -> Seq(Msgs)]
      BY <1>3, <2>2 DEF StopClose
    <3>3. ctl' \in CtlRecord
      BY <2>1, <2>2 DEF StopClose, TypeOK, CtlPlace, CtlRecord
    <3> QED
      BY <2>2, <3>1, <3>2, <3>3 DEF StopClose, TypeOK, Status, CtlRecord
  <2>3. CASE StartFails \/ StartListens \/ StartWaits
    BY <1>1, <2>1, <2>3 DEF StartFails, StartListens, StartWaits, CtlGoto, CtlPlace, CtlRecord, TypeOK, Status
  <2>4. CASE WalkVisit
    <3>1. VisitEffect
      BY WalkVisitClean, <2>4
    <3>2. After(ctl.s) \in Sessions \cup {None}
      BY ListType, <3>1 DEF VisitEffect, Usable
    <3>3. ctl' \in CtlRecord
      BY CtlMoves, <3>1, <3>2 DEF VisitEffect
    <3> QED
      BY <3>1, <3>3 DEF VisitEffect, TypeOK, CtlRecord
  <2>5. CASE WalkEnd \/ ConnectLock
    BY <2>1, <2>5 DEF WalkEnd, ConnectLock, CtlGoto, CtlPlace, CtlRecord, TypeOK
  <2>6. CASE ConnectAppend
    BY <2>1, <2>6, ListType DEF ConnectAppend, CtlInv, CtlRecord, TypeOK, NodePtr
  <2> QED
    BY <1>7, <2>2, <2>3, <2>4, <2>5, <2>6 DEF CtlRuns
<1>8. CASE PeerStep
  <2>1. ASSUME NEW s \in Sessions, PeerSends(s) PROVE TypeOK'
    <3>1. sent[s] + 1 \in Msgs /\ sent[s] + 1 \in 0 .. MaxMsgs
      BY <2>1, ServerAssumption DEF PeerSends, TypeOK, Msgs
    <3>2. Append(wire[s], sent[s] + 1) \in Seq(Msgs)
      BY <3>1 DEF TypeOK
    <3> QED
      BY <2>1, <3>1, <3>2 DEF PeerSends, TypeOK
  <2>2. ASSUME NEW s \in Sessions, PeerConnects(s) \/ PeerEnds(s) PROVE TypeOK'
    BY <2>2 DEF PeerConnects, PeerEnds, TypeOK, ObjState
  <2> QED
    BY <1>8, <2>1, <2>2 DEF PeerStep
<1> QED
  BY <1>4, <1>5, <1>6, <1>7, <1>8 DEF Next

-----------------------------------------------------------------------------
(* Workers and the control thread *)

(* Where the steps of a worker that cannot fail lead it *)
LEMMA StepMoves ==
  ASSUME Inv, fault' = fault, NEW w \in Workers
  PROVE  /\ Take(w) => /\ work[w] = IdleWork /\ 1 \in DOMAIN queue /\ queue[1] \in Task
                       /\ Becomes(w, [do |-> queue[1].do, s |-> queue[1].s, m |-> queue[1].m,
                                      at |-> "begin"])
         /\ AcceptNobody(w) \/ (\E c \in Sessions : AcceptRefuse(w, c)) =>
              work[w].do = "accept" /\ work[w].at = "begin" /\ Becomes(w, IdleWork)
         /\ AcceptAppend(w) => /\ work[w].do = "accept" /\ work[w].at = "append"
                               /\ work[w].s \in Sessions /\ Becomes(w, IdleWork)
         /\ WaitEnd(w) => work[w].do = "wait" /\ work[w].at = "check" /\ Becomes(w, IdleWork)
         /\ GoneDelete(w) => /\ work[w].do = "gone" /\ work[w].at = "delete"
                             /\ work[w].s \in Sessions /\ Becomes(w, IdleWork)
         /\ \A c \in Sessions : AcceptClient(w, c) =>
              work[w].do = "accept" /\ work[w].at = "begin" /\ Moved(w, c, "lock")
         /\ AcceptLock(w) => /\ work[w].do = "accept" /\ work[w].at = "lock"
                             /\ work[w].s \in Sessions /\ Moved(w, work[w].s, "append")
         /\ WaitLock(w) => /\ work[w].do = "wait" /\ work[w].at = "begin"
                           /\ First \in Sessions \cup {None} /\ Moved(w, First, "check")
         /\ Pass(w) => /\ work[w].do = "wait" /\ work[w].at = "load" /\ work[w].s \in Sessions
                       /\ Listed(work[w].s) /\ node[work[w].s] = "owned"
                       /\ After(work[w].s) \in Sessions \cup {None}
                       /\ Moved(w, After(work[w].s), "check")
         /\ WaitCheck(w) => /\ work[w].do = "wait" /\ work[w].at = "check" /\ work[w].s \in Sessions
                            /\ After(work[w].s) \in Sessions \cup {None} /\ Listed(work[w].s)
                            /\ IF node[work[w].s] = "owned"
                               THEN Moved(w, work[w].s, "load")
                               ELSE Moved(w, After(work[w].s), "check")
         /\ GoneHandled(w) => /\ work[w].do = "gone" /\ work[w].at = "handle"
                              /\ work[w].s \in Sessions /\ Moved(w, work[w].s, "erase")
         /\ ~WaitErased(w) /\ ~WaitNull(w)
<1> DEFINE s == work[w].s
<1>1. TypeOK /\ WorkOK(work[w]) /\ work[w] \in Work
  BY DEF Inv, WorkInv, TypeOK
<1>2. /\ Done(w) => Becomes(w, IdleWork)
      /\ \A at \in Place : Goto(w, at) => Moved(w, s, at)
      /\ \A r \in Sessions \cup {None}, at \in Place :
           work' = [work EXCEPT ![w].s = r, ![w].at = at] => Moved(w, r, at)
      /\ \A r \in Sessions \cup {None} :
           work' = [work EXCEPT ![w].s = r] => Moved(w, r, work[w].at)
      /\ \A t \in Task :
           work' = [work EXCEPT ![w] = [do |-> t.do, s |-> t.s, m |-> t.m, at |-> "begin"]]
             => Becomes(w, [do |-> t.do, s |-> t.s, m |-> t.m, at |-> "begin"])
  BY <1>1, WorkMoves
<1>3. {"lock", "append", "check", "load", "erase"} \subseteq Place
  BY DEF Place
<1>4. /\ First \in Sessions \cup {None}
      /\ \A r \in Sessions : Listed(r) => After(r) \in Sessions \cup {None}
  BY <1>1, ListType
<1>5. ASSUME Take(w)
      PROVE  /\ work[w] = IdleWork /\ 1 \in DOMAIN queue /\ queue[1] \in Task
             /\ Becomes(w, [do |-> queue[1].do, s |-> queue[1].s, m |-> queue[1].m, at |-> "begin"])
  <2>1. work[w] = IdleWork /\ 1 \in DOMAIN queue /\ queue[1] \in Task
    BY <1>1, <1>5, QueueType DEF Take, TakeAt
  <2> QED
    BY <1>2, <1>5, <2>1 DEF Take, TakeAt
<1>6. ASSUME AcceptNobody(w) \/ (\E c \in Sessions : AcceptRefuse(w, c))
      PROVE  work[w].do = "accept" /\ work[w].at = "begin" /\ Becomes(w, IdleWork)
  BY <1>2, <1>6 DEF AcceptNobody, AcceptRefuse, At
<1>7. ASSUME AcceptAppend(w)
      PROVE  /\ work[w].do = "accept" /\ work[w].at = "append"
             /\ s \in Sessions /\ Becomes(w, IdleWork)
  BY <1>1, <1>2, <1>7 DEF AcceptAppend, At, WorkOK
<1>8. ASSUME WaitEnd(w)
      PROVE  work[w].do = "wait" /\ work[w].at = "check" /\ Becomes(w, IdleWork)
  BY <1>2, <1>8 DEF WaitEnd, PassEnds, At
<1>9. ASSUME GoneDelete(w)
      PROVE  /\ work[w].do = "gone" /\ work[w].at = "delete"
             /\ s \in Sessions /\ Becomes(w, IdleWork)
  BY <1>1, <1>2, <1>9 DEF GoneDelete, At, WorkOK
<1>10. ASSUME NEW c \in Sessions, AcceptClient(w, c)
       PROVE  work[w].do = "accept" /\ work[w].at = "begin" /\ Moved(w, c, "lock")
  BY <1>2, <1>3, <1>10 DEF AcceptClient, At
<1>11. ASSUME AcceptLock(w)
       PROVE  /\ work[w].do = "accept" /\ work[w].at = "lock"
              /\ s \in Sessions /\ Moved(w, s, "append")
  BY <1>1, <1>2, <1>3, <1>11 DEF AcceptLock, At, WorkOK
<1>12. ASSUME WaitLock(w)
       PROVE  /\ work[w].do = "wait" /\ work[w].at = "begin"
              /\ First \in Sessions \cup {None} /\ Moved(w, First, "check")
  BY <1>2, <1>3, <1>4, <1>12 DEF WaitLock, At
<1>13. ASSUME Pass(w)
       PROVE  /\ work[w].do = "wait" /\ work[w].at = "load" /\ s \in Sessions
              /\ Listed(s) /\ node[s] = "owned"
              /\ After(s) \in Sessions \cup {None} /\ Moved(w, After(s), "check")
  <2>1. /\ work[w].do = "wait" /\ work[w].at = "load" /\ s \in Sessions
        /\ Listed(s) /\ node[s] = "owned"
    BY <1>1, <1>13 DEF Pass, At, Usable, WorkOK
  <2> QED
    BY <1>2, <1>3, <1>4, <1>13, <2>1 DEF Pass
<1>14. ASSUME WaitCheck(w)
       PROVE  /\ work[w].do = "wait" /\ work[w].at = "check" /\ s \in Sessions
              /\ After(s) \in Sessions \cup {None} /\ Listed(s)
              /\ IF node[s] = "owned" THEN Moved(w, s, "load") ELSE Moved(w, After(s), "check")
  <2>1. work[w].do = "wait" /\ work[w].at = "check" /\ s \in Sessions /\ Listed(s)
    BY <1>1, <1>14 DEF WaitCheck, At, Work
  <2>2. After(s) \in Sessions \cup {None}
    BY <1>4, <2>1
  <2>3. CASE node[s] = "owned"
    BY <1>2, <1>3, <1>14, <2>1, <2>2, <2>3 DEF WaitCheck
  <2>4. CASE node[s] # "owned"
    BY <1>2, <1>3, <1>14, <2>1, <2>2, <2>4 DEF WaitCheck
  <2> QED
    BY <2>1, <2>2, <2>3, <2>4
<1>15. ASSUME GoneHandled(w)
       PROVE  /\ work[w].do = "gone" /\ work[w].at = "handle"
              /\ s \in Sessions /\ Moved(w, s, "erase")
  BY <1>1, <1>2, <1>3, <1>15 DEF GoneHandled, At, WorkOK
<1>16. ~WaitErased(w) /\ ~WaitNull(w)
  BY DEF WaitErased, WaitNull, Fail, Alive, At
<1> QED
  BY <1>5, <1>6, <1>7, <1>8, <1>9, <1>10, <1>11, <1>12, <1>13, <1>14, <1>15, <1>16, Zenon

(* A step of a worker moves it to a place of its task, leaves what belongs *)
(* to the control thread alone, and is taken only while the server runs.   *)
LEMMA WorkerMoves ==
  ASSUME Inv, fault' = fault, NEW w \in Workers, WorkerStep(w)
  PROVE  /\ \E r \in Work : Becomes(w, r) /\ WorkOK(r)
         /\ UNCHANGED stillVars
         /\ status = "Connected" /\ ctl.at # "close"
<1> DEFINE s == work[w].s
           Moving == \E r \in Work : Becomes(w, r) /\ WorkOK(r)
<1>1. TypeOK /\ QuietInv /\ WorkOK(work[w]) /\ work[w] \in Work
  BY DEF Inv, TypeOK, WorkInv
<1>2. ASSUME NEW at \in Place, NEW r \in Sessions \cup {None}, Moved(w, r, at),
             WorkOK([do |-> work[w].do, s |-> r, m |-> work[w].m, at |-> at])
      PROVE  Moving
  BY <1>1, <1>2 DEF Moved, Work
<1>3. ASSUME NEW at \in Place, NEW r \in Sessions \cup {None}, Moved(w, r, at), at # "idle",
             \/ work[w].do = "accept" /\ at \in {"lock", "append"} /\ r \in Sessions
             \/ work[w].do = "wait" /\ at = "load" /\ r \in Sessions
             \/ work[w].do = "wait" /\ at = "check"
             \/ work[w].do = "data" /\ at \in {"lock", "enter", "handle"} /\ r = s
             \/ work[w].do = "gone" /\ at \in {"lock", "handle", "erase", "delete"} /\ r = s
      PROVE  Moving
  <2>1. WorkOK([do |-> work[w].do, s |-> r, m |-> work[w].m, at |-> at])
    BY <1>1, <1>3 DEF WorkOK, IdleWork
  <2> QED
    BY <1>2, <1>3, <2>1
<1>4. Becomes(w, IdleWork) => Moving
  <2>1. IdleWork \in Work /\ WorkOK(IdleWork)
    BY ServerAssumption DEF IdleWork, Work, WorkOK, Place
  <2> QED
    BY <2>1
<1>5. work[w].do # "none" => status = "Connected" /\ ctl.at # "close"
  BY <1>1 DEF QuietInv, IdleWork
<1>6. {"lock", "append", "check", "load", "enter", "handle", "erase", "delete"} \subseteq Place
  BY DEF Place
<1>7. CASE Take(w)
  <2>1. 1 \in DOMAIN queue /\ queue[1] \in Task
        /\ Becomes(w, [do |-> queue[1].do, s |-> queue[1].s, m |-> queue[1].m, at |-> "begin"])
    BY <1>7, StepMoves
  <2>2. \A t \in Task : WorkOK([do |-> t.do, s |-> t.s, m |-> t.m, at |-> "begin"])
    BY DEF Task, WorkOK, IdleWork
  <2>3. \A t \in Task : [do |-> t.do, s |-> t.s, m |-> t.m, at |-> "begin"] \in Work
    BY ServerAssumption DEF Task, Place, Msgs, Work
  <2>4. Moving
    BY <2>1, <2>2, <2>3
  <2>5. queue # <<>>
    BY <2>1
  <2> QED
    BY <1>1, <1>7, <2>4, <2>5 DEF Take, TakeAt, QuietInv
<1>8. CASE AcceptStep(w)
  <2>1. UNCHANGED stillVars
    BY <1>8 DEF AcceptStep, AcceptNobody, AcceptRefuse, AcceptClient, AcceptLock, AcceptAppend
  <2>2. work[w].do = "accept" /\ Moving
    BY <1>3, <1>4, <1>6, <1>8, StepMoves DEF AcceptStep
  <2> QED
    BY <1>5, <2>1, <2>2
<1>9. CASE WaitStep(w)
  <2>1. /\ WaitLock(w) \/ WaitCheck(w) \/ WaitEnd(w) \/ Pass(w)
        /\ UNCHANGED stillVars
    <3>1. ~WaitErased(w) /\ ~WaitNull(w)
      BY StepMoves
    <3> QED
      BY <1>9, <3>1 DEF WaitStep, WaitLock, WaitCheck, WaitData, Reads, WaitNothing, WaitGone,
         Ends, WaitEnd, PassEnds
  <2>2. work[w].do = "wait" /\ Moving
    BY <1>3, <1>4, <1>6, <2>1, StepMoves
  <2> QED
    BY <1>5, <2>1, <2>2
<1>10. CASE DataStep(w)
  <2>1. CASE DataBegin(w)
    BY <1>1, <1>3, <1>5, <1>6, <2>1, BeginClean DEF DataBegin, BeginEffect
  <2>2. CASE DataLock(w)
    BY <1>3, <1>5, <1>6, <2>2, DataLockClean DEF LockEffect
  <2>3. CASE DataEnter(w)
    BY <1>3, <1>5, <1>6, <2>3, DataEnterClean DEF EnterEffect
  <2>4. CASE DataDone(w)
    BY <1>4, <1>5, <2>4, DataDoneClean DEF DoneEffect
  <2> QED
    BY <1>10, <2>1, <2>2, <2>3, <2>4 DEF DataStep
<1>11. CASE GoneStep(w)
  <2>1. CASE GoneBegin(w)
    BY <1>3, <1>5, <1>6, <2>1, BeginClean DEF GoneBegin, BeginEffect
  <2>2. CASE GoneRelease(w)
    BY <1>3, <1>5, <1>6, <2>2, GoneReleaseClean DEF ReleaseEffect
  <2>3. CASE GoneHandled(w)
    BY <1>3, <1>5, <1>6, <2>3, StepMoves DEF GoneHandled
  <2>4. CASE GoneErase(w)
    BY <1>3, <1>5, <1>6, <2>4, GoneEraseClean DEF EraseEffect
  <2>5. CASE GoneDelete(w)
    BY <1>4, <1>5, <2>5, StepMoves DEF GoneDelete
  <2> QED
    BY <1>11, <2>1, <2>2, <2>3, <2>4, <2>5 DEF GoneStep
<1> QED
  BY <1>7, <1>8, <1>9, <1>10, <1>11 DEF WorkerStep

(* Where workers and control thread stand *)
LEMMA PlaceStep ==
  ASSUME Inv, Next, fault' = fault
  PROVE  WorkInv' /\ CtlInv' /\ QuietInv'
<1>1. TypeOK /\ WorkInv /\ CtlInv /\ QuietInv
  BY DEF Inv
<1>2. ASSUME NEW w \in Workers, WorkerStep(w) PROVE WorkInv' /\ CtlInv' /\ QuietInv'
  <2>1. /\ \E r \in Work : Becomes(w, r) /\ WorkOK(r)
        /\ UNCHANGED stillVars
        /\ status = "Connected" /\ ctl.at # "close"
    BY <1>2, WorkerMoves
  <2>2. WorkInv'
    BY <1>1, <2>1 DEF WorkInv, Becomes
  <2>3. CtlInv' /\ QuietInv'
    BY <1>1, <2>1 DEF CtlInv, QuietInv, stillVars, ctlVars
  <2> QED
    BY <2>2, <2>3
<1>3. CASE CtlBegin
  <2>1. UNCHANGED <<status, queue, work>> /\ ctl.at = "idle"
    BY <1>3 DEF CtlBegin, StartServer, StopServer, Walk, ServerConnectTo, CtlCall, listVars,
       peerVars, doneVars, poolVars
  <2>2. ASSUME StartServer \/ StopServer PROVE CtlInv' /\ ctl'.at # "close"
    <3>1. CASE StopServer
      BY <1>1, <2>1, <3>1 DEF StopServer, CtlCall, CtlInv
    <3>2. CASE StartServer /\ status = "Connected"
      BY <1>1, <2>1, <3>2 DEF StartServer, CtlCall, CtlInv
    <3>3. CASE StartServer /\ status # "Connected"
      BY <1>1, <2>1, <3>3 DEF StartServer, CtlCall, CtlInv
    <3> QED
      BY <2>2, <3>1, <3>2, <3>3
  <2>3. ASSUME NEW op, NEW who, Walk(op, who) PROVE CtlInv' /\ ctl'.at # "close"
    BY <1>1, <2>1, <2>3 DEF Walk, CtlCall, CtlInv, poolVars
  <2>4. ASSUME NEW s \in Sessions, NEW k \in BOOLEAN, ServerConnectTo(s, k)
        PROVE  CtlInv' /\ ctl'.at # "close"
    BY <1>1, <2>1, <2>4 DEF ServerConnectTo, CtlCall, CtlInv, poolVars
  <2> QED
    BY <1>1, <1>3, <2>1, <2>2, <2>3, <2>4 DEF CtlBegin, WorkInv, QuietInv
<1>4. CASE StopReset
  <2>1. ctl' = [op |-> ctl.op, at |-> "close", s |-> ctl.s, who |-> ctl.who]
    BY <1>1, <1>4, CtlMoves DEF StopReset, Resets, CtlPlace
  <2>2. CtlInv'
    BY <1>1, <1>4, <2>1 DEF StopReset, Resets, CtlInv
  <2> QED
    BY <1>1, <1>4, <2>2 DEF StopReset, Resets, WorkInv, QuietInv
<1>5. CASE CtlRuns
  <2>1. CASE StopClose
    <3>1. ctl'.at \in {"open", "idle"} /\ CtlInv'
      BY <1>1, <2>1 DEF StopClose, CtlInv, IdleCtl, TypeOK, poolVars
    <3> QED
      BY <1>1, <2>1, <3>1 DEF StopClose, WorkInv, QuietInv, poolVars
  <2>2. CASE StartFails
    BY <1>1, <2>2 DEF StartFails, CtlInv, IdleCtl, WorkInv, QuietInv, poolVars
  <2>3. CASE StartListens
    <3>1. ctl' = [op |-> ctl.op, at |-> "second", s |-> ctl.s, who |-> ctl.who]
      BY <1>1, <2>3, CtlMoves DEF StartListens, CtlPlace
    <3> QED
      BY <1>1, <2>3, <3>1 DEF StartListens, CtlInv, WorkInv, QuietInv
  <2>4. CASE StartWaits
    BY <1>1, <2>4 DEF StartWaits, CtlInv, IdleCtl, WorkInv, QuietInv
  <2>5. CASE WalkVisit
    <3>1. VisitEffect
      BY <2>5, WalkVisitClean
    <3> QED
      BY <1>1, <3>1 DEF VisitEffect, CtlInv, WorkInv, QuietInv, poolVars
  <2>6. CASE WalkEnd \/ ConnectAppend
    BY <1>1, <2>6 DEF WalkEnd, ConnectAppend, CtlInv, IdleCtl, WorkInv, QuietInv, poolVars
  <2>7. CASE ConnectLock
    <3>1. ctl' = [op |-> ctl.op, at |-> "append", s |-> ctl.s, who |-> ctl.who]
      BY <1>1, <2>7, CtlMoves DEF ConnectLock, CtlPlace
    <3> QED
      BY <1>1, <2>7, <3>1 DEF ConnectLock, CtlInv, WorkInv, QuietInv, poolVars
  <2> QED
    BY <1>5, <2>1, <2>2, <2>3, <2>4, <2>5, <2>6, <2>7 DEF CtlRuns
<1>6. CASE PeerStep
  BY <1>1, <1>6 DEF PeerStep, PeerConnects, PeerSends, PeerEnds, poolVars, ctlVars, CtlInv,
     WorkInv, QuietInv
<1> QED
  BY <1>2, <1>3, <1>4, <1>5, <1>6 DEF Next

(* Who holds the mutex of a session *)
LEMMA AccessStep ==
  ASSUME Inv, Next, fault' = fault
  PROVE  AccessInv'
<1> DEFINE Inside(r) == r.do = "data" /\ r.at \in {"enter", "handle"}
           OK(v, r) == /\ Inside(r) => access[r.s] = v
                       /\ Inside(r) /\ r.at = "handle" => node[r.s] = "owned"
<1>1. TypeOK /\ WorkInv /\ QuietInv /\ AccessInv
  BY DEF Inv
<1>2. AccessInv <=> \A v \in Workers : OK(v, work[v])
  BY DEF AccessInv
<1>3. /\ \A v \in Workers : OK(v, work[v])
      /\ \A v \in Workers : work[v].do = "data" => work[v].s \in Sessions
      /\ access \in [Sessions -> Workers \cup {Free}] /\ node \in [Sessions -> NodePtr]
  BY <1>1, <1>2 DEF WorkInv, WorkOK, TypeOK
<1>4. ASSUME NEW w \in Workers, WorkerStep(w), NEW v \in Workers
      PROVE  OK(v, work[v])'
  <2> DEFINE s == work[w].s
  <2>1. ASSUME NEW r, Becomes(w, r), UNCHANGED <<access, node>>, ~Inside(r)
        PROVE  OK(v, work[v])'
    BY <1>3, <2>1 DEF Becomes
  <2>2. ~Inside(IdleWork)
    BY DEF IdleWork
  <2>3. ASSUME NEW r, NEW at, Moved(w, r, at), UNCHANGED <<access, node>>,
               work[w].do # "data" \/ at \notin {"enter", "handle"}
        PROVE  OK(v, work[v])'
    BY <2>1, <2>3 DEF Moved
  <2>4. CASE \/ Take(w) \/ WaitStep(w) \/ AcceptNobody(w) \/ AcceptLock(w)
             \/ GoneHandled(w) \/ GoneDelete(w)
             \/ \E c \in Sessions : AcceptRefuse(w, c) \/ AcceptClient(w, c)
    <3>1. UNCHANGED <<access, node>>
      BY <2>4, StepMoves DEF Take, TakeAt, WaitStep, WaitLock, WaitCheck, WaitData, Reads,
         WaitNothing, WaitGone, Ends, WaitEnd, PassEnds, AcceptNobody, AcceptLock,
         AcceptRefuse, AcceptClient, GoneHandled, GoneDelete, listVars
    <3>2. CASE Take(w)
      BY <2>1, <3>1, <3>2, StepMoves
    <3>3. CASE \/ WaitEnd(w) \/ AcceptNobody(w) \/ GoneDelete(w)
               \/ \E c \in Sessions : AcceptRefuse(w, c)
      BY <2>1, <2>2, <3>1, <3>3, StepMoves
    <3>4. CASE \/ WaitLock(w) \/ WaitCheck(w) \/ Pass(w) \/ AcceptLock(w) \/ GoneHandled(w)
               \/ \E c \in Sessions : AcceptClient(w, c)
      BY <2>3, <3>1, <3>4, StepMoves
    <3> QED
      BY <2>4, <3>2, <3>3, <3>4, StepMoves DEF WaitStep, WaitData, Reads, WaitNothing, WaitGone, Ends
  <2>5. CASE AcceptAppend(w)
    <3>1. /\ Becomes(w, IdleWork) /\ s \in Sessions
          /\ access' = access /\ node' = [node EXCEPT ![s] = "owned"]
      BY <2>5, StepMoves DEF AcceptAppend
    <3> QED
      BY <1>3, <2>2, <3>1 DEF Becomes
  <2>6. CASE DataBegin(w) \/ GoneBegin(w)
    <3>1. UNCHANGED <<access, node>> /\ Moved(w, s, "lock")
      BY <2>6, BeginClean DEF DataBegin, GoneBegin, BeginEffect, listVars
    <3> QED
      BY <2>3, <3>1
  <2>7. CASE DataLock(w)
    <3>1. LockEffect(w) /\ Free \notin Workers
      BY <2>7, DataLockClean, ServerAssumption
    <3> QED
      BY <1>3, <3>1 DEF LockEffect, Moved, Becomes
  <2>8. CASE DataEnter(w)
    <3>1. EnterEffect(w)
      BY <2>8, DataEnterClean
    <3> QED
      BY <1>3, <3>1 DEF EnterEffect, Usable, Moved, Becomes, listVars
  <2>9. CASE DataDone(w)
    BY <1>3, <2>2, <2>9, DataDoneClean DEF DoneEffect, Becomes
  <2>10. CASE GoneRelease(w)
    <3>1. ReleaseEffect(w) /\ Free \notin Workers
      BY <2>10, GoneReleaseClean, ServerAssumption
    <3> QED
      BY <1>3, <3>1 DEF ReleaseEffect, Moved, Becomes
  <2>11. CASE GoneErase(w)
    BY <2>3, <2>11, GoneEraseClean DEF EraseEffect
  <2> QED
    BY <1>4, <2>4, <2>5, <2>6, <2>7, <2>8, <2>9, <2>10, <2>11
       DEF WorkerStep, AcceptStep, DataStep, GoneStep
<1>5. CASE CtlBegin \/ StopReset \/ CtlRuns \/ PeerStep
  <2>1. UNCHANGED <<access, work>>
    BY <1>5, WalkVisitClean DEF CtlBegin, StartServer, StopServer, Walk, ServerConnectTo, StopReset,
       Resets, CtlRuns, StopClose, StartFails, StartListens, StartWaits, VisitEffect, WalkEnd,
       ConnectLock, ConnectAppend, PeerStep, PeerConnects, PeerSends, PeerEnds, poolVars, listVars
  <2>2. CASE ConnectAppend
    BY <1>3, <2>1, <2>2 DEF ConnectAppend, AccessInv
  <2>3. CASE ~ConnectAppend
    <3>1. node' = node
      BY <1>5, <2>3, WalkVisitClean DEF CtlBegin, StartServer, StopServer, Walk, ServerConnectTo,
         StopReset, Resets, CtlRuns, StopClose, StartFails, StartListens, StartWaits, VisitEffect,
         WalkEnd, ConnectLock, PeerStep, PeerConnects, PeerSends, PeerEnds, listVars
    <3> QED
      BY <1>1, <2>1, <3>1 DEF AccessInv
  <2> QED
    BY <2>2, <2>3
<1> QED
  BY <1>2, <1>4, <1>5 DEF Next, AccessInv

(* The loops: what taking a task and adding one does to their number *)
LEMMA LoopSame ==
  ASSUME NEW do, AtMostOne(do), queue' = queue,
         \A v \in Workers : work'[v].do = do => work[v].do = do
  PROVE  /\ AtMostOne(do)'
         /\ (\A v \in Workers : work'[v].do = do <=> work[v].do = do)
              => (Present(do)' <=> Present(do))
BY DEF AtMostOne, Queued, Runs, Present

LEMMA LoopOther ==
  ASSUME TypeOK, NEW do, AtMostOne(do), NEW t \in Task, t.do # do, queue' = Append(queue, t),
         \A v \in Workers : work'[v].do = do <=> work[v].do = do
  PROVE  AtMostOne(do)' /\ (Present(do)' <=> Present(do))
<1>1. /\ DOMAIN queue = 1 .. Len(queue) /\ Len(queue) \in Nat
      /\ DOMAIN queue' = 1 .. Len(queue) + 1
      /\ \A i \in DOMAIN queue : queue'[i] = queue[i] /\ i # Len(queue) + 1
      /\ queue'[Len(queue) + 1] = t
  BY AppendFacts DEF TypeOK
<1>2. \A i \in DOMAIN queue' : queue'[i].do = do => i \in DOMAIN queue /\ queue[i].do = do
  BY <1>1
<1>3. \A i \in DOMAIN queue : queue[i].do = do => i \in DOMAIN queue' /\ queue'[i].do = do
  BY <1>1
<1> QED
  BY <1>2, <1>3 DEF AtMostOne, Queued, Runs, Present

LEMMA LoopAdded ==
  ASSUME TypeOK, NEW do, ~Queued(do), NEW t \in Task, t.do = do, queue' = Append(queue, t),
         \A v \in Workers : work'[v].do # do
  PROVE  AtMostOne(do)' /\ Present(do)'
<1>1. /\ DOMAIN queue = 1 .. Len(queue) /\ Len(queue) \in Nat
      /\ DOMAIN queue' = 1 .. Len(queue) + 1
      /\ \A i \in DOMAIN queue : queue'[i] = queue[i] /\ i # Len(queue) + 1
      /\ queue'[Len(queue) + 1] = t
  BY AppendFacts DEF TypeOK
<1>2. \A i \in DOMAIN queue' : queue'[i].do = do => i = Len(queue) + 1
  BY <1>1 DEF Queued
<1>3. Len(queue) + 1 \in DOMAIN queue' /\ queue'[Len(queue) + 1].do = do
  BY <1>1
<1> QED
  BY <1>2, <1>3 DEF AtMostOne, Queued, Runs, Present

LEMMA LoopTaken ==
  ASSUME TypeOK, NEW do, AtMostOne(do), NEW w \in Workers, work[w].do # do, 1 \in DOMAIN queue,
         queue' = RemoveAt(queue, 1), work'[w].do = queue[1].do,
         \A v \in Workers : v # w => work'[v] = work[v]
  PROVE  AtMostOne(do)' /\ (Present(do)' <=> Present(do))
<1>0. queue \in Seq(Task)
  BY DEF TypeOK
<1>1. /\ DOMAIN queue = 1 .. Len(queue) /\ Len(queue) \in Nat
      /\ DOMAIN queue' = 1 .. Len(queue) - 1
      /\ \A i \in 1 .. Len(queue) - 1 : queue'[i] = IF i < 1 THEN queue[i] ELSE queue[i + 1]
  BY ONLY <1>0, RemoveFacts, 1 \in DOMAIN queue, queue' = RemoveAt(queue, 1)
<1>2. \A i \in DOMAIN queue' : i + 1 \in DOMAIN queue /\ queue'[i] = queue[i + 1] /\ i + 1 # 1
  BY <1>1
<1>3. \A i \in DOMAIN queue : i # 1 => i - 1 \in DOMAIN queue' /\ queue'[i - 1] = queue[i]
  BY <1>1
<1>4. \A i, j \in DOMAIN queue' : i + 1 = j + 1 => i = j
  BY <1>1
<1>5. CASE queue[1].do = do
  <2>1. /\ \A i \in DOMAIN queue : queue[i].do = do => i = 1
        /\ \A v \in Workers : work[v].do # do
    BY <1>5 DEF AtMostOne, Queued, Runs
  <2>2. ~Queued(do)'
    BY <1>2, <2>1 DEF Queued
  <2>3. \A v \in Workers : work'[v].do = do <=> v = w
    BY <1>5, <2>1
  <2> QED
    BY <1>5, <2>2, <2>3 DEF AtMostOne, Queued, Runs, Present
<1>6. CASE queue[1].do # do
  <2>1. \A v \in Workers : work'[v].do = do <=> work[v].do = do
    BY <1>6
  <2>2. Queued(do)' <=> Queued(do)
    BY <1>2, <1>3, <1>6 DEF Queued
  <2>3. \A i, j \in DOMAIN queue' : queue'[i].do = do /\ queue'[j].do = do => i = j
    BY <1>2, <1>4 DEF AtMostOne
  <2> QED
    BY <2>1, <2>2, <2>3 DEF AtMostOne, Runs, Present
<1> QED
  BY <1>5, <1>6

(* How many loops there are *)
LEMMA LoopStep ==
  ASSUME Inv, Next, fault' = fault
  PROVE  LoopInv'
<1>1. TypeOK /\ CtlInv /\ QuietInv /\ LoopInv
  BY DEF Inv
<1> DEFINE Keeps(do) == AtMostOne(do)' /\ (~terminate => (Present(do)' <=> Present(do)))
<1>2. AtMostOne("accept") /\ AtMostOne("wait")
  BY <1>1 DEF LoopInv
<1>3. ASSUME NEW w \in Workers, WorkerStep(w), NEW do \in {"accept", "wait"} PROVE Keeps(do)
  <2>1. AtMostOne(do) /\ IdleWork.do = "none" /\ status = "Connected"
    BY <1>2, <1>3, WorkerMoves DEF IdleWork
  <2>2. ASSUME UNCHANGED queue,
               \A v \in Workers : work'[v].do = do <=> work[v].do = do
        PROVE  Keeps(do)
    BY <2>1, <2>2, LoopSame
  <2>3. ASSUME NEW t \in Task, t.do # do, queue' = Submitted(t),
               \A v \in Workers : work'[v].do = do <=> work[v].do = do
        PROVE  Keeps(do)
    <3>1. CASE terminate
      BY <2>1, <2>3, <3>1, LoopSame DEF Submitted
    <3>2. CASE ~terminate
      BY <1>1, <2>1, <2>3, <3>2, LoopOther DEF Submitted
    <3> QED
      BY <3>1, <3>2
  <2>4. ASSUME NEW t \in Task, t.do = work[w].do, work[w].do \in {"accept", "wait"},
               queue' = Resubmitted(t), Becomes(w, IdleWork)
        PROVE  Keeps(do)
    <3>1. queue' = Submitted(t)
      BY <2>1, <2>4 DEF Resubmitted
    <3>2. CASE work[w].do # do
      BY <2>1, <2>3, <2>4, <3>1, <3>2 DEF Becomes
    <3>3. CASE work[w].do = do
      <4>1. /\ ~Queued(do) /\ Present(do)
            /\ \A v \in Workers : v # w => work[v].do # do
        BY <2>1, <3>3 DEF AtMostOne, Runs, Present
      <4>2. \A v \in Workers : work'[v].do # do
        BY <2>1, <2>4, <4>1 DEF Becomes
      <4>3. CASE terminate
        BY <2>1, <3>1, <4>2, <4>3, LoopSame DEF Submitted
      <4>4. CASE ~terminate
        BY <1>1, <2>4, <3>1, <3>3, <4>1, <4>2, <4>4, LoopAdded DEF Submitted
      <4> QED
        BY <4>3, <4>4
    <3> QED
      BY <3>2, <3>3
  <2>5. /\ AcceptTask \in Task /\ AcceptTask.do = "accept"
        /\ WaitTask \in Task /\ WaitTask.do = "wait"
        /\ \A s \in Sessions : GoneTask(s) \in Task /\ GoneTask(s).do = "gone"
        /\ \A s \in Sessions, m \in Msgs : DataTask(s, m) \in Task /\ DataTask(s, m).do = "data"
    BY <1>1, QueueType DEF AcceptTask, WaitTask, GoneTask, DataTask
  <2>6. ASSUME NEW s, NEW at, Moved(w, s, at)
        PROVE  \A v \in Workers : work'[v].do = do <=> work[v].do = do
    BY <2>6 DEF Moved, Becomes
  <2>7. ASSUME Becomes(w, IdleWork), work[w].do # do
        PROVE  \A v \in Workers : work'[v].do = do <=> work[v].do = do
    BY <2>1, <2>7 DEF Becomes
  <2>8. CASE Take(w)
    <3>1. /\ work[w] = IdleWork /\ 1 \in DOMAIN queue
          /\ Becomes(w, [do |-> queue[1].do, s |-> queue[1].s, m |-> queue[1].m, at |-> "begin"])
          /\ queue' = RemoveAt(queue, 1)
      BY <2>8, StepMoves DEF Take, TakeAt
    <3>2. /\ work[w].do # do /\ work'[w].do = queue[1].do
          /\ \A v \in Workers : v # w => work'[v] = work[v]
      BY <2>1, <3>1 DEF Becomes
    <3> QED
      BY <1>1, <2>1, <3>1, <3>2, LoopTaken
  <2>9. CASE AcceptStep(w)
    <3>1. CASE AcceptNobody(w) \/ AcceptAppend(w) \/ \E c \in Sessions : AcceptRefuse(w, c)
      <4>1. work[w].do = "accept" /\ Becomes(w, IdleWork)
        BY <3>1, StepMoves
      <4>2. queue' = Resubmitted(AcceptTask)
        BY <3>1 DEF AcceptNobody, AcceptAppend, AcceptRefuse
      <4> QED
        BY <2>4, <2>5, <4>1, <4>2
    <3>2. CASE AcceptLock(w) \/ \E c \in Sessions : AcceptClient(w, c)
      <4>1. \E s, at : Moved(w, s, at)
        BY <3>2, StepMoves
      <4>2. queue' = queue
        BY <3>2 DEF AcceptLock, AcceptClient
      <4> QED
        BY <2>2, <2>6, <4>1, <4>2
    <3> QED
      BY <2>9, <3>1, <3>2 DEF AcceptStep
  <2>10. CASE WaitStep(w)
    <3>1. CASE WaitEnd(w)
      BY <2>4, <2>5, <3>1, StepMoves DEF WaitEnd, PassEnds
    <3>2. CASE WaitLock(w) \/ WaitCheck(w) \/ WaitNothing(w)
      <4>1. \E s, at : Moved(w, s, at)
        BY <3>2, StepMoves DEF WaitNothing
      <4>2. queue' = queue
        BY <3>2 DEF WaitLock, WaitCheck, WaitNothing
      <4> QED
        BY <2>2, <2>6, <4>1, <4>2
    <3>3. CASE WaitData(w)
      <4>1. work[w].s \in Sessions /\ \E s, at : Moved(w, s, at)
        BY <3>3, StepMoves DEF WaitData, Reads
      <4>2. Head(wire[work[w].s]) \in Msgs
        <5>1. wire[work[w].s] \in Seq(Msgs) /\ wire[work[w].s] # <<>>
          BY <1>1, <3>3, <4>1 DEF WaitData, Reads, LoadMessage, TypeOK
        <5> QED
          BY <5>1
      <4>3. queue' = Submitted(DataTask(work[w].s, Head(wire[work[w].s])))
        BY <3>3 DEF WaitData, Reads
      <4> QED
        BY <2>3, <2>5, <2>6, <4>1, <4>2, <4>3
    <3>4. CASE WaitGone(w)
      <4>1. work[w].s \in Sessions /\ \E s, at : Moved(w, s, at)
        BY <3>4, StepMoves DEF WaitGone, Ends
      <4>2. queue' = Submitted(GoneTask(work[w].s))
        BY <3>4 DEF WaitGone, Ends
      <4> QED
        BY <2>3, <2>5, <2>6, <4>1, <4>2
    <3> QED
      BY <2>10, <3>1, <3>2, <3>3, <3>4, StepMoves DEF WaitStep
  <2>11. CASE DataStep(w)
    <3>1. CASE DataBegin(w)
      BY <2>2, <2>6, <3>1, BeginClean DEF DataBegin, BeginEffect
    <3>2. CASE DataLock(w)
      BY <2>2, <2>6, <3>2, DataLockClean DEF LockEffect
    <3>3. CASE DataEnter(w)
      BY <2>2, <2>6, <3>3, DataEnterClean DEF EnterEffect
    <3>4. CASE DataDone(w)
      BY <2>2, <2>7, <3>4, DataDoneClean DEF DoneEffect
    <3> QED
      BY <2>11, <3>1, <3>2, <3>3, <3>4 DEF DataStep
  <2>12. CASE GoneStep(w)
    <3>1. CASE GoneBegin(w)
      BY <2>2, <2>6, <3>1, BeginClean DEF GoneBegin, BeginEffect
    <3>2. CASE GoneRelease(w)
      BY <2>2, <2>6, <3>2, GoneReleaseClean DEF ReleaseEffect
    <3>3. CASE GoneHandled(w)
      BY <2>2, <2>6, <3>3, StepMoves DEF GoneHandled
    <3>4. CASE GoneErase(w)
      BY <2>2, <2>6, <3>4, GoneEraseClean DEF EraseEffect
    <3>5. CASE GoneDelete(w)
      BY <2>2, <2>7, <3>5, StepMoves DEF GoneDelete
    <3> QED
      BY <2>12, <3>1, <3>2, <3>3, <3>4, <3>5 DEF GoneStep
  <2> QED
    BY <1>3, <2>8, <2>9, <2>10, <2>11, <2>12 DEF WorkerStep
<1>4. CASE \E w \in Workers : WorkerStep(w)
  <2>1. UNCHANGED stillVars
    BY <1>4, WorkerMoves
  <2>2. Keeps("accept") /\ Keeps("wait")
    BY <1>3, <1>4
  <2> QED
    BY <1>1, <2>1, <2>2 DEF LoopInv, CtlInv, stillVars, ctlVars
<1>5. ASSUME queue' = <<>>, \A w \in Workers : work'[w] = IdleWork, NEW do \in {"accept", "wait"}
      PROVE  AtMostOne(do)' /\ ~Present(do)'
  BY <1>5 DEF AtMostOne, Queued, Runs, Present, IdleWork
<1>6. CASE StopReset
  <2>1. ctl' = [op |-> ctl.op, at |-> "close", s |-> ctl.s, who |-> ctl.who]
    BY <1>1, <1>6, CtlMoves DEF StopReset, Resets, CtlPlace
  <2> QED
    BY <1>5, <1>6, <2>1 DEF StopReset, Resets, LoopInv
<1>7. CASE CtlRuns
  <2>1. CASE StopClose \/ StartFails
    <3>1. status' # "Connected" /\ UNCHANGED <<queue, work>>
      BY <2>1 DEF StopClose, StartFails, poolVars
    <3> QED
      BY <1>1, <3>1 DEF LoopInv, AtMostOne, Queued, Runs
  <2>2. CASE StartListens
    <3>1. /\ queue = <<>> /\ \A w \in Workers : work[w] = IdleWork
          /\ ~terminate
      BY <1>1, <2>2 DEF StartListens, CtlInv, QuietInv
    <3>2. /\ ctl' = [op |-> ctl.op, at |-> "second", s |-> ctl.s, who |-> ctl.who]
          /\ queue' = Append(queue, AcceptTask) /\ work' = work
      BY <1>1, <2>2, <3>1, CtlMoves DEF StartListens, CtlPlace, Submitted
    <3>3. /\ AcceptTask \in Task /\ AcceptTask.do = "accept"
          /\ \A do \in {"accept", "wait"} :
               /\ ~Queued(do) /\ AtMostOne(do) /\ ~Present(do)
               /\ \A v \in Workers : work[v].do # do /\ work'[v].do # do
      BY <1>1, <3>1, <3>2, QueueType DEF AcceptTask, AtMostOne, Queued, Runs, Present, IdleWork
    <3>4. AtMostOne("accept")' /\ Present("accept")'
      BY <1>1, <3>2, <3>3, LoopAdded
    <3>5. AtMostOne("wait")' /\ ~Present("wait")'
      BY <1>1, <3>2, <3>3, LoopOther
    <3> QED
      BY <3>2, <3>4, <3>5 DEF LoopInv
  <2>3. CASE StartWaits
    <3>1. ~terminate /\ ~Present("wait") /\ Present("accept")
      BY <1>1, <2>3 DEF StartWaits, CtlInv, LoopInv
    <3>2. ctl' = IdleCtl /\ queue' = Append(queue, WaitTask) /\ work' = work
      BY <2>3, <3>1 DEF StartWaits, Submitted
    <3>3. WaitTask \in Task /\ WaitTask.do = "wait"
      BY <1>1, QueueType DEF WaitTask
    <3>4. ~Queued("wait") /\ \A v \in Workers : work'[v].do # "wait"
      BY <3>1, <3>2 DEF Present, Runs
    <3>5. AtMostOne("wait")' /\ Present("wait")'
      BY <1>1, <3>2, <3>3, <3>4, LoopAdded
    <3>6. AtMostOne("accept")' /\ Present("accept")'
      BY <1>1, <1>2, <3>1, <3>2, <3>3, LoopOther
    <3> QED
      BY <3>2, <3>5, <3>6 DEF LoopInv, IdleCtl
  <2>4. CASE WalkVisit \/ WalkEnd \/ ConnectLock \/ ConnectAppend
    <3>1. UNCHANGED <<status, queue, work>>
      BY <2>4, WalkVisitClean DEF VisitEffect, WalkEnd, ConnectLock, ConnectAppend, poolVars
    <3>2. ctl.at \in {"visit", "lock", "append"} /\ ctl'.at \in {"visit", "append", "idle"}
      BY <1>1, <2>4, WalkVisitClean, CtlMoves
         DEF VisitEffect, WalkEnd, ConnectLock, ConnectAppend, IdleCtl, CtlPlace
    <3> QED
      BY <1>1, <3>1, <3>2 DEF LoopInv, AtMostOne, Present, Queued, Runs
  <2> QED
    BY <1>7, <2>1, <2>2, <2>3, <2>4 DEF CtlRuns
<1>8. CASE CtlBegin \/ PeerStep
  <2>1. UNCHANGED <<status, queue, work>>
    BY <1>8 DEF CtlBegin, StartServer, StopServer, Walk, ServerConnectTo, PeerStep, PeerConnects,
       PeerSends, PeerEnds, poolVars
  <2>2. \/ ctl' = ctl
        \/ ctl.at = "idle" /\ ctl'.at \in {"join", "open", "visit", "lock"}
    <3>1. ASSUME NEW op, NEW at, NEW s, NEW who, CtlCall(op, at, s, who)
          PROVE  ctl.at = "idle" /\ ctl'.at = at
      BY <3>1 DEF CtlCall
    <3>2. CASE CtlBegin
      BY <3>1, <3>2 DEF CtlBegin, StartServer, StopServer, Walk, ServerConnectTo
    <3>3. CASE PeerStep
      BY <3>3 DEF PeerStep, PeerConnects, PeerSends, PeerEnds, ctlVars
    <3> QED
      BY <1>8, <3>2, <3>3
  <2> QED
    BY <1>1, <2>1, <2>2 DEF LoopInv, AtMostOne, Present, Queued, Runs
<1> QED
  BY <1>4, <1>6, <1>7, <1>8 DEF Next

(* The list after emplace_back and after erase *)
LEMMA ListAppends ==
  ASSUME TypeOK, NEW c \in Sessions, list' = Append(list, c)
  PROVE  /\ \A s \in Sessions : Listed(s)' <=> Listed(s) \/ s = c
         /\ Distinct /\ ~Listed(c) => Distinct'
<1>1. /\ DOMAIN list = 1 .. Len(list) /\ Len(list) \in Nat
      /\ DOMAIN list' = 1 .. Len(list) + 1
      /\ \A i \in DOMAIN list : list'[i] = list[i] /\ i # Len(list) + 1
      /\ list'[Len(list) + 1] = c
  <2>1. list \in Seq(Sessions)
    BY DEF TypeOK
  <2> QED
    BY <2>1, AppendFacts
<1>2. \A i \in DOMAIN list' : i \in DOMAIN list \/ i = Len(list) + 1
  BY <1>1
<1>3. \A i \in DOMAIN list : i \in DOMAIN list'
  BY <1>1
<1>4. Len(list) + 1 \in DOMAIN list'
  BY <1>1
<1> QED
  BY <1>1, <1>2, <1>3, <1>4 DEF Listed, Distinct

LEMMA ListErases ==
  ASSUME TypeOK, Distinct, NEW c \in Sessions, Listed(c), list' = Erased(c)
  PROVE  /\ \A s \in Sessions : Listed(s)' <=> Listed(s) /\ s # c
         /\ Distinct'
<1> DEFINE p == Position(c)
<1>1. p \in DOMAIN list /\ list[p] = c
  BY ListType
<1>2. /\ DOMAIN list = 1 .. Len(list) /\ Len(list) \in Nat
      /\ DOMAIN list' = 1 .. Len(list) - 1
      /\ \A i \in 1 .. Len(list) - 1 : list'[i] = IF i < p THEN list[i] ELSE list[i + 1]
  <2>1. list \in Seq(Sessions)
    BY DEF TypeOK
  <2>2. p \in DOMAIN list /\ list' = RemoveAt(list, p)
    BY <1>1 DEF Erased
  <2> HIDE DEF p
  <2> QED
    BY <2>1, <2>2, RemoveFacts
<1>3. p \in 1 .. Len(list)
  BY <1>1, <1>2
<1> HIDE DEF p
<1> DEFINE Old(i) == IF i < p THEN i ELSE i + 1
<1>4. \A i \in DOMAIN list' : Old(i) \in DOMAIN list /\ Old(i) # p /\ list'[i] = list[Old(i)]
  BY <1>2, <1>3
<1>5. \A i, j \in DOMAIN list' : Old(i) = Old(j) => i = j
  BY <1>2, <1>3
<1>6. \A i \in DOMAIN list : i # p => \E j \in DOMAIN list' : Old(j) = i
  <2>1. ASSUME NEW i \in DOMAIN list, i < p PROVE i \in DOMAIN list' /\ Old(i) = i
    BY <1>2, <1>3, <2>1
  <2>2. ASSUME NEW i \in DOMAIN list, i > p PROVE i - 1 \in DOMAIN list' /\ Old(i - 1) = i
    BY <1>2, <1>3, <2>2
  <2> QED
    BY <1>2, <1>3, <2>1, <2>2
<1> HIDE DEF Old
<1>7. \A i \in DOMAIN list : list[i] = c <=> i = p
  BY <1>1 DEF Distinct
<1>8. Distinct'
  BY <1>4, <1>5 DEF Distinct
<1>9. ASSUME NEW s \in Sessions PROVE Listed(s)' <=> Listed(s) /\ s # c
  <2>1. ASSUME NEW i \in DOMAIN list', list'[i] = s PROVE Listed(s) /\ s # c
    BY <1>4, <1>7, <2>1 DEF Listed
  <2>2. ASSUME NEW i \in DOMAIN list, list[i] = s, s # c PROVE \E j \in DOMAIN list' : list'[j] = s
    BY <1>4, <1>6, <1>7, <2>2
  <2> QED
    BY <2>1, <2>2 DEF Listed
<1> QED
  BY <1>8, <1>9

(* The life of a session and of its list node *)
LEMMA NodeSame ==
  ASSUME NodeInv, UNCHANGED <<list, node, obj, gone>>,
         \A s \in Sessions :
           /\ CtlCarries(s)' <=> CtlCarries(s)
           /\ \A v \in Workers :
                /\ AcceptCarries(v, s)' <=> AcceptCarries(v, s)
                /\ Takes(v, s)' <=> Takes(v, s)
                /\ Takes(v, s) => (work'[v].at = "delete" <=> work[v].at = "delete")
  PROVE  NodeInv'
<1>1. Distinct'
  BY DEF NodeInv, Distinct
<1>2. \A s \in Sessions : (Listed(s)' <=> Listed(s)) /\ (Carried(s)' <=> Carried(s))
  BY DEF Listed, Carried
<1>3. \A s \in Sessions : NodeOK(s)'
  BY <1>2 DEF NodeInv, NodeOK
<1>4. \A s \in Sessions : OneCarrier(s)' /\ OneTaker(s)'
  BY <1>2 DEF NodeInv, OneCarrier, OneTaker
<1> QED
  BY <1>1, <1>3, <1>4 DEF NodeInv

(* One worker moves on: what it carries or takes is all that may change.   *)
LEMMA CarriesMoved ==
  ASSUME NEW w \in Workers, NEW r, Becomes(w, r)
  PROVE  \A v \in Workers, s \in Sessions :
           /\ v # w => /\ AcceptCarries(v, s)' <=> AcceptCarries(v, s)
                       /\ Takes(v, s)' <=> Takes(v, s)
                       /\ work'[v] = work[v]
           /\ AcceptCarries(w, s)' <=> r.do = "accept" /\ r.at \in {"lock", "append"} /\ r.s = s
           /\ Takes(w, s)' <=> r.do = "gone" /\ r.at \in {"handle", "erase", "delete"} /\ r.s = s
           /\ work'[w] = r
BY DEF Becomes, AcceptCarries, Takes

LEMMA NodeWorkerStep ==
  ASSUME Inv, fault' = fault, NEW w \in Workers, WorkerStep(w)
  PROVE  NodeInv'
<1> DEFINE c == work[w].s
<1>1. TypeOK /\ NodeInv
  BY DEF Inv
<1>2. UNCHANGED ctl
  BY WorkerMoves DEF stillVars, ctlVars
<1>3. ASSUME NEW r, Becomes(w, r), UNCHANGED <<list, node, obj, gone>>,
             r.do = "accept" => r.at = "begin" \/ (r.at = "append" /\ work[w].do = "accept"
                                                   /\ work[w].at = "lock" /\ r.s = c),
             r.do = "gone" => \/ r.at \in {"begin", "lock"}
                              \/ r.at = "erase" /\ work[w].do = "gone" /\ work[w].at = "handle"
                                 /\ r.s = c,
             work[w].do = "accept" => work[w].at = "begin" \/ (r.do = "accept" /\ r.at = "append"),
             work[w].do = "gone" => work[w].at \in {"begin", "lock"} \/ (r.do = "gone" /\ r.at = "erase")
      PROVE  NodeInv'
  <2>1. \A s \in Sessions :
           /\ CtlCarries(s)' <=> CtlCarries(s)
           /\ \A v \in Workers :
                /\ AcceptCarries(v, s)' <=> AcceptCarries(v, s)
                /\ Takes(v, s)' <=> Takes(v, s)
                /\ Takes(v, s) => (work'[v].at = "delete" <=> work[v].at = "delete")
    BY <1>2, <1>3, CarriesMoved DEF CtlCarries, AcceptCarries, Takes
  <2> QED
    BY <1>1, <1>3, <2>1, NodeSame
<1>4. IdleWork.do = "none"
  BY DEF IdleWork
<1>5. ASSUME NEW s \in Sessions
      PROVE  /\ NodeOK(s) /\ OneCarrier(s) /\ OneTaker(s)
             /\ CtlCarries(s)' <=> CtlCarries(s)
             /\ obj[s] \in ObjState /\ node[s] \in NodePtr
  BY <1>1, <1>2 DEF NodeInv, CtlCarries, TypeOK
<1>6. ASSUME UNCHANGED list PROVE Distinct' /\ \A s \in Sessions : Listed(s)' <=> Listed(s)
  BY <1>1, <1>6 DEF NodeInv, Distinct, Listed
<1>7. ASSUME NEW at \in {"check", "load"}, NEW r, Moved(w, r, at), work[w].do = "wait",
             UNCHANGED <<list, node, obj, gone>>
      PROVE  NodeInv'
  BY <1>3, <1>7 DEF Moved
<1>8. ASSUME NEW at, Moved(w, c, at), UNCHANGED <<list, node, obj, gone>>,
             \/ work[w].do = "accept" /\ work[w].at = "lock" /\ at = "append"
             \/ work[w].do = "data"
             \/ work[w].do = "gone" /\ work[w].at = "begin" /\ at = "lock"
             \/ work[w].do = "gone" /\ work[w].at = "handle" /\ at = "erase"
      PROVE  NodeInv'
  BY <1>3, <1>8 DEF Moved
<1>9. CASE Take(w)
  <2>1. UNCHANGED <<list, node, obj, gone>>
    BY <1>9 DEF Take, TakeAt, listVars, doneVars
  <2> QED
    BY <1>3, <1>4, <1>9, <2>1, StepMoves
<1>10. CASE AcceptNobody(w) \/ WaitEnd(w)
  <2>1. UNCHANGED <<list, node, obj, gone>>
    BY <1>10 DEF AcceptNobody, WaitEnd, PassEnds, listVars, doneVars
  <2> QED
    BY <1>3, <1>4, <1>10, <2>1, StepMoves
<1>11. CASE AcceptLock(w) \/ GoneHandled(w)
  <2>1. UNCHANGED <<list, node, obj, gone>>
    BY <1>11 DEF AcceptLock, GoneHandled, listVars, doneVars
  <2> QED
    BY <1>8, <1>11, <2>1, StepMoves
<1>12. CASE WaitLock(w) \/ WaitCheck(w) \/ WaitData(w) \/ WaitNothing(w) \/ WaitGone(w)
  <2>1. UNCHANGED <<list, node, obj, gone>>
    BY <1>12 DEF WaitLock, WaitCheck, WaitData, Reads, WaitNothing, WaitGone, Ends, listVars, doneVars
  <2> QED
    BY <1>7, <1>12, <2>1, StepMoves DEF WaitData, Reads, WaitNothing, WaitGone, Ends
<1>13. CASE DataBegin(w) \/ GoneBegin(w)
  BY <1>8, <1>13, BeginClean DEF DataBegin, GoneBegin, BeginEffect, listVars, doneVars
<1>14. CASE DataLock(w)
  BY <1>8, <1>14, DataLockClean DEF LockEffect, doneVars
<1>15. CASE DataEnter(w)
  BY <1>8, <1>15, DataEnterClean DEF EnterEffect, listVars
<1>16. CASE DataDone(w)
  BY <1>3, <1>4, <1>16, DataDoneClean DEF DoneEffect, doneVars
<1>17. ASSUME NEW a \in Sessions, AcceptRefuse(w, a) PROVE NodeInv'
  <2>1. /\ Becomes(w, IdleWork) /\ work[w].do = "accept" /\ work[w].at = "begin"
        /\ obj[a] = "waiting" /\ obj' = [obj EXCEPT ![a] = "refused"]
        /\ UNCHANGED <<list, node, gone>>
    BY <1>17, StepMoves DEF AcceptRefuse, doneVars
  <2>2. \A v \in Workers, s \in Sessions :
          /\ AcceptCarries(v, s)' <=> AcceptCarries(v, s)
          /\ Takes(v, s)' <=> Takes(v, s)
          /\ v # w => work'[v] = work[v]
    BY <1>4, <2>1, CarriesMoved DEF AcceptCarries, Takes
  <2>3. ASSUME NEW s \in Sessions PROVE NodeOK(s)' /\ OneCarrier(s)' /\ OneTaker(s)'
    <3>1. obj'[s] = IF s = a THEN "refused" ELSE obj[s]
      BY <1>1, <2>1 DEF TypeOK
    <3>2. Carried(s)' <=> Carried(s)
      BY <1>5, <2>2 DEF Carried
    <3>3. NodeOK(s)'
      BY <1>5, <1>6, <2>1, <3>1, <3>2 DEF NodeOK
    <3>4. OneCarrier(s)' /\ OneTaker(s)'
      BY <1>5, <1>6, <2>1, <2>2 DEF OneCarrier, OneTaker, Takes
    <3> QED
      BY <3>3, <3>4
  <2> QED
    BY <1>6, <2>1, <2>3 DEF NodeInv
<1>18. ASSUME NEW a \in Sessions, AcceptClient(w, a) PROVE NodeInv'
  <2>1. /\ Moved(w, a, "lock") /\ work[w].do = "accept" /\ work[w].at = "begin"
        /\ obj[a] = "waiting" /\ obj' = [obj EXCEPT ![a] = "live"]
        /\ UNCHANGED <<list, node, gone>>
    BY <1>18, StepMoves DEF AcceptClient, doneVars
  <2>2. \A v \in Workers, s \in Sessions :
          /\ AcceptCarries(v, s)' <=> AcceptCarries(v, s) \/ (v = w /\ s = a)
          /\ Takes(v, s)' <=> Takes(v, s)
          /\ v # w => work'[v] = work[v]
    BY <2>1, CarriesMoved DEF AcceptCarries, Takes, Moved
  <2>3. ASSUME NEW s \in Sessions PROVE NodeOK(s)' /\ OneCarrier(s)' /\ OneTaker(s)'
    <3>1. obj'[s] = IF s = a THEN "live" ELSE obj[s]
      BY <1>1, <2>1 DEF TypeOK
    <3>2. Carried(s)' <=> Carried(s) \/ s = a
      BY <1>5, <2>2 DEF Carried
    <3>3. NodeOK(s)'
      BY <1>5, <1>6, <2>1, <3>1, <3>2 DEF NodeOK
    <3>4. ~Carried(a) /\ ~CtlCarries(a) /\ \A v \in Workers : ~AcceptCarries(v, a)
      BY <1>5, <2>1 DEF NodeOK, Carried
    <3>5. OneCarrier(s)'
      BY <1>5, <2>2, <3>4 DEF OneCarrier
    <3>6. OneTaker(s)'
      BY <1>5, <1>6, <2>1, <2>2 DEF OneTaker, Takes
    <3> QED
      BY <3>3, <3>5, <3>6
  <2> QED
    BY <1>6, <2>1, <2>3 DEF NodeInv
<1>19. CASE AcceptAppend(w)
  <2>1. /\ Becomes(w, IdleWork) /\ work[w].do = "accept" /\ work[w].at = "append" /\ c \in Sessions
        /\ list' = Append(list, c) /\ node' = [node EXCEPT ![c] = "owned"]
        /\ UNCHANGED <<obj, gone>>
    BY <1>19, StepMoves DEF AcceptAppend, doneVars
  <2>2. AcceptCarries(w, c) /\ node[c] = "none" /\ obj[c] = "live" /\ ~Listed(c)
    BY <1>5, <2>1 DEF AcceptCarries, NodeOK, Carried
  <2>3. \A v \in Workers, s \in Sessions :
          /\ AcceptCarries(v, s)' <=> AcceptCarries(v, s) /\ v # w
          /\ Takes(v, s)' <=> Takes(v, s)
          /\ v # w => work'[v] = work[v]
    BY <1>4, <2>1, CarriesMoved DEF Takes
  <2>4. Distinct' /\ \A s \in Sessions : Listed(s)' <=> Listed(s) \/ s = c
    BY <1>1, <2>1, <2>2, ListAppends DEF NodeInv
  <2>5. ASSUME NEW s \in Sessions PROVE NodeOK(s)' /\ OneCarrier(s)' /\ OneTaker(s)'
    <3>1. node'[s] = IF s = c THEN "owned" ELSE node[s]
      BY <1>1, <2>1 DEF TypeOK
    <3>2. Carried(s)' <=> Carried(s) /\ s # c
      <4>1. AcceptCarries(w, s) => s = c
        BY DEF AcceptCarries
      <4>2. ~CtlCarries(c) /\ \A v \in Workers : AcceptCarries(v, c) => v = w
        BY <1>5, <2>1, <2>2 DEF OneCarrier
      <4> QED
        BY <1>5, <2>3, <4>1, <4>2 DEF Carried
    <3>3. NodeOK(s)'
      BY <1>5, <2>1, <2>2, <2>4, <3>1, <3>2 DEF NodeOK
    <3>4. OneCarrier(s)'
      BY <1>5, <2>3 DEF OneCarrier
    <3>5. OneTaker(s)'
      BY <1>5, <2>1, <2>2, <2>3, <2>4, <3>1 DEF OneTaker, Takes
    <3> QED
      BY <3>3, <3>4, <3>5
  <2> QED
    BY <2>4, <2>5 DEF NodeInv
<1>20. CASE GoneRelease(w)
  <2>1. /\ Moved(w, c, "handle") /\ work[w].do = "gone" /\ work[w].at = "lock" /\ c \in Sessions
        /\ Usable(c) /\ gone[c] = 0
        /\ node' = [node EXCEPT ![c] = "released"] /\ gone' = [gone EXCEPT ![c] = 1]
        /\ UNCHANGED <<list, obj>>
    BY <1>20, GoneReleaseClean DEF ReleaseEffect
  <2>2. \A v \in Workers, s \in Sessions :
          /\ AcceptCarries(v, s)' <=> AcceptCarries(v, s)
          /\ Takes(v, s)' <=> Takes(v, s) \/ (v = w /\ s = c)
          /\ v # w => work'[v] = work[v]
          /\ work'[w].at = "handle"
    BY <2>1, CarriesMoved DEF AcceptCarries, Takes, Moved
  <2>3. \A v \in Workers : ~Takes(v, c)
    BY <1>5, <2>1 DEF OneTaker, Usable
  <2>4. ASSUME NEW s \in Sessions PROVE NodeOK(s)' /\ OneCarrier(s)' /\ OneTaker(s)'
    <3>1. /\ node'[s] = IF s = c THEN "released" ELSE node[s]
          /\ gone'[s] = IF s = c THEN 1 ELSE gone[s]
      BY <1>1, <2>1 DEF TypeOK
    <3>2. Carried(s)' <=> Carried(s)
      BY <1>5, <2>2 DEF Carried
    <3>3. NodeOK(s)'
      BY <1>5, <1>6, <2>1, <3>1, <3>2 DEF NodeOK, Usable
    <3>4. OneCarrier(s)'
      BY <1>5, <2>2 DEF OneCarrier
    <3>5. OneTaker(s)'
      BY <1>5, <1>6, <2>1, <2>2, <2>3, <3>1 DEF OneTaker, Usable
    <3> QED
      BY <3>3, <3>4, <3>5
  <2> QED
    BY <1>6, <2>1, <2>4 DEF NodeInv
<1>21. CASE GoneErase(w)
  <2>1. /\ Moved(w, c, "delete") /\ work[w].do = "gone" /\ work[w].at = "erase" /\ c \in Sessions
        /\ Listed(c) /\ node[c] = "released" /\ list' = Erased(c)
        /\ UNCHANGED <<node, obj, gone>>
    BY <1>21, GoneEraseClean DEF EraseEffect, doneVars
  <2>2. \A v \in Workers, s \in Sessions :
          /\ AcceptCarries(v, s)' <=> AcceptCarries(v, s)
          /\ Takes(v, s)' <=> Takes(v, s)
          /\ v # w => work'[v] = work[v]
          /\ work'[w].at = "delete"
    BY <2>1, CarriesMoved DEF AcceptCarries, Takes, Moved
  <2>3. Takes(w, c) /\ \A s \in Sessions : Takes(w, s) => s = c
    BY <2>1 DEF Takes
  <2>4. Distinct' /\ \A s \in Sessions : Listed(s)' <=> Listed(s) /\ s # c
    BY <1>1, <2>1, ListErases DEF NodeInv
  <2>5. ASSUME NEW s \in Sessions PROVE NodeOK(s)' /\ OneCarrier(s)' /\ OneTaker(s)'
    <3>1. Carried(s)' <=> Carried(s)
      BY <1>5, <2>2 DEF Carried
    <3>2. NodeOK(s)'
      BY <1>5, <2>1, <2>4, <3>1 DEF NodeOK
    <3>3. OneCarrier(s)'
      BY <1>5, <2>2 DEF OneCarrier
    <3>4. OneTaker(s)'
      BY <1>5, <2>1, <2>2, <2>3, <2>4 DEF OneTaker
    <3> QED
      BY <3>2, <3>3, <3>4
  <2> QED
    BY <2>4, <2>5 DEF NodeInv
<1>22. CASE GoneDelete(w)
  <2>1. /\ Becomes(w, IdleWork) /\ work[w].do = "gone" /\ work[w].at = "delete" /\ c \in Sessions
        /\ obj' = [obj EXCEPT ![c] = "deleted"]
        /\ UNCHANGED <<list, node, gone>>
    BY <1>22, StepMoves DEF GoneDelete, doneVars
  <2>2. \A v \in Workers, s \in Sessions :
          /\ AcceptCarries(v, s)' <=> AcceptCarries(v, s)
          /\ Takes(v, s)' => Takes(v, s) /\ v # w
          /\ v # w => work'[v] = work[v]
    BY <1>4, <2>1, CarriesMoved DEF AcceptCarries, Takes
  <2>3. node[c] = "released"
    BY <1>5, <2>1 DEF OneTaker, Takes
  <2>4. ASSUME NEW s \in Sessions PROVE NodeOK(s)' /\ OneCarrier(s)' /\ OneTaker(s)'
    <3>1. obj'[s] = IF s = c THEN "deleted" ELSE obj[s]
      BY <1>1, <2>1 DEF TypeOK
    <3>2. Carried(s)' <=> Carried(s)
      BY <1>5, <2>2 DEF Carried
    <3>3. NodeOK(s)'
      BY <1>5, <1>6, <2>1, <2>3, <3>1, <3>2 DEF NodeOK
    <3>4. OneCarrier(s)'
      BY <1>5, <2>2 DEF OneCarrier
    <3>5. OneTaker(s)'
      BY <1>5, <1>6, <2>1, <2>2 DEF OneTaker
    <3> QED
      BY <3>3, <3>4, <3>5
  <2> QED
    BY <1>6, <2>1, <2>4 DEF NodeInv
<1> QED
  BY <1>9, <1>10, <1>11, <1>12, <1>13, <1>14, <1>15, <1>16, <1>17, <1>18, <1>19, <1>20, <1>21, <1>22,
     StepMoves DEF WorkerStep, AcceptStep, WaitStep, DataStep, GoneStep

LEMMA NodeOtherStep ==
  ASSUME Inv, fault' = fault, CtlBegin \/ StopReset \/ CtlRuns \/ PeerStep
  PROVE  NodeInv'
<1> DEFINE c == ctl.s
<1>1. TypeOK /\ NodeInv /\ CtlInv /\ QuietInv
  BY DEF Inv
<1>2. UNCHANGED work
  BY WalkVisitClean DEF CtlBegin, StartServer, StopServer, Walk, ServerConnectTo, StopReset,
     Resets, CtlRuns, StopClose, StartFails, StartListens, StartWaits, VisitEffect, WalkEnd,
     ConnectLock, ConnectAppend, PeerStep, PeerConnects, PeerSends, PeerEnds, poolVars
<1>3. \A v \in Workers, s \in Sessions :
        /\ AcceptCarries(v, s)' <=> AcceptCarries(v, s)
        /\ Takes(v, s)' <=> Takes(v, s)
        /\ work'[v] = work[v]
  BY <1>2 DEF AcceptCarries, Takes
<1>4. ASSUME UNCHANGED <<list, node, obj, gone>>,
             \A s \in Sessions : CtlCarries(s)' <=> CtlCarries(s)
      PROVE  NodeInv'
  BY <1>1, <1>3, <1>4, NodeSame
<1>5. ASSUME NEW s \in Sessions
      PROVE  /\ NodeOK(s) /\ OneCarrier(s) /\ OneTaker(s)
             /\ obj[s] \in ObjState /\ node[s] \in NodePtr
  BY <1>1 DEF NodeInv, TypeOK
<1>6. ASSUME UNCHANGED list PROVE Distinct' /\ \A s \in Sessions : Listed(s)' <=> Listed(s)
  BY <1>1, <1>6 DEF NodeInv, Distinct, Listed
<1>7. ASSUME NEW op, NEW at, NEW s, NEW who, CtlCall(op, at, s, who)
      PROVE  /\ ctl.at = "idle" /\ ctl'.at = at /\ ctl'.s = s
             /\ at \notin {"lock", "append"} => \A r \in Sessions : CtlCarries(r)' <=> CtlCarries(r)
  BY <1>7 DEF CtlCall, CtlCarries
<1>8. CASE StartServer \/ StopServer \/ \E op, who : Walk(op, who)
  <2>1. UNCHANGED <<list, node, obj, gone>>
    BY <1>8 DEF StartServer, StopServer, Walk, listVars, doneVars
  <2>2. \A s \in Sessions : CtlCarries(s)' <=> CtlCarries(s)
    BY <1>7, <1>8 DEF StartServer, StopServer, Walk
  <2> QED
    BY <1>4, <2>1, <2>2
<1>9. ASSUME NEW a \in Sessions, NEW k \in BOOLEAN, ServerConnectTo(a, k) PROVE NodeInv'
  <2>1. /\ obj[a] = "new" /\ obj' = [obj EXCEPT ![a] = "live"]
        /\ ctl.at = "idle" /\ ctl'.at = "lock" /\ ctl'.s = a
        /\ UNCHANGED <<list, node, gone>>
    BY <1>7, <1>9 DEF ServerConnectTo, doneVars
  <2>2. ASSUME NEW s \in Sessions PROVE NodeOK(s)' /\ OneCarrier(s)' /\ OneTaker(s)'
    <3>1. obj'[s] = IF s = a THEN "live" ELSE obj[s]
      BY <1>1, <2>1 DEF TypeOK
    <3>2. /\ Carried(s)' <=> Carried(s) \/ s = a
          /\ CtlCarries(s)' <=> s = a
      BY <1>3, <2>1 DEF Carried, CtlCarries
    <3>3. NodeOK(s)'
      BY <1>5, <1>6, <2>1, <3>1, <3>2 DEF NodeOK
    <3>4. \A v \in Workers : ~AcceptCarries(v, a)
      BY <1>5, <2>1 DEF NodeOK, Carried
    <3>5. OneCarrier(s)'
      BY <1>3, <1>5, <3>2, <3>4 DEF OneCarrier
    <3>6. OneTaker(s)'
      BY <1>3, <1>5, <1>6, <2>1 DEF OneTaker
    <3> QED
      BY <3>3, <3>5, <3>6
  <2> QED
    BY <1>6, <2>1, <2>2 DEF NodeInv
<1>10. CASE StopReset
  <2>1. ctl.at = "join" /\ ctl'.at = "close" /\ UNCHANGED <<list, node, obj, gone>>
    BY <1>1, <1>10, CtlMoves DEF StopReset, Resets, CtlPlace, listVars, doneVars
  <2> QED
    BY <1>4, <2>1 DEF CtlCarries
<1>11. CASE StopClose
  <2>1. /\ ctl.at = "close" /\ ctl'.at \in {"open", "idle"}
        /\ list' = <<>> /\ UNCHANGED <<node, gone>>
        /\ obj' = [s \in Sessions |-> IF Listed(s) THEN "deleted"
                                      ELSE IF obj[s] = "waiting" THEN "refused"
                                      ELSE obj[s]]
    BY <1>1, <1>11 DEF StopClose, TypeOK, CtlRecord, IdleCtl, doneVars
  <2>2. \A v \in Workers : work[v].do = "none"
    BY <1>1, <2>1 DEF QuietInv, IdleWork
  <2>3. Distinct' /\ \A s \in Sessions : ~Listed(s)'
    BY <2>1 DEF Distinct, Listed
  <2>4. ASSUME NEW s \in Sessions PROVE NodeOK(s)' /\ OneCarrier(s)' /\ OneTaker(s)'
    <3>1. ~Carried(s) /\ ~Carried(s)' /\ \A v \in Workers : ~AcceptCarries(v, s)' /\ ~Takes(v, s)'
      BY <1>2, <2>1, <2>2 DEF Carried, CtlCarries, AcceptCarries, Takes
    <3>2. NodeOK(s)'
      BY <1>5, <2>1, <2>3, <3>1 DEF NodeOK, NodePtr, ObjState
    <3> QED
      BY <3>1, <3>2 DEF OneCarrier, OneTaker
  <2> QED
    BY <2>3, <2>4 DEF NodeInv
<1>12. CASE StartFails \/ StartListens \/ StartWaits \/ WalkVisit \/ WalkEnd \/ ConnectLock
  <2>1. UNCHANGED <<list, node, obj, gone>>
    BY <1>12, WalkVisitClean DEF StartFails, StartListens, StartWaits, VisitEffect, WalkEnd,
       ConnectLock, listVars, doneVars
  <2>2. \/ ctl.at \notin {"lock", "append"} /\ ctl'.at \notin {"lock", "append"}
        \/ ctl.at = "lock" /\ ctl'.at = "append" /\ ctl'.s = ctl.s
    BY <1>1, <1>12, CtlMoves, WalkVisitClean DEF StartFails, StartListens, StartWaits,
       VisitEffect, WalkEnd, ConnectLock, IdleCtl, CtlPlace
  <2> QED
    BY <1>4, <2>1, <2>2 DEF CtlCarries
<1>13. CASE ConnectAppend
  <2>1. /\ ctl.at = "append" /\ ctl'.at = "idle" /\ c \in Sessions
        /\ list' = Append(list, c) /\ node' = [node EXCEPT ![c] = "owned"]
        /\ UNCHANGED <<obj, gone>>
    BY <1>1, <1>13 DEF ConnectAppend, CtlInv, IdleCtl, doneVars
  <2>2. CtlCarries(c) /\ node[c] = "none" /\ obj[c] = "live" /\ ~Listed(c)
    BY <1>5, <2>1 DEF CtlCarries, NodeOK, Carried
  <2>3. Distinct' /\ \A s \in Sessions : Listed(s)' <=> Listed(s) \/ s = c
    BY <1>1, <2>1, <2>2, ListAppends DEF NodeInv
  <2>4. ASSUME NEW s \in Sessions PROVE NodeOK(s)' /\ OneCarrier(s)' /\ OneTaker(s)'
    <3>1. node'[s] = IF s = c THEN "owned" ELSE node[s]
      BY <1>1, <2>1 DEF TypeOK
    <3>2. ~CtlCarries(s)' /\ (CtlCarries(s) <=> s = c)
      BY <2>1 DEF CtlCarries
    <3>3. Carried(s)' <=> Carried(s) /\ s # c
      BY <1>3, <1>5, <3>2 DEF Carried, OneCarrier
    <3>4. NodeOK(s)'
      BY <1>5, <2>1, <2>2, <2>3, <3>1, <3>3 DEF NodeOK
    <3>5. OneCarrier(s)'
      BY <1>3, <1>5, <3>2 DEF OneCarrier
    <3>6. OneTaker(s)'
      BY <1>3, <1>5, <2>2, <2>3, <3>1 DEF OneTaker
    <3> QED
      BY <3>4, <3>5, <3>6
  <2> QED
    BY <2>3, <2>4 DEF NodeInv
<1>14. ASSUME NEW a \in Sessions, PeerConnects(a) PROVE NodeInv'
  <2>1. /\ obj[a] = "new" /\ obj' = [obj EXCEPT ![a] = "waiting"]
        /\ UNCHANGED <<list, node, gone, ctl>>
    BY <1>14 DEF PeerConnects, doneVars, ctlVars
  <2>2. ASSUME NEW s \in Sessions PROVE NodeOK(s)' /\ OneCarrier(s)' /\ OneTaker(s)'
    <3>1. obj'[s] = IF s = a THEN "waiting" ELSE obj[s]
      BY <1>1, <2>1 DEF TypeOK
    <3>2. (Carried(s)' <=> Carried(s)) /\ (CtlCarries(s)' <=> CtlCarries(s))
      BY <1>3, <2>1 DEF Carried, CtlCarries
    <3>3. NodeOK(s)'
      BY <1>5, <1>6, <2>1, <3>1, <3>2 DEF NodeOK
    <3>4. OneCarrier(s)' /\ OneTaker(s)'
      BY <1>3, <1>5, <1>6, <2>1, <3>2 DEF OneCarrier, OneTaker
    <3> QED
      BY <3>3, <3>4
  <2> QED
    BY <1>6, <2>1, <2>2 DEF NodeInv
<1>15. ASSUME NEW a \in Sessions, PeerSends(a) \/ PeerEnds(a) PROVE NodeInv'
  <2>1. UNCHANGED <<list, node, obj, gone, ctl>>
    BY <1>15 DEF PeerSends, PeerEnds, listVars, doneVars, ctlVars
  <2> QED
    BY <1>4, <2>1 DEF CtlCarries
<1> QED
  BY <1>8, <1>9, <1>10, <1>11, <1>12, <1>13, <1>14, <1>15 DEF CtlBegin, CtlRuns, PeerStep

(* Who refers to a session *)
LEMMA ListRefs ==
  ASSUME TypeOK
  PROVE  /\ First # None => Listed(First)
         /\ \A s \in Sessions : Listed(s) /\ After(s) # None => Listed(After(s))
<1>1. list \in Seq(Sessions)
  BY DEF TypeOK
<1>2. ASSUME First # None PROVE Listed(First)
  <2>1. 1 \in DOMAIN list /\ First = list[1]
    BY <1>1, <1>2 DEF First
  <2> QED
    BY <2>1 DEF Listed
<1>3. ASSUME NEW s \in Sessions, Listed(s), After(s) # None PROVE Listed(After(s))
  <2>1. Position(s) \in DOMAIN list
    BY <1>3, ListType
  <2>2. Position(s) + 1 \in DOMAIN list /\ After(s) = list[Position(s) + 1]
    BY <1>1, <1>3, <2>1 DEF After
  <2> QED
    BY <2>2 DEF Listed
<1> QED
  BY <1>2, <1>3

LEMMA AnchoredStays ==
  ASSUME Inv, Next, fault' = fault, ~StopClose, NEW s \in Sessions, Anchored(s)
  PROVE  Anchored(s)'
<1>1. TypeOK /\ NodeInv /\ CtlInv
  BY DEF Inv
<1>2. ASSUME UNCHANGED <<list, node>> PROVE Anchored(s)'
  BY <1>2 DEF Anchored, Listed
<1>3. ASSUME NEW c \in Sessions, list' = Append(list, c), node' = [node EXCEPT ![c] = "owned"]
      PROVE  Anchored(s)'
  <2>1. \A r \in Sessions : Listed(r)' <=> Listed(r) \/ r = c
    BY <1>1, <1>3, ListAppends
  <2>2. node \in [Sessions -> NodePtr]
    BY <1>1 DEF TypeOK
  <2> QED
    BY <1>3, <2>1, <2>2 DEF Anchored
<1>4. ASSUME NEW w \in Workers, WorkerStep(w) PROVE Anchored(s)'
  <2>1. CASE AcceptAppend(w)
    BY <1>3, <2>1, StepMoves DEF AcceptAppend
  <2>2. CASE GoneRelease(w)
    <3>1. ReleaseEffect(w) /\ node \in [Sessions -> NodePtr]
      BY <1>1, <2>2, GoneReleaseClean DEF TypeOK
    <3> QED
      BY <3>1 DEF ReleaseEffect, Anchored, Listed
  <2>3. CASE GoneErase(w)
    <3>1. EraseEffect(w)
      BY <2>3, GoneEraseClean
    <3>2. \A r \in Sessions : Listed(r)' <=> Listed(r) /\ r # work[w].s
      BY <1>1, <3>1, ListErases DEF EraseEffect, NodeInv
    <3> QED
      BY <3>1, <3>2 DEF EraseEffect, Anchored
  <2>4. CASE GoneBegin(w) \/ DataBegin(w)
    BY <1>2, <2>4, BeginClean DEF GoneBegin, DataBegin, BeginEffect, listVars
  <2>5. CASE DataLock(w) \/ DataEnter(w) \/ DataDone(w)
    BY <1>2, <2>5, DataLockClean, DataEnterClean, DataDoneClean
       DEF LockEffect, EnterEffect, DoneEffect, listVars
  <2>6. CASE \/ Take(w) \/ AcceptNobody(w) \/ AcceptLock(w) \/ WaitStep(w) \/ GoneHandled(w)
             \/ GoneDelete(w) \/ \E c \in Sessions : AcceptRefuse(w, c) \/ AcceptClient(w, c)
    BY <1>2, <2>6, StepMoves DEF Take, TakeAt, AcceptNobody, AcceptLock, AcceptRefuse, AcceptClient,
       WaitStep, WaitLock, WaitCheck, WaitData, Reads, WaitNothing, WaitGone, Ends, WaitEnd,
       PassEnds, GoneHandled, GoneDelete, listVars
  <2> QED
    BY <1>4, <2>1, <2>2, <2>3, <2>4, <2>5, <2>6 DEF WorkerStep, AcceptStep, DataStep, GoneStep
<1>5. CASE ConnectAppend
  BY <1>1, <1>3, <1>5 DEF ConnectAppend, CtlInv
<1>6. CASE (CtlBegin \/ StopReset \/ CtlRuns \/ PeerStep) /\ ~ConnectAppend
  BY <1>2, <1>6, WalkVisitClean DEF CtlBegin, StartServer, StopServer, Walk, ServerConnectTo, StopReset,
     Resets, CtlRuns, StartFails, StartListens, StartWaits, VisitEffect, WalkEnd,
     ConnectLock, PeerStep, PeerConnects, PeerSends, PeerEnds, listVars
<1> QED
  BY <1>4, <1>5, <1>6 DEF Next

LEMMA QueueRefs ==
  ASSUME Inv, Next, fault' = fault, ~StopClose,
         \/ UNCHANGED queue
         \/ 1 \in DOMAIN queue /\ queue' = RemoveAt(queue, 1)
         \/ \E t \in Task : /\ queue' = Append(queue, t)
                            /\ Refers(t) => t.s \in Sessions /\ Anchored(t.s)
  PROVE  (\A i \in DOMAIN queue : Refers(queue[i]) => Anchored(queue[i].s))'
<1> DEFINE OK(t) == Refers(t) => t.s \in Sessions /\ Anchored(t.s)
<1>1. TypeOK /\ RefInv /\ queue \in Seq(Task)
  BY DEF Inv, TypeOK
<1>2. \A i \in DOMAIN queue : OK(queue[i])
  <2>1. \A t \in Task : Refers(t) => t.s \in Sessions
    BY DEF Task, Refers
  <2> QED
    BY <1>1, <2>1, QueueType DEF RefInv
<1>3. \A i \in DOMAIN queue' : OK(queue'[i])
  <2>1. CASE UNCHANGED queue
    BY <1>2, <2>1
  <2>2. CASE 1 \in DOMAIN queue /\ queue' = RemoveAt(queue, 1)
    <3>1. /\ DOMAIN queue = 1 .. Len(queue) /\ Len(queue) \in Nat
          /\ DOMAIN queue' = 1 .. Len(queue) - 1
          /\ \A i \in 1 .. Len(queue) - 1 : queue'[i] = IF i < 1 THEN queue[i] ELSE queue[i + 1]
      BY <1>1, <2>2, RemoveFacts
    <3>2. ASSUME NEW n \in Nat PROVE \A i \in 1 .. n - 1 : i + 1 \in 1 .. n /\ ~(i < 1)
      OBVIOUS
    <3>3. \A i \in DOMAIN queue' : i + 1 \in DOMAIN queue /\ queue'[i] = queue[i + 1]
      BY <3>1, <3>2, Zenon
    <3> QED
      BY <1>2, <3>3
  <2>3. ASSUME NEW t \in Task, queue' = Append(queue, t), OK(t)
        PROVE  \A i \in DOMAIN queue' : OK(queue'[i])
    <3>1. /\ DOMAIN queue = 1 .. Len(queue) /\ Len(queue) \in Nat
          /\ DOMAIN queue' = 1 .. Len(queue) + 1
          /\ \A i \in DOMAIN queue : queue'[i] = queue[i]
          /\ queue'[Len(queue) + 1] = t
      BY <1>1, <2>3, AppendFacts
    <3>2. \A i \in DOMAIN queue' : i \in DOMAIN queue \/ i = Len(queue) + 1
      BY <3>1
    <3> QED
      BY <1>2, <2>3, <3>1, <3>2
  <2> QED
    BY <2>1, <2>2, <2>3
<1>4. \A s \in Sessions : Anchored(s) => Anchored(s)'
  BY AnchoredStays
<1> QED
  BY <1>3, <1>4

LEMMA RefStep ==
  ASSUME Inv, Next, fault' = fault
  PROVE  RefInv'
<1>1. TypeOK /\ RefInv /\ CtlInv /\ QuietInv /\ WorkInv
  BY DEF Inv
<1>2. ~StopClose => \A s \in Sessions : Anchored(s) => Anchored(s)'
  BY AnchoredStays
<1>3. /\ \A w \in Workers : Refers(work[w]) => work[w].s \in Sessions /\ Anchored(work[w].s)
      /\ ctl.at = "visit" /\ ctl.s # None => ctl.s \in Sessions /\ Anchored(ctl.s)
  <2>1. \A w \in Workers : Refers(work[w]) => work[w].s \in Sessions
    BY <1>1 DEF Refers, WorkInv, WorkOK, TypeOK, Work
  <2> QED
    BY <1>1, <2>1, CtlMoves DEF RefInv
<1>4. \A s \in Sessions : Listed(s) => Anchored(s)
  BY DEF Anchored
<1>5. ASSUME NEW w \in Workers, WorkerStep(w) PROVE RefInv'
  <2>1. ~StopClose /\ UNCHANGED ctl
    BY <1>5, WorkerMoves DEF StopClose, stillVars, ctlVars
  <2>2. (ctl.at = "visit" /\ ctl.s # None => Anchored(ctl.s))'
    BY <1>2, <1>3, <2>1
  <2>3. ASSUME NEW r, Becomes(w, r), Refers(r) => r.s \in Sessions /\ Anchored(r.s),
               \/ UNCHANGED queue
               \/ 1 \in DOMAIN queue /\ queue' = RemoveAt(queue, 1)
               \/ \E t \in Task : /\ queue' = Append(queue, t)
                                  /\ Refers(t) => t.s \in Sessions /\ Anchored(t.s)
        PROVE  RefInv'
    <3>1. (\A i \in DOMAIN queue : Refers(queue[i]) => Anchored(queue[i].s))'
      BY <1>5, <2>1, <2>3, QueueRefs DEF Next
    <3>2. (\A v \in Workers : Refers(work[v]) => Anchored(work[v].s))'
      BY <1>2, <1>3, <2>1, <2>3 DEF Becomes
    <3> QED
      BY <2>2, <3>1, <3>2 DEF RefInv
  <2>4. ASSUME NEW t \in Task
        PROVE  /\ Submitted(t) = queue \/ Submitted(t) = Append(queue, t)
               /\ Resubmitted(t) = queue \/ Resubmitted(t) = Append(queue, t)
    BY DEF Submitted, Resubmitted
  <2>5. /\ ~Refers(IdleWork) /\ ~Refers(AcceptTask) /\ ~Refers(WaitTask)
        /\ AcceptTask \in Task /\ WaitTask \in Task
        /\ \A s \in Sessions : GoneTask(s) \in Task /\ GoneTask(s).s = s
        /\ \A s \in Sessions, m \in Msgs : DataTask(s, m) \in Task /\ DataTask(s, m).s = s
    BY <1>1, QueueType DEF IdleWork, AcceptTask, WaitTask, GoneTask, DataTask, Refers
  <2>6. ASSUME NEW s \in Sessions \cup {None}, NEW at, Moved(w, s, at), UNCHANGED queue,
               work[w].do = "accept" \/ (s \in Sessions /\ Anchored(s)) \/ (work[w].do = "wait" /\ s = None)
        PROVE  RefInv'
    BY <2>3, <2>6 DEF Moved, Refers
  <2>7. CASE Take(w)
    <3>1. /\ 1 \in DOMAIN queue /\ queue' = RemoveAt(queue, 1)
          /\ Becomes(w, [do |-> queue[1].do, s |-> queue[1].s, m |-> queue[1].m, at |-> "begin"])
          /\ queue[1] \in Task
      BY <2>7, StepMoves DEF Take, TakeAt
    <3>2. Refers(queue[1]) => queue[1].s \in Sessions /\ Anchored(queue[1].s)
      BY <1>1, <3>1 DEF RefInv, Refers, Task
    <3> QED
      BY <2>3, <3>1, <3>2 DEF Refers
  <2>8. CASE AcceptNobody(w) \/ AcceptAppend(w) \/ \E c \in Sessions : AcceptRefuse(w, c)
    <3>1. Becomes(w, IdleWork) /\ queue' = Resubmitted(AcceptTask)
      BY <2>8, StepMoves DEF AcceptNobody, AcceptAppend, AcceptRefuse
    <3> QED
      BY <2>3, <2>4, <2>5, <3>1
  <2>9. CASE WaitEnd(w)
    <3>1. Becomes(w, IdleWork) /\ queue' = Resubmitted(WaitTask)
      BY <2>9, StepMoves DEF WaitEnd, PassEnds
    <3> QED
      BY <2>3, <2>4, <2>5, <3>1
  <2>10. CASE AcceptLock(w) \/ \E c \in Sessions : AcceptClient(w, c)
    <3>1. UNCHANGED queue
      BY <2>10 DEF AcceptLock, AcceptClient
    <3> QED
      BY <2>6, <2>10, <3>1, StepMoves
  <2>11. CASE WaitLock(w) \/ WaitCheck(w) \/ WaitNothing(w)
    <3>1. UNCHANGED queue
      BY <2>11 DEF WaitLock, WaitCheck, WaitNothing
    <3>2. CASE WaitLock(w)
      BY <1>1, <1>4, <2>6, <3>1, <3>2, StepMoves, ListRefs
    <3>3. CASE WaitCheck(w)
      BY <1>1, <1>4, <2>6, <3>1, <3>3, StepMoves, ListRefs
    <3>4. CASE WaitNothing(w)
      BY <1>1, <1>4, <2>6, <3>1, <3>4, StepMoves, ListRefs DEF WaitNothing
    <3> QED
      BY <2>11, <3>2, <3>3, <3>4
  <2>12. CASE WaitData(w) \/ WaitGone(w)
    <3> DEFINE s == work[w].s
    <3>1. /\ s \in Sessions /\ Listed(s) /\ Moved(w, After(s), "check") /\ work[w].do = "wait"
          /\ After(s) \in Sessions \cup {None}
      BY <2>12, StepMoves DEF WaitData, Reads, WaitGone, Ends
    <3>2. \E t \in Task : t.s = s /\ queue' = Submitted(t)
      <4>1. CASE WaitGone(w)
        BY <2>5, <3>1, <4>1 DEF WaitGone, Ends
      <4>2. CASE WaitData(w)
        <5>1. wire[s] \in Seq(Msgs) /\ wire[s] # <<>>
          BY <1>1, <3>1, <4>2 DEF WaitData, Reads, LoadMessage, TypeOK
        <5>2. Head(wire[s]) \in Msgs
          BY <5>1
        <5> QED
          BY <2>5, <3>1, <4>2, <5>2 DEF WaitData, Reads
      <4> QED
        BY <2>12, <4>1, <4>2
    <3>3. After(s) # None => Anchored(After(s))
      BY <1>1, <1>4, <3>1, ListRefs
    <3> HIDE DEF s
    <3> QED
      BY <1>4, <2>3, <2>4, <3>1, <3>2, <3>3 DEF Moved, Refers
  <2>13. CASE DataStep(w) \/ GoneStep(w)
    <3>1. CASE DataDone(w) \/ GoneDelete(w)
      BY <2>3, <2>5, <3>1, DataDoneClean, StepMoves DEF DoneEffect, GoneDelete
    <3>2. CASE DataBegin(w) \/ GoneBegin(w)
      <4>1. /\ Moved(w, work[w].s, "lock") /\ work[w].do \in {"data", "gone"}
            /\ work[w].s \in Sessions /\ UNCHANGED queue
        BY <3>2, BeginClean DEF DataBegin, GoneBegin, BeginEffect
      <4> QED
        BY <1>3, <2>6, <4>1 DEF Refers
    <3>3. CASE DataLock(w) \/ DataEnter(w) \/ GoneRelease(w) \/ GoneHandled(w) \/ GoneErase(w)
      <4>1. /\ \E at : Moved(w, work[w].s, at)
            /\ work[w].do \in {"data", "gone"} /\ work[w].s \in Sessions /\ UNCHANGED queue
        BY <3>3, DataLockClean, DataEnterClean, GoneReleaseClean, GoneEraseClean, StepMoves
           DEF LockEffect, EnterEffect, ReleaseEffect, EraseEffect, GoneHandled
      <4> QED
        BY <1>3, <2>6, <4>1 DEF Refers
    <3> QED
      BY <2>13, <3>1, <3>2, <3>3 DEF DataStep, GoneStep
  <2> QED
    BY <1>5, <2>7, <2>8, <2>9, <2>10, <2>11, <2>12, <2>13, StepMoves
       DEF WorkerStep, AcceptStep, WaitStep
<1>6. CASE StopClose
  <2>1. /\ queue' = <<>> /\ ctl'.at # "visit"
        /\ \A w \in Workers : work'[w] = IdleWork
    BY <1>1, <1>6 DEF StopClose, QuietInv, poolVars, IdleCtl, TypeOK
  <2> QED
    BY <2>1 DEF RefInv, Refers, IdleWork
<1>7. ASSUME CtlBegin \/ StopReset \/ CtlRuns \/ PeerStep, ~StopClose
      PROVE  RefInv'
  <2>1. UNCHANGED work
    BY <1>7, WalkVisitClean DEF CtlBegin, StartServer, StopServer, Walk, ServerConnectTo, StopReset,
       Resets, CtlRuns, StartFails, StartListens, StartWaits, VisitEffect, WalkEnd,
       ConnectLock, ConnectAppend, PeerStep, PeerConnects, PeerSends, PeerEnds, poolVars
  <2>2. \/ UNCHANGED queue
        \/ queue' = <<>>
        \/ \E t \in Task : queue' = Append(queue, t) /\ ~Refers(t)
    <3>1. /\ AcceptTask \in Task /\ ~Refers(AcceptTask)
          /\ WaitTask \in Task /\ ~Refers(WaitTask)
      BY <1>1, QueueType DEF AcceptTask, WaitTask, Refers
    <3> QED
      BY <1>7, <3>1, WalkVisitClean DEF CtlBegin, StartServer, StopServer, Walk, ServerConnectTo,
         StopReset, Resets, CtlRuns, StartFails, StartListens, StartWaits, VisitEffect, WalkEnd,
         ConnectLock, ConnectAppend, PeerStep, PeerConnects, PeerSends, PeerEnds, poolVars, Submitted
  <2>3. (\A i \in DOMAIN queue : Refers(queue[i]) => Anchored(queue[i].s))'
    <3>1. CASE queue' = <<>>
      BY <3>1
    <3>2. CASE queue' # <<>>
      BY <1>7, <2>2, <3>2, QueueRefs DEF Next
    <3> QED
      BY <3>1, <3>2
  <2>4. (\A w \in Workers : Refers(work[w]) => Anchored(work[w].s))'
    BY <1>2, <1>3, <1>7, <2>1
  <2>5. (ctl.at = "visit" /\ ctl.s # None => Anchored(ctl.s))'
    <3>1. CASE WalkVisit
      <4>1. /\ ctl.s \in Sessions /\ Listed(ctl.s) /\ ctl'.s = After(ctl.s)
        BY <3>1, WalkVisitClean DEF VisitEffect, Usable
      <4>2. After(ctl.s) \in Sessions \cup {None} /\ (After(ctl.s) # None => Listed(After(ctl.s)))
        BY <1>1, <4>1, ListType, ListRefs
      <4> QED
        BY <1>2, <1>4, <1>7, <4>1, <4>2
    <3>2. ASSUME NEW op, NEW who, Walk(op, who)
          PROVE  (ctl.at = "visit" /\ ctl.s # None => Anchored(ctl.s))'
      <4>1. ctl'.s = First
        BY <3>2 DEF Walk, CtlCall
      <4>2. First \in Sessions \cup {None} /\ (First # None => Listed(First))
        BY <1>1, ListType, ListRefs
      <4> QED
        BY <1>2, <1>4, <1>7, <4>1, <4>2
    <3>3. CASE ~WalkVisit /\ ~ \E op, who : Walk(op, who)
      <4>1. UNCHANGED ctl \/ ctl'.at # "visit"
        <5>1. ASSUME NEW op, NEW at, NEW s, NEW who, CtlCall(op, at, s, who)
              PROVE  ctl'.at = at
          BY <5>1 DEF CtlCall
        <5>2. CASE CtlBegin
          BY <3>3, <5>1, <5>2 DEF CtlBegin, StartServer, StopServer, ServerConnectTo
        <5>3. CASE StopReset \/ CtlRuns
          BY <1>1, <1>7, <3>3, <5>3, CtlMoves DEF StopReset, Resets, CtlRuns, StartFails,
             StartListens, StartWaits, WalkEnd, IdleCtl, ConnectLock, ConnectAppend, CtlPlace
        <5>4. CASE PeerStep
          BY <5>4 DEF PeerStep, PeerConnects, PeerSends, PeerEnds, ctlVars
        <5> QED
          BY <1>7, <5>2, <5>3, <5>4
      <4> QED
        BY <1>2, <1>3, <1>7, <4>1
    <3> QED
      BY <3>1, <3>2, <3>3
  <2> QED
    BY <2>3, <2>4, <2>5 DEF RefInv
<1> QED
  BY <1>5, <1>6, <1>7 DEF Next

-----------------------------------------------------------------------------
(* The invariant and the theorems *)

LEMMA FailStep ==
  ASSUME Inv, Next, fault' # fault
  PROVE  Inv'
<1>1. /\ UNCHANGED <<status, poolVars, listVars, peerVars, doneVars, ctlVars>>
      /\ \E s \in Sessions : node[s] = "released"
  BY OnlyFails
<1>2. fault' \in Fault
  <2>1. \A s : BadDeref(s) => fault' \in {"freed", "null"}
    BY DEF BadDeref, Fail
  <2>2. ASSUME NEW w \in Workers, WorkerStep(w) PROVE fault' \in Fault
    BY <2>1, <2>2 DEF WorkerStep, Take, TakeAt, AcceptStep, AcceptNobody, AcceptRefuse,
       AcceptClient, AcceptLock, AcceptAppend, WaitStep, WaitErased, WaitNull, WaitLock, WaitCheck,
       WaitData, Reads, WaitNothing, WaitGone, Ends, WaitEnd, PassEnds, DataStep, DataBegin,
       GoneStep, GoneBegin, Begin, DataLock, Locks, DataEnter, DataDone, GoneRelease, GoneHandled,
       GoneErase, GoneDelete, Fail, stillVars, Fault
  <2>3. CASE CtlBegin \/ StopReset \/ CtlRuns \/ PeerStep
    BY <2>1, <2>3 DEF CtlBegin, StartServer, StopServer, Walk, ServerConnectTo, StopReset, Resets,
       CtlRuns, StopClose, StartFails, StartListens, StartWaits, WalkVisit, WalkEnd, ConnectLock,
       ConnectAppend, PeerStep, PeerConnects, PeerSends, PeerEnds, Fault
  <2> QED
    BY <2>2, <2>3 DEF Next
<1>3. /\ UNCHANGED <<status, terminate, queue, work, list, node, obj, conn, access, clientMutex,
                     wire, sent, peer, handled, gone, ctl, calls>>
  BY <1>1 DEF poolVars, listVars, peerVars, doneVars, ctlVars
<1>4. TypeOK'
  BY <1>2, <1>3 DEF Inv, TypeOK
<1>5. WorkInv' /\ CtlInv' /\ QuietInv'
  BY <1>3 DEF Inv, WorkInv, CtlInv, QuietInv
<1>6. \A s \in Sessions :
        /\ CtlCarries(s)' <=> CtlCarries(s)
        /\ \A v \in Workers :
             /\ AcceptCarries(v, s)' <=> AcceptCarries(v, s)
             /\ Takes(v, s)' <=> Takes(v, s)
             /\ Takes(v, s) => (work'[v].at = "delete" <=> work[v].at = "delete")
  BY <1>3 DEF CtlCarries, AcceptCarries, Takes
<1>7. NodeInv'
  BY <1>3, <1>6, NodeSame DEF Inv
<1>8. RefInv' /\ AccessInv'
  BY <1>3 DEF Inv, RefInv, Refers, Anchored, Listed, AccessInv
<1>9. LoopInv'
  BY <1>3 DEF Inv, LoopInv, AtMostOne, Queued, Runs, Present
<1>10. FaultInv'
  BY <1>1, <1>3 DEF FaultInv
<1> QED
  BY <1>4, <1>5, <1>7, <1>8, <1>9, <1>10 DEF Inv

LEMMA NextAlive == Next => fault = "no"
<1>1. ASSUME NEW w \in Workers, WorkerStep(w) PROVE Alive
  BY <1>1 DEF WorkerStep, Take, TakeAt, AcceptStep, AcceptNobody, AcceptRefuse,
     AcceptClient, AcceptLock, AcceptAppend, WaitStep, WaitErased, WaitNull, WaitLock, WaitCheck,
     WaitData, Reads, WaitNothing, WaitGone, Ends, Pass, WaitEnd, PassEnds, DataStep, DataBegin,
     GoneStep, GoneBegin, Begin, DataLock, Locks, DataEnter, DataDone, GoneRelease, GoneHandled,
     GoneErase, GoneDelete, At
<1>2. CASE CtlBegin \/ StopReset \/ CtlRuns \/ PeerStep
  BY <1>2 DEF CtlBegin, StartServer, StopServer, Walk, ServerConnectTo, CtlCall, StopReset, Resets,
     CtlRuns, StopClose, StartFails, StartListens, StartWaits, WalkVisit, WalkEnd, ConnectLock,
     ConnectAppend, PeerStep, PeerConnects, PeerSends, PeerEnds, Alive
<1> QED
  BY <1>1, <1>2 DEF Next, Alive

LEMMA StepInv == Inv /\ [Next]_vars => Inv'
<1>1. ASSUME Inv, Next PROVE Inv'
  <2>1. CASE fault' # fault
    BY <1>1, <2>1, FailStep
  <2>2. CASE fault' = fault
    <3>1. TypeOK' /\ WorkInv' /\ CtlInv' /\ QuietInv' /\ RefInv' /\ AccessInv' /\ LoopInv'
      BY <1>1, <2>2, TypeStep, PlaceStep, RefStep, AccessStep, LoopStep
    <3>2. NodeInv'
      BY <1>1, <2>2, NodeWorkerStep, NodeOtherStep DEF Next
    <3>3. FaultInv'
      BY <1>1, <2>2, NextAlive DEF FaultInv
    <3> QED
      BY <3>1, <3>2, <3>3 DEF Inv
  <2> QED
    BY <2>1, <2>2
<1>2. ASSUME Inv, UNCHANGED vars PROVE Inv'
  <2>1. UNCHANGED <<status, terminate, queue, work, list, node, obj, conn, access, clientMutex,
                    wire, sent, peer, handled, gone, ctl, calls, fault>>
    BY <1>2 DEF vars
  <2>2. \A s \in Sessions :
          /\ CtlCarries(s)' <=> CtlCarries(s)
          /\ \A v \in Workers :
               /\ AcceptCarries(v, s)' <=> AcceptCarries(v, s)
               /\ Takes(v, s)' <=> Takes(v, s)
               /\ Takes(v, s) => (work'[v].at = "delete" <=> work[v].at = "delete")
    BY <2>1 DEF CtlCarries, AcceptCarries, Takes
  <2>3. NodeInv'
    BY <1>2, <2>1, <2>2, NodeSame DEF Inv
  <2>4. TypeOK' /\ WorkInv' /\ CtlInv' /\ QuietInv' /\ FaultInv'
    BY <1>2, <2>1 DEF Inv, TypeOK, WorkInv, CtlInv, QuietInv, FaultInv
  <2>5. RefInv' /\ AccessInv' /\ LoopInv'
    BY <1>2, <2>1 DEF Inv, RefInv, Refers, Anchored, Listed, AccessInv, LoopInv, AtMostOne,
       Queued, Runs, Present
  <2> QED
    BY <2>3, <2>4, <2>5 DEF Inv
<1> QED
  BY <1>1, <1>2

(* The invariant holds of Server, with any number of workers, for all      *)
(* operations of the control thread and all behaviours of the clients.     *)
THEOREM InvHolds == Spec => []Inv
BY InitInv, StepInv, PTL DEF Spec

(* The state of the server keeps its type: in particular the disconnect    *)
(* handler is called at most once per session.                             *)
THEOREM Types == Spec => []TypeOK
<1>1. Inv => TypeOK
  BY DEF Inv
<1> QED
  BY <1>1, InvHolds, PTL

(* However often the server is stopped and started again, it never has two *)
(* accept loops or two waiting loops, and has one of each while it runs.   *)
THEOREM OneLoop == Spec => []OneLoopEach
<1>1. ASSUME Inv PROVE OneLoopEach
  <2>1. LoopInv /\ queue \in Seq(Task)
    BY <1>1 DEF Inv, TypeOK
  <2>2. ASSUME NEW do, AtMostOne(do)
        PROVE  Loops(do) <= 1 /\ (Present(do) => Loops(do) = 1)
    <3> DEFINE A == {i \in DOMAIN queue : queue[i].do = do}
               B == {w \in Workers : work[w].do = do}
    <3>1. CASE Queued(do)
      <4>1. PICK i \in DOMAIN queue : queue[i].do = do
        BY <3>1 DEF Queued
      <4>2. A = {i} /\ B = {}
        BY <2>2, <3>1, <4>1 DEF AtMostOne, Runs
      <4>3. Cardinality(A) = 1 /\ Cardinality(B) = 0
        BY <4>2, FS_Singleton, FS_EmptySet
      <4> QED
        BY <4>3 DEF Loops
    <3>2. CASE Runs(do)
      <4>1. PICK w \in Workers : work[w].do = do
        BY <3>2 DEF Runs
      <4>2. A = {} /\ B = {w}
        BY <2>2, <3>2, <4>1 DEF AtMostOne, Queued
      <4>3. Cardinality(A) = 0 /\ Cardinality(B) = 1
        BY <4>2, FS_Singleton, FS_EmptySet
      <4> QED
        BY <4>3 DEF Loops
    <3>3. CASE ~Queued(do) /\ ~Runs(do)
      <4>1. A = {} /\ B = {}
        BY <3>3 DEF Queued, Runs
      <4>2. Cardinality(A) = 0 /\ Cardinality(B) = 0
        BY <4>1, FS_EmptySet
      <4> QED
        BY <3>3, <4>2 DEF Loops, Present
    <3> QED
      BY <3>1, <3>2, <3>3
  <2> QED
    BY <2>1, <2>2 DEF OneLoopEach, LoopInv
<1> QED
  BY <1>1, InvHolds, PTL

(* Whatever the number of workers, no two handlers of a session run at a   *)
(* time.                                                                   *)
THEOREM Exclusive == Spec => []HandlersExclusive
<1>1. ASSUME Inv PROVE HandlersExclusive
  <2>1. SUFFICES ASSUME NEW v \in Workers, NEW w \in Workers, work[v].at = "handle",
                        work[w].at = "handle", work[v].s = work[w].s
                 PROVE  v = w
    BY DEF HandlersExclusive
  <2>2. \A u \in {v, w} : work[u].do \in {"data", "gone"} /\ work[u].s \in Sessions
    <3>1. WorkInv /\ \A u \in Workers : work[u].do \in {"none", "accept", "wait", "data", "gone"}
      BY <1>1 DEF Inv, TypeOK, Work
    <3> QED
      BY <2>1, <3>1 DEF WorkInv, WorkOK, IdleWork
  <2>3. \A u \in {v, w} : work[u].do = "data" => access[work[u].s] = u /\ node[work[u].s] = "owned"
    BY <1>1, <2>1 DEF Inv, AccessInv
  <2>4. \A u \in {v, w} : work[u].do = "gone" => Takes(u, work[u].s) /\ node[work[u].s] = "released"
    BY <1>1, <2>1, <2>2 DEF Inv, NodeInv, OneTaker, Takes
  <2>5. CASE work[v].do = "data" /\ work[w].do = "data"
    BY <2>1, <2>3, <2>5
  <2>6. CASE work[v].do = "gone" /\ work[w].do = "gone"
    BY <1>1, <2>1, <2>2, <2>4, <2>6 DEF Inv, NodeInv, OneTaker
  <2> QED
    BY <2>1, <2>2, <2>3, <2>4, <2>5, <2>6
<1> QED
  BY <1>1, InvHolds, PTL

(* The server meets undefined behaviour only after a disconnect task has   *)
(* begun to take a session away; stopping and starting again never leads   *)
(* to it.                                                                  *)
THEOREM FaultsNeedDisconnect == Spec => []FaultNeedsDisconnect
<1>1. Inv => FaultNeedsDisconnect
  BY DEF Inv, FaultInv, FaultNeedsDisconnect
<1> QED
  BY <1>1, InvHolds, PTL
==============================================================================
