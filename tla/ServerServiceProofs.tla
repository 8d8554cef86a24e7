------------------------- MODULE ServerServiceProofs -------------------------
(***************************************************************************)
(* Server implements SessionService: with any number of workers a message  *)
(* is handed to the handler at most once, and only while its session is    *)
(* open; with one worker, on a server that is only started and stopped,    *)
(* the messages are handed over in the order they were sent, no session is *)
(* used after its end, and the disconnect handler is the last to see it.   *)
(***************************************************************************)
EXTENDS ServerSessionsProofs

-----------------------------------------------------------------------------
(* Where a message is: with the peer's socket, with a task that has not    *)
(* been handled, or handled                                                *)

Waits(s, m) == \E i \in DOMAIN queue : queue[i] = DataTask(s, m)

Carries(w, s, m) ==
  work[w].do = "data" /\ work[w].at # "handle" /\ work[w].s = s /\ work[w].m = m

Handled(s, m) == \E i \in DOMAIN handled[s] : handled[s][i] = m

Taken(s, m) == Waits(s, m) \/ Handled(s, m) \/ \E w \in Workers : Carries(w, s, m)

(* A message has one task, until it is handled. *)
Single(s, m) ==
  /\ \A i, j \in DOMAIN queue : queue[i] = DataTask(s, m) /\ queue[j] = DataTask(s, m) => i = j
  /\ \A v, w \in Workers : Carries(v, s, m) /\ Carries(w, s, m) => v = w
  /\ \A w \in Workers : Carries(w, s, m) => ~Waits(s, m) /\ ~Handled(s, m)
  /\ Waits(s, m) => ~Handled(s, m)

(* What the socket still holds was sent, in order, and after everything    *)
(* that was read from it.                                                  *)
InSocket(s) ==
  /\ \A i, j \in DOMAIN wire[s] : i < j => wire[s][i] < wire[s][j]
  /\ \A i \in DOMAIN wire[s] : wire[s][i] <= sent[s]

Behind(s, m) == Taken(s, m) => m <= sent[s] /\ \A i \in DOMAIN wire[s] : m < wire[s][i]

MsgInv == \A s \in Sessions : InSocket(s) /\ \A m \in Msgs : Single(s, m) /\ Behind(s, m)

(* The tasks for a message after a step that adds none                     *)
LEMMA QueueKept ==
  ASSUME TypeOK,
         \/ queue' = queue \/ queue' = <<>>
         \/ \E t \in Task : t.do # "data" /\ (queue' = Submitted(t) \/ queue' = Resubmitted(t))
  PROVE  \A i \in DOMAIN queue' :
           queue'[i].do = "data" => i \in DOMAIN queue /\ queue[i] = queue'[i]
<1>1. queue \in Seq(Task)
  BY DEF TypeOK
<1>2. CASE queue' = queue \/ queue' = <<>>
  BY <1>2
<1>3. ASSUME NEW t \in Task, t.do # "data", queue' = Append(queue, t)
      PROVE  \A i \in DOMAIN queue' :
               queue'[i].do = "data" => i \in DOMAIN queue /\ queue[i] = queue'[i]
  BY <1>1, <1>3, AppendFacts
<1> QED
  BY <1>2, <1>3 DEF Submitted, Resubmitted

(* A worker carries a message only from its task on.                       *)
LEMMA CarriesKept ==
  ASSUME NEW w \in Workers, NEW r, Becomes(w, r),
         \/ r.do # "data"
         \/ /\ work[w].do = "data" /\ work[w].at # "handle"
            /\ r.s = work[w].s /\ r.m = work[w].m
  PROVE  \A v \in Workers, s \in Sessions, m \in Msgs : Carries(v, s, m)' => Carries(v, s, m)
BY DEF Becomes, Carries

(* A step that takes no message anywhere, and may forget some              *)
LEMMA MsgFewer ==
  ASSUME MsgInv, UNCHANGED <<sent, handled>>,
         \A i \in DOMAIN queue' :
           queue'[i].do = "data" => i \in DOMAIN queue /\ queue[i] = queue'[i],
         \A v \in Workers, s \in Sessions, m \in Msgs : Carries(v, s, m)' => Carries(v, s, m),
         \A s \in Sessions : wire'[s] = wire[s] \/ wire'[s] = <<>>
  PROVE  MsgInv'
<1>1. \A s, m : DataTask(s, m).do = "data"
  BY DEF DataTask
<1>2. \A s \in Sessions, m \in Msgs :
        /\ Waits(s, m)' => Waits(s, m)
        /\ Handled(s, m)' <=> Handled(s, m)
        /\ Taken(s, m)' => Taken(s, m)
  BY <1>1 DEF Waits, Handled, Taken
<1>3. ASSUME NEW s \in Sessions, NEW m \in Msgs PROVE Single(s, m)' /\ Behind(s, m)'
  <2>1. Single(s, m) /\ Behind(s, m)
    BY DEF MsgInv
  <2>2. Single(s, m)'
    BY <1>1, <1>2, <2>1 DEF Single
  <2>3. Behind(s, m)'
    BY <1>2, <2>1 DEF Behind
  <2> QED
    BY <2>2, <2>3
<1>4. ASSUME NEW s \in Sessions PROVE InSocket(s)'
  BY DEF MsgInv, InSocket
<1> QED
  BY <1>3, <1>4 DEF MsgInv

(* A worker takes the first task of the queue.                             *)
LEMMA MsgTaken ==
  ASSUME Inv, MsgInv, fault' = fault, NEW w \in Workers, Take(w)
  PROVE  MsgInv'
<1> DEFINE t == queue[1]
<1>1. /\ work[w] = IdleWork /\ 1 \in DOMAIN queue /\ t \in Task
      /\ Becomes(w, [do |-> t.do, s |-> t.s, m |-> t.m, at |-> "begin"])
  BY StepMoves
<1>2. queue \in Seq(Task) /\ queue' = RemoveAt(queue, 1)
  BY DEF Inv, TypeOK, Take, TakeAt
<1>3. UNCHANGED <<wire, sent, handled>>
  BY DEF Take, TakeAt, peerVars, doneVars
<1>4. \A i \in DOMAIN queue' : i + 1 \in DOMAIN queue /\ queue'[i] = queue[i + 1] /\ i + 1 # 1
  <2>1. /\ DOMAIN queue = 1 .. Len(queue) /\ Len(queue) \in Nat
        /\ DOMAIN queue' = 1 .. Len(queue) - 1
        /\ \A i \in 1 .. Len(queue) - 1 : queue'[i] = IF i < 1 THEN queue[i] ELSE queue[i + 1]
    BY <1>1, <1>2, RemoveFacts
  <2>2. ASSUME NEW n \in Nat
        PROVE  \A i \in 1 .. n - 1 : i + 1 \in 1 .. n /\ ~(i < 1) /\ i + 1 # 1
    OBVIOUS
  <2> QED
    BY <2>1, <2>2, Zenon
<1>5. \A i, j \in DOMAIN queue' : i + 1 = j + 1 => i = j
  <2>1. DOMAIN queue' \subseteq Nat
    BY <1>1, <1>2, RemoveFacts
  <2> QED
    BY <2>1
<1>6. \A v \in Workers, s \in Sessions, m \in Msgs :
        Carries(v, s, m)' => Carries(v, s, m) \/ (v = w /\ t = DataTask(s, m))
  <2>1. t.do = "data" => t = DataTask(t.s, t.m)
    BY <1>1 DEF Task, DataTask
  <2> HIDE DEF t
  <2> QED
    BY <1>1, <2>1 DEF Becomes, Carries, DataTask
<1>7. \A s \in Sessions, m \in Msgs : ~Carries(w, s, m)
  BY <1>1 DEF Carries, IdleWork
<1> HIDE DEF t
<1>8. t = queue[1]
  BY DEF t
<1>9. ASSUME NEW s \in Sessions, NEW m \in Msgs
      PROVE  /\ Waits(s, m)' => Waits(s, m)
             /\ t = DataTask(s, m) => Waits(s, m) /\ ~Waits(s, m)'
             /\ Handled(s, m)' <=> Handled(s, m)
             /\ Taken(s, m)' => Taken(s, m)
  <2>1. Single(s, m)
    BY DEF MsgInv
  <2>2. Waits(s, m)' => Waits(s, m)
    BY <1>4 DEF Waits
  <2>3. t = DataTask(s, m) => Waits(s, m)
    BY <1>1, <1>8 DEF Waits
  <2>4. ASSUME t = DataTask(s, m) PROVE ~Waits(s, m)'
    BY <1>1, <1>4, <1>8, <2>1, <2>4 DEF Waits, Single
  <2>5. Handled(s, m)' <=> Handled(s, m)
    BY <1>3 DEF Handled
  <2> QED
    BY <1>6, <2>2, <2>3, <2>4, <2>5 DEF Taken
<1>10. ASSUME NEW s \in Sessions, NEW m \in Msgs PROVE Single(s, m)' /\ Behind(s, m)'
  <2>1. Single(s, m) /\ Behind(s, m)
    BY DEF MsgInv
  <2>2. \A i, j \in DOMAIN queue' :
          queue'[i] = DataTask(s, m) /\ queue'[j] = DataTask(s, m) => i = j
    BY <1>4, <1>5, <2>1 DEF Single
  <2>3. \A v, u \in Workers : Carries(v, s, m)' /\ Carries(u, s, m)' => v = u
    BY <1>6, <1>9, <2>1 DEF Single
  <2>4. \A v \in Workers : Carries(v, s, m)' => ~Waits(s, m)' /\ ~Handled(s, m)'
    BY <1>6, <1>9, <2>1 DEF Single
  <2>5. Waits(s, m)' => ~Handled(s, m)'
    BY <1>9, <2>1 DEF Single
  <2>6. Behind(s, m)'
    BY <1>3, <1>9, <2>1 DEF Behind
  <2> QED
    BY <2>2, <2>3, <2>4, <2>5, <2>6 DEF Single
<1>11. ASSUME NEW s \in Sessions PROVE InSocket(s)'
  BY <1>3 DEF MsgInv, InSocket
<1> QED
  BY <1>10, <1>11 DEF MsgInv

(* The waiting loop reads a message and submits its task.                  *)
LEMMA MsgRead ==
  ASSUME Inv, MsgInv, fault' = fault, NEW w \in Workers, WaitData(w)
  PROVE  MsgInv'
<1>1. /\ work[w].do = "wait" /\ work[w].s \in Sessions
      /\ After(work[w].s) \in Sessions \cup {None}
      /\ Moved(w, After(work[w].s), "check")
  BY StepMoves DEF WaitData, Reads
<1>2. PICK c \in Sessions : c = work[w].s
  BY <1>1
<1>3. /\ wire \in [Sessions -> Seq(Msgs)] /\ wire[c] \in Seq(Msgs) /\ wire[c] # <<>>
      /\ wire' = [wire EXCEPT ![c] = Tail(wire[c])]
      /\ queue' = Submitted(DataTask(c, Head(wire[c])))
      /\ UNCHANGED <<sent, handled>>
  BY <1>2 DEF Inv, TypeOK, WaitData, Reads, LoadMessage, doneVars
<1>4. PICK n \in Msgs : n = Head(wire[c])
  BY <1>3
<1>5. /\ \A i \in DOMAIN wire'[c] :
           i + 1 \in DOMAIN wire[c] /\ wire'[c][i] = wire[c][i + 1] /\ 1 < i + 1
      /\ \A i \in DOMAIN wire'[c] : i \in Nat
      /\ 1 \in DOMAIN wire[c] /\ n = wire[c][1]
  <2>1. wire'[c] = Tail(wire[c])
    BY <1>3
  <2>2. ASSUME NEW q \in Seq(Msgs), q # <<>>
        PROVE  /\ \A i \in DOMAIN Tail(q) :
                    i + 1 \in DOMAIN q /\ Tail(q)[i] = q[i + 1] /\ 1 < i + 1
               /\ \A i \in DOMAIN Tail(q) : i \in Nat
               /\ 1 \in DOMAIN q /\ Head(q) = q[1]
    BY <2>2
  <2> QED
    BY <1>3, <1>4, <2>1, <2>2, Zenon
<1>6. \A v \in Workers, s \in Sessions, m \in Msgs : Carries(v, s, m)' => Carries(v, s, m)
  BY <1>1, CarriesKept DEF Moved
<1>7. queue \in Seq(Task) /\ DataTask(c, n) \in Task
  BY QueueType DEF Inv, TypeOK
<1>8. /\ \A i \in DOMAIN queue' :
           \/ i \in DOMAIN queue /\ queue'[i] = queue[i]
           \/ i \notin DOMAIN queue /\ queue'[i] = DataTask(c, n)
      /\ \A i, j \in DOMAIN queue' : i \notin DOMAIN queue /\ j \notin DOMAIN queue => i = j
  <2>1. CASE queue' = queue
    BY <2>1
  <2>2. CASE queue' = Append(queue, DataTask(c, n))
    <3>1. /\ DOMAIN queue = 1 .. Len(queue) /\ Len(queue) \in Nat
          /\ DOMAIN queue' = 1 .. Len(queue) + 1
          /\ \A i \in DOMAIN queue : queue'[i] = queue[i] /\ i # Len(queue) + 1
          /\ queue'[Len(queue) + 1] = DataTask(c, n)
      BY <1>7, <2>2, AppendFacts
    <3>2. \A i \in DOMAIN queue' : i \in DOMAIN queue \/ i = Len(queue) + 1
      BY <3>1
    <3> QED
      BY <3>1, <3>2
  <2> QED
    BY <1>3, <1>4, <2>1, <2>2 DEF Submitted
<1>9. \A s, m, k : DataTask(s, m) = DataTask(c, k) => s = c /\ m = k
  BY DEF DataTask
<1>10. n <= sent[c] /\ \A i \in DOMAIN wire'[c] : n < wire'[c][i]
  BY <1>5 DEF MsgInv, InSocket
<1>11. ~Taken(c, n)
  <2>1. Behind(c, n)
    BY DEF MsgInv
  <2> QED
    BY <1>4, <1>5, <2>1 DEF Behind, Msgs
<1>12. ASSUME NEW s \in Sessions, NEW m \in Msgs
       PROVE  /\ Waits(s, m)' => Waits(s, m) \/ (s = c /\ m = n)
              /\ Handled(s, m)' <=> Handled(s, m)
              /\ Taken(s, m)' => Taken(s, m) \/ (s = c /\ m = n)
  <2>1. Waits(s, m)' => Waits(s, m) \/ (s = c /\ m = n)
    BY <1>8, <1>9 DEF Waits
  <2>2. Handled(s, m)' <=> Handled(s, m)
    BY <1>3 DEF Handled
  <2> QED
    BY <1>6, <2>1, <2>2 DEF Taken
<1>13. ASSUME NEW s \in Sessions, NEW m \in Msgs PROVE Single(s, m)' /\ Behind(s, m)'
  <2>1. Single(s, m) /\ Behind(s, m)
    BY DEF MsgInv
  <2>2. CASE s = c /\ m = n
    <3>1. ~Waits(s, m) /\ ~Handled(s, m) /\ \A v \in Workers : ~Carries(v, s, m)
      BY <1>11, <2>2 DEF Taken
    <3>2. \A i \in DOMAIN queue' : queue'[i] = DataTask(s, m) => i \notin DOMAIN queue
      BY <1>8, <3>1 DEF Waits
    <3>3. Single(s, m)'
      BY <1>6, <1>8, <1>12, <3>1, <3>2 DEF Single
    <3>4. Behind(s, m)'
      BY <1>3, <1>10, <2>2 DEF Behind
    <3> QED
      BY <3>3, <3>4
  <2>3. CASE ~(s = c /\ m = n)
    <3>1. \A i \in DOMAIN queue' : queue'[i] = DataTask(s, m) =>
            i \in DOMAIN queue /\ queue[i] = DataTask(s, m)
      BY <1>8, <1>9, <2>3
    <3>2. Single(s, m)'
      BY <1>6, <1>12, <2>1, <2>3, <3>1 DEF Single
    <3>3. \A i \in DOMAIN wire'[s] : \E j \in DOMAIN wire[s] : wire'[s][i] = wire[s][j]
      BY <1>3, <1>5
    <3>4. Behind(s, m)'
      BY <1>3, <1>12, <2>1, <2>3, <3>3 DEF Behind
    <3> QED
      BY <3>2, <3>4
  <2> QED
    BY <2>2, <2>3
<1>14. ASSUME NEW s \in Sessions PROVE InSocket(s)'
  <2>1. InSocket(s)
    BY DEF MsgInv
  <2>2. CASE s # c
    BY <1>3, <2>1, <2>2 DEF InSocket
  <2>3. CASE s = c
    <3>1. \A i, j \in DOMAIN wire'[c] : i < j => i + 1 < j + 1
      BY <1>5
    <3> QED
      BY <1>3, <1>5, <2>1, <2>3, <3>1 DEF InSocket
  <2> QED
    BY <2>2, <2>3
<1> QED
  BY <1>13, <1>14 DEF MsgInv

(* The handler gets a message.                                             *)
LEMMA MsgEntered ==
  ASSUME Inv, MsgInv, fault' = fault, NEW w \in Workers, DataEnter(w)
  PROVE  MsgInv'
<1>1. EnterEffect(w)
  BY DataEnterClean
<1>2. PICK c \in Sessions, n \in Msgs : c = work[w].s /\ n = work[w].m
  BY <1>1 DEF EnterEffect
<1>3. /\ work[w].do = "data" /\ work[w].at = "enter" /\ Moved(w, c, "handle")
      /\ handled' = [handled EXCEPT ![c] = Append(handled[c], n)]
      /\ handled \in [Sessions -> Seq(Msgs)]
      /\ UNCHANGED <<queue, wire, sent>>
  BY <1>1, <1>2 DEF EnterEffect, Inv, TypeOK, peerVars
<1>4. Carries(w, c, n)
  BY <1>2, <1>3 DEF Carries
<1>5. \A v \in Workers, s \in Sessions, m \in Msgs :
        Carries(v, s, m)' => Carries(v, s, m) /\ v # w
  BY <1>3 DEF Moved, Becomes, Carries
<1>6. ASSUME NEW s \in Sessions, NEW m \in Msgs
      PROVE  /\ Waits(s, m)' <=> Waits(s, m)
             /\ Handled(s, m)' => Handled(s, m) \/ (s = c /\ m = n)
             /\ Taken(s, m)' => Taken(s, m)
  <2>1. Waits(s, m)' <=> Waits(s, m)
    BY <1>3 DEF Waits
  <2>2. Handled(s, m)' => Handled(s, m) \/ (s = c /\ m = n)
    <3>1. CASE s # c
      BY <1>3, <3>1 DEF Handled
    <3>2. CASE s = c
      <4>1. handled[c] \in Seq(Msgs) /\ handled'[c] = Append(handled[c], n)
        BY <1>3
      <4>2. \A i \in DOMAIN handled'[c] :
              \/ i \in DOMAIN handled[c] /\ handled'[c][i] = handled[c][i]
              \/ handled'[c][i] = n
        BY <4>1, AppendFacts
      <4> QED
        BY <3>2, <4>2 DEF Handled
    <3> QED
      BY <3>1, <3>2
  <2> QED
    BY <1>4, <1>5, <2>1, <2>2 DEF Taken
<1>7. ASSUME NEW s \in Sessions, NEW m \in Msgs PROVE Single(s, m)' /\ Behind(s, m)'
  <2>1. Single(s, m) /\ Behind(s, m)
    BY DEF MsgInv
  <2>2. \A i, j \in DOMAIN queue' :
          queue'[i] = DataTask(s, m) /\ queue'[j] = DataTask(s, m) => i = j
    BY <1>3, <2>1 DEF Single
  <2>3. \A v, u \in Workers : Carries(v, s, m)' /\ Carries(u, s, m)' => v = u
    BY <1>5, <2>1 DEF Single
  <2>4. \A v \in Workers : Carries(v, s, m)' => ~Waits(s, m)' /\ ~Handled(s, m)'
    BY <1>4, <1>5, <1>6, <2>1 DEF Single
  <2>5. Waits(s, m)' => ~Handled(s, m)'
    BY <1>4, <1>6, <2>1 DEF Single
  <2>6. Behind(s, m)'
    BY <1>3, <1>6, <2>1 DEF Behind
  <2> QED
    BY <2>2, <2>3, <2>4, <2>5, <2>6 DEF Single
<1>8. ASSUME NEW s \in Sessions PROVE InSocket(s)'
  BY <1>3 DEF MsgInv, InSocket
<1> QED
  BY <1>7, <1>8 DEF MsgInv

(* The peer sends a message.                                               *)
LEMMA MsgSent ==
  ASSUME Inv, MsgInv, NEW c \in Sessions, PeerSends(c)
  PROVE  MsgInv'
<1>1. /\ sent \in [Sessions -> 0 .. MaxMsgs] /\ wire \in [Sessions -> Seq(Msgs)]
      /\ sent[c] < MaxMsgs /\ sent[c] \in Nat
      /\ sent' = [sent EXCEPT ![c] = sent[c] + 1]
      /\ wire' = [wire EXCEPT ![c] = Append(wire[c], sent[c] + 1)]
      /\ UNCHANGED <<queue, work, handled>>
  BY ServerAssumption DEF PeerSends, Inv, TypeOK, poolVars, doneVars
<1>2. sent[c] + 1 \in Msgs /\ wire[c] \in Seq(Msgs)
  BY <1>1, ServerAssumption DEF Msgs
<1>3. /\ DOMAIN wire[c] = 1 .. Len(wire[c]) /\ Len(wire[c]) \in Nat
      /\ DOMAIN wire'[c] = 1 .. Len(wire[c]) + 1
      /\ \A i \in DOMAIN wire[c] : wire'[c][i] = wire[c][i]
      /\ wire'[c][Len(wire[c]) + 1] = sent[c] + 1
      /\ \A i \in DOMAIN wire[c] : wire[c][i] \in Nat
  <2>1. wire'[c] = Append(wire[c], sent[c] + 1)
    BY <1>1
  <2>2. \A i \in DOMAIN wire[c] : wire[c][i] \in Nat
    <3>1. \A i \in DOMAIN wire[c] : wire[c][i] \in Msgs
      BY <1>2
    <3> QED
      BY <3>1 DEF Msgs
  <2> QED
    BY <1>2, <2>1, <2>2, AppendFacts
<1>4. \A i \in DOMAIN wire'[c] : i \in DOMAIN wire[c] \/ i = Len(wire[c]) + 1
  BY <1>3
<1>5. \A i \in DOMAIN wire[c] : i < Len(wire[c]) + 1
  BY <1>3
<1>6. \A s \in Sessions, m \in Msgs :
        /\ Taken(s, m)' <=> Taken(s, m)
        /\ Single(s, m)' <=> Single(s, m)
  BY <1>1 DEF Taken, Single, Waits, Handled, Carries
<1>7. ASSUME NEW s \in Sessions, s # c
      PROVE  InSocket(s)' /\ \A m \in Msgs : Behind(s, m)'
  <2>1. sent'[s] = sent[s] /\ wire'[s] = wire[s]
    BY <1>1, <1>7
  <2>2. InSocket(s)'
    BY <2>1 DEF MsgInv, InSocket
  <2> QED
    BY <1>6, <2>1, <2>2 DEF MsgInv, Behind
<1>8. sent'[c] = sent[c] + 1
  BY <1>1
<1>9. InSocket(c)'
  <2>1. InSocket(c)
    BY DEF MsgInv
  <2>2. \A i \in DOMAIN wire'[c] : wire'[c][i] <= sent'[c]
    BY <1>1, <1>3, <1>4, <1>8, <2>1 DEF InSocket
  <2>3. ASSUME NEW i \in DOMAIN wire'[c], NEW j \in DOMAIN wire'[c], i < j
        PROVE  wire'[c][i] < wire'[c][j]
    <3>1. CASE j \in DOMAIN wire[c]
      <4>1. i \in DOMAIN wire[c]
        BY <1>3, <2>3, <3>1
      <4> QED
        BY <1>3, <2>1, <2>3, <3>1, <4>1 DEF InSocket
    <3>2. CASE j = Len(wire[c]) + 1
      <4>1. i \in DOMAIN wire[c]
        BY <1>3, <2>3, <3>2
      <4>2. wire[c][i] <= sent[c] /\ wire[c][i] \in Nat
        BY <1>3, <2>1, <4>1 DEF InSocket
      <4> QED
        BY <1>1, <1>3, <3>2, <4>1, <4>2
    <3> QED
      BY <1>4, <3>1, <3>2
  <2> QED
    BY <2>2, <2>3 DEF InSocket
<1>10. ASSUME NEW m \in Msgs PROVE Behind(c, m)'
  <2>1. Behind(c, m) /\ m \in Nat
    BY DEF MsgInv, Msgs
  <2>2. CASE Taken(c, m)
    <3>1. m <= sent[c] /\ \A i \in DOMAIN wire[c] : m < wire[c][i]
      BY <2>1, <2>2 DEF Behind
    <3>2. m <= sent'[c]
      BY <1>1, <1>8, <2>1, <3>1
    <3>3. \A i \in DOMAIN wire'[c] : m < wire'[c][i]
      BY <1>1, <1>3, <1>4, <2>1, <3>1
    <3> QED
      BY <3>2, <3>3 DEF Behind
  <2> QED
    BY <1>6, <2>2 DEF Behind
<1> QED
  BY <1>6, <1>7, <1>9, <1>10 DEF MsgInv

(* The other steps of the workers take no message anywhere.                *)
LEMMA MsgWorkerStep ==
  ASSUME Inv, MsgInv, fault' = fault, NEW w \in Workers, WorkerStep(w)
  PROVE  MsgInv'
<1> DEFINE Kept(r) ==
             /\ Becomes(w, r)
             /\ \/ r.do # "data"
                \/ /\ work[w].do = "data" /\ work[w].at # "handle"
                   /\ r.s = work[w].s /\ r.m = work[w].m
             /\ \/ queue' = queue
                \/ \E t \in Task :
                     t.do # "data" /\ (queue' = Submitted(t) \/ queue' = Resubmitted(t))
             /\ UNCHANGED <<sent, handled>>
             /\ \A s \in Sessions : wire'[s] = wire[s] \/ wire'[s] = <<>>
<1>1. ASSUME NEW r, Kept(r) PROVE MsgInv'
  <2>1. TypeOK
    BY DEF Inv
  <2>2. \A i \in DOMAIN queue' : queue'[i].do = "data" =>
          i \in DOMAIN queue /\ queue[i] = queue'[i]
    BY <1>1, <2>1, QueueKept
  <2>3. \A v \in Workers, s \in Sessions, m \in Msgs : Carries(v, s, m)' => Carries(v, s, m)
    BY <1>1, CarriesKept
  <2> QED
    BY <1>1, <2>2, <2>3, MsgFewer
<1>2. /\ AcceptTask \in Task /\ AcceptTask.do # "data"
      /\ WaitTask \in Task /\ WaitTask.do # "data"
      /\ \A s \in Sessions : GoneTask(s) \in Task /\ GoneTask(s).do # "data"
      /\ IdleWork.do # "data"
  BY DEF AcceptTask, WaitTask, GoneTask, Task, IdleWork
<1>3. \A s \in Sessions : [wire EXCEPT ![s] = <<>>] \in [Sessions -> Seq(Msgs)]
        /\ \A r \in Sessions : [wire EXCEPT ![s] = <<>>][r] \in {wire[r], <<>>}
  BY DEF Inv, TypeOK
<1>4. CASE Take(w) \/ WaitData(w) \/ DataEnter(w)
  BY <1>4, MsgTaken, MsgRead, MsgEntered
<1>5. CASE AcceptNobody(w) \/ AcceptAppend(w) \/ WaitEnd(w)
  <2>1. Kept(IdleWork)
    BY <1>2, <1>5, StepMoves DEF AcceptNobody, AcceptAppend, WaitEnd, PassEnds, peerVars,
       doneVars
  <2> QED
    BY <1>1, <2>1
<1>6. CASE GoneDelete(w) \/ \E c \in Sessions : AcceptRefuse(w, c)
  <2>1. Becomes(w, IdleWork) /\ UNCHANGED <<sent, handled>>
    BY <1>6, StepMoves DEF AcceptRefuse, GoneDelete, doneVars
  <2>2. queue' = queue \/ queue' = Resubmitted(AcceptTask)
    BY <1>6 DEF AcceptRefuse, GoneDelete
  <2>3. \A s \in Sessions : wire'[s] = wire[s] \/ wire'[s] = <<>>
    BY <1>3, <1>6, StepMoves DEF AcceptRefuse, GoneDelete
  <2>4. Kept(IdleWork)
    BY <1>2, <2>1, <2>2, <2>3
  <2> QED
    BY <1>1, <2>4
<1>7. ASSUME NEW c \in Sessions, AcceptClient(w, c) PROVE MsgInv'
  <2>1. Kept([do |-> work[w].do, s |-> c, m |-> work[w].m, at |-> "lock"])
    BY <1>7, StepMoves DEF AcceptClient, Moved, peerVars, doneVars
  <2> QED
    BY <1>1, <2>1
<1>8. CASE AcceptLock(w)
  <2>1. Kept([do |-> work[w].do, s |-> work[w].s, m |-> work[w].m, at |-> "append"])
    BY <1>8, StepMoves DEF AcceptLock, Moved, peerVars, doneVars
  <2> QED
    BY <1>1, <2>1
<1>9. CASE WaitLock(w)
  <2>1. Kept([do |-> work[w].do, s |-> First, m |-> work[w].m, at |-> "check"])
    BY <1>9, StepMoves DEF WaitLock, Moved, peerVars, doneVars
  <2> QED
    BY <1>1, <2>1
<1>10. CASE WaitCheck(w)
  <2>1. \/ Kept([do |-> work[w].do, s |-> work[w].s, m |-> work[w].m, at |-> "load"])
        \/ Kept([do |-> work[w].do, s |-> After(work[w].s), m |-> work[w].m, at |-> "check"])
    BY <1>10, StepMoves DEF WaitCheck, Moved, peerVars, doneVars
  <2> QED
    BY <1>1, <2>1
<1>11. CASE WaitNothing(w) \/ WaitGone(w)
  <2>1. Pass(w) /\ UNCHANGED <<wire, sent, handled>>
    BY <1>11 DEF WaitNothing, WaitGone, Ends, peerVars, doneVars
  <2>2. work[w].s \in Sessions /\ work[w].do = "wait" /\ Moved(w, After(work[w].s), "check")
    BY <2>1, StepMoves
  <2>3. queue' = queue \/ queue' = Submitted(GoneTask(work[w].s))
    BY <1>11 DEF WaitNothing, WaitGone, Ends
  <2>4. Kept([do |-> work[w].do, s |-> After(work[w].s), m |-> work[w].m, at |-> "check"])
    BY <1>2, <2>1, <2>2, <2>3 DEF Moved
  <2> QED
    BY <1>1, <2>4
<1>12. CASE DataBegin(w) \/ GoneBegin(w)
  <2>1. BeginEffect(w, "data") \/ BeginEffect(w, "gone")
    BY <1>12, BeginClean DEF DataBegin, GoneBegin
  <2>2. Kept([do |-> work[w].do, s |-> work[w].s, m |-> work[w].m, at |-> "lock"])
    BY <2>1 DEF BeginEffect, Moved, peerVars, doneVars
  <2> QED
    BY <1>1, <2>2
<1>13. CASE DataLock(w)
  <2>1. LockEffect(w)
    BY <1>13, DataLockClean
  <2>2. Kept([do |-> work[w].do, s |-> work[w].s, m |-> work[w].m, at |-> "enter"])
    BY <2>1 DEF LockEffect, Moved, peerVars, doneVars
  <2> QED
    BY <1>1, <2>2
<1>14. CASE DataDone(w)
  <2>1. DoneEffect(w)
    BY <1>14, DataDoneClean
  <2>2. Kept(IdleWork)
    BY <1>2, <2>1 DEF DoneEffect, peerVars, doneVars
  <2> QED
    BY <1>1, <2>2
<1>15. CASE GoneRelease(w)
  <2>1. ReleaseEffect(w)
    BY <1>15, GoneReleaseClean
  <2>2. Kept([do |-> work[w].do, s |-> work[w].s, m |-> work[w].m, at |-> "handle"])
    BY <2>1 DEF ReleaseEffect, Moved, peerVars, doneVars
  <2> QED
    BY <1>1, <2>2
<1>16. CASE GoneHandled(w)
  <2>1. Kept([do |-> work[w].do, s |-> work[w].s, m |-> work[w].m, at |-> "erase"])
    BY <1>16, StepMoves DEF GoneHandled, Moved, peerVars, doneVars
  <2> QED
    BY <1>1, <2>1
<1>17. CASE GoneErase(w)
  <2>1. EraseEffect(w)
    BY <1>17, GoneEraseClean
  <2>2. Kept([do |-> work[w].do, s |-> work[w].s, m |-> work[w].m, at |-> "delete"])
    BY <2>1 DEF EraseEffect, Moved, peerVars, doneVars
  <2> QED
    BY <1>1, <2>2
<1>18. ~WaitErased(w) /\ ~WaitNull(w)
  BY StepMoves
<1> QED
  BY <1>4, <1>5, <1>6, <1>7, <1>8, <1>9, <1>10, <1>11, <1>12, <1>13, <1>14, <1>15, <1>16,
     <1>17, <1>18
  DEF WorkerStep, AcceptStep, WaitStep, DataStep, GoneStep

(* Nor do those of the control thread and the peers, but for a send.       *)
LEMMA MsgOtherStep ==
  ASSUME Inv, MsgInv, fault' = fault, CtlBegin \/ StopReset \/ CtlRuns \/ PeerStep
  PROVE  MsgInv'
<1>1. TypeOK
  BY DEF Inv
<1>2. ASSUME UNCHANGED <<work, sent, handled>>,
             \/ queue' = queue \/ queue' = <<>>
             \/ queue' = Submitted(AcceptTask) \/ queue' = Submitted(WaitTask),
             \A s \in Sessions : wire'[s] = wire[s] \/ wire'[s] = <<>>
      PROVE  MsgInv'
  <2>1. /\ AcceptTask \in Task /\ AcceptTask.do # "data"
        /\ WaitTask \in Task /\ WaitTask.do # "data"
    BY DEF AcceptTask, WaitTask, Task
  <2>2. \A i \in DOMAIN queue' : queue'[i].do = "data" =>
          i \in DOMAIN queue /\ queue[i] = queue'[i]
    BY <1>1, <1>2, <2>1, QueueKept
  <2>3. \A v \in Workers, s \in Sessions, m \in Msgs : Carries(v, s, m)' => Carries(v, s, m)
    BY <1>2 DEF Carries
  <2> QED
    BY <1>2, <2>2, <2>3, MsgFewer
<1>3. CASE CtlBegin
  BY <1>2, <1>3 DEF CtlBegin, StartServer, StopServer, Walk, ServerConnectTo, poolVars,
     peerVars, doneVars
<1>4. CASE StopReset
  BY <1>2, <1>4 DEF StopReset, Resets, peerVars, doneVars
<1>5. CASE StopClose
  <2>1. \A s \in Sessions : wire'[s] = <<>>
    BY <1>5 DEF StopClose
  <2> QED
    BY <1>2, <1>5, <2>1 DEF StopClose, poolVars, doneVars
<1>6. CASE WalkVisit
  BY <1>2, <1>6, WalkVisitClean DEF VisitEffect, poolVars, peerVars, doneVars
<1>7. CASE StartFails \/ StartListens \/ StartWaits \/ WalkEnd \/ ConnectLock \/ ConnectAppend
  BY <1>2, <1>7 DEF StartFails, StartListens, StartWaits, WalkEnd, ConnectLock, ConnectAppend,
     poolVars, peerVars, doneVars
<1>8. CASE PeerStep
  <2>1. ASSUME NEW s \in Sessions, PeerConnects(s) \/ PeerEnds(s) PROVE MsgInv'
    BY <1>2, <2>1 DEF PeerConnects, PeerEnds, poolVars, peerVars, doneVars
  <2> QED
    BY <1>8, <2>1, MsgSent DEF PeerStep
<1> QED
  BY <1>3, <1>4, <1>5, <1>6, <1>7, <1>8 DEF CtlRuns

(* A message has one task at most, which is handled once, on any server.   *)
LEMMA MsgStep == Inv /\ MsgInv /\ [Next]_vars => MsgInv'
<1> SUFFICES ASSUME Inv, MsgInv, [Next]_vars PROVE MsgInv'
  OBVIOUS
<1>1. ASSUME UNCHANGED <<queue, work, wire, sent, handled>> PROVE MsgInv'
  BY <1>1, MsgFewer DEF Carries
<1>2. CASE Next /\ fault' # fault
  <2>1. UNCHANGED <<poolVars, peerVars, doneVars>>
    BY <1>2, OnlyFails
  <2> QED
    BY <1>1, <2>1 DEF poolVars, peerVars, doneVars
<1>3. CASE Next /\ fault' = fault
  BY <1>3, MsgWorkerStep, MsgOtherStep DEF Next
<1>4. CASE UNCHANGED vars
  BY <1>1, <1>4 DEF vars
<1> QED
  BY <1>2, <1>3, <1>4

(* There are no messages at first.                                         *)
LEMMA MsgInit == Init => MsgInv
<1> SUFFICES ASSUME Init PROVE MsgInv
  OBVIOUS
<1>1. queue = <<>> /\ \A w \in Workers : work[w].do = "none"
  BY DEF Init, IdleWork
<1>2. \A s \in Sessions : wire[s] = <<>> /\ handled[s] = <<>>
  BY DEF Init
<1> QED
  BY <1>1, <1>2 DEF MsgInv, InSocket, Single, Behind, Taken, Waits, Handled, Carries

-----------------------------------------------------------------------------
(* The refinement                                                          *)

(* The phase of a session, by its object and the disconnect handler        *)
LEMMA PhaseFacts ==
  ASSUME Inv
  PROVE  /\ phase \in [Sessions -> {"none", "open", "closed", "dropped"}]
         /\ \A s \in Sessions :
              /\ phase[s] = "none" <=> gone[s] = 0 /\ obj[s] \in {"new", "waiting", "refused"}
              /\ phase[s] = "open" <=> gone[s] = 0 /\ obj[s] = "live"
              /\ phase[s] = "dropped" <=> gone[s] = 0 /\ obj[s] = "deleted"
              /\ phase[s] = "closed" <=> gone[s] = 1
              /\ obj[s] \in {"new", "waiting", "refused"} => gone[s] = 0
              /\ obj[s] = "live" /\ gone[s] = 0 /\ ~Carried(s) => Listed(s)
              /\ Usable(s) => gone[s] = 0 /\ obj[s] = "live"
              /\ Listed(s) /\ gone[s] = 0 => obj[s] = "live"
<1>1. \A s \in Sessions :
        /\ gone[s] \in 0 .. 1 /\ NodeOK(s) /\ node[s] \in NodePtr
        /\ obj[s] \in {"new", "waiting", "refused", "live", "deleted"}
  BY DEF Inv, TypeOK, NodeInv, ObjState
<1>2. \A s \in Sessions : gone[s] = 0 <=> ~(gone[s] > 0)
  BY <1>1
<1>3. \A s \in Sessions : phase[s] =
        IF gone[s] > 0 THEN "closed"
        ELSE CASE obj[s] = "live" -> "open"
               [] obj[s] = "deleted" -> "dropped"
               [] OTHER -> "none"
  BY DEF phase
<1>4. \A s \in Sessions :
        /\ gone[s] > 0 => phase[s] = "closed" /\ gone[s] = 1
        /\ gone[s] = 0 /\ obj[s] = "live" => phase[s] = "open"
        /\ gone[s] = 0 /\ obj[s] = "deleted" => phase[s] = "dropped"
        /\ gone[s] = 0 /\ obj[s] \in {"new", "waiting", "refused"} => phase[s] = "none"
  BY <1>1, <1>3
<1>5. phase \in [Sessions -> {"none", "open", "closed", "dropped"}]
  <2>1. phase = [s \in Sessions |-> phase[s]]
    BY DEF phase
  <2>2. \A s \in Sessions : phase[s] \in {"none", "open", "closed", "dropped"}
    BY <1>1, <1>2, <1>4
  <2> HIDE DEF phase
  <2> QED
    BY <2>1, <2>2
<1>6. \A s \in Sessions :
        /\ obj[s] \in {"new", "waiting", "refused"} => gone[s] = 0
        /\ obj[s] = "live" /\ gone[s] = 0 /\ ~Carried(s) => Listed(s)
        /\ Usable(s) => gone[s] = 0 /\ obj[s] = "live"
        /\ Listed(s) /\ gone[s] = 0 => obj[s] = "live"
  BY <1>1 DEF NodeOK, Usable, NodePtr
<1> QED
  BY <1>1, <1>2, <1>4, <1>5, <1>6

(* One session moves to another phase.                                     *)
PhaseSet(s, p) == phase' = [phase EXCEPT ![s] = p] /\ UNCHANGED handled

Dropped ==
  /\ phase' = [s \in Sessions |-> IF phase[s] = "open" THEN "dropped" ELSE phase[s]]
  /\ UNCHANGED handled

Delivered(w) ==
  /\ EnterEffect(w)
  /\ phase[work[w].s] = "open"
  /\ handled' = [handled EXCEPT ![work[w].s] = Append(@, work[w].m)]
  /\ UNCHANGED phase

(* A session moves alone if no other changes its object or its end.        *)
LEMMA PhaseMoves ==
  ASSUME NEW c \in Sessions,
         \A s \in Sessions \ {c} : obj'[s] = obj[s] /\ gone'[s] = gone[s]
  PROVE  \A p \in {"none", "open", "closed", "dropped"} :
           phase'[c] = p => phase' = [phase EXCEPT ![c] = p]
<1>1. /\ phase = [s \in Sessions |-> phase[s]]
      /\ phase' = [s \in Sessions |-> phase'[s]]
  BY DEF phase
<1>2. \A s \in Sessions \ {c} : phase'[s] = phase[s]
  BY DEF phase
<1> HIDE DEF phase
<1>3. ASSUME NEW f, NEW g, NEW p, f = [s \in Sessions |-> f[s]], g = [s \in Sessions |-> g[s]],
             g[c] = p, \A s \in Sessions \ {c} : g[s] = f[s]
      PROVE  g = [f EXCEPT ![c] = p]
  BY <1>3
<1> QED
  BY <1>1, <1>2, <1>3

(* What a step is for a user of the server                                 *)
LEMMA ServiceMoves ==
  ASSUME Inv, Next
  PROVE  \/ UNCHANGED <<phase, handled>>
         \/ \E s \in Sessions : phase[s] = "none" /\ PhaseSet(s, "open")
         \/ \E s \in Sessions : phase[s] = "open" /\ PhaseSet(s, "closed")
         \/ Dropped
         \/ \E w \in Workers : Delivered(w)
<1> DEFINE Moves == \/ UNCHANGED <<phase, handled>>
                    \/ \E s \in Sessions : phase[s] = "none" /\ PhaseSet(s, "open")
                    \/ \E s \in Sessions : phase[s] = "open" /\ PhaseSet(s, "closed")
                    \/ Dropped
                    \/ \E w \in Workers : Delivered(w)
<1>1. ASSUME UNCHANGED <<obj, gone, handled>> PROVE Moves
  BY <1>1 DEF phase
<1>2. TypeOK /\ NodeInv /\ QuietInv
  BY DEF Inv
<1>3. ASSUME NEW c \in Sessions, NEW o \in {"waiting", "refused"},
             obj[c] \in {"new", "waiting"},
             obj' = [obj EXCEPT ![c] = o], UNCHANGED <<gone, handled>>
      PROVE  Moves
  <2>1. \A s \in Sessions :
          \/ obj'[s] = obj[s]
          \/ obj[s] \notin {"live", "deleted"} /\ obj'[s] \notin {"live", "deleted"}
    BY <1>2, <1>3 DEF TypeOK
  <2>2. phase' = phase
    BY <1>3, <2>1 DEF phase
  <2> QED
    BY <1>3, <2>2
<1>4. ASSUME NEW c \in Sessions, obj[c] \in {"new", "waiting"},
             obj' = [obj EXCEPT ![c] = "live"], UNCHANGED <<gone, handled>>
      PROVE  Moves
  <2>1. phase[c] = "none" /\ gone[c] = 0
    BY <1>4, PhaseFacts
  <2>2. obj'[c] = "live" /\ \A s \in Sessions \ {c} : obj'[s] = obj[s]
    BY <1>2, <1>4 DEF TypeOK
  <2>3. phase'[c] = "open"
    BY <1>4, <2>1, <2>2 DEF phase
  <2>4. phase' = [phase EXCEPT ![c] = "open"]
    BY <1>4, <2>2, <2>3, PhaseMoves
  <2> QED
    BY <1>4, <2>1, <2>4 DEF PhaseSet
<1>5. CASE fault' # fault
  <2>1. UNCHANGED <<listVars, doneVars>>
    BY <1>5, OnlyFails
  <2> QED
    BY <1>1, <2>1 DEF listVars, doneVars
<1>6. ASSUME fault' = fault, NEW w \in Workers, WorkerStep(w) PROVE Moves
  <2>1. CASE DataEnter(w)
    <3>1. EnterEffect(w)
      BY <1>6, <2>1, DataEnterClean
    <3>2. phase[work[w].s] = "open"
      BY <3>1, PhaseFacts DEF EnterEffect
    <3>3. UNCHANGED phase
      BY <3>1 DEF EnterEffect, listVars, phase
    <3>4. Delivered(w)
      BY <3>1, <3>2, <3>3 DEF Delivered, EnterEffect
    <3> QED
      BY <3>4
  <2>2. CASE GoneRelease(w)
    <3>1. ReleaseEffect(w)
      BY <1>6, <2>2, GoneReleaseClean
    <3>2. PICK c \in Sessions : c = work[w].s
      BY <3>1 DEF ReleaseEffect
    <3>3. /\ Usable(c) /\ gone' = [gone EXCEPT ![c] = 1] /\ gone \in [Sessions -> 0 .. 1]
          /\ UNCHANGED <<obj, handled>>
      BY <1>2, <3>1, <3>2 DEF ReleaseEffect, TypeOK
    <3>4. phase[c] = "open"
      BY <3>3, PhaseFacts
    <3>5. gone'[c] = 1 /\ \A s \in Sessions \ {c} : obj'[s] = obj[s] /\ gone'[s] = gone[s]
      BY <3>3
    <3>6. phase'[c] = "closed"
      BY <3>5 DEF phase
    <3>7. phase' = [phase EXCEPT ![c] = "closed"]
      BY <3>5, <3>6, PhaseMoves
    <3> QED
      BY <3>3, <3>4, <3>7 DEF PhaseSet
  <2>3. CASE GoneDelete(w)
    <3>1. /\ work[w].do = "gone" /\ work[w].at = "delete" /\ work[w].s \in Sessions
      BY <1>6, <2>3, StepMoves
    <3>2. PICK c \in Sessions : c = work[w].s
      BY <3>1
    <3>3. Takes(w, c)
      BY <3>1, <3>2 DEF Takes
    <3>4. node[c] = "released" /\ gone[c] > 0
      BY <1>2, <3>3 DEF NodeInv, OneTaker, NodeOK
    <3>5. /\ \A s \in Sessions \ {c} : obj'[s] = obj[s]
          /\ UNCHANGED <<gone, handled>>
      BY <1>2, <2>3, <3>2 DEF GoneDelete, TypeOK, doneVars
    <3>6. phase' = phase
      BY <3>4, <3>5 DEF phase
    <3> QED
      BY <3>5, <3>6
  <2>4. CASE \E c \in Sessions : AcceptRefuse(w, c) \/ AcceptClient(w, c)
    BY <1>3, <1>4, <2>4 DEF AcceptRefuse, AcceptClient, doneVars
  <2>5. CASE DataBegin(w) \/ GoneBegin(w) \/ DataLock(w) \/ DataDone(w) \/ GoneErase(w)
    BY <1>1, <1>6, <2>5, BeginClean, DataLockClean, DataDoneClean, GoneEraseClean
       DEF DataBegin, GoneBegin, BeginEffect, LockEffect, DoneEffect, EraseEffect, listVars,
          doneVars
  <2>6. CASE \/ Take(w) \/ AcceptNobody(w) \/ AcceptLock(w) \/ AcceptAppend(w)
             \/ WaitStep(w) \/ GoneHandled(w)
    BY <1>1, <1>6, <2>6, StepMoves DEF Take, TakeAt, AcceptNobody, AcceptLock, AcceptAppend,
       WaitStep, WaitLock, WaitCheck, WaitData, Reads, WaitNothing, WaitGone, Ends, WaitEnd,
       PassEnds, GoneHandled, listVars, doneVars
  <2> QED
    BY <1>6, <2>1, <2>2, <2>3, <2>4, <2>5, <2>6 DEF WorkerStep, AcceptStep, DataStep, GoneStep
<1>7. CASE StopClose
  <2>1. \A s \in Sessions : ~Carried(s)
    BY <1>2, <1>7 DEF StopClose, QuietInv, Carried, CtlCarries, AcceptCarries, IdleWork
  <2>2. /\ \A s \in Sessions :
             obj'[s] = IF Listed(s) THEN "deleted"
                       ELSE IF obj[s] = "waiting" THEN "refused" ELSE obj[s]
        /\ UNCHANGED <<gone, handled>>
    BY <1>7 DEF StopClose, doneVars
  <2>3. \A s \in Sessions : phase'[s] = IF phase[s] = "open" THEN "dropped" ELSE phase[s]
    <3>1. ASSUME NEW s \in Sessions
          PROVE  phase'[s] = IF phase[s] = "open" THEN "dropped" ELSE phase[s]
      <4>1. CASE phase[s] = "open"
        <5>1. gone[s] = 0 /\ Listed(s)
          BY <2>1, <4>1, PhaseFacts
        <5>2. gone'[s] = 0 /\ obj'[s] = "deleted"
          BY <2>2, <5>1
        <5> QED
          BY <4>1, <5>2 DEF phase
      <4>2. CASE phase[s] = "closed"
        <5>1. gone'[s] = 1
          BY <2>2, <4>2, PhaseFacts
        <5> QED
          BY <4>2, <5>1 DEF phase
      <4>3. CASE phase[s] = "dropped"
        <5>1. gone[s] = 0 /\ obj[s] = "deleted"
          BY <4>3, PhaseFacts
        <5>2. gone'[s] = 0 /\ obj'[s] = "deleted"
          BY <2>2, <5>1
        <5> QED
          BY <4>3, <5>2 DEF phase
      <4>4. CASE phase[s] = "none"
        <5>1. gone[s] = 0 /\ obj[s] \in {"new", "waiting", "refused"}
          BY <4>4, PhaseFacts
        <5>2. ~Listed(s)
          BY <5>1, PhaseFacts
        <5>3. gone'[s] = 0 /\ obj'[s] \in {"new", "waiting", "refused"}
          BY <2>2, <5>1, <5>2
        <5> QED
          BY <4>4, <5>3 DEF phase
      <4> QED
        BY <4>1, <4>2, <4>3, <4>4, PhaseFacts
    <3> QED
      BY <3>1
  <2>4. phase' = [s \in Sessions |-> phase'[s]]
    BY DEF phase
  <2>5. phase' = [s \in Sessions |-> IF phase[s] = "open" THEN "dropped" ELSE phase[s]]
    BY <2>3, <2>4, Zenon
  <2> QED
    BY <2>2, <2>5 DEF Dropped
<1>8. ASSUME NEW s \in Sessions, NEW k \in BOOLEAN, ServerConnectTo(s, k) PROVE Moves
  BY <1>4, <1>8 DEF ServerConnectTo, doneVars
<1>9. ASSUME NEW s \in Sessions, PeerConnects(s) PROVE Moves
  BY <1>3, <1>9 DEF PeerConnects, doneVars
<1>10. CASE \/ StartServer \/ StopServer \/ StopReset \/ StartFails
            \/ StartListens \/ StartWaits
            \/ (\E op, who : Walk(op, who))
            \/ WalkEnd \/ ConnectLock \/ ConnectAppend
            \/ \E s \in Sessions : PeerSends(s) \/ PeerEnds(s)
  BY <1>1, <1>10 DEF StartServer, StopServer, StopReset, Resets, StartFails, StartListens,
     StartWaits,
     Walk, WalkEnd, ConnectLock, ConnectAppend, PeerSends, PeerEnds, listVars, doneVars
<1>11. CASE WalkVisit /\ fault' = fault
  BY <1>1, <1>11, WalkVisitClean DEF VisitEffect, doneVars
<1> QED
  BY <1>5, <1>6, <1>7, <1>8, <1>9, <1>10, <1>11 DEF Next, CtlBegin, CtlRuns, PeerStep

(* Every step of the server is one of the service, or nothing to its user. *)
LEMMA AnyOrderStep ==
  ASSUME Inv, MsgInv, [Next]_vars
  PROVE  [AnyOrder!Next]_(AnyOrder!vars)
<1>1. ASSUME NEW s \in Sessions, phase[s] = "none", PhaseSet(s, "open") PROVE AnyOrder!Next
  BY <1>1 DEF PhaseSet, AnyOrder!Next, AnyOrder!Open
<1>2. ASSUME NEW s \in Sessions, phase[s] = "open", PhaseSet(s, "closed") PROVE AnyOrder!Next
  BY <1>2 DEF PhaseSet, AnyOrder!Next, AnyOrder!Close
<1>3. ASSUME Dropped PROVE AnyOrder!Next
  BY <1>3 DEF Dropped, AnyOrder!Next, AnyOrder!DropAll
<1>4. ASSUME NEW w \in Workers, Delivered(w) PROVE AnyOrder!Next
  <2>1. PICK c \in Sessions, n \in Msgs : c = work[w].s /\ n = work[w].m
    BY <1>4 DEF Delivered, EnterEffect
  <2>2. Carries(w, c, n)
    BY <1>4, <2>1 DEF Delivered, EnterEffect, Carries
  <2>3. ~Handled(c, n)
    BY <2>2 DEF MsgInv, Single
  <2>4. AnyOrder!Deliver(c, n)
    BY <1>4, <2>1, <2>3 DEF Delivered, Handled, AnyOrder!Deliver
  <2> QED
    BY <2>4 DEF AnyOrder!Next, Msgs
<1>5. CASE UNCHANGED <<phase, handled>>
  BY <1>5 DEF AnyOrder!vars
<1>6. CASE UNCHANGED vars
  BY <1>6 DEF vars, phase, AnyOrder!vars
<1>7. CASE Next
  <2> HIDE DEF phase
  <2> QED
    BY <1>1, <1>2, <1>3, <1>4, <1>5, <1>7, ServiceMoves
<1> QED
  BY <1>6, <1>7

(* At first no session is open, and no message handed over.                *)
LEMMA AnyOrderInit == Init => AnyOrder!Init
BY DEF Init, phase, AnyOrder!Init

(* With any number of workers, and whatever the control thread calls, each *)
(* message is handed over at most once, while its session is open, and the *)
(* disconnect handler sees a session once, after its last message.         *)
THEOREM ServiceInAnyOrder == Spec => AnyOrderService
<1>1. Spec => []Inv
  BY InvHolds
<1>2. Init => MsgInv
  BY MsgInit
<1>3. Inv /\ MsgInv /\ [Next]_vars => MsgInv'
  BY MsgStep
<1>4. Spec => [](Inv /\ MsgInv)
  BY <1>1, <1>2, <1>3, PTL DEF Spec
<1>5. Inv /\ MsgInv /\ [Next]_vars => [AnyOrder!Next]_(AnyOrder!vars)
  BY AnyOrderStep
<1>6. Init => AnyOrder!Init
  BY AnyOrderInit
<1> QED
  BY <1>4, <1>5, <1>6, PTL DEF Spec, AnyOrderService, AnyOrder!Spec

-----------------------------------------------------------------------------
(* One worker, on a server that is only started and stopped.  The reason   *)
(* why nothing goes wrong is the order of the queue: the tasks of a pass   *)
(* of the waiting loop come before the next pass.                          *)

SoleWorker == (\A v, w \in Workers : v = w) /\ CtlOps \subseteq {"stop"}

(* A data or disconnect task *)
Serves(t) == t.do \in {"data", "gone"}

(* The queue has at most one task of a session, which finds its session,   *)
(* and none behind the waiting loop.                                       *)
QueueOK ==
  /\ \A i, j \in DOMAIN queue :
       Serves(queue[i]) /\ Serves(queue[j]) /\ queue[i].s = queue[j].s => i = j
  /\ \A i \in DOMAIN queue : Serves(queue[i]) => Usable(queue[i].s)
  /\ \A i, j \in DOMAIN queue : queue[i].do = "wait" /\ i < j => ~Serves(queue[j])

(* The worker's task is the only one of its session, which it finds until  *)
(* it takes it away.                                                       *)
TaskOf(r) ==
  /\ \A i \in DOMAIN queue : Serves(queue[i]) /\ Serves(r) => queue[i].s # r.s
  /\ r.do = "data" => Usable(r.s)
  /\ r.do = "gone" /\ r.at \in {"begin", "lock"} => Usable(r.s)

(* A pass begins without tasks, and those it has submitted are of sessions *)
(* its iterator has left.                                                  *)
Left(s, it) == it = None \/ \E i, j \in DOMAIN list : i < j /\ list[i] = s /\ list[j] = it

PassOf(r) ==
  r.do = "wait" =>
    /\ r.at = "begin" => \A i \in DOMAIN queue : ~Serves(queue[i])
    /\ r.at # "begin" => \A i \in DOMAIN queue : Serves(queue[i]) => Left(queue[i].s, r.s)
    /\ r.s # None => Listed(r.s)
    /\ r.at = "load" => Usable(r.s)

SoleInv ==
  /\ fault = "no"
  /\ ctl.at \notin {"visit", "lock", "append"}
  /\ QueueOK
  /\ \A w \in Workers : TaskOf(work[w]) /\ PassOf(work[w])

(* There are no tasks at first.                                            *)
LEMMA SoleInit == Init => SoleInv
<1> SUFFICES ASSUME Init PROVE SoleInv
  OBVIOUS
<1>1. queue = <<>> /\ fault = "no" /\ ctl.at = "idle"
  BY DEF Init, IdleCtl
<1>2. \A w \in Workers : work[w].do = "none"
  BY DEF Init, IdleWork
<1> QED
  BY <1>1, <1>2 DEF SoleInv, QueueOK, TaskOf, PassOf, Serves

(* Nothing is used after its end.                                          *)
LEMMA SoleSafe ==
  ASSUME SoleWorker, Inv, SoleInv, Next
  PROVE  fault' = fault
<1>1. /\ \A w \in Workers : TaskOf(work[w]) /\ PassOf(work[w]) /\ WorkOK(work[w])
      /\ ctl.at \notin {"visit", "append"} /\ TypeOK
  BY DEF SoleInv, Inv, WorkInv
<1>2. \A s : Usable(s) => ~Dangling(s) /\ ~Null(s) /\ ~BadDeref(s)
  BY DEF Usable, Dangling, Null, BadDeref
<1>3. \A s \in Sessions : Usable(s) => obj[s] # "deleted"
  BY PhaseFacts
<1>4. ASSUME NEW w \in Workers, WorkerStep(w) PROVE fault' = fault
  <2>1. CASE Take(w) \/ AcceptStep(w)
    BY <2>1 DEF Take, TakeAt, AcceptStep, AcceptNobody, AcceptRefuse, AcceptClient, AcceptLock,
       AcceptAppend, stillVars
  <2>2. CASE WaitStep(w)
    <3>1. ~WaitErased(w) /\ ~WaitNull(w)
      BY <1>1, <1>2 DEF PassOf, WaitErased, WaitNull, At, Dangling
    <3> QED
      BY <2>2, <3>1 DEF WaitStep, WaitLock, WaitCheck, WaitData, Reads, WaitNothing, WaitGone,
         Ends,
         WaitEnd, PassEnds, stillVars
  <2>3. CASE DataStep(w)
    <3>1. work[w].do = "data" /\ Usable(work[w].s) /\ work[w].s \in Sessions
      BY <1>1, <2>3 DEF DataStep, DataBegin, Begin, DataLock, Locks, DataEnter, DataDone, At,
         TaskOf,
         WorkOK
    <3>2. ~BadDeref(work[w].s) /\ obj[work[w].s] # "deleted"
      BY <1>2, <1>3, <3>1
    <3> QED
      BY <2>3, <3>2 DEF DataStep, DataBegin, Begin, DataLock, Locks, DataEnter, DataDone,
         stillVars
  <2>4. CASE GoneBegin(w) \/ GoneRelease(w)
    <3>1. /\ work[w].do = "gone" /\ work[w].at \in {"begin", "lock"}
          /\ Usable(work[w].s) /\ work[w].s \in Sessions
      BY <1>1, <2>4 DEF GoneBegin, Begin, GoneRelease, At, TaskOf, WorkOK
    <3>2. ~BadDeref(work[w].s) /\ obj[work[w].s] # "deleted"
      BY <1>2, <1>3, <3>1
    <3> QED
      BY <2>4, <3>2 DEF GoneBegin, Begin, GoneRelease, stillVars
  <2>5. CASE GoneErase(w)
    <3>1. ~OtherWriter(w)
      BY <1>1 DEF OtherWriter, SoleWorker
    <3> QED
      BY <2>5, <3>1 DEF GoneErase, stillVars
  <2>6. CASE GoneHandled(w) \/ GoneDelete(w)
    BY <2>6 DEF GoneHandled, GoneDelete, stillVars
  <2> QED
    BY <1>4, <2>1, <2>2, <2>3, <2>4, <2>5, <2>6 DEF WorkerStep, GoneStep
<1>5. CASE CtlBegin \/ StopReset
  BY <1>5 DEF CtlBegin, StartServer, StopServer, Walk, ServerConnectTo, StopReset, Resets
<1>6. CASE CtlRuns
  BY <1>1, <1>6 DEF CtlRuns, StopClose, StartFails, StartListens, StartWaits, WalkVisit,
     WalkEnd,
     ConnectLock, ConnectAppend
<1>7. CASE PeerStep
  BY <1>7 DEF PeerStep, PeerConnects, PeerSends, PeerEnds
<1> QED
  BY <1>4, <1>5, <1>6, <1>7 DEF Next

(* A step that leaves the list and adds no task for a session              *)
LEMMA SoleKept ==
  ASSUME TypeOK, QueueOK, UNCHANGED <<list, node>>,
         \/ queue' = queue \/ queue' = <<>>
         \/ \E t \in Task : ~Serves(t) /\ (queue' = Submitted(t) \/ queue' = Resubmitted(t)),
         \A w \in Workers : TaskOf(work'[w]) /\ PassOf(work'[w])
  PROVE  QueueOK' /\ \A w \in Workers : TaskOf(work[w])' /\ PassOf(work[w])'
<1>1. queue \in Seq(Task)
  BY DEF TypeOK
<1>2. /\ \A i \in DOMAIN queue' : Serves(queue'[i]) =>
           i \in DOMAIN queue /\ queue'[i] = queue[i]
      /\ \A i, j \in DOMAIN queue' :
           i < j /\ Serves(queue'[j]) => i \in DOMAIN queue /\ queue'[i] = queue[i]
  <2>1. CASE queue' = queue \/ queue' = <<>>
    BY <2>1
  <2>2. ASSUME NEW t \in Task, ~Serves(t), queue' = Append(queue, t)
        PROVE  /\ \A i \in DOMAIN queue' : i \in DOMAIN queue \/ queue'[i] = t
               /\ \A i \in DOMAIN queue : queue'[i] = queue[i]
               /\ \A i, j \in DOMAIN queue' : i < j => i \in DOMAIN queue
    BY <1>1, <2>2, AppendFacts
  <2> QED
    BY <2>1, <2>2 DEF Submitted, Resubmitted
<1>3. \A s, it :
        /\ Usable(s)' <=> Usable(s)
        /\ Listed(s)' <=> Listed(s)
        /\ Left(s, it) => Left(s, it)'
  BY DEF Usable, Listed, Left
<1>4. QueueOK'
  <2>1. \A i, j \in DOMAIN queue' :
          Serves(queue'[i]) /\ Serves(queue'[j]) /\ queue'[i].s = queue'[j].s => i = j
    BY <1>2 DEF QueueOK
  <2>2. \A i \in DOMAIN queue' : Serves(queue'[i]) => Usable(queue[i].s)'
    BY <1>2, <1>3 DEF QueueOK
  <2>3. \A i, j \in DOMAIN queue' : queue'[i].do = "wait" /\ i < j => ~Serves(queue'[j])
    BY <1>2 DEF QueueOK
  <2> QED
    BY <2>1, <2>2, <2>3 DEF QueueOK, Serves
<1>5. ASSUME NEW w \in Workers PROVE TaskOf(work[w])' /\ PassOf(work[w])'
  <2>1. TaskOf(work[w])'
    BY <1>2, <1>3 DEF TaskOf, Serves
  <2>2. ASSUME work'[w].do = "wait"
        PROVE  /\ work'[w].at = "begin" => \A i \in DOMAIN queue' : ~Serves(queue'[i])
               /\ work'[w].at # "begin" =>
                    \A i \in DOMAIN queue' : Serves(queue'[i]) => Left(queue[i].s, work[w].s)'
               /\ work'[w].s # None => Listed(work[w].s)'
               /\ work'[w].at = "load" => Usable(work[w].s)'
    BY <1>2, <1>3, <2>2 DEF PassOf
  <2> QED
    BY <2>1, <2>2 DEF PassOf, Serves
<1> QED
  BY <1>4, <1>5

(* A worker takes the first task.                                          *)
LEMMA SoleTakes ==
  ASSUME SoleWorker, Inv, SoleInv, fault' = fault, NEW w \in Workers, Take(w)
  PROVE  QueueOK' /\ \A v \in Workers : TaskOf(work[v])' /\ PassOf(work[v])'
<1> DEFINE t == queue[1]
<1>1. /\ 1 \in DOMAIN queue /\ t \in Task
      /\ Becomes(w, [do |-> t.do, s |-> t.s, m |-> t.m, at |-> "begin"])
      /\ UNCHANGED <<list, node>>
  BY StepMoves DEF Take, TakeAt, listVars
<1>2. queue \in Seq(Task) /\ queue' = RemoveAt(queue, 1)
  BY DEF Inv, TypeOK, Take, TakeAt
<1>3. \A i \in DOMAIN queue' : i + 1 \in DOMAIN queue /\ queue'[i] = queue[i + 1] /\ 1 < i + 1
  <2>1. /\ DOMAIN queue = 1 .. Len(queue) /\ Len(queue) \in Nat
        /\ DOMAIN queue' = 1 .. Len(queue) - 1
        /\ \A i \in 1 .. Len(queue) - 1 : queue'[i] = IF i < 1 THEN queue[i] ELSE queue[i + 1]
    BY <1>1, <1>2, RemoveFacts
  <2>2. ASSUME NEW n \in Nat
        PROVE  \A i \in 1 .. n - 1 : i + 1 \in 1 .. n /\ ~(i < 1) /\ 1 < i + 1
    OBVIOUS
  <2> QED
    BY <2>1, <2>2, Zenon
<1>4. \A i, j \in DOMAIN queue' : (i + 1 = j + 1 => i = j) /\ (i < j => i + 1 < j + 1)
  <2>1. DOMAIN queue' \subseteq Nat
    BY <1>1, <1>2, RemoveFacts
  <2> QED
    BY <2>1
<1>5. \A s, it :
        /\ Usable(s)' <=> Usable(s)
        /\ Listed(s)' <=> Listed(s)
        /\ Left(s, it)' <=> Left(s, it)
  BY <1>1 DEF Usable, Listed, Left
<1>6. QueueOK
  BY DEF SoleInv
<1>7. QueueOK'
  <2>1. \A i, j \in DOMAIN queue' :
          Serves(queue'[i]) /\ Serves(queue'[j]) /\ queue'[i].s = queue'[j].s => i = j
    BY <1>3, <1>4, <1>6 DEF QueueOK
  <2>2. \A i \in DOMAIN queue' : Serves(queue'[i]) => Usable(queue[i].s)'
    BY <1>3, <1>5, <1>6 DEF QueueOK
  <2>3. \A i, j \in DOMAIN queue' : queue'[i].do = "wait" /\ i < j => ~Serves(queue'[j])
    BY <1>3, <1>4, <1>6 DEF QueueOK
  <2> QED
    BY <2>1, <2>2, <2>3 DEF QueueOK, Serves
<1>8. /\ work'[w].do = t.do /\ work'[w].s = t.s /\ work'[w].at = "begin"
      /\ t.do = "wait" => t.s = None
  BY <1>1 DEF Becomes, Task
<1>9. Serves(t) =>
        Usable(t.s) /\ \A i \in DOMAIN queue' : Serves(queue'[i]) => queue'[i].s # t.s
  <2>1. Serves(t) => Usable(t.s)
    BY <1>1, <1>6 DEF QueueOK
  <2>2. \A i \in DOMAIN queue' : i + 1 # 1
    BY <1>3
  <2>3. \A i \in DOMAIN queue' : Serves(t) /\ Serves(queue'[i]) => queue'[i].s # t.s
    BY <1>1, <1>3, <1>6, <2>2 DEF QueueOK
  <2> QED
    BY <2>1, <2>3
<1>10. t.do = "wait" => \A i \in DOMAIN queue' : ~Serves(queue'[i])
  BY <1>1, <1>3, <1>6 DEF QueueOK
<1>11. TaskOf(work[w])'
  BY <1>5, <1>8, <1>9 DEF TaskOf, Serves
<1>12. PassOf(work[w])'
  BY <1>8, <1>10 DEF PassOf, Serves
<1> QED
  BY <1>7, <1>11, <1>12 DEF SoleWorker

(* What the iterator has left behind, before and after a step              *)
LEMMA LeftFacts ==
  ASSUME TypeOK, Distinct, NEW c \in Sessions, Listed(c)
  PROVE  /\ ~Left(c, c)
         /\ \A s : Left(s, c) => Left(s, After(c))
         /\ Left(c, After(c))
<1>1. /\ Position(c) \in DOMAIN list /\ list[Position(c)] = c /\ list \in Seq(Sessions)
      /\ Position(c) \in Nat
      /\ \A i \in DOMAIN list : list[i] = c => i = Position(c)
      /\ c # None
  <2>1. Position(c) \in DOMAIN list /\ list[Position(c)] = c /\ list \in Seq(Sessions)
    BY ListType DEF TypeOK
  <2> QED
    BY <2>1, ServerAssumption DEF Distinct
<1>2. ~Left(c, c)
  BY <1>1 DEF Left
<1>3. CASE Position(c) = Len(list)
  BY <1>2, <1>3 DEF After, Left
<1>4. CASE Position(c) # Len(list)
  <2>1. /\ Position(c) + 1 \in DOMAIN list /\ After(c) = list[Position(c) + 1]
        /\ Position(c) < Position(c) + 1 /\ DOMAIN list \subseteq Nat
    BY <1>1, <1>4 DEF After
  <2>2. ASSUME NEW s, NEW i \in DOMAIN list, i < Position(c), list[i] = s
        PROVE  Left(s, After(c))
    <3>1. i < Position(c) + 1
      BY <1>1, <2>1, <2>2
    <3> QED
      BY <2>1, <2>2, <3>1 DEF Left
  <2>3. \A s : Left(s, c) => Left(s, After(c))
    BY <1>1, <2>2 DEF Left
  <2>4. Left(c, After(c))
    BY <1>1, <2>1 DEF Left
  <2> QED
    BY <1>2, <2>3, <2>4
<1> QED
  BY <1>3, <1>4

(* The waiting loop submits a task for the session its iterator stands on, *)
(* and steps on.                                                           *)
LEMMA SolePasses ==
  ASSUME SoleWorker, Inv, SoleInv, fault' = fault, NEW w \in Workers, Pass(w),
         UNCHANGED <<list, node>>,
         \/ queue' = queue
         \/ \E t \in Task : Serves(t) /\ t.s = work[w].s /\ queue' = Submitted(t)
  PROVE  QueueOK' /\ \A v \in Workers : TaskOf(work[v])' /\ PassOf(work[v])'
<1>1. /\ work[w].do = "wait" /\ work[w].at = "load" /\ work[w].s \in Sessions
      /\ Usable(work[w].s) /\ Moved(w, After(work[w].s), "check")
  BY StepMoves DEF Pass
<1>2. PICK c \in Sessions : c = work[w].s
  BY <1>1
<1>3. TypeOK /\ NodeInv /\ LoopInv /\ QueueOK /\ PassOf(work[w]) /\ Listed(c)
  BY <1>1, <1>2 DEF Inv, SoleInv, Usable
<1>4. \A i \in DOMAIN queue : queue[i].do # "wait"
  BY <1>1, <1>3 DEF LoopInv, AtMostOne, Queued, Runs
<1>5. \A i \in DOMAIN queue : Serves(queue[i]) => Left(queue[i].s, c)
  BY <1>1, <1>2, <1>3 DEF PassOf
<1>6. /\ ~Left(c, c) /\ Left(c, After(c))
      /\ \A s : Left(s, c) => Left(s, After(c))
  BY <1>3, LeftFacts DEF NodeInv
<1>7. After(c) # None => Listed(After(c))
  BY <1>3, ListRefs
<1>8. \A s, it :
        /\ Usable(s)' <=> Usable(s)
        /\ Listed(s)' <=> Listed(s)
        /\ Left(s, it)' <=> Left(s, it)
  BY DEF Usable, Listed, Left
<1>9. /\ work'[w].do = "wait" /\ work'[w].at = "check" /\ work'[w].s = After(c)
  BY <1>1, <1>2 DEF Moved, Becomes
<1>10. /\ \A i \in DOMAIN queue' :
            \/ i \in DOMAIN queue /\ queue'[i] = queue[i]
            \/ i \notin DOMAIN queue /\ Serves(queue'[i]) /\ queue'[i].s = c
       /\ \A i, j \in DOMAIN queue' : i \notin DOMAIN queue /\ j \notin DOMAIN queue => i = j
  <2>1. CASE queue' = queue
    BY <2>1
  <2>2. ASSUME NEW t \in Task, queue' = Append(queue, t)
        PROVE  /\ \A i \in DOMAIN queue' :
                    \/ i \in DOMAIN queue /\ queue'[i] = queue[i]
                    \/ i \notin DOMAIN queue /\ queue'[i] = t
               /\ \A i, j \in DOMAIN queue' :
                    i \notin DOMAIN queue /\ j \notin DOMAIN queue => i = j
    <3>1. /\ DOMAIN queue = 1 .. Len(queue) /\ Len(queue) \in Nat
          /\ DOMAIN queue' = 1 .. Len(queue) + 1
          /\ \A i \in DOMAIN queue : queue'[i] = queue[i] /\ i # Len(queue) + 1
          /\ queue'[Len(queue) + 1] = t
      BY <1>3, <2>2, AppendFacts DEF TypeOK
    <3>2. \A i \in DOMAIN queue' : i \in DOMAIN queue \/ i = Len(queue) + 1
      BY <3>1
    <3> QED
      BY <3>1, <3>2
  <2> QED
    BY <1>2, <2>1, <2>2 DEF Submitted
<1>11. QueueOK'
  <2>1. \A i, j \in DOMAIN queue' :
          Serves(queue'[i]) /\ Serves(queue'[j]) /\ queue'[i].s = queue'[j].s => i = j
    BY <1>3, <1>5, <1>6, <1>10 DEF QueueOK
  <2>2. \A i \in DOMAIN queue' : Serves(queue'[i]) => Usable(queue[i].s)'
    BY <1>1, <1>2, <1>3, <1>8, <1>10 DEF QueueOK
  <2>3. \A i \in DOMAIN queue' : queue'[i].do # "wait"
    BY <1>4, <1>10 DEF Serves
  <2> QED
    BY <2>1, <2>2, <2>3 DEF QueueOK, Serves
<1>12. TaskOf(work[w])'
  BY <1>9 DEF TaskOf, Serves
<1>13. PICK it \in Sessions \cup {None} : it = After(c)
  BY <1>3, ListType
<1>14. PassOf(work[w])'
  <2>1. \A i \in DOMAIN queue' : Serves(queue'[i]) => Left(queue'[i].s, it)
    BY <1>5, <1>6, <1>10, <1>13
  <2>2. \A i \in DOMAIN queue' : Serves(queue'[i]) => Left(queue[i].s, it)'
    BY <2>1 DEF Left
  <2>3. it # None => Listed(it)'
    BY <1>7, <1>8, <1>13
  <2>4. work'[w].s = it
    BY <1>9, <1>13
  <2> QED
    BY <1>9, <2>2, <2>3, <2>4 DEF PassOf, Serves
<1> QED
  BY <1>11, <1>12, <1>14 DEF SoleWorker

(* A step that changes the list, or who owns a node, while the worker is   *)
(* in no task that needs it                                                *)
LEMMA SoleListed ==
  ASSUME SoleWorker, TypeOK, QueueOK, NEW w \in Workers, NEW r, Becomes(w, r),
         r.do \notin {"wait", "data"}, r.do = "gone" => r.at \notin {"begin", "lock"},
         \A i \in DOMAIN queue : Serves(queue[i]) /\ Serves(r) => queue[i].s # r.s,
         queue' = queue \/ queue' = Resubmitted(AcceptTask),
         \A i \in DOMAIN queue, s \in Sessions : Serves(queue[i]) /\ queue[i].s = s =>
           Usable(s)'
  PROVE  QueueOK' /\ \A v \in Workers : TaskOf(work[v])' /\ PassOf(work[v])'
<1>1. queue \in Seq(Task) /\ AcceptTask \in Task /\ ~Serves(AcceptTask)
  BY QueueType DEF TypeOK, AcceptTask, Serves
<1>2. /\ \A i \in DOMAIN queue' : Serves(queue'[i]) =>
           i \in DOMAIN queue /\ queue'[i] = queue[i]
      /\ \A i, j \in DOMAIN queue' :
           i < j /\ Serves(queue'[j]) => i \in DOMAIN queue /\ queue'[i] = queue[i]
  <2>1. CASE queue' = queue
    BY <2>1
  <2>2. CASE queue' = Append(queue, AcceptTask)
    <3>1. /\ \A i \in DOMAIN queue' : i \in DOMAIN queue \/ queue'[i] = AcceptTask
          /\ \A i \in DOMAIN queue : queue'[i] = queue[i]
          /\ \A i, j \in DOMAIN queue' : i < j => i \in DOMAIN queue
      BY <1>1, <2>2, AppendFacts
    <3> QED
      BY <1>1, <3>1
  <2> QED
    BY <2>1, <2>2 DEF Submitted, Resubmitted
<1>3. \A i \in DOMAIN queue' : Serves(queue'[i]) => Usable(queue[i].s)'
  <2>1. ASSUME NEW i \in DOMAIN queue', Serves(queue'[i]) PROVE Usable(queue[i].s)'
    <3>1. i \in DOMAIN queue /\ queue'[i] = queue[i] /\ Serves(queue[i])
      BY <1>2, <2>1
    <3>2. PICK s \in Sessions : s = queue[i].s
      BY <1>1, <3>1 DEF Task, Serves
    <3>3. Usable(s)' /\ queue'[i].s = s
      BY <3>1, <3>2
    <3> QED
      BY <3>3 DEF Usable, Listed
  <2> QED
    BY <2>1
<1>4. QueueOK'
  <2>1. \A i, j \in DOMAIN queue' :
          Serves(queue'[i]) /\ Serves(queue'[j]) /\ queue'[i].s = queue'[j].s => i = j
    BY <1>2 DEF QueueOK
  <2>2. \A i, j \in DOMAIN queue' : queue'[i].do = "wait" /\ i < j => ~Serves(queue'[j])
    BY <1>2 DEF QueueOK
  <2> QED
    BY <1>3, <2>1, <2>2 DEF QueueOK, Serves
<1>5. work'[w] = r
  BY DEF Becomes
<1>6. TaskOf(work[w])' /\ PassOf(work[w])'
  BY <1>2, <1>5 DEF TaskOf, PassOf, Serves
<1> QED
  BY <1>4, <1>6 DEF SoleWorker

(* A session is listed.                                                    *)
LEMMA SoleAppends ==
  ASSUME SoleWorker, Inv, SoleInv, fault' = fault, NEW w \in Workers, AcceptAppend(w)
  PROVE  QueueOK' /\ \A v \in Workers : TaskOf(work[v])' /\ PassOf(work[v])'
<1>1. PICK c \in Sessions : c = work[w].s
  BY StepMoves
<1>2. /\ Becomes(w, IdleWork) /\ list' = Append(list, c)
      /\ node' = [node EXCEPT ![c] = "owned"] /\ queue' = Resubmitted(AcceptTask)
  BY <1>1, StepMoves DEF AcceptAppend
<1>3. TypeOK /\ QueueOK /\ node \in [Sessions -> NodePtr]
  BY DEF Inv, SoleInv, TypeOK
<1>4. \A s \in Sessions : Listed(s)' <=> Listed(s) \/ s = c
  BY <1>2, <1>3, ListAppends
<1>5. ASSUME NEW i \in DOMAIN queue, NEW s \in Sessions, Serves(queue[i]), queue[i].s = s
      PROVE  Usable(s)'
  <2>1. Usable(s)
    BY <1>3, <1>5 DEF QueueOK
  <2> QED
    BY <1>2, <1>3, <1>4, <2>1 DEF Usable
<1> QED
  BY <1>2, <1>3, <1>5, SoleListed DEF IdleWork, Serves

(* The disconnect task takes the pointer out of the node.                  *)
LEMMA SoleReleases ==
  ASSUME SoleWorker, Inv, SoleInv, fault' = fault, NEW w \in Workers, GoneRelease(w)
  PROVE  QueueOK' /\ \A v \in Workers : TaskOf(work[v])' /\ PassOf(work[v])'
<1>1. ReleaseEffect(w)
  BY GoneReleaseClean
<1>2. PICK c \in Sessions, m \in 0 .. MaxMsgs : c = work[w].s /\ m = work[w].m
  BY <1>1 DEF ReleaseEffect, Inv, TypeOK, Work
<1>3. /\ Becomes(w, [do |-> "gone", s |-> c, m |-> m, at |-> "handle"])
      /\ node' = [node EXCEPT ![c] = "released"] /\ UNCHANGED <<list, queue>>
      /\ work[w].do = "gone" /\ work[w].s = c
  BY <1>1, <1>2 DEF ReleaseEffect, Moved
<1>4. TypeOK /\ QueueOK /\ TaskOf(work[w]) /\ node \in [Sessions -> NodePtr]
  BY DEF Inv, SoleInv, TypeOK
<1>5. \A i \in DOMAIN queue : Serves(queue[i]) => queue[i].s # c
  BY <1>3, <1>4 DEF TaskOf, Serves
<1>6. ASSUME NEW i \in DOMAIN queue, NEW s \in Sessions, Serves(queue[i]), queue[i].s = s
      PROVE  Usable(s)'
  <2>1. Usable(s) /\ s # c
    BY <1>4, <1>5, <1>6 DEF QueueOK
  <2> QED
    BY <1>3, <1>4, <2>1 DEF Usable, Listed
<1> QED
  BY <1>3, <1>4, <1>5, <1>6, SoleListed

(* The disconnect task takes the node out of the list.                     *)
LEMMA SoleErases ==
  ASSUME SoleWorker, Inv, SoleInv, fault' = fault, NEW w \in Workers, GoneErase(w)
  PROVE  QueueOK' /\ \A v \in Workers : TaskOf(work[v])' /\ PassOf(work[v])'
<1>1. EraseEffect(w)
  BY GoneEraseClean
<1>2. PICK c \in Sessions, m \in 0 .. MaxMsgs : c = work[w].s /\ m = work[w].m
  BY <1>1 DEF EraseEffect, Inv, TypeOK, Work
<1>3. /\ Becomes(w, [do |-> "gone", s |-> c, m |-> m, at |-> "delete"])
      /\ Listed(c) /\ list' = Erased(c) /\ UNCHANGED <<node, queue>>
      /\ work[w].do = "gone" /\ work[w].s = c
  BY <1>1, <1>2 DEF EraseEffect, Moved
<1>4. TypeOK /\ Distinct /\ QueueOK /\ TaskOf(work[w])
  BY DEF Inv, NodeInv, SoleInv
<1>5. \A i \in DOMAIN queue : Serves(queue[i]) => queue[i].s # c
  BY <1>3, <1>4 DEF TaskOf, Serves
<1>6. \A s \in Sessions : Listed(s)' <=> Listed(s) /\ s # c
  BY <1>3, <1>4, ListErases
<1>7. ASSUME NEW i \in DOMAIN queue, NEW s \in Sessions, Serves(queue[i]), queue[i].s = s
      PROVE  Usable(s)'
  <2>1. Usable(s) /\ s # c
    BY <1>4, <1>5, <1>7 DEF QueueOK
  <2> QED
    BY <1>3, <1>6, <2>1 DEF Usable
<1> QED
  BY <1>3, <1>4, <1>5, <1>7, SoleListed

(* The worker's step leaves the list, and adds no task for a session.      *)
LEMMA SoleGoes ==
  ASSUME SoleWorker, TypeOK, QueueOK, UNCHANGED <<list, node>>,
         \/ queue' = queue \/ queue' = <<>>
         \/ \E t \in Task : ~Serves(t) /\ (queue' = Submitted(t) \/ queue' = Resubmitted(t)),
         NEW w \in Workers, NEW r, Becomes(w, r), TaskOf(r), PassOf(r)
  PROVE  QueueOK' /\ \A v \in Workers : TaskOf(work[v])' /\ PassOf(work[v])'
<1>1. \A v \in Workers : work'[v] = r
  BY DEF Becomes, SoleWorker
<1>2. \A v \in Workers : TaskOf(work'[v]) /\ PassOf(work'[v])
  BY <1>1 DEF TaskOf, PassOf
<1> QED
  BY <1>2, SoleKept

(* The queue and the worker's task stay in order at every worker's step.   *)
LEMMA SoleWorks ==
  ASSUME SoleWorker, Inv, SoleInv, fault' = fault, NEW w \in Workers, WorkerStep(w)
  PROVE  QueueOK' /\ \A v \in Workers : TaskOf(work[v])' /\ PassOf(work[v])'
<1> DEFINE Kept == QueueOK' /\ \A v \in Workers : TaskOf(work[v])' /\ PassOf(work[v])'
<1>1. /\ TypeOK /\ QueueOK /\ TaskOf(work[w]) /\ PassOf(work[w])
      /\ NodeInv /\ WorkOK(work[w])
  BY DEF Inv, SoleInv, WorkInv
<1>2. PICK c \in Sessions \cup {None}, m \in 0 .. MaxMsgs : c = work[w].s /\ m = work[w].m
  BY <1>1 DEF TypeOK, Work
<1>3. AcceptTask \in Task /\ WaitTask \in Task /\ ~Serves(AcceptTask) /\ ~Serves(WaitTask)
  BY QueueType DEF AcceptTask, WaitTask, Serves, Task
<1>4. ASSUME NEW r, Becomes(w, r), TaskOf(r), PassOf(r), UNCHANGED <<list, node>>,
             \/ queue' = queue
             \/ queue' = Resubmitted(AcceptTask) \/ queue' = Resubmitted(WaitTask)
      PROVE  Kept
  BY <1>1, <1>3, <1>4, SoleGoes
<1>5. ASSUME NEW at \in Place, work[w].do # "wait", NEW s \in Sessions \cup {None},
             work[w].do \in {"data", "gone"} => s = c,
             Moved(w, s, at), UNCHANGED <<list, node, queue>>,
             work[w].do = "gone" /\ at \in {"begin", "lock"} => Usable(c)
      PROVE  Kept
  <2>1. Becomes(w, [do |-> work[w].do, s |-> s, m |-> m, at |-> at])
    BY <1>2, <1>5 DEF Moved
  <2>2. PICK r : r = [do |-> work[w].do, s |-> s, m |-> m, at |-> at]
    OBVIOUS
  <2>3. r.do = work[w].do /\ r.s = s /\ r.at = at
    BY <2>2
  <2>4. TaskOf(r)
    BY <1>1, <1>2, <1>5, <2>3 DEF TaskOf, Serves
  <2>5. PassOf(r)
    BY <1>5, <2>3 DEF PassOf
  <2> QED
    BY <1>4, <1>5, <2>1, <2>2, <2>4, <2>5
<1>6. ASSUME NEW at \in {"check", "load"}, NEW s \in Sessions \cup {None}, work[w].do = "wait",
             Moved(w, s, at), UNCHANGED <<list, node, queue>>,
             s # None => Listed(s), at = "load" => Usable(s),
             \A i \in DOMAIN queue : Serves(queue[i]) => Left(queue[i].s, s)
      PROVE  Kept
  <2>1. Becomes(w, [do |-> "wait", s |-> s, m |-> m, at |-> at])
    BY <1>2, <1>6 DEF Moved
  <2>2. PICK r : r = [do |-> "wait", s |-> s, m |-> m, at |-> at]
    OBVIOUS
  <2>3. r.do = "wait" /\ r.s = s /\ r.at = at
    BY <2>2
  <2>4. TaskOf(r)
    BY <2>3 DEF TaskOf, Serves
  <2>5. PassOf(r)
    BY <1>6, <2>3 DEF PassOf
  <2> QED
    BY <1>4, <1>6, <2>1, <2>2, <2>4, <2>5
<1>7. ASSUME Becomes(w, IdleWork), UNCHANGED <<list, node>>,
             \/ queue' = queue
             \/ queue' = Resubmitted(AcceptTask) \/ queue' = Resubmitted(WaitTask)
      PROVE  Kept
  <2>1. TaskOf(IdleWork) /\ PassOf(IdleWork)
    BY DEF TaskOf, PassOf, IdleWork, Serves
  <2> QED
    BY <1>4, <1>7, <2>1
<1>8. CASE Take(w)
  BY <1>8, SoleTakes
<1>9. CASE AcceptStep(w)
  <2>1. CASE AcceptNobody(w) \/ \E s \in Sessions : AcceptRefuse(w, s)
    <3>1. Becomes(w, IdleWork)
      BY <2>1, StepMoves
    <3> QED
      BY <1>7, <2>1, <3>1 DEF AcceptNobody, AcceptRefuse, listVars
  <2>2. ASSUME NEW s \in Sessions, AcceptClient(w, s) PROVE Kept
    <3>1. work[w].do = "accept" /\ Moved(w, s, "lock") /\ "lock" \in Place
      BY <2>2, StepMoves DEF Place
    <3> QED
      BY <1>5, <2>2, <3>1 DEF AcceptClient
  <2>3. CASE AcceptLock(w)
    <3>1. work[w].do = "accept" /\ Moved(w, c, "append") /\ "append" \in Place
      BY <1>2, <2>3, StepMoves DEF Place
    <3> QED
      BY <1>5, <2>3, <3>1 DEF AcceptLock
  <2>4. CASE AcceptAppend(w)
    BY <2>4, SoleAppends
  <2> QED
    BY <1>9, <2>1, <2>2, <2>3, <2>4 DEF AcceptStep
<1>10. CASE WaitStep(w)
  <2>1. CASE WaitLock(w)
    <3>1. PICK f \in Sessions \cup {None} : f = First
      BY <2>1, StepMoves
    <3>2. /\ work[w].do = "wait" /\ work[w].at = "begin" /\ Moved(w, f, "check")
          /\ UNCHANGED <<list, node, queue>>
      BY <2>1, <3>1, StepMoves DEF WaitLock
    <3>3. f # None => Listed(f)
      BY <1>1, <3>1, ListRefs
    <3>4. \A i \in DOMAIN queue : ~Serves(queue[i])
      BY <1>1, <3>2 DEF PassOf
    <3> QED
      BY <1>6, <3>2, <3>3, <3>4
  <2>2. CASE WaitCheck(w)
    <3>1. /\ work[w].do = "wait" /\ work[w].at = "check" /\ c \in Sessions
          /\ After(c) \in Sessions \cup {None} /\ Listed(c)
          /\ IF node[c] = "owned" THEN Moved(w, c, "load") ELSE Moved(w, After(c), "check")
          /\ UNCHANGED <<list, node, queue>>
      BY <1>2, <2>2, StepMoves DEF WaitCheck, listVars
    <3>2. \A i \in DOMAIN queue : Serves(queue[i]) => Left(queue[i].s, c)
      BY <1>1, <1>2, <3>1 DEF PassOf
    <3>3. CASE node[c] = "owned"
      BY <1>6, <3>1, <3>2, <3>3 DEF Usable
    <3>4. CASE node[c] # "owned"
      <4>1. PICK a \in Sessions \cup {None} : a = After(c)
        BY <3>1
      <4>2. \A s : Left(s, c) => Left(s, a)
        BY <1>1, <3>1, <4>1, LeftFacts DEF NodeInv
      <4>3. a # None => Listed(a)
        BY <1>1, <3>1, <4>1, ListRefs
      <4> QED
        BY <1>6, <3>1, <3>2, <3>4, <4>1, <4>2, <4>3
    <3> QED
      BY <3>3, <3>4
  <2>3. CASE WaitData(w)
    <3>1. /\ Pass(w) /\ UNCHANGED <<list, node>>
          /\ queue' = Submitted(DataTask(work[w].s, Head(wire[work[w].s])))
      BY <2>3 DEF WaitData, Reads, listVars
    <3>2. work[w].s \in Sessions /\ LoadMessage(work[w].s)
      BY <2>3, <3>1, StepMoves DEF WaitData, Reads
    <3>3. wire[work[w].s] \in Seq(Msgs) /\ wire[work[w].s] # <<>>
      BY <1>1, <3>2 DEF TypeOK, LoadMessage
    <3>4. Head(wire[work[w].s]) \in Msgs
      BY <3>3
    <3>5. PICK t \in Task : t = DataTask(work[w].s, Head(wire[work[w].s]))
      BY <1>1, <3>2, <3>4, QueueType
    <3>6. Serves(t) /\ t.s = work[w].s
      BY <3>5 DEF DataTask, Serves
    <3> QED
      BY <3>1, <3>5, <3>6, SolePasses
  <2>4. CASE WaitNothing(w)
    BY <2>4, SolePasses DEF WaitNothing, listVars
  <2>5. CASE WaitGone(w)
    <3>1. /\ Pass(w) /\ UNCHANGED <<list, node>>
          /\ queue' = Submitted(GoneTask(work[w].s))
      BY <2>5 DEF WaitGone, Ends
    <3>2. work[w].s \in Sessions
      BY <3>1, StepMoves
    <3>3. PICK t \in Task : t = GoneTask(work[w].s)
      BY <3>2 DEF GoneTask, Task
    <3>4. Serves(t) /\ t.s = work[w].s
      BY <3>3 DEF GoneTask, Serves
    <3> QED
      BY <3>1, <3>3, <3>4, SolePasses
  <2>6. CASE WaitEnd(w)
    BY <1>7, <2>6, StepMoves DEF WaitEnd, PassEnds
  <2> QED
    BY <1>10, <2>1, <2>2, <2>3, <2>4, <2>5, <2>6, StepMoves DEF WaitStep
<1>11. {"lock", "enter", "handle", "erase"} \subseteq Place
  BY DEF Place
<1>12. CASE DataStep(w)
  <2>1. CASE DataBegin(w)
    <3>1. BeginEffect(w, "data")
      BY <2>1, BeginClean DEF DataBegin
    <3> QED
      BY <1>2, <1>5, <1>11, <3>1 DEF BeginEffect, listVars
  <2>2. CASE DataLock(w)
    <3>1. LockEffect(w)
      BY <2>2, DataLockClean
    <3> QED
      BY <1>2, <1>5, <1>11, <3>1 DEF LockEffect
  <2>3. CASE DataEnter(w)
    <3>1. EnterEffect(w)
      BY <2>3, DataEnterClean
    <3> QED
      BY <1>2, <1>5, <1>11, <3>1 DEF EnterEffect, listVars
  <2>4. CASE DataDone(w)
    <3>1. DoneEffect(w)
      BY <2>4, DataDoneClean
    <3> QED
      BY <1>7, <3>1 DEF DoneEffect
  <2> QED
    BY <1>12, <2>1, <2>2, <2>3, <2>4 DEF DataStep
<1>13. CASE GoneStep(w)
  <2>1. CASE GoneBegin(w)
    <3>1. BeginEffect(w, "gone")
      BY <2>1, BeginClean DEF GoneBegin
    <3> QED
      BY <1>2, <1>5, <1>11, <3>1 DEF BeginEffect, listVars
  <2>2. CASE GoneHandled(w)
    <3>1. work[w].do = "gone" /\ Moved(w, c, "erase") /\ UNCHANGED <<list, node, queue>>
      BY <1>2, <2>2, StepMoves DEF GoneHandled, listVars
    <3> QED
      BY <1>5, <1>11, <3>1
  <2>3. CASE GoneDelete(w)
    BY <1>7, <2>3, StepMoves DEF GoneDelete
  <2> QED
    BY <1>13, <2>1, <2>2, <2>3, SoleReleases, SoleErases DEF GoneStep
<1> QED
  BY <1>8, <1>9, <1>10, <1>12, <1>13 DEF WorkerStep

(* The control thread starts and stops the server; peers come and go.      *)
LEMMA SoleStep ==
  ASSUME SoleWorker, Inv, SoleInv, [Next]_vars
  PROVE  SoleInv'
<1>1. CASE UNCHANGED vars
  BY <1>1 DEF vars, SoleInv, QueueOK, TaskOf, PassOf, Usable, Listed, Left, Serves
<1>2. CASE Next
  <2>1. fault' = fault
    BY <1>2, SoleSafe
  <2>2. /\ fault = "no" /\ ctl.at \notin {"visit", "lock", "append"} /\ TypeOK /\ QueueOK
        /\ \A w \in Workers : TaskOf(work[w]) /\ PassOf(work[w])
    BY DEF SoleInv, Inv
  <2> DEFINE Kept == QueueOK' /\ \A w \in Workers : TaskOf(work[w])' /\ PassOf(work[w])'
  <2>3. ASSUME UNCHANGED <<list, node, work>>,
               \/ queue' = queue \/ queue' = <<>>
               \/ queue' = Submitted(AcceptTask) \/ queue' = Submitted(WaitTask)
        PROVE  Kept
    <3>1. AcceptTask \in Task /\ WaitTask \in Task /\ ~Serves(AcceptTask) /\ ~Serves(WaitTask)
      BY QueueType DEF AcceptTask, WaitTask, Serves, Task
    <3>2. \A w \in Workers : TaskOf(work'[w]) /\ PassOf(work'[w])
      BY <2>2, <2>3
    <3> QED
      BY <2>2, <2>3, <3>1, <3>2, SoleKept
  <2>4. ASSUME StopClose PROVE Kept
    <3>1. queue' = <<>> /\ \A w \in Workers : work'[w] = IdleWork
      BY <2>4 DEF StopClose, Inv, QuietInv, poolVars
    <3>2. QueueOK'
      BY <3>1 DEF QueueOK
    <3>3. \A w \in Workers : work'[w].do = "none"
      BY <3>1 DEF IdleWork
    <3>4. \A w \in Workers : TaskOf(work[w])' /\ PassOf(work[w])'
      BY <3>1, <3>3 DEF TaskOf, PassOf, Serves
    <3> QED
      BY <3>2, <3>4
  <2>5. ASSUME StartServer \/ StopServer \/ StopReset PROVE Kept
    BY <2>3, <2>5 DEF StartServer, StopServer, StopReset, Resets, listVars
  <2>6. ASSUME StartFails \/ StartListens \/ StartWaits PROVE Kept
    BY <2>3, <2>6 DEF StartFails, StartListens, StartWaits, listVars, poolVars
  <2>7. ASSUME PeerStep PROVE Kept
    BY <2>3, <2>7 DEF PeerStep, PeerConnects, PeerSends, PeerEnds, listVars, poolVars
  <2>8. CtlBegin => StartServer \/ StopServer
    BY DEF CtlBegin, Walk, ServerConnectTo, SoleWorker
  <2>9. CtlRuns => StopClose \/ StartFails \/ StartListens \/ StartWaits
    BY <2>2 DEF CtlRuns, WalkVisit, WalkEnd, ConnectLock, ConnectAppend
  <2>10. Kept
    <3>1. ASSUME NEW w \in Workers, WorkerStep(w) PROVE Kept
      BY <2>1, <3>1, SoleWorks
    <3> HIDE DEF Kept
    <3> QED
      BY <1>2, <2>4, <2>5, <2>8, <2>9, <2>6, <2>7, <3>1 DEF Next
  <2>11. ctl'.at \notin {"visit", "lock", "append"}
    <3>1. ASSUME NEW w \in Workers, WorkerStep(w)
          PROVE  ctl'.at \notin {"visit", "lock", "append"}
      <4>1. ctl' = ctl
        BY <2>1, <3>1, WorkerMoves DEF stillVars, ctlVars
      <4> QED
        BY <2>2, <4>1
    <3>2. ASSUME StartServer \/ StopServer
          PROVE  ctl'.at \notin {"visit", "lock", "append"}
      BY <3>2 DEF StartServer, StopServer, CtlCall
    <3>3. ASSUME StopReset \/ StopClose \/ StartFails \/ StartListens \/ StartWaits
          PROVE  ctl'.at \notin {"visit", "lock", "append"}
      BY <2>2, <3>3 DEF StopReset, Resets, StopClose, StartFails, StartListens, StartWaits,
         CtlGoto, IdleCtl, TypeOK
    <3>4. ASSUME PeerStep
          PROVE  ctl'.at \notin {"visit", "lock", "append"}
      BY <2>2, <3>4 DEF PeerStep, PeerConnects, PeerSends, PeerEnds, ctlVars
    <3> QED
      BY <1>2, <2>8, <2>9, <3>1, <3>2, <3>3, <3>4 DEF Next
  <2> QED
    BY <2>1, <2>2, <2>10, <2>11 DEF SoleInv
<1> QED
  BY <1>1, <1>2

(* A server with one worker, whose control thread only starts and stops    *)
(* it, never uses a session or a list node that is gone.                   *)
THEOREM SoleNoFault == ASSUME SoleWorker PROVE Spec => []NoFault
<1>1. Spec => []Inv
  BY InvHolds
<1>2. Init => SoleInv
  BY SoleInit
<1>3. Inv /\ SoleInv /\ [Next]_vars => SoleInv'
  BY SoleStep
<1>4. SoleInv => NoFault
  BY DEF SoleInv, NoFault
<1> QED
  BY <1>1, <1>2, <1>3, <1>4, PTL DEF Spec

(* Such a server calls the disconnect handler of a session when no task of *)
(* the session is left.                                                    *)
THEOREM SoleGoneIsLast == ASSUME SoleWorker PROVE Spec => []GoneIsLast
<1>1. Spec => []Inv
  BY InvHolds
<1>2. Init => SoleInv
  BY SoleInit
<1>3. Inv /\ SoleInv /\ [Next]_vars => SoleInv'
  BY SoleStep
<1>4. ASSUME Inv, SoleInv PROVE GoneIsLast
  <2>1. QueueOK /\ TypeOK
    BY <1>4 DEF Inv, SoleInv
  <2>2. ASSUME NEW s \in Sessions, gone[s] > 0, NEW i \in DOMAIN queue, queue[i].s = s
        PROVE  FALSE
    <3>1. queue[i] \in Task
      BY <2>1, QueueType
    <3>2. Serves(queue[i])
      BY <2>2, <3>1, ServerAssumption DEF Task, Serves
    <3>3. Usable(s)
      BY <2>1, <2>2, <3>2 DEF QueueOK
    <3>4. gone[s] = 0
      BY <1>4, <3>3, PhaseFacts
    <3> QED
      BY <2>2, <3>4
  <2> QED
    BY <2>2 DEF GoneIsLast
<1> QED
  BY <1>1, <1>2, <1>3, <1>4, PTL DEF Spec

-----------------------------------------------------------------------------
(* One worker handles the messages of a session in the order they were     *)
(* sent: what has been sent is in the socket, with a task, or handled.     *)

OnWire(s, m) == \E i \in DOMAIN wire[s] : wire[s][i] = m

Held(s, m) == Taken(s, m) \/ OnWire(s, m)

(* Messages of the session may still be handled. *)
Live(s) == obj[s] \in {"waiting", "live"} /\ gone[s] = 0

(* StopServer discards tasks, and thereby messages. *)
Serving == ctl.at \notin {"join", "close"} \/ \E w \in Workers : work[w].do = "data"

OrderInv ==
  /\ \A s \in Sessions : obj[s] = "new" => sent[s] = 0
  /\ \A s \in Sessions : \A i \in DOMAIN handled[s] : handled[s][i] = i
  /\ Serving => \A s \in Sessions : Live(s) => \A m \in 1 .. sent[s] : Held(s, m)

(* No message is sent at first.                                            *)
LEMMA OrderInit == Init => OrderInv
<1> SUFFICES ASSUME Init PROVE OrderInv
  OBVIOUS
<1>1. \A s \in Sessions : sent[s] = 0 /\ handled[s] = <<>>
  BY DEF Init
<1> QED
  BY <1>1 DEF OrderInv

(* The message that the handler gets is the next one.                      *)
LEMMA NextInOrder ==
  ASSUME SoleWorker, Inv, MsgInv, SoleInv, OrderInv, NEW w \in Workers, EnterEffect(w)
  PROVE  work[w].m = Len(handled[work[w].s]) + 1
<1>1. PICK c \in Sessions, n \in Msgs : c = work[w].s /\ n = work[w].m
  BY DEF EnterEffect
<1>2. work[w].do = "data" /\ work[w].at = "enter" /\ Usable(c) /\ Carries(w, c, n)
  BY <1>1 DEF EnterEffect, Carries
<1>3. Live(c) /\ Serving
  BY <1>2, PhaseFacts DEF Live, Serving
<1>4. \A m \in 1 .. sent[c] : Held(c, m)
  BY <1>3 DEF OrderInv
<1>5. /\ n \in Nat /\ n >= 1 /\ n <= MaxMsgs /\ MaxMsgs \in Nat
      /\ sent[c] \in Nat /\ sent[c] <= MaxMsgs
      /\ handled[c] \in Seq(Msgs)
  BY ServerAssumption DEF Msgs, Inv, TypeOK
<1>6. /\ n <= sent[c] /\ \A i \in DOMAIN wire[c] : n < wire[c][i]
      /\ ~Handled(c, n)
  BY <1>2 DEF MsgInv, Behind, Single, Taken
<1>7. ASSUME NEW m \in 1 .. n - 1 PROVE m \in DOMAIN handled[c]
  <2>1. m \in 1 .. sent[c] /\ m \in Nat /\ m < n
    BY <1>5, <1>6
  <2>2. ~OnWire(c, m)
    <3>1. ASSUME NEW i \in DOMAIN wire[c], wire[c][i] = m PROVE FALSE
      BY <1>5, <1>6, <2>1, <3>1
    <3> QED
      BY <3>1 DEF OnWire
  <2>3. ~Waits(c, m)
    BY <1>1, <1>2 DEF SoleInv, TaskOf, Serves, Waits, DataTask
  <2>4. \A v \in Workers : ~Carries(v, c, m)
    BY <1>1, <2>1 DEF Carries, SoleWorker
  <2>5. Handled(c, m)
    BY <1>4, <2>1, <2>2, <2>3, <2>4 DEF Held, Taken
  <2> QED
    BY <2>5 DEF Handled, OrderInv
<1>8. n \notin DOMAIN handled[c]
  BY <1>6 DEF Handled, OrderInv
<1>9. PICK l \in Nat : l = Len(handled[c]) /\ DOMAIN handled[c] = 1 .. l
  BY <1>5
<1>10. n = l + 1
  <2>1. ~(n <= l)
    BY <1>5, <1>8, <1>9
  <2>2. ~(n > l + 1)
    <3>1. ASSUME n > l + 1 PROVE FALSE
      <4>1. l + 1 \in 1 .. n - 1
        BY <1>5, <3>1
      <4> QED
        BY <1>7, <1>9, <4>1
    <3> QED
      BY <3>1
  <2> QED
    BY <1>5, <2>1, <2>2
<1> QED
  BY <1>1, <1>9, <1>10

(* A step that sends and handles nothing, and loses nothing                *)
LEMMA OrderKept ==
  ASSUME OrderInv, UNCHANGED <<sent, handled>>,
         \A s \in Sessions : obj'[s] = "new" => obj[s] = "new",
         Serving' => Serving,
         \A s \in Sessions : Live(s)' => Live(s) \/ sent[s] = 0,
         Serving' =>
           \A s \in Sessions : Live(s)' => \A m \in 1 .. sent[s] : Held(s, m) => Held(s, m)'
  PROVE  OrderInv'
<1>1. ASSUME Serving', NEW s \in Sessions, Live(s)', NEW m \in 1 .. sent'[s] PROVE Held(s, m)'
  <2>1. m \in 1 .. sent[s] /\ sent[s] # 0
    OBVIOUS
  <2>2. Held(s, m)
    BY <1>1, <2>1 DEF OrderInv
  <2> QED
    BY <1>1, <2>1, <2>2
<1>2. Serving' => \A s \in Sessions : Live(s)' => \A m \in 1 .. sent'[s] : Held(s, m)'
  BY <1>1
<1>3. \A s \in Sessions : obj'[s] = "new" => sent'[s] = 0
  BY DEF OrderInv
<1>4. \A s \in Sessions : \A i \in DOMAIN handled'[s] : handled'[s][i] = i
  BY DEF OrderInv
<1> QED
  BY <1>2, <1>3, <1>4 DEF OrderInv

(* A task more in the queue is none less.                                  *)
LEMMA QueueGrows ==
  ASSUME TypeOK,
         queue' = queue \/ \E t \in Task : queue' = Submitted(t) \/ queue' = Resubmitted(t)
  PROVE  \A i \in DOMAIN queue : i \in DOMAIN queue' /\ queue'[i] = queue[i]
<1>1. queue \in Seq(Task)
  BY DEF TypeOK
<1>2. ASSUME NEW t \in Task, queue' = Append(queue, t)
      PROVE  \A i \in DOMAIN queue : i \in DOMAIN queue' /\ queue'[i] = queue[i]
  BY <1>1, <1>2, AppendFacts
<1> QED
  BY <1>2 DEF Submitted, Resubmitted

(* A step of a worker that hands nothing to the handler                    *)
LEMMA OrderGoes ==
  ASSUME TypeOK, OrderInv, UNCHANGED <<ctl, sent, handled>>,
         NEW w \in Workers, NEW r, Becomes(w, r),
         r.do = "data" => work[w].do = "data",
         work[w].do = "data" /\ work[w].at # "handle" =>
           r.do = "data" /\ r.at # "handle" /\ r.s = work[w].s /\ r.m = work[w].m,
         queue' = queue \/ \E t \in Task : queue' = Submitted(t) \/ queue' = Resubmitted(t),
         \A s \in Sessions : obj'[s] = "new" => obj[s] = "new",
         \A s \in Sessions : Live(s)' => Live(s) /\ wire'[s] = wire[s]
  PROVE  OrderInv'
<1>1. Serving' => Serving
  BY DEF Serving, Becomes
<1>2. \A i \in DOMAIN queue : i \in DOMAIN queue' /\ queue'[i] = queue[i]
  BY QueueGrows
<1>3. \A s, m : Waits(s, m) => Waits(s, m)'
  BY <1>2 DEF Waits
<1>4. \A s, m : \A v \in Workers : Carries(v, s, m) => Carries(v, s, m)'
  BY DEF Carries, Becomes
<1>5. \A s, m : Handled(s, m) => Handled(s, m)'
  BY DEF Handled
<1>6. ASSUME NEW s \in Sessions, Live(s)', NEW m, Held(s, m) PROVE Held(s, m)'
  BY <1>3, <1>4, <1>5, <1>6 DEF Held, Taken, OnWire
<1> QED
  BY <1>1, <1>6, OrderKept

(* A worker takes the first task: what waited there is with the worker.    *)
LEMMA OrderTakes ==
  ASSUME Inv, OrderInv, fault' = fault, NEW w \in Workers, Take(w)
  PROVE  OrderInv'
<1>1. /\ work[w] = IdleWork /\ 1 \in DOMAIN queue /\ queue[1] \in Task
      /\ Becomes(w, [do |-> queue[1].do, s |-> queue[1].s, m |-> queue[1].m, at |-> "begin"])
      /\ queue \in Seq(Task) /\ queue' = RemoveAt(queue, 1)
      /\ UNCHANGED <<ctl, sent, handled, wire, obj, gone>>
      /\ ~terminate
  BY StepMoves DEF Take, TakeAt, Inv, TypeOK, stillVars, ctlVars, listVars, peerVars, doneVars
<1>2. ctl.at \notin {"join", "close"}
  BY <1>1 DEF Inv, CtlInv, QuietInv
<1>3. Serving
  BY <1>2 DEF Serving
<1>4. \A i \in DOMAIN queue : i # 1 => \E j \in DOMAIN queue' : queue'[j] = queue[i]
  <2>1. /\ DOMAIN queue = 1 .. Len(queue) /\ Len(queue) \in Nat
        /\ DOMAIN queue' = 1 .. Len(queue) - 1
        /\ \A i \in 1 .. Len(queue) - 1 : queue'[i] = IF i < 1 THEN queue[i] ELSE queue[i + 1]
    BY <1>1, RemoveFacts
  <2>2. ASSUME NEW i \in DOMAIN queue, i # 1 PROVE \E j \in DOMAIN queue' : queue'[j] = queue[i]
    <3>1. i - 1 \in 1 .. Len(queue) - 1 /\ ~(i - 1 < 1) /\ (i - 1) + 1 = i
      BY <2>1, <2>2
    <3>2. queue'[i - 1] = queue[i]
      BY <2>1, <3>1
    <3> QED
      BY <2>1, <3>1, <3>2
  <2> QED
    BY <2>2
<1>5. ASSUME NEW s \in Sessions, NEW m, Held(s, m) PROVE Held(s, m)'
  <2>1. CASE \E i \in DOMAIN queue : i # 1 /\ queue[i] = DataTask(s, m)
    <3>1. Waits(s, m)'
      BY <1>4, <2>1 DEF Waits
    <3> QED
      BY <3>1 DEF Held, Taken
  <2>2. CASE queue[1] = DataTask(s, m)
    <3>1. Carries(w, s, m)'
      BY <1>1, <2>2 DEF Carries, Becomes, DataTask
    <3> QED
      BY <3>1 DEF Held, Taken
  <2>3. CASE \E v \in Workers : Carries(v, s, m)
    <3>1. PICK v \in Workers : Carries(v, s, m)
      BY <2>3
    <3>2. v # w
      BY <1>1, <3>1 DEF Carries, IdleWork
    <3>3. Carries(v, s, m)'
      BY <1>1, <3>1, <3>2 DEF Carries, Becomes
    <3> QED
      BY <3>3 DEF Held, Taken
  <2>4. CASE Handled(s, m) \/ OnWire(s, m)
    <3>1. Handled(s, m)' \/ OnWire(s, m)'
      BY <1>1, <2>4 DEF Handled, OnWire
    <3> QED
      BY <3>1 DEF Held, Taken
  <2> QED
    BY <1>5, <2>1, <2>2, <2>3, <2>4 DEF Held, Taken, Waits
<1>6. \A s \in Sessions : Live(s)' => Live(s)
  BY <1>1 DEF Live
<1> QED
  BY <1>1, <1>3, <1>5, <1>6, OrderKept

(* The waiting loop reads a message and submits its task; while StopServer *)
(* waits for the loop the pool refuses it.                                 *)
LEMMA OrderReads ==
  ASSUME SoleWorker, Inv, OrderInv, fault' = fault, NEW w \in Workers, WaitData(w)
  PROVE  OrderInv'
<1>1. /\ work[w].do = "wait" /\ work[w].s \in Sessions
      /\ Moved(w, After(work[w].s), "check")
      /\ status = "Connected" /\ ctl.at # "close"
      /\ WorkerStep(w)
  BY StepMoves, WorkerMoves DEF WaitData, Reads, WorkerStep, WaitStep
<1>2. PICK c \in Sessions : c = work[w].s
  BY <1>1
<1>3. /\ wire \in [Sessions -> Seq(Msgs)] /\ wire[c] \in Seq(Msgs) /\ wire[c] # <<>>
      /\ wire' = [wire EXCEPT ![c] = Tail(wire[c])]
      /\ queue' = Submitted(DataTask(c, Head(wire[c])))
      /\ UNCHANGED <<ctl, sent, handled, obj, gone>>
  BY <1>2 DEF Inv, TypeOK, WaitData, Reads, LoadMessage, stillVars, ctlVars, listVars, doneVars
<1>4. PICK n \in Msgs : n = Head(wire[c])
  BY <1>3
<1>5. work'[w].do = "wait"
  BY <1>1 DEF Moved, Becomes
<1>6. Serving' => Serving
  BY <1>3, <1>5 DEF Serving, SoleWorker
<1>7. ASSUME Serving'
      PROVE  /\ \A i \in DOMAIN queue : i \in DOMAIN queue' /\ queue'[i] = queue[i]
             /\ Waits(c, n)'
  <2>1. ~terminate
    BY <1>3, <1>5, <1>7 DEF Serving, SoleWorker, Inv, CtlInv
  <2>2. queue' = Append(queue, DataTask(c, n)) /\ queue \in Seq(Task) /\ DataTask(c, n) \in Task
    BY <1>3, <1>4, <2>1, QueueType DEF Submitted, Inv, TypeOK
  <2>3. /\ \A i \in DOMAIN queue : i \in DOMAIN queue' /\ queue'[i] = queue[i]
        /\ \E i \in DOMAIN queue' : queue'[i] = DataTask(c, n)
    <3>1. /\ DOMAIN queue = 1 .. Len(queue) /\ Len(queue) \in Nat
          /\ DOMAIN queue' = 1 .. Len(queue) + 1
          /\ \A i \in DOMAIN queue : queue'[i] = queue[i]
          /\ queue'[Len(queue) + 1] = DataTask(c, n)
      BY <2>2, AppendFacts
    <3> QED
      BY <3>1
  <2> QED
    BY <2>3 DEF Waits
<1>8. \A i \in DOMAIN wire[c] :
        \/ wire[c][i] = n
        \/ \E j \in DOMAIN wire'[c] : wire'[c][j] = wire[c][i]
  <2>1. wire'[c] = Tail(wire[c])
    BY <1>3
  <2>2. ASSUME NEW q \in Seq(Msgs), q # <<>>, NEW i \in DOMAIN q
        PROVE  q[i] = Head(q) \/ (i - 1 \in DOMAIN Tail(q) /\ Tail(q)[i - 1] = q[i])
    <3>1. CASE i = 1
      BY <2>2, <3>1
    <3>2. CASE i # 1
      <4>1. /\ i - 1 \in 1 .. Len(q) - 1 /\ (i - 1) + 1 = i
            /\ DOMAIN Tail(q) = 1 .. Len(q) - 1
        BY <2>2, <3>2
      <4> QED
        BY <2>2, <4>1
    <3> QED
      BY <3>1, <3>2
  <2> QED
    BY <1>3, <1>4, <2>1, <2>2
<1>9. ASSUME Serving', NEW s \in Sessions, NEW m, Held(s, m) PROVE Held(s, m)'
  <2>1. Waits(s, m) => Waits(s, m)'
    BY <1>7, <1>9 DEF Waits
  <2>2. \A v \in Workers : Carries(v, s, m) => Carries(v, s, m)'
    BY <1>1 DEF Carries, Moved, Becomes
  <2>3. Handled(s, m) => Handled(s, m)'
    BY <1>3 DEF Handled
  <2>4. OnWire(s, m) => OnWire(s, m)' \/ (s = c /\ m = n)
    BY <1>3, <1>8 DEF OnWire
  <2> QED
    BY <1>7, <1>9, <2>1, <2>2, <2>3, <2>4 DEF Held, Taken
<1>10. \A s \in Sessions : Live(s)' => Live(s)
  BY <1>3 DEF Live
<1> QED
  BY <1>3, <1>6, <1>9, <1>10, OrderKept

(* The handler gets the next message.                                      *)
LEMMA OrderEntered ==
  ASSUME SoleWorker, Inv, MsgInv, SoleInv, OrderInv, fault' = fault,
         NEW w \in Workers, DataEnter(w)
  PROVE  OrderInv'
<1>1. EnterEffect(w)
  BY DataEnterClean
<1>2. PICK c \in Sessions, n \in Msgs : c = work[w].s /\ n = work[w].m
  BY <1>1 DEF EnterEffect
<1>3. /\ work[w].do = "data" /\ work[w].at = "enter" /\ Moved(w, c, "handle")
      /\ handled' = [handled EXCEPT ![c] = Append(handled[c], n)]
      /\ handled \in [Sessions -> Seq(Msgs)]
      /\ UNCHANGED <<queue, wire, sent, obj, gone, ctl>>
  BY <1>1, <1>2 DEF EnterEffect, Inv, TypeOK, peerVars, listVars, stillVars, ctlVars
<1>4. n = Len(handled[c]) + 1
  BY <1>1, <1>2, NextInOrder
<1>5. /\ DOMAIN handled[c] = 1 .. Len(handled[c]) /\ Len(handled[c]) \in Nat
      /\ DOMAIN handled'[c] = 1 .. Len(handled[c]) + 1
      /\ \A i \in DOMAIN handled[c] : handled'[c][i] = handled[c][i]
      /\ handled'[c][Len(handled[c]) + 1] = n
  <2>1. handled[c] \in Seq(Msgs) /\ handled'[c] = Append(handled[c], n)
    BY <1>3
  <2> QED
    BY <2>1, AppendFacts
<1>6. \A s \in Sessions : s # c => handled'[s] = handled[s]
  BY <1>3
<1>7. \A s \in Sessions : \A i \in DOMAIN handled'[s] : handled'[s][i] = i
  <2>1. \A s \in Sessions : \A i \in DOMAIN handled[s] : handled[s][i] = i
    BY DEF OrderInv
  <2>2. \A i \in DOMAIN handled'[c] : i \in DOMAIN handled[c] \/ i = Len(handled[c]) + 1
    BY <1>5
  <2>3. \A i \in DOMAIN handled'[c] : handled'[c][i] = i
    BY <1>4, <1>5, <2>1, <2>2
  <2> QED
    BY <1>6, <2>1, <2>3
<1>8. ASSUME NEW s \in Sessions, NEW m, Held(s, m) PROVE Held(s, m)'
  <2>1. Waits(s, m) => Waits(s, m)'
    BY <1>3 DEF Waits
  <2>2. OnWire(s, m) => OnWire(s, m)'
    BY <1>3 DEF OnWire
  <2>3. Handled(s, m) => Handled(s, m)'
    <3>1. CASE s = c
      <4>1. \A i \in DOMAIN handled[c] : i \in DOMAIN handled'[c]
        BY <1>5
      <4> QED
        BY <1>5, <3>1, <4>1 DEF Handled
    <3>2. CASE s # c
      BY <1>6, <3>2 DEF Handled
    <3> QED
      BY <3>1, <3>2
  <2>4. Handled(c, n)'
    BY <1>5 DEF Handled
  <2>5. \A v \in Workers : Carries(v, s, m) => Carries(v, s, m)' \/ (s = c /\ m = n)
    BY <1>2, <1>3 DEF Carries, Moved, Becomes
  <2> QED
    BY <1>8, <2>1, <2>2, <2>3, <2>4, <2>5 DEF Held, Taken
<1>9. Serving
  BY <1>3 DEF Serving
<1>10. \A s \in Sessions : Live(s)' => Live(s)
  BY <1>3 DEF Live
<1>11. ASSUME NEW s \in Sessions, Live(s)', NEW m \in 1 .. sent'[s] PROVE Held(s, m)'
  <2>1. m \in 1 .. sent[s] /\ Live(s)
    BY <1>3, <1>10, <1>11
  <2>2. Held(s, m)
    BY <1>9, <2>1 DEF OrderInv
  <2> QED
    BY <1>8, <2>2
<1>12. \A s \in Sessions : obj'[s] = "new" => sent'[s] = 0
  BY <1>3 DEF OrderInv
<1> QED
  BY <1>7, <1>11, <1>12 DEF OrderInv

(* The order is kept by every step of the worker.                          *)
LEMMA OrderWorks ==
  ASSUME SoleWorker, Inv, MsgInv, SoleInv, OrderInv, fault' = fault,
         NEW w \in Workers, WorkerStep(w)
  PROVE  OrderInv'
<1> DEFINE Kept(r) ==
             /\ Becomes(w, r)
             /\ r.do = "data" => work[w].do = "data"
             /\ work[w].do = "data" /\ work[w].at # "handle" =>
                  r.do = "data" /\ r.at # "handle" /\ r.s = work[w].s /\ r.m = work[w].m
             /\ \/ queue' = queue
                \/ \E t \in Task : queue' = Submitted(t) \/ queue' = Resubmitted(t)
             /\ UNCHANGED <<sent, handled>>
             /\ \A s \in Sessions : obj'[s] = "new" => obj[s] = "new"
             /\ \A s \in Sessions : Live(s)' => Live(s) /\ wire'[s] = wire[s]
<1>1. ASSUME NEW r, Kept(r) PROVE OrderInv'
  <2>1. TypeOK /\ UNCHANGED ctl
    BY WorkerMoves DEF Inv, stillVars, ctlVars
  <2> QED
    BY <1>1, <2>1, OrderGoes
<1>2. /\ AcceptTask \in Task /\ WaitTask \in Task
      /\ \A s \in Sessions : GoneTask(s) \in Task
      /\ IdleWork.do = "none"
  BY DEF AcceptTask, WaitTask, GoneTask, Task, IdleWork
<1>3. /\ wire \in [Sessions -> Seq(Msgs)] /\ obj \in [Sessions -> ObjState]
      /\ gone \in [Sessions -> 0 .. 1]
  BY DEF Inv, TypeOK
<1>4. UNCHANGED <<obj, gone, wire>> =>
        /\ \A s \in Sessions : obj'[s] = "new" => obj[s] = "new"
        /\ \A s \in Sessions : Live(s)' => Live(s) /\ wire'[s] = wire[s]
  BY DEF Live
<1>5. CASE Take(w) \/ WaitData(w) \/ DataEnter(w)
  BY <1>5, OrderTakes, OrderReads, OrderEntered
<1>6. CASE AcceptNobody(w) \/ AcceptAppend(w) \/ WaitEnd(w)
  <2>1. UNCHANGED <<obj, gone, wire, sent, handled>>
    BY <1>6 DEF AcceptNobody, AcceptAppend, WaitEnd, PassEnds, peerVars, doneVars, listVars
  <2>2. queue' = Resubmitted(AcceptTask) \/ queue' = Resubmitted(WaitTask)
    BY <1>6 DEF AcceptNobody, AcceptAppend, WaitEnd, PassEnds
  <2>3. Becomes(w, IdleWork) /\ work[w].do # "data"
    BY <1>6, StepMoves
  <2>4. Kept(IdleWork)
    BY <1>2, <1>4, <2>1, <2>2, <2>3
  <2> QED
    BY <1>1, <2>4
<1>7. ASSUME NEW c \in Sessions, AcceptRefuse(w, c) PROVE OrderInv'
  <2>1. /\ obj' = [obj EXCEPT ![c] = "refused"] /\ wire' = [wire EXCEPT ![c] = <<>>]
        /\ queue' = Resubmitted(AcceptTask) /\ UNCHANGED <<gone, sent, handled>>
    BY <1>7 DEF AcceptRefuse, doneVars
  <2>2. Becomes(w, IdleWork) /\ work[w].do # "data"
    BY <1>7, StepMoves
  <2>3. /\ \A s \in Sessions : obj'[s] = "new" => obj[s] = "new"
        /\ \A s \in Sessions : Live(s)' => Live(s) /\ wire'[s] = wire[s]
    BY <1>3, <2>1 DEF Live
  <2>4. Kept(IdleWork)
    BY <1>2, <2>1, <2>2, <2>3
  <2> QED
    BY <1>1, <2>4
<1>8. ASSUME NEW c \in Sessions, AcceptClient(w, c) PROVE OrderInv'
  <2>1. /\ obj' = [obj EXCEPT ![c] = "live"] /\ obj[c] = "waiting"
        /\ UNCHANGED <<queue, wire, gone, sent, handled>>
    BY <1>8 DEF AcceptClient, peerVars, doneVars
  <2>2. /\ work[w].do = "accept"
        /\ Becomes(w, [do |-> "accept", s |-> c, m |-> work[w].m, at |-> "lock"])
    BY <1>8, StepMoves DEF Moved
  <2>3. /\ \A s \in Sessions : obj'[s] = "new" => obj[s] = "new"
        /\ \A s \in Sessions : Live(s)' => Live(s) /\ wire'[s] = wire[s]
    BY <1>3, <2>1 DEF Live
  <2>4. Kept([do |-> "accept", s |-> c, m |-> work[w].m, at |-> "lock"])
    BY <2>1, <2>2, <2>3
  <2> QED
    BY <1>1, <2>4
<1>9. CASE GoneDelete(w)
  <2>1. PICK c \in Sessions : c = work[w].s
    BY <1>9, StepMoves
  <2>2. /\ obj' = [obj EXCEPT ![c] = "deleted"] /\ wire' = [wire EXCEPT ![c] = <<>>]
        /\ UNCHANGED <<queue, gone, sent, handled>>
    BY <1>9, <2>1 DEF GoneDelete, doneVars
  <2>3. Becomes(w, IdleWork) /\ work[w].do # "data"
    BY <1>9, StepMoves
  <2>4. /\ \A s \in Sessions : obj'[s] = "new" => obj[s] = "new"
        /\ \A s \in Sessions : Live(s)' => Live(s) /\ wire'[s] = wire[s]
    BY <1>3, <2>2 DEF Live
  <2>5. Kept(IdleWork)
    BY <1>2, <2>2, <2>3, <2>4
  <2> QED
    BY <1>1, <2>5
<1>10. ASSUME work[w].do # "data", NEW s, NEW at, Moved(w, s, at),
              UNCHANGED <<obj, gone, wire, sent, handled>>,
              queue' = queue \/ \E t \in Task : queue' = Submitted(t)
       PROVE  OrderInv'
  <2>1. Kept([do |-> work[w].do, s |-> s, m |-> work[w].m, at |-> at])
    BY <1>4, <1>10 DEF Moved
  <2> QED
    BY <1>1, <2>1
<1>11. CASE AcceptLock(w) \/ WaitLock(w) \/ WaitCheck(w) \/ GoneHandled(w)
  <2>1. UNCHANGED <<obj, gone, wire, sent, handled, queue>>
    BY <1>11 DEF AcceptLock, WaitLock, WaitCheck, GoneHandled, peerVars, doneVars, listVars
  <2>2. work[w].do # "data" /\ \E s, at : Moved(w, s, at)
    BY <1>11, StepMoves
  <2> QED
    BY <1>10, <2>1, <2>2
<1>12. CASE WaitNothing(w) \/ WaitGone(w)
  <2>1. Pass(w) /\ UNCHANGED <<obj, gone, wire, sent, handled>>
    BY <1>12 DEF WaitNothing, WaitGone, Ends, peerVars, doneVars, listVars
  <2>2. work[w].s \in Sessions /\ work[w].do # "data" /\ Moved(w, After(work[w].s), "check")
    BY <2>1, StepMoves
  <2>3. queue' = queue \/ queue' = Submitted(GoneTask(work[w].s))
    BY <1>12 DEF WaitNothing, WaitGone, Ends
  <2> QED
    BY <1>2, <1>10, <2>1, <2>2, <2>3
<1>13. CASE GoneBegin(w) \/ GoneErase(w)
  <2>1. BeginEffect(w, "gone") \/ EraseEffect(w)
    BY <1>13, BeginClean, GoneEraseClean DEF GoneBegin
  <2> QED
    BY <1>10, <2>1 DEF BeginEffect, EraseEffect, listVars, peerVars, doneVars
<1>14. CASE GoneRelease(w)
  <2>1. ReleaseEffect(w)
    BY <1>14, GoneReleaseClean
  <2>2. PICK c \in Sessions : c = work[w].s
    BY <2>1 DEF ReleaseEffect
  <2>3. /\ gone' = [gone EXCEPT ![c] = 1] /\ UNCHANGED <<queue, obj, wire, sent, handled>>
        /\ work[w].do = "gone"
        /\ Becomes(w, [do |-> "gone", s |-> c, m |-> work[w].m, at |-> "handle"])
    BY <2>1, <2>2 DEF ReleaseEffect, Moved, peerVars
  <2>4. /\ \A s \in Sessions : obj'[s] = "new" => obj[s] = "new"
        /\ \A s \in Sessions : Live(s)' => Live(s) /\ wire'[s] = wire[s]
    BY <1>3, <2>3 DEF Live
  <2>5. Kept([do |-> "gone", s |-> c, m |-> work[w].m, at |-> "handle"])
    BY <2>3, <2>4
  <2> QED
    BY <1>1, <2>5
<1>15. CASE DataBegin(w)
  <2>1. BeginEffect(w, "data")
    BY <1>15, BeginClean DEF DataBegin
  <2>2. Kept([do |-> "data", s |-> work[w].s, m |-> work[w].m, at |-> "lock"])
    BY <1>4, <2>1 DEF BeginEffect, Moved, listVars, peerVars, doneVars
  <2> QED
    BY <1>1, <2>2
<1>16. CASE DataLock(w)
  <2>1. LockEffect(w)
    BY <1>16, DataLockClean
  <2>2. Kept([do |-> "data", s |-> work[w].s, m |-> work[w].m, at |-> "enter"])
    BY <1>4, <2>1 DEF LockEffect, Moved, peerVars, doneVars
  <2> QED
    BY <1>1, <2>2
<1>17. CASE DataDone(w)
  <2>1. DoneEffect(w)
    BY <1>17, DataDoneClean
  <2>2. Kept(IdleWork)
    BY <1>2, <1>4, <2>1 DEF DoneEffect, peerVars, doneVars
  <2> QED
    BY <1>1, <2>2
<1>18. ~WaitErased(w) /\ ~WaitNull(w)
  BY StepMoves
<1> QED
  BY <1>5, <1>6, <1>7, <1>8, <1>9, <1>11, <1>12, <1>13, <1>14, <1>15, <1>16, <1>17, <1>18
  DEF WorkerStep, AcceptStep, WaitStep, DataStep, GoneStep

(* Starting and stopping lose messages only of sessions that end with it.  *)
LEMMA OrderOtherStep ==
  ASSUME SoleWorker, Inv, SoleInv, OrderInv, fault' = fault,
         CtlBegin \/ StopReset \/ CtlRuns \/ PeerStep
  PROVE  OrderInv'
<1>1. /\ TypeOK /\ NodeInv /\ QuietInv /\ ctl.at \notin {"visit", "lock", "append"}
      /\ sent \in [Sessions -> 0 .. MaxMsgs] /\ wire \in [Sessions -> Seq(Msgs)]
      /\ obj \in [Sessions -> ObjState]
  BY DEF Inv, TypeOK, SoleInv
<1>2. ASSUME UNCHANGED <<work, wire, sent, handled, obj, gone>>, Serving' => Serving,
             \/ queue' = queue
             \/ \E t \in Task : queue' = Submitted(t) \/ queue' = Resubmitted(t)
      PROVE  OrderInv'
  <2>1. \A i \in DOMAIN queue : i \in DOMAIN queue' /\ queue'[i] = queue[i]
    BY <1>1, <1>2, QueueGrows
  <2>2. \A s \in Sessions : \A m : Held(s, m) => Held(s, m)'
    BY <1>2, <2>1 DEF Held, Taken, OnWire, Waits, Handled, Carries
  <2>3. \A s \in Sessions : Live(s)' => Live(s)
    BY <1>2 DEF Live
  <2> QED
    BY <1>2, <2>2, <2>3, OrderKept
<1>3. CASE CtlBegin
  <2>1. StartServer \/ StopServer
    BY <1>3 DEF CtlBegin, Walk, ServerConnectTo, SoleWorker
  <2>2. Serving
    BY <2>1 DEF StartServer, StopServer, CtlCall, Serving
  <2> QED
    BY <1>2, <2>1, <2>2 DEF StartServer, StopServer, listVars, peerVars, doneVars
<1>4. CASE StopReset
  <2>1. /\ \A w \in Workers : work'[w].do = "none"
        /\ ctl'.at = "close" /\ UNCHANGED <<sent, handled, obj, gone>>
    BY <1>1, <1>4 DEF StopReset, Resets, IdleWork, CtlGoto, TypeOK, listVars, peerVars, doneVars
  <2>2. ~Serving'
    BY <2>1 DEF Serving
  <2>3. \A s \in Sessions : Live(s)' => Live(s)
    BY <2>1 DEF Live
  <2> QED
    BY <2>1, <2>2, <2>3, OrderKept
<1>5. CASE StopClose
  <2>1. \A s \in Sessions : ~Carried(s)
    BY <1>1, <1>5 DEF StopClose, QuietInv, Carried, CtlCarries, AcceptCarries, IdleWork
  <2>2. /\ \A s \in Sessions :
             obj'[s] = IF Listed(s) THEN "deleted"
                       ELSE IF obj[s] = "waiting" THEN "refused" ELSE obj[s]
        /\ UNCHANGED <<sent, gone, handled>>
    BY <1>5 DEF StopClose, doneVars
  <2>3. \A s \in Sessions : ~Live(s)'
    <3>1. \A s \in Sessions : obj[s] = "live" /\ gone[s] = 0 => Listed(s)
      BY <2>1, PhaseFacts
    <3> QED
      BY <2>2, <3>1 DEF Live
  <2>4. \A s \in Sessions : obj'[s] = "new" => sent'[s] = 0
    BY <2>2 DEF OrderInv
  <2>5. \A s \in Sessions : \A i \in DOMAIN handled'[s] : handled'[s][i] = i
    BY <2>2 DEF OrderInv
  <2> QED
    BY <2>3, <2>4, <2>5 DEF OrderInv
<1>6. CASE StartFails \/ StartListens \/ StartWaits
  <2>1. Serving
    BY <1>6 DEF StartFails, StartListens, StartWaits, Serving
  <2>2. AcceptTask \in Task /\ WaitTask \in Task
    BY <1>1, QueueType
  <2> QED
    BY <1>2, <1>6, <2>1, <2>2 DEF StartFails, StartListens, StartWaits, poolVars, listVars,
       peerVars, doneVars
<1>7. CtlRuns => StopClose \/ StartFails \/ StartListens \/ StartWaits
  BY <1>1 DEF CtlRuns, WalkVisit, WalkEnd, ConnectLock, ConnectAppend
<1>8. ASSUME NEW c \in Sessions, PeerConnects(c) PROVE OrderInv'
  <2>1. /\ obj[c] = "new" /\ obj' = [obj EXCEPT ![c] = "waiting"] /\ sent[c] = 0
        /\ UNCHANGED <<queue, work, wire, sent, handled, gone, ctl>>
    BY <1>8 DEF PeerConnects, OrderInv, poolVars, peerVars, doneVars, ctlVars
  <2>2. \A s \in Sessions : \A m : Held(s, m) => Held(s, m)'
    BY <2>1 DEF Held, Taken, OnWire, Waits, Handled, Carries
  <2>3. \A s \in Sessions : Live(s)' => Live(s) \/ sent[s] = 0
    BY <1>1, <2>1 DEF Live
  <2>4. \A s \in Sessions : obj'[s] = "new" => obj[s] = "new"
    BY <1>1, <2>1
  <2>5. Serving' => Serving
    BY <2>1 DEF Serving
  <2> QED
    BY <2>1, <2>2, <2>3, <2>4, <2>5, OrderKept
<1>9. ASSUME NEW c \in Sessions, PeerSends(c) PROVE OrderInv'
  <2>1. /\ obj[c] \in {"waiting", "live"} /\ sent[c] \in Nat
        /\ sent' = [sent EXCEPT ![c] = sent[c] + 1]
        /\ wire' = [wire EXCEPT ![c] = Append(wire[c], sent[c] + 1)]
        /\ UNCHANGED <<queue, work, handled, obj, gone, ctl>>
    BY <1>1, <1>9, ServerAssumption DEF PeerSends, poolVars, listVars, doneVars, ctlVars
  <2>2. /\ \A i \in DOMAIN wire[c] : i \in DOMAIN wire'[c] /\ wire'[c][i] = wire[c][i]
        /\ \E i \in DOMAIN wire'[c] : wire'[c][i] = sent[c] + 1
    <3>1. wire[c] \in Seq(Msgs) /\ sent[c] + 1 \in Msgs
      BY <1>1, <1>9, <2>1, ServerAssumption DEF PeerSends, Msgs
    <3>2. wire'[c] = Append(wire[c], sent[c] + 1)
      BY <1>1, <2>1
    <3> QED
      BY <3>1, <3>2, AppendFacts
  <2>3. \A s \in Sessions : \A m : Held(s, m) => Held(s, m)'
    <3>1. \A s \in Sessions : \A m : OnWire(s, m) => OnWire(s, m)'
      BY <1>1, <2>1, <2>2 DEF OnWire
    <3> QED
      BY <2>1, <3>1 DEF Held, Taken, Waits, Handled, Carries
  <2>4. (Serving' <=> Serving) /\ \A s \in Sessions : Live(s)' <=> Live(s)
    BY <2>1 DEF Serving, Live
  <2>5. ASSUME Serving', NEW s \in Sessions, Live(s)', NEW m \in 1 .. sent'[s]
        PROVE  Held(s, m)'
    <3>1. m \in 1 .. sent[s] \/ (s = c /\ m = sent[c] + 1)
      BY <1>1, <2>1
    <3>2. CASE m \in 1 .. sent[s]
      BY <2>3, <2>4, <2>5, <3>2 DEF OrderInv
    <3>3. CASE s = c /\ m = sent[c] + 1
      BY <2>1, <2>2, <3>3 DEF Held, OnWire
    <3> QED
      BY <3>1, <3>2, <3>3
  <2>6. \A s \in Sessions : obj'[s] = "new" => sent'[s] = 0
    BY <1>1, <2>1 DEF OrderInv
  <2>7. \A s \in Sessions : \A i \in DOMAIN handled'[s] : handled'[s][i] = i
    BY <2>1 DEF OrderInv
  <2> QED
    BY <2>5, <2>6, <2>7 DEF OrderInv
<1>10. ASSUME NEW c \in Sessions, PeerEnds(c) PROVE OrderInv'
  BY <1>2, <1>10 DEF PeerEnds, Serving, poolVars, listVars, doneVars, ctlVars
<1> QED
  BY <1>3, <1>4, <1>5, <1>6, <1>7, <1>8, <1>9, <1>10 DEF PeerStep

(* The order is kept by every step of a server with one worker.            *)
LEMMA OrderStep ==
  ASSUME SoleWorker, Inv, MsgInv, SoleInv, OrderInv, [Next]_vars
  PROVE  OrderInv'
<1>1. CASE UNCHANGED vars
  <2>1. Serving' => Serving
    BY <1>1 DEF vars, Serving
  <2>2. \A s \in Sessions : \A m : Held(s, m) => Held(s, m)'
    BY <1>1 DEF vars, Held, Taken, OnWire, Waits, Handled, Carries
  <2>3. \A s \in Sessions : Live(s)' => Live(s)
    BY <1>1 DEF vars, Live
  <2> QED
    BY <1>1, <2>1, <2>2, <2>3, OrderKept DEF vars
<1>2. CASE Next
  <2>1. fault' = fault
    BY <1>2, SoleSafe
  <2> QED
    BY <1>2, <2>1, OrderWorks, OrderOtherStep DEF Next
<1> QED
  BY <1>1, <1>2

(* Every step is one of the service that hands messages over in order.     *)
LEMMA InOrderStep ==
  ASSUME SoleWorker, Inv, MsgInv, SoleInv, OrderInv, [Next]_vars
  PROVE  [InOrder!Next]_(InOrder!vars)
<1>1. ASSUME NEW s \in Sessions, phase[s] = "none", PhaseSet(s, "open") PROVE InOrder!Next
  BY <1>1 DEF PhaseSet, InOrder!Next, InOrder!Open
<1>2. ASSUME NEW s \in Sessions, phase[s] = "open", PhaseSet(s, "closed") PROVE InOrder!Next
  BY <1>2 DEF PhaseSet, InOrder!Next, InOrder!Close
<1>3. ASSUME Dropped PROVE InOrder!Next
  BY <1>3 DEF Dropped, InOrder!Next, InOrder!DropAll
<1>4. ASSUME NEW w \in Workers, Delivered(w) PROVE InOrder!Next
  <2>1. PICK c \in Sessions, n \in Msgs : c = work[w].s /\ n = work[w].m
    BY <1>4 DEF Delivered, EnterEffect
  <2>2. Carries(w, c, n) /\ n = Len(handled[c]) + 1
    BY <1>4, <2>1, NextInOrder DEF Delivered, EnterEffect, Carries
  <2>3. ~Handled(c, n)
    BY <2>2 DEF MsgInv, Single
  <2>4. InOrder!Deliver(c, n)
    BY <1>4, <2>1, <2>2, <2>3 DEF Delivered, Handled, InOrder!Deliver
  <2> QED
    BY <2>4 DEF InOrder!Next, Msgs
<1>5. CASE UNCHANGED <<phase, handled>>
  BY <1>5 DEF InOrder!vars
<1>6. CASE UNCHANGED vars
  BY <1>6 DEF vars, phase, InOrder!vars
<1>7. CASE Next
  <2> HIDE DEF phase
  <2> QED
    BY <1>1, <1>2, <1>3, <1>4, <1>5, <1>7, ServiceMoves
<1> QED
  BY <1>6, <1>7

(* At first no session is open, and no message handed over.                *)
LEMMA InOrderInit == Init => InOrder!Init
BY DEF Init, phase, InOrder!Init

(* With one worker, on a server that is only started and stopped, the      *)
(* messages of a session are handed over in the order they were sent, none *)
(* left out.                                                               *)
THEOREM ServiceInOrder == ASSUME SoleWorker PROVE Spec => InOrderService
<1>1. Spec => []Inv
  BY InvHolds
<1>2. Init => MsgInv /\ SoleInv /\ OrderInv
  BY MsgInit, SoleInit, OrderInit
<1>3. Inv /\ MsgInv /\ [Next]_vars => MsgInv'
  BY MsgStep
<1>4. Inv /\ SoleInv /\ [Next]_vars => SoleInv'
  BY SoleStep
<1>5. Inv /\ MsgInv /\ SoleInv /\ OrderInv /\ [Next]_vars => OrderInv'
  BY OrderStep
<1>6. Spec => [](Inv /\ MsgInv /\ SoleInv /\ OrderInv)
  BY <1>1, <1>2, <1>3, <1>4, <1>5, PTL DEF Spec
<1>7. Inv /\ MsgInv /\ SoleInv /\ OrderInv /\ [Next]_vars => [InOrder!Next]_(InOrder!vars)
  BY InOrderStep
<1>8. Init => InOrder!Init
  BY InOrderInit
<1> QED
  BY <1>6, <1>7, <1>8, PTL DEF Spec, InOrderService, InOrder!Spec
==============================================================================
