-------------------------- MODULE ThreadClientProofs --------------------------
(***************************************************************************)
(* The safety of ThreadClient, for any number of connections and messages. *)
(***************************************************************************)
EXTENDS ThreadClient, TLAPS

(* The thread exists from the moment SetHandler makes it, and the pointer  *)
(* is set when SetHandler has returned; who joins it finds it ended.       *)
ThreadInv ==
  /\ thread # "none" <=> (pointer \/ owner = "start")
  /\ owner = "start" => thread = "started"
  /\ thread = "none" <=> reader = "none"
  /\ thread \in {"joined", "freed"} => reader = "ended"
  /\ owner = "gone" => thread # "started"

(* Connections with a reader are lost in three ways only: in a call of     *)
(* Disconnect, which is about to free the thread, by the reader, which is  *)
(* about to join itself, and in the two ways that "was" remembers.         *)
Excused == was \cap {"lost early", "replaced"} # {}

ServedInv ==
  /\ owner \in {"join", "destroy", "joinThread", "gone"} => ~status
  /\ "served" \in was => thread # "none"
  /\ "served" \in was /\ thread = "started" =>
       Excused \/ status \/ owner \in {"join", "destroy"} \/ reader = "join"
  /\ owner = "gone" /\ "served" \in was => Excused

Inv == TypeOK /\ ThreadInv /\ ServedInv

LEMMA InitInv == ASSUME Init PROVE Inv
<1>1. connects \in 0 .. MaxConnects /\ frames \in 0 .. MaxFrames
  BY ThreadClientAssumption DEF Init
<1>2. TypeOK
  BY <1>1 DEF Init, TypeOK, Calls
<1>3. ThreadInv /\ ServedInv
  BY Zenon DEF Init, ThreadInv, ServedInv
<1> QED
  BY <1>2, <1>3 DEF Inv

-----------------------------------------------------------------------------
(* What is left of a bound, when some of it is used *)
LEMMA Lower ==
  ASSUME NEW max \in Nat, NEW n \in 0 .. max, n > 0 PROVE n - 1 \in 0 .. max
  OBVIOUS

(* Every step keeps the types. *)
LEMMA StepType == ASSUME TypeOK, [Next]_vars PROVE TypeOK'
<1> USE DEF TypeOK, Calls, boundVars
<1>0. MaxConnects \in Nat /\ MaxFrames \in Nat
  BY ThreadClientAssumption
<1>1. CASE UNCHANGED vars
  BY <1>1 DEF vars
<1>2. ASSUME NEW connected \in BOOLEAN, ConnectTo(connected) PROVE TypeOK'
  <2>1. connects' \in 0 .. MaxConnects
    BY <1>0, <1>2, Lower, Zenon DEF ConnectTo
  <2>2. was' \subseteq {"served", "lost early", "replaced"}
    BY <1>2 DEF ConnectTo
  <2> QED
    BY <2>1, <2>2, <1>2 DEF ConnectTo, Owner
<1>3. CASE SetHandler \/ SetPointer \/ Disconnect \/ Destroy \/ SetDisconnected \/ JoinHandler
  BY <1>3 DEF SetHandler, SetPointer, Disconnect, Destroy, SetDisconnected, JoinHandler, Owner
<1>4. CASE DisconnectJoins \/ JoinThread \/ JoinHandlerJoins
  BY <1>4 DEF DisconnectJoins, JoinThread, JoinHandlerJoins, Owner
<1>5. CASE JoinFaults
  BY <1>5 DEF JoinFaults, JoinFault, Fail
<1>6. CASE LoopEnds \/ ReaderTests \/ Notice
  BY <1>6 DEF LoopEnds, ReaderTests, Notice, Reader
<1>7. ASSUME NEW to, Receive(to) \/ Payload(to) \/ Handle(to) PROVE TypeOK'
  <2>1. frames' \in 0 .. MaxFrames
    BY <1>0, <1>7, Lower, Zenon DEF Receive, Payload, Handle
  <2> QED
    BY <2>1, <1>7 DEF Receive, Payload, Handle, Reader
<1>8. CASE ReaderJoins
  BY <1>8 DEF ReaderJoins, Fail, Reader
<1> QED
  BY <1>1, <1>2, <1>3, <1>4, <1>5, <1>6, <1>7, <1>8
     DEF Next, OwnerStep, OwnerWaits, ReaderStep, ReaderRuns

-----------------------------------------------------------------------------
(* The steps of the owner keep the two parts of the invariant. *)
LEMMA OwnerKeeps ==
  ASSUME TypeOK, ThreadInv, ServedInv, OwnerStep
  PROVE  ThreadInv' /\ ServedInv'
<1> USE DEF TypeOK, ThreadInv, ServedInv, Excused, Calls
<1>1. ASSUME NEW connected \in BOOLEAN, ConnectTo(connected)
      PROVE  ThreadInv' /\ ServedInv'
  BY <1>1 DEF ConnectTo, Owner
<1>2. CASE SetHandler
  BY <1>2 DEF SetHandler, Owner
<1>3. CASE SetPointer
  BY <1>3 DEF SetPointer, Owner
<1>4. CASE Disconnect
  BY <1>4 DEF Disconnect, Owner
<1>5. CASE Destroy
  BY <1>5 DEF Destroy, Owner
<1>6. CASE SetDisconnected
  BY <1>6 DEF SetDisconnected, Owner
<1>7. CASE JoinHandler
  BY <1>7 DEF JoinHandler, Owner
<1>8. CASE DisconnectJoins
  BY <1>8 DEF DisconnectJoins, MayJoin, Owner
<1>9. CASE JoinThread
  BY <1>9 DEF JoinThread, MayJoin, Owner
<1>10. CASE JoinHandlerJoins
  BY <1>10 DEF JoinHandlerJoins, MayJoin, Owner
<1>11. CASE JoinFaults
  BY <1>11 DEF JoinFaults, Fail
<1> QED
  BY <1>1, <1>2, <1>3, <1>4, <1>5, <1>6, <1>7, <1>8, <1>9, <1>10, <1>11
     DEF OwnerStep, OwnerWaits

(* So do the steps of the reader. *)
LEMMA ReaderKeeps ==
  ASSUME TypeOK, ThreadInv, ServedInv, ReaderStep
  PROVE  ThreadInv' /\ ServedInv'
<1> USE DEF TypeOK, ThreadInv, ServedInv, Excused, Calls
<1>1. CASE LoopEnds
  BY <1>1 DEF LoopEnds, Reader
<1>2. CASE Notice
  BY <1>2 DEF Notice, Reader
<1>3. ASSUME NEW to, Receive(to) PROVE ThreadInv' /\ ServedInv'
  BY <1>3 DEF Receive, Reader
<1>4. ASSUME NEW to, Payload(to) PROVE ThreadInv' /\ ServedInv'
  BY <1>4 DEF Payload, Reader
<1>5. ASSUME NEW to, Handle(to) PROVE ThreadInv' /\ ServedInv'
  BY <1>5 DEF Handle, Reader
<1>6. CASE ReaderTests
  BY <1>6 DEF ReaderTests, Reader
<1>7. CASE ReaderJoins
  BY <1>7 DEF ReaderJoins, Fail, Reader
<1> QED
  BY <1>1, <1>2, <1>3, <1>4, <1>5, <1>6, <1>7 DEF ReaderStep, ReaderRuns

LEMMA StepInv == ASSUME Inv, [Next]_vars PROVE Inv'
<1>1. CASE UNCHANGED vars
  BY <1>1 DEF Inv, TypeOK, ThreadInv, ServedInv, Excused, vars
<1>2. CASE Next
  BY <1>2, StepType, OwnerKeeps, ReaderKeeps DEF Inv, Next
<1> QED
  BY <1>1, <1>2

LEMMA Invariant == Spec => []Inv
<1>1. Init => Inv
  BY InitInv
<1>2. Inv /\ [Next]_vars => Inv'
  BY StepInv
<1> QED
  BY <1>1, <1>2, PTL DEF Spec

-----------------------------------------------------------------------------
(* Every variable of the client keeps its type (the fields of Client in    *)
(* single-thread mode and the places of its two threads).                  *)
THEOREM ThreadTypeCorrect == Spec => []TypeOK
  BY Invariant, PTL DEF Inv

(* No reader runs on when its thread has been joined or freed or the       *)
(* client destroyed, and a client whose reader has had a connection is not *)
(* destroyed without a fault, but for the two excuses of ReaderEndsFirst:  *)
(* Disconnect and JoinThread leave the pointer to the thread set.          *)
THEOREM ReaderJoined == Spec => []ReaderEndsFirst
<1>1. Inv => ReaderEndsFirst
  BY DEF Inv, TypeOK, ThreadInv, ServedInv, Excused, ReaderEndsFirst
<1> QED
  BY <1>1, Invariant, PTL
==============================================================================
