---------------------------- MODULE ThreadClient ----------------------------
(***************************************************************************)
(* A Client in single-thread mode (Client/TCP/src/sourse.cpp): SetHandler  *)
(* starts a reader, HandleSingleThread, that polls the socket until the    *)
(* client is disconnected; the owner of the client connects, disconnects,  *)
(* waits for the reader and destroys the client, in any order.             *)
(*                                                                         *)
(* The std::thread lives on the heap.  Nothing sets the pointer to it back *)
(* to null, so that later calls meet a thread that was joined or freed.    *)
(* Both the owner and the reader call Disconnect; it tests the status,     *)
(* then sets it, then joins.  Descriptors and bytes are left out.          *)
(***************************************************************************)
EXTENDS Naturals

CONSTANTS
  MaxConnects,    \* bound: calls of ConnectTo
  MaxFrames       \* bound: messages of the peer

ASSUME ThreadClientAssumption == {MaxConnects, MaxFrames} \subseteq Nat

VARIABLES
  (* state of the program *)
  status,         \* m_statusClient_, whether Connected
  pointer,        \* m_threadClient_, whether it is set
  thread,         \* the std::thread it points to
  reader,         \* where HandleSingleThread stands
  owner,          \* the call the owner is in, and how far
  fault,          \* undefined behaviour or std::terminate
  connects, frames, \* what is left of the bounds
  (* history *)
  was             \* what became of a connection with a reader

vars == <<status, pointer, thread, reader, owner, fault, connects, frames, was>>
boundVars == <<connects, frames>>

(***************************************************************************)
(* "join" and "destroy" are Disconnect called by the owner and by the      *)
(* destructor, past the test; "joinThread" is JoinThread.                  *)
(***************************************************************************)
Calls == {"idle", "start", "test", "testLast", "join", "destroy", "joinThread",
          "joinHandler", "gone"}

TypeOK ==
  /\ {status, pointer} \subseteq BOOLEAN
  /\ thread \in {"none", "started", "joined", "freed"}
  /\ reader \in {"none", "poll", "payload", "handle", "test", "join", "ended"}
  /\ owner \in Calls
  /\ fault \in {"no", "terminate", "freed"}
  /\ connects \in 0 .. MaxConnects /\ frames \in 0 .. MaxFrames
  /\ was \subseteq {"served", "lost early", "replaced"}

Init ==
  /\ status = FALSE /\ pointer = FALSE /\ was = {}
  /\ thread = "none" /\ reader = "none" /\ owner = "idle" /\ fault = "no"
  /\ connects = MaxConnects /\ frames = MaxFrames

Owner(from, to) == fault = "no" /\ owner = from /\ owner' = to
Reader(from, to) == fault = "no" /\ reader = from /\ reader' = to

Fail(f) ==
  /\ fault' = f
  /\ UNCHANGED <<status, pointer, thread, reader, owner, boundVars, was>>

-----------------------------------------------------------------------------
(* The owner *)

(* ConnectTo: the status is set when the outcome is known.                 *)
ConnectTo(connected) ==
  /\ Owner("idle", "idle")
  /\ connects > 0 /\ connects' = connects - 1
  /\ status' = connected
  /\ was' = was \cup {e \in {"served", "replaced"} :
                       /\ thread # "none"
                       /\ IF connected THEN e = "served" ELSE status /\ e = "replaced"}
  /\ UNCHANGED <<pointer, thread, reader, fault, frames>>

(* SetHandler waits for a running handler, and starts a reader when the    *)
(* pointer is null; the pointer is set when the reader may run already.    *)
SetHandler ==
  /\ Owner("idle", "start")
  /\ reader # "handle"
  /\ ~pointer
  /\ thread' = "started"
  /\ reader' = "poll"
  /\ was' = IF status THEN was \cup {"served"} ELSE was
  /\ UNCHANGED <<status, pointer, fault, boundVars>>

SetPointer ==
  /\ Owner("start", "idle")
  /\ pointer' = TRUE
  /\ UNCHANGED <<status, thread, reader, fault, boundVars, was>>

(* Disconnect, and the destructor, which calls it and then JoinThread *)
Disconnect ==
  /\ Owner("idle", IF status THEN "test" ELSE "idle")
  /\ UNCHANGED <<status, pointer, thread, reader, fault, boundVars, was>>

Destroy ==
  /\ Owner("idle", IF status THEN "testLast" ELSE "joinThread")
  /\ UNCHANGED <<status, pointer, thread, reader, fault, boundVars, was>>

SetDisconnected ==
  /\ \/ Owner("test", "join")
     \/ Owner("testLast", "destroy")
  /\ status' = FALSE
  /\ UNCHANGED <<pointer, thread, reader, fault, boundVars, was>>

JoinHandler ==
  /\ Owner("idle", "joinHandler")
  /\ UNCHANGED <<status, pointer, thread, reader, fault, boundVars, was>>

-----------------------------------------------------------------------------
(* Faulty variant: join() does not wait. *)
MayJoinAny == thread \notin {"joined", "freed"}

(* What join() does to the thread behind the pointer: it waits, and what   *)
(* was joined or freed before cannot be joined again.                      *)
MayJoin == ~pointer \/ (thread = "started" /\ reader = "ended")

JoinFault ==
  CASE pointer /\ thread = "joined" -> "terminate"
    [] pointer /\ thread = "freed" -> "freed"
    [] OTHER -> "no"

(* Disconnect joins and deletes the thread, then closes the socket.        *)
DisconnectJoins ==
  /\ MayJoin
  /\ \/ Owner("join", "idle")
     \/ Owner("destroy", "joinThread")
  /\ thread' = IF pointer THEN "freed" ELSE thread
  /\ UNCHANGED <<status, pointer, reader, fault, boundVars, was>>

(* The end of the destructor *)
JoinThread ==
  /\ MayJoin
  /\ Owner("joinThread", "gone")
  /\ thread' = IF pointer THEN "freed" ELSE thread
  /\ UNCHANGED <<status, pointer, reader, fault, boundVars, was>>

JoinHandlerJoins ==
  /\ MayJoin
  /\ Owner("joinHandler", "idle")
  /\ thread' = IF pointer THEN "joined" ELSE thread
  /\ UNCHANGED <<status, pointer, reader, fault, boundVars, was>>

JoinFaults ==
  /\ fault = "no"
  /\ owner \in {"join", "destroy", "joinThread", "joinHandler"}
  /\ JoinFault # "no"
  /\ Fail(JoinFault)

-----------------------------------------------------------------------------
(* The reader: the loop and LoadData *)

(* Faulty variant: the reader does not look at the status. *)
LoopEndsNever == reader = "poll" /\ UNCHANGED vars

LoopEnds ==
  /\ Reader("poll", "ended")
  /\ ~status
  /\ UNCHANGED <<status, pointer, thread, owner, fault, boundVars, was>>

(* A header, followed by its payload or not yet *)
Receive(to) ==
  /\ Reader("poll", to)
  /\ to \in {"handle", "payload"}
  /\ status
  /\ frames > 0 /\ frames' = frames - 1
  /\ UNCHANGED <<status, pointer, thread, owner, fault, connects, was>>

(* The rest comes, or the peer ends and zeros are handed over, or the read *)
(* fails.                                                                  *)
Payload(to) ==
  /\ Reader("payload", to)
  /\ to \in {"handle", "test"}
  /\ UNCHANGED <<status, pointer, thread, owner, fault, boundVars, was>>

(* The handler returns, or throws: the loop is left, connected.            *)
Handle(to) ==
  /\ Reader("handle", to)
  /\ to \in {"poll", "ended"}
  /\ UNCHANGED <<status, pointer, thread, owner, fault, boundVars, was>>

(* The peer has ended or the read failed: the reader calls Disconnect.     *)
Notice ==
  /\ Reader("poll", "test")
  /\ status
  /\ UNCHANGED <<status, pointer, thread, owner, fault, boundVars, was>>

ReaderTests ==
  /\ Reader("test", IF status THEN "join" ELSE "poll")
  /\ status' = FALSE
  /\ UNCHANGED <<pointer, thread, owner, fault, boundVars, was>>

(* A thread that joins itself throws, in a noexcept function.              *)
ReaderJoins ==
  IF pointer
  THEN fault = "no" /\ reader = "join"
       /\ Fail(IF thread = "freed" THEN "freed" ELSE "terminate")
  ELSE /\ Reader("join", "poll")
       /\ was' = was \cup {"lost early"}
       /\ UNCHANGED <<status, pointer, thread, owner, fault, boundVars>>

-----------------------------------------------------------------------------
OwnerWaits == DisconnectJoins \/ JoinThread \/ JoinHandlerJoins \/ JoinFaults

OwnerStep ==
  \/ \E connected \in BOOLEAN : ConnectTo(connected)
  \/ SetHandler
  \/ SetPointer
  \/ Disconnect
  \/ Destroy
  \/ SetDisconnected
  \/ JoinHandler
  \/ OwnerWaits

ReaderRuns ==
  \/ LoopEnds
  \/ \E to \in {"poll", "ended"} : Handle(to)
  \/ ReaderTests
  \/ ReaderJoins

ReaderStep ==
  \/ ReaderRuns
  \/ Notice
  \/ \E to \in {"handle", "payload"} : Receive(to)
  \/ \E to \in {"handle", "test"} : Payload(to)

Next == OwnerStep \/ ReaderStep

Spec == Init /\ [][Next]_vars

(* Threads are scheduled and handlers return; whether the peer ever sends, *)
(* completes a message or ends is its own affair.                          *)
FairSpec ==
  /\ Spec
  /\ WF_vars(OwnerWaits \/ SetDisconnected \/ SetPointer)
  /\ WF_vars(ReaderRuns)

-----------------------------------------------------------------------------
(* Properties *)

(* No reader, and so no handler, is left running when the thread has been  *)
(* joined or freed or the client destroyed.  And a client whose reader has *)
(* had a connection is not destroyed without a fault, unless a ConnectTo   *)
(* replaced the connection and failed, or the reader noticed the end of it *)
(* while SetHandler was still about to set the pointer.                    *)
ReaderEndsFirst ==
  /\ thread \in {"joined", "freed"} \/ owner = "gone" => reader \in {"none", "ended"}
  /\ owner = "gone" /\ "served" \in was => was \cap {"lost early", "replaced"} # {}

(* A call that joins the reader after the status was set comes to an end,  *)
(* well or with a fault, unless the reader is left in the middle of a      *)
(* message: the socket is closed only after the join.                      *)
DisconnectReturns ==
  owner \in {"test", "testLast"} ~>
    (owner \in {"idle", "gone"} \/ fault # "no" \/ reader = "payload")
==============================================================================
