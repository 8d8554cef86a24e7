------------------------------ MODULE Framing ------------------------------
(***************************************************************************)
(* One direction of a connection: SendData puts a message on the byte      *)
(* stream as a length and a payload, LoadData takes it off again           *)
(* (Client/TCP/src/sourse.cpp, Server/TCP/src/sourse.cpp).                 *)
(*                                                                         *)
(* The two readers differ.  The sockets the server accepts do not block: a *)
(* payload that has not arrived is an error, and a frame may be sent in    *)
(* part.  (Those of ServerConnectTo do block; the server's side of one is  *)
(* left out.)  The client's block, the client rejects lengths above        *)
(* INT_MAX, and has LoadDataSync besides LoadData: a thread that calls it  *)
(* reads the same socket as the chain of LoadData calls.  A second chain,  *)
(* which Client/main.cpp may start, is not added here: that two readers    *)
(* take each other's bytes is the damage "mixed", and where a chain gets   *)
(* to with what is left for it is in PoolClient.  A behaviour has one of   *)
(* the two directions throughout.                                          *)
(*                                                                         *)
(* A cell stands for some bytes: a frame has HeaderCells of them for the   *)
(* length and one or more for the payload, so that both can arrive, and be *)
(* read, in pieces.  A length read from anything but a whole header is     *)
(* arbitrary: foreign bytes, or bytes that were never initialised.         *)
(***************************************************************************)
EXTENDS Naturals, Sequences, FiniteSets, SequencesExt

CONSTANTS
  Size,           \* message -> payload cells; messages are sent in order
  MaxSize,        \* bound: cells of a payload, and lengths a damaged header is taken for
  MaxRaw,         \* bound: messages sent without a header
  Huge            \* a length nobody has memory for, or above INT_MAX

Readers == {"chain", "sync"}    \* callers of LoadData and LoadDataSync
HeaderCells == 2
RawCells == 3           \* of a message sent without a header
Messages == DOMAIN Size
Torn == 0               \* what no message is: padded, cut or mixed data
Sizes == 0 .. MaxSize \cup {Huge}

ASSUME FramingAssumption ==
  /\ Size \in Seq(0 .. MaxSize)
  /\ MaxSize \in Nat /\ MaxRaw \in Nat
  /\ Huge \in Nat /\ MaxSize < Huge

VARIABLES
  toServer,       \* the direction: from client to server, or back
  accepted,       \* messages with a payload that SendData has sent at all, in order
  next,           \* the message to send next
  raw,            \* messages without a header so far
  stream,         \* cells sent and not read, in order
  arrived,        \* how many of them the receiver has
  sender,         \* "open", "closed" or "reset"
  status,         \* of the receiving object: "Connected", "Disconnected"
  pc,             \* [Readers -> PC]
  size,           \* [Readers -> length read], the local size
  buffer,         \* [Readers -> message or Torn], the local dataBuffer
  got,            \* what the handler was given, in order
  crashed,        \* an exception has left a task of the server
  damage          \* history: why frames may have been lost or mixed up

sendVars == <<toServer, accepted, next, raw, sender>>
readVars == <<pc, size, buffer>>
vars == <<sendVars, stream, arrived, status, readVars, got, crashed, damage>>

(* The cell at of the frame of msg, or of data without a header *)
Cell == [msg : Messages \cup {Torn}, at : Nat]
CellOf(m, k) == [msg |-> m, at |-> k]

PC == {"idle", "payload", "hand", "ended"}
Damage == {"cut", "raw", "header", "split", "mixed", "closed"}

TypeOK ==
  /\ toServer \in BOOLEAN
  /\ accepted \in Seq(Messages) /\ got \in Seq(Messages \cup {Torn})
  /\ next \in 1 .. Len(Size) + 1 /\ raw \in 0 .. MaxRaw
  /\ stream \in Seq(Cell)
  /\ arrived \in 0 .. Len(stream)
  /\ sender \in {"open", "closed", "reset"}
  /\ status \in {"Connected", "Disconnected"}
  /\ pc \in [Readers -> PC]
  /\ size \in [Readers -> Sizes]
  /\ buffer \in [Readers -> Messages \cup {Torn}]
  /\ crashed \in BOOLEAN /\ damage \subseteq Damage

Init ==
  /\ toServer \in BOOLEAN
  /\ accepted = <<>> /\ next = 1 /\ raw = 0
  /\ stream = <<>> /\ arrived = 0
  /\ sender = "open" /\ status = "Connected"
  /\ pc = [r \in Readers |-> "idle"]
  /\ size = [r \in Readers |-> 0]
  /\ buffer = [r \in Readers |-> Torn]
  /\ got = <<>> /\ crashed = FALSE /\ damage = {}

-----------------------------------------------------------------------------
Smaller(a, b) == IF a < b THEN a ELSE b

FrameCells(m) == HeaderCells + Size[m]
Frame(m) == [k \in 1 .. FrameCells(m) |-> CellOf(m, k)]
Header(m) == [k \in 1 .. HeaderCells |-> CellOf(m, k)]
Payload(m) == [k \in 1 .. Size[m] |-> CellOf(m, HeaderCells + k)]

IsHeader(cells) == \E m \in Messages : cells = Header(m)

(* The value of size after the first recv *)
Lengths(cells) ==
  IF IsHeader(cells) THEN {Size[cells[1].msg]} ELSE Sizes

(* A buffer of n bytes of which the second recv has filled some *)
Contents(cells) ==
  IF \E m \in Messages : cells = Payload(m)
  THEN CHOOSE m \in Messages : cells = Payload(m) ELSE Torn

(* What a recv of n cells returns, and what it leaves behind *)
Received(n) == SubSeq(stream, 1, Smaller(n, arrived))

(* Faulty variant: what was read still counts as there. *)
ConsumeForgets(n) ==
  stream' = SubSeq(stream, Smaller(n, arrived) + 1, Len(stream)) /\ UNCHANGED arrived

Consume(n) ==
  /\ stream' = SubSeq(stream, Smaller(n, arrived) + 1, Len(stream))
  /\ arrived' = arrived - Smaller(n, arrived)

EndOfStream == sender = "closed" /\ stream = <<>>

Note(why) == damage' = damage \cup why

(* A reader starts a frame that is not whole, that another reader is in    *)
(* the middle of, or on a connection that is being closed.                 *)
HeaderDamage(r, cells) ==
  {d \in {"header", "mixed", "closed"} :
     \/ d = "header" /\ ~IsHeader(cells)
     \/ d = "mixed" /\ \E o \in Readers \ {r} : pc[o] # "idle"
     \/ d = "closed" /\ status = "Disconnected"}

(* Disconnect, perhaps while one of these readers is between its two reads *)
Disconnect(others) ==
  /\ status' = "Disconnected"
  /\ Note(IF \E r \in others : pc[r] = "payload" THEN {"closed"} ELSE {})

Goto(r, from, to) == ~crashed /\ pc[r] = from /\ pc' = [pc EXCEPT ![r] = to]

-----------------------------------------------------------------------------
(* SendData.  A socket that does not block may take part of the frame,     *)
(* which the server's SendData does not notice, or nothing.                *)
SendCounts(m) == IF toServer THEN {FrameCells(m)} ELSE 0 .. FrameCells(m)

Send ==
  /\ sender = "open" /\ next \in Messages /\ ~crashed
  /\ \E k \in SendCounts(next) :
       /\ stream' = stream \o SubSeq(Frame(next), 1, k)
       /\ accepted' = IF k = 0 \/ Size[next] = 0 THEN accepted ELSE Append(accepted, next)
       /\ Note(IF k \in 1 .. FrameCells(next) - 1 THEN {"cut"} ELSE {})
  /\ next' = next + 1
  /\ UNCHANGED <<toServer, raw, sender, arrived, status, readVars, got, crashed>>

(* GetDataPC sends its text without a length. *)
SendWithoutLength ==
  /\ toServer /\ sender = "open" /\ raw < MaxRaw /\ ~crashed
  /\ stream' = stream \o [k \in 1 .. RawCells |-> CellOf(Torn, k)]
  /\ raw' = raw + 1
  /\ Note({"raw"})
  /\ UNCHANGED <<toServer, accepted, next, sender, arrived, status, readVars, got, crashed>>

(* The network and the end of the sender, orderly or not *)
Arrive ==
  /\ arrived < Len(stream) /\ ~crashed
  /\ arrived' = arrived + 1
  /\ UNCHANGED <<sendVars, stream, status, readVars, got, crashed, damage>>

SenderEnds ==
  /\ sender = "open" /\ ~crashed
  /\ \/ sender' = "closed" /\ UNCHANGED <<stream, arrived>>
     \/ sender' = "reset" /\ stream' = <<>> /\ arrived' = 0
  /\ UNCHANGED <<toServer, accepted, next, raw, status, readVars, got, crashed, damage>>

(* Another thread disconnects. *)
OtherDisconnects ==
  /\ status = "Connected" /\ ~crashed
  /\ Disconnect(Readers)
  /\ UNCHANGED <<sendVars, stream, arrived, readVars, got, crashed>>

-----------------------------------------------------------------------------
(* Both LoadData return nothing for a frame of this length. *)
SkippedNone(n) == FALSE     \* faulty variant: not even an empty one

Skipped(n) == n = 0

(* LoadData, first recv: the length, if it is there.  A length above       *)
(* INT_MAX disconnects a client; without memory a chain of the client      *)
(* ends, and a task of the server ends the process.                        *)
NoMemory(n) ==
  /\ n = Huge
  /\ \/ toServer /\ Goto("chain", "idle", "ended") /\ crashed' = TRUE /\ UNCHANGED status
     \/ ~toServer /\ Goto("chain", "idle", "ended") /\ UNCHANGED <<status, crashed>>
     \/ ~toServer /\ Goto("chain", "idle", "idle") /\ UNCHANGED crashed
          /\ status' = "Disconnected"

(* The local variable of a reader, 0 when it has none *)
Sized(r, n) == size' = [size EXCEPT ![r] = n]

TakeHeader(r, n) ==
  LET cells == Received(HeaderCells)
  IN  /\ arrived > 0 /\ n \in Lengths(cells)
      /\ Consume(HeaderCells)
      /\ Note(HeaderDamage(r, cells))
      /\ Sized(r, IF pc'[r] = "payload" THEN n ELSE 0)
      /\ UNCHANGED <<sendVars, buffer, got>>

ReadLength ==
  /\ status = "Connected"
  /\ \E n \in Sizes :
       /\ \/ Goto("chain", "idle", IF Skipped(n) THEN "idle" ELSE "payload")
               /\ UNCHANGED <<status, crashed>>
          \/ NoMemory(n)
       /\ TakeHeader("chain", n)

ReadEnd ==
  /\ status = "Connected" /\ (EndOfStream \/ sender = "reset")
  /\ Goto("chain", "idle", "idle")
  /\ Disconnect({"sync"})
  /\ UNCHANGED <<sendVars, stream, arrived, size, buffer, got, crashed>>

(* LoadDataSync, first recv: waits for the length, does not look at the    *)
(* status, drops a length that is incomplete or too large.                 *)
SyncLength ==
  /\ ~toServer
  /\ \E n \in Sizes :
       /\ \/ Goto("sync", "idle", "idle") /\ (n \in {0, Huge} \/ arrived < HeaderCells)
          \/ Goto("sync", "idle", "payload") /\ n # 0 /\ arrived >= HeaderCells
       /\ TakeHeader("sync", n)
  /\ UNCHANGED <<status, crashed>>

(* Second recv: the payload, or as much of it as is there.  The rest of    *)
(* the buffer stays zero, and the rest of the frame in the stream.         *)
ReadPayload(r) ==
  /\ arrived > 0
  /\ Goto(r, "payload", "hand")
  /\ buffer' = [buffer EXCEPT ![r] =
                  IF size[r] > arrived THEN Torn ELSE Contents(Received(size[r]))]
  /\ Note(IF size[r] > arrived THEN {"split"} ELSE {})
  /\ Consume(size[r])
  /\ Sized(r, 0)
  /\ UNCHANGED <<sendVars, status, got, crashed>>

(* recv returns 0: the sender has closed, or shutdown was called here; or, *)
(* in LoadDataSync, it fails.  The buffer is handed out with its zeros.    *)
ReadNothing(r) ==
  /\ EndOfStream \/ status = "Disconnected" \/ (r = "sync" /\ sender = "reset")
  /\ Goto(r, "payload", "hand")
  /\ buffer' = [buffer EXCEPT ![r] = Torn]
  /\ Note(IF sender = "reset" THEN {"closed"} ELSE {})
  /\ Sized(r, 0)
  /\ UNCHANGED <<sendVars, stream, arrived, status, got, crashed>>

(* In LoadData a recv fails: the connection was reset, the descriptor is   *)
(* closed, or the socket of the server has nothing to give.                *)
ReadFails ==
  /\ \/ sender = "reset" \/ status = "Disconnected"
     \/ toServer /\ arrived = 0
  /\ Goto("chain", "payload", "idle")
  /\ Disconnect({"sync"})
  /\ Sized("chain", 0)
  /\ UNCHANGED <<sendVars, stream, arrived, buffer, got, crashed>>

(* The handler of the client, under its mutex, or the caller of            *)
(* LoadDataSync; on the server the task that will call the handler.        *)
HandsOn(r, then) ==
  /\ Goto(r, "hand", then)
  /\ got' = Append(got, buffer[r])
  /\ buffer' = [buffer EXCEPT ![r] = Torn]
  /\ UNCHANGED <<sendVars, stream, arrived, status, size, crashed, damage>>

(* Faulty variant: the reader stops after a message. *)
HandLast(r) == HandsOn(r, "ended")

Hand(r) == HandsOn(r, "idle")

-----------------------------------------------------------------------------
Finish(r) == ReadPayload(r) \/ ReadNothing(r) \/ Hand(r)

LoadData == ReadLength \/ ReadEnd \/ ReadFails \/ Finish("chain")

LoadDataSync == SyncLength \/ Finish("sync")

Next ==
  \/ Send \/ SendWithoutLength \/ Arrive \/ SenderEnds \/ OtherDisconnects
  \/ LoadData \/ LoadDataSync

Spec == Init /\ [][Next]_vars

(* TCP delivers; the waiting loop and the chain of a client keep reading;  *)
(* a LoadDataSync that has a length goes on.                               *)
FairSpec ==
  Spec /\ WF_vars(Arrive) /\ WF_vars(LoadData) /\ WF_vars(Finish("sync"))

-----------------------------------------------------------------------------
(***************************************************************************)
(* What LoadData hands out is what was sent, in order and without gaps, as *)
(* long as no frame was sent in part or without a length, no header and no *)
(* payload was read before all of it had arrived, no two readers were in   *)
(* the middle of a frame, and the connection was not ended between the two *)
(* reads.  Until then the server does not run out of memory either.        *)
(***************************************************************************)
FramesKept ==
  damage = {} => ~crashed /\ IsPrefix(got, accepted)

(***************************************************************************)
(* A message that was sent is handed out in the end, unless the connection *)
(* ends or one of those accidents happens.                                 *)
(***************************************************************************)
MessageArrives ==
  \A m \in Messages :
    m \in Range(accepted)
      ~> (m \in Range(got) \/ damage # {} \/ sender = "reset" \/ status = "Disconnected")
==============================================================================
