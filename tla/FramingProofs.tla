--------------------------- MODULE FramingProofs ---------------------------
(***************************************************************************)
(* Proofs about Framing, for any messages.                                 *)
(*                                                                         *)
(* Types proves the type invariant.  FramesAreKept proves that what the    *)
(* readers hand out is a prefix of what was sent, as long as none of the   *)
(* accidents that the history damage records has happened.  FlowInv says   *)
(* what the stream looks like until then: whole frames in the order of the *)
(* messages, the first perhaps without the header that a reader has taken, *)
(* and the payloads in it are the messages accepted but not yet taken.     *)
(***************************************************************************)
EXTENDS Framing, SequenceTheorems, TLAPS

-----------------------------------------------------------------------------
(* The inductive invariant, in terms of the stream s *)

(* c comes before d in the stream *)
Before(c, d) == c.msg < d.msg \/ (c.msg = d.msg /\ c.at < d.at)

(* The cells are of frames of messages before n, and in order. *)
CellsOf(s, n) ==
  \A i \in 1 .. Len(s) :
    s[i].msg \in Messages /\ s[i].msg < n /\ s[i].at \in 1 .. FrameCells(s[i].msg)

InOrder(s) == \A i, j \in 1 .. Len(s) : i < j => Before(s[i], s[j])

(* After a cell comes the rest of its frame, *)
Rest(s) ==
  \A i \in 1 .. Len(s) : \A k \in s[i].at .. FrameCells(s[i].msg) :
    /\ i + k - s[i].at \in 1 .. Len(s)
    /\ s[i + k - s[i].at] = CellOf(s[i].msg, k)

(* and before it the beginning, but for the header of the first frame if begun. *)
Start(s, begun) ==
  \A i \in 1 .. Len(s) :
    s[i].at = 1 \/ (i = 1 /\ begun) \/ (i > 1 /\ s[i - 1].msg = s[i].msg)

(* The payloads in s are the messages of acc after the first t. *)
Pending(s, acc, t) ==
  /\ \A i \in 1 .. Len(s) : s[i].at > HeaderCells =>
       \E q \in 1 .. Len(acc) : q > t /\ acc[q] = s[i].msg
  /\ \A q \in 1 .. Len(acc) : q > t =>
       \E i \in 1 .. Len(s) : s[i] = CellOf(acc[q], HeaderCells + 1)

(* The messages sent, in order *)
Accepted(acc, n) ==
  /\ \A q \in 1 .. Len(acc) : Size[acc[q]] > 0 /\ acc[q] < n
  /\ \A p, q \in 1 .. Len(acc) : p < q => acc[p] < acc[q]

Prefix(s, t) == Len(s) <= Len(t) /\ \A i \in 1 .. Len(s) : s[i] = t[i]

Busy(r) == pc[r] # "idle"
Payloads == \E r \in Readers : pc[r] = "payload"
Hands == \E r \in Readers : pc[r] = "hand"
Taken == Len(got) + (IF Hands THEN 1 ELSE 0)

ReadersOK ==
  /\ \A r \in Readers : pc[r] # "ended"
  /\ \A r, o \in Readers : Busy(r) /\ Busy(o) => r = o
  /\ Payloads => status = "Connected"

HandedOK ==
  /\ Prefix(got, accepted)
  /\ \A r \in Readers : pc[r] = "hand" =>
       Len(got) < Len(accepted) /\ buffer[r] = accepted[Len(got) + 1]

PayloadOK ==
  \A r \in Readers : pc[r] = "payload" =>
    Len(stream) > 0 /\ stream[1].at = HeaderCells + 1 /\ size[r] = Size[stream[1].msg]

StreamOK ==
  /\ CellsOf(stream, next) /\ InOrder(stream) /\ Rest(stream)
  /\ Start(stream, Payloads) /\ PayloadOK
  /\ Pending(stream, accepted, Taken)

Undamaged ==
  /\ ~crashed
  /\ Accepted(accepted, next) /\ ReadersOK /\ HandedOK
  /\ status = "Connected" /\ sender # "reset" => StreamOK

FlowInv ==
  /\ sender = "reset" => Len(stream) = 0
  /\ damage = {} => Undamaged

-----------------------------------------------------------------------------
(* Sizes and frames *)

(* Messages are positive numbers, and their sizes small. *)
LEMMA SizeFacts ==
  /\ Messages \subseteq Nat \ {0} /\ Messages = 1 .. Len(Size) /\ Len(Size) \in Nat
  /\ \A m \in Messages : Size[m] \in 0 .. MaxSize /\ FrameCells(m) = 2 + Size[m]
  /\ \A m \in Messages : FrameCells(m) \in Nat
BY FramingAssumption DEF Messages, FrameCells, HeaderCells

(* The size of one message *)
LEMMA SizeOf ==
  ASSUME NEW m \in Messages
  PROVE  m \in Nat /\ Size[m] \in Nat /\ FrameCells(m) = 2 + Size[m]
<1>1. m \in Nat /\ Size[m] \in 0 .. MaxSize /\ FrameCells(m) = 2 + Size[m]
  BY SizeFacts
<1> QED
  BY <1>1, FramingAssumption

(* What is left of a sequence when h cells were taken off its front *)
LEMMA Shifted ==
  ASSUME NEW S, NEW s \in Seq(S), NEW h \in 0 .. Len(s), NEW t,
         t = SubSeq(s, h + 1, Len(s))
  PROVE  /\ t \in Seq(S) /\ Len(t) = Len(s) - h
         /\ \A i \in 1 .. Len(t) : t[i] = s[i + h]
<1>1. Len(s) \in Nat /\ h \in Nat /\ h <= Len(s)
  OBVIOUS
<1>2. \A i \in h + 1 .. Len(s) : s[i] \in S
  BY <1>1, ElementOfSeq
<1> QED
  BY <1>1, <1>2, SubSeqProperties

(* The front of a sequence *)
LEMMA FrontOf ==
  ASSUME NEW S, NEW s \in Seq(S), NEW h \in 0 .. Len(s)
  PROVE  /\ SubSeq(s, 1, h) \in Seq(S) /\ Len(SubSeq(s, 1, h)) = h
         /\ \A i \in 1 .. h : SubSeq(s, 1, h)[i] = s[i]
<1>1. Len(s) \in Nat /\ h \in Nat /\ h <= Len(s)
  OBVIOUS
<1>2. \A i \in 1 .. h : s[i] \in S
  BY <1>1, ElementOfSeq
<1> QED
  BY <1>1, <1>2, SubSeqProperties

(* Prefix is IsPrefix of the community modules. *)
LEMMA PrefixIs ==
  ASSUME NEW S, NEW s \in Seq(S), NEW t \in Seq(S), Prefix(s, t)
  PROVE  IsPrefix(s, t)
<1>1. Len(s) \in Nat /\ Len(t) \in Nat /\ Len(s) <= Len(t)
  BY DEF Prefix
<1>2. SubSeq(s, 1, Len(s)) \in Seq(S) /\ Len(SubSeq(s, 1, Len(s))) = Len(s)
      /\ \A i \in 1 .. Len(s) : SubSeq(s, 1, Len(s))[i] = s[i]
  BY <1>1, FrontOf
<1>3. SubSeq(t, 1, Len(s)) \in Seq(S) /\ Len(SubSeq(t, 1, Len(s))) = Len(s)
      /\ \A i \in 1 .. Len(s) : SubSeq(t, 1, Len(s))[i] = t[i]
  BY <1>1, FrontOf
<1>4. SubSeq(s, 1, Len(s)) = SubSeq(t, 1, Len(s))
  <2>1. \A i \in 1 .. Len(s) : SubSeq(s, 1, Len(s))[i] = SubSeq(t, 1, Len(s))[i]
    BY <1>2, <1>3 DEF Prefix
  <2> QED
    BY <1>2, <1>3, <2>1, SeqEqual
<1> QED
  BY <1>1, <1>4 DEF IsPrefix

(* Cells are what their fields say. *)
LEMMA CellFacts ==
  /\ \A m, k : CellOf(m, k).msg = m /\ CellOf(m, k).at = k
  /\ \A m \in Messages : \A k \in Nat : CellOf(m, k) \in Cell
  /\ \A c \in Cell : c = CellOf(c.msg, c.at) /\ c.at \in Nat
BY DEF CellOf, Cell

(* The frame of a message as a sequence *)
LEMMA FrameFacts ==
  ASSUME NEW m \in Messages
  PROVE  /\ Frame(m) \in Seq(Cell) /\ Len(Frame(m)) = FrameCells(m)
         /\ \A k \in 1 .. FrameCells(m) : Frame(m)[k] = CellOf(m, k)
<1>1. FrameCells(m) \in Nat
  BY SizeFacts
<1>2. \A k \in 1 .. FrameCells(m) : CellOf(m, k) \in Cell
  BY <1>1, CellFacts
<1> QED
  BY <1>1, <1>2 DEF Frame

-----------------------------------------------------------------------------
(* Taking cells off the stream *)

(* Cells in order stay so, and every cell keeps the rest of its frame. *)
LEMMA ShiftKept ==
  ASSUME NEW s \in Seq(Cell), NEW t \in Seq(Cell), NEW n \in Nat, NEW h \in 0 .. Len(s),
         Len(t) = Len(s) - h, \A i \in 1 .. Len(t) : t[i] = s[i + h],
         CellsOf(s, n), InOrder(s), Rest(s)
  PROVE  CellsOf(t, n) /\ InOrder(t) /\ Rest(t)
<1>0. Len(s) \in Nat /\ Len(t) \in Nat /\ h \in Nat
  OBVIOUS
<1>1. \A i \in 1 .. Len(t) : i + h \in 1 .. Len(s)
  BY <1>0
<1>2. CellsOf(t, n)
  BY <1>1 DEF CellsOf
<1>3. InOrder(t)
  <2> SUFFICES ASSUME NEW i \in 1 .. Len(t), NEW j \in 1 .. Len(t), i < j
               PROVE  Before(t[i], t[j])
    BY DEF InOrder
  <2>1. i + h < j + h /\ i + h \in 1 .. Len(s) /\ j + h \in 1 .. Len(s)
    BY <1>0, <1>1
  <2>2. Before(s[i + h], s[j + h])
    BY <2>1 DEF InOrder
  <2> QED
    BY <2>2
<1>4. Rest(t)
  <2> SUFFICES ASSUME NEW i \in 1 .. Len(t),
                      NEW k \in t[i].at .. FrameCells(t[i].msg)
               PROVE  /\ i + k - t[i].at \in 1 .. Len(t)
                      /\ t[i + k - t[i].at] = CellOf(t[i].msg, k)
    BY DEF Rest
  <2>1. i + h \in 1 .. Len(s) /\ t[i] = s[i + h] /\ i \in Nat
    BY <1>1
  <2>2. t[i].at \in Nat /\ t[i].msg \in Messages /\ FrameCells(t[i].msg) \in Nat
    BY <2>1, <1>2, SizeFacts DEF CellsOf
  <2>3. k \in Nat /\ t[i].at <= k
    BY <2>2
  <2>4. /\ i + h + k - t[i].at \in 1 .. Len(s)
        /\ s[i + h + k - t[i].at] = CellOf(t[i].msg, k)
    BY <2>1, <2>3 DEF Rest
  <2> DEFINE j == i + k - t[i].at
  <2>5. j \in Nat /\ j >= i /\ j + h = i + h + k - t[i].at
    <3>1. i \in Nat /\ k \in Nat /\ h \in Nat /\ t[i].at \in Nat /\ t[i].at <= k
      BY <2>1, <2>2, <2>3, <1>0
    <3> QED
      BY <3>1
  <2>6. j \in 1 .. Len(t)
    BY <2>4, <2>5, <2>1, <1>0
  <2>7. t[j] = s[j + h]
    BY <2>6
  <2> QED
    BY <2>4, <2>5, <2>6, <2>7
<1> QED
  BY <1>2, <1>3, <1>4

(* A cell late in a frame is the first in the stream only if a reader has  *)
(* begun that frame.                                                       *)
LEMMA FirstCell ==
  ASSUME NEW s \in Seq(Cell), Len(s) > 0, Start(s, FALSE)
  PROVE  s[1].at = 1
BY DEF Start

(* The frame at the front of the stream, from its first cell on *)
LEMMA FrontFrame ==
  ASSUME NEW s \in Seq(Cell), NEW n \in Nat, Len(s) > 0, CellsOf(s, n), Rest(s)
  PROVE  /\ s[1].msg \in Messages /\ s[1].at \in 1 .. FrameCells(s[1].msg)
         /\ \A i \in 1 .. FrameCells(s[1].msg) - s[1].at + 1 :
              i \in 1 .. Len(s) /\ s[i] = CellOf(s[1].msg, i + s[1].at - 1)
<1>1. 1 \in 1 .. Len(s) /\ Len(s) \in Nat
  OBVIOUS
<1>2. s[1].msg \in Messages /\ s[1].at \in 1 .. FrameCells(s[1].msg)
  BY <1>1 DEF CellsOf
<1>3. FrameCells(s[1].msg) \in Nat
  BY <1>2, SizeFacts
<1>4. ASSUME NEW i \in 1 .. FrameCells(s[1].msg) - s[1].at + 1
      PROVE  i \in 1 .. Len(s) /\ s[i] = CellOf(s[1].msg, i + s[1].at - 1)
  <2> DEFINE k == i + s[1].at - 1
  <2>1. k \in s[1].at .. FrameCells(s[1].msg) /\ 1 + k - s[1].at = i
    BY <1>2, <1>3
  <2>2. /\ 1 + k - s[1].at \in 1 .. Len(s)
        /\ s[1 + k - s[1].at] = CellOf(s[1].msg, k)
    BY <1>1, <2>1 DEF Rest
  <2> QED
    BY <2>1, <2>2
<1> QED
  BY <1>2, <1>4

(* Behind the front frame there is nothing of its message. *)
LEMMA BehindFrame ==
  ASSUME NEW s \in Seq(Cell), NEW n \in Nat, Len(s) > 0, CellsOf(s, n), InOrder(s), Rest(s),
         NEW i \in 1 .. Len(s), i > FrameCells(s[1].msg) - s[1].at + 1
  PROVE  s[i].msg > s[1].msg
<1> DEFINE m == s[1].msg
           a == s[1].at
<1>1. m \in Messages /\ a \in 1 .. FrameCells(m)
  BY FrontFrame
<1> DEFINE l == FrameCells(m) - a + 1
<1>a. \A j \in 1 .. l : j \in 1 .. Len(s) /\ s[j] = CellOf(m, j + a - 1)
  BY FrontFrame
<1> HIDE DEF l, m, a
<1>b. FrameCells(m) \in Nat
  BY <1>1, SizeFacts
<1>2. l \in Nat \ {0} /\ l + a - 1 = FrameCells(m) /\ l < i
  BY <1>1, <1>b DEF l, m, a
<1>3. l \in 1 .. l
  BY <1>2
<1>4. s[l] = CellOf(m, FrameCells(m)) /\ l \in 1 .. Len(s)
  BY <1>a, <1>2, <1>3
<1>5. s[l].msg = m /\ s[l].at = FrameCells(m)
  BY <1>4, CellFacts
<1>6. Before(s[l], s[i])
  BY <1>2, <1>4 DEF InOrder
<1>7. s[i].msg \in Messages /\ s[i].at \in 1 .. FrameCells(s[i].msg)
  BY DEF CellsOf
<1>8. s[i].msg \in Nat /\ m \in Nat /\ s[i].at <= FrameCells(s[i].msg)
  BY <1>1, <1>7, SizeFacts
<1>9. m < s[i].msg \/ (m = s[i].msg /\ FrameCells(m) < s[i].at)
  BY <1>5, <1>6 DEF Before
<1> QED
  BY <1>b, <1>7, <1>8, <1>9 DEF m

(* After the header of the front frame the payload comes first; a frame    *)
(* without a payload is gone with its header.                              *)
LEMMA HeaderTaken ==
  ASSUME NEW s \in Seq(Cell), NEW n \in Nat, NEW t \in Seq(Cell), Len(s) > 0,
         CellsOf(s, n), InOrder(s), Rest(s), Start(s, FALSE),
         NEW m, m = s[1].msg,
         Len(t) = Len(s) - HeaderCells,
         \A i \in 1 .. Len(t) : t[i] = s[i + HeaderCells]
  PROVE  /\ m \in Messages /\ Len(s) >= HeaderCells
         /\ \A k \in 1 .. HeaderCells : s[k] = CellOf(m, k)
         /\ Start(t, Size[m] > 0)
         /\ Size[m] > 0 => Len(t) > 0 /\ t[1] = CellOf(m, HeaderCells + 1)
<1>0. HeaderCells = 2 /\ Len(s) \in Nat /\ Len(t) \in Nat
  BY DEF HeaderCells
<1>1. s[1].at = 1
  BY FirstCell
<1>2. /\ m \in Messages
      /\ \A i \in 1 .. FrameCells(m) - 1 + 1 : i \in 1 .. Len(s) /\ s[i] = CellOf(m, i + 1 - 1)
  BY <1>1, FrontFrame
<1>a. m \in Messages
  BY <1>2
<1>3. Size[m] \in Nat /\ FrameCells(m) = 2 + Size[m]
  BY <1>a, SizeOf
<1>4. \A i \in 1 .. FrameCells(m) : s[i] = CellOf(m, i)
  BY <1>2, <1>3
<1>5. FrameCells(m) <= Len(s)
  <2>1. FrameCells(m) \in 1 .. FrameCells(m) - 1 + 1
    BY <1>3
  <2> QED
    BY <1>2, <2>1, <1>0
<1>6. Size[m] > 0 => Len(t) > 0 /\ t[1] = CellOf(m, HeaderCells + 1)
  <2> HAVE Size[m] > 0
  <2>1. 1 \in 1 .. Len(t) /\ HeaderCells + 1 \in 1 .. FrameCells(m)
    BY <1>0, <1>3, <1>5
  <2>2. t[1] = s[HeaderCells + 1]
    BY <2>1, <1>0
  <2> QED
    BY <1>4, <2>1, <2>2, <1>0
<1>7. ASSUME NEW i \in 1 .. Len(t)
      PROVE  t[i].at = 1 \/ (i = 1 /\ Size[m] > 0) \/ (i > 1 /\ t[i - 1].msg = t[i].msg)
  <2>1. i + HeaderCells \in 1 .. Len(s) /\ t[i] = s[i + HeaderCells] /\ i \in Nat
    BY <1>0
  <2>2. t[i].at = 1 \/ s[i + HeaderCells - 1].msg = t[i].msg
    BY <2>1, <1>0 DEF Start
  <2>3. CASE i = 1
    <3>1. SUFFICES ASSUME Size[m] = 0 PROVE t[i].at = 1
      BY <2>3, <1>3
    <3>2. s[i + HeaderCells].msg > m
      <4>1. i + HeaderCells > FrameCells(s[1].msg) - s[1].at + 1
        BY <2>1, <2>3, <3>1, <1>0, <1>1, <1>3
      <4> QED
        BY <2>1, <4>1, BehindFrame
    <3>3. s[i + HeaderCells - 1] = s[2] /\ 2 \in 1 .. FrameCells(m)
      BY <2>3, <1>0, <1>3
    <3>4. s[2].msg = m
      BY <1>4, <3>3, CellFacts
    <3>5. m \in Nat
      BY <1>2, SizeFacts
    <3> QED
      BY <2>1, <2>2, <3>2, <3>3, <3>4, <3>5
  <2>4. CASE i # 1
    <3>1. i - 1 \in 1 .. Len(t) /\ i - 1 + HeaderCells = i + HeaderCells - 1
      BY <2>4, <1>0
    <3>2. t[i - 1] = s[i + HeaderCells - 1]
      BY <3>1
    <3> QED
      BY <2>2, <2>4, <3>2
  <2> QED
    BY <2>3, <2>4
<1>8. Start(t, Size[m] > 0)
  BY <1>7 DEF Start
<1>9. Len(s) >= HeaderCells /\ \A k \in 1 .. HeaderCells : s[k] = CellOf(m, k)
  <2>1. Len(s) >= HeaderCells
    BY <1>0, <1>3, <1>5
  <2>2. ASSUME NEW k \in 1 .. HeaderCells PROVE s[k] = CellOf(m, k)
    <3>1. k \in 1 .. FrameCells(m)
      BY <1>0, <1>3
    <3> QED
      BY <1>4, <3>1
  <2> QED
    BY <2>1, <2>2
<1> QED
  BY <1>2, <1>6, <1>8, <1>9

(* With a header no payload leaves the stream. *)
LEMMA HeaderPending ==
  ASSUME NEW s \in Seq(Cell), NEW t \in Seq(Cell), NEW acc \in Seq(Messages), NEW d \in Nat,
         Len(s) >= HeaderCells, \A k \in 1 .. HeaderCells : s[k].at = k,
         Len(t) = Len(s) - HeaderCells,
         \A i \in 1 .. Len(t) : t[i] = s[i + HeaderCells],
         Pending(s, acc, d)
  PROVE  Pending(t, acc, d)
<1>0. HeaderCells = 2 /\ Len(s) \in Nat /\ Len(t) \in Nat
  BY DEF HeaderCells
<1>1. ASSUME NEW i \in 1 .. Len(t), t[i].at > HeaderCells
      PROVE  \E q \in 1 .. Len(acc) : q > d /\ acc[q] = t[i].msg
  <2>1. i + HeaderCells \in 1 .. Len(s) /\ t[i] = s[i + HeaderCells]
    BY <1>0
  <2> QED
    BY <1>1, <2>1 DEF Pending
<1>2. ASSUME NEW q \in 1 .. Len(acc), q > d
      PROVE  \E i \in 1 .. Len(t) : t[i] = CellOf(acc[q], HeaderCells + 1)
  <2>1. PICK j \in 1 .. Len(s) : s[j] = CellOf(acc[q], HeaderCells + 1)
    BY <1>2 DEF Pending
  <2>2. s[j].at = 3
    BY <2>1, <1>0, CellFacts
  <2>3. j \notin 1 .. HeaderCells
    BY <2>2, <1>0
  <2>4. j - HeaderCells \in 1 .. Len(t) /\ j - HeaderCells + HeaderCells = j
    BY <2>3, <1>0
  <2>5. t[j - HeaderCells] = s[j]
    BY <2>4
  <2> QED
    BY <2>1, <2>4, <2>5
<1> QED
  BY <1>1, <1>2 DEF Pending

(* A payload at the front of the stream, and what is behind it *)
LEMMA PayloadFront ==
  ASSUME NEW s \in Seq(Cell), NEW n \in Nat, Len(s) > 0,
         CellsOf(s, n), InOrder(s), Rest(s), s[1].at = HeaderCells + 1
  PROVE  /\ s[1].msg \in Messages /\ Size[s[1].msg] \in Nat \ {0}
         /\ Size[s[1].msg] <= Len(s)
         /\ \A k \in 1 .. Size[s[1].msg] :
              k \in 1 .. Len(s) /\ s[k] = CellOf(s[1].msg, HeaderCells + k)
         /\ \A i \in 1 .. Len(s) : i > Size[s[1].msg] => s[i].msg > s[1].msg
<1>0. HeaderCells = 2 /\ Len(s) \in Nat
  BY DEF HeaderCells
<1> DEFINE m == s[1].msg
           h == Size[m]
<1>1. m \in Messages /\ s[1].at \in 1 .. FrameCells(m)
  BY FrontFrame
<1>2. h \in Nat /\ FrameCells(m) = 2 + h
  BY <1>1, SizeOf
<1>3. \A i \in 1 .. FrameCells(m) - s[1].at + 1 :
        i \in 1 .. Len(s) /\ s[i] = CellOf(m, i + s[1].at - 1)
  BY FrontFrame
<1>4. \A i \in 1 .. Len(s) : i > FrameCells(m) - s[1].at + 1 => s[i].msg > m
  BY BehindFrame
<1> HIDE DEF m, h
<1>5. h > 0 /\ FrameCells(m) - s[1].at + 1 = h
  BY <1>0, <1>1, <1>2
<1>6. \A k \in 1 .. h : k \in 1 .. Len(s) /\ s[k] = CellOf(m, k + s[1].at - 1)
  BY <1>3, <1>5
<1>7. ASSUME NEW k \in 1 .. h PROVE k \in 1 .. Len(s) /\ s[k] = CellOf(m, HeaderCells + k)
  <2>1. k + s[1].at - 1 = HeaderCells + k
    BY <1>0, <1>2
  <2> QED
    BY <1>6, <2>1
<1>8. h <= Len(s)
  <2>1. h \in 1 .. h
    BY <1>2, <1>5
  <2> QED
    BY <1>0, <1>7, <2>1
<1>9. \A i \in 1 .. Len(s) : i > h => s[i].msg > m
  BY <1>4, <1>5
<1> QED
  BY <1>1, <1>2, <1>5, <1>7, <1>8, <1>9 DEF m, h

(* s begins with the h cells of the payload of m, and later messages follow. *)
PayloadFirst(s, m, h) ==
  /\ h <= Len(s)
  /\ \A k \in 1 .. h : s[k] = CellOf(m, HeaderCells + k)
  /\ \A i \in 1 .. Len(s) : i > h => s[i].msg > m

(* t is what is left of s without its first h cells. *)
Behind(t, s, h) == Len(t) = Len(s) - h /\ \A i \in 1 .. Len(t) : t[i] = s[i + h]

(* The payload at the front of the stream is that of the first message not *)
(* taken yet; behind it a frame begins.                                    *)
LEMMA PayloadTaken ==
  ASSUME NEW s \in Seq(Cell), NEW n \in Nat, NEW t \in Seq(Cell), Start(s, TRUE),
         NEW acc \in Seq(Messages), NEW d \in Nat, Accepted(acc, n), Pending(s, acc, d),
         NEW m \in Messages, NEW h \in Nat \ {0},
         PayloadFirst(s, m, h), Behind(t, s, h)
  PROVE  /\ d < Len(acc) /\ acc[d + 1] = m
         /\ Start(t, FALSE) /\ Pending(t, acc, d + 1)
<1> SUFFICES ASSUME h <= Len(s),
                    \A k \in 1 .. h : s[k] = CellOf(m, HeaderCells + k),
                    \A i \in 1 .. Len(s) : i > h => s[i].msg > m,
                    Len(t) = Len(s) - h, \A i \in 1 .. Len(t) : t[i] = s[i + h]
             PROVE  /\ d < Len(acc) /\ acc[d + 1] = m
                    /\ Start(t, FALSE) /\ Pending(t, acc, d + 1)
  BY DEF PayloadFirst, Behind
<1>0. HeaderCells = 2 /\ Len(s) \in Nat /\ Len(t) \in Nat /\ Len(acc) \in Nat
  BY DEF HeaderCells
<1>2. m \in Nat
  BY SizeOf
<1>5. \A k \in 1 .. h : s[k].msg = m /\ s[k].at = HeaderCells + k
  BY CellFacts
<1>7. \A i \in 1 .. Len(t) :
        i + h \in 1 .. Len(s) /\ i \in Nat /\ t[i] = s[i + h] /\ t[i].msg > m
  BY <1>0
<1>8. PICK p \in 1 .. Len(acc) : p > d /\ acc[p] = m
  <2>1. 1 \in 1 .. Len(s) /\ s[1].at > HeaderCells /\ s[1].msg = m
    BY <1>0, <1>5
  <2> QED
    BY <2>1 DEF Pending
<1>9. p = d + 1
  <2> SUFFICES ASSUME p # d + 1 PROVE FALSE
    OBVIOUS
  <2>1. d + 1 \in 1 .. Len(acc) /\ d + 1 > d /\ d + 1 < p
    BY <1>0, <1>8
  <2>2. acc[d + 1] < m
    BY <1>8, <2>1 DEF Accepted
  <2>3. PICK i \in 1 .. Len(s) : s[i] = CellOf(acc[d + 1], HeaderCells + 1)
    BY <2>1 DEF Pending
  <2>4. s[i].msg = acc[d + 1] /\ acc[d + 1] \in Nat
    <3>1. acc[d + 1] \in Messages
      BY <2>1, ElementOfSeq
    <3> QED
      BY <2>3, <3>1, CellFacts, SizeOf
  <2>5. i > h => s[i].msg > m
    OBVIOUS
  <2>6. i \in 1 .. h => s[i].msg = m
    BY <1>5
  <2> QED
    BY <2>2, <2>4, <2>5, <2>6, <1>2
<1>10. d < Len(acc) /\ acc[d + 1] = m
  BY <1>0, <1>8, <1>9
<1>11. Start(t, FALSE)
  <2> SUFFICES ASSUME NEW i \in 1 .. Len(t)
               PROVE  t[i].at = 1 \/ (i > 1 /\ t[i - 1].msg = t[i].msg)
    BY DEF Start
  <2>1. i + h > 1
    BY <1>0
  <2>a. i + h \in 1 .. Len(s) /\ t[i] = s[i + h]
    BY <1>7
  <2>2. t[i].at = 1 \/ s[i + h - 1].msg = t[i].msg
    BY <2>a, <2>1 DEF Start
  <2>3. CASE i = 1
    <3>1. s[h].msg = m
      BY <1>5
    <3>2. i + h - 1 = h
      BY <2>3
    <3>3. t[i].msg # m
      BY <1>7, <1>2
    <3> QED
      BY <2>2, <3>1, <3>2, <3>3
  <2>4. CASE i # 1
    <3>1. i - 1 \in 1 .. Len(t) /\ i - 1 + h = i + h - 1 /\ i > 1
      BY <2>4, <1>0, <1>2
    <3>2. t[i - 1] = s[i + h - 1]
      BY <3>1, <1>7
    <3> QED
      BY <2>2, <3>1, <3>2
  <2> QED
    BY <2>3, <2>4
<1>12. ASSUME NEW i \in 1 .. Len(t), t[i].at > HeaderCells
       PROVE  \E q \in 1 .. Len(acc) : q > d + 1 /\ acc[q] = t[i].msg
  <2>a. i + h \in 1 .. Len(s) /\ t[i] = s[i + h] /\ s[i + h].at > HeaderCells
    BY <1>7, <1>12
  <2>1. PICK q \in 1 .. Len(acc) : q > d /\ acc[q] = t[i].msg
    BY <2>a DEF Pending
  <2>b. t[i].msg # m
    BY <1>7, <1>2
  <2>2. q # d + 1
    BY <1>10, <2>1, <2>b
  <2>3. q > d + 1
    BY <2>1, <2>2
  <2> QED
    BY <2>1, <2>3
<1>13. ASSUME NEW q \in 1 .. Len(acc), q > d + 1
       PROVE  \E i \in 1 .. Len(t) : t[i] = CellOf(acc[q], HeaderCells + 1)
  <2>1. q > d /\ d + 1 \in 1 .. Len(acc)
    BY <1>13, <1>10, <1>0
  <2>2. PICK i \in 1 .. Len(s) : s[i] = CellOf(acc[q], HeaderCells + 1)
    BY <2>1 DEF Pending
  <2>3. m < acc[q]
    BY <1>10, <1>13, <2>1 DEF Accepted
  <2>4. acc[q] \in Nat /\ s[i].msg = acc[q]
    <3>1. acc[q] \in Messages
      BY ElementOfSeq
    <3> QED
      BY <2>2, <3>1, CellFacts, SizeOf
  <2>5. i \notin 1 .. h
    <3>1. i \in 1 .. h => s[i].msg = m
      BY <1>5
    <3> QED
      BY <3>1, <2>3, <2>4, <1>2
  <2>6. i - h \in 1 .. Len(t) /\ i - h + h = i
    BY <2>5, <1>0, <1>2
  <2>7. t[i - h] = s[i]
    BY <2>6
  <2> QED
    BY <2>2, <2>6, <2>7
<1>14. Pending(t, acc, d + 1)
  BY <1>12, <1>13 DEF Pending
<1> QED
  BY <1>10, <1>11, <1>14

-----------------------------------------------------------------------------
(* Sending a frame *)

(* A stream and a frame behind it, cell by cell *)
LEMMA FrameBehind ==
  ASSUME NEW s \in Seq(Cell), NEW n \in Messages
  PROVE  /\ s \o Frame(n) \in Seq(Cell)
         /\ Len(s \o Frame(n)) = Len(s) + FrameCells(n)
         /\ \A i \in 1 .. Len(s) : (s \o Frame(n))[i] = s[i]
         /\ \A k \in 1 .. FrameCells(n) : (s \o Frame(n))[Len(s) + k] = CellOf(n, k)
<1>0. Len(s) \in Nat /\ FrameCells(n) \in Nat
  BY SizeOf
<1>1. /\ Frame(n) \in Seq(Cell) /\ Len(Frame(n)) = FrameCells(n)
      /\ \A k \in 1 .. FrameCells(n) : Frame(n)[k] = CellOf(n, k)
  BY FrameFacts
<1>2. /\ s \o Frame(n) \in Seq(Cell)
      /\ Len(s \o Frame(n)) = Len(s) + FrameCells(n)
      /\ \A i \in 1 .. Len(s) + FrameCells(n) :
           (s \o Frame(n))[i] = IF i <= Len(s) THEN s[i] ELSE Frame(n)[i - Len(s)]
  BY <1>1, ConcatProperties
<1>3. ASSUME NEW i \in 1 .. Len(s) PROVE (s \o Frame(n))[i] = s[i]
  <2>1. i \in 1 .. Len(s) + FrameCells(n) /\ i <= Len(s)
    BY <1>0
  <2> QED
    BY <1>2, <2>1
<1>4. ASSUME NEW k \in 1 .. FrameCells(n)
      PROVE  (s \o Frame(n))[Len(s) + k] = CellOf(n, k)
  <2>1. /\ Len(s) + k \in 1 .. Len(s) + FrameCells(n) /\ ~(Len(s) + k <= Len(s))
        /\ Len(s) + k - Len(s) = k
    BY <1>0
  <2> QED
    BY <1>1, <1>2, <2>1
<1> QED
  BY <1>2, <1>3, <1>4

(* A new frame goes behind those of earlier messages. *)
LEMMA FrameAdded ==
  ASSUME NEW s \in Seq(Cell), NEW n \in Messages, NEW t \in Seq(Cell),
         CellsOf(s, n), InOrder(s), Rest(s), NEW b \in BOOLEAN, Start(s, b),
         Len(t) = Len(s) + FrameCells(n),
         \A i \in 1 .. Len(s) : t[i] = s[i],
         \A k \in 1 .. FrameCells(n) : t[Len(s) + k] = CellOf(n, k)
  PROVE  CellsOf(t, n + 1) /\ InOrder(t) /\ Rest(t) /\ Start(t, b)
<1> DEFINE l == Len(s)
           f == FrameCells(n)
<1>0. l \in Nat /\ n \in Nat /\ f \in Nat
  BY SizeOf
<1>2. Len(t) = l + f
  OBVIOUS
<1>3. \A i \in 1 .. l : t[i] = s[i]
  OBVIOUS
<1>a. \A k \in 1 .. f : t[l + k] = CellOf(n, k)
  OBVIOUS
<1> HIDE DEF l, f
<1>4. ASSUME NEW i \in 1 .. l + f, i > l
      PROVE  i - l \in 1 .. f /\ t[i] = CellOf(n, i - l)
  <2>1. i - l \in 1 .. f /\ l + (i - l) = i
    BY <1>0, <1>4
  <2> QED
    BY <1>a, <2>1
<1>5. \A i \in 1 .. l + f : i > l => t[i].msg = n /\ t[i].at = i - l
  BY <1>4, CellFacts
<1>6. \A i \in 1 .. l : /\ t[i].msg \in Messages /\ t[i].msg < n /\ t[i].msg \in Nat
                        /\ t[i].at \in 1 .. FrameCells(t[i].msg)
  BY <1>3, SizeFacts DEF CellsOf, l
<1>7. CellsOf(t, n + 1)
  <2> SUFFICES ASSUME NEW i \in 1 .. l + f
               PROVE  /\ t[i].msg \in Messages /\ t[i].msg < n + 1
                      /\ t[i].at \in 1 .. FrameCells(t[i].msg)
    BY <1>2 DEF CellsOf
  <2>1. CASE i <= l
    <3>1. i \in 1 .. l
      BY <2>1, <1>0
    <3> QED
      BY <3>1, <1>6, <1>0
  <2>2. CASE i > l
    BY <2>2, <1>0, <1>4, <1>5 DEF f
  <2> QED
    BY <2>1, <2>2, <1>0
<1>8. InOrder(t)
  <2> SUFFICES ASSUME NEW i \in 1 .. l + f, NEW j \in 1 .. l + f, i < j
               PROVE  Before(t[i], t[j])
    BY <1>2 DEF InOrder
  <2>1. CASE j <= l
    <3>1. i \in 1 .. l /\ j \in 1 .. l
      BY <2>1, <1>0
    <3> QED
      BY <3>1, <1>3 DEF InOrder, l
  <2>2. CASE i <= l /\ j > l
    <3>1. i \in 1 .. l
      BY <2>2, <1>0
    <3> QED
      BY <3>1, <2>2, <1>5, <1>6 DEF Before
  <2>3. CASE i > l /\ j > l
    <3>1. t[i].msg = t[j].msg /\ t[i].at = i - l /\ t[j].at = j - l
      BY <2>3, <1>5
    <3> QED
      BY <3>1, <1>0 DEF Before
  <2> QED
    BY <2>1, <2>2, <2>3, <1>0
<1>9. Rest(t)
  <2> SUFFICES ASSUME NEW i \in 1 .. l + f, NEW k \in t[i].at .. FrameCells(t[i].msg)
               PROVE  /\ i + k - t[i].at \in 1 .. l + f
                      /\ t[i + k - t[i].at] = CellOf(t[i].msg, k)
    BY <1>2 DEF Rest
  <2>1. CASE i <= l
    <3>1. i \in 1 .. l
      BY <2>1, <1>0
    <3>2. i + k - t[i].at \in 1 .. l /\ s[i + k - t[i].at] = CellOf(t[i].msg, k)
      BY <3>1, <1>3 DEF Rest, l
    <3> QED
      BY <3>2, <1>3, <1>0
  <2>2. CASE i > l
    <3>1. t[i].msg = n /\ t[i].at = i - l /\ i - l \in 1 .. f
      BY <2>2, <1>4, <1>5
    <3>2. k \in i - l .. f
      BY <3>1 DEF f
    <3> DEFINE j == i + k - (i - l)
    <3>3. j = l + k /\ j \in 1 .. l + f /\ j > l /\ j - l = k
      BY <3>1, <3>2, <1>0
    <3>4. t[j] = CellOf(n, k)
      BY <3>3, <1>4
    <3> QED
      BY <3>1, <3>3, <3>4
  <2> QED
    BY <2>1, <2>2, <1>0
<1>10. Start(t, b)
  <2> SUFFICES ASSUME NEW i \in 1 .. l + f
               PROVE  t[i].at = 1 \/ (i = 1 /\ b) \/ (i > 1 /\ t[i - 1].msg = t[i].msg)
    BY <1>2 DEF Start
  <2>1. CASE i <= l
    <3>1. i \in 1 .. l /\ (i > 1 => i - 1 \in 1 .. l)
      BY <2>1, <1>0
    <3> QED
      BY <3>1, <1>3 DEF Start, l
  <2>2. CASE i = l + 1
    <3>1. t[i].at = i - l
      BY <2>2, <1>0, <1>5
    <3> QED
      BY <3>1, <2>2, <1>0
  <2>3. CASE i > l + 1
    <3>1. i - 1 \in 1 .. l + f /\ i - 1 > l /\ i > l /\ i > 1
      BY <2>3, <1>0
    <3>2. t[i].msg = n /\ t[i - 1].msg = n
      BY <3>1, <1>5
    <3> QED
      BY <3>1, <3>2
  <2> QED
    BY <2>1, <2>2, <2>3, <1>0
<1> QED
  BY <1>7, <1>8, <1>9, <1>10

(* A message that is sent whole is pending, if it has a payload. *)
LEMMA PendingAdded ==
  ASSUME NEW s \in Seq(Cell), NEW n \in Messages, NEW t \in Seq(Cell),
         NEW acc \in Seq(Messages), NEW d \in Nat, d <= Len(acc), Pending(s, acc, d),
         NEW new, new = IF Size[n] = 0 THEN acc ELSE Append(acc, n),
         Len(t) = Len(s) + FrameCells(n),
         \A i \in 1 .. Len(s) : t[i] = s[i],
         \A k \in 1 .. FrameCells(n) : t[Len(s) + k] = CellOf(n, k)
  PROVE  Pending(t, new, d)
<1> DEFINE l == Len(s)
           f == FrameCells(n)
           a == Len(acc)
<1>0. /\ l \in Nat /\ f \in Nat /\ a \in Nat /\ Size[n] \in Nat
      /\ f = 2 + Size[n] /\ HeaderCells = 2
  BY SizeOf DEF HeaderCells
<1>1. /\ Len(new) = IF Size[n] = 0 THEN a ELSE a + 1
      /\ \A q \in 1 .. a : q \in 1 .. Len(new) /\ new[q] = acc[q]
      /\ Size[n] # 0 => new[a + 1] = n
  BY <1>0
<1>2. ASSUME NEW i \in 1 .. Len(t)
      PROVE  i \in 1 .. l \/ \E k \in 1 .. f : i = l + k
  <2>1. i \in 1 .. l \/ (i - l \in 1 .. f /\ i = l + (i - l))
    BY <1>0
  <2> QED
    BY <2>1
<1>3. ASSUME NEW i \in 1 .. Len(t), t[i].at > HeaderCells
      PROVE  \E q \in 1 .. Len(new) : q > d /\ new[q] = t[i].msg
  <2>1. CASE i \in 1 .. l
    <3>1. PICK q \in 1 .. a : q > d /\ acc[q] = t[i].msg
      BY <1>3, <2>1 DEF Pending
    <3> QED
      BY <3>1, <1>1
  <2>2. ASSUME NEW k \in 1 .. f, i = l + k
        PROVE  \E q \in 1 .. Len(new) : q > d /\ new[q] = t[i].msg
    <3>1. t[i].msg = n /\ t[i].at = k
      BY <2>2, CellFacts
    <3>2. Size[n] # 0
      BY <3>1, <1>3, <1>0
    <3>3. a + 1 \in 1 .. Len(new) /\ a + 1 > d /\ new[a + 1] = n
      BY <3>2, <1>0, <1>1
    <3> QED
      BY <3>1, <3>3
  <2> QED
    BY <1>2, <2>1, <2>2
<1>4. ASSUME NEW q \in 1 .. Len(new), q > d
      PROVE  \E i \in 1 .. Len(t) : t[i] = CellOf(new[q], HeaderCells + 1)
  <2>1. CASE q \in 1 .. a
    <3>1. PICK i \in 1 .. l : s[i] = CellOf(acc[q], HeaderCells + 1)
      BY <1>4, <2>1 DEF Pending
    <3>2. i \in 1 .. Len(t) /\ t[i] = s[i]
      BY <1>0
    <3> QED
      BY <3>1, <3>2, <2>1, <1>1
  <2>2. CASE q \notin 1 .. a
    <3>1. Size[n] # 0 /\ q = a + 1
      BY <2>2, <1>0, <1>1
    <3>2. HeaderCells + 1 \in 1 .. f /\ l + (HeaderCells + 1) \in 1 .. Len(t)
      BY <3>1, <1>0
    <3>3. t[l + (HeaderCells + 1)] = CellOf(n, HeaderCells + 1)
      BY <3>2
    <3> QED
      BY <3>1, <3>2, <3>3, <1>1
  <2> QED
    BY <2>1, <2>2
<1> QED
  BY <1>3, <1>4 DEF Pending

(* Messages are accepted in order. *)
LEMMA AcceptedAdded ==
  ASSUME NEW acc \in Seq(Messages), NEW n \in Messages, Accepted(acc, n),
         NEW new, new = acc \/ (Size[n] # 0 /\ new = Append(acc, n))
  PROVE  Accepted(new, n + 1)
<1>0. Len(acc) \in Nat /\ n \in Nat /\ Size[n] \in Nat
  BY SizeOf
<1>1. \A q \in 1 .. Len(acc) : acc[q] \in Nat
  BY ElementOfSeq, SizeFacts
<1>2. CASE new = acc
  BY <1>0, <1>1, <1>2 DEF Accepted
<1>3. CASE Size[n] # 0 /\ new = Append(acc, n)
  <2>1. Len(new) = Len(acc) + 1 /\ new[Len(acc) + 1] = n
    BY <1>3
  <2>2. \A q \in 1 .. Len(acc) : new[q] = acc[q]
    BY <1>3
  <2>3. \A q \in 1 .. Len(new) : q \in 1 .. Len(acc) \/ q = Len(acc) + 1
    BY <2>1, <1>0
  <2>4. \A q \in 1 .. Len(new) : Size[new[q]] > 0 /\ new[q] < n + 1
    BY <2>1, <2>2, <2>3, <1>0, <1>1, <1>3 DEF Accepted
  <2>5. \A p, q \in 1 .. Len(new) : p < q => new[p] < new[q]
    <3> SUFFICES ASSUME NEW p \in 1 .. Len(new), NEW q \in 1 .. Len(new), p < q
                 PROVE  new[p] < new[q]
      OBVIOUS
    <3>1. p \in 1 .. Len(acc)
      BY <2>1, <1>0
    <3>2. new[p] = acc[p] /\ acc[p] < n
      BY <3>1, <2>2 DEF Accepted
    <3>3. CASE q \in 1 .. Len(acc)
      BY <3>1, <3>2, <3>3, <2>2 DEF Accepted
    <3>4. CASE q = Len(acc) + 1
      BY <3>2, <3>4, <2>1
    <3> QED
      BY <2>3, <3>3, <3>4
  <2> QED
    BY <2>4, <2>5 DEF Accepted
<1> QED
  BY <1>2, <1>3

-----------------------------------------------------------------------------
(* Types *)

(* A recv takes at most what has arrived off the front of the stream. *)
LEMMA Consumed ==
  ASSUME stream \in Seq(Cell), arrived \in 0 .. Len(stream), NEW n \in Nat, Consume(n)
  PROVE  \E h \in 0 .. Len(stream) :
           /\ h = Smaller(n, arrived)
           /\ stream' \in Seq(Cell) /\ arrived' \in 0 .. Len(stream')
           /\ Len(stream') = Len(stream) - h
           /\ \A i \in 1 .. Len(stream') : stream'[i] = stream[i + h]
<1>1. PICK h : h = Smaller(n, arrived)
  OBVIOUS
<1>2. /\ h \in Nat /\ h <= arrived
      /\ arrived \in Nat /\ arrived <= Len(stream) /\ Len(stream) \in Nat
  BY <1>1 DEF Smaller
<1>3. stream' = SubSeq(stream, h + 1, Len(stream)) /\ arrived' = arrived - h
  BY <1>1 DEF Consume
<1>4. h \in 0 .. Len(stream)
  BY <1>2
<1>5. /\ stream' \in Seq(Cell) /\ Len(stream') = Len(stream) - h
      /\ \A i \in 1 .. Len(stream') : stream'[i] = stream[i + h]
  BY <1>3, <1>4, Shifted
<1>6. arrived' \in 0 .. Len(stream')
  BY <1>2, <1>3, <1>5
<1> QED
  BY <1>1, <1>4, <1>5, <1>6

(* What a recv returns of the front of the stream *)
LEMMA ReceivedFacts ==
  ASSUME stream \in Seq(Cell), arrived \in 0 .. Len(stream), NEW n \in Nat
  PROVE  /\ Received(n) \in Seq(Cell) /\ Len(Received(n)) = Smaller(n, arrived)
         /\ \A i \in 1 .. Smaller(n, arrived) : Received(n)[i] = stream[i]
<1>1. Smaller(n, arrived) \in 0 .. Len(stream)
  BY DEF Smaller
<1> QED
  BY <1>1, FrontOf DEF Received

(* A buffer holds a message or torn data, and a length is a size. *)
LEMMA ReadTypes ==
  ASSUME NEW cells
  PROVE  Contents(cells) \in Messages \cup {Torn} /\ Lengths(cells) \subseteq Sizes
<1>1. Contents(cells) \in Messages \cup {Torn}
  BY DEF Contents
<1>2. Lengths(cells) \subseteq Sizes
  <2>1. CASE IsHeader(cells)
    <3>1. PICK m \in Messages : cells = Header(m)
      BY <2>1 DEF IsHeader
    <3>2. 1 \in 1 .. HeaderCells
      BY DEF HeaderCells
    <3>3. cells[1] = CellOf(m, 1)
      BY <3>1, <3>2 DEF Header
    <3>4. cells[1].msg = m
      BY <3>3, CellFacts
    <3>5. Size[m] \in Sizes
      BY SizeFacts DEF Sizes
    <3> QED
      BY <2>1, <3>4, <3>5 DEF Lengths
  <2>2. CASE ~IsHeader(cells)
    BY <2>2 DEF Lengths
  <2> QED
    BY <2>1, <2>2
<1> QED
  BY <1>1, <1>2

(* The sizes that are read are numbers. *)
LEMMA SizesAreNumbers == Sizes \subseteq Nat /\ 0 \in Sizes
BY FramingAssumption DEF Sizes

(* Note and Disconnect keep the types of damage and status. *)
LEMMA NoteTypes ==
  ASSUME damage \subseteq Damage, NEW why, why \subseteq Damage, Note(why)
  PROVE  damage' \subseteq Damage
BY DEF Note

(* A reader goes from one program counter to another. *)
LEMMA GotoTypes ==
  ASSUME pc \in [Readers -> PC], NEW r \in Readers, NEW from, NEW to \in PC, Goto(r, from, to)
  PROVE  pc' \in [Readers -> PC]
BY DEF Goto

(* The initial state has the types. *)
LEMMA TypeInit == Init => TypeOK
<1> SUFFICES ASSUME Init PROVE TypeOK
  OBVIOUS
<1>1. Len(Size) \in Nat /\ MaxRaw \in Nat
  BY FramingAssumption
<1>2. stream = <<>> /\ accepted = <<>> /\ got = <<>>
  BY DEF Init
<1>3. /\ stream \in Seq(Cell) /\ accepted \in Seq(Messages) /\ got \in Seq(Messages \cup {Torn})
      /\ Len(stream) = 0
  BY <1>2
<1>4. size \in [Readers -> Sizes] /\ buffer \in [Readers -> Messages \cup {Torn}]
      /\ pc \in [Readers -> PC]
  BY SizesAreNumbers DEF Init, PC
<1>5. next \in 1 .. Len(Size) + 1 /\ raw \in 0 .. MaxRaw
  BY <1>1 DEF Init
<1>6. arrived \in 0 .. Len(stream)
  BY <1>3 DEF Init
<1>7. /\ toServer \in BOOLEAN /\ sender \in {"open", "closed", "reset"}
      /\ status \in {"Connected", "Disconnected"}
      /\ crashed \in BOOLEAN /\ damage \subseteq Damage
  BY DEF Init
<1> QED
  BY <1>3, <1>4, <1>5, <1>6, <1>7 DEF TypeOK

(* Sending keeps the types. *)
LEMMA TypeSend ==
  ASSUME TypeOK, Send \/ SendWithoutLength
  PROVE  TypeOK'
<1>1. CASE Send
  <2>1. PICK k \in SendCounts(next) :
          /\ stream' = stream \o SubSeq(Frame(next), 1, k)
          /\ accepted' = IF k = 0 \/ Size[next] = 0 THEN accepted ELSE Append(accepted, next)
          /\ Note(IF k \in 1 .. FrameCells(next) - 1 THEN {"cut"} ELSE {})
    BY <1>1 DEF Send
  <2>2. next \in Messages /\ next \in Nat /\ FrameCells(next) \in Nat
    BY <1>1, SizeOf DEF Send
  <2>3. k \in 0 .. FrameCells(next)
    BY <2>2 DEF SendCounts
  <2>4. SubSeq(Frame(next), 1, k) \in Seq(Cell)
    BY <2>2, <2>3, FrameFacts, FrontOf
  <2>5. stream' \in Seq(Cell) /\ Len(stream') >= Len(stream)
    <3>1. stream \in Seq(Cell)
      BY DEF TypeOK
    <3>2. /\ stream \o SubSeq(Frame(next), 1, k) \in Seq(Cell)
          /\ Len(stream \o SubSeq(Frame(next), 1, k)) =
               Len(stream) + Len(SubSeq(Frame(next), 1, k))
      BY <2>4, <3>1, ConcatProperties
    <3>3. Len(SubSeq(Frame(next), 1, k)) \in Nat /\ Len(stream) \in Nat
      BY <2>4, <3>1
    <3> QED
      BY <2>1, <3>2, <3>3
  <2>6. accepted' \in Seq(Messages)
    <3>1. accepted \in Seq(Messages)
      BY DEF TypeOK
    <3>2. Append(accepted, next) \in Seq(Messages)
      BY <2>2, <3>1
    <3> QED
      BY <2>1, <3>1, <3>2
  <2>7. damage' \subseteq Damage
    BY <2>1, NoteTypes DEF TypeOK, Damage
  <2>8. next' \in 1 .. Len(Size) + 1
    <3>1. next \in 1 .. Len(Size)
      BY <2>2, SizeFacts
    <3>2. next' = next + 1 /\ Len(Size) \in Nat
      BY <1>1, SizeFacts DEF Send
    <3> QED
      BY <3>1, <3>2
  <2>9. arrived' \in 0 .. Len(stream')
    BY <1>1, <2>5 DEF Send, TypeOK
  <2> QED
    BY <1>1, <2>5, <2>6, <2>7, <2>8, <2>9 DEF Send, readVars, TypeOK
<1>2. CASE SendWithoutLength
  <2>0. PICK text : text = [k \in 1 .. RawCells |-> CellOf(Torn, k)]
    OBVIOUS
  <2>1. text \in Seq(Cell)
    BY <2>0 DEF RawCells, CellOf, Cell
  <2>2. stream' \in Seq(Cell) /\ Len(stream') >= Len(stream)
    <3>1. stream \in Seq(Cell) /\ stream' = stream \o text
      BY <1>2, <2>0 DEF TypeOK, SendWithoutLength
    <3>2. stream \o text \in Seq(Cell) /\ Len(stream \o text) = Len(stream) + Len(text)
      BY <2>1, <3>1, ConcatProperties
    <3>3. Len(text) \in Nat /\ Len(stream) \in Nat
      BY <2>1, <3>1
    <3> QED
      BY <3>1, <3>2, <3>3
  <2>3. damage' \subseteq Damage
    BY <1>2, NoteTypes DEF TypeOK, SendWithoutLength, Damage
  <2>4. raw' \in 0 .. MaxRaw
    BY <1>2, FramingAssumption DEF TypeOK, SendWithoutLength
  <2>5. arrived' \in 0 .. Len(stream')
    <3>1. arrived' = arrived /\ arrived \in 0 .. Len(stream)
      BY <1>2 DEF SendWithoutLength, TypeOK
    <3>2. Len(stream) \in Nat /\ Len(stream') \in Nat
      BY <2>2 DEF TypeOK
    <3> QED
      BY <2>2, <3>1, <3>2
  <2> QED
    BY <1>2, <2>2, <2>3, <2>4, <2>5 DEF SendWithoutLength, readVars, TypeOK
<1> QED
  BY <1>1, <1>2

(* The network, the end of the sender and another thread keep the types. *)
LEMMA TypeOutside ==
  ASSUME TypeOK, Arrive \/ SenderEnds \/ OtherDisconnects
  PROVE  TypeOK'
<1>1. CASE Arrive
  <2>1. arrived' \in 0 .. Len(stream')
    BY <1>1 DEF Arrive, TypeOK
  <2> QED
    BY <1>1, <2>1 DEF Arrive, TypeOK, sendVars, readVars
<1>2. CASE SenderEnds
  <2>1. stream' \in Seq(Cell) /\ arrived' \in 0 .. Len(stream')
    <3>1. CASE UNCHANGED <<stream, arrived>>
      BY <3>1 DEF TypeOK
    <3>2. CASE stream' = <<>> /\ arrived' = 0
      <4>1. stream' \in Seq(Cell) /\ Len(stream') = 0
        BY <3>2
      <4> QED
        BY <4>1, <3>2
    <3> QED
      BY <1>2, <3>1, <3>2 DEF SenderEnds
  <2> QED
    BY <1>2, <2>1 DEF SenderEnds, TypeOK, readVars
<1>3. CASE OtherDisconnects
  <2>1. damage' \subseteq Damage
    BY <1>3, NoteTypes DEF OtherDisconnects, Disconnect, TypeOK, Damage
  <2> QED
    BY <1>3, <2>1 DEF OtherDisconnects, Disconnect, TypeOK, sendVars, readVars
<1> QED
  BY <1>1, <1>2, <1>3

(* The first recv of a reader keeps the types, but for what its caller sets. *)
LEMMA TypeHeader ==
  ASSUME TypeOK, NEW r \in Readers, NEW n, TakeHeader(r, n)
  PROVE  /\ stream' \in Seq(Cell) /\ arrived' \in 0 .. Len(stream')
         /\ size' \in [Readers -> Sizes] /\ damage' \subseteq Damage
         /\ UNCHANGED <<sendVars, buffer, got>>
<1>1. stream \in Seq(Cell) /\ arrived \in 0 .. Len(stream) /\ HeaderCells \in Nat
  BY DEF TypeOK, HeaderCells
<1>2. Consume(HeaderCells)
  BY DEF TakeHeader
<1>3. stream' \in Seq(Cell) /\ arrived' \in 0 .. Len(stream')
  BY <1>1, <1>2, Consumed
<1>4. n \in Sizes
  BY ReadTypes DEF TakeHeader
<1>5. size' \in [Readers -> Sizes]
  <2>1. (IF pc'[r] = "payload" THEN n ELSE 0) \in Sizes
    BY <1>4, SizesAreNumbers
  <2> QED
    BY <2>1 DEF TakeHeader, Sized, TypeOK
<1>6. damage' \subseteq Damage
  <2>1. HeaderDamage(r, Received(HeaderCells)) \subseteq Damage
    BY DEF HeaderDamage, Damage
  <2> QED
    BY <2>1, NoteTypes DEF TakeHeader, TypeOK
<1> QED
  BY <1>3, <1>5, <1>6 DEF TakeHeader

(* The first recv of either reader keeps the types. *)
LEMMA TypeLength ==
  ASSUME TypeOK, ReadLength \/ SyncLength
  PROVE  TypeOK'
<1>0. "chain" \in Readers /\ "sync" \in Readers
  BY DEF Readers
<1>1. PICK r \in Readers, n \in Sizes :
        /\ TakeHeader(r, n)
        /\ \E to \in PC : Goto(r, "idle", to)
        /\ status' \in {"Connected", "Disconnected"} /\ crashed' \in BOOLEAN
  <2>1. CASE ReadLength
    <3>1. PICK n \in Sizes :
            /\ \/ Goto("chain", "idle", IF Skipped(n) THEN "idle" ELSE "payload")
                    /\ UNCHANGED <<status, crashed>>
               \/ NoMemory(n)
            /\ TakeHeader("chain", n)
      BY <2>1 DEF ReadLength
    <3>2. \E to \in PC : Goto("chain", "idle", to)
      <4>1. {"idle", "payload", "ended"} \subseteq PC
        BY DEF PC
      <4> QED
        BY <3>1, <4>1 DEF NoMemory
    <3>3. status' \in {"Connected", "Disconnected"} /\ crashed' \in BOOLEAN
      BY <3>1 DEF NoMemory, TypeOK
    <3> QED
      BY <1>0, <3>1, <3>2, <3>3
  <2>2. CASE SyncLength
    <3>1. PICK n \in Sizes :
            /\ \/ Goto("sync", "idle", "idle") \/ Goto("sync", "idle", "payload")
            /\ TakeHeader("sync", n)
      BY <2>2 DEF SyncLength
    <3>2. "idle" \in PC /\ "payload" \in PC
      BY DEF PC
    <3>3. status' \in {"Connected", "Disconnected"} /\ crashed' \in BOOLEAN
      BY <2>2 DEF SyncLength, TypeOK
    <3> QED
      BY <1>0, <3>1, <3>2, <3>3
  <2> QED
    BY <2>1, <2>2
<1>2. pc' \in [Readers -> PC]
  BY <1>1, GotoTypes DEF TypeOK
<1>3. /\ stream' \in Seq(Cell) /\ arrived' \in 0 .. Len(stream')
      /\ size' \in [Readers -> Sizes] /\ damage' \subseteq Damage
      /\ UNCHANGED <<sendVars, buffer, got>>
  BY <1>1, TypeHeader
<1> QED
  BY <1>1, <1>2, <1>3 DEF TypeOK, sendVars

(* The other steps of the readers keep the types. *)
LEMMA TypeRead ==
  ASSUME TypeOK, ReadEnd \/ ReadFails \/ \E r \in Readers : Finish(r)
  PROVE  TypeOK'
<1>0. {"idle", "hand", "ended"} \subseteq PC /\ "chain" \in Readers
  BY DEF PC, Readers
<1>1. CASE ReadEnd
  <2>1. pc' \in [Readers -> PC]
    BY <1>0, <1>1, GotoTypes DEF ReadEnd, TypeOK
  <2>2. damage' \subseteq Damage
    BY <1>1, NoteTypes DEF ReadEnd, Disconnect, TypeOK, Damage
  <2> QED
    BY <1>1, <2>1, <2>2 DEF ReadEnd, Disconnect, TypeOK, sendVars
<1>2. CASE ReadFails
  <2>1. pc' \in [Readers -> PC]
    BY <1>0, <1>2, GotoTypes DEF ReadFails, TypeOK
  <2>2. damage' \subseteq Damage
    BY <1>2, NoteTypes DEF ReadFails, Disconnect, TypeOK, Damage
  <2>3. size' \in [Readers -> Sizes]
    BY <1>2, SizesAreNumbers DEF ReadFails, Sized, TypeOK
  <2> QED
    BY <1>2, <2>1, <2>2, <2>3 DEF ReadFails, Disconnect, TypeOK, sendVars
<1>3. ASSUME NEW r \in Readers, ReadPayload(r) PROVE TypeOK'
  <2>1. stream \in Seq(Cell) /\ arrived \in 0 .. Len(stream) /\ size[r] \in Nat
    BY SizesAreNumbers DEF TypeOK
  <2>2. stream' \in Seq(Cell) /\ arrived' \in 0 .. Len(stream')
    BY <1>3, <2>1, Consumed DEF ReadPayload
  <2>3. pc' \in [Readers -> PC]
    BY <1>0, <1>3, GotoTypes DEF ReadPayload, TypeOK
  <2>4. damage' \subseteq Damage
    BY <1>3, NoteTypes DEF ReadPayload, TypeOK, Damage
  <2>5. size' \in [Readers -> Sizes]
    BY <1>3, SizesAreNumbers DEF ReadPayload, Sized, TypeOK
  <2>6. buffer' \in [Readers -> Messages \cup {Torn}]
    <3>1. Contents(Received(size[r])) \in Messages \cup {Torn}
      BY ReadTypes
    <3> QED
      BY <1>3, <3>1 DEF ReadPayload, TypeOK
  <2> QED
    BY <1>3, <2>2, <2>3, <2>4, <2>5, <2>6 DEF ReadPayload, TypeOK, sendVars
<1>4. ASSUME NEW r \in Readers, ReadNothing(r) PROVE TypeOK'
  <2>1. pc' \in [Readers -> PC]
    BY <1>0, <1>4, GotoTypes DEF ReadNothing, TypeOK
  <2>2. damage' \subseteq Damage
    BY <1>4, NoteTypes DEF ReadNothing, TypeOK, Damage
  <2>3. size' \in [Readers -> Sizes]
    BY <1>4, SizesAreNumbers DEF ReadNothing, Sized, TypeOK
  <2>4. buffer' \in [Readers -> Messages \cup {Torn}]
    BY <1>4 DEF ReadNothing, TypeOK
  <2> QED
    BY <1>4, <2>1, <2>2, <2>3, <2>4 DEF ReadNothing, TypeOK, sendVars
<1>5. ASSUME NEW r \in Readers, Hand(r) PROVE TypeOK'
  <2>1. pc' \in [Readers -> PC]
    BY <1>0, <1>5, GotoTypes DEF Hand, HandsOn, TypeOK
  <2>2. buffer' \in [Readers -> Messages \cup {Torn}]
    BY <1>5 DEF Hand, HandsOn, TypeOK
  <2>3. got' \in Seq(Messages \cup {Torn})
    <3>1. got \in Seq(Messages \cup {Torn}) /\ buffer[r] \in Messages \cup {Torn}
      BY DEF TypeOK
    <3> QED
      BY <1>5, <3>1 DEF Hand, HandsOn
  <2> QED
    BY <1>5, <2>1, <2>2, <2>3 DEF Hand, HandsOn, TypeOK, sendVars
<1> QED
  BY <1>1, <1>2, <1>3, <1>4, <1>5 DEF Finish

(* Every step keeps the types. *)
LEMMA TypeStep == TypeOK /\ [Next]_vars => TypeOK'
<1> SUFFICES ASSUME TypeOK, [Next]_vars PROVE TypeOK'
  OBVIOUS
<1>1. CASE UNCHANGED vars
  BY <1>1 DEF vars, sendVars, readVars, TypeOK
<1>2. CASE Next
  <2>1. CASE Send \/ SendWithoutLength
    BY <2>1, TypeSend
  <2>2. CASE Arrive \/ SenderEnds \/ OtherDisconnects
    BY <2>2, TypeOutside
  <2>3. CASE LoadData \/ LoadDataSync
    <3>1. "chain" \in Readers /\ "sync" \in Readers
      BY DEF Readers
    <3> QED
      BY <2>3, <3>1, TypeLength, TypeRead DEF LoadData, LoadDataSync
  <2> QED
    BY <1>2, <2>1, <2>2, <2>3 DEF Next
<1> QED
  BY <1>1, <1>2

(***************************************************************************)
(* Both directions of the protocol keep to their types: in particular the  *)
(* receiver has never more than was sent, and every buffer holds a whole   *)
(* message or torn data.                                                   *)
(***************************************************************************)
THEOREM Types == Spec => []TypeOK
<1>1. Init => TypeOK
  BY TypeInit
<1>2. TypeOK /\ [Next]_vars => TypeOK'
  BY TypeStep
<1> QED
  BY <1>1, <1>2, PTL DEF Spec

-----------------------------------------------------------------------------
(* What the invariant gives in a step that leaves damage empty *)

(* Nothing is noted in such a step. *)
LEMMA Unnoted ==
  ASSUME NEW why, Note(why), damage' = {}
  PROVE  damage = {} /\ why = {}
BY DEF Note

(* Of a reader that moves, and the other that is idle *)
LEMMA ReaderMoves ==
  ASSUME TypeOK, ReadersOK, NEW r \in Readers, NEW from, NEW to \in {"idle", "payload", "hand"},
         Goto(r, from, to),
         from # "idle" \/ \A o \in Readers \ {r} : pc[o] = "idle"
  PROVE  /\ \A o \in Readers \ {r} : pc[o] = "idle" /\ pc'[o] = "idle"
         /\ pc[r] = from /\ pc'[r] = to /\ \A o \in Readers : pc'[o] # "ended"
         /\ \A o, p \in Readers : pc'[o] # "idle" /\ pc'[p] # "idle" => o = p
         /\ Payloads' <=> to = "payload"
         /\ Hands' <=> to = "hand"
<1>1. \A o \in Readers \ {r} : pc[o] = "idle"
  BY DEF ReadersOK, Busy, Goto
<1>2. pc \in [Readers -> PC] /\ pc[r] = from /\ pc' = [pc EXCEPT ![r] = to]
  BY DEF Goto, TypeOK
<1>3. pc'[r] = to /\ \A o \in Readers \ {r} : pc'[o] = pc[o]
  BY <1>2
<1>4. \A o \in Readers : o = r \/ pc'[o] = "idle"
  BY <1>1, <1>3
<1>5. Payloads' <=> to = "payload"
  BY <1>3, <1>4 DEF Payloads
<1>6. Hands' <=> to = "hand"
  BY <1>3, <1>4 DEF Hands
<1> QED
  BY <1>1, <1>2, <1>3, <1>4, <1>5, <1>6

(* A message is taken when it is handed out, or about to be. *)
LEMMA TakenFacts ==
  ASSUME TypeOK, HandedOK
  PROVE  /\ Len(got) \in Nat /\ Len(accepted) \in Nat
         /\ Taken \in Nat /\ Taken <= Len(accepted)
         /\ Taken = IF Hands THEN Len(got) + 1 ELSE Len(got)
<1>1. Len(got) \in Nat /\ Len(accepted) \in Nat
  BY DEF TypeOK
<1>2. Len(got) <= Len(accepted) /\ (Hands => Len(got) < Len(accepted))
  BY DEF HandedOK, Prefix, Hands
<1>3. CASE Hands
  BY <1>1, <1>2, <1>3 DEF Taken
<1>4. CASE ~Hands
  BY <1>1, <1>2, <1>4 DEF Taken
<1> QED
  BY <1>3, <1>4

(* Initially nothing is sent. *)
LEMMA FlowInit == Init => FlowInv
<1> SUFFICES ASSUME Init PROVE FlowInv
  OBVIOUS
<1>1. Len(stream) = 0 /\ Len(got) = 0 /\ Len(accepted) = 0
  BY DEF Init
<1>2. \A r \in Readers : pc[r] = "idle"
  BY DEF Init
<1>3. ReadersOK
  BY <1>2 DEF ReadersOK, Busy, Payloads
<1>4. HandedOK
  BY <1>1, <1>2 DEF HandedOK, Prefix
<1>5. Accepted(accepted, next)
  BY <1>1 DEF Accepted
<1>6. CellsOf(stream, next) /\ InOrder(stream) /\ Rest(stream) /\ Start(stream, Payloads)
  BY <1>1 DEF CellsOf, InOrder, Rest, Start
<1>7. PayloadOK
  BY <1>2 DEF PayloadOK
<1>8. Pending(stream, accepted, Taken)
  BY <1>1 DEF Pending
<1>9. ~crashed
  BY DEF Init
<1> QED
  BY <1>1, <1>3, <1>4, <1>5, <1>6, <1>7, <1>8, <1>9 DEF FlowInv, Undamaged, StreamOK

-----------------------------------------------------------------------------
(* The steps outside the readers *)

(* Nothing of the invariant changes with the variables it leaves out. *)
LEMMA FlowSame ==
  ASSUME Undamaged,
         UNCHANGED <<accepted, next, stream, status, pc, size, buffer, got, crashed>>,
         sender' = "reset" \/ (sender # "reset" /\ sender' # "reset")
  PROVE  Undamaged'
<1>1. Accepted(accepted, next)' /\ ReadersOK' /\ HandedOK' /\ ~crashed'
  BY DEF Undamaged, Accepted, ReadersOK, Busy, Payloads, HandedOK, Prefix
<1>2. StreamOK => StreamOK'
  BY DEF StreamOK, CellsOf, InOrder, Rest, Start, PayloadOK, Pending, Payloads, Taken, Hands,
         Before
<1> QED
  BY <1>1, <1>2 DEF Undamaged

(* Once disconnected, or reset, nothing is said of the stream. *)
LEMMA FlowClosed ==
  ASSUME Undamaged, ~crashed', UNCHANGED <<accepted, next>>, ReadersOK', HandedOK',
         status' # "Connected" \/ sender' = "reset"
  PROVE  Undamaged'
<1>1. Accepted(accepted, next)'
  BY DEF Undamaged, Accepted
<1> QED
  BY <1>1 DEF Undamaged

(* Arrivals and the end of the sender *)
LEMMA FlowOutside ==
  ASSUME TypeOK, FlowInv, Arrive \/ SenderEnds \/ OtherDisconnects, damage' = {}
  PROVE  Undamaged'
<1>1. CASE Arrive
  <2>1. Undamaged
    BY <1>1 DEF FlowInv, Arrive
  <2>2. UNCHANGED <<accepted, next, stream, status, pc, size, buffer, got, crashed, sender>>
    BY <1>1 DEF Arrive, sendVars, readVars
  <2> QED
    BY <2>1, <2>2, FlowSame
<1>2. CASE SenderEnds
  <2>1. Undamaged /\ sender = "open"
    BY <1>2 DEF FlowInv, SenderEnds
  <2>2. UNCHANGED <<accepted, next, status, pc, size, buffer, got, crashed>>
    BY <1>2 DEF SenderEnds, readVars
  <2>3. CASE sender' = "closed" /\ stream' = stream
    BY <2>1, <2>2, <2>3, FlowSame
  <2>4. CASE sender' = "reset"
    <3>1. ReadersOK' /\ HandedOK' /\ ~crashed'
      BY <2>1, <2>2 DEF Undamaged, ReadersOK, Busy, Payloads, HandedOK, Prefix
    <3> QED
      BY <2>1, <2>2, <2>4, <3>1, FlowClosed
  <2> QED
    BY <1>2, <2>3, <2>4 DEF SenderEnds
<1>3. CASE OtherDisconnects
  <2>1. damage = {} /\ ~Payloads
    BY <1>3, Unnoted DEF OtherDisconnects, Disconnect, Payloads
  <2>2. Undamaged
    BY <2>1 DEF FlowInv
  <2>3. UNCHANGED <<accepted, next, pc, buffer, got, crashed>> /\ status' = "Disconnected"
    BY <1>3 DEF OtherDisconnects, Disconnect, sendVars, readVars
  <2>4. ReadersOK' /\ HandedOK' /\ ~crashed'
    BY <2>1, <2>2, <2>3 DEF Undamaged, ReadersOK, Busy, Payloads, HandedOK, Prefix
  <2> QED
    BY <2>2, <2>3, <2>4, FlowClosed
<1> QED
  BY <1>1, <1>2, <1>3

(* SendData sends a whole frame, or nothing. *)
LEMMA FlowSend ==
  ASSUME TypeOK, FlowInv, Send, damage' = {}
  PROVE  Undamaged'
<1>1. PICK k \in SendCounts(next) :
        /\ stream' = stream \o SubSeq(Frame(next), 1, k)
        /\ accepted' = IF k = 0 \/ Size[next] = 0 THEN accepted ELSE Append(accepted, next)
        /\ Note(IF k \in 1 .. FrameCells(next) - 1 THEN {"cut"} ELSE {})
  BY DEF Send
<1>2. next \in Messages /\ next \in Nat /\ FrameCells(next) \in Nat
  BY SizeOf DEF Send
<1>3. k = 0 \/ k = FrameCells(next)
  <2>1. k \in 0 .. FrameCells(next)
    BY <1>2 DEF SendCounts
  <2>2. ~(k \in 1 .. FrameCells(next) - 1)
    BY <1>1, Unnoted
  <2> QED
    BY <1>2, <2>1, <2>2
<1>4. damage = {}
  BY <1>1, Unnoted
<1>5. Undamaged
  BY <1>4 DEF FlowInv
<1>6. /\ UNCHANGED <<status, sender, pc, size, buffer, got, crashed>>
      /\ next' = next + 1
  BY DEF Send, readVars
<1>7. accepted \in Seq(Messages) /\ stream \in Seq(Cell) /\ Len(accepted) \in Nat
  BY DEF TypeOK
<1>8. Accepted(accepted', next + 1)
  <2>1. Accepted(accepted, next)
    BY <1>5 DEF Undamaged
  <2>2. accepted' = accepted \/ (Size[next] # 0 /\ accepted' = Append(accepted, next))
    BY <1>1
  <2> QED
    BY <1>2, <1>7, <2>1, <2>2, AcceptedAdded
<1>9. ReadersOK' /\ ~crashed'
  BY <1>5, <1>6 DEF Undamaged, ReadersOK, Busy, Payloads
<1>10. /\ Len(accepted') >= Len(accepted)
       /\ \A q \in 1 .. Len(accepted) : accepted'[q] = accepted[q]
  BY <1>1, <1>2, <1>7
<1>11. HandedOK'
  <2>1. HandedOK /\ Len(got) \in Nat /\ Len(accepted') \in Nat
    BY <1>1, <1>2, <1>5, <1>7 DEF Undamaged, TypeOK
  <2>2. Prefix(got, accepted')
    <3>1. Len(got) <= Len(accepted) /\ \A q \in 1 .. Len(got) : got[q] = accepted[q]
      BY <2>1 DEF HandedOK, Prefix
    <3> QED
      BY <1>7, <1>10, <2>1, <3>1 DEF Prefix
  <2>3. ASSUME NEW r \in Readers, pc[r] = "hand"
        PROVE  Len(got) < Len(accepted') /\ buffer[r] = accepted'[Len(got) + 1]
    <3>1. Len(got) < Len(accepted) /\ buffer[r] = accepted[Len(got) + 1]
      BY <2>1, <2>3 DEF HandedOK
    <3>2. Len(got) + 1 \in 1 .. Len(accepted)
      BY <1>7, <2>1, <3>1
    <3> QED
      BY <1>7, <1>10, <2>1, <3>1, <3>2
  <2>4. got' = got /\ buffer' = buffer /\ pc' = pc
    BY <1>6
  <2>5. Prefix(got, accepted)'
    BY <2>2, <2>4 DEF Prefix
  <2> QED
    BY <2>3, <2>4, <2>5 DEF HandedOK
<1>12. ASSUME status = "Connected", sender # "reset" PROVE StreamOK'
  <2>1. StreamOK /\ HandedOK
    BY <1>5, <1>12 DEF Undamaged
  <2>2. Taken \in Nat /\ Taken <= Len(accepted)
    BY <2>1, TakenFacts
  <2>3. Payloads' = Payloads /\ Taken' = Taken /\ Payloads \in BOOLEAN
    BY <1>6 DEF Payloads, Taken, Hands
  <2>4. /\ CellsOf(stream, next) /\ InOrder(stream) /\ Rest(stream)
        /\ Start(stream, Payloads) /\ Pending(stream, accepted, Taken)
    BY <2>1 DEF StreamOK
  <2>5. /\ CellsOf(stream', next + 1) /\ InOrder(stream') /\ Rest(stream')
        /\ Start(stream', Payloads) /\ Pending(stream', accepted', Taken)
        /\ Len(stream) > 0 => Len(stream') > 0 /\ stream'[1] = stream[1]
    <3>1. CASE k = 0
      <4>1. SubSeq(Frame(next), 1, k) = <<>>
        BY <3>1, SubSeqEmpty
      <4>2. stream' = stream /\ accepted' = accepted
        BY <1>1, <1>7, <3>1, <4>1, ConcatEmptySeq
      <4>3. CellsOf(stream, next + 1)
        BY <1>2, <2>4, SizeFacts DEF CellsOf
      <4> QED
        BY <2>4, <4>2, <4>3
    <3>2. CASE k = FrameCells(next)
      <4>1. Frame(next) \in Seq(Cell) /\ Len(Frame(next)) = k
        BY <1>2, <3>2, FrameFacts
      <4>2. stream' = stream \o Frame(next)
        BY <1>1, <4>1, SubSeqFull
      <4>3. /\ stream' \in Seq(Cell)
            /\ Len(stream') = Len(stream) + FrameCells(next)
            /\ \A i \in 1 .. Len(stream) : stream'[i] = stream[i]
            /\ \A i \in 1 .. FrameCells(next) : stream'[Len(stream) + i] = CellOf(next, i)
        BY <1>2, <1>7, <4>2, FrameBehind
      <4>4. CellsOf(stream', next + 1) /\ InOrder(stream') /\ Rest(stream')
            /\ Start(stream', Payloads)
        BY <1>2, <1>7, <2>3, <2>4, <4>3, FrameAdded
      <4>5. accepted' = IF Size[next] = 0 THEN accepted ELSE Append(accepted, next)
        <5>1. k # 0
          BY <1>2, <3>2, SizeOf
        <5> QED
          BY <1>1, <5>1
      <4>6. Pending(stream', accepted', Taken)
        BY <1>2, <1>7, <2>2, <2>4, <4>3, <4>5, PendingAdded
      <4>7. Len(stream) > 0 => Len(stream') > 0 /\ stream'[1] = stream[1]
        <5>1. Len(stream) \in Nat
          BY <1>7
        <5> QED
          BY <1>2, <4>3, <5>1
      <4> QED
        BY <4>4, <4>6, <4>7
    <3> QED
      BY <1>3, <3>1, <3>2
  <2>6. PayloadOK'
    <3> SUFFICES ASSUME NEW r \in Readers, pc'[r] = "payload"
                 PROVE  /\ Len(stream') > 0 /\ stream'[1].at = HeaderCells + 1
                        /\ size'[r] = Size[stream'[1].msg]
      BY DEF PayloadOK
    <3>1. Len(stream) > 0 /\ stream[1].at = HeaderCells + 1 /\ size[r] = Size[stream[1].msg]
      BY <1>6, <2>1 DEF StreamOK, PayloadOK
    <3> QED
      BY <1>6, <2>5, <3>1
  <2>7. Start(stream, Payloads)' /\ Pending(stream, accepted, Taken)'
    BY <2>3, <2>5 DEF Start, Pending
  <2>8. CellsOf(stream, next)' /\ InOrder(stream)' /\ Rest(stream)'
    BY <1>6, <2>5 DEF CellsOf, InOrder, Rest, Before
  <2> QED
    BY <2>6, <2>7, <2>8 DEF StreamOK
<1>13. Accepted(accepted, next)'
  BY <1>6, <1>8 DEF Accepted
<1> QED
  BY <1>6, <1>9, <1>11, <1>12, <1>13 DEF Undamaged

-----------------------------------------------------------------------------
(* The steps of the readers *)

(* An undamaged stream of a connection that is open is in order. *)
LEMMA StreamThere ==
  ASSUME TypeOK, FlowInv, damage = {}, arrived > 0, status = "Connected"
  PROVE  StreamOK /\ sender # "reset" /\ Len(stream) > 0
<1>1. Len(stream) > 0
  BY DEF TypeOK
<1>2. sender # "reset"
  BY <1>1 DEF FlowInv
<1> QED
  BY <1>1, <1>2 DEF FlowInv, Undamaged

(* The header that an undamaged first recv takes is that of the first      *)
(* message, and all of it.                                                 *)
LEMMA WholeHeader ==
  ASSUME TypeOK, FlowInv, damage' = {}, NEW r \in Readers, NEW n, TakeHeader(r, n),
         pc[r] = "idle"
  PROVE  /\ damage = {} /\ status = "Connected" /\ StreamOK
         /\ \A o \in Readers : pc[o] = "idle"
         /\ Len(stream) > 0 /\ arrived >= HeaderCells
         /\ stream[1].msg \in Messages /\ n = Size[stream[1].msg]
<1> DEFINE cells == Received(HeaderCells)
<1>1. damage = {} /\ HeaderDamage(r, cells) = {}
  BY Unnoted DEF TakeHeader
<1>2. IsHeader(cells) /\ status # "Disconnected" /\ \A o \in Readers \ {r} : pc[o] = "idle"
  BY <1>1 DEF HeaderDamage
<1>3. status = "Connected" /\ \A o \in Readers : pc[o] = "idle"
  BY <1>2 DEF TypeOK
<1>4. arrived > 0
  BY DEF TakeHeader
<1>5. StreamOK /\ Len(stream) > 0
  BY <1>1, <1>3, <1>4, StreamThere
<1>6. PICK m \in Messages : cells = Header(m)
  BY <1>2 DEF IsHeader
<1>7. /\ stream \in Seq(Cell) /\ arrived \in 0 .. Len(stream) /\ arrived \in Nat
      /\ HeaderCells \in Nat /\ HeaderCells = 2
  BY DEF TypeOK, HeaderCells
<1>8. /\ cells \in Seq(Cell) /\ Len(cells) = Smaller(HeaderCells, arrived)
      /\ \A i \in 1 .. Smaller(HeaderCells, arrived) : cells[i] = stream[i]
  BY <1>7, ReceivedFacts
<1>9. Len(cells) = HeaderCells
  <2>1. Header(m) = [k \in 1 .. HeaderCells |-> CellOf(m, k)]
    BY DEF Header
  <2>2. DOMAIN cells = 1 .. HeaderCells
    BY <1>6, <2>1
  <2>3. DOMAIN cells = 1 .. Len(cells) /\ Len(cells) \in Nat
    BY <1>8
  <2> QED
    BY <2>2, <2>3, <1>7
<1>10. arrived >= HeaderCells
  <2>1. Smaller(HeaderCells, arrived) = HeaderCells
    BY <1>8, <1>9
  <2>2. arrived \in Nat /\ HeaderCells = 2
    BY <1>7
  <2> QED
    BY <2>1, <2>2 DEF Smaller
<1>11. cells[1] = stream[1] /\ cells[1] = CellOf(m, 1)
  <2>1. 1 \in 1 .. HeaderCells /\ Smaller(HeaderCells, arrived) = HeaderCells
    BY <1>7, <1>8, <1>9
  <2> QED
    BY <1>6, <1>8, <2>1 DEF Header
<1>12. cells[1].msg = m /\ stream[1].msg = m
  BY <1>11, CellFacts
<1>13. n = Size[m]
  <2>1. n \in Lengths(cells)
    BY DEF TakeHeader
  <2> QED
    BY <1>2, <1>12, <2>1 DEF Lengths
<1> QED
  BY <1>1, <1>3, <1>5, <1>10, <1>12, <1>13

(* What is behind a whole header *)
LEMMA HeaderStream ==
  ASSUME TypeOK, StreamOK, \A o \in Readers : pc[o] = "idle",
         Len(stream) > 0, arrived >= HeaderCells, Consume(HeaderCells)
  PROVE  /\ stream' \in Seq(Cell)
         /\ CellsOf(stream', next) /\ InOrder(stream') /\ Rest(stream')
         /\ Start(stream', Size[stream[1].msg] > 0) /\ Pending(stream', accepted, Taken)
         /\ Size[stream[1].msg] > 0 =>
              Len(stream') > 0 /\ stream'[1] = CellOf(stream[1].msg, HeaderCells + 1)
<1>1. /\ stream \in Seq(Cell) /\ arrived \in 0 .. Len(stream) /\ accepted \in Seq(Messages)
      /\ HeaderCells \in Nat /\ next \in Nat
  BY FramingAssumption DEF TypeOK, HeaderCells
<1>2. PICK h \in 0 .. Len(stream) :
        /\ h = Smaller(HeaderCells, arrived)
        /\ stream' \in Seq(Cell) /\ Len(stream') = Len(stream) - h
        /\ \A i \in 1 .. Len(stream') : stream'[i] = stream[i + h]
  BY <1>1, Consumed
<1>3. h = HeaderCells
  BY <1>1, <1>2 DEF Smaller
<1>4. /\ CellsOf(stream, next) /\ InOrder(stream) /\ Rest(stream)
      /\ Start(stream, Payloads) /\ Pending(stream, accepted, Taken)
  BY DEF StreamOK
<1>5. Start(stream, FALSE)
  BY <1>4 DEF Payloads, Start
<1>6. CellsOf(stream', next) /\ InOrder(stream') /\ Rest(stream')
  BY <1>1, <1>2, <1>4, ShiftKept
<1>7. /\ Len(stream') = Len(stream) - HeaderCells
      /\ \A i \in 1 .. Len(stream') : stream'[i] = stream[i + HeaderCells]
  BY <1>2, <1>3
<1>8. /\ stream[1].msg \in Messages /\ Len(stream) >= HeaderCells
      /\ \A k \in 1 .. HeaderCells : stream[k] = CellOf(stream[1].msg, k)
      /\ Start(stream', Size[stream[1].msg] > 0)
      /\ Size[stream[1].msg] > 0 =>
           Len(stream') > 0 /\ stream'[1] = CellOf(stream[1].msg, HeaderCells + 1)
  BY <1>1, <1>2, <1>4, <1>5, <1>7, HeaderTaken
<1>9. Pending(stream', accepted, Taken)
  <2>1. Taken \in Nat
    BY DEF Taken, TypeOK
  <2>2. \A k \in 1 .. HeaderCells : stream[k].at = k
    BY <1>8, CellFacts
  <2> QED
    BY <1>1, <1>2, <1>4, <1>7, <1>8, <2>1, <2>2, HeaderPending
<1> QED
  BY <1>2, <1>6, <1>8, <1>9

(* A reader has taken a whole header, and goes on to the payload if there  *)
(* is one.                                                                 *)
LEMMA FlowHeader ==
  ASSUME TypeOK, FlowInv, damage' = {}, NEW r \in Readers, NEW n, TakeHeader(r, n),
         Goto(r, "idle", IF n = 0 THEN "idle" ELSE "payload"), UNCHANGED <<status, crashed>>
  PROVE  Undamaged'
<1>0. pc[r] = "idle"
  BY DEF Goto
<1>1. /\ damage = {} /\ status = "Connected" /\ StreamOK
      /\ \A o \in Readers : pc[o] = "idle"
      /\ Len(stream) > 0 /\ arrived >= HeaderCells
      /\ stream[1].msg \in Messages /\ n = Size[stream[1].msg]
  BY <1>0, WholeHeader
<1>2. Undamaged
  BY <1>1 DEF FlowInv
<1>3. Consume(HeaderCells)
  BY DEF TakeHeader
<1>4. /\ CellsOf(stream', next) /\ InOrder(stream') /\ Rest(stream')
      /\ Start(stream', n > 0) /\ Pending(stream', accepted, Taken)
      /\ n > 0 => Len(stream') > 0 /\ stream'[1] = CellOf(stream[1].msg, HeaderCells + 1)
  BY <1>1, <1>3, HeaderStream
<1>5. n \in Nat
  BY <1>1, SizeOf
<1> DEFINE to == IF n = 0 THEN "idle" ELSE "payload"
<1>6. /\ \A o \in Readers \ {r} : pc'[o] = "idle"
      /\ pc'[r] = to /\ \A o \in Readers : pc'[o] # "ended"
      /\ \A o, p \in Readers : pc'[o] # "idle" /\ pc'[p] # "idle" => o = p
      /\ Payloads' <=> to = "payload"
      /\ Hands' <=> to = "hand"
  <2>1. to \in {"idle", "payload", "hand"} /\ ReadersOK
    BY <1>2 DEF Undamaged
  <2>2. Goto(r, "idle", to)
    OBVIOUS
  <2>3. \A o \in Readers \ {r} : pc[o] = "idle"
    BY <1>1
  <2> HIDE DEF to
  <2> QED
    BY <2>1, <2>2, <2>3, ReaderMoves
<1>7. UNCHANGED <<accepted, next, sender, got, buffer, status, crashed>>
  BY DEF TakeHeader, sendVars
<1>8. Payloads' = (n > 0) /\ ~Hands'
  <2>1. to = "payload" <=> n > 0
    BY <1>5
  <2>2. to # "hand"
    OBVIOUS
  <2> HIDE DEF to
  <2>3. Payloads' \in BOOLEAN /\ (n > 0) \in BOOLEAN
    BY DEF Payloads
  <2> QED
    BY <1>6, <2>1, <2>2, <2>3
<1>9. ReadersOK'
  BY <1>1, <1>6, <1>7 DEF ReadersOK, Busy
<1>10. ~Hands
  BY <1>1 DEF Hands
<1>11. HandedOK'
  <2>1. \A o \in Readers : pc'[o] # "hand"
    BY <1>8 DEF Hands
  <2>2. Prefix(got, accepted)
    BY <1>2 DEF Undamaged, HandedOK
  <2> QED
    BY <1>7, <2>1, <2>2 DEF HandedOK, Prefix
<1>12. Taken' = Taken
  BY <1>7, <1>8, <1>10 DEF Taken
<1>13. PayloadOK'
  <2> SUFFICES ASSUME NEW o \in Readers, pc'[o] = "payload"
               PROVE  /\ Len(stream') > 0 /\ stream'[1].at = HeaderCells + 1
                      /\ size'[o] = Size[stream'[1].msg]
    BY DEF PayloadOK
  <2>1. o = r
    BY <1>6
  <2>2. n > 0
    BY <1>8 DEF Payloads
  <2>3. size'[r] = n
    <3>1. size' = [size EXCEPT ![r] = IF pc'[r] = "payload" THEN n ELSE 0]
      BY DEF TakeHeader, Sized
    <3> QED
      BY <2>1, <3>1 DEF TypeOK
  <2>4. stream'[1].at = HeaderCells + 1 /\ stream'[1].msg = stream[1].msg
    BY <1>4, <2>2, CellFacts
  <2> QED
    BY <1>1, <1>4, <2>1, <2>2, <2>3, <2>4
<1>14. Start(stream, Payloads)' /\ Pending(stream, accepted, Taken)'
  BY <1>4, <1>7, <1>8, <1>12 DEF Start, Pending
<1>15. CellsOf(stream, next)' /\ InOrder(stream)' /\ Rest(stream)'
  BY <1>4, <1>7 DEF CellsOf, InOrder, Rest, Before
<1>16. StreamOK'
  BY <1>13, <1>14, <1>15 DEF StreamOK
<1>17. Accepted(accepted, next)' /\ ~crashed'
  BY <1>2, <1>7 DEF Undamaged, Accepted
<1> QED
  BY <1>9, <1>11, <1>16, <1>17 DEF Undamaged

(* The first recv of either reader *)
LEMMA FlowLength ==
  ASSUME TypeOK, FlowInv, ReadLength \/ SyncLength, damage' = {}
  PROVE  Undamaged'
<1>0. "chain" \in Readers /\ "sync" \in Readers
  BY DEF Readers
<1>1. CASE ReadLength
  <2>1. PICK n \in Sizes :
          /\ \/ Goto("chain", "idle", IF Skipped(n) THEN "idle" ELSE "payload")
                  /\ UNCHANGED <<status, crashed>>
             \/ NoMemory(n)
          /\ TakeHeader("chain", n)
    BY <1>1 DEF ReadLength
  <2>2. pc["chain"] = "idle"
    BY <2>1 DEF Goto, NoMemory
  <2>3. stream[1].msg \in Messages /\ n = Size[stream[1].msg]
    BY <1>0, <2>1, <2>2, WholeHeader
  <2>4. n # Huge
    <3>1. n \in 0 .. MaxSize
      BY <2>3, SizeFacts
    <3> QED
      BY <3>1, FramingAssumption
  <2>5. /\ Goto("chain", "idle", IF n = 0 THEN "idle" ELSE "payload")
        /\ UNCHANGED <<status, crashed>>
    BY <2>1, <2>4 DEF NoMemory, Skipped
  <2> QED
    BY <1>0, <2>1, <2>5, FlowHeader
<1>2. CASE SyncLength
  <2>1. PICK n \in Sizes :
          /\ \/ Goto("sync", "idle", "idle") /\ (n \in {0, Huge} \/ arrived < HeaderCells)
             \/ Goto("sync", "idle", "payload") /\ n # 0 /\ arrived >= HeaderCells
          /\ TakeHeader("sync", n)
    BY <1>2 DEF SyncLength
  <2>2. pc["sync"] = "idle"
    BY <2>1 DEF Goto
  <2>3. stream[1].msg \in Messages /\ n = Size[stream[1].msg] /\ arrived >= HeaderCells
    BY <1>0, <2>1, <2>2, WholeHeader
  <2>4. n # Huge
    <3>1. n \in 0 .. MaxSize
      BY <2>3, SizeFacts
    <3> QED
      BY <3>1, FramingAssumption
  <2>5. ~(arrived < HeaderCells)
    BY <2>3 DEF TypeOK, HeaderCells
  <2>6. /\ Goto("sync", "idle", IF n = 0 THEN "idle" ELSE "payload")
        /\ UNCHANGED <<status, crashed>>
    BY <1>2, <2>1, <2>4, <2>5 DEF SyncLength
  <2> QED
    BY <1>0, <2>1, <2>6, FlowHeader
<1> QED
  BY <1>1, <1>2

(* A buffer that was filled with a payload holds that message. *)
LEMMA ContentsOf ==
  ASSUME NEW m \in Messages, Size[m] > 0, NEW cells, cells = Payload(m)
  PROVE  Contents(cells) = m
<1>1. ASSUME NEW o \in Messages, cells = Payload(o) PROVE o = m
  <2>1. Size[m] \in Nat /\ Size[o] \in Nat
    BY SizeOf
  <2>2. 1 \in DOMAIN cells /\ cells[1] = CellOf(m, HeaderCells + 1)
    BY <2>1 DEF Payload
  <2>3. 1 \in 1 .. Size[o] /\ cells[1] = CellOf(o, HeaderCells + 1)
    BY <1>1, <2>1, <2>2 DEF Payload
  <2> QED
    BY <2>2, <2>3, CellFacts
<1> QED
  BY <1>1 DEF Contents

(* The second recv of an undamaged frame returns the payload of the first  *)
(* message that no reader has taken yet.                                   *)
LEMMA PayloadStream ==
  ASSUME TypeOK, Undamaged, StreamOK, NEW r \in Readers, pc[r] = "payload", ~Hands,
         size[r] <= arrived, Consume(size[r])
  PROVE  /\ stream' \in Seq(Cell)
         /\ CellsOf(stream', next) /\ InOrder(stream') /\ Rest(stream')
         /\ Start(stream', FALSE) /\ Pending(stream', accepted, Len(got) + 1)
         /\ Len(got) < Len(accepted)
         /\ Contents(Received(size[r])) = accepted[Len(got) + 1]
<1>1. /\ stream \in Seq(Cell) /\ arrived \in 0 .. Len(stream) /\ accepted \in Seq(Messages)
      /\ next \in Nat /\ size[r] \in Nat /\ Len(got) \in Nat
  <2>1. next \in Nat
    BY SizeFacts DEF TypeOK
  <2>2. size[r] \in Nat
    BY SizesAreNumbers DEF TypeOK
  <2>3. stream \in Seq(Cell) /\ arrived \in 0 .. Len(stream) /\ accepted \in Seq(Messages)
    BY DEF TypeOK
  <2>4. Len(got) \in Nat
    BY DEF TypeOK
  <2> QED
    BY <2>1, <2>2, <2>3, <2>4
<1>2. /\ CellsOf(stream, next) /\ InOrder(stream) /\ Rest(stream)
      /\ Start(stream, Payloads) /\ Pending(stream, accepted, Taken)
      /\ Accepted(accepted, next)
  BY DEF StreamOK, Undamaged
<1>3. Len(stream) > 0 /\ stream[1].at = HeaderCells + 1 /\ size[r] = Size[stream[1].msg]
  BY DEF StreamOK, PayloadOK
<1>4. Start(stream, TRUE) /\ Pending(stream, accepted, Len(got))
  BY <1>2 DEF Start, Payloads, Taken
<1>5. PICK h \in 0 .. Len(stream) :
        /\ h = Smaller(size[r], arrived)
        /\ stream' \in Seq(Cell) /\ Len(stream') = Len(stream) - h
        /\ \A i \in 1 .. Len(stream') : stream'[i] = stream[i + h]
  BY <1>1, Consumed
<1>6. h = size[r]
  BY <1>1, <1>5 DEF Smaller
<1>7. PICK m : m = stream[1].msg
  OBVIOUS
<1>8. /\ m \in Messages /\ h \in Nat \ {0} /\ h <= Len(stream) /\ h = Size[m]
      /\ \A k \in 1 .. h : k \in 1 .. Len(stream) /\ stream[k] = CellOf(m, HeaderCells + k)
      /\ \A i \in 1 .. Len(stream) : i > h => stream[i].msg > m
  BY <1>1, <1>2, <1>3, <1>6, <1>7, PayloadFront
<1>9. CellsOf(stream', next) /\ InOrder(stream') /\ Rest(stream')
  BY <1>1, <1>2, <1>5, ShiftKept
<1>10. /\ Len(got) < Len(accepted) /\ accepted[Len(got) + 1] = m
       /\ Start(stream', FALSE) /\ Pending(stream', accepted, Len(got) + 1)
  <2>1. \A k \in 1 .. h : stream[k] = CellOf(m, HeaderCells + k)
    BY <1>8
  <2>2. Start(stream, TRUE) /\ Accepted(accepted, next) /\ Pending(stream, accepted, Len(got))
    BY <1>2, <1>4
  <2>3. /\ stream' \in Seq(Cell) /\ Len(stream') = Len(stream) - h
        /\ \A i \in 1 .. Len(stream') : stream'[i] = stream[i + h]
    BY <1>5
  <2>4. /\ m \in Messages /\ h \in Nat \ {0} /\ h <= Len(stream)
        /\ \A i \in 1 .. Len(stream) : i > h => stream[i].msg > m
    BY <1>8
  <2>5. stream \in Seq(Cell) /\ accepted \in Seq(Messages) /\ next \in Nat /\ Len(got) \in Nat
    BY <1>1
  <2>6. PICK d \in Nat : d = Len(got)
    BY <2>5
  <2>7. Pending(stream, accepted, d)
    BY <2>2, <2>6
  <2>8. PayloadFirst(stream, m, h) /\ Behind(stream', stream, h)
    BY <2>1, <2>3, <2>4 DEF PayloadFirst, Behind
  <2>9. /\ d < Len(accepted) /\ accepted[d + 1] = m
        /\ Start(stream', FALSE) /\ Pending(stream', accepted, d + 1)
    BY <2>2, <2>3, <2>4, <2>5, <2>7, <2>8, PayloadTaken
  <2> QED
    BY <2>6, <2>9
<1>11. Received(size[r]) = Payload(m)
  <2>1. /\ Received(h) \in Seq(Cell) /\ Len(Received(h)) = h
        /\ \A i \in 1 .. h : Received(h)[i] = stream[i]
    BY <1>1, <1>5, <1>6, ReceivedFacts
  <2>2. Received(h) = [i \in 1 .. h |-> Received(h)[i]]
    BY <2>1
  <2>3. \A i \in 1 .. h : Received(h)[i] = CellOf(m, HeaderCells + i)
    BY <1>8, <2>1
  <2>4. Payload(m) = [i \in 1 .. h |-> CellOf(m, HeaderCells + i)]
    BY <1>8 DEF Payload
  <2> QED
    BY <1>6, <2>2, <2>3, <2>4
<1>12. Contents(Received(size[r])) = m
  BY <1>8, <1>11, ContentsOf
<1> QED
  BY <1>5, <1>9, <1>10, <1>12

(* The second recv *)
LEMMA FlowPayload ==
  ASSUME TypeOK, FlowInv, NEW r \in Readers, ReadPayload(r), damage' = {}
  PROVE  Undamaged'
<1>1. damage = {} /\ ~(size[r] > arrived)
  BY Unnoted DEF ReadPayload
<1>2. Undamaged /\ ReadersOK /\ HandedOK
  BY <1>1 DEF FlowInv, Undamaged
<1>3. Goto(r, "payload", "hand") /\ Consume(size[r]) /\ arrived > 0
  BY DEF ReadPayload
<1>4. /\ \A o \in Readers \ {r} : pc[o] = "idle" /\ pc'[o] = "idle"
      /\ pc[r] = "payload" /\ pc'[r] = "hand" /\ \A o \in Readers : pc'[o] # "ended"
      /\ \A o, p \in Readers : pc'[o] # "idle" /\ pc'[p] # "idle" => o = p
      /\ ~Payloads' /\ Hands'
  BY <1>2, <1>3, ReaderMoves
<1>5. status = "Connected"
  BY <1>2, <1>4 DEF ReadersOK, Payloads
<1>6. StreamOK
  BY <1>1, <1>3, <1>5, StreamThere
<1>7. ~Hands
  BY <1>4 DEF Hands
<1>8. size[r] <= arrived
  <2>1. size[r] \in Nat
    BY SizesAreNumbers DEF TypeOK
  <2>2. arrived \in Nat
    BY DEF TypeOK
  <2> QED
    BY <1>1, <2>1, <2>2
<1>9. /\ CellsOf(stream', next) /\ InOrder(stream') /\ Rest(stream')
      /\ Start(stream', FALSE) /\ Pending(stream', accepted, Len(got) + 1)
      /\ Len(got) < Len(accepted)
      /\ Contents(Received(size[r])) = accepted[Len(got) + 1]
  BY <1>2, <1>3, <1>4, <1>6, <1>7, <1>8, PayloadStream
<1>10. UNCHANGED <<accepted, next, sender, got, status, crashed>>
  BY DEF ReadPayload, sendVars
<1>11. buffer'[r] = accepted[Len(got) + 1]
  <2>1. buffer' = [buffer EXCEPT ![r] = Contents(Received(size[r]))]
    BY <1>1 DEF ReadPayload
  <2> QED
    BY <1>9, <2>1 DEF TypeOK
<1>12. ReadersOK'
  BY <1>4 DEF ReadersOK, Busy
<1>13. HandedOK'
  <2>1. Prefix(got, accepted)'
    BY <1>2, <1>10 DEF HandedOK, Prefix
  <2>2. \A o \in Readers : pc'[o] = "hand" => o = r
    BY <1>4
  <2> QED
    BY <1>9, <1>10, <1>11, <2>1, <2>2 DEF HandedOK
<1>14. Taken' = Len(got) + 1
  BY <1>4, <1>10 DEF Taken
<1>15. PayloadOK'
  BY <1>4 DEF PayloadOK, Payloads
<1>16. Start(stream, Payloads)' /\ Pending(stream, accepted, Taken)'
  BY <1>4, <1>9, <1>10, <1>14 DEF Start, Pending
<1>17. CellsOf(stream, next)' /\ InOrder(stream)' /\ Rest(stream)'
  BY <1>9, <1>10 DEF CellsOf, InOrder, Rest, Before
<1>18. Accepted(accepted, next)' /\ ~crashed'
  BY <1>2, <1>10 DEF Undamaged, Accepted
<1> QED
  BY <1>12, <1>13, <1>15, <1>16, <1>17, <1>18 DEF Undamaged, StreamOK

(* A second recv that returns nothing belongs to a damaged frame. *)
LEMMA FlowNothing ==
  ASSUME TypeOK, FlowInv, NEW r \in Readers, ReadNothing(r), damage' = {}
  PROVE  FALSE
<1>1. damage = {} /\ sender # "reset"
  BY Unnoted DEF ReadNothing
<1>2. pc[r] = "payload"
  BY DEF ReadNothing, Goto
<1>3. Undamaged /\ status = "Connected"
  BY <1>1, <1>2 DEF FlowInv, Undamaged, ReadersOK, Payloads
<1>4. Len(stream) > 0
  BY <1>1, <1>2, <1>3 DEF Undamaged, StreamOK, PayloadOK
<1>5. stream = <<>>
  BY <1>1, <1>3 DEF ReadNothing, EndOfStream
<1> QED
  BY <1>4, <1>5

(* LoadData fails, and disconnects. *)
LEMMA FlowEnds ==
  ASSUME TypeOK, FlowInv, ReadEnd \/ ReadFails, damage' = {}
  PROVE  Undamaged'
<1>0. "chain" \in Readers /\ Readers = {"chain", "sync"}
  BY DEF Readers
<1>1. /\ Disconnect({"sync"})
      /\ UNCHANGED <<accepted, next, buffer, got, crashed>>
  BY DEF ReadEnd, ReadFails, sendVars
<1>2. damage = {} /\ pc["sync"] # "payload" /\ status' = "Disconnected"
  BY <1>1, Unnoted DEF Disconnect
<1>3. Undamaged /\ ReadersOK /\ HandedOK
  BY <1>2 DEF FlowInv, Undamaged
<1>4. ReadersOK' /\ HandedOK'
  <2>1. CASE ReadEnd
    <3>1. Goto("chain", "idle", "idle")
      BY <2>1 DEF ReadEnd
    <3>2. pc["chain"] = "idle" /\ pc' = pc
      BY <3>1 DEF Goto, TypeOK
    <3>3. ~Payloads
      BY <1>0, <1>2, <3>2 DEF Payloads
    <3> QED
      BY <1>1, <1>3, <3>2, <3>3 DEF ReadersOK, Busy, Payloads, HandedOK, Prefix
  <2>2. CASE ReadFails
    <3>1. Goto("chain", "payload", "idle")
      BY <2>2 DEF ReadFails
    <3>2. /\ \A o \in Readers : pc'[o] # "ended"
          /\ \A o, p \in Readers : pc'[o] # "idle" /\ pc'[p] # "idle" => o = p
          /\ ~Payloads' /\ ~Hands'
      BY <1>0, <1>3, <3>1, ReaderMoves
    <3>3. ReadersOK'
      BY <3>2 DEF ReadersOK, Busy
    <3>4. HandedOK'
      BY <1>1, <1>3, <3>2 DEF HandedOK, Prefix, Hands
    <3> QED
      BY <3>3, <3>4
  <2> QED
    BY <2>1, <2>2
<1>5. ~crashed'
  BY <1>1, <1>3 DEF Undamaged
<1> QED
  BY <1>1, <1>2, <1>3, <1>4, <1>5, FlowClosed

(* The next message accepted is handed out. *)
LEMMA FlowHand ==
  ASSUME TypeOK, FlowInv, NEW r \in Readers, Hand(r), damage' = {}
  PROVE  Undamaged'
<1>1. UNCHANGED <<accepted, next, sender, stream, status, size, crashed, damage>>
  BY DEF Hand, HandsOn, sendVars
<1>2. Undamaged /\ ReadersOK /\ HandedOK
  BY <1>1 DEF FlowInv, Undamaged
<1>3. Goto(r, "hand", "idle") /\ got' = Append(got, buffer[r])
  BY DEF Hand, HandsOn
<1>4. /\ \A o \in Readers \ {r} : pc[o] = "idle" /\ pc'[o] = "idle"
      /\ pc[r] = "hand" /\ pc'[r] = "idle" /\ \A o \in Readers : pc'[o] # "ended"
      /\ \A o, p \in Readers : pc'[o] # "idle" /\ pc'[p] # "idle" => o = p
      /\ ~Payloads' /\ ~Hands'
  BY <1>2, <1>3, ReaderMoves
<1>5. Hands /\ ~Payloads
  BY <1>4 DEF Hands, Payloads
<1>6. /\ got \in Seq(Messages \cup {Torn}) /\ buffer[r] \in Messages \cup {Torn}
      /\ Len(got) \in Nat /\ Len(accepted) \in Nat
  BY DEF TypeOK
<1>7. Len(got) < Len(accepted) /\ buffer[r] = accepted[Len(got) + 1]
  BY <1>2, <1>4 DEF HandedOK
<1>8. /\ Len(got') = Len(got) + 1 /\ got'[Len(got) + 1] = buffer[r]
      /\ \A q \in 1 .. Len(got) : got'[q] = got[q]
  BY <1>3, <1>6
<1>9. Prefix(got', accepted)
  <2>1. Prefix(got, accepted)
    BY <1>2 DEF HandedOK
  <2>2. Len(got') <= Len(accepted)
    BY <1>6, <1>7, <1>8
  <2>3. ASSUME NEW q \in 1 .. Len(got') PROVE got'[q] = accepted[q]
    <3>1. q \in 1 .. Len(got) \/ q = Len(got) + 1
      BY <1>6, <1>8
    <3>2. CASE q \in 1 .. Len(got)
      BY <1>8, <2>1, <3>2 DEF Prefix
    <3>3. CASE q = Len(got) + 1
      BY <1>7, <1>8, <3>3
    <3> QED
      BY <3>1, <3>2, <3>3
  <2> QED
    BY <2>2, <2>3 DEF Prefix
<1>10. HandedOK'
  <2>1. Prefix(got, accepted)'
    BY <1>1, <1>9 DEF Prefix
  <2> QED
    BY <1>4, <2>1 DEF HandedOK, Hands
<1>11. ReadersOK'
  BY <1>4 DEF ReadersOK, Busy
<1>12. Taken' = Taken
  BY <1>4, <1>5, <1>6, <1>8 DEF Taken
<1>13. Payloads' = Payloads
  BY <1>4, <1>5 DEF Payloads
<1>14. PayloadOK'
  BY <1>4 DEF PayloadOK, Payloads
<1>15. StreamOK => StreamOK'
  <2> SUFFICES ASSUME StreamOK PROVE StreamOK'
    OBVIOUS
  <2>1. /\ CellsOf(stream, next) /\ InOrder(stream) /\ Rest(stream)
        /\ Start(stream, Payloads) /\ Pending(stream, accepted, Taken)
    BY DEF StreamOK
  <2>2. Start(stream, Payloads)' /\ Pending(stream, accepted, Taken)'
    BY <1>1, <1>12, <1>13, <2>1 DEF Start, Pending
  <2>3. CellsOf(stream, next)' /\ InOrder(stream)' /\ Rest(stream)'
    BY <1>1, <2>1 DEF CellsOf, InOrder, Rest, Before
  <2> QED
    BY <1>14, <2>2, <2>3 DEF StreamOK
<1>16. Accepted(accepted, next)' /\ ~crashed'
  BY <1>1, <1>2 DEF Undamaged, Accepted
<1> QED
  BY <1>1, <1>2, <1>10, <1>11, <1>15, <1>16 DEF Undamaged
-----------------------------------------------------------------------------
(* The invariant *)

(* A reset connection has nothing to read. *)
LEMMA FlowReset ==
  ASSUME TypeOK, FlowInv, Next, sender' = "reset"
  PROVE  Len(stream') = 0
<1>1. CASE SenderEnds
  BY <1>1 DEF SenderEnds
<1>2. CASE UNCHANGED <<sender, stream>>
  BY <1>2 DEF FlowInv
<1>3. CASE sender' = sender /\ \E n \in Nat : Consume(n)
  <2>1. Len(stream) = 0
    BY <1>3 DEF FlowInv
  <2>2. stream \in Seq(Cell) /\ arrived \in 0 .. Len(stream)
    BY DEF TypeOK
  <2>3. PICK n \in Nat : Consume(n)
    BY <1>3
  <2>4. PICK h \in 0 .. Len(stream) : Len(stream') = Len(stream) - h
    BY <2>2, <2>3, Consumed
  <2>5. h = 0
    BY <2>1
  <2> QED
    BY <2>1, <2>4, <2>5
<1>4. ASSUME NEW r \in Readers, NEW n, TakeHeader(r, n)
      PROVE  sender' = sender /\ \E i \in Nat : Consume(i)
  <2>1. HeaderCells \in Nat
    BY DEF HeaderCells
  <2> QED
    BY <1>4, <2>1 DEF TakeHeader, sendVars
<1>5. ASSUME NEW r \in Readers, ReadPayload(r)
      PROVE  sender' = sender /\ \E i \in Nat : Consume(i)
  <2>1. size[r] \in Nat
    BY SizesAreNumbers DEF TypeOK
  <2> QED
    BY <1>5, <2>1 DEF ReadPayload, sendVars
<1>6. "chain" \in Readers /\ "sync" \in Readers
  BY DEF Readers
<1>7. ~Send /\ ~SendWithoutLength
  BY DEF Send, SendWithoutLength
<1>8. CASE Arrive \/ OtherDisconnects \/ ReadEnd \/ ReadFails
  BY <1>2, <1>8 DEF Arrive, OtherDisconnects, ReadEnd, ReadFails, sendVars
<1>9. CASE ReadLength \/ SyncLength
  BY <1>3, <1>4, <1>6, <1>9 DEF ReadLength, SyncLength
<1>10. ASSUME NEW r \in Readers, Finish(r) PROVE Len(stream') = 0
  BY <1>2, <1>3, <1>5, <1>10 DEF Finish, ReadNothing, Hand, HandsOn, sendVars
<1> QED
  BY <1>1, <1>6, <1>7, <1>8, <1>9, <1>10 DEF Next, LoadData, LoadDataSync

(* Every step keeps the invariant. *)
LEMMA FlowStep == TypeOK /\ FlowInv /\ [Next]_vars => FlowInv'
<1> SUFFICES ASSUME TypeOK, FlowInv, [Next]_vars PROVE FlowInv'
  OBVIOUS
<1>1. CASE UNCHANGED vars
  <2>1. /\ UNCHANGED <<accepted, next, stream, status, pc, size, buffer, got, crashed>>
        /\ UNCHANGED <<sender, damage>>
    BY <1>1 DEF vars, sendVars, readVars
  <2>2. damage = {} => Undamaged'
    BY <2>1, FlowSame DEF FlowInv
  <2> QED
    BY <2>1, <2>2 DEF FlowInv
<1>2. CASE Next
  <2>1. sender' = "reset" => Len(stream') = 0
    BY <1>2, FlowReset
  <2>2. ASSUME damage' = {} PROVE Undamaged'
    <3>0. "chain" \in Readers /\ "sync" \in Readers
      BY DEF Readers
    <3>1. CASE Send
      BY <2>2, <3>1, FlowSend
    <3>2. CASE SendWithoutLength
      BY <2>2, <3>2, Unnoted DEF SendWithoutLength
    <3>3. CASE Arrive \/ SenderEnds \/ OtherDisconnects
      BY <2>2, <3>3, FlowOutside
    <3>4. CASE ReadLength \/ SyncLength
      BY <2>2, <3>4, FlowLength
    <3>5. CASE ReadEnd \/ ReadFails
      BY <2>2, <3>5, FlowEnds
    <3>6. ASSUME NEW r \in Readers, Finish(r) PROVE Undamaged'
      BY <2>2, <3>6, FlowPayload, FlowNothing, FlowHand DEF Finish
    <3> QED
      BY <1>2, <3>0, <3>1, <3>2, <3>3, <3>4, <3>5, <3>6 DEF Next, LoadData, LoadDataSync
  <2> QED
    BY <2>1, <2>2 DEF FlowInv
<1> QED
  BY <1>1, <1>2

(***************************************************************************)
(* LoadData hands out what SendData was given, in order and without gaps,  *)
(* whoever reads and however the bytes arrive, as long as nothing that     *)
(* damage records has happened; nor does the server run out of memory.     *)
(***************************************************************************)
THEOREM FramesAreKept == Spec => []FramesKept
<1>1. Init => TypeOK /\ FlowInv
  BY TypeInit, FlowInit
<1>2. TypeOK /\ FlowInv /\ [Next]_vars => (TypeOK /\ FlowInv)'
  BY TypeStep, FlowStep
<1>3. TypeOK /\ FlowInv => FramesKept
  <2> SUFFICES ASSUME TypeOK, FlowInv, damage = {} PROVE ~crashed /\ IsPrefix(got, accepted)
    BY DEF FramesKept
  <2>1. ~crashed /\ Prefix(got, accepted)
    BY DEF FlowInv, Undamaged, HandedOK
  <2>2. got \in Seq(Messages \cup {Torn}) /\ accepted \in Seq(Messages \cup {Torn})
    BY SeqMonotonic DEF TypeOK
  <2> QED
    BY <2>1, <2>2, PrefixIs
<1> QED
  BY <1>1, <1>2, <1>3, PTL DEF Spec
=============================================================================
