------------------------------ MODULE MCFraming ------------------------------
(***************************************************************************)
(* Instances of Framing for TLC: the messages of one sender.               *)
(***************************************************************************)
EXTENDS Framing

(* One message of two cells, an empty one, one of one cell *)
MessageSizes == <<2, 0, 1>>
==============================================================================
