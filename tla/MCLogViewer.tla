----------------------------- MODULE MCLogViewer -----------------------------
(***************************************************************************)
(* Instances of LogViewer for TLC: ports, days and lengths of sessions.    *)
(***************************************************************************)
EXTENDS LogViewer, TLC

CONSTANTS c1, c2, c3

(* c1 and c2 come from different hosts with the same port. *)
SharedPort == (c1 :> 5000) @@ (c2 :> 5000) @@ (c3 :> 5001)

(* c1 authenticates before midnight, the others on the same day as each other. *)
TwoDays == (c1 :> "mon") @@ (c2 :> "tue") @@ (c3 :> "tue")

(* c2 and c3 carry seconds and minutes, c1 lasts a hundred hours. *)
Lengths == (c1 :> 360007) @@ (c2 :> 3590) @@ (c3 :> 3590)

(* Seven hours by chance *)
SomeTimes == {<<0, 0, 0>>, <<7, 0, 0>>}
==============================================================================
