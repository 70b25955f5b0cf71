---------------------------- MODULE MCNotification ----------------------------
(***************************************************************************)
(* Instances of Notification: two recommendations, and for one of them two *)
(* confidences a significant delta (8) apart.                              *)
(***************************************************************************)
EXTENDS Notification

Snap(r, c) == [recommendation |-> r, confidence |-> c]

MCSnapshots == {Snap("WAIT", 50), Snap("WAIT", 58), Snap("BUY", 50)}

None == [recommendation |-> "none", confidence |-> 0]
===============================================================================
