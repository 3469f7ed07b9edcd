----------------------------- MODULE MCComposite -----------------------------
(***************************************************************************)
(* Instances of CompositeExecutionObject for TLC.                          *)
(*                                                                         *)
(* Chain: the slide show every NCL document has.  The end of m1 starts m2  *)
(* with one repetition, the start of m2 stops m3 when an assessment holds. *)
(***************************************************************************)
EXTENDS CompositeExecutionObject, TLC

CONSTANTS m1, m2, m3, l1, l2

ChainMedia == {m1, m2, m3}
ChainLinks == {l1, l2}
ChainEvent == l1 :> m1 @@ l2 :> m2
ChainTrans == l1 :> "stops" @@ l2 :> "starts"
ChainType == l1 :> "start" @@ l2 :> "stop"
ChainTarget == l1 :> m2 @@ l2 :> m3
ChainGuarded == {l2}
ChainRepeat == {l1}
=============================================================================
