----------------------------- MODULE MCDispatch -----------------------------
(* Instances of Dispatch for TLC. *)
EXTENDS Dispatch, TLC

CONSTANTS n1, n2, a1, a2, b1, i1, i2, i3

LoneHome == a1 :> n1
OneNodeHome == a1 :> n1 @@ a2 :> n1
TwoNodeHome == a1 :> n1 @@ b1 :> n2
Untargeted == {NoWorker}
ToA2 == {NoWorker, a2}
ToB1 == {NoWorker, b1}
Twice == i1 :> 2
NoTimes == [i \in {} |-> 0]
=============================================================================
