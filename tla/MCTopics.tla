------------------------------ MODULE MCTopics ------------------------------
(* A Host and a Worker on Redis; both programs declare refunds, the Host's *)
(* also orders, the Worker's also a topic that the Host does not know.     *)
EXTENDS Topics, TLC

CONSTANTS h, w1, orders, refunds, returns

MCNode == {h, w1}
MCTopic == {orders, refunds, returns}
MCDeclared == h :> {orders, refunds} @@ w1 :> {refunds, returns}
=============================================================================
