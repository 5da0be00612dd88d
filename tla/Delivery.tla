------------------------------ MODULE Delivery ------------------------------
(***************************************************************************)
(* What the bus promises the sender of a message, independent of queues,   *)
(* dispatchers, inboxes and workers: a message is handled as often as its  *)
(* delivery mode asks for and then completed, or it is given up, once; it  *)
(* never comes back afterwards.                                            *)
(***************************************************************************)
EXTENDS Naturals

CONSTANTS Id, Need      \* Need[i]: successful handler runs i asks for
VARIABLES status,       \* status[i]
          runs          \* runs[i]: successful handler runs so far

GivenUp == {"dead", "exhausted", "dropped", "lost"}

Init ==
    /\ status = [i \in Id |-> "unsent"]
    /\ runs = [i \in Id |-> 0]

Send(i) ==
    /\ status[i] = "unsent"
    /\ status' = [status EXCEPT ![i] = "live"]
    /\ UNCHANGED runs

\* The run that completes the count also completes the message.
Handle(i) ==
    /\ status[i] = "live"
    /\ runs[i] < Need[i]
    /\ runs' = [runs EXCEPT ![i] = @ + 1]
    /\ status' = [status EXCEPT ![i] =
                     IF runs[i] + 1 = Need[i] THEN "done" ELSE "live"]

\* A deleted worker may take a whole inbox of messages with it.
GiveUp ==
    /\ \E S \in SUBSET {i \in Id : status[i] = "live"}, f \in GivenUp :
          /\ S # {}
          /\ status' = [i \in Id |-> IF i \in S THEN f ELSE status[i]]
    /\ UNCHANGED runs

Next == GiveUp \/ \E i \in Id : Send(i) \/ Handle(i)

vars == <<status, runs>>

Spec == Init /\ [][Next]_vars
=============================================================================
