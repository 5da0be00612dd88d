----------------------------- MODULE MCStreams -----------------------------
(* Instances of Streams for TLC: two nodes on one stream. *)
EXTENDS Streams

CONSTANTS n1, n2
=============================================================================
