----------------------------- MODULE MCRegistry -----------------------------
(* Instances of Registry for TLC: the Host h and a Worker node n1. *)
EXTENDS Registry

CONSTANTS h, n1, a, b
=============================================================================
