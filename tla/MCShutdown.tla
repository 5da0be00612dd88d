----------------------------- MODULE MCShutdown -----------------------------
(* Instances of Shutdown for TLC: w1 is a business worker, s1 a worker of    *)
(* _system.shutdown that meets itself in the index, main a task of the       *)
(* application.                                                              *)
EXTENDS Shutdown

CONSTANTS w1, s1, main
=============================================================================
