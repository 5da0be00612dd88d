------------------------------- MODULE MCBus -------------------------------
(* Instances of Bus for TLC: a business topic and a system topic. *)
EXTENDS Bus

CONSTANTS orders, wal_sync
=============================================================================
