------------------------------- MODULE MCWal -------------------------------
(* Instances of Wal for TLC: one Host, and one that may share its RedisWal. *)
EXTENDS Wal

CONSTANTS m1, m2, host, peer, nomsg
=============================================================================
