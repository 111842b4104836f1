---------------------------- MODULE MCTokenBucket -----------------------------
(* Small instances of TokenBucket for TLC. *)
EXTENDS TokenBucket

CONSTANTS k1, k2, t1, t2
===============================================================================
