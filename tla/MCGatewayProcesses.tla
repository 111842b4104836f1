-------------------------- MODULE MCGatewayProcesses --------------------------
(* Three requests with one key and one with another, served by two processes. *)
EXTENDS GatewayProcesses, TLC

CONSTANTS r1, r2, r3, r4, k1, k2, p1, p2

MCKeyOf == [r \in Requests |-> IF r = r4 THEN k2 ELSE k1]

\* r1 and r2 have one key and one process: nothing tells them apart.
Twins == Permutations({r1, r2})

MCProcessOf == [r \in Requests |-> IF r = r3 THEN p2 ELSE p1]
===============================================================================
