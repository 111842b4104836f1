------------------------- MODULE MCIdempotentGateway --------------------------
(* Small instances of IdempotentGateway for TLC. *)
EXTENDS IdempotentGateway

CONSTANTS r1, r2, r3, r4, r5, k1, k2

\* Three requests and the stream r5 race for one key; r4 is alone on another.
MCKeyOf == [r \in Requests |-> IF r = r4 THEN k2 ELSE k1]
===============================================================================
