---------------------------- MODULE MCEventStream -----------------------------
(* A small instance of EventStream for TLC. *)
EXTENDS EventStream

CONSTANTS m1, m2, draft
===============================================================================
