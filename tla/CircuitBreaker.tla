---------------------------- MODULE CircuitBreaker ----------------------------
(***************************************************************************)
(* The state of one provider's circuit and the operators that the          *)
(* CircuitBreakerRegistry (src/safety/circuit_breaker.py) applies to it.   *)
(*                                                                         *)
(* The code keeps a failure count and the instant the circuit opened, and  *)
(* compares the clock with that instant.  Here `wait` is what is left of   *)
(* the recovery window: Never when opened_at is None, Window just after    *)
(* the circuit opened, 0 once the window has elapsed.  The count is        *)
(* compared with the threshold only, so it saturates there.                *)
(***************************************************************************)
EXTENDS Integers

CONSTANTS
    Threshold,      \* failure_threshold: failures before a circuit opens
    Window          \* recovery_window_seconds, in clock ticks

ASSUME BreakerAssumption ==
    /\ Threshold \in Nat \ {0}
    /\ Window \in Nat \ {0}

Never == -1

CircuitStates == [failures : 0..Threshold, wait : Never..Window]

Closed == [failures |-> 0, wait |-> Never]

IsOpen(c) == c.wait > 0

\* assert_available when it does not raise: a circuit whose window elapsed
\* starts again with a clean count.
AfterCheck(c) == IF c.wait = 0 THEN Closed ELSE c

AfterSuccess(c) == Closed

Saturated(n) == IF n >= Threshold THEN Threshold ELSE n

\* record_failure; a failure that arrives while the circuit is open reopens it
\* for a whole window.
AfterFailure(c) ==
    LET n == Saturated(c.failures + 1)
    IN  [failures |-> n, wait |-> IF n = Threshold THEN Window ELSE c.wait]

AfterTick(c) == IF IsOpen(c) THEN [c EXCEPT !.wait = @ - 1] ELSE c
===============================================================================
