----------------------------- MODULE TokenBucket ------------------------------
(***************************************************************************)
(* The hard rate limiters: TokenBucketRateLimiter of the engine            *)
(* (src/safety/rate_limiter.py, a bucket per API key) and                  *)
(* TenantRateLimiter of the gateway (src/safety/tenant_rate_limiter.py, a  *)
(* bucket per tenant and a lock).                                          *)
(*                                                                         *)
(* Time and tokens share a unit: the amount one tick refills.  A request   *)
(* costs Cost of them.  assert_allowed and remaining read the clock first  *)
(* and touch the bucket later, under the lock in the tenant limiter; the   *)
(* gateway calls both limiters from the one thread of its event loop.      *)
(***************************************************************************)
EXTENDS Integers, FiniteSets

CONSTANTS
    Subjects,       \* API keys, or tenants
    Threads,        \* threads that call the limiter
    Capacity,
    Cost,           \* tokens = 1, in refill units
    Horizon         \* bound of the model: the last instant of the clock

ASSUME BucketAssumption ==
    /\ Capacity \in Nat
    /\ Cost \in Nat \ {0}
    /\ Horizon \in Nat

VARIABLES
    clock,          \* time.monotonic()
    tokens,         \* Bucket.tokens
    updated,        \* Bucket.updated_at
    stamp,          \* the clock a thread has read and not used yet
    taken,          \* history: tokens admitted per subject since the mark
    mark            \* history: the instant the count began

vars == <<clock, tokens, updated, stamp, taken, mark>>

NoStamp == -1

TypeOK ==
    /\ clock \in 0..Horizon
    /\ tokens \in [Subjects -> 0..Capacity]
    /\ updated \in [Subjects -> 0..clock]
    /\ stamp \in [Threads -> NoStamp..clock]
    /\ taken \in [Subjects -> Nat]
    /\ mark \in 0..clock

\* fault: an idle bucket grows past its capacity
UncappedRefill(s, now) ==
    tokens[s] + (IF now > updated[s] THEN now - updated[s] ELSE 0)

\* The level of a bucket at the instant a caller takes for now.
Refilled(s, now) ==
    LET level == tokens[s] + (IF now > updated[s] THEN now - updated[s] ELSE 0)
    IN  IF level > Capacity THEN Capacity ELSE level

Init ==
    /\ clock = 0
    /\ tokens = [s \in Subjects |-> Capacity]
    /\ updated = [s \in Subjects |-> 0]
    /\ stamp = [t \in Threads |-> NoStamp]
    /\ taken = [s \in Subjects |-> 0]
    /\ mark = 0

ReadClock(t) ==
    /\ stamp[t] = NoStamp
    /\ stamp' = [stamp EXCEPT ![t] = clock]
    /\ UNCHANGED <<clock, tokens, updated, taken, mark>>

\* The bucket is left at a level, as of the instant the thread read.
Settle(t, s, level) ==
    /\ tokens' = [tokens EXCEPT ![s] = level]
    /\ updated' = [updated EXCEPT ![s] = stamp[t]]
    /\ stamp' = [stamp EXCEPT ![t] = NoStamp]
    /\ UNCHANGED <<clock, mark>>

Admit(t, s) ==
    /\ stamp[t] # NoStamp
    /\ Refilled(s, stamp[t]) >= Cost
    /\ Settle(t, s, Refilled(s, stamp[t]) - Cost)
    /\ taken' = [taken EXCEPT ![s] = @ + Cost]

\* fault: a refused caller is refilled again for the same time
RefillsTwice(t, s) ==
    /\ stamp[t] # NoStamp
    /\ tokens' = [tokens EXCEPT ![s] = Refilled(s, stamp[t])]
    /\ stamp' = [stamp EXCEPT ![t] = NoStamp]
    /\ UNCHANGED <<clock, updated, taken, mark>>

\* fault: the time a refused caller waited is lost
LosesTime(t, s) ==
    /\ stamp[t] # NoStamp
    /\ Settle(t, s, tokens[s])
    /\ UNCHANGED taken

\* A refusal, or remaining(): refilled, and nothing taken.
Refresh(t, s) ==
    /\ stamp[t] # NoStamp
    /\ Settle(t, s, Refilled(s, stamp[t]))
    /\ UNCHANGED taken

Tick ==
    /\ clock < Horizon
    /\ clock' = clock + 1
    /\ UNCHANGED <<tokens, updated, stamp, taken, mark>>

\* The observer starts counting anew, between two calls.
Mark ==
    /\ \A t \in Threads : stamp[t] = NoStamp
    /\ mark' = clock
    /\ taken' = [s \in Subjects |-> 0]
    /\ UNCHANGED <<clock, tokens, updated, stamp>>

Next ==
    \/ \E t \in Threads :
        \/ ReadClock(t)
        \/ \E s \in Subjects : Admit(t, s) \/ Refresh(t, s)
    \/ Tick
    \/ Mark

Spec == Init /\ [][Next]_vars
-----------------------------------------------------------------------------
(* Properties *)

\* In any stretch of time a subject is admitted no more than a full bucket and
\* what the stretch refills, however calls, refusals and idle times alternate.
RateBound ==
    \A s \in Subjects : taken[s] <= Capacity + (clock - mark)

\* A caller is never refused what the limiter owes it: a subject that has taken
\* nothing for as long as a bucket needs to fill finds it full.
OwedIsPaid ==
    \A s \in Subjects :
        taken[s] = 0 /\ clock - mark >= Capacity => Refilled(s, clock) = Capacity
===============================================================================
