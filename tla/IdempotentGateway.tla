-------------------------- MODULE IdempotentGateway ---------------------------
(***************************************************************************)
(* The Idempotency-Key path of POST /v1/chat/completions and               *)
(* POST /v1/responses (src/api/main.py) over the SQLite IdempotencyStore   *)
(* (src/safety/idempotency.py), which several gateway processes may share. *)
(*                                                                         *)
(* A key here is the primary key (key, tenant) of the table, the key       *)
(* already scoped by endpoint.  Each operation of the store is one SQLite  *)
(* transaction and so one step.  `left` is the lifetime a row still has,   *)
(* where the code compares expires_at with the clock: a row with nothing   *)
(* left has expired, and stays in the table until some operation evicts.   *)
(*                                                                         *)
(* NexusRouter.complete is seen from outside: it ends within MaxRun ticks  *)
(* of the reservation, because every attempt is under wait_for, and it has *)
(* charged the tenant or not: also when it loses the answer it has charged *)
(* for and goes on to a fallback, which it then takes no answer from.  A   *)
(* process may die while it runs requests.                                 *)
(***************************************************************************)
EXTENDS Integers

CONSTANTS
    Requests,       \* HTTP requests that carry an Idempotency-Key
    NoRequest,
    Streams,        \* the chat requests among them that ask for a stream
    Keys,
    KeyOf,          \* [Requests -> Keys]
    Lease,          \* idempotency_lease_seconds, in ticks
    Ttl,            \* idempotency_ttl_seconds, in ticks
    MaxRun,         \* attempts * request_timeout_seconds, in ticks
    MostBills       \* bound of the model: the history counts charges up to here

ASSUME GatewayAssumption ==
    /\ NoRequest \notin Requests
    /\ Streams \subseteq Requests
    /\ KeyOf \in [Requests -> Keys]
    /\ Lease \in Nat \ {0}
    /\ Ttl \in Nat \ {0}
    /\ MaxRun \in Nat
    /\ MostBills \in Nat

VARIABLES
    row,            \* the idempotency_keys table
    phase,          \* where the handler of a request is
    age,            \* ticks since the reservation of a running request
    got,            \* the request whose answer a client received
    bills,          \* history: requests charged per key
    paid            \* running requests that were charged for an answer they lost

vars == <<row, phase, age, got, bills, paid>>

Free == [kind |-> "free", by |-> NoRequest, left |-> 0]
Pending(r) == [kind |-> "pending", by |-> r, left |-> Lease]
Done(r) == [kind |-> "done", by |-> r, left |-> Ttl]

Rows ==
    {Free}
    \cup [kind : {"pending"}, by : Requests, left : 0..Lease]
    \cup [kind : {"done"}, by : Requests, left : 0..Ttl]

Phases == {"idle", "running", "answered", "replayed", "failed", "dead", "streaming"}

Running == {r \in Requests : phase[r] = "running"}

TypeOK ==
    /\ row \in [Keys -> Rows]
    /\ phase \in [Requests -> Phases]
    /\ age \in [Requests -> 0..MaxRun]
    /\ got \in [Requests -> Requests \cup {NoRequest}]
    /\ bills \in [Keys -> 0..MostBills]
    /\ paid \subseteq Running

-----------------------------------------------------------------------------
(* The store *)

\* fault: expired rows are kept
KeepsExpired(rows) == rows

\* _evict_expired_locked: every expired row goes, whatever its key.
Evicted(rows) == [k \in Keys |-> IF rows[k].left = 0 THEN Free ELSE rows[k]]

\* fault: any claim on the key counts as one's own
OwnsAny(rows, r) == rows[KeyOf[r]].kind = "pending"

\* The WHERE clause of complete and release: the row is pending and holds the
\* token of this reservation, expired or not.
Owns(rows, r) ==
    LET x == rows[KeyOf[r]] IN x.kind = "pending" /\ x.by = r

\* complete: the owner turns its row into the answer; one whose row is gone
\* evicts, and inserts the answer if the key is free.
Completed(rows, r) ==
    LET evicted == Evicted(rows)
    IN  IF Owns(rows, r) THEN [rows EXCEPT ![KeyOf[r]] = Done(r)]
        ELSE IF evicted[KeyOf[r]] = Free THEN [evicted EXCEPT ![KeyOf[r]] = Done(r)]
        ELSE evicted

Released(rows, r) ==
    IF Owns(rows, r) THEN [rows EXCEPT ![KeyOf[r]] = Free] ELSE rows

Counted(n) == IF n = MostBills THEN n ELSE n + 1

\* record_spend: a run that has been charged is in the state RESPONDED, which an
\* answer of its fallback cannot enter again.
Bill(r) ==
    /\ r \notin paid
    /\ bills' = [bills EXCEPT ![KeyOf[r]] = Counted(@)]

\* A response from the cache is not charged, one from a provider is.
Charge(r) == Bill(r) \/ UNCHANGED bills
-----------------------------------------------------------------------------
(* The handlers *)

Init ==
    /\ row = [k \in Keys |-> Free]
    /\ phase = [r \in Requests |-> "idle"]
    /\ age = [r \in Requests |-> 0]
    /\ got = [r \in Requests |-> NoRequest]
    /\ bills = [k \in Keys |-> 0]
    /\ paid = {}

\* fault: a pending claim does not keep others from running
ClaimsOverPending(r) ==
    /\ phase[r] = "idle" /\ r \notin Streams
    /\ Evicted(row)[KeyOf[r]].kind # "done"
    /\ row' = [Evicted(row) EXCEPT ![KeyOf[r]] = Pending(r)]
    /\ phase' = [phase EXCEPT ![r] = "running"]
    /\ UNCHANGED <<age, got, bills, paid>>

\* reserve inserts the pending row and the handler goes on to the router.
Claim(r) ==
    /\ phase[r] = "idle" /\ r \notin Streams
    /\ Evicted(row)[KeyOf[r]] = Free
    /\ row' = [Evicted(row) EXCEPT ![KeyOf[r]] = Pending(r)]
    /\ phase' = [phase EXCEPT ![r] = "running"]
    /\ UNCHANGED <<age, got, bills, paid>>

\* fault: a refused duplicate renews the lease it ran into
ConflictRenews(r) ==
    /\ phase[r] = "idle" /\ r \notin Streams
    /\ Evicted(row)[KeyOf[r]].kind = "pending"
    /\ row' = [Evicted(row) EXCEPT ![KeyOf[r]].left = Lease]
    /\ UNCHANGED <<phase, age, got, bills, paid>>

\* Another request holds the key: 409, and the client is free to try again.
Conflict(r) ==
    /\ phase[r] = "idle" /\ r \notin Streams
    /\ Evicted(row)[KeyOf[r]].kind = "pending"
    /\ row' = Evicted(row)
    /\ UNCHANGED <<phase, age, got, bills, paid>>

\* fault: status_code is not looked at, a pending row counts as an answer
ReplaysAnyRow(r) ==
    /\ phase[r] = "idle"
    /\ Evicted(row)[KeyOf[r]] # Free
    /\ row' = Evicted(row)
    /\ phase' = [phase EXCEPT ![r] = "replayed"]
    /\ got' = [got EXCEPT ![r] = Evicted(row)[KeyOf[r]].by]
    /\ UNCHANGED <<age, bills, paid>>

\* reserve, or get for a stream, finds the stored answer.
Replay(r) ==
    /\ phase[r] = "idle"
    /\ Evicted(row)[KeyOf[r]].kind = "done"
    /\ row' = Evicted(row)
    /\ phase' = [phase EXCEPT ![r] = "replayed"]
    /\ got' = [got EXCEPT ![r] = Evicted(row)[KeyOf[r]].by]
    /\ UNCHANGED <<age, bills, paid>>

\* A stream that finds no answer runs without a claim and is never stored.
Stream(r) ==
    /\ phase[r] = "idle" /\ r \in Streams
    /\ Evicted(row)[KeyOf[r]].kind # "done"
    /\ row' = Evicted(row)
    /\ phase' = [phase EXCEPT ![r] = "streaming"]
    /\ UNCHANGED <<age, got, bills, paid>>

\* The router answers and complete_idempotency runs before any other await.
Answer(r) ==
    /\ phase[r] = "running" /\ r \notin paid
    /\ Charge(r)
    /\ row' = Completed(row, r)
    /\ phase' = [phase EXCEPT ![r] = "answered"]
    /\ age' = [age EXCEPT ![r] = 0]
    /\ got' = [got EXCEPT ![r] = r]
    /\ UNCHANGED paid

\* The router has charged for an answer whose ledger row or audit record cannot
\* be written; the answer is lost, and the run awaits the next models of its chain.
FallBack(r) ==
    /\ phase[r] = "running"
    /\ Bill(r)
    /\ paid' = paid \cup {r}
    /\ UNCHANGED <<row, phase, age, got>>

\* An exception leaves the handler: the router failed (with or without a charge
\* on its books), the task was cancelled, or the store could not save the
\* answer.  Releasing the claim may fail as well.
Fail(r) ==
    /\ phase[r] = "running"
    /\ Charge(r)
    /\ row' \in {Released(row, r), row}
    /\ phase' = [phase EXCEPT ![r] = "failed"]
    /\ age' = [age EXCEPT ![r] = 0]
    /\ paid' = paid \ {r}
    /\ UNCHANGED got

\* A process dies, and with it the requests it runs; the rows they claimed stay.
\* One of them at most was between its charge and its answer; those that await a
\* fallback may have been charged before.
Crash(dead) ==
    /\ dead \subseteq Running
    /\ \E r \in dead : Charge(r)
    /\ phase' = [r \in Requests |-> IF r \in dead THEN "dead" ELSE phase[r]]
    /\ age' = [r \in Requests |-> IF r \in dead THEN 0 ELSE age[r]]
    /\ paid' = paid \ dead
    /\ UNCHANGED <<row, got>>

\* fault: no wait_for ends a call
NeverTimesOut ==
    /\ age' = [r \in Requests |-> IF phase[r] = "running" THEN age[r] + 1 ELSE age[r]]
    /\ row' = [k \in Keys |-> [row[k] EXCEPT !.left = IF @ = 0 THEN 0 ELSE @ - 1]]
    /\ UNCHANGED <<phase, got, bills, paid>>

\* Time passes; no handler runs longer than MaxRun.
Tick ==
    /\ \A r \in Running : age[r] < MaxRun
    /\ age' = [r \in Requests |-> IF phase[r] = "running" THEN age[r] + 1 ELSE age[r]]
    /\ row' = [k \in Keys |-> [row[k] EXCEPT !.left = IF @ = 0 THEN 0 ELSE @ - 1]]
    /\ UNCHANGED <<phase, got, bills, paid>>

Ask(r) == Claim(r) \/ Conflict(r) \/ Replay(r) \/ Stream(r)
EndRun(r) == Answer(r) \/ Fail(r) \/ \E dead \in SUBSET Running : r \in dead /\ Crash(dead)

Next ==
    \/ \E r \in Requests :
        \/ Claim(r) \/ Conflict(r) \/ Replay(r) \/ Stream(r)
        \/ Answer(r) \/ FallBack(r) \/ Fail(r)
    \/ \E dead \in SUBSET Running : Crash(dead)
    \/ Tick

Spec == Init /\ [][Next]_vars

\* A client refused with 409 asks again, a run ends, time goes on.
Fairness ==
    /\ \A r \in Requests : WF_vars(Ask(r)) /\ WF_vars(EndRun(r))
    /\ WF_vars(Tick)

FairSpec == Spec /\ Fairness
-----------------------------------------------------------------------------
(* Properties *)

\* Of the requests that carry one key at most one is within the lease of its claim:
\* a second is let in only when the run of the first has outlived its lease, never
\* by an eviction, a late answer or a late release.
SingleFlight ==
    \A r, q \in Running :
        KeyOf[r] = KeyOf[q] /\ age[r] < Lease /\ age[q] < Lease => r = q

\* A replay is the answer some request with the same key was really given.
ReplaysAreAnswers ==
    \A r \in Requests : got[r] # NoRequest =>
        /\ KeyOf[got[r]] = KeyOf[r]
        /\ got[got[r]] = got[r]

\* A row that has not expired is touched by nobody but the handler it belongs
\* to: a late answer or a late release of a request that lost its lease leaves
\* a newer claim, and a stored answer, as they are.
LiveRowsAreOwned ==
    [][\A k \in Keys :
        LET x == row[k] IN
        x.left > 0 =>
            \/ row'[k] = x
            \/ row'[k] = [x EXCEPT !.left = @ - 1]
            \/ /\ x.kind = "pending" /\ phase[x.by] = "running"
               /\ row'[k] = IF phase'[x.by] = "answered" THEN Done(x.by) ELSE Free]_vars

\* A client that keeps asking is run or answered in the end, though the owner
\* of the key died without releasing it.
EveryRetryGetsThrough ==
    \A r \in Requests : phase[r] = "idle" ~> phase[r] # "idle"

\* "receive the original response instead of double-billing"
\* (src/safety/idempotency.py:46): of the requests with one key one is charged.
BilledOnce == \A k \in Keys : bills[k] <= 1

\* The store refines the promise: the rows that have not expired stand for the
\* remembered answers.
Remembered ==
    [k \in Keys |-> IF row[k].kind = "done" /\ row[k].left > 0 THEN row[k].by ELSE NoRequest]

Once == INSTANCE OnceOnly WITH
            executing <- Running, remembered <- Remembered, answer <- got

\* With a lease longer than any run the gateway keeps the promise.
KeepsPromise == Once!OnceSpec
===============================================================================
