---------------------------- MODULE RoutingEngine -----------------------------
(***************************************************************************)
(* NexusRouter.complete and complete_stream (src/router/engine.py): many   *)
(* requests share one engine, its circuit breakers, budget, scoreboard and *)
(* in-flight counters.                                                     *)
(*                                                                         *)
(* The engine runs on one asyncio event loop: a task keeps the loop from   *)
(* the moment it resumes until it awaits a provider or ends.  `running` is *)
(* the request whose task holds the loop between two steps of the attempt  *)
(* loop, so steps of different requests interleave only at the awaits.     *)
(*                                                                         *)
(* A provider call ends in an answer or in an exception: an HTTP error, a  *)
(* rate limit, a wait_for timeout (complete only).  The caller may also    *)
(* cancel the task or close the stream while it waits.                     *)
(***************************************************************************)
EXTENDS RoutingState, CircuitBreaker, Sequences, FiniteSets

CONSTANTS
    Requests,       \* request_ids
    NoRequest,      \* the event loop is free
    Models,         \* the model catalog
    NoModel,
    Providers,
    ProviderOf,     \* [Models -> Providers]
    Adapters,       \* providers the adapter registry knows
    Users,          \* budget subjects (user_id)
    UserOf,         \* [Requests -> Users]
    Decisions,      \* what a strategy may answer: chosen model, then fallbacks
    Estimate,       \* [Models -> Nat], estimate_cost before the call
    Costs,          \* costs a provider may report
    Cap             \* budget_cap_usd, in cost units

ASSUME EngineAssumption ==
    /\ NoRequest \notin Requests
    /\ NoModel \notin Models
    /\ ProviderOf \in [Models -> Providers]
    /\ Adapters \subseteq Providers
    /\ UserOf \in [Requests -> Users]
    /\ Decisions \subseteq Seq(Models) \ {<<>>}
    /\ \A d \in Decisions : \A i, j \in DOMAIN d : d[i] = d[j] => i = j
    /\ Estimate \in [Models -> Nat]
    /\ Costs \subseteq Nat
    /\ Cap \in Nat

ASSUME FiniteRequests == IsFiniteSet(Requests)

VARIABLES
    breaker,        \* CircuitBreakerRegistry._states
    board,          \* ProviderFallbackScoreboard, as far as rank() sees it
    spend,          \* BudgetGuardrail._spend_by_subject
    inflight,       \* InflightStats, per provider
    load,           \* InflightStats, per tenant and provider
    running,        \* the request whose task holds the event loop
    phase,          \* where the task of a request is
    mode,           \* complete() or complete_stream()
    state,          \* RoutingStateMachine.current_state
    plan,           \* attempts: the models to try, in order
    at,             \* attempt_index, from 1
    text,           \* models whose text reached the caller of a stream
    charged,        \* budget charges of the request
    ledger,         \* its rows in the spend ledger
    audited,        \* its records in the audit log
    peak            \* history: most calls a user ever had in flight at once

shared == <<breaker, board, spend, inflight, load, peak>>
vars == <<breaker, board, spend, inflight, load, running, phase, mode, state,
          plan, at, text, charged, ledger, audited, peak>>

Waiting == {"routing", "awaiting"}
Ended == {"refused", "answered", "failed", "crashed", "cancelled"}
Phases == {"idle"} \cup Waiting \cup Ended
Modes == {"complete", "stream"}
Standing == {"unknown", "failing", "scored"}

TypeOK ==
    /\ breaker \in [Providers -> CircuitStates]
    /\ board \in [Providers -> Standing]
    /\ spend \in [Users -> Nat]
    /\ inflight \in [Providers -> Nat]
    /\ load \in [Users \X Providers -> Nat]
    /\ running \in Requests \cup {NoRequest}
    /\ phase \in [Requests -> Phases]
    /\ mode \in [Requests -> Modes]
    /\ state \in [Requests -> RequestStates]
    /\ plan \in [Requests -> Seq(Models)]
    /\ at \in [Requests -> Nat \ {0}]
    /\ \A r \in Requests : phase[r] \in Waiting => at[r] \in DOMAIN plan[r]
    /\ text \in [Requests -> SUBSET Models]
    /\ charged \in [Requests -> Nat]
    /\ ledger \in [Requests -> Nat]
    /\ audited \in [Requests -> Nat]
    /\ peak \in [Users -> Nat]

Model(r) == plan[r][at[r]]
Provider(r) == ProviderOf[Model(r)]
Awaiting == {r \in Requests : phase[r] = "awaiting"}
UserCalls(u) == {r \in Awaiting : UserOf[r] = u}
LoopFree == running = NoRequest

-----------------------------------------------------------------------------
(* _order_attempts: the chosen model first, then the fallbacks grouped by  *)
(* provider, healthier providers first.                                    *)

\* The score is 0 as long as a provider never succeeded and positive ever
\* after; how two positive scores compare is left open (it hangs on latency).
Rank(p) == CASE board[p] = "scored" -> 2 [] board[p] = "failing" -> 1 [] OTHER -> 0

Position(s, m) == CHOOSE i \in DOMAIN s : s[i] = m
FirstOf(s, p) ==
    CHOOSE i \in DOMAIN s :
        /\ ProviderOf[s[i]] = p
        /\ \A j \in DOMAIN s : ProviderOf[s[j]] = p => i <= j

Healthier(chain, p, q) ==
    \/ Rank(p) > Rank(q)
    \/ Rank(p) = Rank(q) /\ (Rank(p) = 2 \/ FirstOf(chain, p) < FirstOf(chain, q))

IsOrdering(chain, s) ==
    /\ \A m \in {chain[i] : i \in DOMAIN chain} : \E i \in DOMAIN s : s[i] = m
    /\ \A i, j \in DOMAIN s : i < j =>
        LET p == ProviderOf[s[i]]
            q == ProviderOf[s[j]]
        IN  IF p = q
            THEN /\ Position(chain, s[i]) < Position(chain, s[j])
                 /\ \A k \in i..j : ProviderOf[s[k]] = p
            ELSE Healthier(chain, p, q)

OrderAttempts(decision) ==
    LET chain == Tail(decision)
        models == {chain[i] : i \in DOMAIN chain}
    IN  {<<Head(decision)>> \o s :
            s \in {t \in [DOMAIN chain -> models] : IsOrdering(chain, t)}}
-----------------------------------------------------------------------------
(* Pieces of an attempt *)

\* fault: any spend passes
SpendsFreely(r) == TRUE

\* assert_can_spend: what is charged so far, plus the estimate of this call.
WithinBudget(r) == spend[UserOf[r]] + Estimate[Model(r)] <= Cap

\* fault: the circuit is not consulted
IgnoresCircuit(r) == WithinBudget(r)

CanDispatch(r) == WithinBudget(r) /\ ~IsOpen(breaker[Provider(r)])

\* fault: a broken stream falls back as if nothing had been sent
ForgetsOutput(r) == FALSE

\* output_started: text of this attempt already reached the caller.
OutputStarted(r) == mode[r] = "stream" /\ Model(r) \in text[r]

Begin(r) ==
    /\ inflight' = [inflight EXCEPT ![Provider(r)] = @ + 1]
    /\ load' = [load EXCEPT ![<<UserOf[r], Provider(r)>>] = @ + 1]
    /\ LET calls == Cardinality(UserCalls(UserOf[r])) + 1
       IN  peak' = [peak EXCEPT ![UserOf[r]] = IF calls > @ THEN calls ELSE @]

\* InflightStats.finish
Finished(n) == IF n <= 1 THEN 0 ELSE n - 1

\* fault: the provider counter is left alone
FinishesTenantOnly(r) ==
    /\ load' = [load EXCEPT ![<<UserOf[r], Provider(r)>>] = Finished(@)]
    /\ UNCHANGED <<inflight, peak>>

\* The finally block: it runs on an answer, an exception and a cancellation.
Finish(r) ==
    /\ inflight' = [inflight EXCEPT ![Provider(r)] = Finished(@)]
    /\ load' = [load EXCEPT ![<<UserOf[r], Provider(r)>>] = Finished(@)]
    /\ UNCHANGED peak

\* The task ends with outcome o, its state machine in s.
End(r, o, s) ==
    /\ phase' = [phase EXCEPT ![r] = o]
    /\ state' = [state EXCEPT ![r] = s]
    /\ running' = NoRequest
    /\ UNCHANGED at

\* fault: the last attempt is not recognised, the index runs off the list
RunsPastEnd(r, s) ==
    /\ at' = [at EXCEPT ![r] = @ + 1]
    /\ phase' = [phase EXCEPT ![r] = "routing"]
    /\ running' = r
    /\ UNCHANGED state

\* fault: the same model is tried again and again
RetriesForever(r, s) ==
    /\ state' = [state EXCEPT ![r] = IF s = "DISPATCHED" THEN "FALLBACK" ELSE s]
    /\ phase' = [phase EXCEPT ![r] = "routing"]
    /\ running' = r
    /\ UNCHANGED at

\* After an attempt that gave no answer, its state machine in s: go on with
\* the next model, or fail the request.  FAILED cannot follow RESPONDED; then
\* StateTransitionError leaves complete() instead of RoutingFailedError.
NextAttempt(r, s) ==
    \/ /\ at[r] < Len(plan[r])
       /\ at' = [at EXCEPT ![r] = @ + 1]
       /\ state' = [state EXCEPT ![r] = IF s = "DISPATCHED" THEN "FALLBACK" ELSE s]
       /\ phase' = [phase EXCEPT ![r] = "routing"]
       /\ running' = r
    \/ /\ at[r] = Len(plan[r])
       /\ IF CanMove(s, "FAILED") THEN End(r, "failed", "FAILED") ELSE End(r, "crashed", s)

\* The except block around an attempt: the provider is charged with a failure,
\* its circuit and standing as the attempt left them in c and b.
ProviderFailed(r, c, b, s) ==
    /\ breaker' = [breaker EXCEPT ![Provider(r)] = AfterFailure(c)]
    /\ board' = [board EXCEPT ![Provider(r)] = IF b = "scored" THEN b ELSE "failing"]
    /\ IF OutputStarted(r)
       THEN End(r, "failed", IF s = "DISPATCHED" THEN "FAILED" ELSE s)
       ELSE NextAttempt(r, s)

-----------------------------------------------------------------------------
(* Actions *)

Init ==
    /\ breaker = [p \in Providers |-> Closed]
    /\ board = [p \in Providers |-> "unknown"]
    /\ spend = [u \in Users |-> 0]
    /\ inflight = [p \in Providers |-> 0]
    /\ load = [k \in Users \X Providers |-> 0]
    /\ running = NoRequest
    /\ phase = [r \in Requests |-> "idle"]
    /\ mode = [r \in Requests |-> "complete"]
    /\ state = [r \in Requests |-> "RECEIVED"]
    /\ plan = [r \in Requests |-> <<>>]
    /\ at = [r \in Requests |-> 1]
    /\ text = [r \in Requests |-> {}]
    /\ charged = [r \in Requests |-> 0]
    /\ ledger = [r \in Requests |-> 0]
    /\ audited = [r \in Requests |-> 0]
    /\ peak = [u \in Users |-> 0]

\* The rate limiter or the strategy raises before anything is attempted.
Refuse(r) ==
    /\ LoopFree /\ phase[r] = "idle"
    /\ \E s \in {"RECEIVED", "CLASSIFIED"} : End(r, "refused", s)
    /\ UNCHANGED <<shared, mode, plan, text, charged, ledger, audited>>

\* Admission, classification, the strategy's choice, the order of attempts.
Route(r) ==
    /\ LoopFree /\ phase[r] = "idle"
    /\ \E m \in Modes, d \in Decisions : \E attempts \in OrderAttempts(d) :
        /\ mode' = [mode EXCEPT ![r] = m]
        /\ plan' = [plan EXCEPT ![r] = attempts]
    /\ state' = [state EXCEPT ![r] = "ROUTED"]
    /\ phase' = [phase EXCEPT ![r] = "routing"]
    /\ running' = r
    /\ UNCHANGED <<shared, at, text, charged, ledger, audited>>

\* fault: a guardrail rejection counts as a provider failure
SkipBlames(r) ==
    /\ running = r /\ ~CanDispatch(r)
    /\ ProviderFailed(r, breaker[Provider(r)], board[Provider(r)], state[r])
    /\ UNCHANGED <<spend, inflight, load, peak, mode, plan, text, charged, ledger, audited>>

\* A guardrail rejects the candidate: no provider is blamed for it.
Skip(r) ==
    /\ running = r /\ ~CanDispatch(r)
    /\ NextAttempt(r, state[r])
    /\ UNCHANGED <<shared, mode, plan, text, charged, ledger, audited>>

\* AdapterRegistry.get raises before the request is dispatched.
MissingAdapter(r) ==
    /\ running = r /\ CanDispatch(r)
    /\ Provider(r) \notin Adapters
    /\ ProviderFailed(r, AfterCheck(breaker[Provider(r)]), board[Provider(r)], state[r])
    /\ UNCHANGED <<spend, inflight, load, peak, mode, plan, text, charged, ledger, audited>>

Dispatch(r) ==
    /\ running = r /\ CanDispatch(r)
    /\ Provider(r) \in Adapters
    /\ breaker' = [breaker EXCEPT ![Provider(r)] = AfterCheck(@)]
    /\ state' = [state EXCEPT ![r] = IF @ \in {"ROUTED", "FALLBACK"} THEN "DISPATCHED" ELSE @]
    /\ Begin(r)
    /\ phase' = [phase EXCEPT ![r] = "awaiting"]
    /\ running' = NoRequest
    /\ UNCHANGED <<board, spend, mode, plan, at, text, charged, ledger, audited>>

\* A stream hands the caller a non-empty piece of text.
Chunk(r) ==
    /\ LoopFree /\ phase[r] = "awaiting" /\ mode[r] = "stream"
    /\ text' = [text EXCEPT ![r] = @ \cup {Model(r)}]
    /\ UNCHANGED <<shared, running, phase, mode, state, plan, at, charged, ledger, audited>>

CallFails(r) ==
    /\ LoopFree /\ phase[r] = "awaiting"
    /\ Finish(r)
    /\ ProviderFailed(r, breaker[Provider(r)], board[Provider(r)], state[r])
    /\ UNCHANGED <<spend, mode, plan, text, charged, ledger, audited>>

\* _respond up to the budget charge: the circuit closes, the state machine
\* moves, the spend is recorded.
Charge(r, cost) ==
    /\ CanMove(state[r], "RESPONDED")
    /\ spend' = [spend EXCEPT ![UserOf[r]] = @ + cost]
    /\ charged' = [charged EXCEPT ![r] = @ + 1]

Answer(r) ==
    /\ LoopFree /\ phase[r] = "awaiting"
    /\ Finish(r)
    /\ \E cost \in Costs : Charge(r, cost)
    /\ breaker' = [breaker EXCEPT ![Provider(r)] = AfterSuccess(@)]
    /\ board' = [board EXCEPT ![Provider(r)] = "scored"]
    /\ ledger' = [ledger EXCEPT ![r] = @ + 1]
    /\ audited' = [audited EXCEPT ![r] = @ + 1]
    /\ End(r, "answered", "RESPONDED")
    /\ UNCHANGED <<mode, plan, text>>

\* The ledger insert (n = 0) or the audit append (n = 1) raises inside
\* _respond: the answer is lost and the provider is charged with a failure.
BookkeepingFails(r) ==
    /\ LoopFree /\ phase[r] = "awaiting"
    /\ Finish(r)
    /\ \E cost \in Costs : Charge(r, cost)
    /\ \E n \in {0, 1} : ledger' = [ledger EXCEPT ![r] = @ + n]
    /\ ProviderFailed(r, AfterSuccess(breaker[Provider(r)]), "scored", "RESPONDED")
    /\ UNCHANGED <<mode, plan, text, audited>>

\* An answer for a request that already moved to RESPONDED: the transition
\* raises after the circuit closed and before anything is charged.
SecondAnswer(r) ==
    /\ LoopFree /\ phase[r] = "awaiting"
    /\ Finish(r)
    /\ ~CanMove(state[r], "RESPONDED")
    /\ ProviderFailed(r, AfterSuccess(breaker[Provider(r)]), board[Provider(r)], state[r])
    /\ UNCHANGED <<spend, mode, plan, text, charged, ledger, audited>>

\* The task is cancelled or the stream closed: only the finally block runs.
Cancel(r) ==
    /\ LoopFree /\ phase[r] = "awaiting"
    /\ Finish(r)
    /\ End(r, "cancelled", state[r])
    /\ UNCHANGED <<breaker, board, spend, mode, plan, text, charged, ledger, audited>>

Tick ==
    /\ \E p \in Providers : IsOpen(breaker[p])
    /\ breaker' = [p \in Providers |-> AfterTick(breaker[p])]
    /\ UNCHANGED <<board, spend, inflight, load, running, phase, mode, state,
                   plan, at, text, charged, ledger, audited, peak>>

Settle(r) == CallFails(r) \/ Answer(r) \/ BookkeepingFails(r) \/ SecondAnswer(r)
Attempt(r) == Skip(r) \/ MissingAdapter(r) \/ Dispatch(r)

Next ==
    \/ \E r \in Requests :
        \/ Refuse(r) \/ Route(r)
        \/ Skip(r) \/ MissingAdapter(r) \/ Dispatch(r)
        \/ Chunk(r)
        \/ CallFails(r) \/ Answer(r) \/ BookkeepingFails(r) \/ SecondAnswer(r)
        \/ Cancel(r)
    \/ Tick

Spec == Init /\ [][Next]_vars

\* The loop resumes a ready task, and wait_for ends every call of complete();
\* nothing ends a stream that neither finishes nor fails.
Fairness ==
    \A r \in Requests :
        /\ WF_vars(Attempt(r))
        /\ WF_vars(mode[r] = "complete" /\ Settle(r))

FairSpec == Spec /\ Fairness
-----------------------------------------------------------------------------
(* Properties *)

CallsOn(p) == {r \in Awaiting : Provider(r) = p}
CallsOf(u, p) == {r \in CallsOn(p) : UserOf[r] = u}

\* The in-flight counters that least-busy and tenant-fair routing read count
\* exactly the calls the engine is waiting for, whatever way each one ends.
InflightMatchesCalls ==
    /\ \A p \in Providers : inflight[p] = Cardinality(CallsOn(p))
    /\ \A u \in Users, p \in Providers : load[<<u, p>>] = Cardinality(CallsOf(u, p))

\* A request is charged at most once, however many of its provider calls were
\* answered, and the three books of it never get ahead of one another: an audit
\* record has its ledger row, a ledger row has its budget charge.  The audit
\* log holds exactly the requests that were answered.
BooksAgree ==
    \A r \in Requests :
        /\ audited[r] <= ledger[r] /\ ledger[r] <= charged[r] /\ charged[r] <= 1
        /\ audited[r] = 1 <=> phase[r] = "answered"

\* complete() that ends in RoutingFailedError has charged its caller nothing:
\* once a charge is booked, the only other way out is StateTransitionError.
FailureIsFree ==
    \A r \in Requests :
        /\ phase[r] = "failed" /\ mode[r] = "complete" => charged[r] = 0
        /\ phase[r] = "crashed" => charged[r] = 1

\* Read from outside, every request is a stream that keeps StreamContract.
Voice(r) == IF text[r] = {} THEN NoModel ELSE CHOOSE m \in text[r] : TRUE
Author(r) == IF phase[r] = "answered" THEN Model(r) ELSE NoModel
Outcome(r) ==
    CASE phase[r] = "answered" -> "answered"
      [] phase[r] = "failed" -> "failed"
      [] phase[r] = "crashed" -> "crashed"
      [] phase[r] = "refused" -> IF state[r] = "RECEIVED" THEN "failed" ELSE "crashed"
      [] phase[r] = "cancelled" -> "closed"
      [] OTHER -> "open"

Contract(r) == INSTANCE StreamContract WITH
                  voice <- Voice(r), outcome <- Outcome(r), author <- Author(r)

\* Through all its attempts, skips and fallbacks a request shows its reader one
\* model's text, ends once, and raises nothing but a routing error after text.
KeepsStreamContract ==
    /\ \A r \in Requests : Contract(r)!ContractInit
    /\ [][\A r \in Requests : [Contract(r)!ContractNext]_(Contract(r)!contract)]_vars

\* The budget is checked before a call and charged after it, so calls in flight
\* together may overshoot the cap: by one cost for each call the user ever had
\* in flight at once, and no more, however many requests there are.
OvershootBounded ==
    \A u \in Users, c \in Costs :
        (\A d \in Costs : d <= c) =>
            spend[u] + c * Cardinality(UserCalls(u)) <= Cap + c * peak[u]

\* A circuit gains a failure, or a fresh recovery window, only from a call that
\* ended in an exception or from a provider without an adapter: never from a
\* guardrail that skipped a candidate, nor from a caller that went away.
OnlyAttemptsTripCircuits ==
    [][\A p \in Providers :
        \/ breaker'[p].failures > breaker[p].failures
        \/ breaker'[p].wait > breaker[p].wait
        => \/ p \notin Adapters
           \/ \E r \in CallsOn(p) : phase'[r] \notin {"awaiting", "answered", "cancelled"}]_vars

\* A provider whose circuit is open gets no new call, and a circuit is open or
\* recovering exactly when its failures reached the threshold.
OpenCircuitGetsNoCall ==
    [][\A p \in Providers :
        /\ inflight'[p] > inflight[p] => ~IsOpen(breaker[p])
        /\ breaker'[p].wait # Never <=> breaker'[p].failures = Threshold]_vars

\* Every call of complete() ends, and so does the request, through all its
\* fallbacks, failed guards and lost answers.
EveryCompleteEnds ==
    \A r \in Requests : phase[r] \in Waiting /\ mode[r] = "complete" ~> phase[r] \in Ended

\* "Stays open for 60 seconds" (SAFETY.md:10): an open circuit only counts down
\* or starts a new window.
StaysOpenForWindow ==
    [][\A p \in Providers :
        IsOpen(breaker[p]) => breaker'[p].wait \in {breaker[p].wait, breaker[p].wait - 1, Window}]_vars

\* "Only genuine dispatch errors (timeouts, adapter/HTTP errors) count toward
\* the circuit breaker" (SAFETY.md:65): the step that charges an answer leaves
\* the provider's circuit without a failure.
OnlyDispatchErrorsCount ==
    [][\A r \in Awaiting :
        charged'[r] > charged[r] => breaker'[Provider(r)].failures = 0]_vars

=============================================================================
