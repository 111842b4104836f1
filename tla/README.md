# A verification of nexus-llm-router

The repository is an LLM gateway: FastAPI endpoints in front of a router that
picks a model, calls its provider, falls back to others, and keeps the books.
This directory holds TLA+ models of it, TLC runs that check them on small
instances, and proofs that TLAPS checks for every value of the constants.

Paths below are relative to the repository root.

## 1. Inventory

| Component | State it keeps | Operations | What makes it correct |
|---|---|---|---|
| Routing engine, `src/router/engine.py` | the attempt loop of every request in flight | `complete`, `complete_stream`, `_respond`, `_order_attempts` | a request ends, is charged at most once, never splices two answers |
| Request lifecycle, `src/router/state.py` | `current_state` per request | `transition` | only the transitions of the table |
| Circuit breaker, `src/safety/circuit_breaker.py` | failures and `opened_at` per provider | `assert_available`, `record_success`, `record_failure` | only provider failures trip it; an open circuit gets no call |
| Budget, `src/safety/budget.py` | spend per subject, in memory | `assert_can_spend`, `record_spend` | the spend stays near the cap under concurrency |
| In-flight statistics, `InflightStats` of `src/router/strategies.py` | calls per provider, per tenant and provider | `begin`, `finish`, and the tenant pair | counters equal the calls, however a call ends |
| Fallback scoreboard, `src/router/fallback_scoreboard.py` | attempts, successes, latency per provider | `record_outcome`, `rank` | healthier providers first |
| Adapter registry, `src/adapters/registry.py` | provider name to adapter | `get` | an unknown provider is a failed attempt, not a crash |
| Idempotency store and gateway guards, `src/safety/idempotency.py`, `src/safety/gateway_guards.py` | SQLite rows, shared by processes | `reserve`, `complete`, `release`, `get` | one run per key and lease, replays are answers, a dead owner blocks nobody for good |
| HTTP handlers, `src/api/main.py` | none of their own | chat, responses, models, spend, health | the order guard, claim, cache, router, store, release |
| Rate limiters, `src/safety/rate_limiter.py`, `src/safety/tenant_rate_limiter.py` | a bucket per API key, per tenant | `assert_allowed`, `remaining` | no stretch of time admits more than capacity and refill; nothing owed is withheld |
| Response caches, `src/cache/` | entries with a lifetime | `get`, `set` | no answer of another tenant, nothing stale |
| Responses API, `src/api/responses.py` | one event stream per request | preflight, deltas, terminal event | exactly one terminal event |
| Strategies, `src/router/strategies.py`, 124 of them | none, but for 15 that keep buckets, quotas, pins, streaks or their last decisions | `choose`, and what the engine records of calls | a catalog model and a chain; what one provider does moves the traffic it should and no other; what is remembered of one client changes nothing for another and holds a client at what is down only where the strategy finds nothing else fit |
| Windows of the strategies, the same file | samples per provider, tenant or tier | `observe`, `record`, queries | a window holds what is recent, an average is of what it holds |
| Spend ledger and audit log, `src/safety/spend_ledger.py`, `src/router/audit.py` | SQLite rows, a JSON-lines file | `record`, `append`, summaries | one row and one record per answered request |
| Library controls, `src/safety/` (concurrency caps, priority lanes, back-pressure, virtual keys, grace periods) | counters, queues | acquire, release, ... | caps hold, no slot leaks |
| Advisors, `src/safety/` (about 150 small files) | sliding samples at most | classify a measurement | the band matches the measurement |
| Analyzer, adapters, observability, configuration | none that routing depends on | | |

### How they interact

A handler passes the gateway guards (API key, prompt injection, tenant rate
limit), reserves the idempotency key, looks into the response cache and awaits
`NexusRouter.complete`. The router asks its rate limiter, classifies, lets a
strategy decide, orders the attempts by the scoreboard, and for each one asks
the budget and the circuit breaker, awaits the adapter, and either answers
(budget, ledger, audit, scoreboard, breaker) or goes on to the next. The handler
then stores the answer under the key, or releases it when anything was raised.

Everything in one process runs on one asyncio event loop, so two requests
interleave only where a task awaits. Processes share the SQLite files only: each has
its own circuits, budget, response cache and memories of the strategies, and loses them
when it stops.

### What is hard here

* A check before an `await` and its effect after it: budget, circuit, cache.
* Late answers and late failures, of calls dispatched under an older state.
* Cancellation and closed streams in the middle of a call.
* Bookkeeping that fails after the money was spent.
* Leases: a process dies, or outlives its lease, or answers after another
  request has taken the key.
* The text of a stream that is already with the caller when a provider fails.
* Clock arithmetic at boundaries: refills, windows, expiries.

`PROJECT.json` lists these hazards at their lines, with the properties aimed at
each one.

## 2. Modules

| Module | Models |
|---|---|
| `RoutingState` | the lifecycle table of `state.py` |
| `CircuitBreaker` | one provider's circuit, as the registry's operations change it |
| `RoutingEngine` | `complete` and `complete_stream` of many requests over shared breakers, budget, scoreboard, counters, ledger and audit log |
| `OnceOnly` | the abstract promise of an Idempotency-Key |
| `IdempotentGateway` | the handlers and the SQLite store that implement it |
| `StreamContract` | what a stream of the router promises its reader |
| `EventStream` | the event streams both endpoints make of such a stream |
| `TokenBucket` | both rate limiters |
| `Builtins` | Python's `min`, `max` and `sorted` with a key, and its order of tuples |
| `ModelCatalog` | the candidates, what the keys say of them, and the base class of the strategies |
| `StaticStrategies` | the strategies that decide by the request, the catalog and the circuits |
| `MeasuredStrategies` | those that also read latencies, loads, success rates, spend |
| `CapabilityStrategies` | those that prefer models with a capability |
| `Deciding` | one client that is routed again and again while circuits and measurements change |
| `StatefulStrategies` | the strategies that remember: what a decision returns and what it leaves behind |
| `Remembering` | tasks of the event loop that ask them for two clients while time passes and calls end |
| `GatewayProcesses` | several processes over one table and one ledger, each with a response cache and a budget: `IdempotentGateway` with what surrounds a run |
| `MCRoutingEngine`, `MCIdempotentGateway`, `MCGatewayProcesses`, `MCEventStream`, `MCTokenBucket`, `MCDeciding`, `MCRemembering` | the small instances |
| `RoutingEngineProofs`, `IdempotentGatewayProofs`, `GatewayProcessesProofs`, `EventStreamProofs`, `TokenBucketProofs`, `BuiltinsProofs`, `DecidingProofs`, `RememberingProofs` | theorems |

Definitions that begin with the comment "fault:" are deliberate bugs. They are
used nowhere; each is swapped for the definition below it to see that a
property notices.

### RoutingEngine

`phase[r]` says where the task of request r is: *routing* while it holds the
event loop between two steps of the attempt loop, *awaiting* while a provider
call is open, or ended. `running` is the task that holds the loop; an action
that resumes another task needs it free, which is exactly the interleaving
asyncio gives.

| Action | Code |
|---|---|
| `Refuse` | the rate limiter or the strategy raises before any attempt |
| `Route` | admission, classification, decision, `_order_attempts` |
| `Skip` | `assert_can_spend` or `assert_available` raises `GuardrailError`: next candidate, nobody is blamed |
| `MissingAdapter` | `AdapterRegistry.get` raises: a failed attempt before dispatch |
| `Dispatch` | guards pass, the state machine moves, the in-flight counters go up, the task awaits |
| `Chunk` | a stream yields a non-empty piece |
| `CallFails` | the call ends in an exception or a timeout |
| `Answer` | `_respond`: circuit closed, transition, spend, ledger, audit, scoreboard |
| `BookkeepingFails` | the ledger or the audit raises inside `_respond`; the `except` of the attempt catches it |
| `SecondAnswer` | an answer for a request already RESPONDED: the transition raises |
| `Cancel` | the task is cancelled, or the stream closed: only `finally` runs |
| `Tick` | the recovery windows of open circuits run down |

Abstractions. Money is counted in integer units and the float tolerance of the
budget check is dropped. A failure count is compared with the threshold only, so
it saturates there. `opened_at` and the clock are a countdown. The scoreboard
keeps whether a provider's score is unknown, zero or positive, and leaves the
order of two positive scores open, which covers every latency. The strategy may
take any decision out of `Decisions`. The tenant of the in-flight key is the user.

### IdempotentGateway

A key is a primary key (key, tenant) of the table. Every operation of the store
is one `BEGIN IMMEDIATE` transaction and one action, as is everything a handler
does between two awaits. `left` is the lifetime a row still has. A crash leaves
the row behind. `bills` counts the requests charged per key, up to the bound `MostBills`:
2 where it is looked at, 0 where it is not. The router is one interval between reserve and complete, of at
most `MaxRun` ticks: the handler makes at most (number of attempts) calls, each
under `wait_for`. The chosen model and three fallbacks at the default of 30
seconds make 120, against a default lease of 300.

| Action | Code |
|---|---|
| `Claim`, `Conflict`, `Replay` | the three outcomes of `reserve`: the row is ours, 409, the stored answer |
| `Stream` | a streamed chat: `get` only, never a claim |
| `Answer` | the router returned; `complete_idempotency` |
| `Fail` | an exception; `release_idempotency`, which may fail too |
| `FallBack` | the ledger or audit write of a charged answer raises; the run awaits its fallback, whose answer it cannot take any more (`paid`) |
| `Crash` | a process dies and with it all the runs it has; the rows stay. One run at most was between charge and answer, those in a fallback may be charged already |
| `Tick` | time passes; rows and runs get older |

`SingleFlight` says that a claim is alone with its key while its lease is up, however long
runs are. That a lease outlives every run is a matter of the settings, and only with it
(`MaxRun < Lease`) does `KeepsPromise` hold, which implies that no two runs of a key ever meet.

`KeepsPromise` is the refinement: with `executing <- Running`, the unexpired
answers as `remembered` and `got` as `answer`, every behaviour is one of
`OnceOnly`.

### GatewayProcesses

`IdempotentGateway` leaves open where a run has its answer from. Here `_complete_cached`
is inside it: a run is answered from the cache of its process, by a provider, or by
nobody because the budget refuses it, and `source` says which. The cache is read before
the router's await and written after it, the budget checked before and charged after,
and both are gone when the process stops, while the table and the ledger stay.

A run that finds an entry awaits nothing. It is one run of two steps in the model
(`Begin`, then `Finish` or `Break`) as in the module it extends, and `Turn` keeps
everything else of its process out of the way between them, as the event loop does; other
processes go on.

| Action | Code |
|---|---|
| `Begin` | `reserve`, `ResponseCache.get`, and on a miss `assert_can_spend` and the dispatch |
| `Reply` | 409, or the stored answer |
| `Finish` | charge, ledger, `ResponseCache.set`, `complete_idempotency`; or the cached answer and `complete_idempotency` |
| `AskFallback` | a ledger or audit that cannot be written after the charge, with a fallback left that the budget lets pass |
| `Break` | the same up to some point: no answer, or none that a run charged before can take, a ledger or audit that cannot be written after the charge, a table that cannot be written after the text was cached |
| `Restart` | a process ends, with or without runs, and is started again |
| `PassTime` | entries, rows and texts get older |

All requests are equal and of one tenant, so there is one cache key and one subject of
the budget, and each answer costs 1. `old` is how long ago the text that a request was
given was generated, which neither the cache nor the table knows.

### StreamContract and EventStream

`StreamContract` is the meeting point of two components. The engine implements it
for each of its requests: `KeepsStreamContract` reads `voice`, `outcome` and `author`
off a request (the model whose text has left the generator, how the stream ended,
whose answer completed it). `EventStream` then takes it for the environment of a
handler, so the engine's interleavings need not be multiplied with the handler's.

A handler pulls the generator, which yields text or an empty chunk, returns, or
raises; it yields its own frames one by one, and at each of them the client may be
gone (`Leave`). The Responses endpoint looks for the first text before it sends
anything (`PreflightText`, `PreflightEmpty`, `PreflightEnds`, `PreflightRaises`), and
only while it does can an error still become an HTTP status. The chat endpoint opens
its stream at once and reports errors inside it. `crashed` is an exception that is
none of `ROUTING_ERRORS`: the contract allows it only before any text, where the
handlers let it through. Payloads are frames of a type, a model and a text; a text is
a sequence of numbered pieces, so that a lost, repeated or moved one shows. `Lifecycle`
is the protocol of the frames, with one delta (or chunk) for each piece the router
yields; `TextIntact` says that the n-th piece a client receives is the n-th yielded.

### Strategies

A strategy is an operator from a question `q`, which holds what strategies read of
the request, of its signals and of the state of the router, to a decision: the model
chosen and the chain of up to three others. `Best` and `Sorted` keep what Python does
with ties: `min`, `max` and `sorted` take equal keys in the order of the catalog, and
a key may end in the name, which `max` takes from the end of the alphabet and
`sorted` from the beginning. Hashes of ids are fields of the question with any value.
Floats are integers: quality and rates in per cent, money in millionths of a
dollar, and quotients are compared by cross-multiplication (`Ratio`). Parsing of
metadata is left out: the question has what it yields, a set of capabilities, a
set of keys with a true value.

109 of the 124 strategies are there; the other 15 remember, and are in
`StatefulStrategies`. 31 of the 109 differ in three constants only: which
keys of the metadata ask, which allowlist answers, which capability it is about
(`Prefer`).

`Deciding` looks at decisions over time. In a step one circuit opens (`Trip`),
lets calls through again (`Recover`), closes (`Close`), or one measurement of one
provider gets better (`Improve`), and the same request is decided again (`Ask`). The
properties compare the two decisions, which no test of a single `choose` does:

* `OpenCircuitIsLastResort`: a strategy that asks for the circuits takes a
  provider that is down only if all that serve the request are.
* `FailoverFollowsChain`: when the circuit of the chosen provider opens, the next
  request goes where the chain of the last one already pointed. It is about the
  strategies that build their chain in the order they choose in (`Ranking`), and holds up
  to ties of quality and cost: `max` and `sorted` break them in opposite ways. Three of
  them choose by speed and build the chain without the price (`AnyPrice`), and
  `ProviderWarmupWeight` ranks by its blended score. Left out are those whose chain is
  in another order than their choice: `ReliabilityAware` fills it from the whole catalog,
  `ProviderSuccessFloor` and `ProviderErrorBudgetShed` choose by quality and chain by
  success.
* `CircuitMovesOnlyItsOwn`: nobody leaves a healthy model when another provider goes
  down. `Unsettled` names the seven strategies that break this, each by design of its
  pick: a hash modulo the number of models that are up, the second cheapest of those,
  a comparison with another provider that has gone, a median of those that are left, a
  set of exclusions that becomes total, an anomaly with nothing cheaper left that is up.
* `GainDrawsToItself`: a provider that improves may win traffic, but moves none
  between two others. `Comparing` names the nine that break it. Five scale a component to
  the range it has among the candidates (`MinMaxBlends`), so one provider's latency changes
  how the others compare (a rank reversal); four weigh a candidate against the best,
  the fastest or the most spent of the others, or by how many tie.
* `GainKeepsTraffic`: no provider loses traffic by improving, in any of the 109.

### Strategies that remember

What such a strategy keeps between decisions is a record `m` with a field for each of
the six ways in which they remember: buckets, rolling windows, the last decisions, pins,
their lifetimes, counters. `choose` is an operator from a question and `m` to a decision and
the next `m`; `Refusal` is an exception. The code changes its memory inside `choose`,
before any call is made, and so does the operator. What a tenant asked for or spent leaves
its window by age only (`Recorded`); the windows of tiers are also cut to `max_timestamps`
(`Called`, `Pruned`). Amounts leave a window one tick after
the instant the code counts for the last time. Refills and expiries happen in `Tick`
where the code catches up with the clock when it reads; in both a reader sees the same.

`Remembering` lets tasks ask for their clients. Two strategies learn from the calls that
follow, `RegionFailoverHysteresis` and `TenantBudgetCascade`, and for them a task walks
through its attempts (`Fail`, `Answer`, `Cancel`; `FailToAudit` for an answer that is recorded
before the audit log raises, and then recorded as a failure too, so that the fallback's answer
comes to nothing) while others decide; which fallbacks are
skipped, and in which order they are tried, is left open, as the engine's scoreboard and
guards are not part of this module. For the others a decision is all there is.

* `Isolated`: what one tenant or session asks, and what is recorded when its calls end,
  changes the decision of no other, for the eight strategies that remember each of them. The
  streaks of `RegionFailoverHysteresis` are those of a region, so for it asking alone is meant.
* `NoisyNeighbour`: under `TenantFairQueue`, whose window is common to all, a tenant
  known to it takes the finest model from nobody by asking more.
* `SessionStays`: a session is moved by its provider failing, or its pin running out,
  and by nothing else.
* `NothingHoldsTheDead`: what is remembered holds a request at a model whose circuit is open
  only where nothing that is up will do. For most that means that no other that serves it is
  up. `StickySessionMigrate` keeps its pin on a provider that is down sooner than migrate to
  one below its success threshold (`src/router/strategies.py:8943`), so it is held only while
  none that is up meets the threshold, and when one does it goes to such a one.
  `ProviderCircuitProbe` prefers a leader that is down only while all that are up are half
  open. And `StickyRegionDrain` stays in no region that drains while a model that is up is
  elsewhere.
* `EvenShares`: `ProviderQuotaFairShare` keeps the shares within one decision of equal
  from above and n - 1 from below, at every length of its window.
* `SpendBounded`: the ceiling of `TenantBudgetCascade` is passed by what the other calls in
  flight that are not charged yet can cost, and by no more.
* `ProbesRationed`: the probes of a leader are counted over all its recoveries until
  it has closed.
* `PollingIsServed`: asking again and again does not postpone what a client waits for.

### TokenBucket

A tick refills one unit and a request costs `Cost` of them. Reading the clock
and touching the bucket are separate steps, because the tenant limiter reads
the clock before it takes its lock. `taken` and `mark` are an observer that may
start counting at any instant between two calls, so `RateBound` speaks of every
interval and not only of those that begin at the start.

## 3. Runs

| Run | Instance | Shows |
|---|---|---|
| `engine_safety` | 3 requests, 3 models on 3 providers of which one has no adapter, both modes, cap 2, threshold 2 | types, exact in-flight counters, agreeing books, free failures, bounded overshoot; who may trip a circuit |
| `engine_liveness` | 2 requests, fair | `complete` ends; every request refines `StreamContract` |
| `engine_open_window` | window of 2 ticks | violated: a late answer closes an open circuit |
| `engine_bookkeeping` | 2 requests | violated: a ledger failure is booked on the provider |
| `event_streams` | 2 models, 3 pieces of text, 2 empty chunks, both endpoints | frames in order, exactly one terminal event unless the client left, the whole text once, one model named |
| `gateway_promise` | 5 requests, 1 of them a stream, 2 keys, lease 3, run 2 | the refinement, replays, retries get through |
| `gateway_processes` | 4 requests, 2 keys, 2 processes, lease 1, run 1, table 1, cache 2, cap 2 | a claim alone within its lease, no stale text, no second payment while the answer is cached, the ledger bounded over restarts, and live rows respected though runs outlive their leases |
| `gateway_billing` | 2 requests, 1 key | violated: a retry after a failure is billed again |
| `limiter_event_loop` | 2 subjects, 1 thread | rate bound, nothing withheld |
| `strategies` | 4 models on 3 providers, 2 domains, 109 strategies | the five properties above |
| `remembering` | 3 models on 3 providers in 2 regions, 2 clients, 2 tasks, 15 strategies | the eight properties above |
| `region_hysteresis` | the same, one strategy | violated: answers of one region count for another |

Bounds. Three requests are the fewest with which an older call can fail, or
answer, while one request probes a circuit and another is in its fallback; two
failures open a circuit, so the count matters; a cap of two units lets one call
pass and two overshoot. Decisions of three models and of two, in opposite orders,
give a fallback before and after the provider that has no adapter. A lease of
three ticks and runs of two is the smallest pair that respects
`MaxRun < Lease` and leaves room for a row to expire at each stage; in
`gateway_processes` a lease of one is up while a run of one has not ended, so that two runs of
a key do meet. Three duplicates of a key are an owner, a successor and a client that replays; the second key shows that eviction reaches other keys. The
buckets hold two requests and the horizon is almost two refills long. Three pieces of
text put one in the preflight, one in the middle and one at the end; two empty chunks
are one of an attempt that fails and one of the attempt that answers.

In `gateway_processes` two requests of one process and one of the other share a key, so
that a retry meets the cache in one and misses it in the other; the fourth, with a key of
its own, is in flight beside them, which is what takes the spend over the cap of two. A
cache lifetime of two ticks lets an entry be hit when it is new and when it is not, and
texts are told apart up to an age beyond both lifetimes.

In `remembering` buckets and pins hold two or three units and an entry leaves its window at
the second tick, so that they are empty, part full and full within a few steps; a tenant's window grows to five
answers, more than the three to which a tier's is cut; the budget of five against models that
cost one, two and three fits some of them and not others; the window of seven decisions
of `ProviderQuotaFairShare` is no multiple of the three providers.

The catalog of `MCDeciding` has two models equal in quality and price on two providers
(ties), a better and dearer one on a third, and a cheap one that shares a provider and
has long-prompt rates. Each strategy is asked over the product of the fields it
reads (`Readers`), each field taking values on both sides of the threshold it is
compared with; domain `code` is served by three models and `legal` by none, which is the
fallback to the whole catalog. Measurements begin at their worst for all providers and
improve one at a time to any of `Levels`, so all the combinations are reached.

`CHECK_DEADLOCK FALSE` everywhere: when all requests have ended, or the clock is
at its horizon, the model rightly stops.

Symmetry is used where no liveness is checked: for the requests of `engine_safety`, which
all belong to one user, and for the two of `gateway_processes` with one key and one process.

Fairness. The event loop resumes a task that is ready (`WF` of `Attempt`), and
`wait_for` ends every provider call of `complete`, one way or another
(`WF` of `Settle`, which includes the answer and the failure). Nothing is assumed
of streams, which have no such deadline. In the gateway a client refused with 409
asks again, a run ends, and time passes. In `Remembering` time passes and each task
asks for its client again and again, which is what polling is; nothing is assumed of
circuits, calls or measurements.

### Where the code and its documents differ

* `StaysOpenForWindow`: "Stays open for 60 seconds" (`SAFETY.md:10`). The answer of
  a call dispatched earlier closes the circuit at once.
* `OnlyDispatchErrorsCount`: "Only genuine dispatch errors ... count"
  (`SAFETY.md:65`). A ledger or audit exception counts too.
* `BilledOnce`: replay "instead of ... double-billing"
  (`docs/guides/IDEMPOTENCY_STORE_GUIDE.md:4`). A run that was charged and then failed
  releases its key.
* `StreaksAreOfTheirRegion`: "Do not return to the preferred region until it accumulates
  ... consecutive successes" (`docs/guides/REGION_FAILOVER_HYSTERESIS_GUIDE.md:22`). The
  engine credits the region that the request asked for, whichever model answered: the
  sessions that were moved away produce the successes that bring them back.

Seen while modelling, with no run of its own. The budget's "hard" cap
(`src/safety/budget.py:9`) is checked before the await and charged after it, so
that calls in flight together overshoot it; `OvershootBounded` and `LedgerBounded` are what
does hold. `StickyRegionFailover` hashes a session modulo the number of models that are up,
so the trip of one provider moves sessions of the others, though it is documented to pin
them (`src/router/strategies.py:2917`). The tenant limiter has a lock and reads
the clock outside it: with two members in `Threads`, `RateBound` is violated; the service
calls it from one thread, where the bound is proved. The probe budget of
`CircuitBreakerHalfOpenProbe` changes the rationale and never the choice. The chain of
`RetryAfterRespect` puts a provider that cools down behind one whose circuit is open,
while its choice prefers the one that cools down.

## 4. Proofs

Every theorem holds for any number of requests, models, users, keys, and for all
costs, leases and capacities that the named assumptions admit.

*RoutingEngineProofs*, from `EngineAssumption`, `BreakerAssumption` and, where
cardinalities occur, `FiniteRequests`.
`TypeOK` is not inductive alone: that a routing task's index is in its plan needs
to know that the task that holds the loop is the one in phase *routing*
(`LoopOwner`), and that a request that never started has its initial record
(`IdleAtFirst`). `TypeCorrect` proves that conjunction. `InflightExact` counts with
it: one step adds or removes one element of the set of awaiting requests, so the
saturating decrement never saturates. `ChargedAtMostOnce` and
`FailureCostsNothing` rest on `Books`, which relates the three counters of a request
to its lifecycle state: charged exactly when RESPONDED. `BoundedOvershoot` needs
`Overshoot`, which adds what the calls in flight may still cost.
`StreamsKeepContract` is the refinement of `StreamContract`, step by step, for each request;
it needs `OneVoice`: only the current model of an unfinished stream has spoken.
`OpenCircuitsAreQuiet` and `NobodyElseTrips` rest on `CircuitStep`, which lists what a step
can do to a circuit, and on `CircuitsSound`: a window is set exactly when the count is full.

*IdempotentGatewayProofs*, from `GatewayAssumption`. `TypeCorrect`, `OwnersOnly` and
`ReplaysFaithful` hold whatever the lease; the last rests on `GivenInv`, that a stored row
is the answer which its own request was given. So does `OneRunPerKey`; it rests on `Claimed`:
the row of a run whose lease is up is pending, its own, and has `Lease - age` left.
`PromiseKept` alone assumes `MaxRun < Lease`, with which every run is such a one (`Leased`).

*GatewayProcessesProofs*, from the same and `ProcessesAssumption`, for any number of
processes. `IsGateway` shows that a step of `GatewayProcesses` is a step of
`IdempotentGateway` or a stutter, so that what is proved of the gateway holds of the
deployment; `ProcessesRespectOwners` and `ProcessesRunOnce` are the first uses of it. `TextsStayFresh` and
`DuplicatesArePaidOnce` rest on `AgeInv`: age and rest of a live entry make up its
lifetime, it is there whenever a provider has answered within that time, a run that hit it
ends before time passes (`CacheYoung`), and age and rest of a stored answer never exceed
both lifetimes (`RowsYoung`). `LedgerStaysBounded` adds up an allowance over all
processes, of which a step changes one (or, when time passes, none): the sums are
handled by the lemmas of `BuiltinsProofs` about `MapThenSumSet`, and its invariant bounds
what each process has spent by the cap and by what its calls in flight may still cost.

*EventStreamProofs*, from `StreamAssumption`, for any models and streams of any length.
`TypeCorrect` needs `TextSaid` (the text a handler has put together is what the router
has yielded). `FollowsProtocol` rests on `Scripted`: the frames sent and those about to be
sent make one `Script`, whose shape the stage of the handler tells, so that stopping
anywhere in it leaves a prefix of the protocol. `TextArrives` rests on `Numbered`, which says of
that script what `TextIntact` says of the frames received. `OneModel` rests on `NInv`: while a stream may still yield text the handler
holds the model that spoke (`ModelKept`), an answer is the speaker's (`ContractKept`), and
the frames sent and to be sent name the `Speaker` or nobody, in a Responses stream from the
start (`ResponsesNamed`), in a chat stream from its first text (`ChatNamed`).

*TokenBucketProofs*, from `BucketAssumption` and a single thread. `RateIsBounded` and
`NothingIsWithheld` rest on `StampsAreRecent` (the bucket was never touched after the
instant the thread holds) and `Balance` (what was taken, what is in the bucket and what
is due never exceed a full bucket and the elapsed time, and reach it if nothing was
taken).

*BuiltinsProofs*, from no assumption on the model. `Before` is a strict linear order on tuples of
numbers of one length, and with the place in the catalog it orders any pool (`EarlierOrder`).
The number of candidates ahead of one grows along that order (`AheadOrder`), so the places
are a bijection: `BestIsFirst`, `SortedIsPermutation` and `SortedIsOrdered` follow, without
induction over data. `Around` says that a walk from a hash around a ring meets every place of it.
Sums over finite sets have lemmas of their own, among them `OfTheMean` (somebody has no more
than an equal share) and `SumMoves` (what one gains and another loses). Where they need
induction over the sets, it is made by a smallest counterexample, as the library's
induction theorem cannot be instantiated.

*DecidingProofs*, from `CatalogAssumption`, `SettingsAssumption` and `QuestionsAssumption`.
`CircuitsRespected` is `OpenCircuitIsLastResort` for any catalog and settings. Its invariant,
`Fresh`, says that the decision is that of the strategy for the question as it is now. The
rest is one lemma for each way of choosing: from what is `Active`, from what is `Reachable`,
from pools of their own (`CircuitsFirst`), and by a hash (`RingIs`, `HashedLastResort`).
The assumptions are types, that the settings name models of the catalog, that the names of
strategies are those of `RoutingStrategyName` (`Known`), and one fact that `FailoverPriority`
needs: its list has a model of each provider, as the default has (`src/router/config.py:84`);
with a shorter list it would fall back to a provider that is down though another that is not
listed is up.

`WellDecided` is `TypeOK` for all 109 strategies. It rests on `Fresh` as well, and on one
lemma for each way of deciding which says that the outcome is `Usable`: chains cut from a
sorted list, chains by quality, walks around a ring, lists of the settings. It has a
hypothesis, `NamedOnce`: `FailoverPriority` hands on its list as it is
(`src/router/strategies.py:3925`), so that a model named twice comes twice in the chain.

`ChainIsFollowed` is `FailoverFollowsChain`, without that hypothesis. A decision `Follows` if
its choice is the first of an order and its chain what comes next in it. Keys that share
their leading numbers rank alike as far as those go (`HeadsAgree`), which is what makes the
choice by one key and the chain by another agree up to ties. Where the longer key of a chain begins
with what sets candidates back, such as a window too small, `HeadsBehind` says that among
those it does not tell apart the first stays the first.

*RememberingProofs*, from the assumptions of `ModelCatalog` and `Remembering`: the types of
the settings, a catalog, tasks and clients that are not empty, and a soft budget below
the hard one. For any number of tasks and clients and each of the fifteen strategies.

`StaysCoherent` is the invariant under the rest. `Coherent` says that what a strategy keeps is
well formed for *that* strategy (`Remembers`: whose buckets, windows and counters it has,
what its list holds, whether its pins are models or regions), that tasks walk through distinct
models, and that `outcome`, what would be decided next, is what the strategy decides for what
it sees now. There is one lemma for each strategy, `Sound`, on what it decides and that it
leaves a well-formed memory. `AlwaysUsable` and `NothingIsHeld` follow from it; the others add
one conjunct each:

* `SpendIsBounded`, `SpendInvariant`: with k calls of a tenant in flight and not charged yet
  there is one, the last
  decided, that its spend affords whichever model of its chain answers, and the others may
  each still cost what the dearest model costs. The spend alone is not inductive: what was
  affordable when it was decided need not be when it is answered.
* `ProbesAreRationed`, `ProbesInvariant`: the observer's count of probes never exceeds the
  strategy's, and both start again together, when the leader is seen closed.
* `SessionsStay`, `SessionInvariant`: the pin of a session is the last decision for it.
* `SharesAreEven`, `SharesInvariant`: no provider is more than one decision above an equal share.
  A provider far below one then follows by summing over the others, and the invariant is kept as
  the one that is chosen has the least share, which is no more than the mean.
* `NoNoisyNeighbour`: from `Coherent` at both ends of a step: the tenants heard of
  stay the same, and the request count that is compared with the fair share is the tenant's own.
* `ClientsAreIsolated`: each decision, and each record of a call but for the streaks, touches
  the memory of its own client only, and a decision reads that and nothing else of the memory
  (`EachIsOwn`).

Three of them have hypotheses that the code needs. `NothingIsHeld` asks of
`RegionFailoverHysteresis` that the regions of its settings cover every model (`Served`),
because it looks at no model of another region. `ProbesAreRationed` asks that others serve
what the leader serves, from other providers (`LeaderApart`): otherwise the strategy goes to
the leader without counting. `SharesAreEven` asks that every provider serves the requests
(`AllServe`): one that does not is left behind for good. All three hold in the instance of
`remembering`.

Only model-checked: liveness under fairness, which is out of this prover's reach
along with `ENABLED`, and three action properties of `Deciding` that compare decisions of one
strategy before and after a step (`CircuitMovesOnlyItsOwn`, `GainDrawsToItself`,
`GainKeepsTraffic`), which need a lemma for each of some hundred strategies. No model has a
RECURSIVE operator.

## 5. Not modelled

* The sliding windows behind the measurements of the 109 strategies (latencies, success
  rates, hourly spend, token rates, decaying weights). A question holds any value for
  them and `Deciding` changes one at a time, so nothing is concluded about how a window
  forgets; only the windows of the strategies that remember are modelled.
* `ProviderCircuitProbe` counts a probe when it decides; that the engine may refuse the
  dispatch of that very request for its budget, so that a leader stays unprobed, is not
  followed up.
* The library controls of `src/safety/` (concurrency caps, priority lanes, back-pressure,
  virtual keys, cancellation grace). No part of the gateway calls them.
* The advisors, one pure function of a measurement each, with nothing that depends on
  another actor or an earlier call.
* The fuzzy semantic cache, which no handler calls, and the spend, model and health
  endpoints, which read.
* The text analysis behind the classifier, the payload translation of the adapters,
  metrics and logging. Nothing above depends on more of them than the outcome of a call
  or a choice that the models leave open.

Next, in this order: the three action properties of `Deciding` that are only model-checked,
for the strategies that rank first; the library controls; the windows.
