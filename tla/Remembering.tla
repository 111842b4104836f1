------------------------------ MODULE Remembering ------------------------------
(***************************************************************************)
(* The strategies that remember, over time: tasks of the gateway ask for   *)
(* clients, again and again, while time passes, circuits open and close,   *)
(* providers get worse and better and regions are drained.                 *)
(*                                                                         *)
(* What a decision changes, it changes at once.  Two strategies also learn *)
(* from the calls that follow it: for them a task has a request in flight, *)
(* and the records that src/router/engine.py makes of its attempts come    *)
(* when they end, with those of other requests between.                    *)
(***************************************************************************)
EXTENDS StatefulStrategies

CONSTANTS
    Strategies,         \* the strategies asked, by the names of their classes
    Tasks,              \* what runs at the same time in the event loop
    Clients,            \* sessions or tenants
    Owner(_),           \* Owner(s)[t]: the client that task t asks for
    Profile,            \* Profile[c]: what is in every request of client c
    Circumstances       \* what the strategies see at first

ASSUME SettingsAssumption ==
    /\ {Settings.token, Settings.capacity, Settings.refill, Settings.window,
        Settings.hard_quota, Settings.soft_quota, Settings.hard_budget, Settings.soft_budget,
        Settings.cold_target, Settings.migrate_below, Settings.pin_ttl, Settings.hysteresis,
        Settings.warmup_requests, Settings.probe_budget} \subseteq Nat
    /\ Settings.soft_budget < Settings.hard_budget
    /\ {Settings.max_timestamps, Settings.share_lookback, Settings.cold_lookback,
        Settings.tenant_lookback, Settings.lane_lookback} \subseteq Nat \ {0}
    /\ Settings.regions \in Seq(STRING) \ {<<>>} /\ Settings.catalog_regions \in Seq(STRING)
    /\ NoRegion \notin ToSet(Settings.regions \o Settings.catalog_regions)
    /\ \A c \in Models : Catalog[c].regions \subseteq ToSet(Settings.catalog_regions)
    /\ \A c \in Models : Settings.tier_rpm[Tier(c)] \in Nat
    /\ Settings.rates \subseteq Int

ASSUME ClientsAssumption ==
    /\ Tasks # {} /\ IsFiniteSet(Tasks)
    /\ \A s \in Strategies : Owner(s) \in [Tasks -> Clients]
    /\ \A c \in Clients :
        /\ DOMAIN Profile[c] = {"client", "region", "lane", "key", "spread"}
        /\ Profile[c].client = c /\ Profile[c].region \in STRING
        /\ Settings.lane_quota[Profile[c].lane] \in Nat
        /\ Profile[c].key \in Nat
        /\ \A r \in (ToSet(Settings.regions \o Settings.catalog_regions) \cup
                    {Profile[c].region, Circumstances.warmup_region, "fallback"}) \ {NoRegion} :
                Profile[c].spread[r] \in Nat

ASSUME StrategiesAssumption ==
    Strategies \subseteq
        {"TokenBucketTenant", "TokenBucketBurst", "ModelTierRateLimit", "TenantQuotaBurst",
         "TenantBudgetCascade", "ProviderQuotaFairShare", "ProviderColdStartBias",
         "TenantFairQueue", "TenantPriorityLanes", "StickySessionMigrate",
         "StickyModelPinExpire", "RegionFailoverHysteresis", "StickyRegionWarmup",
         "StickyRegionDrain", "ProviderCircuitProbe"}

ASSUME CircumstancesAssumption ==
    /\ DOMAIN Circumstances = {"domain", "prompt", "max_tokens", "warmup_region", "open",
                               "half_open", "draining", "success", "latency"}
    /\ Circumstances.prompt \in Nat /\ Circumstances.max_tokens \in Nat
    /\ Circumstances.open \in SUBSET Providers
    /\ Circumstances.half_open \in SUBSET (Providers \ Circumstances.open)
    /\ {Circumstances.success, Circumstances.latency} \subseteq [Providers -> Int]

VARIABLES
    strategy,           \* the strategy asked
    sees,               \* circuits, success rates and drained regions
    memory,             \* what it remembers
    calls,              \* the attempt that a task's request is at, and those it has left
    last,               \* the model last decided for each client, where it is watched
    probes              \* decisions for a provider while it is half open; no more are
                        \* counted than one above the budget

state == <<strategy, sees, memory, calls, last, probes>>

VARIABLE
    outcome             \* what choose does when it is asked for each client now

vars == <<state, outcome>>

\* What they look at, besides the request.
Circuits == {"TenantPriorityLanes", "TenantFairQueue", "ProviderColdStartBias",
             "StickySessionMigrate", "StickyModelPinExpire", "RegionFailoverHysteresis",
             "StickyRegionWarmup", "StickyRegionDrain", "ProviderCircuitProbe"}

OfProviders == {"TokenBucketBurst", "ModelTierRateLimit", "ProviderCircuitProbe"}

PinsRegions == {"RegionFailoverHysteresis", "StickyRegionWarmup", "StickyRegionDrain"}

\* They remember the calls too.
Learns == {"RegionFailoverHysteresis", "TenantBudgetCascade"}

\* Bound of the model: the strategies whose decisions are kept, for a property to
\* compare the next one with.
Watched == {"TokenBucketTenant", "TenantQuotaBurst", "ProviderColdStartBias",
            "StickySessionMigrate", "StickyModelPinExpire"}

\* build_strategies: the strategy of a name.
Decide(s, q, m) ==
    CASE s = "TokenBucketTenant" -> TokenBucketTenant(q, m)
      [] s = "TokenBucketBurst" -> TokenBucketBurst(q, m)
      [] s = "ModelTierRateLimit" -> ModelTierRateLimit(q, m)
      [] s = "TenantQuotaBurst" -> TenantQuotaBurst(q, m)
      [] s = "TenantBudgetCascade" -> TenantBudgetCascade(q, m)
      [] s = "ProviderQuotaFairShare" -> ProviderQuotaFairShare(q, m)
      [] s = "ProviderColdStartBias" -> ProviderColdStartBias(q, m)
      [] s = "TenantFairQueue" -> TenantFairQueue(q, m)
      [] s = "TenantPriorityLanes" -> TenantPriorityLanes(q, m)
      [] s = "StickySessionMigrate" -> StickySessionMigrate(q, m)
      [] s = "StickyModelPinExpire" -> StickyModelPinExpire(q, m)
      [] s = "RegionFailoverHysteresis" -> RegionFailoverHysteresis(q, m)
      [] s = "StickyRegionWarmup" -> StickyRegionWarmup(q, m)
      [] s = "StickyRegionDrain" -> StickyRegionDrain(q, m)
      [] s = "ProviderCircuitProbe" -> ProviderCircuitProbe(q, m)

\* The constructors of the statistics: every key has been forgotten.
Fresh(s) ==
    LET keys == IF s \in OfProviders THEN Providers ELSE Clients
        regions == {Region(Profile[c]) : c \in Clients} \cup ToSet(Settings.regions)
    IN  [tokens |-> [k \in keys |-> Settings.capacity],
         window |-> [k \in keys |-> <<>>],
         recent |-> <<>>,
         pin |-> [c \in Clients |-> IF s \in PinsRegions THEN NoRegion ELSE NoModel],
         left |-> [c \in Clients |-> 0],
         count |-> [k \in IF s = "RegionFailoverHysteresis" THEN regions ELSE keys |-> 0]]

\* A tick: buckets fill up, entries leave their windows and pins expire.
Aged(m) ==
    LET refilled(n) == IF n + Settings.refill < Settings.capacity
                       THEN n + Settings.refill ELSE Settings.capacity
        ended(w) == Cardinality({i \in DOMAIN w : \A j \in 1..i : w[j].left = 0})
        aged(w) == [i \in 1..(Len(w) - ended(w)) |-> [w[i + ended(w)] EXCEPT !.left = @ - 1]]
    IN  [m EXCEPT !.tokens = [k \in DOMAIN @ |-> refilled(@[k])],
                  !.window = [k \in DOMAIN @ |-> aged(@[k])],
                  !.left = [c \in DOMAIN @ |-> IF @[c] > 0 THEN @[c] - 1 ELSE 0]]

\* A request of client c, and the circumstances that it meets.
Asking(c, seen) ==
    [x \in DOMAIN Profile[c] \cup DOMAIN seen |->
        IF x \in DOMAIN seen THEN seen[x] ELSE Profile[c][x]]

Outcomes(s, seen, m) == [c \in Clients |-> Decide(s, Asking(c, seen), m)]

Question(c) == Asking(c, sees)

\* What the engine records of an attempt, for the region that was asked for.
Learnt(s, c, model, m, succeeded) ==
    CASE s = "RegionFailoverHysteresis" -> Streak(m, Region(Profile[c]), succeeded)
      [] s = "TenantBudgetCascade" /\ succeeded -> Recorded(m, c, Cost(Question(c), model))
      [] OTHER -> m

Idle == [now |-> NoModel, rest |-> {}, booked |-> FALSE]

\* The next attempt.  The scoreboard orders the fallbacks, and some are skipped for
\* their circuits or for the budget of the user: any that is up can be the next.
Onward(models, booked) ==
    {Idle} \cup {[now |-> c, rest |-> models \ {c}, booked |-> booked] :
                    c \in Closed(sees, models)}

\* The chosen model is the first of the attempts.
First(decision) ==
    LET rest == ToSet(decision.chain)
    IN  Onward(rest, FALSE)
        \cup {[now |-> c, rest |-> rest, booked |-> FALSE] : c \in Closed(sees, {decision.chosen})}
-----------------------------------------------------------------------------
Init ==
    /\ strategy \in Strategies
    /\ sees = Circumstances
    /\ memory = Fresh(strategy)
    /\ calls = [t \in Tasks |-> Idle]
    /\ last = [c \in Clients |-> NoModel]
    /\ probes = [p \in Providers |-> 0]
    /\ outcome = Outcomes(strategy, sees, memory)

\* A task decides for its client.
Ask(t) ==
    LET c == Owner(strategy)[t]
        decision == outcome[c].decision
        chosen == decision.chosen
        probe(p) == /\ chosen # NoModel /\ Provider(chosen) = p
                    /\ p \in sees.half_open /\ probes[p] <= Settings.probe_budget
    IN  /\ calls[t] = Idle
        /\ memory' = outcome[c].memory
        /\ last' = IF strategy \in Watched THEN [last EXCEPT ![c] = chosen] ELSE last
        /\ probes' = [p \in Providers |-> IF probe(p) THEN probes[p] + 1 ELSE probes[p]]
        /\ IF strategy \in Learns /\ chosen # NoModel
           THEN \E call \in First(decision) : calls' = [calls EXCEPT ![t] = call]
           ELSE UNCHANGED calls
        /\ UNCHANGED <<strategy, sees>>

\* The current attempt of a task fails or times out, or its answer comes to nothing
\* before anything is recorded of it: the ledger raises, or the request was booked
\* for an attempt before, whose answer its state machine does not take back.
Fail(t) ==
    /\ calls[t] # Idle
    /\ memory' = Learnt(strategy, Owner(strategy)[t], calls[t].now, memory, FALSE)
    /\ \E call \in Onward(calls[t].rest, calls[t].booked) : calls' = [calls EXCEPT ![t] = call]
    /\ UNCHANGED <<strategy, sees, last, probes>>

\* An answer is recorded, and then the audit log raises: the attempt is recorded as
\* a failure too, and the request goes on.
FailToAudit(t) ==
    LET learnt(m, succeeded) == Learnt(strategy, Owner(strategy)[t], calls[t].now, m, succeeded)
    IN  /\ calls[t] # Idle /\ ~calls[t].booked
        /\ memory' = learnt(learnt(memory, TRUE), FALSE)
        /\ \E call \in Onward(calls[t].rest, TRUE) : calls' = [calls EXCEPT ![t] = call]
        /\ UNCHANGED <<strategy, sees, last, probes>>

Answer(t) ==
    /\ calls[t] # Idle /\ ~calls[t].booked
    /\ memory' = Learnt(strategy, Owner(strategy)[t], calls[t].now, memory, TRUE)
    /\ calls' = [calls EXCEPT ![t] = Idle]
    /\ UNCHANGED <<strategy, sees, last, probes>>

\* The caller goes away: nothing is recorded.
Cancel(t) ==
    /\ calls[t] # Idle
    /\ calls' = [calls EXCEPT ![t] = Idle]
    /\ UNCHANGED <<strategy, sees, memory, last, probes>>

Tick ==
    /\ memory' = Aged(memory)
    /\ UNCHANGED <<strategy, sees, calls, last, probes>>

\* Failures of other traffic open a circuit.
Trip(p) ==
    /\ strategy \in Circuits /\ p \notin sees.open
    /\ sees' = [sees EXCEPT !.open = @ \cup {p}, !.half_open = @ \ {p}]
    /\ UNCHANGED <<strategy, memory, calls, last, probes>>

\* Its window has passed; who does not tell half open from closed sees it closed.
Recover(p) ==
    /\ p \in sees.open
    /\ sees' = [sees EXCEPT !.open = @ \ {p},
                            !.half_open = IF strategy = "ProviderCircuitProbe"
                                          THEN @ \cup {p} ELSE @]
    /\ UNCHANGED <<strategy, memory, calls, last, probes>>

\* A call is let through, or succeeds.
Close(p) ==
    /\ p \in sees.half_open
    /\ sees' = [sees EXCEPT !.half_open = @ \ {p}]
    /\ probes' = [probes EXCEPT ![p] = 0]
    /\ UNCHANGED <<strategy, memory, calls, last>>

\* The success rate of a provider falls below the threshold, or rises again.
Waver(p) ==
    /\ strategy = "StickySessionMigrate"
    /\ \E rate \in Settings.rates \ {sees.success[p]} :
        sees' = [sees EXCEPT !.success[p] = rate]
    /\ UNCHANGED <<strategy, memory, calls, last, probes>>

\* Requests mark other regions as draining.
Mark(region) ==
    /\ strategy = "StickyRegionDrain"
    /\ sees' = [sees EXCEPT !.draining = IF region \in @ THEN @ \ {region} ELSE @ \cup {region}]
    /\ UNCHANGED <<strategy, memory, calls, last, probes>>

Next ==
    /\ \/ \E t \in Tasks : Ask(t) \/ Fail(t) \/ FailToAudit(t) \/ Answer(t) \/ Cancel(t)
       \/ \E p \in Providers : Trip(p) \/ Recover(p) \/ Close(p) \/ Waver(p)
       \/ \E region \in ToSet(Settings.regions) : Mark(region)
       \/ Tick
    /\ outcome' = Outcomes(strategy', sees', memory')

\* Time passes, and clients keep asking.
Fairness == WF_state(Tick) /\ \A t \in Tasks : WF_state(Ask(t))

Spec == Init /\ [][Next]_vars /\ Fairness
-----------------------------------------------------------------------------
(* Properties *)

Asks(c) == \E t \in Tasks : Owner(strategy)[t] = c /\ Ask(t)

Hears(c) ==
    \E t \in Tasks : Owner(strategy)[t] = c /\ (Fail(t) \/ FailToAudit(t) \/ Answer(t))

\* What client c would be decided now.
Would(c) == outcome[c].decision

\* Whatever the requests before have left behind, the engine can use the next
\* decision: a model of the catalog with no more than three others behind it,
\* each of them once, or an exception.
TypeOK ==
    /\ strategy \in Strategies
    /\ last \in [Clients -> Models \cup {NoModel}]
    /\ \A t \in Tasks : calls[t] # Idle => calls[t].now \in Models \ calls[t].rest
    /\ \A c \in Clients :
        LET decision == Would(c)
        IN  IF decision.chosen = NoModel
            THEN strategy \in {"TenantQuotaBurst", "TenantBudgetCascade"}
            ELSE /\ Len(decision.chain) <= 3
                 /\ ToSet(decision.chain) \subseteq Models \ {decision.chosen}
                 /\ IsInjective(decision.chain)

\* They remember each tenant, or each session, for itself.
PerClient == {"TokenBucketTenant", "TenantQuotaBurst", "TenantBudgetCascade",
              "StickySessionMigrate", "StickyModelPinExpire", "RegionFailoverHysteresis",
              "StickyRegionWarmup", "StickyRegionDrain"}

\* What one client asks never changes what another would be decided, nor does what
\* is recorded when its answers come: but for the streaks, which are those of a
\* region and not of a client.
Isolated ==
    [][ \A c, d \in Clients :
            /\ c # d
            /\ \/ strategy \in PerClient /\ Asks(c)
               \/ strategy \in PerClient \ {"RegionFailoverHysteresis"} /\ Hears(c)
            => Would(d)' = Would(d) ]_vars

\* In TenantFairQueue a tenant that is heard of already never takes the finest
\* model from another, however often it asks.
NoisyNeighbour ==
    [][ \A c, d \in Clients :
            /\ strategy = "TenantFairQueue"
            /\ c # d /\ Asks(c) /\ c \in ToSet(memory.recent)
            => Quality(Would(d).chosen)' >= Quality(Would(d).chosen) ]_vars

\* A session stays where it was decided for, though better models come back: it
\* leaves a model only when its provider is down, fails too often or, for the
\* strategy where pins expire, when time has passed.
SessionStays ==
    [][ \A c \in Clients :
            LET home == last[c]
            IN  /\ strategy \in {"StickySessionMigrate", "StickyModelPinExpire"}
                /\ home # NoModel /\ Asks(c) /\ last'[c] # home
                => \/ ~Up(sees, home)
                   \/ /\ strategy = "StickySessionMigrate"
                      /\ Success(sees, home) < Settings.migrate_below
                   \/ /\ strategy = "StickyModelPinExpire"
                      /\ memory.left[c] = 0 ]_vars

\* What is remembered holds a request at a model that is down only where nothing
\* that is up will do: while any other that serves it is up; for
\* StickySessionMigrate, which keeps its pin on a provider that is down sooner than
\* go to one that fails too often, while one is up whose success rate meets the
\* threshold; for ProviderCircuitProbe, while one is up and not half open.  Nor
\* does it hold a request in a region that drains while a model that is up is
\* elsewhere.
NothingHoldsTheDead ==
    \A c \in Clients :
        LET q == Question(c)
            chosen == Would(c).chosen
            up == Closed(q, Eligible(q))
            fit == {d \in up : Success(q, d) >= Settings.migrate_below}
            settled == {d \in up : Provider(d) \notin q.half_open}
            draining == Settings.draining \cup q.draining
            elsewhere == {d \in up : ~(Catalog[d].regions \subseteq draining)}
        IN  /\ strategy \in Circuits \ {"StickySessionMigrate", "ProviderCircuitProbe"}
               => chosen \in Active(q)
            /\ strategy = "StickySessionMigrate" /\ fit # {} => chosen \in fit
            /\ strategy = "ProviderCircuitProbe" /\ settled # {} => chosen \in up
            /\ strategy = "StickyRegionDrain" /\ elsewhere # {} => chosen \in elsewhere

\* ProviderQuotaFairShare deals: of the decisions that it remembers, no provider
\* has more than one above an equal share, and none is further below it than one
\* for each of the others.
EvenShares ==
    LET all == Len(memory.recent)
        n == Cardinality(Providers)
    IN  strategy = "ProviderQuotaFairShare" =>
            \A p \in Providers : n * Times(memory.recent, p) \in (all - n * (n - 1))..(all + n)

\* The calls in flight together are all that takes a tenant's rolling spend over
\* the hard ceiling: each of them was affordable when it was decided.
SpendBounded ==
    strategy = "TenantBudgetCascade" =>
        \A c \in Clients :
            Total(memory.window[c]) <=
                Settings.hard_budget
                + (Cardinality(Tasks) - 1) * MostOf({Cost(Question(c), d) : d \in Models})

\* However often the circuit of the finest provider opens again, no more than the
\* budget of requests is decided for it half open until it has closed.
ProbesRationed ==
    strategy = "ProviderCircuitProbe" =>
        \A c \in Clients :
            LET q == Question(c)
            IN  probes[Provider(FinestByName(q, Eligible(q)))] <= Settings.probe_budget

\* Asking again and again neither uses up what a client waits for nor prolongs
\* what holds it: tokens and quotas come back, pins expire, and a provider that
\* stays up is sampled.
PollingIsServed ==
    /\ \A c \in Clients :
        /\ strategy = "TenantQuotaBurst" => []<>(last[c] # NoModel)
        /\ strategy = "TokenBucketTenant"
           => []<>(last[c] = FinestByName(Question(c), Eligible(Question(c))))
        /\ strategy = "StickyModelPinExpire" /\ <>[](sees.open = {})
           => <>[](last[c] = FinestByName(Question(c), Eligible(Question(c))))
    /\ \A p \in Providers :
        strategy = "ProviderColdStartBias" /\ <>[](p \notin sees.open)
        => []<>(\E c \in Clients : last[c] # NoModel /\ Provider(last[c]) = p)

\* RegionFailoverHysteresis returns when the preferred region has accumulated
\* successes: a streak of a region is made by answers of models in that region.
StreaksAreOfTheirRegion ==
    [][ \A r \in DOMAIN memory.count :
            /\ strategy = "RegionFailoverHysteresis"
            /\ memory'.count[r] > memory.count[r]
            => \E t \in Tasks : Answer(t) /\ InRegion(calls[t].now, r) ]_vars
===============================================================================
