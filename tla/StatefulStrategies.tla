-------------------------- MODULE StatefulStrategies --------------------------
(***************************************************************************)
(* The strategies of src/router/strategies.py that remember: what choose   *)
(* does for a question q with what is remembered, m.  All of them change   *)
(* m when they decide, before any call is made.                            *)
(*                                                                         *)
(* They remember in six ways, and m has a field for each:                  *)
(*   tokens[k]   what is in the bucket of k;                               *)
(*   window[k]   what k did lately: amounts, and how long each counts;     *)
(*   recent      whom the last decisions were for, or went to;             *)
(*   pin[k]      the model or the region a session is held to;             *)
(*   left[k]     how long a pin still holds;                               *)
(*   count[k]    how often something happened.                             *)
(* A session and a tenant are a client here.  Refills and expiries happen  *)
(* as time passes; the code makes up for them when it reads.               *)
(***************************************************************************)
EXTENDS MeasuredStrategies, SequencesExt

NoRegion == ""

Outcome(decision, memory) == [decision |-> decision, memory |-> memory]

\* choose raises.
Refusal(memory) == Outcome([chosen |-> NoModel, chain |-> <<>>], memory)

\* The finest by name, or the cheapest, with the others in that order behind it.
ByQuality(q) == [c \in Models |-> <<-Quality(c), Cost(q, c), Name(c)>>]

\* fault: the chosen model is its own fallback
FinestTwice(q, pool) ==
    Decision(FinestByName(q, pool), Sorted(pool, ByQuality(q)))

FinestFirst(q, pool) ==
    LET c == FinestByName(q, pool) IN Decision(c, Sorted(pool \ {c}, ByQuality(q)))

CheapestFirst(q, pool) == FirstOf(Sorted(pool, ByCost(q)))

ProvidersOf(pool) == {Provider(c) : c \in pool}
-----------------------------------------------------------------------------
(* Buckets *)

\* fault: one bucket for everybody
SharedBucket(tokens, k) ==
    [x \in DOMAIN tokens |-> IF tokens[x] > Settings.token THEN tokens[x] - Settings.token ELSE 0]

\* TokenBucketStats.consume and TenantTokenBucketStats.try_consume
Consumed(tokens, k) ==
    [tokens EXCEPT ![k] = IF @ > Settings.token THEN @ - Settings.token ELSE 0]

TokenBucketTenant(q, m) ==
    IF m.tokens[q.client] >= Settings.token
    THEN Outcome(FinestFirst(q, Eligible(q)), [m EXCEPT !.tokens = Consumed(@, q.client)])
    ELSE Outcome(CheapestFirst(q, Eligible(q)), m)

\* The chain is ordered after the token was taken.
TokenBucketBurst(q, m) ==
    LET before == [c \in Models |-> m.tokens[Provider(c)]]
        full == {c \in Eligible(q) : before[c] >= Settings.token}
        chosen == IF full # {} THEN FinestByName(q, full)
                  ELSE Best(Eligible(q), [c \in Models |->
                           <<-before[c], Cost(q, c), -Quality(c), -Name(c)>>])
        tokens == Consumed(m.tokens, Provider(chosen))
        after(c) == tokens[Provider(c)]
        chain == Sorted(Eligible(q) \ {chosen}, [c \in Models |->
            <<Late(after(c) < Settings.token), -after(c), -Quality(c), Cost(q, c), Name(c)>>])
    IN  Outcome(Decision(chosen, chain), [m EXCEPT !.tokens = tokens])
-----------------------------------------------------------------------------
(* Rolling windows *)

\* An entry counts for a whole window and at the instant that it ends.
Entry(amount) == [left |-> Settings.window, amount |-> amount]

Total(w) == FoldSeq(LAMBDA e, sum : e.amount + sum, 0, w)

\* record and record_spend of a tenant: a request, or what an answer cost.  Only
\* its age drops it.
Recorded(m, k, amount) == [m EXCEPT !.window[k] = Append(@, Entry(amount))]

\* TierRequestStats._prune, which no other window has, keeps no more than
\* max_timestamps.
Pruned(w) ==
    IF Len(w) > Settings.max_timestamps
    THEN SubSeq(w, 1 + Len(w) - Settings.max_timestamps, Len(w)) ELSE w

\* TierRequestStats.record: a decision for provider p.
Called(m, p) == [m EXCEPT !.window[p] = Pruned(Append(@, Entry(1)))]

ModelTierRateLimit(q, m) ==
    LET calls == [c \in Models |-> Len(m.window[Provider(c)])]
        limit == [c \in Models |-> Settings.tier_rpm[Tier(c)]]
        under == {c \in Eligible(q) : calls[c] < limit[c]}
        pool == OrElse(under, Eligible(q))
        decision == FirstOf(Sorted(pool, [c \in Models |->
            <<Ratio(pool, c, calls, limit), -Quality(c), Cost(q, c), Name(c)>>]))
    IN  Outcome(decision, Called(m, Provider(decision.chosen)))

\* fault: a refused request takes a place of the quota too
RefusedCounts(q, m) ==
    LET used == Len(m.window[q.client])
        after == Recorded(m, q.client, 1)
    IN  IF used >= Settings.hard_quota THEN Refusal(after)
        ELSE IF used < Settings.soft_quota THEN Outcome(FinestFirst(q, Eligible(q)), after)
        ELSE Outcome(CheapestFirst(q, Eligible(q)), after)

TenantQuotaBurst(q, m) ==
    LET used == Len(m.window[q.client])
        after == Recorded(m, q.client, 1)
    IN  IF used >= Settings.hard_quota THEN Refusal(m)
        ELSE IF used < Settings.soft_quota THEN Outcome(FinestFirst(q, Eligible(q)), after)
        ELSE Outcome(CheapestFirst(q, Eligible(q)), after)

\* fault: what the request itself costs is left out
SpentOnly(q, m, limit) == {c \in Eligible(q) : Total(m.window[q.client]) <= limit}

\* What a request would bring the tenant's spend to stays below a limit.
Fits(q, m, limit) == {c \in Eligible(q) : Total(m.window[q.client]) + Cost(q, c) <= limit}

\* What was spent is recorded when an answer comes.
TenantBudgetCascade(q, m) ==
    LET hard == Fits(q, m, Settings.hard_budget)
        soft == Fits(q, m, Settings.soft_budget)
        chosen == IF soft # {} THEN FinestByName(q, soft) ELSE Best(hard, ByCost(q))
    IN  IF hard = {} THEN Refusal(m)
        ELSE Outcome(Decision(chosen, Sorted(hard \ {chosen}, ByCost(q))), m)
-----------------------------------------------------------------------------
(* The last decisions *)

Times(s, x) == Cardinality({i \in DOMAIN s : s[i] = x})

\* observe
Observed(m, x, lookback) ==
    LET longer == Append(m.recent, x)
    IN  [m EXCEPT !.recent = IF Len(longer) > lookback THEN Tail(longer) ELSE longer]

\* fault: the shares are not asked
Unequal(q, m) ==
    LET c == FinestByName(q, Eligible(q))
    IN  Outcome(Decided(c), Observed(m, Provider(c), Settings.share_lookback))

\* Providers below an equal share of what was decided for those that are eligible.
ProviderQuotaFairShare(q, m) ==
    LET providers == ProvidersOf(Eligible(q))
        counted == Cardinality({i \in DOMAIN m.recent : m.recent[i] \in providers})
        times(c) == Times(m.recent, Provider(c))
        under == {c \in Eligible(q) :
                    counted = 0 \/ times(c) * Cardinality(providers) < counted}
        chosen == FinestByName(q, OrElse(under, Eligible(q)))
        chain == Sorted(Eligible(q) \ {chosen}, [c \in Models |->
            <<Late(c \notin under), times(c), -Quality(c), Cost(q, c), Name(c)>>])
    IN  Outcome(Decision(chosen, chain), Observed(m, Provider(chosen), Settings.share_lookback))

ProviderColdStartBias(q, m) ==
    LET times == [c \in Models |-> Times(m.recent, Provider(c))]
        fewest == LeastOf({times[c] : c \in Active(q)})
        rarest == {c \in Active(q) : times[c] = fewest}
        chosen == FinestByName(q, IF fewest < Settings.cold_target THEN rarest ELSE Active(q))
        chain == Sorted(Active(q) \ {chosen},
                        [c \in Models |-> <<times[c], -Quality(c), Cost(q, c), Name(c)>>])
    IN  Outcome(Decision(chosen, chain), Observed(m, Provider(chosen), Settings.cold_lookback))

\* fault: a limit for all of them together
Crowded(q, m) ==
    LET room == Len(m.recent) < Settings.tenant_lookback
    IN  Outcome(IF room THEN FinestFirst(q, Active(q)) ELSE CheapestFirst(q, Active(q)),
                Observed(m, q.client, Settings.tenant_lookback))

\* A tenant that asked more often than the average of the active ones gets the cheap models.
TenantFairQueue(q, m) ==
    LET tenants == ToSet(m.recent) \cup {q.client}
        fair == Times(m.recent, q.client) * Cardinality(tenants) <= Len(m.recent)
    IN  Outcome(IF fair THEN FinestFirst(q, Active(q)) ELSE CheapestFirst(q, Active(q)),
                Observed(m, q.client, Settings.tenant_lookback))

TenantPriorityLanes(q, m) ==
    LET short == ProvidersOf(Closed(q, Eligible(q))) # ProvidersOf(Eligible(q))
        pressed == short \/ Times(m.recent, q.lane) >= Settings.lane_quota[q.lane]
        measured == {c \in Active(q) : Latency(q, c) > 0}
        fastest == Best(OrElse(measured, Active(q)),
                        [c \in Models |-> <<Latency(q, c), -Quality(c), Cost(q, c), Name(c)>>])
        decision ==
            CASE pressed /\ q.lane = "high" ->
                    Decision(fastest, Sorted(Active(q) \ {fastest}, [c \in Models |->
                        <<Late(Latency(q, c) = 0), Latency(q, c), -Quality(c), Name(c)>>]))
              [] pressed /\ q.lane = "low" -> CheapestFirst(q, Active(q))
              [] OTHER -> FinestFirst(q, Active(q))
    IN  Outcome(decision, Observed(m, q.lane, Settings.lane_lookback))
-----------------------------------------------------------------------------
(* Pins *)

\* fault: where the session moved to is forgotten
Forgetful(q, m) ==
    LET home == Pick(ByName(Eligible(q)), q.key)
        fit == {c \in Closed(q, Eligible(q)) : Success(q, c) >= Settings.migrate_below}
        chosen == IF home \in fit \/ fit = {} THEN home ELSE FinestByName(q, fit)
    IN  Outcome(Decided(chosen), m)

\* A session moves away from a provider that is down or fails too often, to the
\* steadiest of the others, and stays there.
StickySessionMigrate(q, m) ==
    LET home == IF m.pin[q.client] \in Eligible(q) THEN m.pin[q.client]
                ELSE Pick(ByName(Eligible(q)), q.key)
        fit == {c \in Closed(q, Eligible(q)) : Success(q, c) >= Settings.migrate_below}
        targets == {c \in fit : Provider(c) # Provider(home)}
        chosen == IF home \in fit \/ targets = {} THEN home
                  ELSE Best(targets, [c \in Models |->
                           <<-Success(q, c), -Quality(c), Cost(q, c), -Name(c)>>])
        chain == Sorted(Eligible(q) \ {chosen}, [c \in Models |->
            <<Late(~Up(q, c)), -Success(q, c), -Quality(c), Cost(q, c), Name(c)>>])
    IN  Outcome(Decision(chosen, chain), [m EXCEPT !.pin[q.client] = chosen])

\* A pin that is used is not prolonged.
StickyModelPinExpire(q, m) ==
    LET pin == m.pin[q.client]
        kept == m.left[q.client] > 0 /\ pin \in Closed(q, Eligible(q))
        chosen == IF kept THEN pin ELSE FinestByName(q, Active(q))
        chain == Sorted(Active(q) \ {chosen}, [c \in Models |-> <<-Quality(c), Name(c)>>])
    IN  Outcome(Decision(chosen, chain),
                IF kept THEN m
                ELSE [m EXCEPT !.pin[q.client] = chosen, !.left[q.client] = Settings.pin_ttl])
-----------------------------------------------------------------------------
(* Regions *)

\* fault: the circuits are not asked
AnyIn(q, region) == {c \in Eligible(q) : InRegion(c, region)}

\* _healthy_region_candidates, where any is up
UpIn(q, region) == {c \in Closed(q, Eligible(q)) : InRegion(c, region)}

\* A session that failed over stays there until the preferred region has shown
\* enough successes in a row, or until nothing there is up any more.
RegionFailoverHysteresis(q, m) ==
    LET preferred == Head(Regions(q))
        failover == m.pin[q.client]
        live == {i \in DOMAIN Regions(q) : UpIn(q, Regions(q)[i]) # {}}
        over == failover # NoRegion
        back == over /\ UpIn(q, preferred) # {} /\ m.count[preferred] >= Settings.hysteresis
        held == over /\ ~back /\ UpIn(q, failover) # {}
        region == IF back THEN preferred ELSE IF held THEN failover
                  ELSE IF live # {} THEN Regions(q)[LeastOf(live)] ELSE NoRegion
        pool == IF region = NoRegion THEN Eligible(q) ELSE UpIn(q, region)
        same == held \/ region = NoRegion
    IN  Outcome(Decided(Pick(ByName(pool), q.key)),
                IF same THEN m
                ELSE [m EXCEPT !.pin[q.client] =
                                   IF region = preferred THEN NoRegion ELSE region])

\* record_success and record_failure: a streak longer than asked for is as good
\* as one that is just as long as that.
Streak(m, region, succeeded) ==
    [m EXCEPT !.count[region] = IF ~succeeded THEN 0
                                ELSE IF @ < Settings.hysteresis THEN @ + 1 ELSE @]

\* The first requests of a session go to one region, all others to a second one.
StickyRegionWarmup(q, m) ==
    LET n == m.count[q.client]
        pin == m.pin[q.client]
        warm == IF q.warmup_region # NoRegion THEN q.warmup_region ELSE Settings.regions[1]
        others == {i \in DOMAIN Settings.regions : Settings.regions[i] # warm}
        hashed == Pick(Sorted(others, [i \in others |-> <<i>>]), q.key)
        target == IF pin # NoRegion THEN pin ELSE IF q.region # NoRegion THEN q.region
                  ELSE IF others = {} THEN warm ELSE Settings.regions[hashed]
        warming == n < Settings.warmup_requests
        region == IF warming THEN warm ELSE target
        there == UpIn(q, region)
        chosen == Pick(ByName(OrElse(there, Active(q))),
                       q.spread[IF there # {} THEN region ELSE "fallback"])
    IN  Outcome(Decision(chosen, ByName(OrElse(there, Active(q)) \ {chosen})),
                IF warming THEN [m EXCEPT !.count[q.client] = n + 1]
                ELSE [m EXCEPT !.pin[q.client] = target])

\* A session leaves a region that drains, or where nothing is up, and does not
\* come back by itself.
StickyRegionDrain(q, m) ==
    LET pin == m.pin[q.client]
        desired == IF pin # NoRegion THEN pin ELSE Head(Regions(q))
        draining == Settings.draining \cup q.draining
        stays == desired \notin draining /\ UpIn(q, desired) # {}
        others == Settings.regions \o Settings.catalog_regions
        alternates == {i \in DOMAIN others : /\ others[i] # desired /\ others[i] \notin draining
                                             /\ UpIn(q, others[i]) # {}}
        there == {c \in Eligible(q) : InRegion(c, desired)}
        region == IF stays THEN desired ELSE IF alternates # {} THEN others[LeastOf(alternates)]
                  ELSE IF there # {} THEN desired ELSE "fallback"
        pool == IF stays \/ alternates # {} THEN UpIn(q, region)
                ELSE OrElse(UpIn(q, desired), OrElse(Closed(q, Eligible(q)),
                     OrElse(there, Eligible(q))))
        chosen == Pick(ByName(pool), q.spread[region])
        chain == Sorted(Closed(q, Eligible(q)) \ {chosen},
                        [c \in Models |-> <<Late(~InRegion(c, region)), -Quality(c), Name(c)>>])
    IN  Outcome(Decision(chosen, chain), [m EXCEPT !.pin[q.client] = region])
-----------------------------------------------------------------------------
(* Recovery *)

\* fault: probes are not counted
Unrationed(q, m) ==
    LET leader == FinestByName(q, Eligible(q))
    IN  Outcome(Decided(IF Up(q, leader) THEN leader ELSE FinestByName(q, Active(q))), m)

\* A leader whose circuit is half open gets so many decisions until it closes.
ProviderCircuitProbe(q, m) ==
    LET leader == FinestByName(q, Eligible(q))
        p == Provider(leader)
        half(c) == Provider(c) \in q.half_open
        settled(c) == Up(q, c) /\ ~half(c)
        alternates == {c \in Eligible(q) : Provider(c) # p /\ settled(c)}
        others == OrElse(alternates, OrElse(Eligible(q) \ {leader}, {leader}))
        probes == half(leader) /\ m.count[p] < Settings.probe_budget
        chosen == IF settled(leader) \/ probes THEN leader ELSE FinestByName(q, others)
        chain == Sorted(Eligible(q) \ {chosen}, [c \in Models |->
            <<Late(~settled(c)), Late(half(c)), -Quality(c), Cost(q, c), Name(c)>>])
    IN  Outcome(Decision(chosen, chain),
                [m EXCEPT !.count[p] = IF settled(leader) THEN 0 ELSE IF probes THEN @ + 1 ELSE @])
===============================================================================
