-------------------------- MODULE MeasuredStrategies --------------------------
(***************************************************************************)
(* The strategies of src/router/strategies.py that also read measurements: *)
(* latencies, success rates, calls in flight, rate limits and spend of     *)
(* each provider, all part of the question.                                *)
(***************************************************************************)
EXTENDS StaticStrategies

Latency(q, c) == q.latency[Provider(c)]     \* the percentile the strategy asks for
Success(q, c) == q.success[Provider(c)]
Load(q, c) == q.load[Provider(c)]
TenantLoad(q, c) == q.tenant_load[Provider(c)]
-----------------------------------------------------------------------------
(* Latency *)

LatencyAware(q) ==
    LET score(c) == 1000 * (Latency(q, c) + 10 * (100 - Quality(c))) + Cost(q, c)
    IN  Decided(IF Serving(q) = {} THEN Best(Models, [c \in Models |-> <<-Quality(c)>>])
                ELSE Best(Serving(q), [c \in Models |-> <<score(c)>>]))

Dominates(q, d, c) ==
    /\ Cost(q, d) <= Cost(q, c) /\ Latency(q, d) <= Latency(q, c)
    /\ Cost(q, d) < Cost(q, c) \/ Latency(q, d) < Latency(q, c)

CostLatencyPareto(q) ==
    LET front == {c \in Eligible(q) : \A d \in Eligible(q) : ~Dominates(q, d, c)}
    IN  Decided(Best(front, [c \in Models |-> <<-Quality(c), Cost(q, c), Latency(q, c), Name(c)>>]))

InLimit(q, limit) ==
    LET quick == {c \in Eligible(q) : Latency(q, c) <= limit}
    IN  Decided(IF quick # {} THEN Best(quick, [c \in Models |-> <<-Quality(c), Latency(q, c)>>])
                ELSE Best(Eligible(q), [c \in Models |-> <<Latency(q, c), -Quality(c)>>]))

LatencyBudget(q) == InLimit(q, Settings.latency_sla)

LatencySloShed(q) == InLimit(q, Settings.latency_slo)

\* Twice the adaptive budget.
TimeoutBudget(q, latencies) ==
    LET base == Settings.base_timeout * (IF q.batch THEN 4 ELSE 1)
        seen == {l \in latencies : l > 0}
        tightened == LeastOf(seen) * (IF q.batch THEN 4 ELSE 3)
    IN  IF seen = {} \/ MostOf(seen) <= base THEN 2 * base
        ELSE MostOf({base, LeastOf({2 * base, tightened})})

AdaptiveTimeout(q) ==
    LET inTime == {c \in Eligible(q) : Catalog[c].realtime}
        pool == IF q.batch THEN Eligible(q) ELSE OrElse(inTime, Eligible(q))
        budget == TimeoutBudget(q, {Latency(q, c) : c \in pool})
        latency == [c \in Models |-> Latency(q, c)]
        sure == [c \in Models |-> MostOf({Success(q, c), 5})]
        risk(c) == Ratio(pool, c, latency, sure)
        within == {c \in pool : 200 * latency[c] <= budget * sure[c]}
    IN  Decided(IF within # {}
                THEN Best(within, [c \in Models |-> <<-Quality(c), -Success(q, c), risk(c), Cost(q, c)>>])
                ELSE Best(pool, [c \in Models |-> <<risk(c), -Quality(c), -Success(q, c)>>]))

MultiRegionLatencyHedge(q) ==
    LET primary == OrElse({c \in Eligible(q) : InRegion(c, Region(q))}, Eligible(q))
        secondary == Eligible(q) \ primary
        first == Best(primary, [c \in Models |-> <<-Quality(c), Latency(q, c)>>])
    IN  Decided(IF secondary # {} /\ Latency(q, first) > Settings.hedge
                THEN Best(secondary, [c \in Models |-> <<Latency(q, c), -Quality(c)>>]) ELSE first)

RetryBudgetAwareFailover(q) ==
    Decided(IF q.retries <= 1 THEN Best(Active(q), [c \in Models |-> <<Latency(q, c), -Quality(c)>>])
            ELSE Best(Active(q), [c \in Models |-> <<-Quality(c), Latency(q, c)>>]))

RegionLatencyP99Shed(q) ==
    LET there == OrElse({c \in Eligible(q) : InRegion(c, Region(q))}, Eligible(q))
        quick == {c \in there : Latency(q, c) <= Settings.p99}
    IN  Decided(IF quick # {}
                THEN Best(quick, [c \in Models |-> <<-Quality(c), Latency(q, c), Cost(q, c), -Name(c)>>])
                ELSE Best(there, [c \in Models |-> <<Latency(q, c), -Quality(c), Cost(q, c), Name(c)>>]))

AdaptiveTimeoutHedge(q) ==
    LET top == FinestByName(q, Eligible(q))
        seen == {c \in Eligible(q) : Latency(q, c) > 0}
        fastest == LeastOf({Latency(q, c) : c \in seen})
        faster == {c \in seen : Provider(c) # Provider(top) /\ Latency(q, c) < Latency(q, top)}
    IN  Decided(IF /\ Latency(q, top) > 0 /\ faster # {}
                   /\ Latency(q, top) * 100 > fastest * Settings.hedge_percent
                THEN Best(faster, [c \in Models |-> <<Latency(q, c), -Quality(c), Cost(q, c), Name(c)>>])
                ELSE top)

ProviderTailLatencyHedge(q) ==
    LET primary == FinestByName(q, Active(q))
        seen == {c \in Active(q) : Provider(c) # Provider(primary) /\ Latency(q, c) > 0}
    IN  Decided(IF Latency(q, primary) > Settings.tail_latency /\ seen # {}
                THEN Best(seen, [c \in Models |-> <<Latency(q, c), -Quality(c), Cost(q, c), Name(c)>>])
                ELSE primary)

\* By the observed latency: of the candidates, or of those that have been called.
FastestSeen(q) ==
    LET seen == {c \in Active(q) : Latency(q, c) > 0}
        unseen == Active(q) \ seen
        c == IF seen # {}
             THEN Best(seen, [d \in Models |-> <<Latency(q, d), -Quality(d), Cost(q, d), Name(d)>>])
             ELSE Best(unseen, [d \in Models |-> <<-Quality(d), Cost(q, d), Name(d)>>])
    IN  Decision(c, Sorted(Active(q) \ {c}, [d \in Models |->
            <<Late(d \in unseen), Latency(q, d), -Quality(d), Name(d)>>]))

DeadlineAwarePick(q) ==
    IF q.remaining \in 0..(Settings.deadline - 1) THEN FastestSeen(q) ELSE QualityFirst(q)

RequestClassQos(q) ==
    LET costs == Sorted(Active(q), [c \in Models |-> <<Cost(q, c)>>])
        median == Cost(q, costs[1 + Len(costs) \div 2])
        apart(c) == IF Cost(q, c) < median THEN median - Cost(q, c) ELSE Cost(q, c) - median
    IN  CASE q.class = "bulk" -> CostFirst(q)
          [] q.class = "batch" ->
                RankedBy(Active(q), [c \in Models |-> <<-Quality(c), apart(c), Cost(q, c)>>])
          [] OTHER -> FastestSeen(q)

\* A provider whose latency climbs loses its traffic to steady ones that are up.
LatencySlopeShed(q) ==
    LET primary == FinestByName(q, Eligible(q))
        steady == {c \in Eligible(q) : q.slope[Provider(c)] <= Settings.slope}
        up == Closed(q, Eligible(q))
        pool == OrElse(steady \cap up, OrElse(up, OrElse(steady, Eligible(q))))
    IN  Decided(IF primary \in steady THEN primary
                ELSE Best(pool, [c \in Models |-> <<Latency(q, c), Cost(q, c), -Quality(c), Name(c)>>]))
-----------------------------------------------------------------------------
(* Blends *)

\* fault: the inversion is missing
MinMax(pool, value) ==
    LET low == LeastOf({value[c] : c \in pool})
        high == MostOf({value[c] : c \in pool})
    IN  IF low = high THEN [over |-> [c \in pool |-> 1], under |-> 1]
        ELSE [over |-> [c \in pool |-> value[c] - low], under |-> high - low]

\* _inverse_min_max as a fraction: over[c] / under.
InverseMinMax(pool, value) ==
    LET low == LeastOf({value[c] : c \in pool})
        high == MostOf({value[c] : c \in pool})
    IN  IF low = high THEN [over |-> [c \in pool |-> 1], under |-> 1]
        ELSE [over |-> [c \in pool |-> high - value[c]], under |-> high - low]

\* Weights of nothing make one component the only one.
Weights(w, only) == IF \A i \in DOMAIN w : w[i] = 0 THEN only ELSE w

\* A common multiple of the score: weights of success, quality, cost and latency.
Blend(q, pool, w) ==
    LET cost == InverseMinMax(pool, [c \in Models |-> Cost(q, c)])
        latency == InverseMinMax(pool, [c \in Models |-> Latency(q, c)])
    IN  [c \in pool |->
            (w[1] * Success(q, c) + w[2] * Quality(c)) * cost.under * latency.under
            + 100 * w[3] * cost.over[c] * latency.under
            + 100 * w[4] * latency.over[c] * cost.under]

WeightedBlend(q) ==
    LET score == Blend(q, Eligible(q), Weights(Settings.blend, <<0, 1, 0, 0>>))
    IN  Decided(Best(Eligible(q), [c \in Models |-> <<-score[c], -Quality(c), Cost(q, c)>>]))

ProviderHealthScoreBlend(q) ==
    LET score == Blend(q, Eligible(q), Weights(Settings.health_blend, <<0, 1, 0, 0>>))
        up == Closed(q, Eligible(q))
        health(c) == IF up = {} \/ c \in up THEN score[c] ELSE 0
        key == [c \in Models |-> <<-health(c), -Success(q, c), -Quality(c), Cost(q, c)>>]
        chosen == Best(Active(q), key)
    IN  Decision(chosen, Sorted(Eligible(q) \ {chosen},
                                [c \in Models |-> <<Late(c \notin up)>> \o key[c]]))

HealthCostLatency(q) ==
    LET score == Blend(q, Eligible(q), Weights(Settings.hcl, <<1, 0, 0, 0>>))
    IN  FirstOf(Sorted(Eligible(q),
                       [c \in Models |-> <<-score[c], -Success(q, c), Cost(q, c), Latency(q, c)>>]))

\* Two blended scores where there is neither success nor quality to weigh.
BlendOf(q, pool, value, weight, other) ==
    LET first == InverseMinMax(pool, value)
        latency == InverseMinMax(pool, [c \in Models |-> Latency(q, c)])
    IN  [c \in pool |-> weight * first.over[c] * latency.under
                       + other * latency.over[c] * first.under]

Carbon(q, c) == q.carbon[Provider(c)]

CarbonAndLatency(q, weight, other) ==
    LET score == BlendOf(q, Eligible(q), [c \in Models |-> Carbon(q, c)], weight, other)
    IN  RankedBy(Eligible(q), [c \in Models |-> <<-score[c], -Quality(c), Cost(q, c)>>])

RegionCarbonBlend(q) ==
    CarbonAndLatency(q, Settings.carbon_percent, 100 - Settings.carbon_percent)

CarbonLatencyBlend(q) == CarbonAndLatency(q, Settings.carbon_weight, Settings.latency_weight)

\* The weights of ProviderWeightStats scale the quality.
ProviderWeightDecay(q) ==
    LET weight(c) == q.weight[Provider(c)]
    IN  RankedBy(Eligible(q), [c \in Models |->
            <<-(weight(c) * Quality(c)), -weight(c), -Quality(c), Cost(q, c)>>])

\* The quality of a provider that is new counts for less.
Warmed(q, c) ==
    (100 - Settings.warmup_percent) * Quality(c) + Settings.warmup_percent * q.warmup[Provider(c)]

ProviderWarmupWeight(q) ==
    RankedBy(Active(q), [c \in Models |-> <<-Warmed(q, c), Cost(q, c)>>])
-----------------------------------------------------------------------------
(* Load *)

\* fault: max for min
BusiestFirst(q) ==
    FirstOf(Sorted(Eligible(q), [c \in Models |-> <<-Load(q, c), -Quality(c), Cost(q, c), Name(c)>>]))

LeastBusy(q) ==
    FirstOf(Sorted(Eligible(q), [c \in Models |-> <<Load(q, c), -Quality(c), Cost(q, c), Name(c)>>]))

\* Below a cap the finest, or else the least loaded; the chain has the capped ones last.
Capped(q, load, cap) ==
    LET free == {c \in Eligible(q) : load[c] < cap}
        rest(c) == <<-Quality(c), Cost(q, c), Name(c)>>
        chosen == IF free # {} THEN FinestByName(q, free)
                  ELSE Best(Eligible(q), [c \in Models |-> <<load[c]>> \o rest(c)])
    IN  Decision(chosen, Sorted(Eligible(q) \ {chosen},
                                [c \in Models |-> <<Late(load[c] >= cap)>> \o rest(c)]))

ConcurrencyCap(q) == Capped(q, [c \in Models |-> Load(q, c)], Settings.concurrency_cap)

TenantConcurrencyLease(q) == Capped(q, [c \in Models |-> TenantLoad(q, c)], Settings.lease)

\* _effective_cap and _health_score: success / 100 * least(1, reference / latency)
AdaptiveConcurrencyCap(q) ==
    LET reference == Settings.latency_reference
        slow(c) == Latency(q, c) > reference
        load == [c \in Models |-> Load(q, c)]
        over == [c \in Models |-> Success(q, c) * (IF slow(c) THEN reference ELSE 1)]
        under == [c \in Models |-> IF slow(c) THEN Latency(q, c) ELSE 1]
        scaled(c) == (Settings.base_cap * over[c]) \div (100 * under[c])
        cap == [c \in Models |-> MostOf({Settings.min_cap, scaled(c)})]
        health(c) == Ratio(Eligible(q), c, over, under)
        usage(c) == Ratio(Eligible(q), c, load, cap)
        free == {c \in Eligible(q) : load[c] < cap[c]}
        rank(c) == <<-health(c), -Quality(c), Cost(q, c)>>
        chosen == IF free # {} THEN Best(free, [c \in Models |-> Append(rank(c), -Name(c))])
                  ELSE Best(Eligible(q),
                            [c \in Models |-> <<usage(c)>> \o rank(c) \o <<Name(c)>>])
    IN  Decision(chosen, Sorted(Eligible(q) \ {chosen}, [c \in Models |->
            <<Late(c \notin free)>> \o rank(c) \o <<Name(c)>>]))

QueueDepthFairness(q) ==
    LET cap == Settings.queue_cap
        free == {c \in Eligible(q) : Load(q, c) < cap}
        rest == [c \in Models |-> <<Load(q, c), -Quality(c), Cost(q, c), Name(c)>>]
        chosen == IF free # {}
                  THEN Best(free, [c \in Models |-> <<-Quality(c), Load(q, c), Cost(q, c), -Name(c)>>])
                  ELSE Best(Eligible(q), rest)
    IN  Decision(chosen, Sorted(Eligible(q) \ {chosen},
                                [c \in Models |-> <<Late(Load(q, c) >= cap)>> \o rest[c]]))

SoftRateLimit(q) ==
    LET limited(c) == <<q.limited[Provider(c)], q.limit_rate[Provider(c)]>>
        key == [c \in Models |-> limited(c) \o <<-Quality(c), Cost(q, c), Name(c)>>]
    IN  FirstOf(Sorted(Active(q), key) \o Sorted(Eligible(q) \ Active(q), key))

\* q.tokens: what TokenRpmWindow counted for each provider in the last minute.
Tokens(q, c) == q.tokens[Provider(c)]

TokenRpmCeiling(q) ==
    LET projected(c) == Tokens(q, c) + q.prompt
        over(c) == projected(c) > Settings.rpm_ceiling
        under == {c \in Eligible(q) : ~over(c)}
        chosen == IF under # {} THEN FinestByName(q, under)
                  ELSE Best(Eligible(q),
                            [c \in Models |-> <<projected(c), -Quality(c), Cost(q, c), Name(c)>>])
    IN  Decision(chosen, Sorted(Eligible(q) \ {chosen}, [c \in Models |->
            <<Late(over(c)), -Quality(c), projected(c), Cost(q, c), Name(c)>>]))

\* The provider with the most left; a hash decides between equals once any was used.
ProviderTokenFairShare(q) ==
    LET used(c) == Tokens(q, c)
        left(c) == MostOf({0, Settings.fair_share - used(c) - q.prompt})
        most == MostOf({left(c) : c \in Eligible(q)})
        tied == {Provider(c) : c \in {d \in Eligible(q) : left(d) = most}}
        of(providers) == {c \in Eligible(q) : Provider(c) \in providers}
        bucket == (q.hash % (Cardinality(tied) * most)) \div most
        provider == IF (\A c \in Eligible(q) : used(c) = 0) \/ Cardinality(tied) = 1
                    THEN Provider(Best(of(tied), [c \in Models |-> <<-Quality(c), Provider(c)>>]))
                    ELSE Sorted(tied, [p \in Providers |-> <<p>>])[1 + bucket]
        chosen == IF most > 0 THEN FinestByName(q, of({provider}))
                  ELSE Best(Eligible(q), [c \in Models |-> <<used(c), -Quality(c), Cost(q, c), Name(c)>>])
    IN  Decision(chosen, Sorted(Eligible(q) \ {chosen}, [c \in Models |->
            <<-left(c), used(c), -Quality(c), Cost(q, c), Name(c)>>]))

\* q.cooldown: what is left of each provider's Retry-After.
RetryAfterRespect(q) ==
    LET wait(c) == q.cooldown[Provider(c)]
        ready == {c \in Eligible(q) : wait(c) = 0}
        up == Closed(q, Eligible(q))
        chosen == IF up \cap ready # {} THEN FinestByName(q, up \cap ready)
                  ELSE IF up # {} THEN Best(up, [c \in Models |-> <<wait(c), -Quality(c), Name(c)>>])
                  ELSE FinestByName(q, OrElse(ready, Eligible(q)))
    IN  Decision(chosen, Sorted(Eligible(q) \ {chosen}, [c \in Models |->
            <<Late(wait(c) > 0), Late(~Up(q, c)), wait(c), -Quality(c), Name(c)>>]))

\* The budget of probes is seen in the rationale only.
CircuitBreakerHalfOpenProbe(q) ==
    LET half == {c \in Eligible(q) : Provider(c) \in q.half_open}
    IN  Decided(FinestByName(q, OrElse(Closed(q, Eligible(q)) \ half, OrElse(half, Eligible(q)))))
-----------------------------------------------------------------------------
(* Success rates *)

AdaptiveExploration(q) ==
    LET spread == Settings.explore_base - Settings.explore_min
        n == 1 + q.successes
    IN  Explore(q, InShare(q, Settings.explore_min * n + spread, 100 * n))

SloAware(q) ==
    LET steady == {c \in Eligible(q) : Success(q, c) >= Settings.slo}
    IN  Decided(IF steady # {}
                THEN Best(steady, [c \in Models |-> <<-Quality(c), -Success(q, c), Cost(q, c)>>])
                ELSE Best(Eligible(q), [c \in Models |-> <<-Success(q, c), -Quality(c)>>]))

ProviderErrorBudgetShed(q) ==
    LET errors(c) == 100 - Success(q, c)
        over(c) == errors(c) > Settings.error_budget
        under == {c \in Active(q) : ~over(c)}
        c == IF under # {}
             THEN Best(under, [d \in Models |-> <<-Quality(d), errors(d), Cost(q, d), -Name(d)>>])
             ELSE Best(Active(q), [d \in Models |-> <<errors(d), -Quality(d), Cost(q, d), Name(d)>>])
    IN  Decision(c, Sorted(Eligible(q) \ {c}, [d \in Models |->
            <<Late(~Up(q, d)), Late(over(d)), errors(d), -Quality(d), Cost(q, d), Name(d)>>]))

\* q.errors and q.reset: the rate in the window of each provider, and what is left of it.
ProviderErrorBudgetReset(q) ==
    LET errors(c) == q.errors[Provider(c)]
        over(c) == errors(c) > Settings.error_budget
        within == {c \in Active(q) : ~over(c)}
        chosen == IF within # {} THEN FinestByName(q, within)
                  ELSE Best(Active(q), [c \in Models |->
                           <<q.reset[Provider(c)], errors(c), -Quality(c), Name(c)>>])
    IN  Decision(chosen, Sorted(Active(q) \ {chosen}, [c \in Models |->
            <<Late(over(c)), errors(c), -Quality(c), Name(c)>>]))

ProviderSuccessFloor(q) ==
    LET floor == Settings.success_floor
        above == {c \in Active(q) : Success(q, c) >= floor}
        chosen == IF above # {}
                  THEN Best(above, [c \in Models |-> <<-Quality(c), -Success(q, c), Cost(q, c), -Name(c)>>])
                  ELSE Best(Active(q),
                            [c \in Models |-> <<-Success(q, c), -Quality(c), Cost(q, c), -Name(c)>>])
    IN  Decision(chosen, Sorted(Active(q) \ {chosen}, [c \in Models |->
            <<Late(c \notin above), -Success(q, c), -Quality(c), Cost(q, c), Name(c)>>]))
-----------------------------------------------------------------------------
(* Money and caches *)

SoftFamilyBudget(q) ==
    LET under == {c \in Eligible(q) : q.spend[Provider(c)] <= Settings.family_budget}
        others == {c \in Eligible(q) : Provider(c) # Provider(Finest(q, Eligible(q)))}
    IN  Decided(IF under # {} THEN Finest(q, under) ELSE Cheapest(q, OrElse(others, Eligible(q))))

TokenCostAnomalyShed(q) ==
    LET top == Finest(q, Eligible(q))
        threshold == q.mean * Settings.anomaly_ratio * (q.prompt + q.max_tokens)
        cheaper == {c \in Active(q) : Cost(q, c) < Cost(q, top)}
    IN  Decided(IF q.mean > 0 /\ Cost(q, top) * 1000 > threshold /\ cheaper # {}
                THEN Cheapest(q, cheaper) ELSE top)

SemanticCacheTtlAffinity(q) ==
    LET ttl(c) == q.ttl[Provider(c)]
        warm == {c \in Reachable(q) : ttl(c) \in 1..Settings.ttl}
    IN  Decided(IF q.cacheable /\ warm # {}
                THEN Best(warm, [c \in Models |-> <<-ttl(c), -Quality(c), Cost(q, c), -Name(c)>>])
                ELSE FinestByName(q, Reachable(q)))

ProviderSpendTelemetry(q) ==
    LET spend(c) == q.spend[Provider(c)]
    IN  Decided(IF \A c \in Reachable(q) : spend(c) < Settings.soft_spend
                THEN FinestByName(q, Reachable(q))
                ELSE Best(Reachable(q), [c \in Models |-> <<spend(c), -Quality(c), Cost(q, c), Name(c)>>]))

\* Over the last hour; a provider beyond the ceiling is left out.
ProviderHourlyCostCeiling(q) ==
    LET under == {c \in Eligible(q) : q.spend[Provider(c)] <= Settings.hourly_ceiling}
    IN  Decided(IF under # {} THEN FinestByName(q, under)
                ELSE Best(Eligible(q), ByCost(q)))

CarbonAwarePreference(q) ==
    LET clean == {c \in Reachable(q) : Carbon(q, c) <= Settings.max_intensity}
    IN  Decided(Best(OrElse(clean, Reachable(q)),
                     [c \in Models |-> <<Carbon(q, c), -Quality(c), Cost(q, c), Name(c)>>]))
===============================================================================
