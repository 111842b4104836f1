--------------------------- MODULE StaticStrategies ---------------------------
(***************************************************************************)
(* The strategies of src/router/strategies.py that decide by the request,  *)
(* the catalog and the circuits.  Each operator is the decision of choose  *)
(* for a question q; rationales are left out.                              *)
(***************************************************************************)
EXTENDS ModelCatalog, FiniteSetsExt

CONSTANT Settings   \* the thresholds, weights and models of RouterSettings

\* Candidates in the order of their names.
ByName(pool) == Sorted(pool, [c \in Models |-> <<Name(c)>>])

\* The key of the cheapest: cost, then quality, then name.
ByCost(q) == [c \in Models |-> <<Cost(q, c), -Quality(c), Name(c)>>]

\* Indexing a sequence by a hash.
Pick(s, hash) == s[1 + (hash % Len(s))]
-----------------------------------------------------------------------------
(* By rules, price and quality *)

RuleBased(q) ==
    Decided(IF q.domain \in {"medical", "legal"} THEN Settings.safety
            ELSE IF q.domain = "code" /\ q.complexity >= 55 THEN Settings.frontier
            ELSE IF q.complexity <= 35 /\ ~q.batch THEN Settings.flash
            ELSE IF q.requested \in Models THEN q.requested
            ELSE Settings.balanced)

Classifier(q) ==
    Decided(IF q.complexity >= 80 THEN Settings.safety
            ELSE IF q.domain = "code" THEN Settings.frontier
            ELSE IF q.complexity <= 40 THEN Settings.moonshot
            ELSE Settings.balanced)

Feasible(q) == {c \in Serving(q) : Quality(c) >= Settings.quality_floor /\ InTime(q, c)}

CostOptimal(q) ==
    Decided(IF Feasible(q) = {} THEN Best(Models, [c \in Models |-> <<-Quality(c)>>])
            ELSE Best(Feasible(q), [c \in Models |-> <<Cost(q, c)>>]))

\* ceiling maps a provider to what a request may cost there.
Within(q, ceiling) ==
    LET affordable == {c \in Eligible(q) : Cost(q, c) <= ceiling[Provider(c)]}
    IN  Decided(IF affordable # {} THEN Finest(q, affordable) ELSE Cheapest(q, Eligible(q)))

BudgetAware(q) == Within(q, [p \in Providers |-> Settings.request_ceiling])

ProviderFamilyCostCeiling(q) == Within(q, Settings.family_ceiling)

\* value_ratio; _COST_EPSILON_USD, less than any price, stands for a cost of nothing.
Value(q) ==
    LET free(c) == Cost(q, c) = 0 /\ Quality(c) > 0
        quality == [c \in Models |-> Quality(c)]
        cost == [c \in Models |-> IF Cost(q, c) = 0 THEN 1 ELSE Cost(q, c)]
        value(c) == Ratio(Eligible(q), c, quality, cost)
    IN  Decided(Best(Eligible(q), [c \in Models |->
            <<IF free(c) THEN 0 ELSE 1, -value(c), -Quality(c), Cost(q, c)>>]))

ComplexityTier(q) ==
    LET admitted == {c \in Eligible(q) : Quality(c) >= q.complexity}
    IN  Decided(IF admitted # {} THEN Cheapest(q, admitted) ELSE Finest(q, Eligible(q)))

Cascade(q) ==
    LET inTime == {c \in Serving(q) : InTime(q, c)}
    IN  FirstOf(Sorted(OrElse(inTime, Eligible(q)), ByCost(q)))

TokenBudget(q) ==
    LET window(c) == Catalog[c].window
        needed == q.prompt + q.max_tokens
        least(x, y) == IF x < y THEN x ELSE y
        fitting == {c \in Eligible(q) :
                        needed <= least(window(c), q.token_budget) /\ q.prompt <= InputLimit(c)}
        room(c) == least(InputLimit(c), window(c) - q.max_tokens)
    IN  FirstOf(IF fitting # {}
                THEN Sorted(fitting, [c \in Models |-> <<-Quality(c), -window(c)>>])
                ELSE Sorted(Eligible(q), [c \in Models |-> <<-room(c), -window(c), -Quality(c)>>]))

PromptLengthTierShed(q) ==
    LET modest == {c \in Eligible(q) : Tier(c) # "frontier"}
    IN  Decided(Finest(q, IF q.prompt > Settings.prompt_tier
                          THEN OrElse(modest, Eligible(q)) ELSE Eligible(q)))

SemanticCache(q) ==
    IF q.hit
    THEN Decided(Best(OrElse({c \in Serving(q) : InTime(q, c)}, Eligible(q)),
                      ByCost(q)))
    ELSE Decided(CostOptimal(q).chosen)

\* The mirror is named in the rationale only.
ShadowTrafficMirror(q) == Decided(Cheapest(q, OrElse(Feasible(q), Eligible(q))))
-----------------------------------------------------------------------------
(* By a preference in the request's metadata *)

QualityFirst(q) == RankedBy(Active(q), [c \in Models |-> <<-Quality(c), Cost(q, c)>>])

CostFirst(q) == FirstOf(Sorted(Active(q), ByCost(q)))

TenantSoftIsolation(q) ==
    IF q.tenant_rpm > Settings.isolation_rpm THEN CostFirst(q) ELSE QualityFirst(q)

PromptInjectionRiskShed(q) ==
    IF q.risk >= Settings.risk_threshold THEN CostFirst(q) ELSE QualityFirst(q)

\* With everything up excluded, anything eligible will do, circuits or not.
ProviderExclusion(q) ==
    LET left == {c \in Active(q) : Provider(c) \notin q.without /\ c \notin q.without_models}
    IN  RankedBy(OrElse(left, Eligible(q)), [c \in Models |-> <<-Quality(c), Cost(q, c)>>])
-----------------------------------------------------------------------------
(* By region *)

Region(q) == IF q.region = "" THEN "global" ELSE q.region

GeoRegion(q) ==
    Decided(Finest(q, OrElse({c \in Eligible(q) : InRegion(c, Region(q))}, Eligible(q))))

RegionTierAffinity(q) ==
    LET there == {c \in Eligible(q) : InRegion(c, Region(q))}
        tier == {c \in Eligible(q) : Tier(c) = TargetTier(q)}
    IN  Decided(Finest(q, OrElse(there \cap tier, OrElse(tier, OrElse(there, Eligible(q))))))
-----------------------------------------------------------------------------
(* By a hash *)

StickySession(q) == Decided(Pick(ByName(Eligible(q)), q.key))

RoundRobin(q) ==
    LET providers == {Provider(c) : c \in Eligible(q)}
        provider == Pick(Sorted(providers, [p \in Providers |-> <<p>>]), q.hash)
    IN  Decided(Finest(q, {c \in Eligible(q) : Provider(c) = provider}))

\* Another hash points at a candidate; or the best by quality and then name.
Explore(q, exploring) ==
    Decided(IF exploring THEN Pick(ByName(Eligible(q)), q.explore)
            ELSE Best(Eligible(q), [c \in Models |-> <<-Quality(c), -Name(c)>>]))

EpsilonGreedy(q) == Explore(q, InSlice(q, Settings.epsilon))

ABRouting(q) == Decided(IF InSlice(q, Settings.ab_weight) THEN Settings.ab_a ELSE Settings.ab_b)

\* _fallback_chain of the canaries: the stable model first.
CanaryDecided(c) ==
    LET stable == Settings.stable
        chain == UpTo3(QualityChain(c))
        rest == Filtered(chain, {i \in DOMAIN chain : chain[i] # stable})
    IN  IF c = Settings.canary /\ stable # c THEN Decision(c, <<stable>> \o rest) ELSE Decided(c)

CanaryUp(q) == Up(q, Settings.canary)

Canary(q) ==
    CanaryDecided(IF CanaryUp(q) /\ InSlice(q, Settings.canary_weight)
                  THEN Settings.canary ELSE Settings.stable)

CanaryTierBlend(q) ==
    LET tier == {c \in Eligible(q) : Tier(c) = TargetTier(q)}
    IN  CanaryDecided(IF InSlice(q, Settings.canary_weight) /\ CanaryUp(q) THEN Settings.canary
                      ELSE Finest(q, OrElse(tier, Eligible(q))))

CanaryCostBlend(q) ==
    LET byCost == Sorted(Active(q), [c \in Models |-> <<Cost(q, c), -Quality(c)>>])
    IN  Decided(IF InSlice(q, Settings.canary_cost_percent) /\ Len(byCost) > 1
                THEN byCost[2] ELSE byCost[1])

\* The mirrored request goes to another provider than the primary one; it is named
\* in the rationale, and is the first fallback.
CanaryShadowSplit(q) ==
    LET preferred == {c \in Active(q) : Provider(c) = Settings.shadow_provider}
        primary == FinestByName(q, OrElse(preferred, Active(q)))
        others == {c \in Active(q) : Provider(c) # Provider(primary)}
        shadow(c) == others # {} /\ c = FinestByName(q, others)
    IN  Decision(primary, Sorted(Active(q) \ {primary},
            [c \in Models |-> <<Late(~shadow(c)), -Quality(c), Name(c)>>]))

PromptPrefixCache(q) ==
    LET pool == OrElse({c \in Serving(q) : InTime(q, c)}, Eligible(q))
    IN  IF q.prefix THEN Decided(Pick(Sorted(pool, [c \in Models |-> <<Provider(c), Name(c)>>]), q.key))
        ELSE Decided(CostOptimal(q).chosen)
-----------------------------------------------------------------------------
(* By the circuits *)

\* ReliabilityAware has a chain of its own, of the whole catalog.
ReliabilityChain(q, c) ==
    Sorted(Models \ {c}, [d \in Models |-> <<IF Up(q, d) THEN 0 ELSE 1, -Quality(d)>>])

ReliabilityAware(q) ==
    LET c == Finest(q, Active(q)) IN Decision(c, ReliabilityChain(q, c))

FailoverPriority(q) ==
    LET priority == Settings.priority
        up == {i \in DOMAIN priority : Up(q, priority[i])}
        c == priority[IF up # {} THEN LeastOf(up) ELSE 1]
    IN  Decision(c, Filtered(priority, {i \in DOMAIN priority : priority[i] # c}))

\* fault: the key is hashed onto the candidates that are up
RingOfTheUp(q) == Pick(ByName(Active(q)), q.key)

\* The first candidate that is up, from the one the key hashes to, around the
\* candidates in the order of their names.
Ring(q) ==
    LET ring == ByName(Eligible(q))
        at(offset) == Pick(ring, q.key + offset)
        offsets == {o \in 0..(Len(ring) - 1) : Up(q, at(o))}
    IN  at(IF offsets = {} THEN 0 ELSE LeastOf(offsets))

\* They differ in the key: a tenant, the beginning of the prompt, a namespace.
StickyTenantHash(q) == Decided(Ring(q))
CacheHitStickyWarmPool(q) == Decided(Ring(q))
EmbeddingCacheKeyNamespace(q) == Decided(Ring(q))

\* _region_preferences; a region named twice counts where it is named first.
Regions(q) == IF q.region = "" THEN Settings.regions ELSE <<q.region>> \o Settings.regions

\* The session is hashed onto what is up in the first region where anything is.
StickyRegionFailover(q) ==
    LET up(r) == {c \in Closed(q, Eligible(q)) : InRegion(c, r)}
        live == {i \in DOMAIN Regions(q) : up(Regions(q)[i]) # {}}
        pool == IF live # {} THEN up(Regions(q)[LeastOf(live)]) ELSE Active(q)
    IN  Decided(Pick(ByName(pool), q.key))

StickyCanaryCost(q) ==
    LET primary == Pick(ByName(Eligible(q)), q.key)
        cheaper == {c \in Closed(q, Eligible(q)) : Cost(q, c) < Cost(q, primary)}
    IN  Decided(IF InSlice(q, Settings.sticky_canary_percent) /\ cheaper # {}
                THEN Best(cheaper, ByCost(q)) ELSE Ring(q))

\* Candidates in the order of their names get stretches as long as their quality.
Stretch(c) == IF Quality(c) = 0 THEN 1 ELSE Quality(c)

QualityWeightedSticky(q) ==
    LET ring == ByName(Eligible(q))
        upTo(i) == MapThenSumSet(Stretch, {ring[j] : j \in 1..i})
        bucket == q.key % upTo(Len(ring))
    IN  Decided(ring[LeastOf({i \in DOMAIN ring : bucket < upTo(i)})])
===============================================================================
