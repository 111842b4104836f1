------------------------------- MODULE Deciding -------------------------------
(***************************************************************************)
(* The decide phase of src/router/engine.py over time: one client sends    *)
(* the same request again and again, and between two decisions a circuit   *)
(* opens or lets calls through again, or a measurement of a provider gets  *)
(* better.  What the strategy decides then is compared with what it        *)
(* decided before.                                                         *)
(***************************************************************************)
EXTENDS CapabilityStrategies

CONSTANTS
    Strategies,         \* the strategies asked, by the names of their classes
    Questions(_),       \* the questions each of them is asked at first
    Levels,             \* Levels[f]: what a measurement f of a provider can become
    Benefits            \* the measurements that are better when they are higher

\* RoutingStrategyName, without the strategies that remember something: those that
\* prefer a capability, and the others.
Prefers ==
    {"StructuredOutputPrefer", "ToolCallingPrefer", "MultimodalInputPrefer",
     "StreamingPrefer", "AudioInputPrefer", "WebSearchPrefer", "ComputerUsePrefer",
     "ImageGenPrefer", "CodeExecutionPrefer", "VideoInputPrefer", "PdfInputPrefer",
     "BatchApiPrefer", "ReasoningEffortPrefer", "TranscriptionPrefer", "ModerationPrefer",
     "PredictedOutputsPrefer", "PromptCachingPrefer", "FineTunePrefer", "EmbeddingsPrefer",
     "ResponsesApiPrefer", "FileSearchPrefer", "VectorStorePrefer", "RealtimeApiPrefer",
     "McpPrefer", "LogprobsPrefer", "BackgroundModePrefer", "ParallelToolPrefer",
     "DeepResearchPrefer", "AgentsApiPrefer", "WebhookPrefer", "MemoryToolPrefer"}

Known == Prefers \cup {
    "RuleBased", "Classifier", "CostOptimal", "LatencyAware", "CostLatencyPareto", "LeastBusy",
    "ConcurrencyCap", "ReliabilityAware", "SoftRateLimit", "WeightedBlend",
    "ProviderHealthScoreBlend", "HealthCostLatency", "BudgetAware", "ProviderFamilyCostCeiling",
    "LatencyBudget", "StickySession", "Value", "ComplexityTier", "Canary", "RoundRobin",
    "Cascade", "EpsilonGreedy", "TokenBudget", "ABRouting", "GeoRegion", "RegionTierAffinity",
    "SoftFamilyBudget", "StickyRegionFailover", "CanaryTierBlend", "LatencySloShed",
    "AdaptiveExploration", "SloAware", "AdaptiveTimeout", "PromptPrefixCache", "SemanticCache",
    "FailoverPriority", "ShadowTrafficMirror", "CanaryCostBlend", "TokenCostAnomalyShed",
    "StickyTenantHash", "MultiRegionLatencyHedge", "PromptLengthTierShed",
    "RetryBudgetAwareFailover", "CacheHitStickyWarmPool", "EmbeddingCacheKeyNamespace",
    "CircuitBreakerHalfOpenProbe", "SemanticCacheTtlAffinity", "ProviderSpendTelemetry",
    "CarbonAwarePreference", "TenantConcurrencyLease", "ProviderErrorBudgetShed",
    "RegionLatencyP99Shed", "StickyCanaryCost", "QueueDepthFairness", "AdaptiveTimeoutHedge",
    "RegionCarbonBlend", "ProviderWeightDecay", "RetryAfterRespect", "LatencySlopeShed",
    "ProviderHourlyCostCeiling", "QualityWeightedSticky", "TokenRpmCeiling",
    "CarbonLatencyBlend", "AdaptiveConcurrencyCap", "ProviderTokenFairShare",
    "ProviderErrorBudgetReset", "ProviderTailLatencyHedge", "RequestClassQos",
    "DeadlineAwarePick", "ProviderSuccessFloor", "ModelCapabilityGate", "ProviderWarmupWeight",
    "TenantSoftIsolation", "ProviderExclusion", "PromptInjectionRiskShed",
    "ThinkingModelPrefer", "LongContextPrefer", "CanaryShadowSplit"}

\* What is known of each provider.
Measures ==
    {"latency", "slope", "success", "load", "tenant_load", "limited", "limit_rate", "cooldown",
     "tokens", "errors", "reset", "spend", "carbon", "weight", "warmup", "ttl"}

\* And of the request, its signals, and the circuits.
Fields == Measures \cup
    {"domain", "batch", "complexity", "requested", "prompt", "max_tokens", "token_budget",
     "hash", "explore", "key", "region", "prefix", "hit", "tenant_rpm", "risk", "without",
     "without_models", "asked", "allowlists", "capabilities", "required", "min_context",
     "windows", "class", "remaining", "retries", "successes", "mean", "cacheable",
     "open", "half_open"}

\* A question as far as the orders of the candidates need it; a latency of nothing is
\* one that was never measured, and an open circuit is not half open.
WellFormed(question) ==
    /\ Fields \subseteq DOMAIN question
    /\ {question.prompt, question.max_tokens, question.hash, question.explore, question.key}
       \subseteq Nat
    /\ question.region \in STRING
    /\ \A c \in DOMAIN question.windows : question.windows[c] \in Nat
    /\ \A f \in Measures : question[f] \in [Providers -> Int]
    /\ \A p \in Providers : question.latency[p] \in Nat /\ question.cooldown[p] \in Nat
    /\ question.open \subseteq Providers /\ question.open \cap question.half_open = {}

\* The models that the strategies name are in the catalog: a gateway does not start
\* without those of its settings, and its catalog has the others.  The list of
\* FailoverPriority has a model of each provider.
ASSUME SettingsAssumption ==
    /\ {Settings.safety, Settings.frontier, Settings.flash, Settings.balanced,
        Settings.moonshot, Settings.ab_a, Settings.ab_b, Settings.stable, Settings.canary}
       \subseteq Models
    /\ Settings.regions \in Seq(STRING)
    /\ Settings.priority \in Seq(Models) /\ Settings.priority # <<>>
    /\ \A c \in Models : \E i \in DOMAIN Settings.priority :
            Provider(Settings.priority[i]) = Provider(c)
    /\ \A i \in 1..4 :
            {Settings.blend[i], Settings.health_blend[i], Settings.hcl[i]} \subseteq Nat
    /\ {Settings.carbon_percent, Settings.carbon_weight, Settings.latency_weight,
        Settings.fair_share} \subseteq Nat
    /\ Settings.warmup_percent \in 0..100

ASSUME QuestionsAssumption ==
    /\ Strategies \subseteq Known
    /\ \A s \in Strategies : \A question \in Questions(s) : WellFormed(question)
    /\ DOMAIN Levels \subseteq Measures
    /\ \A f \in DOMAIN Levels :
        Levels[f] \subseteq IF f = "latency" THEN Nat \ {0}
                            ELSE IF f = "cooldown" THEN Nat ELSE Int

VARIABLES
    strategy,           \* the strategy the client asks for
    q,                  \* the request and what the strategy sees
    decision            \* what it decided for q

vars == <<strategy, q, decision>>

\* build_strategies: the strategy of a name.
Choose(s, question) ==
    CASE s = "RuleBased" -> RuleBased(question)
      [] s = "Classifier" -> Classifier(question)
      [] s = "CostOptimal" -> CostOptimal(question)
      [] s = "LatencyAware" -> LatencyAware(question)
      [] s = "CostLatencyPareto" -> CostLatencyPareto(question)
      [] s = "LeastBusy" -> LeastBusy(question)
      [] s = "ConcurrencyCap" -> ConcurrencyCap(question)
      [] s = "ReliabilityAware" -> ReliabilityAware(question)
      [] s = "SoftRateLimit" -> SoftRateLimit(question)
      [] s = "WeightedBlend" -> WeightedBlend(question)
      [] s = "ProviderHealthScoreBlend" -> ProviderHealthScoreBlend(question)
      [] s = "HealthCostLatency" -> HealthCostLatency(question)
      [] s = "BudgetAware" -> BudgetAware(question)
      [] s = "ProviderFamilyCostCeiling" -> ProviderFamilyCostCeiling(question)
      [] s = "LatencyBudget" -> LatencyBudget(question)
      [] s = "StickySession" -> StickySession(question)
      [] s = "Value" -> Value(question)
      [] s = "ComplexityTier" -> ComplexityTier(question)
      [] s = "Canary" -> Canary(question)
      [] s = "RoundRobin" -> RoundRobin(question)
      [] s = "Cascade" -> Cascade(question)
      [] s = "EpsilonGreedy" -> EpsilonGreedy(question)
      [] s = "TokenBudget" -> TokenBudget(question)
      [] s = "ABRouting" -> ABRouting(question)
      [] s = "GeoRegion" -> GeoRegion(question)
      [] s = "RegionTierAffinity" -> RegionTierAffinity(question)
      [] s = "SoftFamilyBudget" -> SoftFamilyBudget(question)
      [] s = "StickyRegionFailover" -> StickyRegionFailover(question)
      [] s = "CanaryTierBlend" -> CanaryTierBlend(question)
      [] s = "LatencySloShed" -> LatencySloShed(question)
      [] s = "AdaptiveExploration" -> AdaptiveExploration(question)
      [] s = "SloAware" -> SloAware(question)
      [] s = "AdaptiveTimeout" -> AdaptiveTimeout(question)
      [] s = "PromptPrefixCache" -> PromptPrefixCache(question)
      [] s = "SemanticCache" -> SemanticCache(question)
      [] s = "FailoverPriority" -> FailoverPriority(question)
      [] s = "ShadowTrafficMirror" -> ShadowTrafficMirror(question)
      [] s = "CanaryCostBlend" -> CanaryCostBlend(question)
      [] s = "CanaryShadowSplit" -> CanaryShadowSplit(question)
      [] s = "TokenCostAnomalyShed" -> TokenCostAnomalyShed(question)
      [] s = "StickyTenantHash" -> StickyTenantHash(question)
      [] s = "MultiRegionLatencyHedge" -> MultiRegionLatencyHedge(question)
      [] s = "PromptLengthTierShed" -> PromptLengthTierShed(question)
      [] s = "RetryBudgetAwareFailover" -> RetryBudgetAwareFailover(question)
      [] s = "CacheHitStickyWarmPool" -> CacheHitStickyWarmPool(question)
      [] s = "EmbeddingCacheKeyNamespace" -> EmbeddingCacheKeyNamespace(question)
      [] s = "CircuitBreakerHalfOpenProbe" -> CircuitBreakerHalfOpenProbe(question)
      [] s = "SemanticCacheTtlAffinity" -> SemanticCacheTtlAffinity(question)
      [] s = "ProviderSpendTelemetry" -> ProviderSpendTelemetry(question)
      [] s = "CarbonAwarePreference" -> CarbonAwarePreference(question)
      [] s = "TenantConcurrencyLease" -> TenantConcurrencyLease(question)
      [] s = "ProviderErrorBudgetShed" -> ProviderErrorBudgetShed(question)
      [] s = "RegionLatencyP99Shed" -> RegionLatencyP99Shed(question)
      [] s = "StickyCanaryCost" -> StickyCanaryCost(question)
      [] s = "QueueDepthFairness" -> QueueDepthFairness(question)
      [] s = "AdaptiveTimeoutHedge" -> AdaptiveTimeoutHedge(question)
      [] s = "RegionCarbonBlend" -> RegionCarbonBlend(question)
      [] s = "ProviderWeightDecay" -> ProviderWeightDecay(question)
      [] s = "RetryAfterRespect" -> RetryAfterRespect(question)
      [] s = "LatencySlopeShed" -> LatencySlopeShed(question)
      [] s = "ProviderHourlyCostCeiling" -> ProviderHourlyCostCeiling(question)
      [] s = "QualityWeightedSticky" -> QualityWeightedSticky(question)
      [] s = "TokenRpmCeiling" -> TokenRpmCeiling(question)
      [] s = "CarbonLatencyBlend" -> CarbonLatencyBlend(question)
      [] s = "AdaptiveConcurrencyCap" -> AdaptiveConcurrencyCap(question)
      [] s = "ProviderTokenFairShare" -> ProviderTokenFairShare(question)
      [] s = "ProviderErrorBudgetReset" -> ProviderErrorBudgetReset(question)
      [] s = "ProviderTailLatencyHedge" -> ProviderTailLatencyHedge(question)
      [] s = "RequestClassQos" -> RequestClassQos(question)
      [] s = "DeadlineAwarePick" -> DeadlineAwarePick(question)
      [] s = "ProviderSuccessFloor" -> ProviderSuccessFloor(question)
      [] s = "ModelCapabilityGate" -> ModelCapabilityGate(question)
      [] s = "ProviderWarmupWeight" -> ProviderWarmupWeight(question)
      [] s = "TenantSoftIsolation" -> TenantSoftIsolation(question)
      [] s = "StructuredOutputPrefer" -> StructuredOutputPrefer(question)
      [] s = "ProviderExclusion" -> ProviderExclusion(question)
      [] s = "PromptInjectionRiskShed" -> PromptInjectionRiskShed(question)
      [] s = "ThinkingModelPrefer" -> ThinkingModelPrefer(question)
      [] s = "ToolCallingPrefer" -> ToolCallingPrefer(question)
      [] s = "MultimodalInputPrefer" -> MultimodalInputPrefer(question)
      [] s = "StreamingPrefer" -> StreamingPrefer(question)
      [] s = "LongContextPrefer" -> LongContextPrefer(question)
      [] s = "AudioInputPrefer" -> AudioInputPrefer(question)
      [] s = "WebSearchPrefer" -> WebSearchPrefer(question)
      [] s = "ComputerUsePrefer" -> ComputerUsePrefer(question)
      [] s = "ImageGenPrefer" -> ImageGenPrefer(question)
      [] s = "CodeExecutionPrefer" -> CodeExecutionPrefer(question)
      [] s = "VideoInputPrefer" -> VideoInputPrefer(question)
      [] s = "PdfInputPrefer" -> PdfInputPrefer(question)
      [] s = "BatchApiPrefer" -> BatchApiPrefer(question)
      [] s = "ReasoningEffortPrefer" -> ReasoningEffortPrefer(question)
      [] s = "TranscriptionPrefer" -> TranscriptionPrefer(question)
      [] s = "ModerationPrefer" -> ModerationPrefer(question)
      [] s = "PredictedOutputsPrefer" -> PredictedOutputsPrefer(question)
      [] s = "PromptCachingPrefer" -> PromptCachingPrefer(question)
      [] s = "FineTunePrefer" -> FineTunePrefer(question)
      [] s = "EmbeddingsPrefer" -> EmbeddingsPrefer(question)
      [] s = "ResponsesApiPrefer" -> ResponsesApiPrefer(question)
      [] s = "FileSearchPrefer" -> FileSearchPrefer(question)
      [] s = "VectorStorePrefer" -> VectorStorePrefer(question)
      [] s = "RealtimeApiPrefer" -> RealtimeApiPrefer(question)
      [] s = "McpPrefer" -> McpPrefer(question)
      [] s = "LogprobsPrefer" -> LogprobsPrefer(question)
      [] s = "BackgroundModePrefer" -> BackgroundModePrefer(question)
      [] s = "ParallelToolPrefer" -> ParallelToolPrefer(question)
      [] s = "DeepResearchPrefer" -> DeepResearchPrefer(question)
      [] s = "AgentsApiPrefer" -> AgentsApiPrefer(question)
      [] s = "WebhookPrefer" -> WebhookPrefer(question)
      [] s = "MemoryToolPrefer" -> MemoryToolPrefer(question)
-----------------------------------------------------------------------------
Init ==
    /\ strategy \in Strategies
    /\ q \in Questions(strategy)
    /\ decision = Choose(strategy, q)

\* A circuit opens.
Trip(p) ==
    /\ p \notin q.open
    /\ q' = [q EXCEPT !.open = @ \cup {p}, !.half_open = @ \ {p}]

\* Its window has passed, and it is half open; who does not tell this from
\* closed is not asked about it.
Recover(p) ==
    /\ p \in q.open
    /\ q' = [q EXCEPT !.open = @ \ {p},
                     !.half_open = IF strategy = "CircuitBreakerHalfOpenProbe"
                                   THEN @ \cup {p} ELSE @]

\* A probe succeeds.
Close(p) ==
    /\ p \in q.half_open
    /\ q' = [q EXCEPT !.half_open = @ \ {p}]

\* A latency, a load, an error rate or what was spent goes down, a success rate up.
Improve(p) ==
    \E f \in DOMAIN Levels : \E v \in Levels[f] :
        /\ IF f \in Benefits THEN v > q[f][p] ELSE v < q[f][p]
        /\ q' = [q EXCEPT ![f][p] = v]

\* The request is decided again.
Ask ==
    /\ decision' = Choose(strategy, q')
    /\ UNCHANGED strategy

Next ==
    /\ \E p \in Providers : Trip(p) \/ Recover(p) \/ Close(p) \/ Improve(p)
    /\ Ask

Spec == Init /\ [][Next]_vars
-----------------------------------------------------------------------------
(* Properties *)

Chosen == decision.chosen

\* What the engine takes for granted of a decision: a model of the catalog, and
\* no more than three others behind it, each of them once.
TypeOK ==
    /\ strategy \in Strategies
    /\ WellFormed(q)
    /\ Chosen \in Models
    /\ Len(decision.chain) <= 3
    /\ \A i \in DOMAIN decision.chain :
        /\ decision.chain[i] \in Models \ {Chosen}
        /\ \A j \in 1..(i - 1) : decision.chain[j] # decision.chain[i]

\* They choose the quickest or the soonest and build the chain without the price.
AnyPrice == {"RequestClassQos", "DeadlineAwarePick", "RetryAfterRespect"}

\* They build the chain by the order they choose in.
Ranking == Prefers \cup AnyPrice \cup
    {"TenantSoftIsolation", "PromptInjectionRiskShed", "ModelCapabilityGate",
     "ProviderWarmupWeight", "ThinkingModelPrefer", "LongContextPrefer",
     "ProviderHealthScoreBlend", "SoftRateLimit", "FailoverPriority"}

\* They take healthy or eligible candidates, or walk past those that are down.
HealthFirst == Ranking \cup
    {"ReliabilityAware", "ProviderSuccessFloor", "ProviderErrorBudgetShed",
     "StickyTenantHash", "CacheHitStickyWarmPool", "EmbeddingCacheKeyNamespace",
     "StickyRegionFailover", "StickyCanaryCost", "CanaryCostBlend",
     "CanaryShadowSplit", "RetryBudgetAwareFailover", "CircuitBreakerHalfOpenProbe",
     "SemanticCacheTtlAffinity", "ProviderSpendTelemetry", "CarbonAwarePreference",
     "ProviderErrorBudgetReset", "ProviderTailLatencyHedge"}

\* A strategy that looks at the circuits chooses a model behind an open one only
\* when every model that serves the request is, whatever else it weighs.
OpenCircuitIsLastResort ==
    strategy \in HealthFirst /\ ~Up(q, Chosen) => \A c \in Eligible(q) : ~Up(q, c)

\* What a step does to a provider.
Opens(p) == p \in q'.open \ q.open
Returns(p) == p \in q.open \ q'.open
Gains(p) == \E f \in DOMAIN Levels : q'[f][p] # q[f][p]

\* As good as each other, as far as the strategy looks.
SameRank(c, d) ==
    /\ IF strategy = "ProviderWarmupWeight" THEN Warmed(q, c) = Warmed(q, d)
       ELSE Quality(c) = Quality(d)
    /\ strategy \notin AnyPrice => Cost(q, c) = Cost(q, d)

\* The places in a chain of the fallbacks that are up.
Alive(x, chain) == {i \in DOMAIN chain : Up(x, chain[i])}

\* The model a request fails over to and the one its successors are sent to are
\* of one rank: when the circuit of the chosen provider opens, the strategy
\* decides for what its chain of fallbacks had first among those still up.
FailoverFollowsChain ==
    [][ \A p \in Providers :
            /\ strategy \in Ranking
            /\ p = Provider(Chosen) /\ Opens(p)
            /\ Alive(q', decision.chain) # {}
            => SameRank(decision'.chosen,
                        decision.chain[LeastOf(Alive(q', decision.chain))]) ]_vars

\* They pick by a place in what is up, or by what something else in it is like.
Unsettled == {"StickyRegionFailover", "CanaryCostBlend", "ProviderSpendTelemetry",
              "ProviderTailLatencyHedge", "ProviderExclusion", "RequestClassQos",
              "TokenCostAnomalyShed"}

\* A circuit moves the traffic of its own provider only: nobody leaves a healthy
\* model when another provider goes down or comes back, but for the latter.
CircuitMovesOnlyItsOwn ==
    [][ \A p \in Providers :
            /\ strategy \notin Unsettled
            /\ (Opens(p) /\ p # Provider(Chosen)) \/ Returns(p)
            => decision'.chosen = Chosen \/ Provider(decision'.chosen) = p ]_vars

\* They scale each component to the range it has among the candidates.
MinMaxBlends == {"WeightedBlend", "ProviderHealthScoreBlend", "HealthCostLatency",
                 "RegionCarbonBlend", "CarbonLatencyBlend"}

\* They weigh a candidate by what the others are like in some other way: by who
\* is better in all, by the fastest or the most spent of them, or by how many tie.
Comparing == MinMaxBlends \cup {"CostLatencyPareto", "AdaptiveTimeout",
                                "ProviderSpendTelemetry", "ProviderTokenFairShare"}

\* A provider that gets faster, less loaded, cheaper or steadier may win traffic;
\* it never moves traffic from one of the others to another.
GainDrawsToItself ==
    [][ \A p \in Providers :
            strategy \notin Comparing /\ Gains(p)
            => decision'.chosen = Chosen \/ Provider(decision'.chosen) = p ]_vars

\* And it never loses its traffic by getting better.
GainKeepsTraffic ==
    [][ \A p \in Providers :
            p = Provider(Chosen) /\ Gains(p) => Provider(decision'.chosen) = p ]_vars
===============================================================================
