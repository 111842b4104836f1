------------------------------ MODULE MCDeciding ------------------------------
(***************************************************************************)
(* Four models of three providers: two of them equal in quality and price, *)
(* one of them cheap, and dearer than it looks for a long prompt.          *)
(***************************************************************************)
EXTENDS Deciding

NoLimit == 1000

Capabilities ==
    {"agents_api", "audio", "background_mode", "batch", "code_execution", "computer_use",
     "deep_research", "embeddings", "file_search", "fine_tune", "image_gen", "json", "logprobs",
     "mcp", "memory_tool", "moderation", "parallel_tool_calls", "pdf", "predicted_outputs",
     "prompt_caching", "realtime_api", "reasoning_effort", "responses_api", "streaming",
     "thinking", "tools", "transcription", "vector_store", "video", "vision", "web_search",
     "webhook"}

Keys ==
    {"has_images", "requires_agents_api", "requires_audio", "requires_background_mode",
     "requires_batch", "requires_code_execution", "requires_computer_use",
     "requires_deep_research", "requires_embeddings", "requires_file_search",
     "requires_fine_tune", "requires_image_gen", "requires_json", "requires_logprobs",
     "requires_mcp", "requires_memory_tool", "requires_moderation",
     "requires_parallel_tool_calls", "requires_pdf", "requires_predicted_outputs",
     "requires_prompt_caching", "requires_realtime", "requires_reasoning_effort",
     "requires_responses_api", "requires_tools", "requires_transcription",
     "requires_vector_store", "requires_video", "requires_web_search", "requires_webhook",
     "stream"}

Lists ==
    {"agents_api_models", "audio_models", "background_mode_models", "batch_models",
     "code_execution_models", "computer_use_models", "deep_research_models", "embeddings_models",
     "file_search_models", "fine_tune_models", "image_gen_models", "logprobs_models",
     "mcp_models", "memory_tool_models", "moderation_models", "multimodal_models",
     "parallel_tool_models", "pdf_models", "predicted_outputs_models", "prompt_caching_models",
     "realtime_api_models", "reasoning_effort_models", "responses_api_models", "streaming_models",
     "structured_models", "thinking_models", "tool_capable_models", "transcription_models",
     "vector_store_models", "video_models", "web_search_models", "webhook_models"}

MCCatalog == <<
    [name |-> 2, provider |-> 1, quality |-> 98, domains |-> {"code", "medical"},
     realtime |-> TRUE, regions |-> {"us", "eu"}, tier |-> "frontier",
     window |-> 100, max_input |-> NoLimit, short |-> <<4, 20>>, long |-> <<4, 20>>,
     long_above |-> NoLimit, known |-> TRUE, capabilities |-> {}, hints |-> Capabilities],
    [name |-> 4, provider |-> 2, quality |-> 95, domains |-> {"code", "medical"},
     realtime |-> FALSE, regions |-> {"us", "eu"}, tier |-> "frontier",
     window |-> 80, max_input |-> NoLimit, short |-> <<2, 10>>, long |-> <<2, 10>>,
     long_above |-> NoLimit, known |-> TRUE, capabilities |-> Capabilities, hints |-> {}],
    [name |-> 1, provider |-> 3, quality |-> 95, domains |-> {"code"},
     realtime |-> TRUE, regions |-> {"us"}, tier |-> "mid",
     window |-> 100, max_input |-> 25, short |-> <<2, 10>>, long |-> <<2, 10>>,
     long_above |-> NoLimit, known |-> FALSE, capabilities |-> {}, hints |-> Capabilities],
    [name |-> 3, provider |-> 3, quality |-> 82, domains |-> {"general"},
     realtime |-> TRUE, regions |-> {"us"}, tier |-> "economy",
     window |-> 60, max_input |-> NoLimit, short |-> <<1, 5>>, long |-> <<3, 15>>,
     long_above |-> 20, known |-> FALSE, capabilities |-> {}, hints |-> {}] >>

MCSettings == [
    safety |-> 1, frontier |-> 3, flash |-> 4, balanced |-> 3, moonshot |-> 2,
    quality_floor |-> 90, request_ceiling |-> 60, family_ceiling |-> <<100, 20, 60>>,
    prompt_tier |-> 10, isolation_rpm |-> 60, risk_threshold |-> 70, epsilon |-> 40,
    ab_weight |-> 50, ab_a |-> 1, ab_b |-> 3, stable |-> 1, canary |-> 3, canary_weight |-> 40,
    canary_cost_percent |-> 40, priority |-> <<3, 1, 2>>, regions |-> <<"eu", "us">>,
    sticky_canary_percent |-> 40, latency_sla |-> 300, latency_slo |-> 300,
    base_timeout |-> 150, hedge |-> 300, hedge_percent |-> 150, p99 |-> 300, slope |-> 1,
    tail_latency |-> 300, deadline |-> 100, blend |-> <<0, 2, 1, 1>>,
    health_blend |-> <<4, 2, 1, 2>>, hcl |-> <<4, 0, 3, 3>>, carbon_percent |-> 50,
    carbon_weight |-> 1, latency_weight |-> 2, warmup_percent |-> 30, concurrency_cap |-> 1,
    lease |-> 1, queue_cap |-> 1, base_cap |-> 3, min_cap |-> 1, latency_reference |-> 300,
    rpm_ceiling |-> 60, fair_share |-> 12, explore_base |-> 60, explore_min |-> 10,
    slo |-> 90, error_budget |-> 15, success_floor |-> 85, family_budget |-> 50,
    anomaly_ratio |-> 2, ttl |-> 300, soft_spend |-> 50, hourly_ceiling |-> 50,
    max_intensity |-> 400, shadow_provider |-> 2, thinking_complexity |-> 70]

All(v) == [p \in Providers |-> v]

\* A question with nothing asked for and nothing measured.
Plain == [
    domain |-> "code", batch |-> FALSE, complexity |-> 20, requested |-> NoModel, prompt |-> 1,
    max_tokens |-> 1, token_budget |-> 90, hash |-> 0, explore |-> 0, key |-> 0, region |-> "",
    prefix |-> FALSE, hit |-> FALSE, tenant_rpm |-> 0, risk |-> 0, without |-> {},
    without_models |-> {}, asked |-> {}, allowlists |-> <<>>, capabilities |-> <<>>,
    required |-> {}, min_context |-> 0, windows |-> <<>>, class |-> "interactive",
    remaining |-> -1, open |-> {}, half_open |-> {}, retries |-> 3, successes |-> 0, mean |-> 0,
    cacheable |-> FALSE, latency |-> All(0), slope |-> All(0), success |-> All(99),
    load |-> All(0), tenant_load |-> All(0), limited |-> All(0), limit_rate |-> All(0),
    cooldown |-> All(0), tokens |-> All(0), errors |-> All(0), reset |-> All(0),
    spend |-> All(0), carbon |-> All(0), weight |-> All(100), warmup |-> All(100),
    ttl |-> All(100)]

\* What the fields of a first question can be; measurements are at their worst,
\* and Levels is what they can improve to.
Values == [
    domain |-> {"code", "legal"}, batch |-> BOOLEAN, complexity |-> {20, 50, 96},
    requested |-> {NoModel, 2}, prompt |-> {1, 30}, max_tokens |-> {1, 60},
    token_budget |-> {90, 50}, hash |-> 0..3, explore |-> 0..3, key |-> {0, 1, 2, 3, 150, 250},
    region |-> {"", "us", "cn"}, prefix |-> BOOLEAN, hit |-> BOOLEAN, tenant_rpm |-> {0, 99},
    risk |-> {0, 70}, without |-> {{}, {1}, {1, 3}}, without_models |-> {{}, {2}},
    asked |-> {{}, Keys}, allowlists |-> {<<>>, [l \in Lists |-> {2, 4}]},
    capabilities |-> {<<>>, [c \in {1, 2} |-> IF c = 1 THEN Capabilities ELSE {}]},
    required |-> {{}, {"tools", "vision"}}, min_context |-> {0, 50},
    windows |-> {<<>>, [c \in {1} |-> 40]}, class |-> {"interactive", "batch", "bulk"},
    remaining |-> {-1, 50}, retries |-> {1, 3}, successes |-> {0, 3}, mean |-> {0, 900},
    cacheable |-> BOOLEAN, latency |-> {All(500), <<0, 500, 500>>}, slope |-> {All(2)},
    success |-> {All(60)}, load |-> {All(2)}, tenant_load |-> {All(2)}, limited |-> {All(1)},
    limit_rate |-> {All(50)}, cooldown |-> {All(2)}, tokens |-> {All(70)}, errors |-> {All(50)},
    reset |-> {All(1)}, spend |-> {All(90)}, carbon |-> {All(500)}, weight |-> {All(40)},
    warmup |-> {All(0)}, ttl |-> {All(0)}]

MCLevels == [
    latency |-> {200}, slope |-> {0}, success |-> {99}, load |-> {0}, tenant_load |-> {0},
    limited |-> {0}, limit_rate |-> {0}, cooldown |-> {0}, tokens |-> {10},
    errors |-> {0}, reset |-> {0}, spend |-> {40}, carbon |-> {300}, weight |-> {100},
    warmup |-> {100}, ttl |-> {100}]

MCBenefits == {"success", "weight", "warmup", "ttl"}

\* Who reads the fields that not all of them read.
Readers == [
    prompt |-> {"CostOptimal", "BudgetAware", "ProviderFamilyCostCeiling", "Value",
        "ComplexityTier", "Cascade", "TokenBudget", "PromptLengthTierShed", "ShadowTrafficMirror",
        "CanaryCostBlend", "StickyCanaryCost", "TokenCostAnomalyShed", "CostLatencyPareto",
        "WeightedBlend", "TenantSoftIsolation", "PromptInjectionRiskShed", "TokenRpmCeiling",
        "RequestClassQos", "SoftFamilyBudget", "ProviderHourlyCostCeiling"},
    batch |-> {"RuleBased", "CostOptimal", "Cascade", "AdaptiveTimeout", "PromptPrefixCache",
        "SemanticCache", "ShadowTrafficMirror"},
    complexity |-> {"RuleBased", "Classifier", "ComplexityTier", "RegionTierAffinity",
        "CanaryTierBlend", "ThinkingModelPrefer"},
    requested |-> {"RuleBased"},
    max_tokens |-> {"TokenBudget"},
    token_budget |-> {"TokenBudget"},
    hash |-> {"Canary", "RoundRobin", "EpsilonGreedy", "ABRouting", "CanaryTierBlend",
        "AdaptiveExploration", "CanaryCostBlend", "StickyCanaryCost", "ProviderTokenFairShare"},
    explore |-> {"EpsilonGreedy", "AdaptiveExploration"},
    key |-> {"StickySession", "StickyRegionFailover", "PromptPrefixCache", "StickyTenantHash",
        "CacheHitStickyWarmPool", "EmbeddingCacheKeyNamespace", "StickyCanaryCost",
        "QualityWeightedSticky"},
    region |-> {"GeoRegion", "RegionTierAffinity", "StickyRegionFailover",
        "MultiRegionLatencyHedge", "RegionLatencyP99Shed"},
    prefix |-> {"PromptPrefixCache"},
    hit |-> {"SemanticCache"},
    tenant_rpm |-> {"TenantSoftIsolation"},
    risk |-> {"PromptInjectionRiskShed"},
    without |-> {"ProviderExclusion"},
    without_models |-> {"ProviderExclusion"},
    required |-> {"ModelCapabilityGate"},
    min_context |-> {"LongContextPrefer"},
    windows |-> {"LongContextPrefer"},
    class |-> {"RequestClassQos"},
    remaining |-> {"DeadlineAwarePick"},
    retries |-> {"RetryBudgetAwareFailover"},
    successes |-> {"AdaptiveExploration"},
    mean |-> {"TokenCostAnomalyShed"},
    cacheable |-> {"SemanticCacheTtlAffinity"},
    latency |-> {"LatencyAware", "CostLatencyPareto", "WeightedBlend", "ProviderHealthScoreBlend",
        "HealthCostLatency", "LatencyBudget", "LatencySloShed", "AdaptiveTimeout",
        "MultiRegionLatencyHedge", "RetryBudgetAwareFailover", "RegionLatencyP99Shed",
        "AdaptiveTimeoutHedge", "RegionCarbonBlend", "LatencySlopeShed", "CarbonLatencyBlend",
        "AdaptiveConcurrencyCap", "ProviderTailLatencyHedge", "RequestClassQos",
        "DeadlineAwarePick"},
    slope |-> {"LatencySlopeShed"},
    success |-> {"ProviderHealthScoreBlend", "HealthCostLatency", "SloAware", "AdaptiveTimeout",
        "ProviderErrorBudgetShed", "ProviderSuccessFloor"},
    load |-> {"LeastBusy", "ConcurrencyCap", "QueueDepthFairness", "AdaptiveConcurrencyCap"},
    tenant_load |-> {"TenantConcurrencyLease"},
    limited |-> {"SoftRateLimit"},
    limit_rate |-> {"SoftRateLimit"},
    cooldown |-> {"RetryAfterRespect"},
    tokens |-> {"TokenRpmCeiling", "ProviderTokenFairShare"},
    errors |-> {"ProviderErrorBudgetReset"},
    reset |-> {"ProviderErrorBudgetReset"},
    spend |-> {"SoftFamilyBudget", "ProviderSpendTelemetry", "ProviderHourlyCostCeiling"},
    carbon |-> {"CarbonAwarePreference", "RegionCarbonBlend", "CarbonLatencyBlend"},
    weight |-> {"ProviderWeightDecay"},
    warmup |-> {"ProviderWarmupWeight"},
    ttl |-> {"SemanticCacheTtlAffinity"},
    allowlists |-> Prefers \cup {"ThinkingModelPrefer"},
    capabilities |-> Prefers \cup {"ModelCapabilityGate"},
    asked |-> Prefers]

Varied(s) == {"domain"} \cup {f \in DOMAIN Readers : s \in Readers[f]}

MCQuestions(s) ==
    FoldSet(LAMBDA f, S : {[question EXCEPT ![f] = v] : question \in S, v \in Values[f]},
            {Plain}, Varied(s))

MCStrategies == Known
===============================================================================
