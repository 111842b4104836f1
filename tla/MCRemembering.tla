----------------------------- MODULE MCRemembering -----------------------------
(***************************************************************************)
(* Three providers with a model each, the first one the finest and the     *)
(* dearest; two clients, of whom one asks for a region.                    *)
(***************************************************************************)
EXTENDS Remembering

Model(name, quality, tier, regions, rate) ==
    [name |-> name, provider |-> name, quality |-> quality, domains |-> {"code"},
     realtime |-> TRUE, regions |-> regions, tier |-> tier, window |-> 100, max_input |-> 100,
     short |-> <<rate, 0>>, long |-> <<rate, 0>>, long_above |-> 100, known |-> TRUE,
     capabilities |-> {}, hints |-> {}]

MCCatalog == <<
    Model(2, 98, "frontier", {"eu"}, 3),
    Model(1, 95, "mid", {"us"}, 2),
    Model(3, 82, "economy", {"us"}, 1) >>

MCSettings == [
    token |-> 2, capacity |-> 3, refill |-> 1, window |-> 1, max_timestamps |-> 3,
    tier_rpm |-> [frontier |-> 1, mid |-> 2, economy |-> 2], hard_quota |-> 2, soft_quota |-> 1,
    hard_budget |-> 5, soft_budget |-> 3, share_lookback |-> 7, cold_lookback |-> 4, tenant_lookback |-> 4,
    lane_lookback |-> 4, cold_target |-> 1,
    lane_quota |-> [high |-> 2, low |-> 1], migrate_below |-> 90, rates |-> {60, 99},
    pin_ttl |-> 2, regions |-> <<"eu", "us">>, catalog_regions |-> <<"eu", "us">>,
    hysteresis |-> 2, warmup_requests |-> 2, draining |-> {}, probe_budget |-> 1]

Spread == [eu |-> 0, us |-> 1, fallback |-> 2]

MCProfile == [
    a |-> [client |-> "a", region |-> "eu", lane |-> "high", key |-> 0, spread |-> Spread],
    b |-> [client |-> "b", region |-> "", lane |-> "low", key |-> 1, spread |-> Spread]]

MCCircumstances == [
    domain |-> "code", prompt |-> 1, max_tokens |-> 1, warmup_region |-> "", open |-> {},
    half_open |-> {}, draining |-> {}, success |-> [p \in Providers |-> 99],
    latency |-> [p \in Providers |-> IF p = 1 THEN 0 ELSE 100 * p]]

\* Two requests of one tenant, or one of each client.
MCOwner(s) == IF s = "TenantBudgetCascade" THEN <<"a", "a">> ELSE <<"a", "b">>

MCStrategies == {
    "TokenBucketTenant", "TokenBucketBurst", "ModelTierRateLimit", "TenantQuotaBurst",
    "TenantBudgetCascade", "ProviderQuotaFairShare", "ProviderColdStartBias", "TenantFairQueue",
    "TenantPriorityLanes", "StickySessionMigrate", "StickyModelPinExpire",
    "RegionFailoverHysteresis", "StickyRegionWarmup", "StickyRegionDrain",
    "ProviderCircuitProbe"}
===============================================================================
