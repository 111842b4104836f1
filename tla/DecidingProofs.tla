---------------------------- MODULE DecidingProofs ----------------------------
(***************************************************************************)
(* Every strategy decides for a model of the catalog with three others at  *)
(* most behind it, and those that look at the circuits never choose a      *)
(* model behind an open one while another could serve the request: for any *)
(* catalog, any settings, and any request and measurements.                *)
(***************************************************************************)
EXTENDS Deciding, BuiltinsProofs, SequenceTheorems

-----------------------------------------------------------------------------
(* What a candidate is compared by *)

LEMMA ModelsAre ==
    ASSUME NEW pool \in SUBSET Models
    PROVE  pool \in SUBSET Nat /\ IsFiniteSet(pool)
  BY CatalogAssumption, FS_Subset DEF CatalogAssumption

LEMMA CandidateIs ==
    ASSUME NEW x, WellFormed(x), NEW c \in Models
    PROVE  /\ Quality(c) \in Nat /\ Name(c) \in Nat /\ Provider(c) \in Providers
           /\ InputLimit(c) \in Nat /\ Cost(x, c) \in Nat
<1>1. /\ Quality(c) \in Nat /\ Name(c) \in Nat
      /\ {Catalog[c].window, Catalog[c].max_input, Catalog[c].long_above} \subseteq Nat
      /\ \A i \in {1, 2} : Catalog[c].short[i] \in Nat /\ Catalog[c].long[i] \in Nat
  BY CatalogAssumption DEF CatalogAssumption
<1>2. Provider(c) \in Providers
  BY DEF Providers
<1>3. InputLimit(c) \in Nat
  BY <1>1 DEF InputLimit
<1>4. Cost(x, c) \in Nat
  <2> DEFINE rate == IF x.prompt > Catalog[c].long_above THEN Catalog[c].long ELSE Catalog[c].short
  <2>1. rate[1] \in Nat /\ rate[2] \in Nat
    BY <1>1
  <2>2. x.prompt \in Nat /\ x.max_tokens \in Nat
    BY DEF WellFormed
  <2>3. Cost(x, c) = x.prompt * rate[1] + x.max_tokens * rate[2]
    BY DEF Cost
  <2> HIDE DEF rate
  <2>4. x.prompt * rate[1] \in Nat /\ x.max_tokens * rate[2] \in Nat
    BY <2>1, <2>2
  <2> QED
    BY <2>3, <2>4
<1> QED
  BY <1>1, <1>2, <1>3, <1>4

LEMMA MeasureIs ==
    ASSUME NEW x, WellFormed(x), NEW c \in Models
    PROVE  /\ Latency(x, c) \in Int /\ Success(x, c) \in Int /\ Carbon(x, c) \in Int
           /\ x.limited[Provider(c)] \in Int /\ x.limit_rate[Provider(c)] \in Int
           /\ x.cooldown[Provider(c)] \in Int /\ x.errors[Provider(c)] \in Int
           /\ x.reset[Provider(c)] \in Int /\ x.spend[Provider(c)] \in Int
           /\ x.warmup[Provider(c)] \in Int /\ x.ttl[Provider(c)] \in Int
<1>1. \A f \in Measures : x[f] \in [Providers -> Int]
  BY DEF WellFormed
<1>2. Provider(c) \in Providers
  BY CandidateIs
<1> QED
  BY <1>1, <1>2 DEF Measures, Latency, Success, Carbon

\* What min and max choose is in the pool.
LEMMA BestIn ==
    ASSUME NEW pool \in SUBSET Models, pool # {}, NEW n \in Nat, NEW key,
           \A c \in pool : key[c] \in [1..n -> Int]
    PROVE  Best(pool, key) \in pool
<1>1. Comparable(pool, key)
  BY DEF Comparable
<1> QED
  BY <1>1, ModelsAre, BestIsFirst

LEMMA FirstIn ==
    ASSUME NEW pool \in SUBSET Models, pool # {}, NEW n \in Nat, NEW key,
           \A c \in pool : key[c] \in [1..n -> Int]
    PROVE  /\ Sorted(pool, key) \in Seq(pool) /\ Sorted(pool, key) # <<>>
           /\ Head(Sorted(pool, key)) \in pool
           /\ FirstOf(Sorted(pool, key)).chosen \in pool
<1>1. Comparable(pool, key)
  BY DEF Comparable
<1>2. /\ Sorted(pool, key) \in Seq(pool) /\ Sorted(pool, key) # <<>>
      /\ Head(Sorted(pool, key)) \in pool
  BY <1>1, ModelsAre, HeadOfSorted
<1> QED
  BY <1>2 DEF FirstOf, Decision

LEMMA Joined ==
    ASSUME NEW m \in Nat, NEW n \in Nat, NEW k \in [1..m -> Int], NEW l \in [1..n -> Int]
    PROVE  k \o l \in [1..(m + n) -> Int]
<1>1. k \in Seq(Int) /\ l \in Seq(Int) /\ Len(k) = m /\ Len(l) = n
  OBVIOUS
<1>2. k \o l \in Seq(Int) /\ Len(k \o l) = m + n
  BY <1>1, ConcatProperties
<1>3. ASSUME NEW s \in Seq(Int), Len(s) = m + n PROVE s \in [1..(m + n) -> Int]
  BY <1>3
<1> QED
  BY Zenon, <1>2, <1>3

LEMMA JoinedAt ==
    ASSUME NEW m \in Nat, NEW n \in Nat, NEW k \in [1..m -> Int], NEW l \in [1..n -> Int]
    PROVE  /\ \A i \in 1..m : (k \o l)[i] = k[i]
           /\ \A i \in 1..n : (k \o l)[m + i] = l[i]
<1>1. k \in Seq(Int) /\ l \in Seq(Int) /\ Len(k) = m /\ Len(l) = n
  OBVIOUS
<1>2. \A i \in 1..(m + n) : (k \o l)[i] = IF i <= m THEN k[i] ELSE l[i - m]
  BY <1>1, ConcatProperties
<1> DEFINE u == k \o l
<1> HIDE DEF u
<1>3. ASSUME NEW i \in 1..m PROVE u[i] = k[i]
  BY <1>2 DEF u
<1>4. ASSUME NEW i \in 1..n PROVE u[m + i] = l[i]
  <2>1. m + i \in 1..(m + n) /\ ~(m + i <= m) /\ (m + i) - m = i
    OBVIOUS
  <2> QED
    BY <1>2, <2>1 DEF u
<1> QED
  BY <1>3, <1>4 DEF u

LEMMA RankedIn ==
    ASSUME NEW pool \in SUBSET Models, pool # {}, NEW n \in Nat, NEW key,
           \A c \in pool : key[c] \in [1..n -> Int]
    PROVE  RankedBy(pool, key).chosen \in pool
<1> DEFINE named == [c \in Models |-> Append(key[c], -Name(c))]
<1>1. ASSUME NEW c \in pool PROVE named[c] \in [1..(n + 1) -> Int]
  <2>1. Name(c) \in Nat
    BY CatalogAssumption DEF CatalogAssumption
  <2>2. key[c] \in Seq(Int) /\ Len(key[c]) = n
    OBVIOUS
  <2>3. named[c] = Append(key[c], -Name(c))
    OBVIOUS
  <2> HIDE DEF named
  <2>4. named[c] \in Seq(Int) /\ Len(named[c]) = n + 1
    BY <2>1, <2>2, <2>3
  <2> QED
    BY <2>4
<1>2. Best(pool, named) \in pool
  <2> HIDE DEF named
  <2>1. n + 1 \in Nat
    OBVIOUS
  <2> QED
    BY <1>1, <2>1, BestIn
<1> QED
  BY <1>2 DEF RankedBy, Decision
-----------------------------------------------------------------------------
(* The pools *)

\* A model that is behind an open circuit only if all that serve the request are.
LastResort(x, c) == c \in Models /\ (~Up(x, c) => \A d \in Eligible(x) : ~Up(x, d))

LEMMA EligibleIs == ASSUME NEW x PROVE Eligible(x) \in SUBSET Models /\ Eligible(x) # {}
  BY CatalogAssumption DEF CatalogAssumption, Eligible, Serving, OrElse

LEMMA ActiveIs ==
    ASSUME NEW x
    PROVE  /\ Active(x) \in SUBSET Models /\ Active(x) # {}
           /\ \A c \in Active(x) : LastResort(x, c)
<1>1. Eligible(x) \in SUBSET Models /\ Eligible(x) # {}
  BY EligibleIs
<1> QED
  BY <1>1 DEF Active, Closed, OrElse, LastResort

LEMMA ReachableIs ==
    ASSUME NEW x
    PROVE  /\ Reachable(x) \in SUBSET Models /\ Reachable(x) # {}
           /\ \A c \in Reachable(x) : LastResort(x, c)
<1>1. Eligible(x) \in SUBSET Models /\ Models # {} /\ Serving(x) \in SUBSET Models
  BY EligibleIs, CatalogAssumption DEF CatalogAssumption, Serving
<1> QED
  BY <1>1 DEF Reachable, Closed, OrElse, LastResort

\* The usual keys.
LEMMA FinestIn ==
    ASSUME NEW x, WellFormed(x), NEW pool \in SUBSET Models, pool # {}
    PROVE  /\ Finest(x, pool) \in pool /\ FinestByName(x, pool) \in pool
           /\ Best(pool, ByCost(x)) \in pool
<1> DEFINE two == [c \in Models |-> <<-Quality(c), Cost(x, c)>>]
           three == [c \in Models |-> <<-Quality(c), Cost(x, c), -Name(c)>>]
           cheap == [c \in Models |-> <<Cost(x, c), -Quality(c), Name(c)>>]
<1>1. \A c \in pool : Quality(c) \in Int /\ Cost(x, c) \in Int /\ Name(c) \in Int
  BY CandidateIs
<1>2. \A c \in pool : /\ two[c] \in [1..2 -> Int] /\ three[c] \in [1..3 -> Int]
                      /\ cheap[c] \in [1..3 -> Int]
  BY <1>1
<1>3. Best(pool, two) \in pool /\ Best(pool, three) \in pool /\ Best(pool, cheap) \in pool
  <2> HIDE DEF two, three, cheap
  <2> QED
    BY <1>2, 2 \in Nat, 3 \in Nat, BestIn
<1> QED
  BY <1>3 DEF Finest, FinestByName, ByCost

LEMMA PreferenceIn ==
    ASSUME NEW x, WellFormed(x)
    PROVE  /\ QualityFirst(x).chosen \in Active(x) /\ CostFirst(x).chosen \in Active(x)
           /\ \A wanted, capable : PreferIf(x, wanted, capable).chosen \in Active(x)
<1> DEFINE finest == [c \in Models |-> <<-Quality(c), Cost(x, c)>>]
           cheap == [c \in Models |-> <<Cost(x, c), -Quality(c), Name(c)>>]
           able(capable) == [c \in Models |-> <<Late(c \notin capable), -Quality(c), Cost(x, c)>>]
<1>1. \A c \in Active(x) : Quality(c) \in Int /\ Cost(x, c) \in Int /\ Name(c) \in Int
  BY ActiveIs, CandidateIs
<1>2. \A c \in Active(x) : finest[c] \in [1..2 -> Int] /\ cheap[c] \in [1..3 -> Int]
  BY <1>1, ActiveIs
<1>3. RankedBy(Active(x), finest).chosen \in Active(x)
  <2> HIDE DEF finest
  <2> QED
    BY <1>2, 2 \in Nat, ActiveIs, RankedIn
<1>4. FirstOf(Sorted(Active(x), cheap)).chosen \in Active(x)
  <2> HIDE DEF cheap
  <2> QED
    BY <1>2, 3 \in Nat, ActiveIs, FirstIn
<1>5. ASSUME NEW capable PROVE RankedBy(Active(x), able(capable)).chosen \in Active(x)
  <2>1. \A c \in Active(x) : able(capable)[c] \in [1..3 -> Int]
    BY <1>1, ActiveIs DEF Late
  <2> HIDE DEF able
  <2> QED
    BY <2>1, 3 \in Nat, ActiveIs, RankedIn
<1> QED
  BY <1>3, <1>4, <1>5 DEF QualityFirst, CostFirst, ByCost, PreferIf
-----------------------------------------------------------------------------
(* What each strategy chooses from *)

\* The strategies of CapabilityStrategies differ in what is wanted and who can do it.
\* Of two questions that ask for the same, they want and can do the same.
SameWish(x, y) ==
    /\ y.asked = x.asked /\ y.allowlists = x.allowlists /\ y.capabilities = x.capabilities
    /\ y.complexity = x.complexity

IsPreference(x, first, y, second) ==
    \E wanted, capable : /\ first = PreferIf(x, wanted, capable)
                         /\ second = PreferIf(y, wanted, capable)

LEMMA PreferIs ==
    ASSUME NEW x
    PROVE  /\ Choose("StructuredOutputPrefer", x) = StructuredOutputPrefer(x)
           /\ Choose("ToolCallingPrefer", x) = ToolCallingPrefer(x)
           /\ Choose("MultimodalInputPrefer", x) = MultimodalInputPrefer(x)
           /\ Choose("StreamingPrefer", x) = StreamingPrefer(x)
           /\ Choose("AudioInputPrefer", x) = AudioInputPrefer(x)
           /\ Choose("WebSearchPrefer", x) = WebSearchPrefer(x)
           /\ Choose("ComputerUsePrefer", x) = ComputerUsePrefer(x)
           /\ Choose("ImageGenPrefer", x) = ImageGenPrefer(x)
           /\ Choose("CodeExecutionPrefer", x) = CodeExecutionPrefer(x)
           /\ Choose("VideoInputPrefer", x) = VideoInputPrefer(x)
           /\ Choose("PdfInputPrefer", x) = PdfInputPrefer(x)
           /\ Choose("BatchApiPrefer", x) = BatchApiPrefer(x)
           /\ Choose("ReasoningEffortPrefer", x) = ReasoningEffortPrefer(x)
           /\ Choose("TranscriptionPrefer", x) = TranscriptionPrefer(x)
           /\ Choose("ModerationPrefer", x) = ModerationPrefer(x)
           /\ Choose("PredictedOutputsPrefer", x) = PredictedOutputsPrefer(x)
           /\ Choose("PromptCachingPrefer", x) = PromptCachingPrefer(x)
           /\ Choose("FineTunePrefer", x) = FineTunePrefer(x)
           /\ Choose("EmbeddingsPrefer", x) = EmbeddingsPrefer(x)
           /\ Choose("ResponsesApiPrefer", x) = ResponsesApiPrefer(x)
           /\ Choose("FileSearchPrefer", x) = FileSearchPrefer(x)
           /\ Choose("VectorStorePrefer", x) = VectorStorePrefer(x)
           /\ Choose("RealtimeApiPrefer", x) = RealtimeApiPrefer(x)
           /\ Choose("McpPrefer", x) = McpPrefer(x)
           /\ Choose("LogprobsPrefer", x) = LogprobsPrefer(x)
           /\ Choose("BackgroundModePrefer", x) = BackgroundModePrefer(x)
           /\ Choose("ParallelToolPrefer", x) = ParallelToolPrefer(x)
           /\ Choose("DeepResearchPrefer", x) = DeepResearchPrefer(x)
           /\ Choose("AgentsApiPrefer", x) = AgentsApiPrefer(x)
           /\ Choose("WebhookPrefer", x) = WebhookPrefer(x)
           /\ Choose("MemoryToolPrefer", x) = MemoryToolPrefer(x)
           /\ Choose("ThinkingModelPrefer", x) = ThinkingModelPrefer(x)
  BY DEF Choose

LEMMA PrefersAre ==
    ASSUME NEW x, NEW y, SameWish(x, y), NEW s \in Prefers \cup {"ThinkingModelPrefer"}
    PROVE  IsPreference(x, Choose(s, x), y, Choose(s, y))
<1>1. \A keys, allowlist, capabilities :
        IsPreference(x, Prefer(x, keys, allowlist, capabilities),
                     y, Prefer(y, keys, allowlist, capabilities))
  <2> SUFFICES ASSUME NEW keys, NEW allowlist, NEW capabilities
               PROVE  IsPreference(x, Prefer(x, keys, allowlist, capabilities),
                                   y, Prefer(y, keys, allowlist, capabilities))
    OBVIOUS
  <2> DEFINE wanted == x.asked \cap keys # {}
             capable == {c \in Models : Supports(x, c, allowlist, capabilities)}
  <2>1. \A c : Supports(y, c, allowlist, capabilities) <=> Supports(x, c, allowlist, capabilities)
    BY DEF Supports, SameWish
  <2>2. /\ Prefer(x, keys, allowlist, capabilities) = PreferIf(x, wanted, capable)
        /\ Prefer(y, keys, allowlist, capabilities) = PreferIf(y, wanted, capable)
    BY <2>1 DEF Prefer, SameWish
  <2> QED
    BY Zenon, <2>2 DEF IsPreference
<1>2. IsPreference(x, ThinkingModelPrefer(x), y, ThinkingModelPrefer(y))
  <2> DEFINE wanted == x.complexity >= Settings.thinking_complexity
             capable == IF "thinking_models" \in DOMAIN x.allowlists
                        THEN x.allowlists["thinking_models"]
                        ELSE {c \in Models : "thinking" \in Catalog[c].hints}
  <2>1. /\ ThinkingModelPrefer(x) = PreferIf(x, wanted, capable)
        /\ ThinkingModelPrefer(y) = PreferIf(y, wanted, capable)
    BY DEF ThinkingModelPrefer, SameWish
  <2> QED
    BY Zenon, <2>1 DEF IsPreference
<1>3. s \in {"StructuredOutputPrefer", "ToolCallingPrefer", "MultimodalInputPrefer",
             "StreamingPrefer", "AudioInputPrefer", "WebSearchPrefer", "ComputerUsePrefer",
             "ImageGenPrefer", "CodeExecutionPrefer", "VideoInputPrefer"}
      => IsPreference(x, Choose(s, x), y, Choose(s, y))
  BY <1>1, PreferIs DEF StructuredOutputPrefer, ToolCallingPrefer, MultimodalInputPrefer,
     StreamingPrefer, AudioInputPrefer, WebSearchPrefer, ComputerUsePrefer, ImageGenPrefer,
     CodeExecutionPrefer, VideoInputPrefer
<1>4. s \in {"PdfInputPrefer", "BatchApiPrefer", "ReasoningEffortPrefer", "TranscriptionPrefer",
             "ModerationPrefer", "PredictedOutputsPrefer", "PromptCachingPrefer",
             "FineTunePrefer", "EmbeddingsPrefer", "ResponsesApiPrefer"}
      => IsPreference(x, Choose(s, x), y, Choose(s, y))
  BY <1>1, PreferIs DEF PdfInputPrefer, BatchApiPrefer, ReasoningEffortPrefer,
     TranscriptionPrefer, ModerationPrefer, PredictedOutputsPrefer, PromptCachingPrefer,
     FineTunePrefer, EmbeddingsPrefer, ResponsesApiPrefer
<1>5. s \in {"FileSearchPrefer", "VectorStorePrefer", "RealtimeApiPrefer", "McpPrefer",
             "LogprobsPrefer", "BackgroundModePrefer", "ParallelToolPrefer",
             "DeepResearchPrefer", "AgentsApiPrefer", "WebhookPrefer", "MemoryToolPrefer"}
      => IsPreference(x, Choose(s, x), y, Choose(s, y))
  BY <1>1, PreferIs DEF FileSearchPrefer, VectorStorePrefer, RealtimeApiPrefer, McpPrefer,
     LogprobsPrefer, BackgroundModePrefer, ParallelToolPrefer, DeepResearchPrefer,
     AgentsApiPrefer, WebhookPrefer, MemoryToolPrefer
<1>6. s = "ThinkingModelPrefer" => IsPreference(x, Choose(s, x), y, Choose(s, y))
  BY <1>2, PreferIs
<1> QED
  BY <1>3, <1>4, <1>5, <1>6 DEF Prefers

LEMMA PrefersActive ==
    ASSUME NEW x, WellFormed(x), NEW s \in Prefers \cup {"ThinkingModelPrefer"}
    PROVE  Choose(s, x).chosen \in Active(x)
<1>1. PICK wanted, capable : Choose(s, x) = PreferIf(x, wanted, capable)
  <2>1. SameWish(x, x)
    BY DEF SameWish
  <2>2. IsPreference(x, Choose(s, x), x, Choose(s, x))
    BY <2>1, PrefersAre
  <2> QED
    BY Zenon, <2>2 DEF IsPreference
<1> QED
  BY <1>1, PreferenceIn

\* They choose the finest or the cheapest of some that are active.
LEMMA PlainActive ==
    ASSUME NEW x, WellFormed(x)
    PROVE  /\ TenantSoftIsolation(x).chosen \in Active(x)
           /\ PromptInjectionRiskShed(x).chosen \in Active(x)
           /\ ReliabilityAware(x).chosen \in Active(x)
           /\ CanaryShadowSplit(x).chosen \in Active(x)
<1>1. /\ TenantSoftIsolation(x).chosen \in Active(x)
      /\ PromptInjectionRiskShed(x).chosen \in Active(x)
  BY PreferenceIn DEF TenantSoftIsolation, PromptInjectionRiskShed
<1>2. ReliabilityAware(x).chosen \in Active(x)
  BY ActiveIs, FinestIn DEF ReliabilityAware, Decision
<1>3. CanaryShadowSplit(x).chosen \in Active(x)
  <2> DEFINE preferred == {c \in Active(x) : Provider(c) = Settings.shadow_provider}
             pool == OrElse(preferred, Active(x))
  <2>1. pool \in SUBSET Models /\ pool # {} /\ pool \subseteq Active(x)
    BY ActiveIs DEF OrElse
  <2>2. FinestByName(x, pool) \in Active(x)
    <3> HIDE DEF pool
    <3> QED
      BY <2>1, FinestIn
  <2> QED
    BY <2>2 DEF CanaryShadowSplit, Decision
<1> QED
  BY <1>1, <1>2, <1>3

\* They rank by a key of their own.
LEMMA RankedActive ==
    ASSUME NEW x, WellFormed(x)
    PROVE  /\ ModelCapabilityGate(x).chosen \in Active(x)
           /\ LongContextPrefer(x).chosen \in Active(x)
           /\ ProviderWarmupWeight(x).chosen \in Active(x)
<1>0. \A c \in Active(x) : /\ Quality(c) \in Int /\ Cost(x, c) \in Int /\ InputLimit(c) \in Int
                           /\ x.warmup[Provider(c)] \in Int
  BY ActiveIs, CandidateIs, MeasureIs
<1>1. ModelCapabilityGate(x).chosen \in Active(x)
  <2> DEFINE has(c) == IF c \in DOMAIN x.capabilities THEN x.capabilities[c]
                       ELSE IF Catalog[c].known THEN Catalog[c].capabilities ELSE {}
             capable == {c \in Active(x) : x.required \subseteq has(c)}
             pool == OrElse(capable, Active(x))
             key == [c \in Models |-> <<-Quality(c), Cost(x, c)>>]
  <2>1. pool \in SUBSET Models /\ pool # {} /\ pool \subseteq Active(x)
    BY ActiveIs DEF OrElse
  <2>2. \A c \in pool : key[c] \in [1..2 -> Int]
    <3> HIDE DEF pool
    <3> QED
      BY <1>0, <2>1
  <2>3. RankedBy(pool, key).chosen \in Active(x)
    <3> HIDE DEF pool, key
    <3> QED
      BY <2>1, <2>2, 2 \in Nat, RankedIn
  <2> QED
    BY <2>3 DEF ModelCapabilityGate
<1>2. LongContextPrefer(x).chosen \in Active(x)
  <2> DEFINE window(c) == IF c \in DOMAIN x.windows THEN x.windows[c] ELSE InputLimit(c)
             key == [c \in Models |->
                        <<Late(window(c) < x.min_context), -window(c), -Quality(c), Cost(x, c)>>]
  <2>1. \A c \in Active(x) : window(c) \in Int
    BY <1>0 DEF WellFormed
  <2>2. \A c \in Active(x) : key[c] \in [1..4 -> Int]
    <3> HIDE DEF window
    <3> QED
      BY <1>0, <2>1, ActiveIs DEF Late
  <2>3. RankedBy(Active(x), key).chosen \in Active(x)
    <3> HIDE DEF key
    <3> QED
      BY <2>2, 4 \in Nat, ActiveIs, RankedIn
  <2> QED
    BY <2>3, PreferenceIn DEF LongContextPrefer
<1>3. ProviderWarmupWeight(x).chosen \in Active(x)
  <2> DEFINE w == Settings.warmup_percent
             key == [c \in Models |-> <<-Warmed(x, c), Cost(x, c)>>]
  <2>1. w \in Int
    <3>1. w \in 0..100
      BY Zenon, SettingsAssumption DEF SettingsAssumption
    <3> QED
      BY <3>1
  <2>2. \A c \in Active(x) : Warmed(x, c) \in Int
    <3>1. ASSUME NEW a \in Int, NEW b \in Int PROVE (100 - w) * a + w * b \in Int
      <4> HIDE DEF w
      <4> QED
        BY <2>1
    <3> QED
      BY <1>0, <3>1 DEF Warmed
  <2>3. \A c \in Active(x) : key[c] \in [1..2 -> Int]
    BY <1>0, <2>2, ActiveIs
  <2>4. RankedBy(Active(x), key).chosen \in Active(x)
    <3> HIDE DEF key
    <3> QED
      BY <2>3, 2 \in Nat, ActiveIs, RankedIn
  <2> QED
    BY <2>4 DEF ProviderWarmupWeight
<1> QED
  BY <1>1, <1>2, <1>3

\* They look at a measurement of the providers that are active.
LEMMA MeasuredActive ==
    ASSUME NEW x, WellFormed(x)
    PROVE  /\ RetryBudgetAwareFailover(x).chosen \in Active(x)
           /\ DeadlineAwarePick(x).chosen \in Active(x)
           /\ ProviderSuccessFloor(x).chosen \in Active(x)
           /\ ProviderErrorBudgetShed(x).chosen \in Active(x)
           /\ ProviderErrorBudgetReset(x).chosen \in Active(x)
           /\ ProviderTailLatencyHedge(x).chosen \in Active(x)
           /\ FastestSeen(x).chosen \in Active(x)
<1> DEFINE A == Active(x)
<1>0. \A c \in A : /\ Quality(c) \in Int /\ Cost(x, c) \in Int /\ Name(c) \in Int
                   /\ Latency(x, c) \in Int /\ Success(x, c) \in Int
                   /\ x.errors[Provider(c)] \in Int /\ x.reset[Provider(c)] \in Int
  BY ActiveIs, CandidateIs, MeasureIs
<1>a. A \in SUBSET Models /\ A # {}
  BY ActiveIs
<1>1. RetryBudgetAwareFailover(x).chosen \in A
  <2> DEFINE fast == [c \in Models |-> <<Latency(x, c), -Quality(c)>>]
             fine == [c \in Models |-> <<-Quality(c), Latency(x, c)>>]
  <2>1. \A c \in A : fast[c] \in [1..2 -> Int] /\ fine[c] \in [1..2 -> Int]
    BY <1>0, <1>a
  <2>2. Best(A, fast) \in A /\ Best(A, fine) \in A
    <3> HIDE DEF fast, fine, A
    <3> QED
      BY <1>a, <2>1, 2 \in Nat, BestIn
  <2> QED
    BY <2>2 DEF RetryBudgetAwareFailover, Decided, Decision
<1>2. FastestSeen(x).chosen \in A
  <2> DEFINE seen == {c \in A : Latency(x, c) > 0}
             unseen == A \ seen
             fast == [d \in Models |-> <<Latency(x, d), -Quality(d), Cost(x, d), Name(d)>>]
             fine == [d \in Models |-> <<-Quality(d), Cost(x, d), Name(d)>>]
             chosen == IF seen # {} THEN Best(seen, fast) ELSE Best(unseen, fine)
  <2>1. \A c \in A : fast[c] \in [1..4 -> Int] /\ fine[c] \in [1..3 -> Int]
    BY <1>0, <1>a
  <2>2. chosen \in A
    <3>1. seen \subseteq A /\ unseen \subseteq A /\ (seen = {} => unseen # {})
      BY <1>a
    <3> HIDE DEF fast, fine, seen, unseen, A
    <3> QED
      BY <1>a, <2>1, <3>1, 3 \in Nat, 4 \in Nat, BestIn
  <2> QED
    BY <2>2 DEF FastestSeen, Decision
<1>3. DeadlineAwarePick(x).chosen \in A
  BY <1>2, PreferenceIn DEF DeadlineAwarePick
<1>4. ProviderSuccessFloor(x).chosen \in A
  <2> DEFINE above == {c \in A : Success(x, c) >= Settings.success_floor}
             fine == [c \in Models |-> <<-Quality(c), -Success(x, c), Cost(x, c), -Name(c)>>]
             sure == [c \in Models |-> <<-Success(x, c), -Quality(c), Cost(x, c), -Name(c)>>]
  <2>1. \A c \in A : fine[c] \in [1..4 -> Int] /\ sure[c] \in [1..4 -> Int]
    BY <1>0, <1>a
  <2>2. above \subseteq A
    OBVIOUS
  <2>3. (IF above # {} THEN Best(above, fine) ELSE Best(A, sure)) \in A
    <3> HIDE DEF fine, sure, above, A
    <3> QED
      BY <1>a, <2>1, <2>2, 4 \in Nat, BestIn
  <2> QED
    BY <2>3 DEF ProviderSuccessFloor, Decision
<1>5. ProviderErrorBudgetShed(x).chosen \in A
  <2> DEFINE errors(c) == 100 - Success(x, c)
             over(c) == errors(c) > Settings.error_budget
             under == {c \in A : ~over(c)}
             fine == [d \in Models |-> <<-Quality(d), errors(d), Cost(x, d), -Name(d)>>]
             sure == [d \in Models |-> <<errors(d), -Quality(d), Cost(x, d), Name(d)>>]
  <2>1. \A c \in A : fine[c] \in [1..4 -> Int] /\ sure[c] \in [1..4 -> Int]
    BY <1>0, <1>a
  <2>2. under \subseteq A
    OBVIOUS
  <2>3. (IF under # {} THEN Best(under, fine) ELSE Best(A, sure)) \in A
    <3> HIDE DEF fine, sure, under, A
    <3> QED
      BY <1>a, <2>1, <2>2, 4 \in Nat, BestIn
  <2> QED
    BY <2>3 DEF ProviderErrorBudgetShed, Decision
<1>6. ProviderErrorBudgetReset(x).chosen \in A
  <2> DEFINE errors(c) == x.errors[Provider(c)]
             over(c) == errors(c) > Settings.error_budget
             within == {c \in A : ~over(c)}
             soon == [c \in Models |-> <<x.reset[Provider(c)], errors(c), -Quality(c), Name(c)>>]
  <2>1. \A c \in A : soon[c] \in [1..4 -> Int]
    BY <1>0, <1>a
  <2>2. within \subseteq A
    OBVIOUS
  <2>3. (IF within # {} THEN FinestByName(x, within) ELSE Best(A, soon)) \in A
    <3> HIDE DEF soon, within, A
    <3> QED
      BY <1>a, <2>1, <2>2, 4 \in Nat, BestIn, FinestIn
  <2> QED
    BY <2>3 DEF ProviderErrorBudgetReset, Decision
<1>7. ProviderTailLatencyHedge(x).chosen \in A
  <2> DEFINE primary == FinestByName(x, A)
             seen == {c \in A : Provider(c) # Provider(primary) /\ Latency(x, c) > 0}
             fast == [c \in Models |-> <<Latency(x, c), -Quality(c), Cost(x, c), Name(c)>>]
  <2>1. \A c \in A : fast[c] \in [1..4 -> Int]
    BY <1>0, <1>a
  <2>2. seen \subseteq A /\ primary \in A
    BY <1>a, FinestIn
  <2>3. (IF Latency(x, primary) > Settings.tail_latency /\ seen # {} THEN Best(seen, fast)
         ELSE primary) \in A
    <3> HIDE DEF fast, seen, primary, A
    <3> QED
      BY <1>a, <2>1, <2>2, 4 \in Nat, BestIn
  <2> QED
    BY <2>3 DEF ProviderTailLatencyHedge, Decided, Decision
<1> QED
  BY <1>1, <1>2, <1>3, <1>4, <1>5, <1>6, <1>7

\* They take what can be reached.
LEMMA CachedReachable ==
    ASSUME NEW x, WellFormed(x)
    PROVE  /\ SemanticCacheTtlAffinity(x).chosen \in Reachable(x)
           /\ ProviderSpendTelemetry(x).chosen \in Reachable(x)
           /\ CarbonAwarePreference(x).chosen \in Reachable(x)
<1> DEFINE R == Reachable(x)
<1>0. \A c \in R : /\ Quality(c) \in Int /\ Cost(x, c) \in Int /\ Name(c) \in Int
                   /\ Carbon(x, c) \in Int
                   /\ x.spend[Provider(c)] \in Int /\ x.ttl[Provider(c)] \in Int
  BY ReachableIs, CandidateIs, MeasureIs
<1>a. R \in SUBSET Models /\ R # {}
  BY ReachableIs
<1>1. SemanticCacheTtlAffinity(x).chosen \in R
  <2> DEFINE ttl(c) == x.ttl[Provider(c)]
             warm == {c \in R : ttl(c) \in 1..Settings.ttl}
             key == [c \in Models |-> <<-ttl(c), -Quality(c), Cost(x, c), -Name(c)>>]
  <2>1. \A c \in R : key[c] \in [1..4 -> Int]
    BY <1>0, <1>a
  <2>2. warm \subseteq R
    OBVIOUS
  <2>3. (IF x.cacheable /\ warm # {} THEN Best(warm, key) ELSE FinestByName(x, R)) \in R
    <3> HIDE DEF key, warm, R
    <3> QED
      BY <1>a, <2>1, <2>2, 4 \in Nat, BestIn, FinestIn
  <2> QED
    BY <2>3 DEF SemanticCacheTtlAffinity, Decided, Decision
<1>2. ProviderSpendTelemetry(x).chosen \in R
  <2> DEFINE spend(c) == x.spend[Provider(c)]
             key == [c \in Models |-> <<spend(c), -Quality(c), Cost(x, c), Name(c)>>]
  <2>1. \A c \in R : key[c] \in [1..4 -> Int]
    BY <1>0, <1>a
  <2>2. FinestByName(x, R) \in R /\ Best(R, key) \in R
    <3> HIDE DEF key, R
    <3> QED
      BY <1>a, <2>1, 4 \in Nat, BestIn, FinestIn
  <2> QED
    BY <2>2 DEF ProviderSpendTelemetry, Decided, Decision
<1>3. CarbonAwarePreference(x).chosen \in R
  <2> DEFINE clean == {c \in R : Carbon(x, c) <= Settings.max_intensity}
             pool == OrElse(clean, R)
             key == [c \in Models |-> <<Carbon(x, c), -Quality(c), Cost(x, c), Name(c)>>]
  <2>1. \A c \in R : key[c] \in [1..4 -> Int]
    BY <1>0, <1>a
  <2>2. pool \in SUBSET R /\ pool # {}
    BY <1>a DEF OrElse
  <2>3. Best(pool, key) \in R
    <3> HIDE DEF key, pool, R
    <3> QED
      BY <1>a, <2>1, <2>2, 4 \in Nat, BestIn
  <2> QED
    BY <2>3 DEF CarbonAwarePreference, Decided, Decision
<1> QED
  BY <1>1, <1>2, <1>3

\* They take a place in an order of what is active.
LEMMA PlacedActive ==
    ASSUME NEW x, WellFormed(x)
    PROVE  /\ RequestClassQos(x).chosen \in Active(x)
           /\ CanaryCostBlend(x).chosen \in Active(x)
           /\ SoftRateLimit(x).chosen \in Active(x)
<1> DEFINE A == Active(x)
<1>0. \A c \in Models : /\ Quality(c) \in Int /\ Cost(x, c) \in Int /\ Name(c) \in Int
                        /\ x.limited[Provider(c)] \in Int /\ x.limit_rate[Provider(c)] \in Int
  BY CandidateIs, MeasureIs
<1>a. A \in SUBSET Models /\ A # {}
  BY ActiveIs
<1>1. RequestClassQos(x).chosen \in A
  <2> DEFINE cost == [c \in Models |-> <<Cost(x, c)>>]
             costs == Sorted(A, cost)
             median == Cost(x, costs[1 + Len(costs) \div 2])
             apart(c) == IF Cost(x, c) < median THEN median - Cost(x, c) ELSE Cost(x, c) - median
             key == [c \in Models |-> <<-Quality(c), apart(c), Cost(x, c)>>]
  <2>1. \A c \in A : cost[c] \in [1..1 -> Int]
    BY <1>0, <1>a
  <2>2. costs \in Seq(A) /\ costs # <<>>
    <3> HIDE DEF cost, A
    <3> QED
      BY <1>a, <2>1, 1 \in Nat, FirstIn
  <2>3. costs[1 + Len(costs) \div 2] \in A
    <3> HIDE DEF costs, A
    <3>1. Len(costs) \in Nat \ {0}
      BY <2>2
    <3>2. 1 + Len(costs) \div 2 \in 1..Len(costs)
      BY <3>1
    <3> QED
      BY <2>2, <3>2
  <2>4. median \in Int
    <3> HIDE DEF costs
    <3> QED
      BY <1>0, <1>a, <2>3
  <2>5. \A c \in A : key[c] \in [1..3 -> Int]
    <3> HIDE DEF median, A
    <3> QED
      BY <1>0, <1>a, <2>4
  <2>6. RankedBy(A, key).chosen \in A
    <3> HIDE DEF key, A
    <3> QED
      BY <1>a, <2>5, 3 \in Nat, RankedIn
  <2>7. /\ x.class = "bulk" => RequestClassQos(x) = CostFirst(x)
        /\ x.class = "batch" => RequestClassQos(x) = RankedBy(A, key)
        /\ x.class \notin {"bulk", "batch"} => RequestClassQos(x) = FastestSeen(x)
    BY DEF RequestClassQos
  <2> QED
    BY <2>6, <2>7, PreferenceIn, MeasuredActive
<1>2. CanaryCostBlend(x).chosen \in A
  <2> DEFINE key == [c \in Models |-> <<Cost(x, c), -Quality(c)>>]
             byCost == Sorted(A, key)
  <2>1. \A c \in A : key[c] \in [1..2 -> Int]
    BY <1>0, <1>a
  <2>2. byCost \in Seq(A) /\ byCost # <<>>
    <3> HIDE DEF key, A
    <3> QED
      BY <1>a, <2>1, 2 \in Nat, FirstIn
  <2>3. byCost[1] \in A /\ (Len(byCost) > 1 => byCost[2] \in A)
    <3> HIDE DEF byCost, A
    <3> QED
      BY <2>2
  <2> QED
    BY <2>3 DEF CanaryCostBlend, Decided, Decision
<1>3. SoftRateLimit(x).chosen \in A
  <2> DEFINE limited(c) == <<x.limited[Provider(c)], x.limit_rate[Provider(c)]>>
             key == [c \in Models |-> limited(c) \o <<-Quality(c), Cost(x, c), Name(c)>>]
             first == Sorted(A, key)
             rest == Sorted(Eligible(x) \ A, key)
  <2>1. \A c \in Models : key[c] \in [1..5 -> Int]
    <3>1. ASSUME NEW c \in Models PROVE key[c] \in [1..5 -> Int]
      <4> DEFINE rest3 == <<-Quality(c), Cost(x, c), Name(c)>>
      <4>1. limited(c) \in [1..2 -> Int] /\ rest3 \in [1..3 -> Int]
        BY <1>0
      <4>2. key[c] = limited(c) \o rest3
        OBVIOUS
      <4> HIDE DEF key, limited, rest3
      <4>3. limited(c) \o rest3 \in [1..(2 + 3) -> Int]
        BY Zenon, <4>1, 2 \in Nat, 3 \in Nat, Joined
      <4>4. 2 + 3 = 5
        OBVIOUS
      <4> QED
        BY Zenon, <4>2, <4>3, <4>4
    <3> QED
      BY <3>1
  <2>2. first \in Seq(A) /\ first # <<>> /\ Head(first) \in A
    <3> HIDE DEF key, A
    <3> QED
      BY <1>a, <2>1, 5 \in Nat, FirstIn
  <2>3. rest \in Seq(Models)
    <3> DEFINE others == Eligible(x) \ A
    <3>1. others \in SUBSET Models
      BY EligibleIs
    <3>2. Comparable(others, key)
      <4> HIDE DEF key, others
      <4> QED
        BY <2>1, <3>1, 5 \in Nat DEF Comparable
    <3>3. rest \in Seq(others)
      <4> HIDE DEF key, others
      <4>1. Sorted(others, key) \in Seq(others)
        BY <3>1, <3>2, ModelsAre, SortedIsPermutation
      <4> QED
        BY <4>1 DEF others
    <3> HIDE DEF others, rest
    <3> QED
      BY <3>1, <3>3
  <2>4. Head(first \o rest) = Head(first)
    <3> HIDE DEF first, rest, A
    <3>1. first \in Seq(Models)
      BY <1>a, <2>2
    <3> QED
      BY <2>2, <2>3, <3>1
  <2> QED
    BY <2>2, <2>4 DEF SoftRateLimit, FirstOf, Decision
<1> QED
  BY <1>1, <1>2, <1>3

\* They have pools of their own.
LEMMA CircuitsFirst ==
    ASSUME NEW x, WellFormed(x)
    PROVE  /\ LastResort(x, RetryAfterRespect(x).chosen)
           /\ LastResort(x, CircuitBreakerHalfOpenProbe(x).chosen)
           /\ LastResort(x, FailoverPriority(x).chosen)
<1> DEFINE E == Eligible(x)
           up == Closed(x, E)
<1>a. E \in SUBSET Models /\ E # {} /\ up \in SUBSET E
  BY EligibleIs DEF Closed
<1>b. /\ \A c \in up : LastResort(x, c)
      /\ up = {} => \A c \in E : LastResort(x, c)
  BY <1>a DEF Closed, LastResort
<1>1. LastResort(x, RetryAfterRespect(x).chosen)
  <2> DEFINE wait(c) == x.cooldown[Provider(c)]
             ready == {c \in E : wait(c) = 0}
             key == [c \in Models |-> <<wait(c), -Quality(c), Name(c)>>]
             pool == OrElse(ready, E)
             chosen == IF up \cap ready # {} THEN FinestByName(x, up \cap ready)
                       ELSE IF up # {} THEN Best(up, key)
                       ELSE FinestByName(x, pool)
  <2>1. \A c \in up : key[c] \in [1..3 -> Int]
    <3>1. \A c \in Models : wait(c) \in Int /\ Quality(c) \in Int /\ Name(c) \in Int
      BY CandidateIs, MeasureIs
    <3> HIDE DEF wait, up
    <3> QED
      BY <1>a, <3>1
  <2>2. pool \in SUBSET E /\ pool # {} /\ ready \in SUBSET E
    BY <1>a DEF OrElse
  <2>3. LastResort(x, chosen)
    <3> HIDE DEF key, pool, ready, up, E
    <3>1. up \cap ready # {} => FinestByName(x, up \cap ready) \in up
      BY <1>a, FinestIn
    <3>2. up # {} => Best(up, key) \in up
      BY <1>a, <2>1, 3 \in Nat, BestIn
    <3>3. FinestByName(x, pool) \in E
      BY <1>a, <2>2, FinestIn
    <3> QED
      BY <1>b, <3>1, <3>2, <3>3
  <2> QED
    BY <2>3 DEF RetryAfterRespect, Decision
<1>2. LastResort(x, CircuitBreakerHalfOpenProbe(x).chosen)
  <2> DEFINE half == {c \in E : Provider(c) \in x.half_open}
             pool == OrElse(up \ half, OrElse(half, E))
  <2>1. pool \in SUBSET Models /\ pool # {} /\ \A c \in pool : LastResort(x, c)
    <3>1. half \subseteq up
      BY DEF WellFormed, Closed, Up
    <3> HIDE DEF half, up, E
    <3> QED
      BY <1>a, <1>b, <3>1 DEF OrElse
  <2>2. FinestByName(x, pool) \in pool
    <3> HIDE DEF pool
    <3> QED
      BY <2>1, FinestIn
  <2>3. LastResort(x, FinestByName(x, pool))
    <3> HIDE DEF pool
    <3> QED
      BY <2>1, <2>2
  <2> QED
    BY <2>3 DEF CircuitBreakerHalfOpenProbe, Decided, Decision
<1>3. LastResort(x, FailoverPriority(x).chosen)
  <2> DEFINE priority == Settings.priority
             open == {i \in DOMAIN priority : Up(x, priority[i])}
             first == IF open # {} THEN LeastOf(open) ELSE 1
  <2>1. /\ priority \in Seq(Models) /\ priority # <<>>
        /\ \A c \in Models : \E i \in DOMAIN priority : Provider(priority[i]) = Provider(c)
    BY Zenon, SettingsAssumption DEF SettingsAssumption
  <2> HIDE DEF priority
  <2>2. DOMAIN priority = 1..Len(priority) /\ Len(priority) \in Nat \ {0}
    BY <2>1
  <2>3. open # {} => LeastOf(open) \in open
    <3>1. open \in SUBSET Int /\ IsFiniteSet(open)
      <4>1. IsFiniteSet(1..Len(priority))
        BY <2>2, 1 \in Int, FS_Interval
      <4>2. open \in SUBSET (1..Len(priority))
        BY <2>2
      <4> QED
        BY <4>1, <4>2, FS_Subset
    <3> HIDE DEF open
    <3> QED
      BY <3>1, LeastAndMost
  <2>4. priority[first] \in Models
    <3>1. first \in 1..Len(priority)
      BY <2>2, <2>3
    <3> HIDE DEF first
    <3> QED
      BY <2>1, <3>1
  <2>5. ASSUME ~Up(x, priority[first]) PROVE \A d \in E : ~Up(x, d)
    <3>1. open = {}
      BY <2>3, <2>5
    <3>2. \A i \in DOMAIN priority : Provider(priority[i]) \in x.open
      BY <3>1 DEF Up
    <3> QED
      BY <1>a, <2>1, <3>2 DEF Up
  <2>6. LastResort(x, priority[first])
    BY <2>4, <2>5 DEF LastResort
  <2> QED
    BY <2>6 DEF FailoverPriority, Decision, priority
<1> QED
  BY <1>1, <1>2, <1>3

\* The scores that are blended are integers.
LEMMA InverseIs ==
    ASSUME NEW pool \in SUBSET Models, pool # {}, NEW value, \A c \in pool : value[c] \in Int
    PROVE  /\ InverseMinMax(pool, value).under \in Int
           /\ \A c \in pool : InverseMinMax(pool, value).over[c] \in Int
<1> DEFINE values == {value[c] : c \in pool}
           low == LeastOf(values)
           high == MostOf(values)
<1>1. values \in SUBSET Int /\ IsFiniteSet(values) /\ values # {}
  <2>1. IsFiniteSet(pool)
    BY ModelsAre
  <2> DEFINE f == [c \in pool |-> value[c]]
  <2>a. f \in Surjection(pool, values)
    BY DEF Surjection
  <2>2. IsFiniteSet(values)
    <3> HIDE DEF f, values
    <3> QED
      BY <2>1, <2>a, FS_Surjection
  <2> QED
    BY <2>2
<1>2. low \in Int /\ high \in Int
  <2> HIDE DEF values
  <2>1. LeastOf(values) \in values /\ MostOf(values) \in values
    BY <1>1, LeastAndMost
  <2> QED
    BY <1>1, <2>1
<1>3. InverseMinMax(pool, value)
      = IF low = high THEN [over |-> [c \in pool |-> 1], under |-> 1]
        ELSE [over |-> [c \in pool |-> high - value[c]], under |-> high - low]
  BY DEF InverseMinMax
<1> HIDE DEF low, high
<1> QED
  BY <1>2, <1>3

LEMMA BlendIs ==
    ASSUME NEW x, WellFormed(x), NEW pool \in SUBSET Models, pool # {},
           NEW w, \A i \in 1..4 : w[i] \in Int
    PROVE  \A c \in pool : Blend(x, pool, w)[c] \in Int
<1> DEFINE costs == [c \in Models |-> Cost(x, c)]
           latencies == [c \in Models |-> Latency(x, c)]
           cost == InverseMinMax(pool, costs)
           latency == InverseMinMax(pool, latencies)
<1>1. \A c \in pool : /\ costs[c] \in Int /\ latencies[c] \in Int
                      /\ Success(x, c) \in Int /\ Quality(c) \in Int
  BY CandidateIs, MeasureIs
<1>2. /\ cost.under \in Int /\ latency.under \in Int
      /\ \A c \in pool : cost.over[c] \in Int /\ latency.over[c] \in Int
  <2> HIDE DEF costs, latencies
  <2> QED
    BY <1>1, InverseIs
<1>3. w[1] \in Int /\ w[2] \in Int /\ w[3] \in Int /\ w[4] \in Int
  BY 1 \in 1..4, 2 \in 1..4, 3 \in 1..4, 4 \in 1..4
<1>4. ASSUME NEW c \in pool PROVE Blend(x, pool, w)[c] \in Int
  <2>1. Blend(x, pool, w)[c] =
            (w[1] * Success(x, c) + w[2] * Quality(c)) * cost.under * latency.under
            + 100 * w[3] * cost.over[c] * latency.under
            + 100 * w[4] * latency.over[c] * cost.under
    BY DEF Blend
  <2> HIDE DEF cost, latency
  <2>2. ASSUME NEW a \in Int, NEW b \in Int PROVE a * b \in Int /\ a + b \in Int
    OBVIOUS
  <2>3. w[1] * Success(x, c) \in Int /\ w[2] * Quality(c) \in Int
    BY <1>1, <1>3, <2>2
  <2>4. (w[1] * Success(x, c) + w[2] * Quality(c)) * cost.under * latency.under \in Int
    BY <1>2, <2>2, <2>3
  <2>5. 100 * w[3] \in Int /\ 100 * w[4] \in Int
    BY <1>3
  <2>6. 100 * w[3] * cost.over[c] * latency.under \in Int
    BY <1>2, <2>2, <2>5
  <2>7. 100 * w[4] * latency.over[c] * cost.under \in Int
    BY <1>2, <2>2, <2>5
  <2> QED
    BY <2>1, <2>2, <2>4, <2>6, <2>7
<1> QED
  BY <1>4

LEMMA BlendedActive ==
    ASSUME NEW x, WellFormed(x)
    PROVE  ProviderHealthScoreBlend(x).chosen \in Active(x)
<1> DEFINE E == Eligible(x)
           A == Active(x)
           w == Weights(Settings.health_blend, <<0, 1, 0, 0>>)
           score == Blend(x, E, w)
           up == Closed(x, E)
           health(c) == IF up = {} \/ c \in up THEN score[c] ELSE 0
           key == [c \in Models |-> <<-health(c), -Success(x, c), -Quality(c), Cost(x, c)>>]
<1>1. \A i \in 1..4 : w[i] \in Int
  <2>1. \A i \in 1..4 : Settings.health_blend[i] \in Nat
    BY Zenon, SettingsAssumption DEF SettingsAssumption
  <2>2. \A i \in 1..4 : <<0, 1, 0, 0>>[i] \in Int
    OBVIOUS
  <2> QED
    BY <2>1, <2>2 DEF Weights
<1>2. E \in SUBSET Models /\ E # {}
  BY EligibleIs
<1>3. A \in SUBSET E /\ A # {}
  BY <1>2 DEF Active, Closed, OrElse
<1>4. \A c \in E : score[c] \in Int
  <2> HIDE DEF w, E
  <2> QED
    BY <1>1, <1>2, BlendIs
<1>5. \A c \in A : key[c] \in [1..4 -> Int]
  <2>1. \A c \in E : health(c) \in Int
    <3> HIDE DEF score, up, E
    <3> QED
      BY <1>4
  <2>2. \A c \in E : Success(x, c) \in Int /\ Quality(c) \in Int /\ Cost(x, c) \in Int
    BY <1>2, CandidateIs, MeasureIs
  <2> HIDE DEF health, A, E
  <2> QED
    BY <1>2, <1>3, <2>1, <2>2
<1>6. Best(A, key) \in A
  <2> HIDE DEF key, A, E
  <2> QED
    BY <1>2, <1>3, <1>5, 4 \in Nat, BestIn
<1> QED
  BY <1>6 DEF ProviderHealthScoreBlend, Decision
-----------------------------------------------------------------------------
(* Hashes *)

LEMMA ByNameIs ==
    ASSUME NEW pool \in SUBSET Models, pool # {}
    PROVE  /\ ByName(pool) \in Seq(pool) /\ Len(ByName(pool)) \in Nat \ {0}
           /\ \A c \in pool : \E i \in 1..Len(ByName(pool)) : ByName(pool)[i] = c
<1> DEFINE key == [c \in Models |-> <<Name(c)>>]
<1>1. \A c \in pool : key[c] \in [1..1 -> Int]
  <2>1. \A c \in pool : Name(c) \in Int
    BY CatalogAssumption DEF CatalogAssumption
  <2> QED
    BY <2>1
<1>2. Comparable(pool, key)
  <2> HIDE DEF key
  <2> QED
    BY <1>1, 1 \in Nat DEF Comparable
<1>3. /\ Sorted(pool, key) \in Seq(pool) /\ Sorted(pool, key) # <<>>
      /\ \A c \in pool : \E i \in 1..Len(Sorted(pool, key)) : Sorted(pool, key)[i] = c
  <2> HIDE DEF key
  <2>1. pool \in SUBSET Nat /\ IsFiniteSet(pool)
    BY ModelsAre
  <2>2. Sorted(pool, key) \in Seq(pool) /\ Sorted(pool, key) # <<>>
    BY Zenon, <1>2, <2>1, HeadOfSorted
  <2>3. /\ Len(Sorted(pool, key)) = Cardinality(pool)
        /\ \A c \in pool : \E i \in 1..Cardinality(pool) : Sorted(pool, key)[i] = c
    BY Zenon, <1>2, <2>1, SortedIsPermutation
  <2> QED
    BY Zenon, <2>2, <2>3
<1>4. ByName(pool) = Sorted(pool, key)
  BY DEF ByName
<1> HIDE DEF key
<1> QED
  BY <1>3, <1>4

LEMMA PickIn ==
    ASSUME NEW S, NEW s \in Seq(S), Len(s) \in Nat \ {0}, NEW key \in Nat
    PROVE  Pick(s, key) \in S
<1>1. 1 + (key % Len(s)) \in 1..Len(s)
  OBVIOUS
<1> QED
  BY <1>1 DEF Pick

\* A walk around the ring meets everything eligible.
LEMMA RingIs ==
    ASSUME NEW x, WellFormed(x)
    PROVE  LastResort(x, Ring(x))
<1> DEFINE E == Eligible(x)
           ring == ByName(E)
           n == Len(ring)
           at(offset) == Pick(ring, x.key + offset)
           offsets == {o \in 0..(n - 1) : Up(x, at(o))}
<1>1. E \in SUBSET Models /\ E # {} /\ x.key \in Nat
  BY EligibleIs DEF WellFormed
<1>2. /\ ring \in Seq(E) /\ n \in Nat \ {0}
      /\ \A c \in E : \E i \in 1..n : ring[i] = c
  <2> HIDE DEF E
  <2> QED
    BY <1>1, ByNameIs
<1>3. \A o \in 0..(n - 1) : at(o) \in E
  <2> HIDE DEF E, ring
  <2>1. ASSUME NEW o \in 0..(n - 1) PROVE x.key + o \in Nat
    <3> HIDE DEF n
    <3> QED
      BY <1>1, <1>2
  <2> QED
    BY <1>2, <2>1, PickIn
<1>4. CASE offsets = {}
  <2>1. ASSUME NEW c \in E PROVE ~Up(x, c)
    <3>1. PICK i \in 1..n : ring[i] = c
      BY <1>2
    <3>2. PICK o \in 0..(n - 1) : 1 + ((x.key + o) % n) = i
      <4> HIDE DEF ring, n
      <4> QED
        BY <1>1, <1>2, Around
    <3>3. at(o) = c
      BY <3>1, <3>2 DEF Pick
    <3> HIDE DEF at
    <3> QED
      BY <1>4, <3>3
  <2>2. at(0) \in E
    <3>1. 0 \in 0..(n - 1)
      BY <1>2
    <3> HIDE DEF at, E
    <3> QED
      BY <1>3, <3>1
  <2>3. LastResort(x, at(0))
    <3> HIDE DEF at
    <3> QED
      BY <1>1, <2>1, <2>2 DEF LastResort
  <2> QED
    BY <1>4, <2>3 DEF Ring
<1>5. CASE offsets # {}
  <2>1. LeastOf(offsets) \in offsets
    <3>1. offsets \in SUBSET Int /\ IsFiniteSet(offsets)
      <4> HIDE DEF at
      <4>1. IsFiniteSet(0..(n - 1))
        BY <1>2, 0 \in Int, n - 1 \in Int, FS_Interval
      <4> QED
        BY <4>1, FS_Subset
    <3> HIDE DEF offsets
    <3> QED
      BY <1>5, <3>1, LeastAndMost
  <2>2. at(LeastOf(offsets)) \in E /\ Up(x, at(LeastOf(offsets)))
    <3> HIDE DEF at, E
    <3> QED
      BY <1>3, <2>1
  <2>3. LastResort(x, at(LeastOf(offsets)))
    <3> HIDE DEF at, offsets
    <3> QED
      BY <1>1, <2>2 DEF LastResort
  <2> QED
    BY <1>5, <2>3 DEF Ring
<1> QED
  BY <1>4, <1>5

LEMMA HashedLastResort ==
    ASSUME NEW x, WellFormed(x)
    PROVE  /\ LastResort(x, StickyTenantHash(x).chosen)
           /\ LastResort(x, CacheHitStickyWarmPool(x).chosen)
           /\ LastResort(x, EmbeddingCacheKeyNamespace(x).chosen)
           /\ LastResort(x, StickyCanaryCost(x).chosen)
           /\ LastResort(x, StickyRegionFailover(x).chosen)
<1>1. /\ LastResort(x, StickyTenantHash(x).chosen)
      /\ LastResort(x, CacheHitStickyWarmPool(x).chosen)
      /\ LastResort(x, EmbeddingCacheKeyNamespace(x).chosen)
  BY RingIs DEF StickyTenantHash, CacheHitStickyWarmPool, EmbeddingCacheKeyNamespace,
     Decided, Decision
<1>2. \A c \in Closed(x, Eligible(x)) : LastResort(x, c)
  BY EligibleIs DEF Closed, LastResort
<1>3. LastResort(x, StickyCanaryCost(x).chosen)
  <2> DEFINE primary == Pick(ByName(Eligible(x)), x.key)
             cheaper == {c \in Closed(x, Eligible(x)) : Cost(x, c) < Cost(x, primary)}
  <2>1. cheaper \in SUBSET Models /\ \A c \in cheaper : LastResort(x, c)
    BY <1>2, EligibleIs DEF Closed
  <2>2. cheaper # {} => LastResort(x, Best(cheaper, ByCost(x)))
    <3> HIDE DEF cheaper
    <3> QED
      BY <2>1, FinestIn
  <2> QED
    BY <2>2, RingIs DEF StickyCanaryCost, Decided, Decision
<1>4. LastResort(x, StickyRegionFailover(x).chosen)
  <2> DEFINE up(r) == {c \in Closed(x, Eligible(x)) : InRegion(c, r)}
             regions == Regions(x)
             live == {i \in DOMAIN regions : up(regions[i]) # {}}
             pool == IF live # {} THEN up(regions[LeastOf(live)]) ELSE Active(x)
  <2>1. regions \in Seq(STRING)
    <3>1. Settings.regions \in Seq(STRING)
      BY Zenon, SettingsAssumption DEF SettingsAssumption
    <3>2. x.region \in STRING
      BY DEF WellFormed
    <3> DEFINE others == Settings.regions
               own == <<x.region>>
    <3>3. own \in Seq(STRING)
      BY <3>2
    <3> HIDE DEF others, own
    <3>4. own \o others \in Seq(STRING)
      BY <3>1, <3>3, ConcatProperties DEF others
    <3> QED
      BY Zenon, <3>1, <3>4 DEF Regions, others, own
  <2>2. live # {} => LeastOf(live) \in live
    <3>1. live \in SUBSET Int /\ IsFiniteSet(live)
      <4> HIDE DEF up, regions
      <4>1. DOMAIN regions = 1..Len(regions) /\ Len(regions) \in Nat
        BY <2>1
      <4>2. IsFiniteSet(1..Len(regions))
        BY <4>1, 1 \in Int, FS_Interval
      <4> QED
        BY <4>1, <4>2, FS_Subset
    <3> HIDE DEF live
    <3> QED
      BY <3>1, LeastAndMost
  <2>3. pool \in SUBSET Models /\ pool # {} /\ \A c \in pool : LastResort(x, c)
    <3>1. \A r : up(r) \in SUBSET Models /\ \A c \in up(r) : LastResort(x, c)
      BY <1>2, EligibleIs DEF Closed
    <3> HIDE DEF up, regions
    <3> QED
      BY <2>2, <3>1, ActiveIs
  <2>4. Pick(ByName(pool), x.key) \in pool
    <3>1. x.key \in Nat
      BY DEF WellFormed
    <3> HIDE DEF pool
    <3>2. ByName(pool) \in Seq(pool) /\ Len(ByName(pool)) \in Nat \ {0}
      BY <2>3, ByNameIs
    <3> QED
      BY <3>1, <3>2, PickIn
  <2>5. LastResort(x, Pick(ByName(pool), x.key))
    <3> HIDE DEF pool
    <3> QED
      BY <2>3, <2>4
  <2> QED
    BY <2>5 DEF StickyRegionFailover, Decided, Decision
<1> QED
  BY <1>1, <1>3, <1>4
-----------------------------------------------------------------------------
(* What the engine takes for granted of a decision *)

Usable(decided) ==
    /\ decided.chosen \in Models
    /\ decided.chain \in Seq(Models) /\ Len(decided.chain) <= 3
    /\ \A i \in DOMAIN decided.chain :
        /\ decided.chain[i] \in Models \ {decided.chosen}
        /\ \A j \in 1..(i - 1) : decided.chain[j] # decided.chain[i]

\* The first three of any others, each of them once.
LEMMA ChainUsable ==
    ASSUME NEW c \in Models, NEW s \in Seq(Models \ {c}),
           \A i, j \in DOMAIN s : i # j => s[i] # s[j]
    PROVE  Usable(Decision(c, s))
<1> DEFINE u == UpTo3(s)
<1>0. u \in Seq(Models \ {c})
  BY DEF UpTo3
<1>1. Len(u) <= 3 /\ DOMAIN u \subseteq DOMAIN s /\ \A i \in DOMAIN u : u[i] = s[i]
  <2>1. CASE Len(s) <= 3
    BY <2>1 DEF UpTo3
  <2>2. CASE ~(Len(s) <= 3)
    <3> DEFINE t == SubSeq(s, 1, 3)
    <3>1. u = t
      BY <2>2 DEF UpTo3
    <3>2. Len(s) \in Nat /\ DOMAIN s = 1..Len(s)
      OBVIOUS
    <3>3. Len(t) = 3 /\ DOMAIN t = 1..3 /\ \A i \in 1..3 : t[i] = s[i]
      BY <2>2
    <3> HIDE DEF t
    <3> QED
      BY <2>2, <3>1, <3>2, <3>3
  <2> QED
    BY <2>1, <2>2
<1> HIDE DEF u
<1>2. DOMAIN s = 1..Len(s) /\ \A i \in DOMAIN s : s[i] \in Models \ {c}
  OBVIOUS
<1>3. \A i \in DOMAIN u : \A j \in 1..(i - 1) : j \in DOMAIN u /\ j # i
  <2>1. DOMAIN u = 1..Len(u)
    BY <1>0
  <2> QED
    BY <1>1, <1>2, <2>1
<1>4. Decision(c, s).chosen = c /\ Decision(c, s).chain = u
  BY DEF Decision, u
<1>5. u \in Seq(Models)
  BY <1>0
<1> QED
  BY <1>1, <1>2, <1>3, <1>4, <1>5 DEF Usable

LEMMA OrderIs ==
    ASSUME NEW pool \in SUBSET Models, NEW n \in Nat, NEW key,
           \A d \in pool : key[d] \in [1..n -> Int]
    PROVE  /\ Sorted(pool, key) \in Seq(pool)
           /\ \A i, j \in DOMAIN Sorted(pool, key) :
                i # j => Sorted(pool, key)[i] # Sorted(pool, key)[j]
<1>1. Comparable(pool, key) /\ pool \in SUBSET Nat /\ IsFiniteSet(pool)
  BY ModelsAre DEF Comparable
<1> QED
  BY <1>1, SortedIsPermutation

LEMMA OrderedUsable ==
    ASSUME NEW c \in Models, NEW pool \in SUBSET (Models \ {c}), NEW n \in Nat, NEW key,
           \A d \in pool : key[d] \in [1..n -> Int]
    PROVE  Usable(Decision(c, Sorted(pool, key)))
<1> DEFINE s == Sorted(pool, key)
<1>1. s \in Seq(pool) /\ \A i, j \in DOMAIN s : i # j => s[i] # s[j]
  BY OrderIs
<1> HIDE DEF s
<1>2. s \in Seq(Models \ {c})
  BY <1>1
<1> QED
  BY <1>1, <1>2, ChainUsable DEF s

LEMMA QualityChainIs ==
    ASSUME NEW c \in Models
    PROVE  /\ QualityChain(c) \in Seq(Models \ {c})
           /\ \A i, j \in DOMAIN QualityChain(c) :
                i # j => QualityChain(c)[i] # QualityChain(c)[j]
<1> DEFINE key == [d \in Models |-> <<-Quality(d)>>]
<1>1. \A d \in Models \ {c} : key[d] \in [1..1 -> Int]
  <2>1. \A d \in Models : Quality(d) \in Int
    BY CatalogAssumption DEF CatalogAssumption
  <2> QED
    BY <2>1
<1> DEFINE s == Sorted(Models \ {c}, key)
<1>2. s \in Seq(Models \ {c}) /\ \A i, j \in DOMAIN s : i # j => s[i] # s[j]
  <2> HIDE DEF key
  <2> QED
    BY <1>1, 1 \in Nat, OrderIs
<1>3. s = QualityChain(c)
  BY DEF QualityChain
<1> HIDE DEF s
<1> QED
  BY <1>2, <1>3

LEMMA DecidedUsable ==
    ASSUME NEW c \in Models
    PROVE  Usable(Decided(c)) /\ Decided(c).chosen = c
  BY QualityChainIs, ChainUsable DEF Decided, Decision

\* The first of a sequence, with the others behind it.
LEMMA FirstUsable ==
    ASSUME NEW s \in Seq(Models), s # <<>>, \A i, j \in DOMAIN s : i # j => s[i] # s[j]
    PROVE  Usable(FirstOf(s))
<1> DEFINE t == Tail(s)
<1>1. /\ Head(s) \in Models /\ Head(s) = s[1] /\ 1 \in DOMAIN s
      /\ t \in Seq(Models) /\ Len(t) = Len(s) - 1 /\ DOMAIN s = 1..Len(s) /\ Len(s) \in Nat
      /\ \A i \in 1..(Len(s) - 1) : t[i] = s[i + 1]
  OBVIOUS
<1> HIDE DEF t
<1>2. \A i \in DOMAIN t : i + 1 \in DOMAIN s /\ i + 1 # 1 /\ t[i] = s[i + 1] /\ i \in Nat
  BY <1>1
<1>3. t \in Seq(Models \ {Head(s)})
  <2>1. \A i \in DOMAIN t : t[i] \in Models \ {Head(s)}
    BY <1>1, <1>2
  <2>2. DOMAIN t = 1..Len(t) /\ Len(t) \in Nat /\ t = [i \in 1..Len(t) |-> t[i]]
    BY <1>1
  <2> QED
    BY <2>1, <2>2
<1>4. \A i, j \in DOMAIN t : i # j => t[i] # t[j]
  BY <1>2
<1> QED
  BY <1>1, <1>3, <1>4, ChainUsable DEF FirstOf, t

LEMMA RankingUsable ==
    ASSUME NEW pool \in SUBSET Models, pool # {}, NEW n \in Nat, NEW key,
           \A d \in pool : key[d] \in [1..n -> Int]
    PROVE  Usable(FirstOf(Sorted(pool, key)))
<1> DEFINE s == Sorted(pool, key)
<1>1. s \in Seq(pool) /\ s # <<>> /\ \A i, j \in DOMAIN s : i # j => s[i] # s[j]
  BY OrderIs, FirstIn
<1> HIDE DEF s
<1>2. s \in Seq(Models)
  BY <1>1
<1> QED
  BY <1>1, <1>2, FirstUsable DEF s

LEMMA RankedUsable ==
    ASSUME NEW pool \in SUBSET Models, pool # {}, NEW n \in Nat, NEW key,
           \A d \in pool : key[d] \in [1..n -> Int]
    PROVE  Usable(RankedBy(pool, key))
<1> DEFINE c == Best(pool, [d \in Models |-> Append(key[d], -Name(d))])
           named == [d \in Models |-> Append(key[d], Name(d))]
<1>1. c \in pool
  BY RankedIn DEF RankedBy, Decision
<1>2. ASSUME NEW d \in pool PROVE named[d] \in [1..(n + 1) -> Int]
  <2>1. Name(d) \in Nat
    BY CatalogAssumption DEF CatalogAssumption
  <2>2. key[d] \in Seq(Int) /\ Len(key[d]) = n
    OBVIOUS
  <2>3. named[d] = Append(key[d], Name(d))
    OBVIOUS
  <2> HIDE DEF named
  <2>4. named[d] \in Seq(Int) /\ Len(named[d]) = n + 1
    BY <2>1, <2>2, <2>3
  <2> QED
    BY <2>4
<1>3. Usable(Decision(c, Sorted(pool \ {c}, named)))
  <2> HIDE DEF c, named
  <2>1. n + 1 \in Nat /\ c \in Models /\ pool \ {c} \in SUBSET (Models \ {c})
    BY <1>1
  <2>2. \A d \in pool \ {c} : named[d] \in [1..(n + 1) -> Int]
    BY <1>2
  <2> QED
    BY <2>1, <2>2, OrderedUsable
<1> QED
  BY <1>3 DEF RankedBy

\* It is the base class that makes the chain.
Again(decided) == decided = Decided(decided.chosen)

LEMMA AgainUsable ==
    ASSUME NEW x, WellFormed(x)
    PROVE  /\ Usable(StickyTenantHash(x)) /\ Usable(CacheHitStickyWarmPool(x))
           /\ Usable(EmbeddingCacheKeyNamespace(x)) /\ Usable(StickyCanaryCost(x))
           /\ Usable(StickyRegionFailover(x)) /\ Usable(CircuitBreakerHalfOpenProbe(x))
           /\ Usable(RetryBudgetAwareFailover(x)) /\ Usable(CanaryCostBlend(x))
           /\ Usable(ProviderTailLatencyHedge(x)) /\ Usable(SemanticCacheTtlAffinity(x))
           /\ Usable(ProviderSpendTelemetry(x)) /\ Usable(CarbonAwarePreference(x))
<1>0. \A c : Again(Decided(c))
  BY DEF Again, Decided, Decision
<1>1. /\ Again(StickyTenantHash(x))
      /\ Again(CacheHitStickyWarmPool(x))
      /\ Again(EmbeddingCacheKeyNamespace(x))
      /\ Again(StickyCanaryCost(x))
      /\ Again(StickyRegionFailover(x))
      /\ Again(CircuitBreakerHalfOpenProbe(x))
  <2>1. Again(StickyTenantHash(x))
    BY <1>0 DEF StickyTenantHash
  <2>2. Again(CacheHitStickyWarmPool(x))
    BY <1>0 DEF CacheHitStickyWarmPool
  <2>3. Again(EmbeddingCacheKeyNamespace(x))
    BY <1>0 DEF EmbeddingCacheKeyNamespace
  <2>4. Again(StickyCanaryCost(x))
    BY <1>0 DEF StickyCanaryCost
  <2>5. Again(StickyRegionFailover(x))
    BY <1>0 DEF StickyRegionFailover
  <2>6. Again(CircuitBreakerHalfOpenProbe(x))
    BY <1>0 DEF CircuitBreakerHalfOpenProbe
  <2> QED
    BY Zenon, <2>1, <2>2, <2>3, <2>4, <2>5, <2>6
<1>2. /\ Again(RetryBudgetAwareFailover(x))
      /\ Again(CanaryCostBlend(x))
      /\ Again(ProviderTailLatencyHedge(x))
      /\ Again(SemanticCacheTtlAffinity(x))
      /\ Again(ProviderSpendTelemetry(x))
      /\ Again(CarbonAwarePreference(x))
  <2>1. Again(RetryBudgetAwareFailover(x))
    BY <1>0 DEF RetryBudgetAwareFailover
  <2>2. Again(CanaryCostBlend(x))
    BY <1>0 DEF CanaryCostBlend
  <2>3. Again(ProviderTailLatencyHedge(x))
    BY <1>0 DEF ProviderTailLatencyHedge
  <2>4. Again(SemanticCacheTtlAffinity(x))
    BY <1>0 DEF SemanticCacheTtlAffinity
  <2>5. Again(ProviderSpendTelemetry(x))
    BY <1>0 DEF ProviderSpendTelemetry
  <2>6. Again(CarbonAwarePreference(x))
    BY <1>0 DEF CarbonAwarePreference
  <2> QED
    BY Zenon, <2>1, <2>2, <2>3, <2>4, <2>5, <2>6
<1>3. /\ \A c \in Active(x) : c \in Models
      /\ \A c \in Reachable(x) : c \in Models
      /\ \A c : LastResort(x, c) => c \in Models
  BY ActiveIs, ReachableIs DEF LastResort
<1>4. \A d : Again(d) /\ d.chosen \in Models => Usable(d)
  BY Zenon, DecidedUsable DEF Again
<1>5. /\ StickyTenantHash(x).chosen \in Models /\ CacheHitStickyWarmPool(x).chosen \in Models
      /\ EmbeddingCacheKeyNamespace(x).chosen \in Models
      /\ StickyCanaryCost(x).chosen \in Models /\ StickyRegionFailover(x).chosen \in Models
      /\ CircuitBreakerHalfOpenProbe(x).chosen \in Models
  BY Zenon, <1>3, HashedLastResort, CircuitsFirst
<1>6. /\ RetryBudgetAwareFailover(x).chosen \in Models /\ CanaryCostBlend(x).chosen \in Models
      /\ ProviderTailLatencyHedge(x).chosen \in Models
      /\ SemanticCacheTtlAffinity(x).chosen \in Models
      /\ ProviderSpendTelemetry(x).chosen \in Models
      /\ CarbonAwarePreference(x).chosen \in Models
  BY Zenon, <1>3, MeasuredActive, PlacedActive, CachedReachable
<1> QED
  BY Zenon, <1>1, <1>2, <1>4, <1>5, <1>6

\* The usual choices and the models of the settings.
LEMMA CheapestIn ==
    ASSUME NEW x, WellFormed(x), NEW pool \in SUBSET Models, pool # {}
    PROVE  /\ Finest(x, pool) \in Models /\ FinestByName(x, pool) \in Models
           /\ Cheapest(x, pool) \in Models /\ Best(pool, ByCost(x)) \in Models
<1> DEFINE cheap == [c \in Models |-> <<Cost(x, c), -Quality(c)>>]
<1>1. \A c \in pool : cheap[c] \in [1..2 -> Int]
  <2>1. \A c \in pool : Quality(c) \in Int /\ Cost(x, c) \in Int
    BY CandidateIs
  <2> QED
    BY <2>1
<1>2. Best(pool, cheap) \in pool
  <2> HIDE DEF cheap
  <2> QED
    BY <1>1, 2 \in Nat, BestIn
<1>3. Cheapest(x, pool) \in pool
  BY <1>2 DEF Cheapest
<1> QED
  BY <1>3, FinestIn

LEMMA PlainUsable ==
    ASSUME NEW x, WellFormed(x)
    PROVE  /\ Usable(RuleBased(x)) /\ Usable(Classifier(x)) /\ Usable(ABRouting(x))
           /\ Usable(BudgetAware(x)) /\ Usable(ProviderFamilyCostCeiling(x))
           /\ Usable(ComplexityTier(x)) /\ Usable(PromptLengthTierShed(x))
           /\ Usable(ShadowTrafficMirror(x)) /\ Usable(GeoRegion(x))
           /\ Usable(RegionTierAffinity(x)) /\ Usable(SoftFamilyBudget(x))
           /\ Usable(TokenCostAnomalyShed(x)) /\ Usable(ProviderHourlyCostCeiling(x))
<1> DEFINE E == Eligible(x)
<1>0. E \in SUBSET Models /\ E # {} /\ Serving(x) \in SUBSET Models
  BY EligibleIs DEF Serving
<1>a. \A pool \in SUBSET Models : pool # {} =>
        /\ Finest(x, pool) \in Models /\ FinestByName(x, pool) \in Models
        /\ Cheapest(x, pool) \in Models /\ Best(pool, ByCost(x)) \in Models
  BY Zenon, CheapestIn
<1>b. /\ {Settings.safety, Settings.frontier, Settings.flash, Settings.balanced,
          Settings.moonshot, Settings.ab_a, Settings.ab_b} \subseteq Models
  BY SettingsAssumption DEF SettingsAssumption
<1>1. Usable(RuleBased(x)) /\ Usable(Classifier(x)) /\ Usable(ABRouting(x))
  BY <1>b, DecidedUsable DEF RuleBased, Classifier, ABRouting
<1>2. \A ceiling : Usable(Within(x, ceiling))
  BY <1>0, <1>a, DecidedUsable DEF Within
<1>3. Usable(BudgetAware(x)) /\ Usable(ProviderFamilyCostCeiling(x))
  BY <1>2 DEF BudgetAware, ProviderFamilyCostCeiling
<1>4. Usable(ComplexityTier(x)) /\ Usable(PromptLengthTierShed(x))
  BY <1>0, <1>a, DecidedUsable DEF ComplexityTier, PromptLengthTierShed, OrElse
<1>5. Usable(ShadowTrafficMirror(x)) /\ Usable(GeoRegion(x)) /\ Usable(RegionTierAffinity(x))
  BY <1>0, <1>a, DecidedUsable DEF ShadowTrafficMirror, Feasible, GeoRegion,
     RegionTierAffinity, OrElse
<1>6. Usable(SoftFamilyBudget(x)) /\ Usable(ProviderHourlyCostCeiling(x))
  BY <1>0, <1>a, DecidedUsable DEF SoftFamilyBudget, ProviderHourlyCostCeiling, OrElse
<1>7. Usable(TokenCostAnomalyShed(x))
  BY <1>0, <1>a, ActiveIs, DecidedUsable DEF TokenCostAnomalyShed
<1> QED
  BY <1>1, <1>3, <1>4, <1>5, <1>6, <1>7

\* By the latency, by the success rate, or by the cost.
LEMMA QuickUsable ==
    ASSUME NEW x, WellFormed(x)
    PROVE  /\ Usable(LatencyAware(x)) /\ Usable(LatencyBudget(x)) /\ Usable(LatencySloShed(x))
           /\ Usable(MultiRegionLatencyHedge(x)) /\ Usable(RegionLatencyP99Shed(x))
           /\ Usable(SloAware(x)) /\ Usable(CostOptimal(x))
<1> DEFINE E == Eligible(x)
           score(c) == 1000 * (Latency(x, c) + 10 * (100 - Quality(c))) + Cost(x, c)
           best == [c \in Models |-> <<-Quality(c)>>]
           scored == [c \in Models |-> <<score(c)>>]
           cheap == [c \in Models |-> <<Cost(x, c)>>]
           quality == [c \in Models |-> <<-Quality(c), Latency(x, c)>>]
           latency == [c \in Models |-> <<Latency(x, c), -Quality(c)>>]
           qualityNamed == [c \in Models |-> <<-Quality(c), Latency(x, c), Cost(x, c), -Name(c)>>]
           latencyNamed == [c \in Models |-> <<Latency(x, c), -Quality(c), Cost(x, c), Name(c)>>]
           steadyBest == [c \in Models |-> <<-Quality(c), -Success(x, c), Cost(x, c)>>]
           steady == [c \in Models |-> <<-Success(x, c), -Quality(c)>>]
           quick(limit) == {c \in E : Latency(x, c) <= limit}
           there == OrElse({c \in E : InRegion(c, Region(x))}, E)
           near == {c \in there : Latency(x, c) <= Settings.p99}
           first == Best(there, quality)
           reliable == {c \in E : Success(x, c) >= Settings.slo}
<1>1. ASSUME NEW c \in Models
      PROVE  /\ best[c] \in [1..1 -> Int] /\ scored[c] \in [1..1 -> Int]
             /\ cheap[c] \in [1..1 -> Int]
             /\ quality[c] \in [1..2 -> Int] /\ latency[c] \in [1..2 -> Int]
             /\ qualityNamed[c] \in [1..4 -> Int] /\ latencyNamed[c] \in [1..4 -> Int]
             /\ steadyBest[c] \in [1..3 -> Int] /\ steady[c] \in [1..2 -> Int]
  <2>1. /\ Quality(c) \in Int /\ Cost(x, c) \in Int /\ Name(c) \in Int
        /\ Latency(x, c) \in Int /\ Success(x, c) \in Int
    BY CandidateIs, MeasureIs
  <2>2. score(c) \in Int
    BY <2>1
  <2> HIDE DEF score
  <2> QED
    BY <2>1, <2>2
<1>2. /\ LatencyAware(x) = Decided(IF Serving(x) = {} THEN Best(Models, best)
                                   ELSE Best(Serving(x), scored))
      /\ \A limit : InLimit(x, limit) =
            Decided(IF quick(limit) # {} THEN Best(quick(limit), quality) ELSE Best(E, latency))
      /\ RegionLatencyP99Shed(x) =
            Decided(IF near # {} THEN Best(near, qualityNamed) ELSE Best(there, latencyNamed))
  BY Zenon DEF LatencyAware, InLimit, RegionLatencyP99Shed
<1>3. /\ MultiRegionLatencyHedge(x) =
            Decided(IF E \ there # {} /\ Latency(x, first) > Settings.hedge
                    THEN Best(E \ there, latency) ELSE first)
      /\ SloAware(x) =
            Decided(IF reliable # {} THEN Best(reliable, steadyBest) ELSE Best(E, steady))
      /\ CostOptimal(x) =
            Decided(IF Feasible(x) = {} THEN Best(Models, best) ELSE Best(Feasible(x), cheap))
  BY Zenon DEF MultiRegionLatencyHedge, SloAware, CostOptimal
<1>4. /\ E \in SUBSET Models /\ E # {} /\ Serving(x) \in SUBSET Models /\ Models # {}
      /\ there \in SUBSET Models /\ there # {} /\ E \ there \in SUBSET Models
      /\ near \in SUBSET Models /\ reliable \in SUBSET Models /\ Feasible(x) \in SUBSET Models
      /\ \A limit : quick(limit) \in SUBSET Models
  BY EligibleIs, CatalogAssumption DEF Serving, CatalogAssumption, Feasible, OrElse
<1> HIDE DEF E, best, scored, cheap, quality, latency, qualityNamed, latencyNamed, steadyBest,
         steady, quick, there, near, reliable
<1>5. \A pool \in SUBSET Models : pool # {} =>
        /\ Best(pool, best) \in Models /\ Best(pool, scored) \in Models
        /\ Best(pool, cheap) \in Models
        /\ Best(pool, quality) \in Models /\ Best(pool, latency) \in Models
        /\ Best(pool, qualityNamed) \in Models /\ Best(pool, latencyNamed) \in Models
        /\ Best(pool, steadyBest) \in Models /\ Best(pool, steady) \in Models
  <2> SUFFICES ASSUME NEW pool \in SUBSET Models, pool # {}
               PROVE  /\ Best(pool, best) \in pool /\ Best(pool, scored) \in pool
                      /\ Best(pool, cheap) \in pool
                      /\ Best(pool, quality) \in pool /\ Best(pool, latency) \in pool
                      /\ Best(pool, qualityNamed) \in pool /\ Best(pool, latencyNamed) \in pool
                      /\ Best(pool, steadyBest) \in pool /\ Best(pool, steady) \in pool
    OBVIOUS
  <2>1. \A c \in pool : c \in Models
    OBVIOUS
  <2> QED
    BY <1>1, <2>1, BestIn, 1 \in Nat, 2 \in Nat, 3 \in Nat, 4 \in Nat
<1>6. \A c \in Models : Usable(Decided(c))
  BY DecidedUsable
<1>7. first \in Models
  BY <1>4, <1>5
<1> HIDE DEF first
<1> QED
  BY Zenon, <1>2, <1>3, <1>4, <1>5, <1>6, <1>7 DEF LatencyBudget, LatencySloShed

LEMMA RatioIs ==
    ASSUME NEW pool \in SUBSET Models, NEW num, NEW den
    PROVE  \A c : Ratio(pool, c, num, den) \in Nat
<1> SUFFICES ASSUME NEW c PROVE Ratio(pool, c, num, den) \in Nat
  OBVIOUS
<1> DEFINE under == {d \in pool : num[d] * den[c] < num[c] * den[d]}
<1>1. under \in SUBSET Models /\ Ratio(pool, c, num, den) = Cardinality(under)
  BY DEF Ratio
<1> HIDE DEF under
<1> QED
  BY <1>1, ModelsAre, FS_CardinalityType

\* By what others are like, or by the latency seen.
LEMMA ComparedUsable ==
    ASSUME NEW x, WellFormed(x)
    PROVE  /\ Usable(Value(x)) /\ Usable(CostLatencyPareto(x)) /\ Usable(AdaptiveTimeout(x))
           /\ Usable(AdaptiveTimeoutHedge(x)) /\ Usable(LatencySlopeShed(x))
<1> DEFINE E == Eligible(x)
           free(c) == Cost(x, c) = 0 /\ Quality(c) > 0
           quality == [c \in Models |-> Quality(c)]
           cost == [c \in Models |-> IF Cost(x, c) = 0 THEN 1 ELSE Cost(x, c)]
           valued == [c \in Models |-> <<IF free(c) THEN 0 ELSE 1, -Ratio(E, c, quality, cost),
                                         -Quality(c), Cost(x, c)>>]
           front == {c \in E : \A d \in E : ~Dominates(x, d, c)}
           fronted == [c \in Models |-> <<-Quality(c), Cost(x, c), Latency(x, c), Name(c)>>]
           inTime == {c \in E : Catalog[c].realtime}
           pool == IF x.batch THEN E ELSE OrElse(inTime, E)
           budget == TimeoutBudget(x, {Latency(x, c) : c \in pool})
           latency == [c \in Models |-> Latency(x, c)]
           sure == [c \in Models |-> MostOf({Success(x, c), 5})]
           within == {c \in pool : 200 * latency[c] <= budget * sure[c]}
           inBudget == [c \in Models |-> <<-Quality(c), -Success(x, c),
                                           Ratio(pool, c, latency, sure), Cost(x, c)>>]
           risky == [c \in Models |-> <<Ratio(pool, c, latency, sure), -Quality(c),
                                        -Success(x, c)>>]
           top == FinestByName(x, E)
           seen == {c \in E : Latency(x, c) > 0}
           fastest == LeastOf({Latency(x, c) : c \in seen})
           faster == {c \in seen : Provider(c) # Provider(top) /\ Latency(x, c) < Latency(x, top)}
           quick == [c \in Models |-> <<Latency(x, c), -Quality(c), Cost(x, c), Name(c)>>]
           steady == {c \in E : x.slope[Provider(c)] <= Settings.slope}
           up == Closed(x, E)
           shed == OrElse(steady \cap up, OrElse(up, OrElse(steady, E)))
           calm == [c \in Models |-> <<Latency(x, c), Cost(x, c), -Quality(c), Name(c)>>]
<1>1. ASSUME NEW c \in Models
      PROVE  /\ valued[c] \in [1..4 -> Int] /\ fronted[c] \in [1..4 -> Int]
             /\ inBudget[c] \in [1..4 -> Int] /\ risky[c] \in [1..3 -> Int]
             /\ quick[c] \in [1..4 -> Int] /\ calm[c] \in [1..4 -> Int]
  <2>1. /\ Quality(c) \in Int /\ Cost(x, c) \in Int /\ Name(c) \in Int
        /\ Latency(x, c) \in Int /\ Success(x, c) \in Int
    BY CandidateIs, MeasureIs
  <2>2. E \in SUBSET Models /\ pool \in SUBSET Models
    BY EligibleIs DEF OrElse
  <2>3. Ratio(E, c, quality, cost) \in Int /\ Ratio(pool, c, latency, sure) \in Int
    <3> HIDE DEF E, pool, quality, cost, latency, sure
    <3> QED
      BY <2>2, RatioIs
  <2>4. (IF free(c) THEN 0 ELSE 1) \in Int
    OBVIOUS
  <2> HIDE DEF E, pool, quality, cost, latency, sure, free
  <2> QED
    BY <2>1, <2>3, <2>4
<1>2. /\ Value(x) = Decided(Best(E, valued))
      /\ CostLatencyPareto(x) = Decided(Best(front, fronted))
      /\ AdaptiveTimeout(x) =
            Decided(IF within # {} THEN Best(within, inBudget) ELSE Best(pool, risky))
  BY Zenon DEF Value, CostLatencyPareto, AdaptiveTimeout
<1>3. /\ AdaptiveTimeoutHedge(x) =
            Decided(IF /\ Latency(x, top) > 0 /\ faster # {}
                       /\ Latency(x, top) * 100 > fastest * Settings.hedge_percent
                    THEN Best(faster, quick) ELSE top)
      /\ LatencySlopeShed(x) = Decided(IF top \in steady THEN top ELSE Best(shed, calm))
  BY Zenon DEF AdaptiveTimeoutHedge, LatencySlopeShed
<1>4. /\ E \in SUBSET Models /\ E # {} /\ pool \in SUBSET Models /\ pool # {}
      /\ front \in SUBSET Models /\ within \in SUBSET Models
      /\ faster \in SUBSET Models /\ shed \in SUBSET Models /\ shed # {}
  <2>1. E \in SUBSET Models /\ E # {} /\ up \in SUBSET Models
    BY EligibleIs DEF Closed
  <2> HIDE DEF E
  <2>2. pool \in SUBSET Models /\ pool # {} /\ shed \in SUBSET Models /\ shed # {}
    BY <2>1 DEF OrElse
  <2> HIDE DEF pool
  <2> QED
    BY <2>1, <2>2
<1>5. front # {}
  <2> DEFINE low == [c \in Models |-> <<Cost(x, c), Latency(x, c)>>]
             c == Best(E, low)
  <2>1. \A d \in Models : Cost(x, d) \in Int /\ Latency(x, d) \in Int
    BY CandidateIs, MeasureIs
  <2>2. \A d \in Models : low[d] \in [1..2 -> Int]
    BY <2>1
  <2>3. c \in E /\ \A d \in E \ {c} : Earlier(c, d, low)
    <3>1. E \in SUBSET Nat /\ IsFiniteSet(E) /\ E # {}
      BY <1>4, ModelsAre
    <3>2. Comparable(E, low)
      <4> HIDE DEF low, E
      <4> QED
        BY <1>4, <2>2 DEF Comparable
    <3> HIDE DEF low, E
    <3> QED
      BY <3>1, <3>2, BestIsFirst
  <2> HIDE DEF c
  <2>4. \A d \in E : ~Dominates(x, d, c)
    <3> SUFFICES ASSUME NEW d \in E, Dominates(x, d, c) PROVE FALSE
      OBVIOUS
    <3>1. /\ Cost(x, c) \in Int /\ Latency(x, c) \in Int
          /\ Cost(x, d) \in Int /\ Latency(x, d) \in Int
          /\ c \in Models /\ d \in Models
      BY <1>4, <2>1, <2>3
    <3>2. d # c /\ ~(Cost(x, c) < Cost(x, d))
          /\ ~(Cost(x, c) = Cost(x, d) /\ Latency(x, c) <= Latency(x, d))
      BY <3>1 DEF Dominates
    <3>3. low[c] = <<Cost(x, c), Latency(x, c)>> /\ low[d] = <<Cost(x, d), Latency(x, d)>>
      BY <3>1
    <3>4. Before(low[c], low[d]) \/ low[c] = low[d]
      BY <2>3, <3>2 DEF Earlier
    <3>5. ASSUME Before(low[c], low[d]) PROVE FALSE
      BY <3>1, <3>2, <3>3, <3>5 DEF Before
    <3> QED
      BY <3>1, <3>2, <3>3, <3>4, <3>5
  <2> QED
    BY <2>3, <2>4
<1>6. top \in Models
  <2> HIDE DEF E
  <2> QED
    BY <1>4, FinestIn
<1> HIDE DEF E, valued, front, fronted, pool, within, inBudget, risky, top, faster, quick,
         steady, shed, calm
<1>7. \A P \in SUBSET Models : P # {} =>
        /\ Best(P, valued) \in Models /\ Best(P, fronted) \in Models
        /\ Best(P, inBudget) \in Models /\ Best(P, risky) \in Models
        /\ Best(P, quick) \in Models /\ Best(P, calm) \in Models
  <2> SUFFICES ASSUME NEW P \in SUBSET Models, P # {}
               PROVE  /\ Best(P, valued) \in P /\ Best(P, fronted) \in P
                      /\ Best(P, inBudget) \in P /\ Best(P, risky) \in P
                      /\ Best(P, quick) \in P /\ Best(P, calm) \in P
    OBVIOUS
  <2>1. \A c \in P : c \in Models
    OBVIOUS
  <2> QED
    BY <1>1, <2>1, BestIn, 3 \in Nat, 4 \in Nat
<1>8. \A c \in Models : Usable(Decided(c))
  BY DecidedUsable
<1> QED
  BY Zenon, <1>2, <1>3, <1>4, <1>5, <1>6, <1>7, <1>8

LEMMA ProvidersOf ==
    ASSUME NEW pool \in SUBSET Models, pool # {}, NEW key, key = [p \in Providers |-> <<p>>]
    PROVE  LET providers == {Provider(c) : c \in pool}
           IN  /\ providers \in SUBSET Nat /\ providers # {} /\ IsFiniteSet(providers)
               /\ Cardinality(providers) \in Nat \ {0}
               /\ Sorted(providers, key) \in Seq(providers)
               /\ Len(Sorted(providers, key)) = Cardinality(providers)
<1> DEFINE providers == {Provider(c) : c \in pool}
           f == [c \in pool |-> Provider(c)]
<1>1. \A c \in Models : Provider(c) \in Nat /\ Provider(c) \in Providers
  BY CatalogAssumption DEF CatalogAssumption, Providers
<1>2. providers \in SUBSET Nat /\ providers # {} /\ providers \subseteq Providers
  BY <1>1
<1>3. IsFiniteSet(providers)
  <2>1. f \in Surjection(pool, providers)
    BY DEF Surjection
  <2> HIDE DEF f, providers
  <2> QED
    BY <2>1, ModelsAre, FS_Surjection
<1>4. \A p \in providers : key[p] \in [1..1 -> Int]
  BY <1>2
<1> HIDE DEF providers
<1>5. Comparable(providers, key)
  BY <1>4, 1 \in Nat DEF Comparable
<1>6. /\ Sorted(providers, key) \in Seq(providers)
      /\ Len(Sorted(providers, key)) = Cardinality(providers)
      /\ Cardinality(providers) \in Nat
  BY <1>2, <1>3, <1>5, SortedIsPermutation
<1>7. Cardinality(providers) # 0
  BY <1>2, <1>3, FS_EmptySet
<1> QED
  BY <1>2, <1>3, <1>6, <1>7 DEF providers

LEMMA WeightsAre ==
    ASSUME NEW w, \A i \in 1..4 : w[i] \in Nat, NEW only, \A i \in 1..4 : only[i] \in Nat
    PROVE  \A i \in 1..4 : Weights(w, only)[i] \in Int
  BY DEF Weights

\* By a hash onto the candidates or onto their providers, and by the blended score.
LEMMA HashedUsable ==
    ASSUME NEW x, WellFormed(x)
    PROVE  /\ Usable(StickySession(x)) /\ Usable(RoundRobin(x)) /\ Usable(EpsilonGreedy(x))
           /\ Usable(AdaptiveExploration(x)) /\ Usable(PromptPrefixCache(x))
           /\ Usable(SemanticCache(x)) /\ Usable(WeightedBlend(x))
<1> DEFINE E == Eligible(x)
           named == [c \in Models |-> <<-Quality(c), -Name(c)>>]
           best == Best(E, named)
           quick == OrElse({c \in Serving(x) : InTime(x, c)}, E)
           placed == [c \in Models |-> <<Provider(c), Name(c)>>]
           ring == Sorted(quick, placed)
           providers == {Provider(c) : c \in E}
           ordered == Sorted(providers, [p \in Providers |-> <<p>>])
           provider == Pick(ordered, x.hash)
           own == {c \in E : Provider(c) = provider}
           score == Blend(x, E, Weights(Settings.blend, <<0, 1, 0, 0>>))
           scored == [c \in Models |-> <<-score[c], -Quality(c), Cost(x, c)>>]
<1>1. /\ StickySession(x) = Decided(Pick(ByName(E), x.key))
      /\ \A exploring : Explore(x, exploring) =
            Decided(IF exploring THEN Pick(ByName(E), x.explore) ELSE best)
      /\ RoundRobin(x) = Decided(Finest(x, own))
  BY Zenon DEF StickySession, Explore, RoundRobin
<1>2. /\ PromptPrefixCache(x) = (IF x.prefix THEN Decided(Pick(ring, x.key))
                                 ELSE Decided(CostOptimal(x).chosen))
      /\ SemanticCache(x) = (IF x.hit THEN Decided(Best(quick, ByCost(x)))
                             ELSE Decided(CostOptimal(x).chosen))
      /\ WeightedBlend(x) = Decided(Best(E, scored))
  BY Zenon DEF PromptPrefixCache, SemanticCache, WeightedBlend
<1>3. /\ E \in SUBSET Models /\ E # {} /\ quick \in SUBSET Models /\ quick # {}
  BY EligibleIs DEF OrElse, Serving
<1>4. x.key \in Nat /\ x.hash \in Nat /\ x.explore \in Nat
  BY DEF WellFormed
<1>5. \A c \in Models : /\ Quality(c) \in Int /\ Cost(x, c) \in Int /\ Name(c) \in Int
                        /\ Provider(c) \in Nat /\ Provider(c) \in Providers
  BY CandidateIs, CatalogAssumption DEF CatalogAssumption
<1>6. best \in Models
  <2>1. \A c \in E : named[c] \in [1..2 -> Int]
    BY <1>3, <1>5
  <2> HIDE DEF named, E
  <2> QED
    BY <1>3, <2>1, BestIn, 2 \in Nat
<1>7. Pick(ring, x.key) \in Models
  <2>1. \A c \in quick : placed[c] \in [1..2 -> Int]
    BY <1>3, <1>5
  <2> HIDE DEF placed, quick
  <2>2. ring \in Seq(quick) /\ ring # <<>>
    BY <1>3, <2>1, FirstIn, 2 \in Nat
  <2> HIDE DEF ring
  <2>3. Len(ring) \in Nat \ {0}
    BY <2>2
  <2> QED
    BY <1>3, <1>4, <2>2, <2>3, PickIn
<1>8. own \in SUBSET Models /\ own # {}
  <2>1. /\ ordered \in Seq(providers) /\ Len(ordered) \in Nat \ {0}
    <3> HIDE DEF E
    <3> QED
      BY <1>3, ProvidersOf
  <2>2. provider \in providers
    <3> HIDE DEF ordered, providers
    <3> QED
      BY <1>4, <2>1, PickIn
  <2> HIDE DEF provider, E
  <2> QED
    BY <1>3, <2>2
<1>9. Best(E, scored) \in Models
  <2> DEFINE w == Weights(Settings.blend, <<0, 1, 0, 0>>)
  <2>1. \A i \in 1..4 : w[i] \in Int
    <3>1. \A i \in 1..4 : Settings.blend[i] \in Nat
      BY Zenon, SettingsAssumption DEF SettingsAssumption
    <3>2. \A i \in 1..4 : <<0, 1, 0, 0>>[i] \in Nat
      OBVIOUS
    <3> QED
      BY <3>1, <3>2, WeightsAre
  <2>2. \A c \in E : score[c] \in Int
    <3>1. score = Blend(x, E, w)
      OBVIOUS
    <3> HIDE DEF w, E, score
    <3> QED
      BY <1>3, <2>1, <3>1, BlendIs
  <2> HIDE DEF score
  <2>3. \A c \in E : scored[c] \in [1..3 -> Int]
    BY <1>3, <1>5, <2>2
  <2> HIDE DEF scored, E
  <2> QED
    BY <1>3, <2>3, BestIn, 3 \in Nat
<1> HIDE DEF E, best, quick, ring, own, scored
<1>10. \A P \in SUBSET Models : P # {} =>
        /\ Finest(x, P) \in Models /\ Best(P, ByCost(x)) \in Models
        /\ \A key \in Nat : Pick(ByName(P), key) \in Models
  <2> SUFFICES ASSUME NEW P \in SUBSET Models, P # {}
               PROVE  /\ Finest(x, P) \in Models /\ Best(P, ByCost(x)) \in Models
                      /\ \A key \in Nat : Pick(ByName(P), key) \in Models
    OBVIOUS
  <2> QED
    BY CheapestIn, ByNameIs, PickIn
<1>11. \A c \in Models : Usable(Decided(c))
  BY DecidedUsable
<1>12. CostOptimal(x).chosen \in Models
  BY QuickUsable DEF Usable
<1> QED
  BY Zenon, <1>1, <1>2, <1>3, <1>4, <1>6, <1>7, <1>8, <1>9, <1>10, <1>11, <1>12
     DEF EpsilonGreedy, AdaptiveExploration

\* The stretches of some candidates add up to more than nothing.
LEMMA StretchesAdd ==
    ASSUME NEW S \in SUBSET Models, S # {}
    PROVE  MapThenSumSet(Stretch, S) \in Nat \ {0}
<1> DEFINE f == [c \in S |-> Stretch(c)]
           folds(g) == g = [T \in SUBSET S |->
                               IF T = {} THEN 0 ELSE Stretch(Taken(T)) + g[T \ {Taken(T)}]]
<1>1. \A c \in S : f[c] \in Nat \ {0} /\ f[c] = Stretch(c)
  BY CatalogAssumption DEF CatalogAssumption, Stretch
<1>0. IsFiniteSet(S)
  BY ModelsAre
<1> HIDE DEF f
<1>2. ASSUME NEW g
      PROVE  folds(g) <=> IsSum(g, f, S)
  <2>1. \A T \in SUBSET S : T # {} => f[Taken(T)] = Stretch(Taken(T))
    BY <1>1 DEF Taken
  <2>2. [T \in SUBSET S |->
           IF T = {} THEN 0 ELSE Stretch(Taken(T)) + g[T \ {Taken(T)}]]
        = [T \in SUBSET S |-> IF T = {} THEN 0 ELSE f[Taken(T)] + g[T \ {Taken(T)}]]
    BY <2>1
  <2> QED
    BY Zenon, <2>2 DEF IsSum
<1>3. MapThenSumSet(Stretch, S) = (CHOOSE g : folds(g))[S]
  BY DEF MapThenSumSet, MapThenFoldSet, Taken
<1>a. \A c \in S : f[c] \in Int /\ f[c] \in Nat
  BY <1>1
<1>4. \E g : folds(g)
  <2>1. \E g : IsSum(g, f, S)
    BY <1>0, <1>a, SumExists
  <2> HIDE DEF folds
  <2> QED
    BY <1>2, <2>1
<1> HIDE DEF folds
<1>5. IsSum(CHOOSE g : folds(g), f, S)
  BY <1>2, <1>4
<1>6. MapThenSumSet(Stretch, S) = SumOf(f, S)
  BY <1>0, <1>a, <1>3, <1>5, SumIs
<1>7. SumOf(f, S) \in Nat \ {0}
  <2> PICK c \in S : TRUE
    OBVIOUS
  <2>1. SumOf(f, S) = f[c] + SumOf(f, S \ {c})
    BY <1>0, <1>a, SumTakes
  <2>2. SumOf(f, S \ {c}) \in Nat
    <3>1. IsFiniteSet(S \ {c}) /\ \A d \in S \ {c} : f[d] \in Nat
      BY <1>0, <1>a, FS_Subset
    <3> QED
      BY <3>1, SumNat
  <2> QED
    BY <1>1, <2>1, <2>2
<1> QED
  BY <1>6, <1>7

LEMMA WeightedUsable ==
    ASSUME NEW x, WellFormed(x)
    PROVE  Usable(QualityWeightedSticky(x))
<1> DEFINE E == Eligible(x)
           ring == ByName(E)
           first(i) == {ring[j] : j \in 1..i}
           upTo(i) == MapThenSumSet(Stretch, first(i))
           bucket == x.key % upTo(Len(ring))
           hit == {i \in DOMAIN ring : bucket < upTo(i)}
<1>1. QualityWeightedSticky(x) = Decided(ring[LeastOf(hit)])
  BY Zenon DEF QualityWeightedSticky
<1>2. E \in SUBSET Models /\ E # {}
  BY EligibleIs
<1>3. ring \in Seq(E) /\ Len(ring) \in Nat \ {0}
  <2> HIDE DEF E
  <2> QED
    BY <1>2, ByNameIs
<1>4. first(Len(ring)) \in SUBSET Models /\ first(Len(ring)) # {}
  <2> HIDE DEF ring, E
  <2> QED
    BY <1>2, <1>3
<1>5. upTo(Len(ring)) \in Nat \ {0}
  <2> HIDE DEF first
  <2> QED
    BY <1>4, StretchesAdd
<1>6. x.key \in Nat
  BY DEF WellFormed
<1> HIDE DEF upTo
<1>7. bucket < upTo(Len(ring))
  <2> DEFINE all == upTo(Len(ring))
  <2>1. all \in Nat \ {0}
    BY <1>5
  <2> HIDE DEF all
  <2>2. x.key % all < all
    BY <1>6, <2>1
  <2> QED
    BY <2>2 DEF all
<1> HIDE DEF bucket, ring, E
<1>8. DOMAIN ring = 1..Len(ring) /\ Len(ring) \in DOMAIN ring
  BY <1>3
<1>9. hit \in SUBSET Nat /\ hit # {} /\ hit \subseteq DOMAIN ring
  BY <1>7, <1>8
<1>10. LeastOf(hit) \in DOMAIN ring
  <2> HIDE DEF hit
  <2> QED
    BY <1>9, LeastIs
<1> HIDE DEF hit
<1>11. ring[LeastOf(hit)] \in Models
  BY <1>2, <1>3, <1>8, <1>10
<1> QED
  BY <1>1, <1>11, DecidedUsable

\* What a list comprehension keeps of a list that names everything once.
LEMMA KeptOnce ==
    ASSUME NEW S, NEW s \in Seq(S), \A i, j \in DOMAIN s : i # j => s[i] # s[j],
           NEW kept \in SUBSET DOMAIN s, NEW R, \A i \in kept : s[i] \in R
    PROVE  /\ Filtered(s, kept) \in Seq(R)
           /\ \A i, j \in DOMAIN Filtered(s, kept) :
                i # j => Filtered(s, kept)[i] # Filtered(s, kept)[j]
<1> DEFINE t == Filtered(s, kept)
<1>1. t \in Seq(S) /\ Keeps(t, s, kept)
  BY FilteredIs
<1> HIDE DEF t
<1>2. PICK at \in [DOMAIN t -> kept] :
            /\ \A k \in DOMAIN t : t[k] = s[at[k]]
            /\ \A k, l \in DOMAIN t : k < l <=> at[k] < at[l]
  BY Zenon, <1>1 DEF Keeps
<1>3. t \in Seq(R)
  <2>1. \A k \in DOMAIN t : t[k] \in R
    BY <1>2
  <2>2. DOMAIN t = 1..Len(t) /\ Len(t) \in Nat /\ t = [i \in 1..Len(t) |-> t[i]]
    BY <1>1
  <2> QED
    BY <2>1, <2>2
<1>4. ASSUME NEW k \in DOMAIN t, NEW l \in DOMAIN t, k # l
      PROVE  t[k] # t[l]
  <2>1. k < l \/ l < k
    BY <1>1, <1>4
  <2>2. at[k] \in kept /\ at[l] \in kept /\ at[k] # at[l]
    <3>1. kept \subseteq Nat
      OBVIOUS
    <3> QED
      BY <1>2, <2>1, <3>1
  <2> QED
    BY <1>2, <2>2
<1> QED
  BY <1>3, <1>4 DEF t

LEMMA CanaryUsable ==
    ASSUME NEW x, WellFormed(x)
    PROVE  Usable(Canary(x)) /\ Usable(CanaryTierBlend(x))
<1>1. Settings.canary \in Models /\ Settings.stable \in Models
  BY Zenon, SettingsAssumption DEF SettingsAssumption
<1>2. ASSUME NEW c \in Models PROVE Usable(CanaryDecided(c))
  <2> DEFINE stable == Settings.stable
             all == QualityChain(c)
             chain == UpTo3(all)
             kept == {i \in DOMAIN chain : chain[i] # stable}
             rest == Filtered(chain, kept)
  <2>1. CanaryDecided(c) = IF c = Settings.canary /\ stable # c THEN Decision(c, <<stable>> \o rest)
                           ELSE Decided(c)
    BY Zenon DEF CanaryDecided
  <2>2. /\ chain \in Seq(Models \ {c})
        /\ \A i, j \in DOMAIN chain : i # j => chain[i] # chain[j]
    <3>1. all \in Seq(Models \ {c}) /\ \A i, j \in DOMAIN all : i # j => all[i] # all[j]
      BY QualityChainIs
    <3> HIDE DEF all
    <3>2. CASE Len(all) <= 3
      BY <3>1, <3>2 DEF UpTo3
    <3>3. CASE ~(Len(all) <= 3)
      <4> DEFINE t == SubSeq(all, 1, 3)
      <4>1. chain = t
        BY <3>3 DEF UpTo3
      <4>2. Len(all) \in Nat /\ DOMAIN all = 1..Len(all)
        BY <3>1
      <4>3. t \in Seq(Models \ {c}) /\ DOMAIN t = 1..3 /\ \A i \in 1..3 : t[i] = all[i]
        BY <3>1, <3>3
      <4> HIDE DEF t, chain
      <4> QED
        BY <3>1, <3>3, <4>1, <4>2, <4>3
    <3> QED
      BY <3>2, <3>3
  <2> HIDE DEF chain
  <2>3. kept \in SUBSET DOMAIN chain /\ \A i \in kept : chain[i] \in Models \ {c, stable}
    BY <2>2
  <2> HIDE DEF kept
  <2>4. /\ rest \in Seq(Models \ {c, stable})
        /\ \A i, j \in DOMAIN rest : i # j => rest[i] # rest[j]
    BY <2>2, <2>3, KeptOnce
  <2> HIDE DEF rest
  <2>5. CASE c = Settings.canary /\ stable # c
    <3> DEFINE s == <<stable>> \o rest
    <3>0. rest \in Seq(Models) /\ <<stable>> \in Seq(Models \ {c}) /\ rest \in Seq(Models \ {c})
      BY <1>1, <2>4, <2>5
    <3>1. /\ s \in Seq(Models \ {c}) /\ Len(s) = 1 + Len(rest)
          /\ s[1] = stable /\ \A i \in 1..Len(rest) : s[i + 1] = rest[i]
      BY <3>0
    <3> HIDE DEF s
    <3>2. DOMAIN s = 1..(1 + Len(rest)) /\ DOMAIN rest = 1..Len(rest) /\ Len(rest) \in Nat
      BY <2>4, <3>1
    <3>3. \A i \in DOMAIN rest : rest[i] # stable
      BY <2>4
    <3>4. \A i \in DOMAIN s : i = 1 \/ (i - 1 \in DOMAIN rest /\ s[i] = rest[i - 1])
      BY <3>1, <3>2
    <3>5. \A i, j \in DOMAIN s : i # j => s[i] # s[j]
      BY <2>4, <3>1, <3>2, <3>3, <3>4
    <3>6. Usable(Decision(c, s))
      BY <3>1, <3>5, ChainUsable
    <3> QED
      BY <2>1, <2>5, <3>6 DEF s
  <2>6. CASE ~(c = Settings.canary /\ stable # c)
    BY <2>1, <2>6, DecidedUsable
  <2> QED
    BY <2>5, <2>6
<1> DEFINE E == Eligible(x)
           tier == {c \in E : Tier(c) = TargetTier(x)}
           pool == OrElse(tier, E)
<1>3. pool \in SUBSET Models /\ pool # {}
  BY EligibleIs DEF OrElse
<1>4. /\ Canary(x) = CanaryDecided(IF CanaryUp(x) /\ InSlice(x, Settings.canary_weight)
                                   THEN Settings.canary ELSE Settings.stable)
      /\ CanaryTierBlend(x) =
            CanaryDecided(IF InSlice(x, Settings.canary_weight) /\ CanaryUp(x)
                          THEN Settings.canary ELSE Finest(x, pool))
  BY Zenon DEF Canary, CanaryTierBlend
<1> HIDE DEF pool
<1>5. Finest(x, pool) \in Models
  BY <1>3, CheapestIn
<1> QED
  BY Zenon, <1>1, <1>2, <1>4, <1>5

\* The code keeps a fallback twice that the list of the setting names twice.
LEMMA PriorityUsable ==
    ASSUME NEW x, WellFormed(x),
           \A i, j \in DOMAIN Settings.priority :
                i # j => Settings.priority[i] # Settings.priority[j]
    PROVE  Usable(FailoverPriority(x))
<1> DEFINE priority == Settings.priority
           up == {i \in DOMAIN priority : Up(x, priority[i])}
           c == priority[IF up # {} THEN LeastOf(up) ELSE 1]
           kept == {i \in DOMAIN priority : priority[i] # c}
<1>1. FailoverPriority(x) = Decision(c, Filtered(priority, kept))
  BY Zenon DEF FailoverPriority
<1>2. priority \in Seq(Models) /\ priority # <<>>
  BY Zenon, SettingsAssumption DEF SettingsAssumption
<1>a. \A i, j \in DOMAIN priority : i # j => priority[i] # priority[j]
  OBVIOUS
<1> HIDE DEF priority
<1>3. DOMAIN priority \in SUBSET Nat /\ 1 \in DOMAIN priority
  BY <1>2
<1>4. up # {} => LeastOf(up) \in up
  <2>1. up \in SUBSET Nat
    BY <1>3
  <2> HIDE DEF up
  <2> QED
    BY <2>1, LeastIs
<1>5. c \in Models
  <2>1. (IF up # {} THEN LeastOf(up) ELSE 1) \in DOMAIN priority
    BY <1>3, <1>4
  <2> HIDE DEF up
  <2> QED
    BY <1>2, <2>1
<1> HIDE DEF c
<1>6. kept \in SUBSET DOMAIN priority /\ \A i \in kept : priority[i] \in Models \ {c}
  BY <1>2
<1> HIDE DEF kept
<1>7. /\ Filtered(priority, kept) \in Seq(Models \ {c})
      /\ \A i, j \in DOMAIN Filtered(priority, kept) :
            i # j => Filtered(priority, kept)[i] # Filtered(priority, kept)[j]
  BY Zenon, <1>2, <1>a, <1>6, KeptOnce
<1> QED
  BY <1>1, <1>5, <1>7, ChainUsable

\* The first of a ranking.
LEMMA FirstsUsable ==
    ASSUME NEW x, WellFormed(x)
    PROVE  /\ Usable(Cascade(x)) /\ Usable(TokenBudget(x)) /\ Usable(LeastBusy(x))
           /\ Usable(HealthCostLatency(x)) /\ Usable(CostFirst(x)) /\ Usable(SoftRateLimit(x))
<1> DEFINE E == Eligible(x)
           A == Active(x)
           quick == OrElse({c \in Serving(x) : InTime(x, c)}, E)
           window(c) == Catalog[c].window
           needed == x.prompt + x.max_tokens
           least(m, n) == IF m < n THEN m ELSE n
           fitting == {c \in E :
                        needed <= least(window(c), x.token_budget) /\ x.prompt <= InputLimit(c)}
           room(c) == least(InputLimit(c), window(c) - x.max_tokens)
           fitted == [c \in Models |-> <<-Quality(c), -window(c)>>]
           roomy == [c \in Models |-> <<-room(c), -window(c), -Quality(c)>>]
           busy == [c \in Models |-> <<Load(x, c), -Quality(c), Cost(x, c), Name(c)>>]
           score == Blend(x, E, Weights(Settings.hcl, <<1, 0, 0, 0>>))
           scored == [c \in Models |-> <<-score[c], -Success(x, c), Cost(x, c), Latency(x, c)>>]
           limited(c) == <<x.limited[Provider(c)], x.limit_rate[Provider(c)]>>
           rest(c) == <<-Quality(c), Cost(x, c), Name(c)>>
           slow == [c \in Models |-> limited(c) \o rest(c)]
           dear == ByCost(x)
<1>1. /\ Cascade(x) = FirstOf(Sorted(quick, dear))
      /\ TokenBudget(x) = FirstOf(IF fitting # {} THEN Sorted(fitting, fitted) ELSE Sorted(E, roomy))
      /\ LeastBusy(x) = FirstOf(Sorted(E, busy))
  BY Zenon DEF Cascade, TokenBudget, LeastBusy
<1>2. /\ HealthCostLatency(x) = FirstOf(Sorted(E, scored))
      /\ CostFirst(x) = FirstOf(Sorted(A, dear))
      /\ SoftRateLimit(x) = FirstOf(Sorted(A, slow) \o Sorted(E \ A, slow))
  BY Zenon DEF HealthCostLatency, CostFirst, SoftRateLimit
<1>3. /\ E \in SUBSET Models /\ E # {} /\ A \in SUBSET Models /\ A # {}
      /\ quick \in SUBSET Models /\ quick # {} /\ fitting \in SUBSET Models
  BY EligibleIs, ActiveIs DEF OrElse, Serving
<1>4. \A c \in E : score[c] \in Int
  <2> DEFINE w == Weights(Settings.hcl, <<1, 0, 0, 0>>)
  <2>1. \A i \in 1..4 : w[i] \in Int
    <3>1. \A i \in 1..4 : Settings.hcl[i] \in Nat
      BY Zenon, SettingsAssumption DEF SettingsAssumption
    <3>2. \A i \in 1..4 : <<1, 0, 0, 0>>[i] \in Nat
      OBVIOUS
    <3> QED
      BY <3>1, <3>2, WeightsAre
  <2>2. score = Blend(x, E, w)
    OBVIOUS
  <2> HIDE DEF w, E, score
  <2> QED
    BY <1>3, <2>1, <2>2, BlendIs
<1> HIDE DEF score
<1>5. ASSUME NEW c \in Models
      PROVE  /\ fitted[c] \in [1..2 -> Int] /\ roomy[c] \in [1..3 -> Int]
             /\ busy[c] \in [1..4 -> Int] /\ dear[c] \in [1..3 -> Int]
             /\ slow[c] \in [1..5 -> Int]
             /\ c \in E => scored[c] \in [1..4 -> Int]
  <2>1. /\ Quality(c) \in Int /\ Cost(x, c) \in Int /\ Name(c) \in Int
        /\ Latency(x, c) \in Int /\ Success(x, c) \in Int /\ InputLimit(c) \in Int
        /\ x.limited[Provider(c)] \in Int /\ x.limit_rate[Provider(c)] \in Int
    BY CandidateIs, MeasureIs
  <2>2. window(c) \in Int /\ x.max_tokens \in Int
    BY CatalogAssumption DEF CatalogAssumption, WellFormed
  <2>3. room(c) \in Int
    BY <2>1, <2>2
  <2>4. Load(x, c) \in Int
    <3>1. x.load \in [Providers -> Int] /\ Provider(c) \in Providers
      BY CandidateIs DEF WellFormed, Measures
    <3> QED
      BY <3>1 DEF Load
  <2>5. slow[c] \in [1..5 -> Int]
    <3>1. slow[c] = limited(c) \o rest(c)
      OBVIOUS
    <3>2. limited(c) \in [1..2 -> Int] /\ rest(c) \in [1..3 -> Int]
      BY <2>1
    <3> HIDE DEF limited, rest, slow
    <3>3. limited(c) \o rest(c) \in [1..(2 + 3) -> Int]
      BY <3>2, Joined, 2 \in Nat, 3 \in Nat
    <3> QED
      BY <3>1, <3>3
  <2> HIDE DEF room, window, slow, E
  <2> QED
    BY <1>4, <2>1, <2>2, <2>3, <2>4, <2>5 DEF ByCost
<1> HIDE DEF E, A, quick, fitting, fitted, roomy, busy, scored, slow, dear
<1>6. \A P \in SUBSET Models : P # {} =>
        /\ Usable(FirstOf(Sorted(P, fitted))) /\ Usable(FirstOf(Sorted(P, roomy)))
        /\ Usable(FirstOf(Sorted(P, busy))) /\ Usable(FirstOf(Sorted(P, dear)))
  <2> SUFFICES ASSUME NEW P \in SUBSET Models, P # {}
               PROVE  /\ Usable(FirstOf(Sorted(P, fitted))) /\ Usable(FirstOf(Sorted(P, roomy)))
                      /\ Usable(FirstOf(Sorted(P, busy))) /\ Usable(FirstOf(Sorted(P, dear)))
    OBVIOUS
  <2>1. \A c \in P : c \in Models
    OBVIOUS
  <2> QED
    BY <1>5, <2>1, RankingUsable, 2 \in Nat, 3 \in Nat, 4 \in Nat
<1>7. Usable(FirstOf(Sorted(E, scored)))
  <2>1. \A c \in E : scored[c] \in [1..4 -> Int]
    BY <1>3, <1>5
  <2> QED
    BY <1>3, <2>1, RankingUsable, 4 \in Nat
<1>8. Usable(FirstOf(Sorted(A, slow) \o Sorted(E \ A, slow)))
  <2> DEFINE s == Sorted(A, slow)
             t == Sorted(E \ A, slow)
  <2>1. \A P \in SUBSET Models : \A c \in P : slow[c] \in [1..5 -> Int]
    BY <1>5
  <2>2. /\ s \in Seq(A) /\ s # <<>> /\ t \in Seq(E \ A)
        /\ \A i, j \in DOMAIN s : i # j => s[i] # s[j]
        /\ \A i, j \in DOMAIN t : i # j => t[i] # t[j]
    <3>1. E \ A \in SUBSET Models
      BY <1>3
    <3> QED
      BY <1>3, <2>1, <3>1, FirstIn, OrderIs, 5 \in Nat
  <2> HIDE DEF s, t
  <2>3. /\ s \in Seq(Models) /\ t \in Seq(Models)
        /\ \A i \in DOMAIN s : s[i] \in A
        /\ \A i \in DOMAIN t : t[i] \notin A
        /\ DOMAIN s = 1..Len(s) /\ DOMAIN t = 1..Len(t) /\ Len(s) \in Nat \ {0} /\ Len(t) \in Nat
    BY <1>3, <2>2
  <2> DEFINE u == s \o t
  <2>4. /\ u \in Seq(Models) /\ DOMAIN u = 1..(Len(s) + Len(t))
        /\ \A i \in 1..Len(s) : u[i] = s[i]
        /\ \A i \in 1..Len(t) : u[Len(s) + i] = t[i]
        /\ u # <<>>
    BY <2>3, ConcatProperties
  <2> HIDE DEF u
  <2>5. ASSUME NEW i \in DOMAIN u
        PROVE  \/ i \in DOMAIN s /\ u[i] = s[i] /\ u[i] \in A
               \/ i - Len(s) \in DOMAIN t /\ u[i] = t[i - Len(s)] /\ u[i] \notin A
    <3>1. CASE i <= Len(s)
      BY <2>3, <2>4, <3>1
    <3>2. CASE ~(i <= Len(s))
      <4>1. i - Len(s) \in 1..Len(t) /\ Len(s) + (i - Len(s)) = i
        BY <2>3, <2>4, <3>2
      <4> QED
        BY <2>3, <2>4, <4>1
    <3> QED
      BY <3>1, <3>2
  <2>6. ASSUME NEW i \in DOMAIN u, NEW j \in DOMAIN u, i # j
        PROVE  u[i] # u[j]
    <3>1. i \in Int /\ j \in Int /\ Len(s) \in Int
      BY <2>3, <2>4
    <3>2. i - Len(s) # j - Len(s)
      BY <2>6, <3>1
    <3> QED
      BY <2>2, <2>5, <2>6, <3>2
  <2>7. Usable(FirstOf(u))
    BY <2>4, <2>6, FirstUsable
  <2> QED
    BY <2>7 DEF u, s, t
<1> QED
  BY <1>1, <1>2, <1>3, <1>6, <1>7, <1>8

\* The best of an order, with the others behind it.
LEMMA RanksUsable ==
    ASSUME NEW x, WellFormed(x)
    PROVE  /\ Usable(QualityFirst(x)) /\ Usable(ProviderExclusion(x))
           /\ Usable(ProviderWeightDecay(x)) /\ Usable(ProviderWarmupWeight(x))
           /\ Usable(ModelCapabilityGate(x)) /\ Usable(LongContextPrefer(x))
           /\ \A wanted, capable : Usable(PreferIf(x, wanted, capable))
<1> DEFINE E == Eligible(x)
           A == Active(x)
           left == {c \in A : Provider(c) \notin x.without /\ c \notin x.without_models}
           weight(c) == x.weight[Provider(c)]
           has(c) == IF c \in DOMAIN x.capabilities THEN x.capabilities[c]
                     ELSE IF Catalog[c].known THEN Catalog[c].capabilities ELSE {}
           able == {c \in A : x.required \subseteq has(c)}
           window(c) == IF c \in DOMAIN x.windows THEN x.windows[c] ELSE InputLimit(c)
           best == [c \in Models |-> <<-Quality(c), Cost(x, c)>>]
           decayed == [c \in Models |-> <<-(weight(c) * Quality(c)), -weight(c), -Quality(c),
                                          Cost(x, c)>>]
           warmed == [c \in Models |-> <<-Warmed(x, c), Cost(x, c)>>]
           wide == [c \in Models |-> <<Late(window(c) < x.min_context), -window(c), -Quality(c),
                                       Cost(x, c)>>]
           wants(capable) == [c \in Models |-> <<Late(c \notin capable), -Quality(c), Cost(x, c)>>]
<1>1. /\ QualityFirst(x) = RankedBy(A, best)
      /\ ProviderExclusion(x) = RankedBy(OrElse(left, E), best)
      /\ ProviderWeightDecay(x) = RankedBy(E, decayed)
      /\ ProviderWarmupWeight(x) = RankedBy(A, warmed)
  BY Zenon DEF QualityFirst, ProviderExclusion, ProviderWeightDecay, ProviderWarmupWeight
<1>2. /\ ModelCapabilityGate(x) = RankedBy(OrElse(able, A), best)
      /\ LongContextPrefer(x) = (IF x.min_context = 0 THEN QualityFirst(x)
                                 ELSE RankedBy(A, wide))
      /\ \A wanted, capable : PreferIf(x, wanted, capable) =
            (IF wanted THEN RankedBy(A, wants(capable)) ELSE QualityFirst(x))
  BY Zenon DEF ModelCapabilityGate, LongContextPrefer, PreferIf
<1>3. /\ E \in SUBSET Models /\ E # {} /\ A \in SUBSET Models /\ A # {}
      /\ OrElse(left, E) \in SUBSET Models /\ OrElse(left, E) # {}
      /\ OrElse(able, A) \in SUBSET Models /\ OrElse(able, A) # {}
  BY EligibleIs, ActiveIs DEF OrElse
<1>4. ASSUME NEW c \in Models
      PROVE  /\ best[c] \in [1..2 -> Int] /\ decayed[c] \in [1..4 -> Int]
             /\ warmed[c] \in [1..2 -> Int] /\ wide[c] \in [1..4 -> Int]
             /\ \A capable : wants(capable)[c] \in [1..3 -> Int]
  <2>1. Quality(c) \in Int /\ Cost(x, c) \in Int
    BY CandidateIs
  <2>2. weight(c) \in Int
    <3>1. x.weight \in [Providers -> Int] /\ Provider(c) \in Providers
      BY CandidateIs DEF WellFormed, Measures
    <3> QED
      BY <3>1
  <2>3. Warmed(x, c) \in Int
    <3>0. Settings.warmup_percent \in 0..100
      BY Zenon, SettingsAssumption DEF SettingsAssumption
    <3>1. x.warmup[Provider(c)] \in Int /\ Settings.warmup_percent \in Int
      BY <3>0, MeasureIs
    <3>2. /\ (100 - Settings.warmup_percent) * Quality(c) \in Int
          /\ Settings.warmup_percent * x.warmup[Provider(c)] \in Int
      BY <2>1, <3>1
    <3> QED
      BY <3>2 DEF Warmed
  <2>4. window(c) \in Int
    BY CandidateIs DEF WellFormed
  <2>5. weight(c) * Quality(c) \in Int
    BY <2>1, <2>2
  <2>6. \A b : Late(b) \in Int
    BY DEF Late
  <2> HIDE DEF weight, window
  <2> QED
    BY <2>1, <2>2, <2>3, <2>4, <2>5, <2>6
<1> HIDE DEF E, A, left, able, best, decayed, warmed, wide, wants
<1>5. \A P \in SUBSET Models : P # {} =>
        /\ Usable(RankedBy(P, best)) /\ Usable(RankedBy(P, decayed))
        /\ Usable(RankedBy(P, warmed)) /\ Usable(RankedBy(P, wide))
        /\ \A capable : Usable(RankedBy(P, wants(capable)))
  <2> SUFFICES ASSUME NEW P \in SUBSET Models, P # {}
               PROVE  /\ Usable(RankedBy(P, best)) /\ Usable(RankedBy(P, decayed))
                      /\ Usable(RankedBy(P, warmed)) /\ Usable(RankedBy(P, wide))
                      /\ \A capable : Usable(RankedBy(P, wants(capable)))
    OBVIOUS
  <2>1. \A c \in P : c \in Models
    OBVIOUS
  <2> QED
    BY <1>4, <2>1, RankedUsable, 2 \in Nat, 3 \in Nat, 4 \in Nat
<1> QED
  BY Zenon, <1>1, <1>2, <1>3, <1>5

LEMMA CarbonUsable ==
    ASSUME NEW x, WellFormed(x)
    PROVE  Usable(RegionCarbonBlend(x)) /\ Usable(CarbonLatencyBlend(x))
<1>1. ASSUME NEW weight \in Int, NEW other \in Int
      PROVE  Usable(CarbonAndLatency(x, weight, other))
  <2> DEFINE E == Eligible(x)
             carbon == [c \in Models |-> Carbon(x, c)]
             latency == [c \in Models |-> Latency(x, c)]
             score == BlendOf(x, E, carbon, weight, other)
             key == [c \in Models |-> <<-score[c], -Quality(c), Cost(x, c)>>]
             a == InverseMinMax(E, carbon)
             b == InverseMinMax(E, latency)
  <2>1. CarbonAndLatency(x, weight, other) = RankedBy(E, key)
    BY Zenon DEF CarbonAndLatency
  <2>2. score = [c \in E |-> weight * a.over[c] * b.under + other * b.over[c] * a.under]
    BY Zenon DEF BlendOf
  <2>3. E \in SUBSET Models /\ E # {}
    BY EligibleIs
  <2>4. \A c \in Models : /\ Quality(c) \in Int /\ Cost(x, c) \in Int
                          /\ carbon[c] \in Int /\ latency[c] \in Int
    BY CandidateIs, MeasureIs
  <2> HIDE DEF E, carbon, latency
  <2>5. /\ a.under \in Int /\ \A c \in E : a.over[c] \in Int
        /\ b.under \in Int /\ \A c \in E : b.over[c] \in Int
    BY <2>3, <2>4, InverseIs
  <2>6. \A c \in E : score[c] \in Int
    <3> SUFFICES ASSUME NEW c \in E PROVE score[c] \in Int
      OBVIOUS
    <3> DEFINE m == a.over[c]
               n == b.over[c]
               u == a.under
               v == b.under
    <3>1. m \in Int /\ n \in Int /\ u \in Int /\ v \in Int
      BY <2>5
    <3>2. score[c] = weight * m * v + other * n * u
      BY Zenon, <2>2
    <3> HIDE DEF m, n, u, v, score
    <3>3. weight * m \in Int /\ other * n \in Int
      BY <3>1
    <3>4. weight * m * v \in Int /\ other * n * u \in Int
      BY <3>1, <3>3
    <3> QED
      BY <3>2, <3>4
  <2> HIDE DEF score
  <2>7. \A c \in E : key[c] \in [1..3 -> Int]
    BY <2>3, <2>4, <2>6
  <2> HIDE DEF key
  <2>8. Usable(RankedBy(E, key))
    BY <2>3, <2>7, RankedUsable, 3 \in Nat
  <2> QED
    BY <2>1, <2>8
<1>2. /\ Settings.carbon_percent \in Int /\ 100 - Settings.carbon_percent \in Int
      /\ Settings.carbon_weight \in Int /\ Settings.latency_weight \in Int
  <2>1. {Settings.carbon_percent, Settings.carbon_weight, Settings.latency_weight} \subseteq Nat
    BY Zenon, SettingsAssumption DEF SettingsAssumption
  <2> QED
    BY <2>1
<1> QED
  BY Zenon, <1>1, <1>2 DEF RegionCarbonBlend, CarbonLatencyBlend

\* One of the models, with the others of a pool behind it in an order.
LEMMA BehindUsable ==
    ASSUME NEW c \in Models, NEW pool \in SUBSET Models, NEW n \in Nat, NEW key,
           \A d \in pool : key[d] \in [1..n -> Int]
    PROVE  Usable(Decision(c, Sorted(pool \ {c}, key)))
<1> DEFINE rest == pool \ {c}
<1>1. rest \in SUBSET (Models \ {c}) /\ \A d \in rest : key[d] \in [1..n -> Int]
  OBVIOUS
<1> HIDE DEF rest
<1>2. Usable(Decision(c, Sorted(rest, key)))
  BY <1>1, OrderedUsable
<1> QED
  BY <1>2 DEF rest

LEMMA HealthyUsable ==
    ASSUME NEW x, WellFormed(x)
    PROVE  /\ Usable(FastestSeen(x)) /\ Usable(ReliabilityAware(x))
           /\ Usable(ProviderSuccessFloor(x)) /\ Usable(ProviderErrorBudgetShed(x))
           /\ Usable(ProviderErrorBudgetReset(x)) /\ Usable(RetryAfterRespect(x))
<1> DEFINE E == Eligible(x)
           A == Active(x)
           seen == {c \in A : Latency(x, c) > 0}
           unseen == A \ seen
           fast == [d \in Models |-> <<Late(d \in unseen), Latency(x, d), -Quality(d), Name(d)>>]
           up == [d \in Models |-> <<IF Up(x, d) THEN 0 ELSE 1, -Quality(d)>>]
           above == {c \in A : Success(x, c) >= Settings.success_floor}
           high == [c \in Models |-> <<Late(c \notin above), -Success(x, c), -Quality(c),
                                       Cost(x, c), Name(c)>>]
           errors(c) == 100 - Success(x, c)
           over(c) == errors(c) > Settings.error_budget
           shed == [d \in Models |-> <<Late(~Up(x, d)), Late(over(d)), errors(d), -Quality(d),
                                       Cost(x, d), Name(d)>>]
           rate(c) == x.errors[Provider(c)]
           spent(c) == rate(c) > Settings.error_budget
           reset == [c \in Models |-> <<Late(spent(c)), rate(c), -Quality(c), Name(c)>>]
           wait(c) == x.cooldown[Provider(c)]
           ready == [c \in Models |-> <<Late(wait(c) > 0), Late(~Up(x, c)), wait(c), -Quality(c),
                                        Name(c)>>]
<1>0. \A c, s : Decision(c, s).chosen = c
  BY DEF Decision
<1>1. /\ FastestSeen(x) = Decision(FastestSeen(x).chosen,
                                   Sorted(A \ {FastestSeen(x).chosen}, fast))
      /\ ReliabilityAware(x) = Decision(ReliabilityAware(x).chosen,
                                        Sorted(Models \ {ReliabilityAware(x).chosen}, up))
      /\ ProviderSuccessFloor(x) =
            Decision(ProviderSuccessFloor(x).chosen,
                     Sorted(A \ {ProviderSuccessFloor(x).chosen}, high))
  BY Zenon, <1>0 DEF FastestSeen, ReliabilityAware, ReliabilityChain, ProviderSuccessFloor
<1>2. /\ ProviderErrorBudgetShed(x) =
            Decision(ProviderErrorBudgetShed(x).chosen,
                     Sorted(E \ {ProviderErrorBudgetShed(x).chosen}, shed))
      /\ ProviderErrorBudgetReset(x) =
            Decision(ProviderErrorBudgetReset(x).chosen,
                     Sorted(A \ {ProviderErrorBudgetReset(x).chosen}, reset))
      /\ RetryAfterRespect(x) =
            Decision(RetryAfterRespect(x).chosen,
                     Sorted(E \ {RetryAfterRespect(x).chosen}, ready))
  BY Zenon, <1>0 DEF ProviderErrorBudgetShed, ProviderErrorBudgetReset, RetryAfterRespect
<1>3. E \in SUBSET Models /\ A \in SUBSET Models
  BY EligibleIs, ActiveIs
<1>4. ASSUME NEW c \in Models
      PROVE  /\ fast[c] \in [1..4 -> Int] /\ up[c] \in [1..2 -> Int] /\ high[c] \in [1..5 -> Int]
             /\ shed[c] \in [1..6 -> Int] /\ reset[c] \in [1..4 -> Int]
             /\ ready[c] \in [1..5 -> Int]
  <2>1. /\ Quality(c) \in Int /\ Cost(x, c) \in Int /\ Name(c) \in Int
        /\ Latency(x, c) \in Int /\ Success(x, c) \in Int
        /\ rate(c) \in Int /\ wait(c) \in Int /\ errors(c) \in Int
    BY CandidateIs, MeasureIs
  <2>2. \A b : Late(b) \in Int
    BY DEF Late
  <2> HIDE DEF errors, over, rate, spent, wait, seen, unseen, above, A
  <2> QED
    BY <2>1, <2>2
<1>5. /\ FastestSeen(x).chosen \in Models /\ ReliabilityAware(x).chosen \in Models
      /\ ProviderSuccessFloor(x).chosen \in Models /\ ProviderErrorBudgetShed(x).chosen \in Models
      /\ ProviderErrorBudgetReset(x).chosen \in Models /\ RetryAfterRespect(x).chosen \in Models
  BY Zenon, <1>3, MeasuredActive, PlainActive, CircuitsFirst DEF LastResort
<1> HIDE DEF E, A, fast, up, high, shed, reset, ready
<1>6. ASSUME NEW c \in Models, NEW P \in SUBSET Models
      PROVE  /\ Usable(Decision(c, Sorted(P \ {c}, fast)))
             /\ Usable(Decision(c, Sorted(P \ {c}, up)))
             /\ Usable(Decision(c, Sorted(P \ {c}, high)))
             /\ Usable(Decision(c, Sorted(P \ {c}, shed)))
             /\ Usable(Decision(c, Sorted(P \ {c}, reset)))
             /\ Usable(Decision(c, Sorted(P \ {c}, ready)))
  <2>1. \A d \in P : d \in Models
    OBVIOUS
  <2> QED
    BY <1>4, <2>1, BehindUsable, 2 \in Nat, 4 \in Nat, 5 \in Nat, 6 \in Nat
<1>7. Models \in SUBSET Models
  OBVIOUS
<1> QED
  BY Zenon, <1>1, <1>2, <1>3, <1>5, <1>6, <1>7

\* The quality, then how far the cost is from that of the middle of what is active.
Middling(x) ==
    LET costs == Sorted(Active(x), [c \in Models |-> <<Cost(x, c)>>])
        median == Cost(x, costs[1 + Len(costs) \div 2])
        apart(c) == IF Cost(x, c) < median THEN median - Cost(x, c) ELSE Cost(x, c) - median
    IN  [c \in Models |-> <<-Quality(c), apart(c), Cost(x, c)>>]

LEMMA QosIs ==
    ASSUME NEW x, WellFormed(x)
    PROVE  /\ \A c \in Models : Middling(x)[c] \in [1..3 -> Int]
           /\ \A c \in Models : Middling(x)[c][1] = -Quality(c)
           /\ x.class = "bulk" => RequestClassQos(x) = CostFirst(x)
           /\ x.class = "batch" => RequestClassQos(x) = RankedBy(Active(x), Middling(x))
           /\ x.class \notin {"bulk", "batch"} => RequestClassQos(x) = FastestSeen(x)
<1> DEFINE A == Active(x)
           cost == [c \in Models |-> <<Cost(x, c)>>]
           costs == Sorted(A, cost)
           median == Cost(x, costs[1 + Len(costs) \div 2])
           apart(c) == IF Cost(x, c) < median THEN median - Cost(x, c) ELSE Cost(x, c) - median
           key == [c \in Models |-> <<-Quality(c), apart(c), Cost(x, c)>>]
<1>0. \A c \in Models : Quality(c) \in Int /\ Cost(x, c) \in Int
  BY CandidateIs
<1>1. A \in SUBSET Models /\ A # {}
  BY ActiveIs
<1>2. median \in Int
  <2>1. \A c \in A : cost[c] \in [1..1 -> Int]
    BY <1>0, <1>1
  <2>2. costs \in Seq(A) /\ costs # <<>>
    <3> HIDE DEF cost, A
    <3> QED
      BY <1>1, <2>1, 1 \in Nat, FirstIn
  <2> HIDE DEF costs, A
  <2>3. Len(costs) \in Nat \ {0}
    BY <2>2
  <2>4. 1 + Len(costs) \div 2 \in 1..Len(costs)
    BY <2>3
  <2>5. costs[1 + Len(costs) \div 2] \in A
    BY <2>2, <2>4
  <2> QED
    BY <1>0, <1>1, <2>5
<1>3. \A c \in Models : key[c] \in [1..3 -> Int]
  <2> HIDE DEF median, A
  <2> QED
    BY <1>0, <1>2
<1>4. \A c \in Models : key[c][1] = -Quality(c)
  <2> HIDE DEF apart
  <2> QED
    OBVIOUS
<1>5. Middling(x) = key
  BY Zenon DEF Middling
<1>6. /\ x.class = "bulk" => RequestClassQos(x) = CostFirst(x)
      /\ x.class = "batch" => RequestClassQos(x) = RankedBy(A, key)
      /\ x.class \notin {"bulk", "batch"} => RequestClassQos(x) = FastestSeen(x)
  BY DEF RequestClassQos
<1> HIDE DEF key
<1> QED
  BY Zenon, <1>3, <1>4, <1>5, <1>6

LEMMA QosUsable ==
    ASSUME NEW x, WellFormed(x)
    PROVE  Usable(DeadlineAwarePick(x)) /\ Usable(RequestClassQos(x))
<1>1. Usable(RankedBy(Active(x), Middling(x)))
  <2>1. /\ Active(x) \in SUBSET Models /\ Active(x) # {}
        /\ \A c \in Active(x) : Middling(x)[c] \in [1..3 -> Int]
    BY ActiveIs, QosIs
  <2> QED
    BY <2>1, 3 \in Nat, RankedUsable
<1> QED
  BY <1>1, QosIs, FirstsUsable, RanksUsable, HealthyUsable DEF DeadlineAwarePick

LEMMA SplitUsable ==
    ASSUME NEW x, WellFormed(x)
    PROVE  Usable(CanaryShadowSplit(x)) /\ Usable(ProviderHealthScoreBlend(x))
<1> DEFINE E == Eligible(x)
           A == Active(x)
<1>0. E \in SUBSET Models /\ E # {} /\ A \in SUBSET Models /\ A # {}
  BY EligibleIs, ActiveIs
<1>a. \A c \in Models : /\ Quality(c) \in Int /\ Cost(x, c) \in Int /\ Name(c) \in Int
                        /\ Success(x, c) \in Int
  BY CandidateIs, MeasureIs
<1>b. \A c, s : Decision(c, s).chosen = c
  BY DEF Decision
<1>c. \A b : Late(b) \in Int
  BY DEF Late
<1>1. Usable(CanaryShadowSplit(x))
  <2> DEFINE preferred == {c \in A : Provider(c) = Settings.shadow_provider}
             primary == FinestByName(x, OrElse(preferred, A))
             others == {c \in A : Provider(c) # Provider(primary)}
             shadow(c) == others # {} /\ c = FinestByName(x, others)
             key == [c \in Models |-> <<Late(~shadow(c)), -Quality(c), Name(c)>>]
  <2>1. CanaryShadowSplit(x) = Decision(primary, Sorted(A \ {primary}, key))
    BY Zenon DEF CanaryShadowSplit
  <2>2. primary \in Models
    BY Zenon, <1>0, <1>b, <2>1, PlainActive
  <2> HIDE DEF primary, A, shadow
  <2>3. \A c \in A : key[c] \in [1..3 -> Int]
    BY <1>0, <1>a, <1>c
  <2> HIDE DEF key
  <2>4. Usable(Decision(primary, Sorted(A \ {primary}, key)))
    BY <1>0, <2>2, <2>3, BehindUsable, 3 \in Nat
  <2> QED
    BY <2>1, <2>4
<1>2. Usable(ProviderHealthScoreBlend(x))
  <2> DEFINE w == Weights(Settings.health_blend, <<0, 1, 0, 0>>)
             score == Blend(x, E, w)
             up == Closed(x, E)
             health(c) == IF up = {} \/ c \in up THEN score[c] ELSE 0
             key == [c \in Models |-> <<-health(c), -Success(x, c), -Quality(c), Cost(x, c)>>]
             c0 == Best(A, key)
             order == [c \in Models |-> <<Late(c \notin up)>> \o key[c]]
  <2>1. ProviderHealthScoreBlend(x) = Decision(c0, Sorted(E \ {c0}, order))
    BY Zenon DEF ProviderHealthScoreBlend
  <2>2. c0 \in Models
    BY Zenon, <1>0, <1>b, <2>1, BlendedActive
  <2>3. \A i \in 1..4 : w[i] \in Int
    <3>1. \A i \in 1..4 : Settings.health_blend[i] \in Nat
      BY Zenon, SettingsAssumption DEF SettingsAssumption
    <3>2. \A i \in 1..4 : <<0, 1, 0, 0>>[i] \in Nat
      OBVIOUS
    <3> QED
      BY <3>1, <3>2, WeightsAre
  <2>4. \A c \in E : score[c] \in Int
    <3> HIDE DEF w, E
    <3> QED
      BY <1>0, <2>3, BlendIs
  <2> HIDE DEF c0, score, up
  <2>5. \A c \in E : health(c) \in Int
    BY <2>4
  <2> HIDE DEF health
  <2>6. \A c \in E : key[c] \in [1..4 -> Int]
    BY <1>0, <1>a, <2>5
  <2> HIDE DEF key
  <2>7. ASSUME NEW c \in E PROVE order[c] \in [1..5 -> Int]
    <3>1. <<Late(c \notin up)>> \in [1..1 -> Int]
      BY <1>c
    <3>2. order[c] = <<Late(c \notin up)>> \o key[c]
      BY <1>0
    <3> DEFINE first == <<Late(c \notin up)>>
    <3> HIDE DEF first, order
    <3>3. first \o key[c] \in [1..(1 + 4) -> Int]
      BY <2>6, <3>1, Joined, 1 \in Nat, 4 \in Nat DEF first
    <3> QED
      BY <3>2, <3>3 DEF first
  <2> HIDE DEF order, E
  <2>8. Usable(Decision(c0, Sorted(E \ {c0}, order)))
    BY <1>0, <2>2, <2>7, BehindUsable, 5 \in Nat
  <2> QED
    BY <2>1, <2>8
<1> QED
  BY <1>1, <1>2

LEMMA Appended ==
    ASSUME NEW n \in Nat, NEW k \in [1..n -> Int], NEW v \in Int
    PROVE  Append(k, v) \in [1..(n + 1) -> Int]
<1> DEFINE l == Append(k, v)
<1>1. k \in Seq(Int) /\ Len(k) = n
  OBVIOUS
<1>2. l \in Seq(Int) /\ Len(l) = n + 1
  BY <1>1
<1> HIDE DEF l
<1>3. l \in [1..(n + 1) -> Int]
  BY <1>2
<1> QED
  BY <1>3 DEF l

LEMMA CapUsable ==
    ASSUME NEW x, WellFormed(x)
    PROVE  /\ Usable(ConcurrencyCap(x)) /\ Usable(TenantConcurrencyLease(x))
           /\ Usable(QueueDepthFairness(x)) /\ Usable(TokenRpmCeiling(x))
<1> DEFINE E == Eligible(x)
           waiting == [c \in Models |-> <<Load(x, c), -Quality(c), Cost(x, c), Name(c)>>]
           short == [c \in Models |-> <<-Quality(c), Load(x, c), Cost(x, c), -Name(c)>>]
           queued == [c \in Models |-> <<Late(Load(x, c) >= Settings.queue_cap)>> \o waiting[c]]
           idle == {c \in E : Load(x, c) < Settings.queue_cap}
           first == IF idle # {} THEN Best(idle, short) ELSE Best(E, waiting)
           projected(c) == Tokens(x, c) + x.prompt
           over(c) == projected(c) > Settings.rpm_ceiling
           under == {c \in E : ~over(c)}
           counted == [c \in Models |-> <<projected(c), -Quality(c), Cost(x, c), Name(c)>>]
           ceiled == [c \in Models |-> <<Late(over(c)), -Quality(c), projected(c), Cost(x, c),
                                         Name(c)>>]
           least == IF under # {} THEN FinestByName(x, under) ELSE Best(E, counted)
<1>0. E \in SUBSET Models /\ E # {}
  BY EligibleIs
<1>a. \A b : Late(b) \in Int
  BY DEF Late
<1>b. \A c \in Models : /\ Quality(c) \in Int /\ Cost(x, c) \in Int /\ Name(c) \in Int
                        /\ Load(x, c) \in Int /\ TenantLoad(x, c) \in Int
                        /\ projected(c) \in Int
  <2> SUFFICES ASSUME NEW c \in Models
               PROVE  Load(x, c) \in Int /\ TenantLoad(x, c) \in Int /\ projected(c) \in Int
    BY CandidateIs
  <2>1. /\ {x.load, x.tenant_load, x.tokens} \subseteq [Providers -> Int]
        /\ Provider(c) \in Providers /\ x.prompt \in Int
    BY CandidateIs DEF WellFormed, Measures
  <2> QED
    BY <2>1 DEF Load, TenantLoad, Tokens
<1>1. ASSUME NEW load, \A c \in Models : load[c] \in Int, NEW cap
      PROVE  Usable(Capped(x, load, cap))
  <2> DEFINE free == {c \in E : load[c] < cap}
             rest(c) == <<-Quality(c), Cost(x, c), Name(c)>>
             loaded == [c \in Models |-> <<load[c]>> \o rest(c)]
             order == [c \in Models |-> <<Late(load[c] >= cap)>> \o rest(c)]
             c0 == IF free # {} THEN FinestByName(x, free) ELSE Best(E, loaded)
  <2>1. Capped(x, load, cap) = Decision(c0, Sorted(E \ {c0}, order))
    BY Zenon DEF Capped
  <2>2. ASSUME NEW c \in Models PROVE loaded[c] \in [1..4 -> Int] /\ order[c] \in [1..4 -> Int]
    <3> DEFINE a == <<load[c]>>
               b == <<Late(load[c] >= cap)>>
               r == rest(c)
    <3>1. a \in [1..1 -> Int] /\ b \in [1..1 -> Int] /\ r \in [1..3 -> Int]
      BY <1>1, <1>a, <1>b
    <3>2. loaded[c] = a \o r /\ order[c] = b \o r
      OBVIOUS
    <3> HIDE DEF a, b, r, loaded, order
    <3>3. a \o r \in [1..(1 + 3) -> Int] /\ b \o r \in [1..(1 + 3) -> Int]
      BY <3>1, Joined, 1 \in Nat, 3 \in Nat
    <3> QED
      BY <3>2, <3>3
  <2>3. free \in SUBSET Models
    BY <1>0
  <2> HIDE DEF loaded, order, E, free
  <2>4. c0 \in Models
    <3>1. \A c \in E : loaded[c] \in [1..4 -> Int]
      BY <1>0, <2>2
    <3>2. Best(E, loaded) \in E
      BY <1>0, <3>1, BestIn, 4 \in Nat
    <3>3. free # {} => FinestByName(x, free) \in Models
      BY <2>3, CheapestIn
    <3> QED
      BY <1>0, <3>2, <3>3
  <2> HIDE DEF c0
  <2>5. \A c \in E : order[c] \in [1..4 -> Int]
    BY <1>0, <2>2
  <2>6. Usable(Decision(c0, Sorted(E \ {c0}, order)))
    BY <1>0, <2>4, <2>5, BehindUsable, 4 \in Nat
  <2> QED
    BY <2>1, <2>6
<1>2. Usable(ConcurrencyCap(x)) /\ Usable(TenantConcurrencyLease(x))
  <2> DEFINE load == [c \in Models |-> Load(x, c)]
             leased == [c \in Models |-> TenantLoad(x, c)]
  <2>1. \A c \in Models : load[c] \in Int /\ leased[c] \in Int
    BY <1>b
  <2>2. /\ ConcurrencyCap(x) = Capped(x, load, Settings.concurrency_cap)
        /\ TenantConcurrencyLease(x) = Capped(x, leased, Settings.lease)
    BY Zenon DEF ConcurrencyCap, TenantConcurrencyLease
  <2> HIDE DEF load, leased
  <2> QED
    BY <1>1, <2>1, <2>2
<1>3. /\ QueueDepthFairness(x) = Decision(first, Sorted(E \ {first}, queued))
      /\ TokenRpmCeiling(x) = Decision(least, Sorted(E \ {least}, ceiled))
  BY Zenon DEF QueueDepthFairness, TokenRpmCeiling
<1>4. ASSUME NEW c \in Models
      PROVE  /\ waiting[c] \in [1..4 -> Int] /\ short[c] \in [1..4 -> Int]
             /\ queued[c] \in [1..5 -> Int] /\ counted[c] \in [1..4 -> Int]
             /\ ceiled[c] \in [1..5 -> Int]
  <2>1. waiting[c] \in [1..4 -> Int] /\ short[c] \in [1..4 -> Int]
    BY <1>b
  <2>2. counted[c] \in [1..4 -> Int] /\ ceiled[c] \in [1..5 -> Int]
    <3> HIDE DEF projected, over
    <3> QED
      BY <1>a, <1>b
  <2>3. queued[c] \in [1..5 -> Int]
    <3> DEFINE b == <<Late(Load(x, c) >= Settings.queue_cap)>>
    <3>1. b \in [1..1 -> Int]
      BY <1>a
    <3>2. queued[c] = b \o waiting[c]
      OBVIOUS
    <3> HIDE DEF b, waiting, queued
    <3>3. b \o waiting[c] \in [1..(1 + 4) -> Int]
      BY <2>1, <3>1, Joined, 1 \in Nat, 4 \in Nat
    <3> QED
      BY <3>2, <3>3
  <2> QED
    BY <2>1, <2>2, <2>3
<1>5. idle \in SUBSET Models /\ under \in SUBSET Models
  BY <1>0
<1> HIDE DEF E, waiting, short, queued, idle, under, counted, ceiled
<1>6. \A P \in SUBSET Models : P # {} =>
        /\ Best(P, waiting) \in Models /\ Best(P, short) \in Models
        /\ Best(P, counted) \in Models /\ FinestByName(x, P) \in Models
  <2> SUFFICES ASSUME NEW P \in SUBSET Models, P # {}
               PROVE  /\ Best(P, waiting) \in P /\ Best(P, short) \in P
                      /\ Best(P, counted) \in P /\ FinestByName(x, P) \in P
    OBVIOUS
  <2>1. \A c \in P : c \in Models
    OBVIOUS
  <2> QED
    BY <1>4, <2>1, BestIn, FinestIn, 4 \in Nat
<1>7. first \in Models /\ least \in Models
  BY <1>0, <1>5, <1>6
<1> HIDE DEF first, least
<1>8. \A c \in E : queued[c] \in [1..5 -> Int] /\ ceiled[c] \in [1..5 -> Int]
  BY <1>0, <1>4
<1>9. /\ Usable(Decision(first, Sorted(E \ {first}, queued)))
      /\ Usable(Decision(least, Sorted(E \ {least}, ceiled)))
  BY <1>0, <1>7, <1>8, BehindUsable, 5 \in Nat
<1> QED
  BY <1>2, <1>3, <1>9

LEMMA AdaptiveUsable ==
    ASSUME NEW x, WellFormed(x)
    PROVE  Usable(AdaptiveConcurrencyCap(x))
<1> DEFINE E == Eligible(x)
           reference == Settings.latency_reference
           slow(c) == Latency(x, c) > reference
           load == [c \in Models |-> Load(x, c)]
           over == [c \in Models |-> Success(x, c) * (IF slow(c) THEN reference ELSE 1)]
           under == [c \in Models |-> IF slow(c) THEN Latency(x, c) ELSE 1]
           scaled(c) == (Settings.base_cap * over[c]) \div (100 * under[c])
           cap == [c \in Models |-> MostOf({Settings.min_cap, scaled(c)})]
           health(c) == Ratio(E, c, over, under)
           usage(c) == Ratio(E, c, load, cap)
           free == {c \in E : load[c] < cap[c]}
           rank(c) == <<-health(c), -Quality(c), Cost(x, c)>>
           last(c) == <<Name(c)>>
           freed == [c \in Models |-> Append(rank(c), -Name(c))]
           used == [c \in Models |-> <<usage(c)>> \o rank(c) \o last(c)]
           order == [c \in Models |-> <<Late(c \notin free)>> \o rank(c) \o last(c)]
           c0 == IF free # {} THEN Best(free, freed) ELSE Best(E, used)
<1>0. E \in SUBSET Models /\ E # {} /\ free \in SUBSET Models
  BY EligibleIs
<1>1. AdaptiveConcurrencyCap(x) = Decision(c0, Sorted(E \ {c0}, order))
  BY Zenon DEF AdaptiveConcurrencyCap
<1>2. ASSUME NEW c \in Models
      PROVE  /\ freed[c] \in [1..4 -> Int] /\ used[c] \in [1..5 -> Int]
             /\ order[c] \in [1..5 -> Int]
  <2>1. Quality(c) \in Int /\ Cost(x, c) \in Int /\ Name(c) \in Int /\ Late(c \notin free) \in Int
    BY CandidateIs DEF Late
  <2>2. health(c) \in Nat /\ usage(c) \in Nat
    <3> HIDE DEF E, over, under, load, cap
    <3> QED
      BY <1>0, RatioIs
  <2> DEFINE r == rank(c)
             l == last(c)
             u == <<usage(c)>>
             f == <<Late(c \notin free)>>
  <2> HIDE DEF health, usage, free
  <2>3. /\ r \in [1..3 -> Int] /\ l \in [1..1 -> Int] /\ u \in [1..1 -> Int]
        /\ f \in [1..1 -> Int]
    BY <2>1, <2>2
  <2>4. /\ used[c] = u \o r \o l /\ order[c] = f \o r \o l
        /\ freed[c] = Append(r, -Name(c))
    BY DEF used, order, freed
  <2> HIDE DEF r, l, u, f, used, order, freed
  <2>6. /\ u \o r \in [1..4 -> Int] /\ f \o r \in [1..4 -> Int]
    <3>1. u \o r \in [1..(1 + 3) -> Int] /\ f \o r \in [1..(1 + 3) -> Int]
      BY <2>3, Joined, 1 \in Nat, 3 \in Nat
    <3> QED
      BY <3>1
  <2>7. /\ u \o r \o l \in [1..5 -> Int] /\ f \o r \o l \in [1..5 -> Int]
    <3> DEFINE a == u \o r
               b == f \o r
    <3> HIDE DEF a, b
    <3>1. a \o l \in [1..(4 + 1) -> Int] /\ b \o l \in [1..(4 + 1) -> Int]
      BY <2>3, <2>6, Joined, 1 \in Nat, 4 \in Nat DEF a, b
    <3> QED
      BY <3>1 DEF a, b
  <2>8. Append(r, -Name(c)) \in [1..4 -> Int]
    <3> DEFINE v == -Name(c)
    <3>1. v \in Int
      BY <2>1
    <3> HIDE DEF v
    <3>2. Append(r, v) \in [1..(3 + 1) -> Int]
      BY <2>3, <3>1, Appended, 3 \in Nat
    <3> QED
      BY <3>2 DEF v
  <2> QED
    BY <2>4, <2>7, <2>8
<1> HIDE DEF E, free, freed, used, order
<1>3. c0 \in Models
  <2>1. \A P \in SUBSET Models : \A c \in P : freed[c] \in [1..4 -> Int] /\ used[c] \in [1..5 -> Int]
    BY <1>2
  <2>2. (free # {} => Best(free, freed) \in free) /\ Best(E, used) \in E
    BY <1>0, <2>1, BestIn, 4 \in Nat, 5 \in Nat
  <2> QED
    BY <1>0, <2>2
<1> HIDE DEF c0
<1>4. \A c \in E : order[c] \in [1..5 -> Int]
  BY <1>0, <1>2
<1>5. Usable(Decision(c0, Sorted(E \ {c0}, order)))
  BY <1>0, <1>3, <1>4, BehindUsable, 5 \in Nat
<1> QED
  BY <1>1, <1>5

\* A number below k * m has a quotient by m that is below k.
LEMMA Quotient ==
    ASSUME NEW k \in Nat \ {0}, NEW m \in Nat \ {0}, NEW h \in Nat
    PROVE  (h % (k * m)) \div m \in 0..(k - 1)
<1> DEFINE n == k * m
           r == h % n
           d == r \div m
<1>1. n \in Nat \ {0}
  BY Z3
<1>2. r \in 0..(n - 1)
  <2> HIDE DEF n
  <2> QED
    BY <1>1
<1>3. d \in Nat /\ m * d <= r
  <2> HIDE DEF r
  <2>1. r \in Nat
    BY <1>1, <1>2
  <2>2. d \in Int /\ m * d <= r /\ r < m * d + m
    BY <2>1
  <2>3. d >= 0
    <3> SUFFICES ASSUME d < 0 PROVE FALSE
      BY <2>2
    <3> HIDE DEF d
    <3>1. m * d + m <= 0
      BY Z3, <2>2
    <3> QED
      BY <2>1, <2>2, <3>1
  <2> QED
    BY <2>2, <2>3
<1>4. m * d < k * m
  BY <1>1, <1>2, <1>3
<1> HIDE DEF d, r, n
<1>5. d < k
  <2> SUFFICES ASSUME d >= k PROVE FALSE
    BY <1>3
  <2> DEFINE e == d - k
  <2>1. e \in Nat /\ d = k + e
    BY <1>3
  <2> HIDE DEF e
  <2>2. m * d = k * m + m * e /\ m * e \in Nat /\ k * m \in Nat
    BY Z3, <2>1
  <2> DEFINE a == k * m
             b == m * e
  <2>3. m * d = a + b /\ a \in Nat /\ b \in Nat /\ m * d < a
    BY <1>4, <2>2
  <2> HIDE DEF a, b
  <2> QED
    BY <2>3
<1> QED
  BY <1>3, <1>5 DEF d, r, n

LEMMA ValuesOf ==
    ASSUME NEW pool \in SUBSET Models, pool # {}, NEW value, \A c \in pool : value[c] \in Int
    PROVE  MostOf({value[c] : c \in pool}) \in Int
           /\ \E c \in pool : value[c] = MostOf({value[d] : d \in pool})
<1> DEFINE values == {value[c] : c \in pool}
           f == [c \in pool |-> value[c]]
<1>1. values \in SUBSET Int /\ values # {} /\ f \in Surjection(pool, values)
  BY DEF Surjection
<1>2. IsFiniteSet(values)
  <2> HIDE DEF f, values
  <2> QED
    BY <1>1, ModelsAre, FS_Surjection
<1>3. MostOf(values) \in values
  <2> HIDE DEF f, values
  <2> QED
    BY <1>1, <1>2, LeastAndMost
<1> QED
  BY <1>1, <1>3

LEMMA ShareUsable ==
    ASSUME NEW x, WellFormed(x)
    PROVE  Usable(ProviderTokenFairShare(x))
<1> DEFINE E == Eligible(x)
           used(c) == Tokens(x, c)
           left(c) == MostOf({0, Settings.fair_share - used(c) - x.prompt})
           most == MostOf({left(c) : c \in E})
           best == {d \in E : left(d) = most}
           tied == {Provider(c) : c \in best}
           of(providers) == {c \in E : Provider(c) \in providers}
           bucket == (x.hash % (Cardinality(tied) * most)) \div most
           finest == [c \in Models |-> <<-Quality(c), Provider(c)>>]
           ordered == Sorted(tied, [p \in Providers |-> <<p>>])
           provider == IF (\A c \in E : used(c) = 0) \/ Cardinality(tied) = 1
                       THEN Provider(Best(of(tied), finest)) ELSE ordered[1 + bucket]
           worn == [c \in Models |-> <<used(c), -Quality(c), Cost(x, c), Name(c)>>]
           order == [c \in Models |-> <<-left(c), used(c), -Quality(c), Cost(x, c), Name(c)>>]
           c0 == IF most > 0 THEN FinestByName(x, of({provider})) ELSE Best(E, worn)
<1>1. ProviderTokenFairShare(x) = Decision(c0, Sorted(E \ {c0}, order))
  BY Zenon DEF ProviderTokenFairShare
<1>2. E \in SUBSET Models /\ E # {}
  BY EligibleIs
<1>3. ASSUME NEW c \in Models PROVE used(c) \in Int /\ left(c) \in Int
  <2>1. x.tokens \in [Providers -> Int] /\ Provider(c) \in Providers /\ x.prompt \in Int
    BY CandidateIs DEF WellFormed, Measures
  <2>2. used(c) \in Int
    BY <2>1 DEF Tokens
  <2>3. Settings.fair_share \in Int
    <3>1. {Settings.fair_share} \subseteq Nat
      BY Zenon, SettingsAssumption DEF SettingsAssumption
    <3> QED
      BY <3>1
  <2> DEFINE rest == Settings.fair_share - used(c) - x.prompt
             both == {0, rest}
  <2>4. rest \in Int
    BY <2>1, <2>2, <2>3
  <2> HIDE DEF rest, used
  <2>5. both \in SUBSET Int /\ both # {} /\ IsFiniteSet(both)
    <3>1. IsFiniteSet({0}) /\ both = {0} \cup {rest}
      BY FS_Singleton
    <3> QED
      BY <2>4, <3>1, FS_AddElement
  <2>6. left(c) = MostOf(both)
    BY DEF rest
  <2> HIDE DEF both, left
  <2>7. MostOf(both) \in both
    BY <2>5, LeastAndMost
  <2> QED
    BY <2>2, <2>5, <2>6, <2>7
<1> HIDE DEF used, left, E
<1>4. most \in Int /\ \E c \in E : left(c) = most
  <2> DEFINE value == [c \in E |-> left(c)]
             values == {value[c] : c \in E}
  <2>1. \A c \in E : value[c] \in Int /\ value[c] = left(c)
    BY <1>2, <1>3
  <2>2. values = {left(c) : c \in E}
    BY <2>1
  <2> HIDE DEF value
  <2>3. MostOf(values) \in Int /\ \E c \in E : value[c] = MostOf(values)
    BY <1>2, <2>1, ValuesOf
  <2> QED
    BY <2>1, <2>2, <2>3
<1> HIDE DEF most
<1>5. best \in SUBSET Models /\ best # {} /\ best \subseteq E
  BY <1>2, <1>4
<1>6. /\ tied # {} /\ Cardinality(tied) \in Nat \ {0}
      /\ ordered \in Seq(tied) /\ Len(ordered) = Cardinality(tied)
  <2> HIDE DEF best
  <2> QED
    BY <1>5, ProvidersOf
<1>7. \A p \in tied : \E c \in E : Provider(c) = p
  BY <1>5
<1> HIDE DEF tied, ordered, best
<1>8. most > 0 => provider \in tied
  <2> SUFFICES ASSUME most > 0 PROVE provider \in tied
    OBVIOUS
  <2>1. bucket \in 0..(Cardinality(tied) - 1)
    <3>1. most \in Nat \ {0} /\ x.hash \in Nat
      BY <1>4 DEF WellFormed
    <3> QED
      BY <1>6, <3>1, Quotient
  <2> HIDE DEF bucket
  <2>2. ordered[1 + bucket] \in tied
    BY <1>6, <2>1
  <2>3. of(tied) \in SUBSET Models /\ of(tied) # {}
    BY <1>2, <1>6, <1>7
  <2>4. \A c \in of(tied) : finest[c] \in [1..2 -> Int]
    <3>1. \A c \in Models : Quality(c) \in Int /\ Provider(c) \in Int
      BY CatalogAssumption DEF CatalogAssumption
    <3> QED
      BY <1>2, <3>1
  <2>5. Best(of(tied), finest) \in of(tied)
    <3> HIDE DEF finest, of
    <3> QED
      BY <2>3, <2>4, BestIn, 2 \in Nat
  <2> HIDE DEF finest
  <2> QED
    BY <2>2, <2>5
<1>9. \A c \in Models : worn[c] \in [1..4 -> Int] /\ order[c] \in [1..5 -> Int]
  <2>1. \A c \in Models : Quality(c) \in Int /\ Cost(x, c) \in Int /\ Name(c) \in Int
    BY CandidateIs
  <2> QED
    BY <1>3, <2>1
<1> HIDE DEF provider, worn, order
<1>10. c0 \in Models
  <2>1. Best(E, worn) \in Models
    <3>1. \A c \in E : worn[c] \in [1..4 -> Int]
      BY <1>2, <1>9
    <3> QED
      BY <1>2, <3>1, BestIn, 4 \in Nat
  <2>2. ASSUME most > 0 PROVE FinestByName(x, of({provider})) \in Models
    <3>1. of({provider}) \in SUBSET Models /\ of({provider}) # {}
      BY <1>2, <1>7, <1>8, <2>2
    <3> HIDE DEF of
    <3> QED
      BY <3>1, CheapestIn
  <2> HIDE DEF of
  <2> QED
    BY <2>1, <2>2
<1> HIDE DEF c0
<1>11. Usable(Decision(c0, Sorted(E \ {c0}, order)))
  <2>1. \A c \in E : order[c] \in [1..5 -> Int]
    BY <1>2, <1>9
  <2> QED
    BY <1>2, <1>10, <2>1, BehindUsable, 5 \in Nat
<1> QED
  BY <1>1, <1>11

-----------------------------------------------------------------------------
(* The specification *)

LEMMA ChooseIs ==
    ASSUME NEW x
    PROVE  /\ Choose("TenantSoftIsolation", x) = TenantSoftIsolation(x)
           /\ Choose("PromptInjectionRiskShed", x) = PromptInjectionRiskShed(x)
           /\ Choose("ReliabilityAware", x) = ReliabilityAware(x)
           /\ Choose("CanaryShadowSplit", x) = CanaryShadowSplit(x)
           /\ Choose("ModelCapabilityGate", x) = ModelCapabilityGate(x)
           /\ Choose("LongContextPrefer", x) = LongContextPrefer(x)
           /\ Choose("ProviderWarmupWeight", x) = ProviderWarmupWeight(x)
           /\ Choose("RetryBudgetAwareFailover", x) = RetryBudgetAwareFailover(x)
           /\ Choose("DeadlineAwarePick", x) = DeadlineAwarePick(x)
           /\ Choose("ProviderSuccessFloor", x) = ProviderSuccessFloor(x)
           /\ Choose("ProviderErrorBudgetShed", x) = ProviderErrorBudgetShed(x)
           /\ Choose("ProviderErrorBudgetReset", x) = ProviderErrorBudgetReset(x)
           /\ Choose("ProviderTailLatencyHedge", x) = ProviderTailLatencyHedge(x)
           /\ Choose("RequestClassQos", x) = RequestClassQos(x)
           /\ Choose("CanaryCostBlend", x) = CanaryCostBlend(x)
           /\ Choose("SoftRateLimit", x) = SoftRateLimit(x)
           /\ Choose("ProviderHealthScoreBlend", x) = ProviderHealthScoreBlend(x)
           /\ Choose("SemanticCacheTtlAffinity", x) = SemanticCacheTtlAffinity(x)
           /\ Choose("ProviderSpendTelemetry", x) = ProviderSpendTelemetry(x)
           /\ Choose("CarbonAwarePreference", x) = CarbonAwarePreference(x)
           /\ Choose("RetryAfterRespect", x) = RetryAfterRespect(x)
           /\ Choose("CircuitBreakerHalfOpenProbe", x) = CircuitBreakerHalfOpenProbe(x)
           /\ Choose("FailoverPriority", x) = FailoverPriority(x)
           /\ Choose("StickyTenantHash", x) = StickyTenantHash(x)
           /\ Choose("CacheHitStickyWarmPool", x) = CacheHitStickyWarmPool(x)
           /\ Choose("EmbeddingCacheKeyNamespace", x) = EmbeddingCacheKeyNamespace(x)
           /\ Choose("StickyCanaryCost", x) = StickyCanaryCost(x)
           /\ Choose("StickyRegionFailover", x) = StickyRegionFailover(x)
  BY DEF Choose

\* Every strategy decides so.
LEMMA ChosenUsable ==
    ASSUME NEW x, WellFormed(x), NEW s \in Known,
           s = "FailoverPriority"
           => \A i, j \in DOMAIN Settings.priority :
                    i # j => Settings.priority[i] # Settings.priority[j]
    PROVE  Usable(Choose(s, x))
<1>1. s \in {"StickyTenantHash", "CacheHitStickyWarmPool", "EmbeddingCacheKeyNamespace",
             "StickyCanaryCost", "StickyRegionFailover", "CircuitBreakerHalfOpenProbe",
             "RetryBudgetAwareFailover", "CanaryCostBlend", "ProviderTailLatencyHedge",
             "SemanticCacheTtlAffinity", "ProviderSpendTelemetry", "CarbonAwarePreference"}
      => Usable(Choose(s, x))
  BY AgainUsable DEF Choose
<1>2. s \in {"RuleBased", "Classifier", "ABRouting", "BudgetAware", "ProviderFamilyCostCeiling",
             "ComplexityTier", "PromptLengthTierShed", "ShadowTrafficMirror", "GeoRegion",
             "RegionTierAffinity", "SoftFamilyBudget", "TokenCostAnomalyShed",
             "ProviderHourlyCostCeiling"}
      => Usable(Choose(s, x))
  BY PlainUsable DEF Choose
<1>3. s \in {"LatencyAware", "LatencyBudget", "LatencySloShed", "MultiRegionLatencyHedge",
             "RegionLatencyP99Shed", "SloAware", "CostOptimal"}
      => Usable(Choose(s, x))
  BY QuickUsable DEF Choose
<1>4. s \in {"Value", "CostLatencyPareto", "AdaptiveTimeout", "AdaptiveTimeoutHedge",
             "LatencySlopeShed"}
      => Usable(Choose(s, x))
  BY ComparedUsable DEF Choose
<1>5. s \in {"StickySession", "RoundRobin", "EpsilonGreedy", "AdaptiveExploration",
             "PromptPrefixCache", "SemanticCache", "WeightedBlend"}
      => Usable(Choose(s, x))
  BY HashedUsable DEF Choose
<1>6. s \in {"QualityWeightedSticky", "Canary", "CanaryTierBlend", "RegionCarbonBlend",
             "CarbonLatencyBlend", "CanaryShadowSplit", "ProviderHealthScoreBlend"}
      => Usable(Choose(s, x))
  BY WeightedUsable, CanaryUsable, CarbonUsable, SplitUsable DEF Choose
<1>7. s \in {"Cascade", "TokenBudget", "LeastBusy", "HealthCostLatency", "SoftRateLimit"}
      => Usable(Choose(s, x))
  BY FirstsUsable DEF Choose
<1>8. s \in {"ProviderExclusion", "ProviderWeightDecay", "ProviderWarmupWeight",
             "ModelCapabilityGate", "LongContextPrefer"}
      => Usable(Choose(s, x))
  BY RanksUsable DEF Choose
<1>9. s \in {"ReliabilityAware", "ProviderSuccessFloor", "ProviderErrorBudgetShed",
             "ProviderErrorBudgetReset", "RetryAfterRespect", "DeadlineAwarePick",
             "RequestClassQos"}
      => Usable(Choose(s, x))
  BY HealthyUsable, QosUsable DEF Choose
<1>10. s \in {"ConcurrencyCap", "TenantConcurrencyLease", "QueueDepthFairness", "TokenRpmCeiling",
              "AdaptiveConcurrencyCap", "ProviderTokenFairShare"}
      => Usable(Choose(s, x))
  BY CapUsable, AdaptiveUsable, ShareUsable DEF Choose
<1>11. s \in {"TenantSoftIsolation", "PromptInjectionRiskShed"} => Usable(Choose(s, x))
  BY FirstsUsable, RanksUsable DEF Choose, TenantSoftIsolation, PromptInjectionRiskShed
<1>12. s = "FailoverPriority" => Usable(Choose(s, x))
  BY PriorityUsable DEF Choose
<1>13. s \in Prefers \cup {"ThinkingModelPrefer"} => Usable(Choose(s, x))
  <2> SUFFICES ASSUME s \in Prefers \cup {"ThinkingModelPrefer"} PROVE Usable(Choose(s, x))
    OBVIOUS
  <2>1. PICK wanted, capable : Choose(s, x) = PreferIf(x, wanted, capable)
    <3>1. SameWish(x, x)
      BY DEF SameWish
    <3>2. IsPreference(x, Choose(s, x), x, Choose(s, x))
      BY <3>1, PrefersAre
    <3> QED
      BY Zenon, <3>2 DEF IsPreference
  <2>2. \A w, c : Usable(PreferIf(x, w, c))
    BY RanksUsable
  <2> QED
    BY Zenon, <2>1, <2>2
<1> QED
  BY <1>1, <1>2, <1>3, <1>4, <1>5, <1>6, <1>7, <1>8, <1>9, <1>10, <1>11, <1>12, <1>13 DEF Known

\* What any of them chooses is a last resort when it is behind an open circuit.
LEMMA ChooseLastResort ==
    ASSUME NEW x, WellFormed(x), NEW s \in HealthFirst
    PROVE  LastResort(x, Choose(s, x).chosen)
<1>1. CASE s \in Prefers \cup {"ThinkingModelPrefer"}
  BY Zenon, <1>1, ActiveIs, PrefersActive
<1>2. CASE s \in {"TenantSoftIsolation", "PromptInjectionRiskShed", "ReliabilityAware",
                  "CanaryShadowSplit", "ModelCapabilityGate", "LongContextPrefer"}
  BY <1>2, ChooseIs, ActiveIs, PlainActive, RankedActive, MeasuredActive, PlacedActive,
     BlendedActive
<1>3. CASE s \in {"ProviderWarmupWeight", "RetryBudgetAwareFailover", "DeadlineAwarePick",
                  "ProviderSuccessFloor", "ProviderErrorBudgetShed", "ProviderErrorBudgetReset"}
  BY <1>3, ChooseIs, ActiveIs, PlainActive, RankedActive, MeasuredActive, PlacedActive,
     BlendedActive
<1>4. CASE s \in {"ProviderTailLatencyHedge", "RequestClassQos", "CanaryCostBlend",
                  "SoftRateLimit", "ProviderHealthScoreBlend"}
  BY <1>4, ChooseIs, ActiveIs, PlainActive, RankedActive, MeasuredActive, PlacedActive,
     BlendedActive
<1>5. CASE s \in {"SemanticCacheTtlAffinity", "ProviderSpendTelemetry", "CarbonAwarePreference"}
  BY <1>5, ChooseIs, ReachableIs, CachedReachable
<1>6. CASE s \in {"RetryAfterRespect", "CircuitBreakerHalfOpenProbe", "FailoverPriority",
                  "StickyTenantHash", "CacheHitStickyWarmPool", "EmbeddingCacheKeyNamespace"}
  BY <1>6, ChooseIs, CircuitsFirst, HashedLastResort
<1>7. CASE s \in {"StickyCanaryCost", "StickyRegionFailover"}
  BY <1>7, ChooseIs, CircuitsFirst, HashedLastResort
<1> QED
  BY <1>1, <1>2, <1>3, <1>4, <1>5, <1>6, <1>7 DEF HealthFirst, Ranking, AnyPrice

\* The decision is always that of the strategy for the question as it is now.
Fresh ==
    /\ strategy \in Strategies
    /\ WellFormed(q)
    /\ decision = Choose(strategy, q)

LEMMA FreshInit == Init => Fresh
  BY Zenon, QuestionsAssumption DEF QuestionsAssumption, Init, Fresh

LEMMA FreshStep == Fresh /\ [Next]_vars => Fresh'
<1> SUFFICES ASSUME Fresh, [Next]_vars PROVE Fresh'
  OBVIOUS
<1>1. CASE UNCHANGED vars
  BY Zenon, <1>1 DEF Fresh, vars
<1>2. CASE Next
  <2>1. strategy' \in Strategies
    BY Zenon, <1>2 DEF Next, Ask, Fresh
  <2>2. decision' = Choose(strategy', q')
    BY Zenon, <1>2 DEF Next, Ask
  <2>3. WellFormed(q')
    <3> PICK p \in Providers : Trip(p) \/ Recover(p) \/ Close(p) \/ Improve(p)
      BY <1>2 DEF Next
    <3>0. WellFormed(q)
      BY DEF Fresh
    <3>1. ASSUME Trip(p) PROVE WellFormed(q')
      BY <3>0, <3>1 DEF Trip, WellFormed, Fields, Measures
    <3>2. ASSUME Recover(p) PROVE WellFormed(q')
      BY <3>0, <3>2 DEF Recover, WellFormed, Fields, Measures
    <3>3. ASSUME Close(p) PROVE WellFormed(q')
      BY <3>0, <3>3 DEF Close, WellFormed, Fields, Measures
    <3>4. ASSUME Improve(p) PROVE WellFormed(q')
      <4>1. PICK f \in Measures, v \in Int :
                /\ q' = [q EXCEPT ![f][p] = v]
                /\ f \in {"latency", "cooldown"} => v \in Nat
        <5>1. /\ DOMAIN Levels \subseteq Measures
              /\ \A f \in DOMAIN Levels :
                    Levels[f] \subseteq IF f = "latency" THEN Nat \ {0}
                                        ELSE IF f = "cooldown" THEN Nat ELSE Int
          BY Zenon, QuestionsAssumption DEF QuestionsAssumption
        <5>2. PICK f \in DOMAIN Levels : \E u \in Levels[f] : q' = [q EXCEPT ![f][p] = u]
          BY <3>4 DEF Improve
        <5>3. PICK v \in Levels[f] : q' = [q EXCEPT ![f][p] = v]
          BY <5>2
        <5>4. v \in Int /\ (f \in {"latency", "cooldown"} => v \in Nat)
          BY <5>1, <5>2, <5>3
        <5> QED
          BY <5>1, <5>2, <5>3, <5>4
      <4>2. /\ DOMAIN q' = DOMAIN q
            /\ q'[f] = [q[f] EXCEPT ![p] = v]
            /\ \A g \in DOMAIN q \ {f} : q'[g] = q[g]
        BY <3>0, <4>1 DEF WellFormed, Fields
      <4>3. q'[f] \in [Providers -> Int]
        BY <3>0, <4>1, <4>2 DEF WellFormed, Fields
      <4>4. \A r \in Providers : q'.latency[r] \in Nat /\ q'.cooldown[r] \in Nat
        BY <3>0, <4>1, <4>2 DEF WellFormed, Measures
      <4> QED
        BY <3>0, <4>2, <4>3, <4>4 DEF WellFormed, Fields, Measures
    <3> QED
      BY <3>1, <3>2, <3>3, <3>4
  <2> QED
    BY <2>1, <2>2, <2>3 DEF Fresh
<1> QED
  BY <1>1, <1>2

LEMMA FreshLastResort == Fresh => OpenCircuitIsLastResort
<1> SUFFICES ASSUME Fresh, strategy \in HealthFirst PROVE LastResort(q, decision.chosen)
  BY DEF OpenCircuitIsLastResort, LastResort, Chosen
<1> QED
  BY ChooseLastResort DEF Fresh

\* Strategies that look at the circuits (healthy or eligible, _is_healthy) never send
\* a request to a provider behind an open circuit while a model that serves it is up,
\* whatever the catalog, the settings, the request and the measurements.
THEOREM CircuitsRespected == Spec => []OpenCircuitIsLastResort
  BY FreshInit, FreshStep, FreshLastResort, PTL DEF Spec

\* FailoverPriority.choose builds the chain from the list as it is: a model that is
\* named twice could come behind itself.  Where no one asks for it, any list will do.
NamedOnce ==
    "FailoverPriority" \in Strategies
    => \A i, j \in DOMAIN Settings.priority :
            i # j => Settings.priority[i] # Settings.priority[j]

LEMMA FreshTyped == Fresh /\ NamedOnce => TypeOK
<1> SUFFICES ASSUME Fresh, NamedOnce PROVE TypeOK
  OBVIOUS
<1>1. strategy \in Known
  BY Zenon, QuestionsAssumption DEF QuestionsAssumption, Fresh
<1>2. Usable(Choose(strategy, q))
  BY Zenon, <1>1, ChosenUsable DEF Fresh, NamedOnce
<1> QED
  BY Zenon, <1>2 DEF Fresh, TypeOK, Usable, Chosen

\* All 109 strategies give the engine what it takes for granted: a model of the catalog,
\* and no more than three others behind it, each of them once.
THEOREM WellDecided == ASSUME NamedOnce PROVE Spec => []TypeOK
<1>1. Fresh => TypeOK
  BY Zenon, FreshTyped
<1> QED
  BY <1>1, FreshInit, FreshStep, PTL DEF Spec
-----------------------------------------------------------------------------
(* Where a request fails over to *)

\* The first of a pool in the order of a key.
Heads(d, pool, key) == d \in pool /\ \A e \in pool \ {d} : Earlier(d, e, key)

LEMMA BestHeads ==
    ASSUME NEW pool \in SUBSET Models, pool # {}, NEW n \in Nat, NEW key,
           \A c \in pool : key[c] \in [1..n -> Int]
    PROVE  Heads(Best(pool, key), pool, key)
<1>1. Comparable(pool, key)
  BY DEF Comparable
<1> QED
  BY <1>1, ModelsAre, BestIsFirst DEF Heads

\* What a chain of fallbacks has first among those that are up is the first of them.
NextOf(x, decided) == decided.chain[LeastOf(Alive(x, decided.chain))]

\* The first of a list that is up.
FirstUp(d, x, s) ==
    \E i \in DOMAIN s : s[i] = d /\ Up(x, d) /\ \A j \in 1..(i - 1) : ~Up(x, s[j])

LEMMA NextIs ==
    ASSUME NEW s \in Seq(Models), NEW c, NEW x, Alive(x, Decision(c, s).chain) # {}
    PROVE  FirstUp(NextOf(x, Decision(c, s)), x, s)
<1> DEFINE chain == Decision(c, s).chain
           alive == Alive(x, chain)
           first == LeastOf(alive)
<1>1. chain = UpTo3(s)
  BY DEF Decision
<1>2. Len(s) \in Nat /\ DOMAIN s = 1..Len(s)
  OBVIOUS
<1>3. \E m \in 0..3 : m <= Len(s) /\ DOMAIN chain = 1..m /\ \A i \in 1..m : chain[i] = s[i]
  BY <1>1, <1>2 DEF UpTo3
<1>4. PICK m \in 0..3 : m <= Len(s) /\ DOMAIN chain = 1..m /\ \A i \in 1..m : chain[i] = s[i]
  BY <1>3
<1> HIDE DEF chain
<1>5. alive = {i \in 1..m : Up(x, s[i])}
  BY <1>4 DEF Alive
<1>6. alive \in SUBSET Nat /\ alive # {}
  BY <1>5 DEF chain
<1> HIDE DEF alive
<1>7. first \in alive /\ \A i \in alive : first <= i
  BY <1>6, LeastIs
<1> HIDE DEF first
<1>8. /\ first \in DOMAIN s /\ Up(x, s[first]) /\ chain[first] = s[first]
      /\ \A i \in 1..(first - 1) : ~Up(x, s[i])
  BY <1>2, <1>4, <1>5, <1>7
<1>9. NextOf(x, Decision(c, s)) = s[first]
  BY <1>8 DEF NextOf, chain, alive, first
<1> QED
  BY <1>8, <1>9 DEF FirstUp

LEMMA OrderHeads ==
    ASSUME NEW pool \in SUBSET Models, NEW n \in Nat, NEW key,
           \A c \in pool : key[c] \in [1..n -> Int],
           NEW x, NEW d, FirstUp(d, x, Sorted(pool, key))
    PROVE  Heads(d, Closed(x, pool), key)
<1> DEFINE s == Sorted(pool, key)
           size == Cardinality(pool)
<1>1. Comparable(pool, key) /\ pool \in SUBSET Nat /\ IsFiniteSet(pool)
  BY ModelsAre DEF Comparable
<1>2. /\ size \in Nat /\ s \in Seq(pool) /\ DOMAIN s = 1..size
      /\ \A e \in pool : \E i \in 1..size : s[i] = e
  BY <1>1, SortedIsPermutation
<1>3. \A i, j \in 1..size : i < j => Earlier(s[i], s[j], key)
  BY <1>1, SortedIsOrdered
<1> HIDE DEF s, size
<1>4. PICK i \in DOMAIN s : s[i] = d /\ Up(x, d) /\ \A j \in 1..(i - 1) : ~Up(x, s[j])
  BY DEF FirstUp, s
<1>5. d \in Closed(x, pool)
  BY <1>2, <1>4 DEF Closed
<1>6. ASSUME NEW e \in Closed(x, pool) \ {d} PROVE Earlier(d, e, key)
  <2>1. PICK j \in 1..size : s[j] = e
    BY <1>2 DEF Closed
  <2>2. Up(x, e) /\ j # i
    BY <1>4, <2>1 DEF Closed
  <2>3. i < j
    BY <1>2, <1>4, <2>1, <2>2
  <2> QED
    BY <1>2, <1>3, <1>4, <2>1, <2>3
<1> QED
  BY <1>5, <1>6 DEF Heads

LEMMA ChainHeads ==
    ASSUME NEW pool \in SUBSET Models, NEW n \in Nat, NEW key,
           \A c \in pool : key[c] \in [1..n -> Int],
           NEW c, NEW x, Alive(x, Decision(c, Sorted(pool, key)).chain) # {}
    PROVE  Heads(NextOf(x, Decision(c, Sorted(pool, key))), Closed(x, pool), key)
<1>1. Sorted(pool, key) \in Seq(Models)
  <2>1. Sorted(pool, key) \in Seq(pool)
    BY OrderIs
  <2> QED
    BY <2>1
<1>2. FirstUp(NextOf(x, Decision(c, Sorted(pool, key))), x, Sorted(pool, key))
  BY Zenon, <1>1, NextIs
<1> QED
  BY <1>2, OrderHeads

\* Keys of m and n numbers, of which the first r are the same.
Alike(pool, k, m, l, n, r) ==
    \A c \in pool : /\ k[c] \in [1..m -> Int] /\ l[c] \in [1..n -> Int]
                    /\ \A i \in 1..r : k[c][i] = l[c][i]

\* What the first r numbers of a key do not tell apart.
Level(k, c, d, r) == \A i \in 1..r : k[c][i] = k[d][i]

\* The first in the orders of two such keys have these r in common.
LEMMA HeadsAgree ==
    ASSUME NEW pool \in SUBSET Models, NEW m \in Nat, NEW n \in Nat, NEW r \in Nat,
           r <= m, r <= n, NEW k, NEW l, Alike(pool, k, m, l, n, r),
           NEW c, NEW d, Heads(c, pool, k), Heads(d, pool, l)
    PROVE  Level(k, c, d, r)
<1>1. CASE c = d
  BY <1>1 DEF Level
<1>2. CASE c # d
  <2>1. c \in pool /\ d \in pool /\ Earlier(c, d, k) /\ Earlier(d, c, l)
    BY <1>2 DEF Heads
  <2> DEFINE kc == k[c]
             kd == k[d]
             lc == l[c]
             ld == l[d]
  <2>2. /\ kc \in [1..m -> Int] /\ kd \in [1..m -> Int]
        /\ lc \in [1..n -> Int] /\ ld \in [1..n -> Int]
        /\ \A i \in 1..r : kc[i] = lc[i] /\ kd[i] = ld[i]
    BY <2>1 DEF Alike
  <2>3. Before(kc, kd) \/ kc = kd
    BY <2>1 DEF Earlier
  <2>4. Before(ld, lc) \/ ld = lc
    BY <2>1 DEF Earlier
  <2> HIDE DEF kc, kd, lc, ld
  <2>5. CASE kc = kd
    BY <2>5 DEF kc, kd, Level
  <2>6. CASE Before(kc, kd)
    <3>1. PICK i \in 1..m : kc[i] < kd[i] /\ \A j \in 1..(i - 1) : kc[j] = kd[j]
      BY <2>2, <2>6 DEF Before
    <3>2. CASE r < i
      <4>1. \A j \in 1..r : kc[j] = kd[j]
        BY <3>1, <3>2
      <4> QED
        BY <4>1 DEF kc, kd, Level
    <3>3. CASE i <= r
      <4>1. lc[i] < ld[i] /\ \A j \in 1..(i - 1) : lc[j] = ld[j]
        BY <2>2, <3>1, <3>3
      <4>2. PICK h \in 1..n : ld[h] < lc[h] /\ \A j \in 1..(h - 1) : ld[j] = lc[j]
        <5>1. ld # lc
          BY <2>2, <3>3, <4>1
        <5> QED
          BY <2>2, <2>4, <5>1 DEF Before
      <4>3. CASE h < i
        BY <2>2, <4>1, <4>2, <4>3
      <4>4. CASE h = i
        BY <2>2, <4>1, <4>2, <4>4
      <4>5. CASE i < h
        BY <2>2, <4>1, <4>2, <4>5
      <4> QED
        BY <4>3, <4>4, <4>5
    <3> QED
      BY <3>2, <3>3
  <2> QED
    BY <2>3, <2>5, <2>6
<1> QED
  BY <1>1, <1>2

\* A question as it is once the circuit of one more provider is open.
Tripped(x, y, p) ==
    /\ WellFormed(x) /\ WellFormed(y)
    /\ \A f \in Fields \ {"open", "half_open"} : y[f] = x[f]
    /\ p \notin x.open /\ y.open = x.open \cup {p}

LEMMA TrippedIs ==
    ASSUME NEW x, NEW y, NEW p, Tripped(x, y, p)
    PROVE  /\ Eligible(y) = Eligible(x)
           /\ \A c : Cost(y, c) = Cost(x, c) /\ Latency(y, c) = Latency(x, c)
                     /\ Success(y, c) = Success(x, c)
           /\ \A c : Up(y, c) <=> Up(x, c) /\ Provider(c) # p
<1>1. /\ y.domain = x.domain /\ y.prompt = x.prompt /\ y.max_tokens = x.max_tokens
      /\ y.latency = x.latency /\ y.success = x.success
  BY DEF Tripped, Fields, Measures
<1>2. Serving(y) = Serving(x)
  BY <1>1 DEF Serving
<1>3. Eligible(y) = Eligible(x)
  BY <1>2 DEF Eligible
<1>4. \A c : Cost(y, c) = Cost(x, c)
  BY <1>1 DEF Cost
<1>5. \A c : Latency(y, c) = Latency(x, c) /\ Success(y, c) = Success(x, c)
  BY <1>1 DEF Latency, Success
<1>6. \A c : Up(y, c) <=> Up(x, c) /\ Provider(c) # p
  BY DEF Tripped, Up
<1> QED
  BY <1>3, <1>4, <1>5, <1>6

\* While a model of the provider was chosen for being up, and another is left.
LEMMA ActiveFollows ==
    ASSUME NEW x, NEW y, NEW p, Tripped(x, y, p),
           NEW c \in Active(x), Provider(c) = p
    PROVE  /\ Active(x) = Closed(x, Eligible(x))
           /\ \A d \in Eligible(x) : Up(y, d) => Active(y) = Closed(y, Active(x))
<1>1. Up(x, c)
  BY DEF Tripped, Up
<1>2. Active(x) = Closed(x, Eligible(x))
  BY <1>1 DEF Active, Closed, OrElse
<1>3. ASSUME NEW d \in Eligible(x), Up(y, d) PROVE Active(y) = Closed(y, Active(x))
  <2>1. Active(y) = Closed(y, Eligible(x))
    BY <1>3, TrippedIs DEF Active, Closed, OrElse
  <2>2. Closed(y, Eligible(x)) = Closed(y, Closed(x, Eligible(x)))
    BY TrippedIs DEF Closed
  <2> QED
    BY <1>2, <2>1, <2>2
<1> QED
  BY <1>2, <1>3

\* One decision takes the place of another when the provider p of the latter goes down,
\* and what it chooses has the rank of what the other would have failed over to.
Follows(y, p, first, second, rank) ==
    p = Provider(first.chosen) /\ Alive(y, first.chain) # {}
    => rank[second.chosen] = rank[NextOf(y, first)]

\* The keys that RankedBy chooses with and makes the chain with.
Named(pool, k, first, l, then) ==
    \A c \in pool : first[c] = Append(k[c], -Name(c)) /\ then[c] = Append(l[c], Name(c))

LEMMA NamedKey ==
    ASSUME NEW pool \in SUBSET Models, NEW n \in Nat, NEW r \in Nat, r <= n, NEW k, NEW l,
           Alike(pool, k, n, l, n, r), NEW first, NEW then, Named(pool, k, first, l, then)
    PROVE  /\ Alike(pool, first, n + 1, then, n + 1, r)
           /\ \A c \in pool : \A i \in 1..r : first[c][i] = k[c][i]
<1> DEFINE m == n + 1
<1> SUFFICES ASSUME NEW c \in pool
             PROVE  /\ first[c] \in [1..m -> Int] /\ then[c] \in [1..m -> Int]
                    /\ \A i \in 1..r : first[c][i] = then[c][i] /\ first[c][i] = k[c][i]
  BY DEF Alike
<1> DEFINE kc == k[c]
           lc == l[c]
<1>1. kc \in [1..n -> Int] /\ lc \in [1..n -> Int] /\ \A i \in 1..r : kc[i] = lc[i]
  BY DEF Alike
<1>2. first[c] = Append(kc, -Name(c)) /\ then[c] = Append(lc, Name(c))
  BY DEF Named
<1> DEFINE a == Append(kc, -Name(c))
           b == Append(lc, Name(c))
<1> HIDE DEF kc, lc
<1>3. Name(c) \in Nat
  BY CatalogAssumption DEF CatalogAssumption
<1>4. kc \in Seq(Int) /\ Len(kc) = n /\ lc \in Seq(Int) /\ Len(lc) = n
  BY <1>1
<1>5. a \in Seq(Int) /\ Len(a) = m /\ \A i \in 1..n : a[i] = kc[i]
  BY <1>3, <1>4
<1>6. b \in Seq(Int) /\ Len(b) = m /\ \A i \in 1..n : b[i] = lc[i]
  BY <1>3, <1>4
<1> HIDE DEF a, b
<1>7. a \in [1..m -> Int] /\ b \in [1..m -> Int]
  BY <1>5, <1>6
<1>8. \A i \in 1..r : a[i] = b[i] /\ a[i] = kc[i]
  BY <1>1, <1>5, <1>6
<1> QED
  BY <1>2, <1>7, <1>8 DEF a, b, kc

\* RankedBy names the first of what is left, up to the names, before and after.
LEMMA RankedFollows ==
    ASSUME NEW y, NEW n \in Nat, NEW r \in Nat, r <= n, NEW pool \in SUBSET Models, NEW k, NEW l,
           Alike(pool, l, n, k, n, r),
           ~Up(y, RankedBy(pool, k).chosen), Alive(y, RankedBy(pool, k).chain) # {}
    PROVE  LET b == RankedBy(Closed(y, pool), l).chosen
               d == NextOf(y, RankedBy(pool, k))
           IN  b \in Closed(y, pool) /\ d \in Closed(y, pool) /\ Level(l, b, d, r)
<1> DEFINE m == n + 1
           chosen == Best(pool, [c \in Models |-> Append(k[c], -Name(c))])
           up == Closed(y, pool)
           first == [c \in Models |-> Append(l[c], -Name(c))]
           then == [c \in Models |-> Append(k[c], Name(c))]
           d == NextOf(y, RankedBy(pool, k))
           b == Best(up, first)
<1>0. m \in Nat /\ r <= m
  OBVIOUS
<1>1. /\ RankedBy(pool, k) = Decision(chosen, Sorted(pool \ {chosen}, then))
      /\ RankedBy(pool, k).chosen = chosen
      /\ RankedBy(up, l).chosen = b
  BY DEF RankedBy, Decision
<1>2. /\ Alike(pool, first, m, then, m, r)
      /\ \A c \in pool : \A i \in 1..r : first[c][i] = l[c][i]
  <2>1. Named(pool, l, first, k, then)
    BY DEF Named
  <2> HIDE DEF first, then
  <2>2. Alike(pool, first, n + 1, then, n + 1, r)
    BY <2>1, NamedKey
  <2>3. \A c \in pool : \A i \in 1..r : first[c][i] = l[c][i]
    BY <2>1, NamedKey
  <2> QED
    BY Zenon, <2>2, <2>3
<1> HIDE DEF first, then, m
<1>3. up = Closed(y, pool \ {chosen}) /\ up \in SUBSET pool
  BY <1>1 DEF Closed
<1>4. Heads(d, up, then)
  <2>1. \A c \in pool \ {chosen} : then[c] \in [1..m -> Int]
    BY <1>2 DEF Alike
  <2>2. Alive(y, Decision(chosen, Sorted(pool \ {chosen}, then)).chain) # {}
    BY Zenon, <1>1
  <2> HIDE DEF chosen
  <2>3. pool \ {chosen} \in SUBSET Models
    OBVIOUS
  <2>4. Heads(NextOf(y, Decision(chosen, Sorted(pool \ {chosen}, then))),
              Closed(y, pool \ {chosen}), then)
    BY Zenon, <1>0, <2>1, <2>2, <2>3, ChainHeads
  <2> QED
    BY Zenon, <1>1, <1>3, <2>4
<1>5. d \in up
  BY Zenon, <1>4 DEF Heads
<1> HIDE DEF d, up
<1>6. up \in SUBSET Models /\ up # {} /\ Alike(up, first, m, then, m, r)
  BY <1>2, <1>3, <1>5 DEF Alike
<1>7. Heads(b, up, first)
  <2>1. \A c \in up : first[c] \in [1..m -> Int]
    BY <1>6 DEF Alike
  <2> QED
    BY Zenon, <1>0, <1>6, <2>1, BestHeads
<1>9. b \in up
  BY Zenon, <1>7 DEF Heads
<1> HIDE DEF b
<1>8. Level(first, b, d, r)
  BY <1>0, <1>4, <1>6, <1>7, HeadsAgree
<1>10. b \in pool /\ d \in pool
  BY <1>3, <1>5, <1>9
<1>11. Level(l, b, d, r)
  BY <1>2, <1>8, <1>10 DEF Level
<1> QED
  BY Zenon, <1>1, <1>5, <1>9, <1>11 DEF up, d

\* And so does all that chooses with RankedBy from a pool of which only what is up is left.
LEMMA RankFollows ==
    ASSUME NEW x, NEW y, NEW p, Tripped(x, y, p), NEW n \in Nat, NEW r \in Nat, r <= n,
           NEW pool \in SUBSET Models, NEW left, NEW k, NEW l, Alike(pool, l, n, k, n, r),
           p = Provider(RankedBy(pool, k).chosen) /\ Closed(y, pool) # {}
           => left = Closed(y, pool),
           NEW rank,
           \A c, d \in pool : Level(l, c, d, r) => rank[c] = rank[d]
    PROVE  Follows(y, p, RankedBy(pool, k), RankedBy(left, l), rank)
<1> DEFINE first == RankedBy(pool, k)
           second == RankedBy(Closed(y, pool), l)
           d == NextOf(y, first)
<1> SUFFICES ASSUME p = Provider(first.chosen), Alive(y, first.chain) # {}
             PROVE  rank[RankedBy(left, l).chosen] = rank[d]
  BY DEF Follows
<1>1. ~Up(y, first.chosen)
  BY TrippedIs
<1>2. /\ second.chosen \in Closed(y, pool) /\ d \in Closed(y, pool)
      /\ Level(l, second.chosen, d, r)
  BY <1>1, RankedFollows
<1> HIDE DEF first, second, d
<1>3. left = Closed(y, pool)
  BY <1>2 DEF first
<1>4. second.chosen \in pool /\ d \in pool
  BY <1>2 DEF Closed
<1>5. rank[second.chosen] = rank[d]
  BY <1>2, <1>4
<1> QED
  BY <1>3, <1>5 DEF second

\* Of what is active, say.
LEMMA ActiveFollowsRank ==
    ASSUME NEW x, NEW y, NEW p, Tripped(x, y, p), NEW n \in Nat, NEW r \in Nat, r <= n,
           NEW k, NEW l, Alike(Active(x), l, n, k, n, r), NEW rank,
           \A c, d \in Active(x) : Level(l, c, d, r) => rank[c] = rank[d]
    PROVE  Follows(y, p, RankedBy(Active(x), k), RankedBy(Active(y), l), rank)
<1> DEFINE c == RankedBy(Active(x), k).chosen
<1>1. Active(x) \in SUBSET Models /\ Active(x) # {}
  BY ActiveIs
<1>2. c \in Active(x)
  <2>1. \A d \in Active(x) : k[d] \in [1..n -> Int]
    BY DEF Alike
  <2> QED
    BY <1>1, <2>1, RankedIn
<1> HIDE DEF c
<1>3. ASSUME p = Provider(c), Closed(y, Active(x)) # {} PROVE Active(y) = Closed(y, Active(x))
  <2>1. Active(x) = Closed(x, Eligible(x))
    BY <1>2, <1>3, ActiveFollows
  <2>2. PICK d \in Eligible(x) : Up(y, d)
    BY <1>3, <2>1 DEF Closed
  <2> QED
    BY <1>2, <1>3, <2>2, ActiveFollows
<1> QED
  BY <1>1, <1>3, RankFollows DEF c

\* What the strategies rank by.
Rank(x) == [c \in Models |-> <<Quality(c), Cost(x, c)>>]
Finer == [c \in Models |-> Quality(c)]

LEMMA FinestFollows ==
    ASSUME NEW x, NEW y, NEW p, Tripped(x, y, p)
    PROVE  /\ Follows(y, p, QualityFirst(x), QualityFirst(y), Rank(x))
           /\ Follows(y, p, QualityFirst(x), QualityFirst(y), Finer)
           /\ \A wanted, capable :
                Follows(y, p, PreferIf(x, wanted, capable), PreferIf(y, wanted, capable), Rank(x))
<1> DEFINE A == Active(x)
           two(z) == [c \in Models |-> <<-Quality(c), Cost(z, c)>>]
           three(z, capable) == [c \in Models |-> <<Late(c \notin capable), -Quality(c), Cost(z, c)>>]
           rank == Rank(x)
<1>1. \A c \in Models : /\ Quality(c) \in Int /\ Cost(x, c) \in Int /\ Cost(y, c) = Cost(x, c)
                        /\ rank[c] = <<Quality(c), Cost(x, c)>>
  BY TrippedIs, CandidateIs DEF Tripped, Rank
<1>2. A \in SUBSET Models
  BY ActiveIs
<1>3. /\ QualityFirst(x) = RankedBy(A, two(x)) /\ QualityFirst(y) = RankedBy(Active(y), two(y))
      /\ \A wanted, capable :
            /\ PreferIf(x, wanted, capable) = IF wanted THEN RankedBy(A, three(x, capable))
                                              ELSE QualityFirst(x)
            /\ PreferIf(y, wanted, capable) = IF wanted THEN RankedBy(Active(y), three(y, capable))
                                              ELSE QualityFirst(y)
  BY DEF QualityFirst, PreferIf
<1> HIDE DEF A, rank
<1>4. /\ Follows(y, p, RankedBy(Active(x), two(x)), RankedBy(Active(y), two(y)), rank)
      /\ Follows(y, p, RankedBy(Active(x), two(x)), RankedBy(Active(y), two(y)), Finer)
  <2> DEFINE k == two(x)
             l == two(y)
  <2>1. Alike(A, l, 2, k, 2, 2)
    BY <1>1, <1>2 DEF Alike
  <2>2. \A c, d \in A : Level(l, c, d, 2) => rank[c] = rank[d]
    BY <1>1, <1>2 DEF Level
  <2>5. \A c, d \in A : Level(l, c, d, 2) => Finer[c] = Finer[d]
    <3>1. \A c, d \in A : rank[c] = rank[d] => Quality(c) = Quality(d)
      BY <1>1, <1>2
    <3>2. \A c \in A : Finer[c] = Quality(c)
      BY <1>2 DEF Finer
    <3> QED
      BY Zenon, <2>2, <3>1, <3>2
  <2> HIDE DEF k, l
  <2>3. Follows(y, p, RankedBy(Active(x), k), RankedBy(Active(y), l), rank)
    BY <2>1, <2>2, 2 \in Nat, 2 <= 2, ActiveFollowsRank DEF A
  <2>4. Follows(y, p, RankedBy(Active(x), k), RankedBy(Active(y), l), Finer)
    BY <2>1, <2>5, 2 \in Nat, 2 <= 2, ActiveFollowsRank DEF A
  <2> QED
    BY <2>3, <2>4 DEF k, l
<1>5. ASSUME NEW capable
      PROVE  Follows(y, p, RankedBy(Active(x), three(x, capable)),
                     RankedBy(Active(y), three(y, capable)), rank)
  <2> DEFINE k == three(x, capable)
             l == three(y, capable)
  <2>1. Alike(A, l, 3, k, 3, 3)
    BY <1>1, <1>2 DEF Alike, Late
  <2>2. \A c, d \in A : Level(l, c, d, 3) => rank[c] = rank[d]
    BY <1>1, <1>2 DEF Level
  <2> HIDE DEF k, l
  <2>3. Follows(y, p, RankedBy(Active(x), k), RankedBy(Active(y), l), rank)
    BY <2>1, <2>2, 3 \in Nat, 3 <= 3, ActiveFollowsRank DEF A
  <2> QED
    BY <2>3 DEF k, l
<1> HIDE DEF two, three
<1> QED
  BY <1>3, <1>4, <1>5 DEF A, rank

LEMMA WindowFollows ==
    ASSUME NEW x, NEW y, NEW p, Tripped(x, y, p)
    PROVE  Follows(y, p, LongContextPrefer(x), LongContextPrefer(y), Rank(x))
<1> DEFINE A == Active(x)
           window(z, c) == IF c \in DOMAIN z.windows THEN z.windows[c] ELSE InputLimit(c)
           key(z) == [c \in Models |->
                        <<Late(window(z, c) < z.min_context), -window(z, c), -Quality(c), Cost(z, c)>>]
           rank == Rank(x)
           k == key(x)
           l == key(y)
<1>0. y.windows = x.windows /\ y.min_context = x.min_context
  BY DEF Tripped, Fields
<1>1. \A c \in Models : /\ Quality(c) \in Int /\ Cost(x, c) \in Int /\ window(x, c) \in Int
                        /\ rank[c] = <<Quality(c), Cost(x, c)>>
  <2>1. \A c \in Models : window(x, c) \in Nat
    BY CandidateIs DEF Tripped, WellFormed
  <2> HIDE DEF window
  <2> QED
    BY <2>1, CandidateIs DEF Tripped, Rank
<1>2. \A c \in Models : window(y, c) = window(x, c) /\ Cost(y, c) = Cost(x, c)
  BY <1>0, TrippedIs
<1>3. /\ x.min_context = 0 => LongContextPrefer(x) = QualityFirst(x)
      /\ x.min_context # 0 => LongContextPrefer(x) = RankedBy(A, k)
      /\ y.min_context = 0 => LongContextPrefer(y) = QualityFirst(y)
      /\ y.min_context # 0 => LongContextPrefer(y) = RankedBy(Active(y), l)
  BY DEF LongContextPrefer
<1>4. A \in SUBSET Models
  BY ActiveIs
<1> HIDE DEF window, A, rank
<1>5. Alike(A, l, 4, k, 4, 4)
  BY <1>0, <1>1, <1>2, <1>4 DEF Alike, Late
<1>6. \A c, d \in A : Level(l, c, d, 4) => rank[c] = rank[d]
  <2> SUFFICES ASSUME NEW c \in A, NEW d \in A, Level(l, c, d, 4) PROVE rank[c] = rank[d]
    OBVIOUS
  <2>1. l[c][3] = l[d][3] /\ l[c][4] = l[d][4]
    BY DEF Level
  <2>2. /\ l[c][3] = -Quality(c) /\ l[c][4] = Cost(x, c)
        /\ l[d][3] = -Quality(d) /\ l[d][4] = Cost(x, d)
    BY <1>2, <1>4
  <2> HIDE DEF l
  <2>3. -Quality(c) = -Quality(d) /\ Cost(x, c) = Cost(x, d)
    BY Zenon, <2>1, <2>2
  <2>4. /\ Quality(c) \in Int /\ rank[c] = <<Quality(c), Cost(x, c)>>
        /\ Quality(d) \in Int /\ rank[d] = <<Quality(d), Cost(x, d)>>
    BY Zenon, <1>1, <1>4
  <2> QED
    BY <2>3, <2>4
<1> HIDE DEF k, l
<1>7. Follows(y, p, RankedBy(A, k), RankedBy(Active(y), l), rank)
  BY <1>5, <1>6, 4 \in Nat, 4 <= 4, ActiveFollowsRank DEF A
<1>8. Follows(y, p, QualityFirst(x), QualityFirst(y), rank)
  BY FinestFollows DEF rank
<1> QED
  BY <1>0, <1>3, <1>7, <1>8 DEF rank

LEMMA WarmFollows ==
    ASSUME NEW x, NEW y, NEW p, Tripped(x, y, p)
    PROVE  Follows(y, p, ProviderWarmupWeight(x), ProviderWarmupWeight(y),
                   [c \in Models |-> <<Warmed(x, c), Cost(x, c)>>])
<1> DEFINE A == Active(x)
           key(z) == [c \in Models |-> <<-Warmed(z, c), Cost(z, c)>>]
           rank == [c \in Models |-> <<Warmed(x, c), Cost(x, c)>>]
           k == key(x)
           l == key(y)
<1>1. \A c \in Models : Warmed(x, c) \in Int /\ Cost(x, c) \in Int
  <2> SUFFICES ASSUME NEW c \in Models PROVE Warmed(x, c) \in Int /\ Cost(x, c) \in Int
    OBVIOUS
  <2> DEFINE w == x.warmup[Provider(c)]
             part == Settings.warmup_percent
  <2>1. w \in Int /\ Quality(c) \in Int /\ Cost(x, c) \in Int
    BY MeasureIs, CandidateIs DEF Tripped
  <2>2. part \in 0..100
    BY Zenon, SettingsAssumption DEF SettingsAssumption
  <2>3. Warmed(x, c) = (100 - part) * Quality(c) + part * w
    BY Zenon DEF Warmed
  <2> HIDE DEF w, part
  <2>4. (100 - part) * Quality(c) \in Int /\ part * w \in Int
    BY <2>1, <2>2
  <2> QED
    BY <2>1, <2>3, <2>4
<1>2. \A c \in Models : Warmed(y, c) = Warmed(x, c) /\ Cost(y, c) = Cost(x, c)
  <2>1. y.warmup = x.warmup
    BY DEF Tripped, Fields, Measures
  <2> QED
    BY <2>1, TrippedIs DEF Warmed
<1>3. /\ ProviderWarmupWeight(x) = RankedBy(A, k)
      /\ ProviderWarmupWeight(y) = RankedBy(Active(y), l)
  BY DEF ProviderWarmupWeight
<1>4. A \in SUBSET Models
  BY ActiveIs
<1> HIDE DEF A
<1>5. Alike(A, l, 2, k, 2, 2)
  BY <1>1, <1>2, <1>4 DEF Alike
<1>6. \A c, d \in A : Level(l, c, d, 2) => rank[c] = rank[d]
  BY <1>1, <1>2, <1>4 DEF Level
<1> HIDE DEF k, l, rank
<1>7. Follows(y, p, RankedBy(A, k), RankedBy(Active(y), l), rank)
  BY <1>5, <1>6, 2 \in Nat, 2 <= 2, ActiveFollowsRank DEF A
<1> QED
  BY <1>3, <1>7 DEF rank

LEMMA GateFollows ==
    ASSUME NEW x, NEW y, NEW p, Tripped(x, y, p)
    PROVE  Follows(y, p, ModelCapabilityGate(x), ModelCapabilityGate(y), Rank(x))
<1> DEFINE has(z, c) == IF c \in DOMAIN z.capabilities THEN z.capabilities[c]
                        ELSE IF Catalog[c].known THEN Catalog[c].capabilities ELSE {}
           capable(z) == {c \in Active(z) : z.required \subseteq has(z, c)}
           key(z) == [c \in Models |-> <<-Quality(c), Cost(z, c)>>]
           pool == OrElse(capable(x), Active(x))
           left == OrElse(capable(y), Active(y))
           rank == Rank(x)
           k == key(x)
           l == key(y)
<1>0. y.capabilities = x.capabilities /\ y.required = x.required
  BY DEF Tripped, Fields
<1>1. \A c \in Models : /\ Quality(c) \in Int /\ Cost(x, c) \in Int /\ Cost(y, c) = Cost(x, c)
                        /\ rank[c] = <<Quality(c), Cost(x, c)>>
  BY TrippedIs, CandidateIs DEF Tripped, Rank
<1>2. ModelCapabilityGate(x) = RankedBy(pool, k) /\ ModelCapabilityGate(y) = RankedBy(left, l)
  BY DEF ModelCapabilityGate
<1>3. \A c : x.required \subseteq has(x, c) <=> y.required \subseteq has(y, c)
  BY <1>0
<1>4. pool \in SUBSET Models /\ pool \subseteq Active(x) /\ pool # {}
  BY ActiveIs DEF OrElse
<1>5. Alike(pool, l, 2, k, 2, 2)
  <2> HIDE DEF pool
  <2> QED
    BY <1>1, <1>4 DEF Alike
<1>6. \A c, d \in pool : Level(l, c, d, 2) => rank[c] = rank[d]
  <2> HIDE DEF pool, rank
  <2> QED
    BY <1>1, <1>4 DEF Level
<1> HIDE DEF k, l, rank, has
<1> DEFINE c == RankedBy(pool, k).chosen
<1>7. c \in pool
  <2>1. \A d \in pool : k[d] \in [1..2 -> Int]
    BY <1>5 DEF Alike
  <2> HIDE DEF pool
  <2> QED
    BY <1>4, <2>1, 2 \in Nat, RankedIn
<1>8. ASSUME p = Provider(c), Closed(y, pool) # {} PROVE left = Closed(y, pool)
  <2>1. c \in Active(x)
    BY <1>4, <1>7
  <2> HIDE DEF c
  <2>2. Active(x) = Closed(x, Eligible(x))
    BY <1>8, <2>1, ActiveFollows
  <2>3. PICK d \in Eligible(x) : Up(y, d)
    BY <1>4, <1>8, <2>2 DEF Closed
  <2>4. Active(y) = Closed(y, Active(x))
    BY <1>8, <2>1, <2>3, ActiveFollows
  <2>5. capable(y) = Closed(y, capable(x))
    BY <1>3, <2>4 DEF Closed
  <2> QED
    BY <1>8, <2>4, <2>5 DEF OrElse, Closed
<1> HIDE DEF pool, left
<1>9. Follows(y, p, RankedBy(pool, k), RankedBy(left, l), rank)
  BY <1>4, <1>5, <1>6, <1>8, 2 \in Nat, 2 <= 2, RankFollows DEF c
<1> QED
  BY <1>2, <1>9 DEF rank

\* An order has one first.
LEMMA HeadsOnce ==
    ASSUME NEW pool \in SUBSET Models, NEW n \in Nat, NEW key,
           \A c \in pool : key[c] \in [1..n -> Int],
           NEW c, NEW d, Heads(c, pool, key), Heads(d, pool, key)
    PROVE  c = d
<1>1. Comparable(pool, key) /\ pool \in SUBSET Nat
  BY ModelsAre DEF Comparable
<1>2. c \in pool /\ d \in pool /\ (c # d => Earlier(c, d, key) /\ Earlier(d, c, key))
  BY DEF Heads
<1> QED
  BY Zenon, <1>1, <1>2, EarlierOrder

\* And sorted puts it first.
LEMMA HeadHeads ==
    ASSUME NEW pool \in SUBSET Models, pool # {}, NEW n \in Nat, NEW key,
           \A c \in pool : key[c] \in [1..n -> Int]
    PROVE  Heads(Head(Sorted(pool, key)), pool, key)
<1> DEFINE s == Sorted(pool, key)
           size == Cardinality(pool)
<1>1. Comparable(pool, key) /\ pool \in SUBSET Nat /\ IsFiniteSet(pool)
  BY ModelsAre DEF Comparable
<1>2. /\ size \in Nat /\ s \in Seq(pool) /\ Len(s) = size
      /\ \A e \in pool : \E i \in 1..size : s[i] = e
  BY <1>1, SortedIsPermutation
<1>3. \A i, j \in 1..size : i < j => Earlier(s[i], s[j], key)
  BY <1>1, SortedIsOrdered
<1>4. s # <<>> /\ Head(s) \in pool
  BY <1>1, HeadOfSorted
<1> HIDE DEF s, size
<1>5. Head(s) = s[1] /\ 1 \in 1..size
  BY <1>2, <1>4
<1>6. ASSUME NEW e \in pool \ {Head(s)} PROVE Earlier(Head(s), e, key)
  <2>1. PICK j \in 1..size : s[j] = e
    BY <1>2
  <2>2. 1 < j
    BY <1>2, <1>5, <2>1
  <2> QED
    BY <1>3, <1>5, <2>1, <2>2
<1> QED
  BY <1>4, <1>6 DEF Heads, s

\* A ranking fails over to the next of it that is up.
LEMMA NextOfRanking ==
    ASSUME NEW s \in Seq(Models), s # <<>>, NEW y,
           ~Up(y, FirstOf(s).chosen), Alive(y, FirstOf(s).chain) # {}
    PROVE  FirstUp(NextOf(y, FirstOf(s)), y, s)
<1> DEFINE d == NextOf(y, FirstOf(s))
           t == Tail(s)
<1>1. FirstOf(s) = Decision(Head(s), t) /\ ~Up(y, Head(s))
  BY DEF FirstOf, Decision
<1>2. t \in Seq(Models) /\ Len(s) \in Nat \ {0} /\ DOMAIN s = 1..Len(s)
      /\ DOMAIN t = 1..(Len(s) - 1) /\ Head(s) = s[1]
      /\ \A i \in DOMAIN t : t[i] = s[i + 1]
  OBVIOUS
<1>3. FirstUp(d, y, t)
  <2> HIDE DEF t
  <2>1. FirstUp(NextOf(y, Decision(Head(s), t)), y, t)
    BY <1>1, <1>2, NextIs
  <2> QED
    BY <1>1, <2>1
<1> HIDE DEF t, d
<1>4. PICK i \in DOMAIN t : t[i] = d /\ Up(y, d) /\ \A j \in 1..(i - 1) : ~Up(y, t[j])
  BY <1>3 DEF FirstUp
<1> DEFINE h == i + 1
<1>5. h \in DOMAIN s /\ s[h] = d
  BY <1>2, <1>4
<1>6. ASSUME NEW j \in 1..(h - 1) PROVE ~Up(y, s[j])
  <2>1. CASE j = 1
    BY <1>1, <1>2, <2>1
  <2>2. CASE j # 1
    <3> DEFINE g == j - 1
    <3>1. g \in 1..(i - 1) /\ g \in DOMAIN t /\ s[j] = t[g]
      BY <1>2, <1>4, <2>2
    <3> QED
      BY <1>4, <3>1
  <2> QED
    BY <2>1, <2>2
<1> QED
  BY <1>4, <1>5, <1>6 DEF FirstUp, d

LEMMA CheapFollows ==
    ASSUME NEW x, NEW y, NEW p, Tripped(x, y, p), NEW rank
    PROVE  Follows(y, p, CostFirst(x), CostFirst(y), rank)
<1> DEFINE A == Active(x)
           key == ByCost(x)
           s == Sorted(A, key)
           d == NextOf(y, CostFirst(x))
<1>1. \A c \in Models : key[c] \in [1..3 -> Int]
  BY CandidateIs DEF ByCost, Tripped
<1>2. ByCost(y) = key
  BY TrippedIs DEF ByCost
<1>3. CostFirst(x) = FirstOf(s) /\ CostFirst(y) = FirstOf(Sorted(Active(y), key))
  BY <1>2 DEF CostFirst
<1> HIDE DEF key
<1> SUFFICES ASSUME p = Provider(CostFirst(x).chosen), Alive(y, CostFirst(x).chain) # {}
             PROVE  CostFirst(y).chosen = d
  BY DEF Follows
<1>4. A \in SUBSET Models /\ A # {} /\ \A c \in A : key[c] \in [1..3 -> Int]
  BY <1>1, ActiveIs
<1>5. s \in Seq(A) /\ s # <<>> /\ CostFirst(x).chosen \in A
  BY <1>3, <1>4, FirstIn, 3 \in Nat
<1>6. ~Up(y, CostFirst(x).chosen) /\ s \in Seq(Models)
  BY <1>4, <1>5, TrippedIs
<1>7. FirstUp(d, y, s)
  <2> HIDE DEF s
  <2> QED
    BY <1>3, <1>5, <1>6, NextOfRanking
<1> HIDE DEF d
<1>8. Heads(d, Closed(y, A), key)
  BY <1>4, <1>7, OrderHeads, 3 \in Nat
<1>9. d \in A /\ Up(y, d)
  BY <1>8 DEF Heads, Closed
<1>10. Active(y) = Closed(y, A)
  BY <1>5, <1>9, ActiveFollows DEF Active, Closed, OrElse
<1>11. /\ Active(y) \in SUBSET Models /\ Active(y) # {}
       /\ \A c \in Active(y) : key[c] \in [1..3 -> Int]
  BY <1>1, ActiveIs
<1>12. Heads(Head(Sorted(Active(y), key)), Active(y), key)
  BY <1>11, HeadHeads, 3 \in Nat
<1>13. Head(Sorted(Active(y), key)) = d
  BY <1>8, <1>10, <1>11, <1>12, HeadsOnce, 3 \in Nat
<1> QED
  BY <1>3, <1>13 DEF FirstOf, Decision

LEMMA LimitFollows ==
    ASSUME NEW x, NEW y, NEW p, Tripped(x, y, p), NEW rank
    PROVE  Follows(y, p, SoftRateLimit(x), SoftRateLimit(y), rank)
<1> DEFINE E == Eligible(x)
           A == Active(x)
           limited(z, c) == <<z.limited[Provider(c)], z.limit_rate[Provider(c)]>>
           rest(z, c) == <<-Quality(c), Cost(z, c), Name(c)>>
           of(z) == [c \in Models |-> limited(z, c) \o rest(z, c)]
           key == of(x)
           s == Sorted(A, key)
           t == Sorted(E \ A, key)
           u == s \o t
           d == NextOf(y, SoftRateLimit(x))
<1>1. \A c \in Models : key[c] \in [1..5 -> Int]
  <2> SUFFICES ASSUME NEW c \in Models PROVE key[c] \in [1..5 -> Int]
    OBVIOUS
  <2>1. limited(x, c) \in [1..2 -> Int] /\ rest(x, c) \in [1..3 -> Int]
    BY CandidateIs, MeasureIs DEF Tripped
  <2>2. key[c] = limited(x, c) \o rest(x, c)
    OBVIOUS
  <2> HIDE DEF limited, rest, key
  <2>3. limited(x, c) \o rest(x, c) \in [1..(2 + 3) -> Int]
    BY <2>1, Joined, 2 \in Nat, 3 \in Nat
  <2> QED
    BY <2>2, <2>3
<1>2. of(y) = key /\ Eligible(y) = E
  BY TrippedIs DEF Tripped, Fields, Measures
<1>3. /\ SoftRateLimit(x) = FirstOf(u)
      /\ SoftRateLimit(y) = FirstOf(Sorted(Active(y), of(y))
                                    \o Sorted(Eligible(y) \ Active(y), of(y)))
  BY Zenon DEF SoftRateLimit
<1>4. A \in SUBSET Models /\ A # {} /\ E \ A \in SUBSET Models
  BY ActiveIs, EligibleIs
<1> HIDE DEF of, key, A, E
<1>5. /\ \A P \in SUBSET Models : Sorted(P, key) \in Seq(P)
      /\ \A P \in SUBSET Models : P # {} => Sorted(P, key) # <<>>
  <2> SUFFICES ASSUME NEW P \in SUBSET Models
               PROVE  Sorted(P, key) \in Seq(P) /\ (P # {} => Sorted(P, key) # <<>>)
    OBVIOUS
  <2>1. \A c \in P : key[c] \in [1..5 -> Int]
    BY <1>1
  <2> QED
    BY <2>1, OrderIs, FirstIn, 5 \in Nat
<1>6. s \in Seq(A) /\ s # <<>> /\ t \in Seq(E \ A)
  BY <1>4, <1>5
<1> HIDE DEF s, t
<1>7. /\ DOMAIN s = 1..Len(s) /\ Len(s) \in Nat \ {0} /\ DOMAIN t = 1..Len(t) /\ Len(t) \in Nat
      /\ s \in Seq(Models) /\ t \in Seq(Models) /\ Head(s) \in A
      /\ \A i \in DOMAIN t : t[i] \in E \ A
  BY <1>4, <1>6
<1>8. /\ u \in Seq(Models) /\ u # <<>> /\ DOMAIN u = 1..(Len(s) + Len(t)) /\ Head(u) = Head(s)
      /\ \A i \in 1..Len(s) : u[i] = s[i]
      /\ \A i \in 1..Len(t) : u[Len(s) + i] = t[i]
  BY <1>7, ConcatProperties
<1> HIDE DEF u
<1> SUFFICES ASSUME p = Provider(SoftRateLimit(x).chosen), Alive(y, SoftRateLimit(x).chain) # {}
             PROVE  SoftRateLimit(y).chosen = d
  BY DEF Follows
<1>9. SoftRateLimit(x).chosen \in A
  BY <1>3, <1>7, <1>8 DEF FirstOf, Decision
<1>10. ~Up(y, SoftRateLimit(x).chosen)
  BY TrippedIs
<1>11. FirstUp(d, y, u)
  BY <1>3, <1>8, <1>10, NextOfRanking
<1> HIDE DEF d
<1>12. PICK i \in DOMAIN u : u[i] = d /\ Up(y, d) /\ \A j \in 1..(i - 1) : ~Up(y, u[j])
  BY <1>11 DEF FirstUp
<1>13. A = Closed(x, E)
  BY <1>9, ActiveFollows DEF A, E
<1>14. \A c \in E \ A : ~Up(y, c)
  BY <1>13, TrippedIs DEF Closed
<1>15. i \in DOMAIN s
  <2> SUFFICES ASSUME i \notin DOMAIN s PROVE FALSE
    OBVIOUS
  <2> DEFINE g == i - Len(s)
  <2>1. g \in 1..Len(t) /\ Len(s) + g = i
    BY <1>7, <1>8
  <2>2. u[i] = t[g]
    BY <1>8, <2>1
  <2>3. t[g] \in E \ A
    BY <1>7, <2>1
  <2> QED
    BY <1>12, <1>14, <2>2, <2>3
<1>16. FirstUp(d, y, s)
  <2>1. s[i] = d
    BY <1>7, <1>8, <1>12, <1>15
  <2>2. \A j \in 1..(i - 1) : ~Up(y, s[j])
    <3> SUFFICES ASSUME NEW j \in 1..(i - 1) PROVE ~Up(y, s[j])
      OBVIOUS
    <3>1. j \in 1..Len(s)
      BY <1>7, <1>15
    <3> QED
      BY <1>8, <1>12, <3>1
  <2> QED
    BY <1>12, <1>15, <2>1, <2>2 DEF FirstUp
<1>17. Heads(d, Closed(y, A), key)
  <2>1. \A c \in A : key[c] \in [1..5 -> Int]
    BY <1>1, <1>4
  <2> QED
    BY <1>4, <1>16, <2>1, OrderHeads, 5 \in Nat DEF s
<1>18. d \in A /\ Up(y, d)
  BY <1>17 DEF Heads, Closed
<1>19. Active(y) = Closed(y, A)
  BY <1>9, <1>13, <1>18, ActiveFollows DEF A, E, Closed
<1>20. /\ Active(y) \in SUBSET Models /\ Active(y) # {}
       /\ \A c \in Active(y) : key[c] \in [1..5 -> Int]
  BY <1>1, ActiveIs
<1>21. Heads(Head(Sorted(Active(y), key)), Active(y), key)
  BY <1>20, HeadHeads, 5 \in Nat
<1>22. Head(Sorted(Active(y), key)) = d
  BY <1>17, <1>19, <1>20, <1>21, HeadsOnce, 5 \in Nat
<1>23. SoftRateLimit(y).chosen = Head(Sorted(Active(y), key))
  <2> DEFINE a == Sorted(Active(y), key)
             b == Sorted(E \ Active(y), key)
  <2>1. SoftRateLimit(y) = FirstOf(a \o b)
    BY <1>2, <1>3
  <2>2. E \ Active(y) \in SUBSET Models
    BY EligibleIs DEF E
  <2>3. a \in Seq(Active(y)) /\ a # <<>> /\ b \in Seq(E \ Active(y))
    BY <1>5, <1>20, <2>2
  <2> HIDE DEF a, b
  <2>4. a \in Seq(Models) /\ b \in Seq(Models)
    BY <1>20, <2>2, <2>3
  <2>5. Head(a \o b) = Head(a)
    BY <2>3, <2>4, ConcatProperties
  <2>6. \A z : FirstOf(z).chosen = Head(z)
    BY DEF FirstOf, Decision
  <2> QED
    BY Zenon, <2>1, <2>5, <2>6 DEF a
<1> QED
  BY <1>22, <1>23

\* The longer of two keys that differ only by what comes first in it, where the
\* pool has the same.
Behind(pool, key, m, wide, z) ==
    /\ \A c \in pool : /\ key[c] \in [1..m -> Int] /\ wide[c] \in [1..(z + m) -> Int]
                       /\ \A i \in 1..m : wide[c][z + i] = key[c][i]
    /\ \A c, d \in pool : \A i \in 1..z : wide[c][i] = wide[d][i]

LEMMA HeadsBehind ==
    ASSUME NEW pool \in SUBSET Models, NEW m \in Nat, NEW z \in Nat, NEW key, NEW wide,
           Behind(pool, key, m, wide, z), NEW c, Heads(c, pool, key)
    PROVE  Heads(c, pool, wide)
<1> SUFFICES ASSUME NEW d \in pool, d # c PROVE Earlier(c, d, wide)
  BY DEF Heads
<1>1. c \in pool /\ Earlier(c, d, key)
  BY DEF Heads
<1> DEFINE k == key[c]
           l == key[d]
           v == wide[c]
           w == wide[d]
<1>2. /\ k \in [1..m -> Int] /\ l \in [1..m -> Int]
      /\ v \in [1..(z + m) -> Int] /\ w \in [1..(z + m) -> Int]
      /\ \A i \in 1..m : v[z + i] = k[i] /\ w[z + i] = l[i]
      /\ \A i \in 1..z : v[i] = w[i]
  BY <1>1 DEF Behind
<1>3. Before(k, l) \/ (k = l /\ c < d)
  BY <1>1 DEF Earlier
<1> HIDE DEF k, l, v, w
<1>4. ASSUME NEW i \in 1..(z + m), i \notin 1..z PROVE i - z \in 1..m /\ z + (i - z) = i
  BY <1>4
<1>5. CASE Before(k, l)
  <2>1. PICK i \in 1..m : k[i] < l[i] /\ \A j \in 1..(i - 1) : k[j] = l[j]
    BY <1>2, <1>5 DEF Before
  <2>2. z + i \in 1..(z + m) /\ v[z + i] < w[z + i]
    BY <1>2, <2>1
  <2>3. ASSUME NEW j \in 1..((z + i) - 1) PROVE v[j] = w[j]
    <3>1. CASE j \in 1..z
      BY <1>2, <3>1
    <3>2. CASE j \notin 1..z
      <4>1. j - z \in 1..(i - 1) /\ z + (j - z) = j /\ j - z \in 1..m
        BY <2>1, <3>2
      <4> QED
        BY <1>2, <2>1, <4>1
    <3> QED
      BY <3>1, <3>2
  <2>4. Before(v, w)
    BY <1>2, <2>2, <2>3 DEF Before
  <2> QED
    BY <2>4 DEF Earlier, v, w
<1>6. CASE k = l /\ c < d
  <2>1. \A i \in 1..(z + m) : v[i] = w[i]
    BY <1>2, <1>4, <1>6
  <2>2. v = w
    BY <1>2, <2>1
  <2> QED
    BY <1>6, <2>2 DEF Earlier, v, w
<1> QED
  BY <1>3, <1>5, <1>6

\* The first of a pool is the first of each part that has it.
LEMMA HeadsPart ==
    ASSUME NEW pool, NEW part \in SUBSET pool, NEW key, NEW c \in part, Heads(c, pool, key)
    PROVE  Heads(c, part, key)
  BY DEF Heads

\* Behind a model that went down, what is next is the first of what is up.
LEMMA NextHeads ==
    ASSUME NEW pool \in SUBSET Models, NEW n \in Nat, NEW key,
           \A d \in pool : key[d] \in [1..n -> Int],
           NEW y, NEW c, ~Up(y, c), Alive(y, Decision(c, Sorted(pool \ {c}, key)).chain) # {}
    PROVE  Heads(NextOf(y, Decision(c, Sorted(pool \ {c}, key))), Closed(y, pool), key)
<1> DEFINE rest == pool \ {c}
<1>1. rest \in SUBSET Models /\ \A d \in rest : key[d] \in [1..n -> Int]
  OBVIOUS
<1>2. Closed(y, rest) = Closed(y, pool)
  BY DEF Closed
<1> HIDE DEF rest
<1>3. Alive(y, Decision(c, Sorted(rest, key)).chain) # {}
  BY DEF rest
<1>4. Heads(NextOf(y, Decision(c, Sorted(rest, key))), Closed(y, rest), key)
  BY Zenon, <1>1, <1>3, ChainHeads
<1> QED
  BY Zenon, <1>2, <1>4 DEF rest

\* What FastestSeen chooses is the first of what is active in this order.
Quick(x) == [c \in Models |->
    <<Late(Latency(x, c) = 0), Latency(x, c), -Quality(c), Cost(x, c), Name(c)>>]

LEMMA FourBehind ==
    ASSUME NEW a \in Int, NEW b \in Int, NEW c \in Int, NEW d \in Int, NEW z \in Int
    PROVE  /\ <<a, b, c, d>> \in [1..4 -> Int] /\ <<z, a, b, c, d>> \in [1..(1 + 4) -> Int]
           /\ \A i \in 1..4 : <<z, a, b, c, d>>[1 + i] = <<a, b, c, d>>[i]
<1> DEFINE k == <<a, b, c, d>>
           l == <<z, a, b, c, d>>
<1>1. k \in [1..4 -> Int] /\ l \in [1..5 -> Int] /\ 1 + 4 = 5
  OBVIOUS
<1>2. /\ k[1] = a /\ k[2] = b /\ k[3] = c /\ k[4] = d
      /\ l[2] = a /\ l[3] = b /\ l[4] = c /\ l[5] = d
  OBVIOUS
<1> HIDE DEF k, l
<1>3. \A i \in 1..4 : l[1 + i] = k[i]
  <2> SUFFICES ASSUME NEW i \in 1..4 PROVE l[1 + i] = k[i]
    OBVIOUS
  <2>1. \/ i = 1 /\ 1 + i = 2
        \/ i = 2 /\ 1 + i = 3
        \/ i = 3 /\ 1 + i = 4
        \/ i = 4 /\ 1 + i = 5
    OBVIOUS
  <2> QED
    BY Zenon, <1>2, <2>1
<1> QED
  BY Zenon, <1>1, <1>3 DEF k, l

LEMMA ThreeBehind ==
    ASSUME NEW a \in Int, NEW b \in Int, NEW c \in Int, NEW y \in Int, NEW z \in Int
    PROVE  /\ <<a, b, c>> \in [1..3 -> Int] /\ <<y, z, a, b, c>> \in [1..(2 + 3) -> Int]
           /\ \A i \in 1..3 : <<y, z, a, b, c>>[2 + i] = <<a, b, c>>[i]
<1> DEFINE k == <<a, b, c>>
           l == <<y, z, a, b, c>>
<1>1. k \in [1..3 -> Int] /\ l \in [1..5 -> Int] /\ 2 + 3 = 5
  OBVIOUS
<1>2. /\ k[1] = a /\ k[2] = b /\ k[3] = c
      /\ l[3] = a /\ l[4] = b /\ l[5] = c
  OBVIOUS
<1> HIDE DEF k, l
<1>3. \A i \in 1..3 : l[2 + i] = k[i]
  <2> SUFFICES ASSUME NEW i \in 1..3 PROVE l[2 + i] = k[i]
    OBVIOUS
  <2>1. \/ i = 1 /\ 2 + i = 3
        \/ i = 2 /\ 2 + i = 4
        \/ i = 3 /\ 2 + i = 5
    OBVIOUS
  <2> QED
    BY Zenon, <1>2, <2>1
<1> QED
  BY Zenon, <1>1, <1>3 DEF k, l

LEMMA QuickHeads ==
    ASSUME NEW x, WellFormed(x)
    PROVE  Heads(FastestSeen(x).chosen, Active(x), Quick(x))
<1> DEFINE A == Active(x)
           seen == {c \in A : Latency(x, c) > 0}
           unseen == A \ seen
           fast == [d \in Models |-> <<Latency(x, d), -Quality(d), Cost(x, d), Name(d)>>]
           fine == [d \in Models |-> <<-Quality(d), Cost(x, d), Name(d)>>]
           wide == Quick(x)
           c == FastestSeen(x).chosen
<1>1. c = IF seen # {} THEN Best(seen, fast) ELSE Best(unseen, fine)
  BY DEF FastestSeen, Decision
<1>2. \A d \in Models : /\ Latency(x, d) \in Nat /\ Quality(d) \in Int /\ Cost(x, d) \in Int
                        /\ Name(d) \in Int
  BY CandidateIs DEF WellFormed, Latency
<1>3. \A d \in Models : wide[d] = <<Late(Latency(x, d) = 0), Latency(x, d), -Quality(d),
                                    Cost(x, d), Name(d)>>
  BY Zenon DEF Quick
<1>4. A \in SUBSET Models /\ A # {} /\ seen \in SUBSET Models /\ unseen \in SUBSET Models
  BY ActiveIs
<1>5. /\ \A d \in seen : Latency(x, d) # 0
      /\ \A d \in unseen : Latency(x, d) = 0
  BY <1>2, <1>4
<1>6. A = seen \cup unseen
  OBVIOUS
<1> HIDE DEF A, seen, unseen, wide, c
<1>7. /\ \A d \in seen : wide[d] = <<0, Latency(x, d), -Quality(d), Cost(x, d), Name(d)>>
      /\ \A d \in unseen : wide[d] = <<1, 0, -Quality(d), Cost(x, d), Name(d)>>
  <2>1. ASSUME NEW d \in seen
        PROVE  wide[d] = <<0, Latency(x, d), -Quality(d), Cost(x, d), Name(d)>>
    <3>1. Late(Latency(x, d) = 0) = 0
      BY <1>5 DEF Late
    <3> QED
      BY Zenon, <1>3, <1>4, <3>1
  <2>2. ASSUME NEW d \in unseen
        PROVE  wide[d] = <<1, 0, -Quality(d), Cost(x, d), Name(d)>>
    <3>1. Latency(x, d) = 0 /\ Late(Latency(x, d) = 0) = 1
      BY <1>5 DEF Late
    <3> QED
      BY <1>3, <1>4, <3>1
  <2> QED
    BY Zenon, <2>1, <2>2
<1>8. CASE seen # {}
  <2>1. \A d \in seen : /\ fast[d] \in [1..4 -> Int] /\ wide[d] \in [1..(1 + 4) -> Int]
                        /\ \A i \in 1..4 : wide[d][1 + i] = fast[d][i]
                        /\ wide[d][1] = 0
    <3> SUFFICES ASSUME NEW d \in seen
                 PROVE  /\ fast[d] \in [1..4 -> Int] /\ wide[d] \in [1..(1 + 4) -> Int]
                        /\ \A i \in 1..4 : wide[d][1 + i] = fast[d][i]
                        /\ wide[d][1] = 0
      OBVIOUS
    <3>1. /\ fast[d] = <<Latency(x, d), -Quality(d), Cost(x, d), Name(d)>>
          /\ wide[d] = <<0, Latency(x, d), -Quality(d), Cost(x, d), Name(d)>>
      BY <1>4, <1>7
    <3>2. wide[d][1] = 0
      BY <3>1
    <3>3. /\ Latency(x, d) \in Int /\ -Quality(d) \in Int /\ Cost(x, d) \in Int
          /\ Name(d) \in Int
      BY <1>2, <1>4
    <3> HIDE DEF fast
    <3> QED
      BY <3>1, <3>2, <3>3, FourBehind
  <2>2. \A d \in unseen : wide[d][1] = 1 /\ wide[d] \in [1..5 -> Int]
    BY <1>2, <1>4, <1>7
  <2> HIDE DEF fast
  <2>3. Behind(seen, fast, 4, wide, 1)
    BY <2>1 DEF Behind
  <2>4. Heads(c, seen, fast)
    <3>1. \A d \in seen : fast[d] \in [1..4 -> Int]
      BY <2>1
    <3> QED
      BY <1>1, <1>4, <1>8, <3>1, BestHeads, 4 \in Nat
  <2>5. Heads(c, seen, wide)
    BY <1>4, <2>3, <2>4, HeadsBehind, 4 \in Nat, 1 \in Nat
  <2>6. ASSUME NEW d \in unseen PROVE Earlier(c, d, wide)
    <3>1. c \in seen
      BY <2>5 DEF Heads
    <3>2. wide[c][1] = 0 /\ wide[d][1] = 1 /\ 1 \in DOMAIN wide[c]
      BY <2>1, <2>2, <3>1
    <3>3. Before(wide[c], wide[d])
      BY <3>2 DEF Before
    <3> QED
      BY <3>3 DEF Earlier
  <2> QED
    BY <1>6, <2>5, <2>6 DEF Heads, A, wide, c
<1>9. CASE seen = {}
  <2>1. \A d \in unseen : /\ fine[d] \in [1..3 -> Int] /\ wide[d] \in [1..(2 + 3) -> Int]
                          /\ \A i \in 1..3 : wide[d][2 + i] = fine[d][i]
                          /\ wide[d][1] = 1 /\ wide[d][2] = 0
    <3> SUFFICES ASSUME NEW d \in unseen
                 PROVE  /\ fine[d] \in [1..3 -> Int] /\ wide[d] \in [1..(2 + 3) -> Int]
                        /\ \A i \in 1..3 : wide[d][2 + i] = fine[d][i]
                        /\ wide[d][1] = 1 /\ wide[d][2] = 0
      OBVIOUS
    <3>1. /\ fine[d] = <<-Quality(d), Cost(x, d), Name(d)>>
          /\ wide[d] = <<1, 0, -Quality(d), Cost(x, d), Name(d)>>
      BY <1>4, <1>7
    <3>2. wide[d][1] = 1 /\ wide[d][2] = 0
      BY <3>1
    <3>3. -Quality(d) \in Int /\ Cost(x, d) \in Int /\ Name(d) \in Int
      BY <1>2, <1>4
    <3> HIDE DEF fine
    <3> QED
      BY <3>1, <3>2, <3>3, ThreeBehind
  <2> HIDE DEF fine
  <2>2. Behind(unseen, fine, 3, wide, 2)
    BY <2>1 DEF Behind
  <2>3. Heads(c, unseen, fine)
    <3>1. \A d \in unseen : fine[d] \in [1..3 -> Int]
      BY <2>1
    <3> QED
      BY <1>1, <1>4, <1>6, <1>9, <3>1, BestHeads, 3 \in Nat
  <2>4. Heads(c, unseen, wide)
    BY <1>4, <2>2, <2>3, HeadsBehind, 3 \in Nat, 2 \in Nat
  <2> QED
    BY <1>6, <1>9, <2>4 DEF A, wide, c
<1> QED
  BY <1>8, <1>9

LEMMA QuickFollows ==
    ASSUME NEW x, NEW y, NEW p, Tripped(x, y, p)
    PROVE  Follows(y, p, FastestSeen(x), FastestSeen(y), Finer)
<1> DEFINE A == Active(x)
           c == FastestSeen(x).chosen
           unseen == A \ {e \in A : Latency(x, e) > 0}
           key == [e \in Models |-> <<Late(e \in unseen), Latency(x, e), -Quality(e), Name(e)>>]
           d == NextOf(y, FastestSeen(x))
           b == FastestSeen(y).chosen
<1>1. FastestSeen(x) = Decision(c, Sorted(A \ {c}, key))
  <2>1. \A e, s : Decision(e, s).chosen = e
    BY DEF Decision
  <2> QED
    BY Zenon, <2>1 DEF FastestSeen
<1>2. \A e \in Models : /\ Latency(x, e) \in Nat /\ Quality(e) \in Int /\ Cost(x, e) \in Int
                        /\ Name(e) \in Int
  BY CandidateIs DEF Tripped, WellFormed, Latency
<1>3. /\ Heads(c, A, Quick(x)) /\ Heads(b, Active(y), Quick(y))
      /\ Quick(y) = Quick(x)
  <2>1. Quick(y) = Quick(x)
    BY TrippedIs DEF Quick
  <2> QED
    BY <2>1, QuickHeads DEF Tripped
<1>4. A \in SUBSET Models
  BY ActiveIs
<1>5. \A e \in A : e \in unseen <=> Latency(x, e) = 0
  BY <1>2, <1>4
<1> HIDE DEF A, unseen, c, b
<1>6. Alike(A, Quick(x), 5, key, 4, 3)
  <2> SUFFICES ASSUME NEW e \in A
               PROVE  /\ Quick(x)[e] \in [1..5 -> Int] /\ key[e] \in [1..4 -> Int]
                      /\ \A i \in 1..3 : Quick(x)[e][i] = key[e][i]
    BY DEF Alike
  <2>1. Quick(x)[e] = <<Late(Latency(x, e) = 0), Latency(x, e), -Quality(e), Cost(x, e), Name(e)>>
    BY <1>4 DEF Quick
  <2>2. key[e] = <<Late(Latency(x, e) = 0), Latency(x, e), -Quality(e), Name(e)>>
    BY <1>4, <1>5
  <2>3. Late(Latency(x, e) = 0) \in Int
    BY DEF Late
  <2>4. /\ Latency(x, e) \in Nat /\ Quality(e) \in Int /\ Cost(x, e) \in Int /\ Name(e) \in Int
    BY <1>2, <1>4
  <2> HIDE DEF key
  <2> QED
    BY <2>1, <2>2, <2>3, <2>4
<1> HIDE DEF key
<1> SUFFICES ASSUME p = Provider(c), Alive(y, FastestSeen(x).chain) # {}
             PROVE  Finer[b] = Finer[d]
  BY DEF Follows, c, b
<1>7. ~Up(y, c) /\ c \in A
  BY <1>3, TrippedIs DEF Heads
<1>8. Heads(d, Closed(y, A), key)
  <2>1. \A e \in A : key[e] \in [1..4 -> Int]
    BY <1>6 DEF Alike
  <2>2. Alive(y, Decision(c, Sorted(A \ {c}, key)).chain) # {}
    BY <1>1
  <2>3. Heads(NextOf(y, Decision(c, Sorted(A \ {c}, key))), Closed(y, A), key)
    BY <1>4, <1>7, <2>1, <2>2, NextHeads, 4 \in Nat
  <2> QED
    BY <1>1, <2>3
<1> HIDE DEF d
<1>9. d \in A /\ Up(y, d)
  BY <1>8 DEF Heads, Closed
<1>10. Active(y) = Closed(y, A) /\ Active(y) \in SUBSET Models
  BY <1>7, <1>9, ActiveFollows, ActiveIs DEF A, Active, Closed, OrElse
<1>11. Alike(Active(y), Quick(x), 5, key, 4, 3)
  BY <1>6, <1>10 DEF Alike, Closed
<1>12. Level(Quick(x), b, d, 3)
  BY <1>3, <1>8, <1>10, <1>11, HeadsAgree, 5 \in Nat, 4 \in Nat, 3 \in Nat, 3 <= 5, 3 <= 4
<1>13. Quick(x)[b][3] = Quick(x)[d][3]
  BY <1>12 DEF Level
<1>14. b \in Models /\ d \in Models
  BY <1>3, <1>4, <1>9, <1>10 DEF Heads
<1>15. Quick(x)[b][3] = -Quality(b) /\ Quick(x)[d][3] = -Quality(d)
  BY <1>14 DEF Quick
<1>16. -Quality(b) = -Quality(d)
  BY Zenon, <1>13, <1>15
<1> QED
  BY <1>2, <1>14, <1>16 DEF Finer

\* A wait that is over, or the shortest, then the highest quality.
LEMMA WaitFollows ==
    ASSUME NEW x, NEW y, NEW p, Tripped(x, y, p)
    PROVE  Follows(y, p, RetryAfterRespect(x), RetryAfterRespect(y), Finer)
<1> DEFINE E == Eligible(x)
           wait(c) == x.cooldown[Provider(c)]
           ready == {c \in E : wait(c) = 0}
           key == [c \in Models |-> <<Late(wait(c) > 0), Late(~Up(x, c)), wait(c), -Quality(c),
                                      Name(c)>>]
           fine == [c \in Models |-> <<-Quality(c), Cost(y, c), -Name(c)>>]
           soon == [c \in Models |-> <<wait(c), -Quality(c), Name(c)>>]
           up == Closed(y, E)
           first == RetryAfterRespect(x).chosen
           b == RetryAfterRespect(y).chosen
           d == NextOf(y, RetryAfterRespect(x))
<1>1. RetryAfterRespect(x) = Decision(first, Sorted(E \ {first}, key))
  <2>1. \A c, s : Decision(c, s).chosen = c
    BY DEF Decision
  <2> QED
    BY Zenon, <2>1 DEF RetryAfterRespect
<1>2. /\ up \cap ready # {} => b = Best(up \cap ready, fine)
      /\ up \cap ready = {} /\ up # {} => b = Best(up, soon)
  <2>1. Eligible(y) = E /\ y.cooldown = x.cooldown
    BY TrippedIs DEF Tripped, Fields, Measures
  <2>2. b = IF up \cap ready # {} THEN FinestByName(y, up \cap ready)
            ELSE IF up # {} THEN Best(up, soon)
            ELSE FinestByName(y, OrElse(ready, E))
    BY <2>1 DEF RetryAfterRespect, Decision
  <2> QED
    BY <2>2 DEF FinestByName
<1>3. \A c \in Models : /\ wait(c) \in Nat /\ Quality(c) \in Int /\ Cost(y, c) \in Int
                        /\ Name(c) \in Int
  <2> SUFFICES ASSUME NEW c \in Models
               PROVE  wait(c) \in Nat /\ Quality(c) \in Int /\ Cost(y, c) \in Int /\ Name(c) \in Int
    OBVIOUS
  <2>1. Provider(c) \in Providers /\ Quality(c) \in Nat /\ Cost(y, c) \in Nat /\ Name(c) \in Nat
    BY CandidateIs DEF Tripped
  <2>2. wait(c) \in Nat
    BY <2>1 DEF Tripped, WellFormed
  <2> QED
    BY <2>1, <2>2
<1>4. E \in SUBSET Models
  BY EligibleIs
<1>5. \A c \in up : ~(~Up(x, c)) /\ c \in E /\ Up(y, c)
  BY TrippedIs DEF Closed
<1>6. up \in SUBSET Models /\ \A c \in up : c \in ready <=> wait(c) = 0
  BY <1>4, <1>5
<1> HIDE DEF ready, wait, E, up, first, b
<1>7. /\ \A c \in E : key[c] \in [1..5 -> Int]
      /\ \A c \in up \cap ready : key[c] = <<0, 0, 0, -Quality(c), Name(c)>>
      /\ \A c \in up \ ready : key[c] = <<1, 0, wait(c), -Quality(c), Name(c)>>
  <2>1. ASSUME NEW c \in E PROVE key[c] \in [1..5 -> Int]
    <3>1. Late(wait(c) > 0) \in Int /\ Late(~Up(x, c)) \in Int
      BY DEF Late
    <3> QED
      BY <1>3, <1>4, <3>1
  <2>2. ASSUME NEW c \in up \cap ready PROVE key[c] = <<0, 0, 0, -Quality(c), Name(c)>>
    <3>1. wait(c) = 0 /\ Late(wait(c) > 0) = 0 /\ Late(~Up(x, c)) = 0
      BY <1>5, <1>6 DEF Late
    <3> QED
      BY <1>6, <3>1
  <2>3. ASSUME NEW c \in up \ ready PROVE key[c] = <<1, 0, wait(c), -Quality(c), Name(c)>>
    <3>1. Late(wait(c) > 0) = 1 /\ Late(~Up(x, c)) = 0
      BY <1>3, <1>5, <1>6 DEF Late
    <3> QED
      BY <1>6, <3>1
  <2> QED
    BY <2>1, <2>2, <2>3
<1> HIDE DEF key
<1> SUFFICES ASSUME p = Provider(first), Alive(y, RetryAfterRespect(x).chain) # {}
             PROVE  Finer[b] = Finer[d]
  BY DEF Follows, first, b
<1>8. Heads(d, up, key)
  <2>1. ~Up(y, first)
    BY TrippedIs
  <2>2. Alive(y, Decision(first, Sorted(E \ {first}, key)).chain) # {}
    BY <1>1
  <2>3. Heads(NextOf(y, Decision(first, Sorted(E \ {first}, key))), Closed(y, E), key)
    BY <1>4, <1>7, <2>1, <2>2, NextHeads, 5 \in Nat
  <2> QED
    BY <1>1, <2>3 DEF up
<1> HIDE DEF d
<1>9. d \in up
  BY <1>8 DEF Heads
<1>10. CASE up \cap ready # {}
  <2> DEFINE R == up \cap ready
             wide == [c \in Models |-> <<0, 0, 0, -Quality(c), Cost(y, c), -Name(c)>>]
  <2>1. \A c \in R : fine[c] = <<-Quality(c), Cost(y, c), -Name(c)>>
    BY <1>6
  <2>2. \A c \in R : wide[c] = <<0, 0, 0, -Quality(c), Cost(y, c), -Name(c)>>
    BY <1>6
  <2>3. R \in SUBSET Models /\ R # {}
    BY <1>6, <1>10
  <2>4. \A c \in R : fine[c] \in [1..3 -> Int] /\ wide[c] \in [1..6 -> Int]
    BY <1>3, <2>1, <2>2, <2>3
  <2> HIDE DEF fine, wide, R
  <2>5. Behind(R, fine, 3, wide, 3)
    <3>1. ASSUME NEW c \in R PROVE \A i \in 1..3 : wide[c][3 + i] = fine[c][i] /\ wide[c][i] = 0
      <4> DEFINE k == fine[c]
                 l == wide[c]
      <4>1. k = <<-Quality(c), Cost(y, c), -Name(c)>>
        BY Zenon, <2>1
      <4>2. l = <<0, 0, 0, -Quality(c), Cost(y, c), -Name(c)>>
        BY Zenon, <2>2
      <4> HIDE DEF k, l
      <4>3. /\ k[1] = -Quality(c) /\ k[2] = Cost(y, c) /\ k[3] = -Name(c)
            /\ l[4] = -Quality(c) /\ l[5] = Cost(y, c) /\ l[6] = -Name(c)
            /\ l[1] = 0 /\ l[2] = 0 /\ l[3] = 0
        BY <4>1, <4>2
      <4>4. ASSUME NEW i \in 1..3 PROVE l[3 + i] = k[i] /\ l[i] = 0
        <5>1. \/ i = 1 /\ 3 + i = 4
              \/ i = 2 /\ 3 + i = 5
              \/ i = 3 /\ 3 + i = 6
          OBVIOUS
        <5> QED
          BY Zenon, <4>3, <5>1
      <4> QED
        BY <4>4 DEF k, l
    <3>2. 3 + 3 = 6
      OBVIOUS
    <3> QED
      BY <2>4, <3>1, <3>2 DEF Behind
  <2> USE DEF R
  <2>6. Heads(b, R, fine)
    BY <1>2, <2>3, <2>4, BestHeads, 3 \in Nat
  <2>7. Heads(b, R, wide)
    BY <2>3, <2>5, <2>6, HeadsBehind, 3 \in Nat
  <2>8. d \in R
    <3> SUFFICES ASSUME d \notin ready PROVE FALSE
      BY <1>9
    <3>1. PICK e \in R : TRUE
      BY <2>3
    <3>2. key[e] = <<0, 0, 0, -Quality(e), Name(e)>> /\ key[d] = <<1, 0, wait(d), -Quality(d), Name(d)>>
      BY <1>7, <1>9
    <3>3. key[e][1] = 0 /\ key[d][1] = 1 /\ 1 \in DOMAIN key[e] /\ key[e] # key[d]
      BY <3>2
    <3>4. Before(key[e], key[d])
      BY <3>3 DEF Before
    <3>5. Earlier(d, e, key) /\ Earlier(e, d, key)
      BY <1>8, <3>4 DEF Heads, Earlier
    <3>6. Comparable(up, key) /\ up \in SUBSET Nat
      BY <1>5, <1>6, <1>7, ModelsAre, 5 \in Nat DEF Comparable
    <3> QED
      BY Zenon, <1>9, <3>1, <3>5, <3>6, EarlierOrder
  <2>9. Heads(d, R, key)
    BY <1>8, <2>8, HeadsPart
  <2>10. Alike(R, wide, 6, key, 5, 4)
    <3> SUFFICES ASSUME NEW c \in R PROVE \A i \in 1..4 : wide[c][i] = key[c][i]
      BY <1>5, <1>7, <2>4 DEF Alike
    <3>1. key[c] = <<0, 0, 0, -Quality(c), Name(c)>>
      BY <1>7
    <3> QED
      BY <2>2, <3>1
  <2>11. Level(wide, b, d, 4)
    BY <2>3, <2>7, <2>9, <2>10, HeadsAgree, 6 \in Nat, 5 \in Nat, 4 \in Nat, 4 <= 6, 4 <= 5
  <2>12. wide[b][4] = wide[d][4]
    BY <2>11 DEF Level
  <2>13. b \in R
    BY <2>6 DEF Heads
  <2>14. wide[b][4] = -Quality(b) /\ wide[d][4] = -Quality(d)
    BY <2>2, <2>8, <2>13
  <2>15. -Quality(b) = -Quality(d)
    BY Zenon, <2>12, <2>14
  <2> QED
    BY <1>3, <2>3, <2>8, <2>13, <2>15 DEF Finer
<1>11. CASE up \cap ready = {}
  <2>1. \A c \in up : /\ soon[c] = <<wait(c), -Quality(c), Name(c)>>
                      /\ key[c] = <<1, 0, wait(c), -Quality(c), Name(c)>>
    BY <1>6, <1>7, <1>11
  <2> HIDE DEF soon
  <2>2. Behind(up, soon, 3, key, 2)
    <3>1. ASSUME NEW c \in up
          PROVE  /\ soon[c] \in [1..3 -> Int] /\ key[c] \in [1..(2 + 3) -> Int]
                 /\ \A i \in 1..3 : key[c][2 + i] = soon[c][i]
                 /\ key[c][1] = 1 /\ key[c][2] = 0
      <4>1. wait(c) \in Int /\ -Quality(c) \in Int /\ Name(c) \in Int
        BY <1>3, <1>6
      <4>2. /\ soon[c] = <<wait(c), -Quality(c), Name(c)>>
            /\ key[c] = <<1, 0, wait(c), -Quality(c), Name(c)>>
        BY Zenon, <2>1
      <4>3. key[c][1] = 1 /\ key[c][2] = 0
        BY <4>2
      <4> QED
        BY <4>1, <4>2, <4>3, ThreeBehind
    <3> QED
      BY <3>1 DEF Behind
  <2>3. \A c \in up : soon[c] \in [1..3 -> Int]
    BY <2>2 DEF Behind
  <2>4. Heads(b, up, soon)
    BY <1>2, <1>6, <1>9, <1>11, <2>3, BestHeads, 3 \in Nat
  <2>5. Heads(b, up, key)
    BY <1>6, <2>2, <2>4, HeadsBehind, 3 \in Nat, 2 \in Nat
  <2>6. b = d
    <3>1. \A c \in up : key[c] \in [1..5 -> Int]
      BY <1>5, <1>7
    <3> QED
      BY <1>6, <1>8, <2>5, <3>1, HeadsOnce, 5 \in Nat
  <2> QED
    BY <2>6
<1> QED
  BY <1>10, <1>11

\* The scores are made from what a circuit does not change.
LEMMA BlendStays ==
    ASSUME NEW x, NEW y, NEW p, Tripped(x, y, p), NEW pool, NEW w
    PROVE  Blend(y, pool, w) = Blend(x, pool, w)
  BY TrippedIs DEF Blend

LEMMA HealthFollows ==
    ASSUME NEW x, NEW y, NEW p, Tripped(x, y, p), NEW rank
    PROVE  Follows(y, p, ProviderHealthScoreBlend(x), ProviderHealthScoreBlend(y), rank)
<1> DEFINE E == Eligible(x)
           w == Weights(Settings.health_blend, <<0, 1, 0, 0>>)
           score == Blend(x, E, w)
           up(z) == Closed(z, E)
           health(z, c) == IF up(z) = {} \/ c \in up(z) THEN score[c] ELSE 0
           of(z) == [c \in Models |-> <<-health(z, c), -Success(x, c), -Quality(c), Cost(x, c)>>]
           k == of(x)
           l == of(y)
           order == [c \in Models |-> <<Late(c \notin up(x))>> \o k[c]]
           first == ProviderHealthScoreBlend(x).chosen
           b == ProviderHealthScoreBlend(y).chosen
           d == NextOf(y, ProviderHealthScoreBlend(x))
           left == Closed(y, E)
<1>a. \A c, s : Decision(c, s).chosen = c
  BY DEF Decision
<1>1. /\ ProviderHealthScoreBlend(x) = Decision(first, Sorted(E \ {first}, order))
      /\ first = Best(Active(x), k)
  BY Zenon, <1>a DEF ProviderHealthScoreBlend
<1>2. b = Best(Active(y), l)
  <2>1. Eligible(y) = E /\ Blend(y, E, w) = score
    BY TrippedIs, BlendStays
  <2>2. \A c : Cost(y, c) = Cost(x, c) /\ Success(y, c) = Success(x, c)
    BY TrippedIs
  <2> DEFINE yl == [c \in Models |-> <<-health(y, c), -Success(y, c), -Quality(c), Cost(y, c)>>]
  <2>3. b = Best(Active(y), yl)
    <3> HIDE DEF w
    <3> QED
      BY Zenon, <1>a, <2>1 DEF ProviderHealthScoreBlend, w
  <2>4. yl = l
    <3> HIDE DEF health
    <3> QED
      BY <2>2
  <2> QED
    BY Zenon, <2>3, <2>4
<1>3. E \in SUBSET Models /\ E # {} /\ \A c \in E : score[c] \in Int
  <2>1. \A i \in 1..4 : w[i] \in Int
    <3>1. \A i \in 1..4 : Settings.health_blend[i] \in Nat
      BY Zenon, SettingsAssumption DEF SettingsAssumption
    <3>2. \A i \in 1..4 : <<0, 1, 0, 0>>[i] \in Nat
      OBVIOUS
    <3> QED
      BY <3>1, <3>2, WeightsAre
  <2>2. E \in SUBSET Models /\ E # {}
    BY EligibleIs
  <2> HIDE DEF w, E
  <2> QED
    BY <2>1, <2>2, BlendIs DEF Tripped
<1> HIDE DEF score, w
<1>4. \A c \in E : /\ health(x, c) \in Int /\ health(y, c) \in Int /\ Success(x, c) \in Int
                   /\ Quality(c) \in Int /\ Cost(x, c) \in Int
  <2>1. \A c \in E : Success(x, c) \in Int /\ Quality(c) \in Int /\ Cost(x, c) \in Int
    BY <1>3, MeasureIs, CandidateIs DEF Tripped
  <2> HIDE DEF E, up
  <2> QED
    BY <1>3, <2>1
<1>5. \A c \in left : c \in E /\ c \in up(x) /\ c \in up(y)
  BY TrippedIs DEF Closed
<1>6. \A c \in left : health(x, c) = health(y, c)
  BY <1>5
<1>b. left = up(y)
  OBVIOUS
<1> HIDE DEF health, E, up, left
<1>7. \A c \in E : k[c] \in [1..4 -> Int] /\ l[c] \in [1..4 -> Int]
  BY <1>3, <1>4
<1>8. \A c \in left : k[c] = l[c]
  BY <1>3, <1>5, <1>6
<1>9. \A c \in E : order[c] = <<Late(c \notin up(x))>> \o k[c]
  BY <1>3
<1> HIDE DEF of, order, first, b
<1>10. \A c \in E : /\ order[c] \in [1..(1 + 4) -> Int]
                    /\ order[c][1] = Late(c \notin up(x))
                    /\ \A i \in 1..4 : order[c][1 + i] = k[c][i]
  <2> SUFFICES ASSUME NEW c \in E
               PROVE  /\ order[c] \in [1..(1 + 4) -> Int]
                      /\ order[c][1] = Late(c \notin up(x))
                      /\ \A i \in 1..4 : order[c][1 + i] = k[c][i]
    OBVIOUS
  <2> DEFINE f == k[c]
             z == Late(c \notin up(x))
             s == <<z>>
             t == order[c]
  <2>1. t = s \o f
    BY Zenon, <1>9
  <2>2. f \in [1..4 -> Int] /\ z \in Int
    BY <1>7 DEF Late
  <2> HIDE DEF f, z, t
  <2>3. s \in [1..1 -> Int] /\ s[1] = z /\ 1 \in 1..1
    BY <2>2
  <2> HIDE DEF s
  <2>4. s \o f \in [1..(1 + 4) -> Int]
    BY <2>2, <2>3, Joined, 1 \in Nat, 4 \in Nat
  <2>5. (s \o f)[1] = s[1] /\ \A i \in 1..4 : (s \o f)[1 + i] = f[i]
    BY <2>2, <2>3, JoinedAt, 1 \in Nat, 4 \in Nat
  <2>6. t[1] = z /\ \A i \in 1..4 : t[1 + i] = f[i]
    BY Zenon, <2>1, <2>3, <2>5
  <2> QED
    BY <2>1, <2>4, <2>6 DEF t, f, z
<1> SUFFICES ASSUME p = Provider(first), Alive(y, ProviderHealthScoreBlend(x).chain) # {}
             PROVE  b = d
  BY DEF Follows, first, b
<1>11. Heads(d, left, order)
  <2>1. ~Up(y, first)
    BY TrippedIs
  <2>2. Alive(y, Decision(first, Sorted(E \ {first}, order)).chain) # {}
    BY <1>1
  <2>3. \A c \in E : order[c] \in [1..5 -> Int]
    BY <1>10
  <2>4. Heads(NextOf(y, Decision(first, Sorted(E \ {first}, order))), Closed(y, E), order)
    BY <1>3, <2>1, <2>2, <2>3, NextHeads, 5 \in Nat
  <2> QED
    BY <1>1, <2>4 DEF left
<1> HIDE DEF d
<1>12. d \in left
  BY <1>11 DEF Heads
<1>13. Active(y) = left /\ left \in SUBSET Models /\ left # {} /\ left \subseteq E
  <2>1. first \in Active(x)
    <3>1. Active(x) \in SUBSET E /\ Active(x) # {} /\ Active(x) \in SUBSET Models
      BY <1>3, ActiveIs DEF Active, E, OrElse, Closed
    <3>2. \A c \in Active(x) : k[c] \in [1..4 -> Int]
      BY <1>7, <3>1
    <3> QED
      BY <1>1, <3>1, <3>2, BestIn, 4 \in Nat
  <2>2. Active(y) = left
    BY <1>12, TrippedIs DEF left, Active, E, OrElse, Closed
  <2> QED
    BY <1>3, <1>5, <1>12, <2>2
<1>14. Heads(b, left, l)
  BY <1>2, <1>7, <1>13, BestHeads, 4 \in Nat
<1>15. Behind(left, l, 4, order, 1)
  <2>1. \A c \in left : order[c][1] = 0
    BY <1>5, <1>10 DEF Late
  <2>2. \A c, e \in left : \A i \in 1..1 : order[c][i] = order[e][i]
    BY <2>1
  <2>3. \A c \in left : /\ l[c] \in [1..4 -> Int] /\ order[c] \in [1..(1 + 4) -> Int]
                        /\ \A i \in 1..4 : order[c][1 + i] = l[c][i]
    BY <1>5, <1>7, <1>8, <1>10
  <2> QED
    BY <2>2, <2>3 DEF Behind
<1>16. Heads(b, left, order)
  BY <1>13, <1>14, <1>15, HeadsBehind, 4 \in Nat, 1 \in Nat
<1> QED
  <2>1. \A c \in left : order[c] \in [1..5 -> Int]
    BY <1>10, <1>13
  <2> QED
    BY <1>11, <1>13, <1>16, <2>1, HeadsOnce, 5 \in Nat

\* The next of the list that is up, whether it is told by the chain or by the list.
LEMMA PriorityFollows ==
    ASSUME NEW x, NEW y, NEW p, Tripped(x, y, p), NEW rank
    PROVE  Follows(y, p, FailoverPriority(x), FailoverPriority(y), rank)
<1> DEFINE priority == Settings.priority
           up(z) == {i \in DOMAIN priority : Up(z, priority[i])}
           c == priority[IF up(x) # {} THEN LeastOf(up(x)) ELSE 1]
           b == priority[IF up(y) # {} THEN LeastOf(up(y)) ELSE 1]
           kept == {i \in DOMAIN priority : priority[i] # c}
           t == Filtered(priority, kept)
           d == NextOf(y, FailoverPriority(x))
           least == LeastOf(up(y))
<1>a. \A e, s : Decision(e, s).chosen = e
  BY DEF Decision
<1>1. FailoverPriority(x) = Decision(c, t) /\ FailoverPriority(y).chosen = b
  BY Zenon, <1>a DEF FailoverPriority
<1>2. priority \in Seq(Models)
  BY Zenon, SettingsAssumption DEF SettingsAssumption
<1> HIDE DEF priority, c
<1>3. DOMAIN priority \in SUBSET Nat /\ kept \in SUBSET DOMAIN priority
  BY <1>2
<1>4. up(y) \in SUBSET Nat /\ \A i \in DOMAIN priority : i \in up(y) <=> Up(y, priority[i])
  BY <1>3
<1>5. \A i \in DOMAIN priority : i \in kept <=> priority[i] # c
  OBVIOUS
<1>b. up(y) \subseteq DOMAIN priority
  OBVIOUS
<1> HIDE DEF kept, up
<1>6. t \in Seq(Models) /\ Keeps(t, priority, kept)
  BY <1>2, <1>3, FilteredIs
<1> HIDE DEF t, b
<1> SUFFICES ASSUME p = Provider(FailoverPriority(x).chosen), Alive(y, FailoverPriority(x).chain) # {}
             PROVE  FailoverPriority(y).chosen = d
  BY DEF Follows
<1>7. ~Up(y, c)
  BY <1>1, <1>a, TrippedIs
<1>8. FirstUp(d, y, t)
  <2>1. FirstUp(NextOf(y, Decision(c, t)), y, t)
    BY <1>1, <1>6, NextIs
  <2> QED
    BY Zenon, <1>1, <2>1
<1> HIDE DEF d
<1>9. PICK k \in DOMAIN t : t[k] = d /\ Up(y, d) /\ \A j \in 1..(k - 1) : ~Up(y, t[j])
  BY <1>8 DEF FirstUp
<1>10. PICK at \in [DOMAIN t -> kept] :
        /\ \A j \in DOMAIN t : t[j] = priority[at[j]]
        /\ \A i \in kept : \E j \in DOMAIN t : at[j] = i
        /\ \A i, j \in DOMAIN t : i < j <=> at[i] < at[j]
  BY <1>6 DEF Keeps
<1> DEFINE h == at[k]
<1>11. h \in kept /\ priority[h] = d /\ h \in DOMAIN priority /\ h \in up(y)
  BY <1>3, <1>4, <1>9, <1>10
<1>12. least \in up(y) /\ least <= h
  BY <1>4, <1>11, LeastIs
<1> HIDE DEF least, h
<1>13. least \in DOMAIN priority /\ Up(y, priority[least]) /\ least \in Nat /\ h \in Nat
  BY <1>3, <1>4, <1>11, <1>12, <1>b
<1>14. least = h
  <2> SUFFICES ASSUME least < h PROVE FALSE
    BY <1>12, <1>13
  <2>1. least \in kept
    BY <1>5, <1>7, <1>13
  <2>2. PICK j \in DOMAIN t : at[j] = least
    BY <1>10, <2>1
  <2>3. j < k
    BY <1>9, <1>10, <2>2 DEF h
  <2>4. j \in 1..(k - 1)
    BY <1>6, <1>9, <2>2, <2>3
  <2> QED
    BY <1>9, <1>10, <1>13, <2>2, <2>4
<1> QED
  BY <1>1, <1>11, <1>12, <1>14 DEF b, least

LEMMA QosFollows ==
    ASSUME NEW x, NEW y, NEW p, Tripped(x, y, p)
    PROVE  /\ Follows(y, p, RequestClassQos(x), RequestClassQos(y), Finer)
           /\ Follows(y, p, DeadlineAwarePick(x), DeadlineAwarePick(y), Finer)
<1> DEFINE k == Middling(x)
           l == Middling(y)
           A == Active(x)
<1>0. y.class = x.class /\ y.remaining = x.remaining /\ WellFormed(x) /\ WellFormed(y)
  BY DEF Tripped, Fields
<1>1. \A c \in Models : /\ k[c] \in [1..3 -> Int] /\ l[c] \in [1..3 -> Int]
                        /\ k[c][1] = -Quality(c) /\ l[c][1] = -Quality(c)
  BY <1>0, QosIs
<1>2. \A c \in Models : Quality(c) \in Int /\ Finer[c] = Quality(c)
  BY <1>0, CandidateIs DEF Finer
<1>3. A \in SUBSET Models
  BY ActiveIs
<1> HIDE DEF k, l, A
<1>4. Alike(A, l, 3, k, 3, 1)
  BY <1>1, <1>3 DEF Alike
<1>5. ASSUME NEW c \in A, NEW d \in A, Level(l, c, d, 1) PROVE Finer[c] = Finer[d]
  <2>1. l[c][1] = l[d][1]
    BY <1>5 DEF Level
  <2>2. -Quality(c) = -Quality(d)
    BY Zenon, <1>1, <1>3, <2>1
  <2> QED
    BY <1>2, <1>3, <2>2
<1>6. Follows(y, p, RankedBy(A, k), RankedBy(Active(y), l), Finer)
  BY <1>4, <1>5, 3 \in Nat, 1 \in Nat, 1 <= 3, ActiveFollowsRank DEF A
<1>7. /\ x.class = "bulk" => RequestClassQos(x) = CostFirst(x)
      /\ x.class = "batch" => RequestClassQos(x) = RankedBy(A, k)
      /\ x.class \notin {"bulk", "batch"} => RequestClassQos(x) = FastestSeen(x)
      /\ x.class = "bulk" => RequestClassQos(y) = CostFirst(y)
      /\ x.class = "batch" => RequestClassQos(y) = RankedBy(Active(y), l)
      /\ x.class \notin {"bulk", "batch"} => RequestClassQos(y) = FastestSeen(y)
  BY <1>0, QosIs DEF A, k, l
<1>8. /\ Follows(y, p, FastestSeen(x), FastestSeen(y), Finer)
      /\ Follows(y, p, CostFirst(x), CostFirst(y), Finer)
      /\ Follows(y, p, QualityFirst(x), QualityFirst(y), Finer)
  BY QuickFollows, CheapFollows, FinestFollows
<1>9. Follows(y, p, RequestClassQos(x), RequestClassQos(y), Finer)
  BY <1>6, <1>7, <1>8
<1>10. Follows(y, p, DeadlineAwarePick(x), DeadlineAwarePick(y), Finer)
  BY <1>0, <1>8 DEF DeadlineAwarePick
<1> QED
  BY <1>9, <1>10

LEMMA ShedFollows ==
    ASSUME NEW x, NEW y, NEW p, Tripped(x, y, p)
    PROVE  /\ Follows(y, p, TenantSoftIsolation(x), TenantSoftIsolation(y), Rank(x))
           /\ Follows(y, p, PromptInjectionRiskShed(x), PromptInjectionRiskShed(y), Rank(x))
<1>1. y.tenant_rpm = x.tenant_rpm /\ y.risk = x.risk
  BY DEF Tripped, Fields
<1>2. /\ Follows(y, p, CostFirst(x), CostFirst(y), Rank(x))
      /\ Follows(y, p, QualityFirst(x), QualityFirst(y), Rank(x))
  BY CheapFollows, FinestFollows
<1> QED
  BY <1>1, <1>2 DEF TenantSoftIsolation, PromptInjectionRiskShed

LEMMA PrefersFollow ==
    ASSUME NEW x, NEW y, NEW p, Tripped(x, y, p), NEW s \in Prefers \cup {"ThinkingModelPrefer"}
    PROVE  Follows(y, p, Choose(s, x), Choose(s, y), Rank(x))
<1>1. SameWish(x, y)
  BY DEF Tripped, Fields, SameWish
<1>2. PICK wanted, capable : /\ Choose(s, x) = PreferIf(x, wanted, capable)
                             /\ Choose(s, y) = PreferIf(y, wanted, capable)
  <2>1. IsPreference(x, Choose(s, x), y, Choose(s, y))
    BY <1>1, PrefersAre
  <2> QED
    BY Zenon, <2>1 DEF IsPreference
<1>3. \A w, c : Follows(y, p, PreferIf(x, w, c), PreferIf(y, w, c), Rank(x))
  BY FinestFollows
<1> QED
  BY Zenon, <1>2, <1>3

\* What is up in the chain of a usable decision is in the catalog.
LEMMA NextIn ==
    ASSUME NEW decided, Usable(decided), NEW y, Alive(y, decided.chain) # {}
    PROVE  NextOf(y, decided) \in Models
<1> DEFINE alive == Alive(y, decided.chain)
<1>1. DOMAIN decided.chain \in SUBSET Nat /\ \A i \in DOMAIN decided.chain : decided.chain[i] \in Models
  BY DEF Usable
<1>2. alive \in SUBSET DOMAIN decided.chain
  BY DEF Alive
<1> HIDE DEF alive
<1>3. alive \in SUBSET Nat /\ alive # {}
  BY <1>1, <1>2 DEF alive
<1>4. LeastOf(alive) \in alive
  BY <1>3, LeastIs
<1> QED
  BY <1>1, <1>2, <1>4 DEF NextOf, alive

LEMMA ChosenFollows ==
    ASSUME NEW x, NEW y, NEW p, Tripped(x, y, p), NEW s \in Ranking,
           p = Provider(Choose(s, x).chosen), Alive(y, Choose(s, x).chain) # {}
    PROVE  LET b == Choose(s, y).chosen
               d == NextOf(y, Choose(s, x))
           IN  /\ IF s = "ProviderWarmupWeight" THEN Warmed(x, b) = Warmed(x, d)
                  ELSE Quality(b) = Quality(d)
               /\ s \notin AnyPrice => Cost(x, b) = Cost(x, d)
<1> DEFINE b == Choose(s, y).chosen
           d == NextOf(y, Choose(s, x))
<1>1. WellFormed(x) /\ WellFormed(y)
  BY DEF Tripped
<1>2. CASE s = "FailoverPriority"
  <2> DEFINE rank == [c \in {b, d} |-> c]
  <2>1. Follows(y, p, FailoverPriority(x), FailoverPriority(y), rank)
    BY PriorityFollows
  <2>2. rank[b] = rank[d]
    <3> HIDE DEF rank
    <3> QED
      BY <1>2, <2>1, ChooseIs DEF Follows
  <2>3. b = d
    <3>1. rank[b] = b /\ rank[d] = d
      OBVIOUS
    <3> QED
      BY Zenon, <2>2, <3>1
  <2> HIDE DEF b, d
  <2> QED
    BY <2>3 DEF b, d
<1>3. CASE s # "FailoverPriority"
  <2>1. b \in Models
    <3>1. s \in HealthFirst
      BY DEF HealthFirst
    <3> QED
      BY <1>1, <3>1, ChooseLastResort DEF LastResort
  <2>2. d \in Models
    <3>1. s \in Known
      BY DEF Ranking, AnyPrice, Known
    <3>2. Usable(Choose(s, x))
      BY <1>1, <1>3, <3>1, ChosenUsable
    <3> QED
      BY <3>2, NextIn
  <2>3. CASE s \in AnyPrice
    <3>1. Follows(y, p, Choose(s, x), Choose(s, y), Finer)
      BY <2>3, ChooseIs, QosFollows, WaitFollows DEF AnyPrice
    <3>2. Finer[b] = Finer[d]
      BY <3>1 DEF Follows
    <3> HIDE DEF b, d
    <3>3. Quality(b) = Quality(d) /\ s # "ProviderWarmupWeight"
      BY <2>1, <2>2, <2>3, <3>2 DEF Finer, AnyPrice
    <3> QED
      BY <2>3, <3>3 DEF b, d
  <2>4. CASE s = "ProviderWarmupWeight"
    <3> DEFINE rank == [c \in Models |-> <<Warmed(x, c), Cost(x, c)>>]
    <3>1. Follows(y, p, Choose(s, x), Choose(s, y), rank)
      BY <2>4, ChooseIs, WarmFollows
    <3>2. rank[b] = rank[d]
      <4> HIDE DEF rank
      <4> QED
        BY <3>1 DEF Follows
    <3> HIDE DEF b, d
    <3>3. Warmed(x, b) = Warmed(x, d) /\ Cost(x, b) = Cost(x, d)
      BY <2>1, <2>2, <3>2
    <3> QED
      BY <2>4, <3>3 DEF b, d
  <2>5. CASE s \notin AnyPrice \cup {"ProviderWarmupWeight"}
    <3>1. s \in {"TenantSoftIsolation", "PromptInjectionRiskShed", "ModelCapabilityGate",
                 "LongContextPrefer", "ProviderHealthScoreBlend", "SoftRateLimit"}
          => Follows(y, p, Choose(s, x), Choose(s, y), Rank(x))
      BY ChooseIs, ShedFollows, GateFollows, WindowFollows, HealthFollows, LimitFollows
    <3>2. s \in Prefers \cup {"ThinkingModelPrefer"}
          => Follows(y, p, Choose(s, x), Choose(s, y), Rank(x))
      BY PrefersFollow
    <3>3. Follows(y, p, Choose(s, x), Choose(s, y), Rank(x))
      BY <1>3, <2>5, <3>1, <3>2 DEF Ranking
    <3>4. Rank(x)[b] = Rank(x)[d]
      BY <3>3 DEF Follows
    <3> HIDE DEF b, d
    <3>5. Quality(b) = Quality(d) /\ Cost(x, b) = Cost(x, d)
      BY <2>1, <2>2, <3>4 DEF Rank
    <3> QED
      BY <2>5, <3>5 DEF b, d
  <2> QED
    BY <2>3, <2>4, <2>5
<1> QED
  BY <1>2, <1>3

\* Of the steps, only that of its circuit opens one.
LEMMA OpensTrips ==
    ASSUME Fresh, Next, Fresh', NEW p \in Providers, Opens(p)
    PROVE  Tripped(q, q', p) /\ strategy' = strategy
<1>1. WellFormed(q) /\ WellFormed(q')
  BY DEF Fresh
<1>2. strategy' = strategy
  BY DEF Next, Ask
<1>3. PICK r \in Providers : Trip(r) \/ Recover(r) \/ Close(r) \/ Improve(r)
  BY DEF Next
<1>4. CASE Trip(r)
  <2>1. p = r /\ p \notin q.open
    BY <1>1, <1>4 DEF Trip, Opens, WellFormed, Fields
  <2> QED
    BY <1>1, <1>2, <1>4, <2>1 DEF Trip, Tripped, WellFormed, Fields, Measures
<1>5. CASE Recover(r) \/ Close(r) \/ Improve(r)
  <2>1. q'.open \subseteq q.open
    <3>1. CASE Recover(r) \/ Close(r)
      BY <1>1, <3>1 DEF Recover, Close, WellFormed, Fields
    <3>2. CASE Improve(r)
      <4>1. DOMAIN Levels \subseteq Measures
        BY Zenon, QuestionsAssumption DEF QuestionsAssumption
      <4>2. PICK f \in Measures : \E v : q' = [q EXCEPT ![f][r] = v]
        BY <3>2, <4>1 DEF Improve
      <4>3. PICK v : q' = [q EXCEPT ![f][r] = v]
        BY <4>2
      <4> QED
        BY <4>2, <4>3 DEF Measures
    <3> QED
      BY <1>5, <3>1, <3>2
  <2> QED
    BY <2>1 DEF Opens
<1> QED
  BY <1>3, <1>4, <1>5

LEMMA FailsOverOnce ==
    ASSUME Fresh, Next, Fresh', NEW p \in Providers, strategy \in Ranking,
           p = Provider(Chosen), Opens(p), Alive(q', decision.chain) # {}
    PROVE  SameRank(decision'.chosen, NextOf(q', decision))
<1>1. Tripped(q, q', p) /\ strategy' = strategy
  BY OpensTrips
<1>2. decision = Choose(strategy, q) /\ decision' = Choose(strategy, q')
  BY <1>1 DEF Fresh
<1> QED
  BY <1>1, <1>2, ChosenFollows DEF SameRank, Chosen

\* When the circuit of the chosen provider opens, the request that fails over along the
\* chain it was given and those that are decided after it go to models of one rank,
\* whatever the catalog, the settings and the measurements, also when FailoverPriority's
\* list names a model twice.
THEOREM ChainIsFollowed == Spec => FailoverFollowsChain
<1> DEFINE Follow == \A p \in Providers :
                /\ strategy \in Ranking
                /\ p = Provider(Chosen) /\ Opens(p)
                /\ Alive(q', decision.chain) # {}
                => SameRank(decision'.chosen,
                            decision.chain[LeastOf(Alive(q', decision.chain))])
<1>1. Fresh /\ Fresh' /\ [Next]_vars => [Follow]_vars
  BY FailsOverOnce DEF NextOf
<1> QED
  BY <1>1, FreshInit, FreshStep, PTL DEF Spec, FailoverFollowsChain
===============================================================================
