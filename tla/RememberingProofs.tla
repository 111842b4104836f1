--------------------------- MODULE RememberingProofs ---------------------------
(***************************************************************************)
(* What the strategies that remember promise, for any catalog, settings,   *)
(* clients and tasks: what they remember stays well formed, what one       *)
(* client asks is no matter of another's, and what is remembered neither   *)
(* holds a request where nothing answers nor exceeds its bounds.           *)
(***************************************************************************)
EXTENDS Remembering, BuiltinsProofs, SequenceTheorems

-----------------------------------------------------------------------------
(* The questions *)

\* What the strategies see: of it, only the circuits, the success rates and the
\* drained regions ever change.
Seen(x) ==
    /\ DOMAIN x = DOMAIN Circumstances
    /\ x.domain = Circumstances.domain /\ x.prompt = Circumstances.prompt
    /\ x.max_tokens = Circumstances.max_tokens
    /\ x.warmup_region = Circumstances.warmup_region /\ x.latency = Circumstances.latency
    /\ x.open \in SUBSET Providers /\ x.half_open \in SUBSET (Providers \ x.open)
    /\ x.success \in [Providers -> Int]

\* The regions that a session can be held to.
Places(c) ==
    ToSet(Settings.regions \o Settings.catalog_regions)
        \cup {NoRegion, Profile[c].region, Circumstances.warmup_region, "fallback"}

\* What is in a question of client c.
Asked(c, q) ==
    /\ q.client = c /\ q.key \in Nat /\ q.region = Profile[c].region
    /\ q.lane = Profile[c].lane /\ Settings.lane_quota[q.lane] \in Nat
    /\ \A r \in Places(c) \ {NoRegion} : q.spread[r] \in Nat
    /\ q.warmup_region = Circumstances.warmup_region
    /\ q.domain = Circumstances.domain
    /\ q.prompt = Circumstances.prompt /\ q.max_tokens = Circumstances.max_tokens
    /\ q.prompt \in Nat /\ q.max_tokens \in Nat
    /\ q.open \in SUBSET Providers /\ q.half_open \in SUBSET (Providers \ q.open)
    /\ q.success \in [Providers -> Int] /\ q.latency \in [Providers -> Int]

LEMMA AskingIs ==
    ASSUME NEW c \in Clients, NEW x, Seen(x)
    PROVE  /\ Asked(c, Asking(c, x))
           /\ Asking(c, x).open = x.open /\ Asking(c, x).half_open = x.half_open
           /\ Asking(c, x).draining = x.draining /\ Asking(c, x).success = x.success
<1>1. /\ DOMAIN Profile[c] = {"client", "region", "lane", "key", "spread"}
      /\ Profile[c].client = c /\ Settings.lane_quota[Profile[c].lane] \in Nat
      /\ Profile[c].key \in Nat
      /\ \A r \in Places(c) \ {NoRegion} : Profile[c].spread[r] \in Nat
  <2>1. Places(c) \ {NoRegion}
            = (ToSet(Settings.regions \o Settings.catalog_regions) \cup
               {Profile[c].region, Circumstances.warmup_region, "fallback"}) \ {NoRegion}
    BY Zenon DEF Places
  <2> QED
    BY Zenon, <2>1, ClientsAssumption
<1>2. /\ DOMAIN x = {"domain", "prompt", "max_tokens", "warmup_region", "open",
                     "half_open", "draining", "success", "latency"}
      /\ Circumstances.prompt \in Nat /\ Circumstances.max_tokens \in Nat
      /\ Circumstances.latency \in [Providers -> Int]
  BY CircumstancesAssumption DEF Seen
<1> DEFINE q == Asking(c, x)
<1>3. \A f \in DOMAIN x : q[f] = x[f]
  BY DEF Asking
<1>4. \A f \in DOMAIN Profile[c] : f \notin DOMAIN x => q[f] = Profile[c][f]
  BY DEF Asking
<1>5. /\ q.client = c /\ q.key = Profile[c].key /\ q.region = Profile[c].region
      /\ q.lane = Profile[c].lane /\ q.spread = Profile[c].spread
  BY <1>1, <1>2, <1>4
<1>6. /\ q.domain = x.domain /\ q.prompt = x.prompt /\ q.max_tokens = x.max_tokens
      /\ q.warmup_region = x.warmup_region /\ q.open = x.open /\ q.half_open = x.half_open
      /\ q.draining = x.draining /\ q.success = x.success /\ q.latency = x.latency
  BY <1>2, <1>3
<1> HIDE DEF q
<1>7. Asked(c, q)
  BY <1>1, <1>2, <1>5, <1>6 DEF Seen, Asked
<1> QED
  BY <1>6, <1>7 DEF q
-----------------------------------------------------------------------------
(* What a candidate is compared by *)

LEMMA ModelsAre ==
    ASSUME NEW pool \in SUBSET Models
    PROVE  pool \in SUBSET Nat /\ IsFiniteSet(pool)
  BY CatalogAssumption, FS_Subset DEF CatalogAssumption

LEMMA CandidateIs ==
    ASSUME NEW q, q.prompt \in Nat, q.max_tokens \in Nat, NEW c \in Models
    PROVE  /\ Quality(c) \in Nat /\ Name(c) \in Nat /\ Provider(c) \in Providers
           /\ Cost(q, c) \in Nat
<1>1. /\ Quality(c) \in Nat /\ Name(c) \in Nat
      /\ \A i \in {1, 2} : Catalog[c].short[i] \in Nat /\ Catalog[c].long[i] \in Nat
  BY CatalogAssumption DEF CatalogAssumption
<1> DEFINE rate == IF q.prompt > Catalog[c].long_above THEN Catalog[c].long ELSE Catalog[c].short
<1>2. rate[1] \in Nat /\ rate[2] \in Nat
  BY <1>1
<1>3. Cost(q, c) = q.prompt * rate[1] + q.max_tokens * rate[2]
  BY DEF Cost
<1> HIDE DEF rate
<1>4. q.prompt * rate[1] \in Nat /\ q.max_tokens * rate[2] \in Nat
  BY <1>2
<1> QED
  BY <1>1, <1>3, <1>4 DEF Providers

\* What min and max choose is in the pool.
LEMMA BestIn ==
    ASSUME NEW pool \in SUBSET Models, pool # {}, NEW n \in Nat, NEW key,
           \A c \in pool : key[c] \in [1..n -> Int]
    PROVE  Best(pool, key) \in pool
<1>1. Comparable(pool, key)
  BY DEF Comparable
<1> QED
  BY <1>1, ModelsAre, BestIsFirst

LEMMA EligibleIs == ASSUME NEW q PROVE Eligible(q) \in SUBSET Models /\ Eligible(q) # {}
  BY CatalogAssumption DEF CatalogAssumption, Eligible, Serving, OrElse

LEMMA ActiveIs ==
    ASSUME NEW q
    PROVE  /\ Active(q) \in SUBSET Models /\ Active(q) # {} /\ Active(q) \subseteq Eligible(q)
           /\ Closed(q, Eligible(q)) # {} => Active(q) = Closed(q, Eligible(q))
  BY EligibleIs DEF Active, Closed, OrElse

\* The usual keys.
LEMMA FinestIn ==
    ASSUME NEW q, q.prompt \in Nat, q.max_tokens \in Nat, NEW pool \in SUBSET Models, pool # {}
    PROVE  FinestByName(q, pool) \in pool /\ Best(pool, ByCost(q)) \in pool
<1> DEFINE three == [c \in Models |-> <<-Quality(c), Cost(q, c), -Name(c)>>]
           cheap == [c \in Models |-> <<Cost(q, c), -Quality(c), Name(c)>>]
<1>1. \A c \in pool : Quality(c) \in Int /\ Cost(q, c) \in Int /\ Name(c) \in Int
  BY CandidateIs
<1>2. \A c \in pool : three[c] \in [1..3 -> Int] /\ cheap[c] \in [1..3 -> Int]
  BY <1>1
<1>3. Best(pool, three) \in pool /\ Best(pool, cheap) \in pool
  <2> HIDE DEF three, cheap
  <2> QED
    BY <1>2, 3 \in Nat, BestIn
<1> QED
  BY <1>3 DEF FinestByName, ByCost
-----------------------------------------------------------------------------
(* Decisions that the engine can use *)

Usable(decision) ==
    /\ decision.chosen \in Models
    /\ Len(decision.chain) <= 3
    /\ ToSet(decision.chain) \subseteq Models \ {decision.chosen}
    /\ IsInjective(decision.chain)

\* Any part of an enumeration is one.
LEMMA FirstThree ==
    ASSUME NEW S, NEW s \in Seq(S), \A i, j \in DOMAIN s : i # j => s[i] # s[j]
    PROVE  /\ UpTo3(s) \in Seq(S) /\ Len(UpTo3(s)) <= 3
           /\ ToSet(UpTo3(s)) \subseteq S /\ IsInjective(UpTo3(s))
<1>1. CASE Len(s) <= 3
  <2>1. UpTo3(s) = s
    BY <1>1 DEF UpTo3
  <2> QED
    BY <1>1, <2>1 DEF ToSet, IsInjective
<1>2. CASE ~(Len(s) <= 3)
  <2> DEFINE u == SubSeq(s, 1, 3)
  <2>1. UpTo3(s) = u
    BY <1>2 DEF UpTo3
  <2>2. u \in Seq(S) /\ Len(u) = 3 /\ \A i \in 1..3 : u[i] = s[i]
    BY <1>2
  <2>3. DOMAIN s = 1..Len(s) /\ DOMAIN u = 1..3 /\ Len(s) \in Nat
    BY <2>2
  <2> HIDE DEF u
  <2>4. \A i \in 1..3 : i \in DOMAIN s /\ u[i] = s[i] /\ u[i] \in S
    BY <1>2, <2>2, <2>3
  <2>5. ToSet(u) \subseteq S
    BY <2>3, <2>4 DEF ToSet
  <2>6. IsInjective(u)
    BY <2>3, <2>4 DEF IsInjective
  <2> QED
    BY <2>1, <2>2, <2>5, <2>6
<1> QED
  BY <1>1, <1>2

LEMMA OrderedUsable ==
    ASSUME NEW c \in Models, NEW pool \in SUBSET (Models \ {c}), NEW n \in Nat, NEW key,
           \A d \in pool : key[d] \in [1..n -> Int]
    PROVE  Usable(Decision(c, Sorted(pool, key)))
<1> DEFINE s == Sorted(pool, key)
<1>1. Comparable(pool, key) /\ pool \in SUBSET Nat /\ IsFiniteSet(pool)
  BY ModelsAre DEF Comparable
<1>2. s \in Seq(pool) /\ \A i, j \in DOMAIN s : i # j => s[i] # s[j]
  BY <1>1, SortedIsPermutation
<1> HIDE DEF s
<1>3. /\ Len(UpTo3(s)) <= 3 /\ ToSet(UpTo3(s)) \subseteq pool /\ IsInjective(UpTo3(s))
  BY <1>2, FirstThree
<1> QED
  BY <1>3 DEF Usable, Decision, s

LEMMA DecidedUsable ==
    ASSUME NEW c \in Models
    PROVE  Usable(Decided(c)) /\ Decided(c).chosen = c
<1> DEFINE key == [d \in Models |-> <<-Quality(d)>>]
<1>1. \A d \in Models \ {c} : key[d] \in [1..1 -> Int]
  <2>1. \A d \in Models : Quality(d) \in Int
    BY CatalogAssumption DEF CatalogAssumption
  <2> QED
    BY <2>1
<1>2. Usable(Decision(c, Sorted(Models \ {c}, key)))
  <2> HIDE DEF key
  <2> QED
    BY <1>1, 1 \in Nat, OrderedUsable
<1> QED
  BY <1>2 DEF Decided, QualityChain, Decision

\* The first of a ranking, with the next three behind it.
LEMMA RankingUsable ==
    ASSUME NEW pool \in SUBSET Models, pool # {}, NEW n \in Nat, NEW key,
           \A d \in pool : key[d] \in [1..n -> Int]
    PROVE  /\ Usable(FirstOf(Sorted(pool, key)))
           /\ FirstOf(Sorted(pool, key)).chosen \in pool
<1> DEFINE s == Sorted(pool, key)
<1>1. Comparable(pool, key) /\ pool \in SUBSET Nat /\ IsFiniteSet(pool)
  BY ModelsAre DEF Comparable
<1>2. s \in Seq(pool) /\ (\A i, j \in DOMAIN s : i # j => s[i] # s[j]) /\ s # <<>>
  BY <1>1, SortedIsPermutation, HeadOfSorted
<1> HIDE DEF s
<1> DEFINE t == Tail(s)
<1>3. /\ Head(s) \in pool /\ Head(s) = s[1] /\ 1 \in DOMAIN s
      /\ t \in Seq(pool) /\ Len(t) = Len(s) - 1 /\ DOMAIN s = 1..Len(s) /\ Len(s) \in Nat
      /\ \A i \in 1..(Len(s) - 1) : t[i] = s[i + 1]
  BY <1>2
<1> HIDE DEF t
<1>4. \A i \in DOMAIN t : i + 1 \in DOMAIN s /\ i + 1 # 1 /\ t[i] = s[i + 1] /\ i \in Nat
  BY <1>3
<1>5. t \in Seq(pool \ {Head(s)})
  <2>1. \A i \in DOMAIN t : t[i] \in pool \ {Head(s)}
    BY <1>2, <1>3, <1>4
  <2>2. DOMAIN t = 1..Len(t) /\ Len(t) \in Nat /\ t = [i \in 1..Len(t) |-> t[i]]
    BY <1>3
  <2> QED
    BY <2>1, <2>2
<1>6. \A i, j \in DOMAIN t : i # j => t[i] # t[j]
  BY <1>2, <1>4
<1>7. /\ Len(UpTo3(t)) <= 3 /\ ToSet(UpTo3(t)) \subseteq pool \ {Head(s)}
      /\ IsInjective(UpTo3(t))
  BY <1>5, <1>6, FirstThree
<1> QED
  BY <1>3, <1>7 DEF Usable, FirstOf, Decision, s, t

\* The two ends of the catalog.
LEMMA EndsUsable ==
    ASSUME NEW q, q.prompt \in Nat, q.max_tokens \in Nat, NEW pool \in SUBSET Models, pool # {}
    PROVE  /\ Usable(FinestFirst(q, pool)) /\ FinestFirst(q, pool).chosen \in pool
           /\ Usable(CheapestFirst(q, pool)) /\ CheapestFirst(q, pool).chosen \in pool
<1> DEFINE fine == ByQuality(q)
           cheap == ByCost(q)
<1>1. \A c \in pool : Quality(c) \in Int /\ Cost(q, c) \in Int /\ Name(c) \in Int
  BY CandidateIs
<1>2. \A c \in pool : fine[c] \in [1..3 -> Int] /\ cheap[c] \in [1..3 -> Int]
  BY <1>1 DEF ByQuality, ByCost
<1> HIDE DEF fine, cheap
<1>3. FinestByName(q, pool) \in pool
  BY FinestIn
<1> DEFINE c == FinestByName(q, pool)
<1>4. Usable(Decision(c, Sorted(pool \ {c}, fine)))
  <2> HIDE DEF c
  <2>1. c \in Models /\ pool \ {c} \in SUBSET (Models \ {c})
    BY <1>3 DEF c
  <2> QED
    BY <1>2, <2>1, 3 \in Nat, OrderedUsable
<1>5. Usable(FirstOf(Sorted(pool, cheap))) /\ FirstOf(Sorted(pool, cheap)).chosen \in pool
  BY <1>2, 3 \in Nat, RankingUsable
<1> QED
  BY <1>3, <1>4, <1>5 DEF FinestFirst, CheapestFirst, Decision, fine, cheap

\* Indexing by a hash.
LEMMA PickIn ==
    ASSUME NEW pool \in SUBSET Models, pool # {}, NEW k \in Nat
    PROVE  Pick(ByName(pool), k) \in pool
<1> DEFINE key == [c \in Models |-> <<Name(c)>>]
           s == ByName(pool)
<1>1. \A c \in pool : key[c] \in [1..1 -> Int]
  <2>1. \A c \in Models : Name(c) \in Int
    BY CatalogAssumption DEF CatalogAssumption
  <2> QED
    BY <2>1
<1>2. Comparable(pool, key) /\ pool \in SUBSET Nat /\ IsFiniteSet(pool)
  <2> HIDE DEF key
  <2> QED
    BY <1>1, ModelsAre, 1 \in Nat DEF Comparable
<1>3. s \in Seq(pool) /\ s # <<>>
  <2>1. s = Sorted(pool, key)
    BY DEF ByName
  <2> HIDE DEF s, key
  <2> QED
    BY <1>2, <2>1, HeadOfSorted
<1> HIDE DEF s
<1>4. Len(s) \in Nat \ {0}
  BY <1>3
<1>5. k % Len(s) \in 0..(Len(s) - 1)
  BY <1>4
<1>6. 1 + (k % Len(s)) \in DOMAIN s
  BY <1>3, <1>4, <1>5
<1> QED
  BY <1>3, <1>6 DEF Pick, s
-----------------------------------------------------------------------------
(* What is remembered *)

Keys(s) == IF s \in OfProviders THEN Providers ELSE Clients

\* What a strategy counts.
Counted(s) ==
    IF s = "RegionFailoverHysteresis"
    THEN {Region(Profile[c]) : c \in Clients} \cup ToSet(Settings.regions) ELSE Keys(s)

\* Whom or what it lists.
Heard(s) ==
    IF s = "TenantFairQueue" THEN Clients
    ELSE IF s = "TenantPriorityLanes" THEN {Profile[c].lane : c \in Clients} ELSE Providers

Held(s, c) == IF s \in PinsRegions THEN Places(c) ELSE Models \cup {NoModel}

Entries == [left : Int, amount : Nat]

Remembers(s, m) ==
    /\ DOMAIN m = {"tokens", "window", "recent", "pin", "left", "count"}
    /\ m.tokens \in [Keys(s) -> Nat]
    /\ m.window \in [Keys(s) -> Seq(Entries)]
    /\ m.recent \in Seq(Heard(s))
    /\ m.pin = [c \in Clients |-> m.pin[c]] /\ \A c \in Clients : m.pin[c] \in Held(s, c)
    /\ m.left \in [Clients -> Nat]
    /\ m.count \in [Counted(s) -> Nat]

LEMMA SettingIs ==
    /\ Settings.token \in Nat /\ Settings.capacity \in Nat /\ Settings.refill \in Nat
    /\ Settings.window \in Nat /\ Settings.hard_quota \in Nat /\ Settings.soft_quota \in Nat
    /\ Settings.hard_budget \in Nat /\ Settings.soft_budget \in Nat
    /\ Settings.cold_target \in Nat /\ Settings.migrate_below \in Nat /\ Settings.pin_ttl \in Nat
    /\ Settings.hysteresis \in Nat /\ Settings.warmup_requests \in Nat
    /\ Settings.probe_budget \in Nat
    /\ Settings.max_timestamps \in Nat \ {0} /\ Settings.share_lookback \in Nat \ {0}
    /\ Settings.cold_lookback \in Nat \ {0} /\ Settings.tenant_lookback \in Nat \ {0}
    /\ Settings.lane_lookback \in Nat \ {0}
    /\ Settings.soft_budget < Settings.hard_budget
  BY Zenon, SettingsAssumption

LEMMA JoinedHolds ==
    ASSUME NEW S, NEW r \in Seq(S), NEW k \in Seq(S), NEW o, o = r \o k
    PROVE  /\ DOMAIN o \in SUBSET Nat /\ DOMAIN r \in SUBSET Nat /\ IsFiniteSet(DOMAIN r)
           /\ ToSet(r) \subseteq ToSet(o) /\ ToSet(k) \subseteq ToSet(o)
<1> DEFINE n == Len(r)
           l == Len(k)
<1>1. /\ n \in Nat /\ l \in Nat /\ DOMAIN r = 1..n /\ DOMAIN k = 1..l /\ DOMAIN o = 1..(n + l)
      /\ \A i \in 1..n : o[i] = r[i]
      /\ \A i \in 1..l : o[i + n] = k[i]
  OBVIOUS
<1> HIDE DEF n, l
<1>2. IsFiniteSet(DOMAIN r)
  BY <1>1, 1 \in Int, FS_Interval
<1>3. ASSUME NEW i \in DOMAIN r PROVE r[i] \in ToSet(o)
  <2>1. i \in DOMAIN o /\ o[i] = r[i]
    BY <1>1
  <2> QED
    BY <2>1 DEF ToSet
<1>4. ASSUME NEW i \in DOMAIN k PROVE k[i] \in ToSet(o)
  <2>1. i + n \in DOMAIN o /\ o[i + n] = k[i]
    BY <1>1
  <2> QED
    BY <2>1 DEF ToSet
<1>5. DOMAIN o \in SUBSET Nat /\ DOMAIN r \in SUBSET Nat
  BY <1>1
<1>6. ToSet(r) \subseteq ToSet(o) /\ ToSet(k) \subseteq ToSet(o)
  BY <1>3, <1>4 DEF ToSet
<1> QED
  BY <1>2, <1>5, <1>6

\* The regions are named, and the last of them are those of the models.
LEMMA RegionsAre ==
    ASSUME NEW others, others = Settings.regions \o Settings.catalog_regions
    PROVE  /\ Settings.regions # <<>> /\ 1 \in DOMAIN Settings.regions
           /\ DOMAIN Settings.regions \in SUBSET Nat /\ IsFiniteSet(DOMAIN Settings.regions)
           /\ DOMAIN others \in SUBSET Nat
           /\ \A i \in DOMAIN Settings.regions :
                Settings.regions[i] \in ToSet(others) \ {NoRegion}
           /\ \A i \in DOMAIN others : others[i] \in ToSet(others) \ {NoRegion}
           /\ \A c \in Models : Catalog[c].regions \subseteq ToSet(others) \ {NoRegion}
<1> DEFINE r == Settings.regions
           k == Settings.catalog_regions
<1>1. r \in Seq(STRING) /\ r # <<>> /\ k \in Seq(STRING) /\ NoRegion \notin ToSet(others)
      /\ \A c \in Models : Catalog[c].regions \subseteq ToSet(k)
  BY Zenon, SettingsAssumption
<1>2. others = r \o k
  OBVIOUS
<1> HIDE DEF r, k
<1>3. /\ DOMAIN others \in SUBSET Nat /\ DOMAIN r \in SUBSET Nat /\ IsFiniteSet(DOMAIN r)
      /\ ToSet(r) \subseteq ToSet(others) /\ ToSet(k) \subseteq ToSet(others)
  BY Zenon, <1>1, <1>2, JoinedHolds
<1>4. /\ \A i \in DOMAIN others : others[i] \in ToSet(others) \ {NoRegion}
      /\ \A i \in DOMAIN r : r[i] \in ToSet(others) \ {NoRegion}
  BY <1>1, <1>3 DEF ToSet
<1>5. 1 \in DOMAIN r
  BY <1>1
<1>6. \A c \in Models : Catalog[c].regions \subseteq ToSet(others) \ {NoRegion}
  BY <1>1, <1>3
<1> QED
  BY Zenon, <1>1, <1>3, <1>4, <1>5, <1>6 DEF r

\* A field at a time.
LEMMA TokensKept ==
    ASSUME NEW s, NEW m, Remembers(s, m), NEW tokens \in [Keys(s) -> Nat]
    PROVE  Remembers(s, [m EXCEPT !.tokens = tokens])
  BY DEF Remembers

LEMMA WindowKept ==
    ASSUME NEW s, NEW m, Remembers(s, m), NEW k \in Keys(s), NEW w \in Seq(Entries)
    PROVE  Remembers(s, [m EXCEPT !.window[k] = w])
<1>1. [m.window EXCEPT ![k] = w] \in [Keys(s) -> Seq(Entries)]
  BY DEF Remembers
<1> QED
  BY <1>1 DEF Remembers

LEMMA RecentKept ==
    ASSUME NEW s, NEW m, Remembers(s, m), NEW recent \in Seq(Heard(s))
    PROVE  Remembers(s, [m EXCEPT !.recent = recent])
  BY DEF Remembers

LEMMA PinKept ==
    ASSUME NEW s, NEW m, Remembers(s, m), NEW c \in Clients, NEW pin \in Held(s, c)
    PROVE  Remembers(s, [m EXCEPT !.pin[c] = pin])
<1> DEFINE pins == [m.pin EXCEPT ![c] = pin]
<1>1. pins = [d \in Clients |-> pins[d]] /\ \A d \in Clients : pins[d] \in Held(s, d)
  BY DEF Remembers
<1> HIDE DEF pins
<1>2. Remembers(s, [m EXCEPT !.pin = pins])
  BY <1>1 DEF Remembers
<1> QED
  BY <1>2 DEF pins

LEMMA LeftKept ==
    ASSUME NEW s, NEW m, Remembers(s, m), NEW c \in Clients, NEW n \in Nat
    PROVE  Remembers(s, [m EXCEPT !.left[c] = n])
  BY DEF Remembers

LEMMA CountKept ==
    ASSUME NEW s, NEW m, Remembers(s, m), NEW k \in Counted(s), NEW n \in Nat
    PROVE  Remembers(s, [m EXCEPT !.count[k] = n])
  BY DEF Remembers

LEMMA PrunedIs == ASSUME NEW S, NEW w \in Seq(S) PROVE Pruned(w) \in Seq(S)
<1> DEFINE most == Settings.max_timestamps
           from == 1 + Len(w) - most
<1>1. most \in Nat \ {0}
  BY SettingIs
<1> HIDE DEF most
<1>2. CASE Len(w) > most
  <2>1. from \in 2..Len(w) /\ Len(w) \in Nat
    BY <1>1, <1>2
  <2>2. Pruned(w) = SubSeq(w, from, Len(w))
    BY <1>2 DEF Pruned, most
  <2> HIDE DEF from
  <2>3. \A i \in from..Len(w) : w[i] \in S
    BY <2>1
  <2> QED
    BY <2>1, <2>2, <2>3, SubSeqProperties
<1>3. CASE ~(Len(w) > most)
  BY <1>3 DEF Pruned, most
<1> QED
  BY <1>2, <1>3

LEMMA RecordedKept ==
    ASSUME NEW s, NEW m, Remembers(s, m), NEW k \in Keys(s), NEW amount \in Nat
    PROVE  /\ Remembers(s, Recorded(m, k, amount))
           /\ amount = 1 => Remembers(s, Called(m, k))
<1> DEFINE w == m.window[k]
           longer == Append(w, Entry(amount))
<1>1. w \in Seq(Entries) /\ Entry(amount) \in Entries
  BY SettingIs DEF Remembers, Entry, Entries
<1>2. longer \in Seq(Entries)
  BY <1>1
<1>3. Pruned(longer) \in Seq(Entries)
  <2> HIDE DEF longer
  <2> QED
    BY <1>2, PrunedIs
<1>4. Recorded(m, k, amount) = [m EXCEPT !.window[k] = longer]
  BY DEF Recorded, Remembers
<1>5. amount = 1 => Called(m, k) = [m EXCEPT !.window[k] = Pruned(longer)]
  BY DEF Called, Remembers
<1> HIDE DEF longer
<1>6. Remembers(s, [m EXCEPT !.window[k] = longer])
  BY <1>2, WindowKept
<1>7. Remembers(s, [m EXCEPT !.window[k] = Pruned(longer)])
  BY <1>3, WindowKept
<1> QED
  BY Zenon, <1>4, <1>5, <1>6, <1>7

LEMMA ObservedKept ==
    ASSUME NEW s, NEW m, Remembers(s, m), NEW x \in Heard(s), NEW lookback \in Nat \ {0}
    PROVE  Remembers(s, Observed(m, x, lookback))
<1> DEFINE longer == Append(m.recent, x)
           kept == IF Len(longer) > lookback THEN Tail(longer) ELSE longer
<1>1. longer \in Seq(Heard(s)) /\ longer # <<>>
  <2>1. m.recent \in Seq(Heard(s))
    BY DEF Remembers
  <2> QED
    BY <2>1, AppendProperties
<1>2. kept \in Seq(Heard(s))
  <2> HIDE DEF longer
  <2> QED
    BY <1>1
<1>3. Observed(m, x, lookback) = [m EXCEPT !.recent = kept]
  BY DEF Observed
<1> HIDE DEF kept
<1> QED
  BY <1>2, <1>3, RecentKept

LEMMA TimesIs ==
    ASSUME NEW S, NEW s \in Seq(S), NEW x
    PROVE  Times(s, x) \in 0..Len(s)
<1> DEFINE places == {i \in DOMAIN s : s[i] = x}
<1>1. DOMAIN s = 1..Len(s) /\ Len(s) \in Nat
  OBVIOUS
<1>2. IsFiniteSet(1..Len(s)) /\ Cardinality(1..Len(s)) = Len(s)
  <2> DEFINE n == Len(s)
  <2>1. n \in Int /\ ~(1 > n) => n - 1 + 1 = n
    OBVIOUS
  <2>2. n \in Nat
    BY <1>1
  <2> HIDE DEF n
  <2>3. IsFiniteSet(1..n) /\ Cardinality(1..n) = (IF 1 > n THEN 0 ELSE n - 1 + 1)
    BY <2>2, FS_Interval
  <2> QED
    BY <2>2, <2>3 DEF n
<1>3. places \in SUBSET (1..Len(s))
  BY <1>1
<1>4. Cardinality(places) \in Nat /\ Cardinality(places) <= Len(s)
  BY <1>2, <1>3, FS_Subset, FS_CardinalityType
<1> QED
  BY <1>1, <1>4 DEF Times
-----------------------------------------------------------------------------
(* What a window adds up to *)

Amounts(w) == [i \in DOMAIN w |-> w[i].amount]

LEMMA EntriesAre ==
    ASSUME NEW w \in Seq(Entries)
    PROVE  /\ Len(w) \in Nat /\ DOMAIN w = 1..Len(w) /\ IsFiniteSet(DOMAIN w)
           /\ \A i \in DOMAIN w : w[i] \in Entries /\ Amounts(w)[i] = w[i].amount
                                  /\ Amounts(w)[i] \in Nat
<1>1. Len(w) \in Nat /\ DOMAIN w = 1..Len(w) /\ \A i \in DOMAIN w : w[i] \in Entries
  OBVIOUS
<1>2. IsFiniteSet(1..Len(w))
  <2> DEFINE n == Len(w)
  <2>1. n \in Int
    OBVIOUS
  <2> HIDE DEF n
  <2>2. IsFiniteSet(1..n)
    BY <2>1, FS_Interval
  <2> QED
    BY <2>2 DEF n
<1>3. \A i \in DOMAIN w : Amounts(w)[i] = w[i].amount
  BY DEF Amounts
<1>4. \A i \in DOMAIN w : w[i].amount \in Nat
  BY <1>1 DEF Entries
<1> QED
  BY <1>1, <1>2, <1>3, <1>4

\* The fold is a sum.
LEMMA TotalIs ==
    ASSUME NEW w \in Seq(Entries)
    PROVE  Total(w) = SumOf(Amounts(w), DOMAIN w) /\ Total(w) \in Nat
<1> DEFINE f == Amounts(w)
           S == DOMAIN w
           folds(g) == g = [T \in SUBSET S |->
                               IF T = {} THEN 0 ELSE w[Taken(T)].amount + g[T \ {Taken(T)}]]
<1>1. IsFiniteSet(S) /\ \A i \in S : f[i] \in Nat /\ f[i] = w[i].amount
  BY EntriesAre
<1> HIDE DEF f
<1>2. Total(w) = (CHOOSE g : folds(g))[S]
  BY DEF Total, FoldSeq, FoldFunction, FoldFunctionOnSet, MapThenFoldSet, Taken
<1> HIDE DEF S
<1>3. ASSUME NEW g
      PROVE  folds(g) <=> IsSum(g, f, S)
  <2>1. \A T \in SUBSET S : T # {} => f[Taken(T)] = w[Taken(T)].amount
    BY <1>1 DEF Taken
  <2>2. [T \in SUBSET S |-> IF T = {} THEN 0 ELSE w[Taken(T)].amount + g[T \ {Taken(T)}]]
        = [T \in SUBSET S |-> IF T = {} THEN 0 ELSE f[Taken(T)] + g[T \ {Taken(T)}]]
    BY <2>1
  <2> QED
    BY Zenon, <2>2 DEF IsSum
<1>4. \E g : folds(g)
  <2>1. \E g : IsSum(g, f, S)
    BY <1>1, SumExists
  <2> HIDE DEF folds
  <2> QED
    BY <1>3, <2>1
<1> HIDE DEF folds
<1>5. IsSum(CHOOSE g : folds(g), f, S)
  BY <1>3, <1>4
<1>6. Total(w) = SumOf(f, S)
  BY <1>1, <1>2, <1>5, SumIs
<1>7. SumOf(f, S) \in Nat
  BY <1>1, SumNat
<1> QED
  BY <1>6, <1>7 DEF f, S

LEMMA TotalOfNothing == Total(<<>>) = 0
<1>1. <<>> \in Seq(Entries) /\ DOMAIN <<>> = {}
  OBVIOUS
<1> QED
  BY <1>1, TotalIs, SumOfNothing

\* What leaves the window takes nothing away that it did not bring.
LEMMA TotalOfEnd ==
    ASSUME NEW w \in Seq(Entries), NEW v \in Seq(Entries), NEW n \in 0..Len(w),
           Len(v) = Len(w) - n, \A i \in 1..(Len(w) - n) : v[i].amount = w[i + n].amount
    PROVE  Total(v) <= Total(w)
<1> DEFINE f == Amounts(w)
           e == Amounts(v)
           b == [i \in DOMAIN v |-> i + n]
           image == {b[i] : i \in DOMAIN v}
<1>1. /\ Len(w) \in Nat /\ DOMAIN w = 1..Len(w) /\ IsFiniteSet(DOMAIN w)
      /\ \A i \in DOMAIN w : f[i] = w[i].amount /\ f[i] \in Nat
  BY EntriesAre
<1>2. /\ DOMAIN v = 1..(Len(w) - n) /\ IsFiniteSet(DOMAIN v)
      /\ \A i \in DOMAIN v : e[i] = v[i].amount /\ e[i] \in Nat
  BY EntriesAre
<1> HIDE DEF f, e
<1>3. \A i \in DOMAIN v : b[i] \in DOMAIN w /\ e[i] = f[b[i]] /\ b[i] = i + n
  BY <1>1, <1>2
<1>4. \A i, j \in DOMAIN v : b[i] = b[j] => i = j
  BY <1>2, <1>3
<1> HIDE DEF b
<1>5. SumOf(e, DOMAIN v) = SumOf(f, image)
  <2> DEFINE S == DOMAIN v
  <2>1. IsFiniteSet(S) /\ IsFiniteSet(image)
    <3>1. image \in SUBSET DOMAIN w
      BY <1>3
    <3> HIDE DEF image
    <3> QED
      BY <1>1, <1>2, <3>1, FS_Subset
  <2>2. \A y \in image : f[y] \in Int
    BY <1>1, <1>3
  <2>3. Renames(b, S, image)
    BY <1>4 DEF Renames
  <2>4. \A x \in S : e[x] = f[b[x]]
    BY <1>3
  <2> HIDE DEF S, image
  <2>5. SumOf(e, S) = SumOf(f, image)
    BY <2>1, <2>2, <2>3, <2>4, SumMoves
  <2> QED
    BY <2>5 DEF S
<1>6. SumOf(f, image) <= SumOf(f, DOMAIN w)
  <2>1. image \in SUBSET DOMAIN w
    BY <1>3
  <2> HIDE DEF image
  <2> QED
    BY <1>1, <2>1, SumPart
<1> QED
  BY <1>5, <1>6, TotalIs DEF f, e

LEMMA TotalOfAppend ==
    ASSUME NEW w \in Seq(Entries), NEW x \in Entries
    PROVE  Append(w, x) \in Seq(Entries) /\ Total(Append(w, x)) = Total(w) + x.amount
<1> DEFINE v == Append(w, x)
           n == Len(w)
           f == Amounts(w)
           e == Amounts(v)
<1>1. /\ v \in Seq(Entries) /\ Len(v) = n + 1
      /\ \A i \in 1..n : v[i] = w[i]
      /\ v[n + 1] = x
  BY AppendProperties
<1> HIDE DEF v
<1>2. /\ n \in Nat /\ DOMAIN w = 1..n /\ IsFiniteSet(DOMAIN w)
      /\ \A i \in DOMAIN w : f[i] = w[i].amount /\ f[i] \in Nat
  BY EntriesAre
<1>3. /\ DOMAIN v = 1..(n + 1) /\ IsFiniteSet(DOMAIN v)
      /\ \A i \in DOMAIN v : e[i] = v[i].amount /\ e[i] \in Nat
  BY <1>1, EntriesAre
<1> HIDE DEF f, e, n
<1>4. n + 1 \in DOMAIN v /\ DOMAIN v \ {n + 1} = DOMAIN w /\ e[n + 1] = x.amount
  BY <1>1, <1>2, <1>3
<1>5. SumOf(e, DOMAIN v) = e[n + 1] + SumOf(e, DOMAIN v \ {n + 1})
  <2> DEFINE S == DOMAIN v
             k == n + 1
  <2>1. IsFiniteSet(S) /\ k \in S
    BY <1>3, <1>4
  <2>2. \A i \in S : e[i] \in Int
    BY <1>3
  <2> HIDE DEF S, k
  <2>3. SumOf(e, S) = e[k] + SumOf(e, S \ {k})
    BY <2>1, <2>2, SumTakes
  <2> QED
    BY <2>3 DEF S, k
<1>6. \A i \in DOMAIN w : f[i] = e[i] /\ e[i] \in Int
  BY <1>1, <1>2, <1>3
<1>7. SumOf(e, DOMAIN w) = SumOf(f, DOMAIN w)
  BY <1>2, <1>6, SumSame
<1>8. Total(v) = x.amount + Total(w)
  BY <1>1, <1>4, <1>5, <1>7, TotalIs DEF f, e
<1>9. Total(w) \in Nat /\ x.amount \in Nat
  BY TotalIs DEF Entries
<1> QED
  BY <1>1, <1>8, <1>9 DEF v
-----------------------------------------------------------------------------
(* What each strategy does *)

\* The regions are enough for every model.
Served == \A c \in Models : Catalog[c].regions \cap ToSet(Settings.regions) # {}

\* The strategies that keep to what is up as long as anything is.
KeepsUp ==
    Circuits \ ({"StickySessionMigrate", "ProviderCircuitProbe"}
                \cup IF Served THEN {} ELSE {"RegionFailoverHysteresis"})

Refuses == {"TenantQuotaBurst", "TenantBudgetCascade"}

Sound(s, q, o) ==
    /\ Remembers(s, o.memory)
    /\ \/ /\ Usable(o.decision) /\ o.decision.chosen \in Eligible(q)
          /\ s \in KeepsUp => o.decision.chosen \in Active(q)
       \/ o.decision.chosen = NoModel /\ s \in Refuses

LEMMA SoundIs ==
    ASSUME NEW s, NEW q, NEW d, Usable(d), d.chosen \in Eligible(q),
           s \notin KeepsUp \/ d.chosen \in Active(q),
           NEW m, Remembers(s, m)
    PROVE  Sound(s, q, Outcome(d, m))
<1>1. Outcome(d, m).decision = d /\ Outcome(d, m).memory = m
  BY DEF Outcome
<1> QED
  BY <1>1 DEF Sound

\* Most have a chosen one, and others in some order behind it.
LEMMA OrderedSound ==
    ASSUME NEW s, NEW q, NEW chosen \in Eligible(q), s \notin KeepsUp \/ chosen \in Active(q),
           NEW pool \in SUBSET (Models \ {chosen}), NEW n \in Nat, NEW key,
           \A d \in pool : key[d] \in [1..n -> Int],
           NEW m, Remembers(s, m)
    PROVE  Sound(s, q, Outcome(Decision(chosen, Sorted(pool, key)), m))
<1> DEFINE decision == Decision(chosen, Sorted(pool, key))
<1>1. Usable(decision)
  BY EligibleIs, OrderedUsable
<1>2. decision.chosen = chosen
  BY DEF Decision
<1> HIDE DEF decision
<1>3. Sound(s, q, Outcome(decision, m))
  <2>1. decision.chosen \in Eligible(q) /\ (s \notin KeepsUp \/ decision.chosen \in Active(q))
    BY <1>2
  <2> QED
    BY Zenon, <1>1, <2>1, SoundIs
<1> QED
  BY <1>3 DEF decision

LEMMA DecidedSound ==
    ASSUME NEW s, NEW q, NEW chosen \in Eligible(q), s \notin KeepsUp \/ chosen \in Active(q),
           NEW m, Remembers(s, m)
    PROVE  Sound(s, q, Outcome(Decided(chosen), m))
<1>1. chosen \in Models
  BY EligibleIs
<1>2. Usable(Decided(chosen)) /\ Decided(chosen).chosen = chosen
  BY <1>1, DecidedUsable
<1>3. /\ Decided(chosen).chosen \in Eligible(q)
      /\ s \notin KeepsUp \/ Decided(chosen).chosen \in Active(q)
  BY <1>2
<1> QED
  BY Zenon, <1>2, <1>3, SoundIs

\* What they compare.
LEMMA AskedCandidate ==
    ASSUME NEW c, NEW q, Asked(c, q), NEW d \in Models
    PROVE  /\ Quality(d) \in Int /\ Name(d) \in Int /\ Cost(q, d) \in Int
           /\ Provider(d) \in Providers /\ Latency(q, d) \in Int /\ Success(q, d) \in Int
<1>1. /\ Quality(d) \in Nat /\ Name(d) \in Nat /\ Cost(q, d) \in Nat
      /\ Provider(d) \in Providers
  BY CandidateIs DEF Asked
<1> QED
  BY <1>1 DEF Asked, Latency, Success

LEMMA BucketsSound ==
    ASSUME NEW c \in Clients, NEW q, Asked(c, q), NEW m,
           NEW s, s = "TokenBucketTenant", Remembers(s, m)
    PROVE  Sound(s, q, TokenBucketTenant(q, m))
<1>1. q.prompt \in Nat /\ q.max_tokens \in Nat /\ q.client = c
  BY DEF Asked
<1>2. /\ Usable(FinestFirst(q, Eligible(q))) /\ FinestFirst(q, Eligible(q)).chosen \in Eligible(q)
      /\ Usable(CheapestFirst(q, Eligible(q)))
      /\ CheapestFirst(q, Eligible(q)).chosen \in Eligible(q)
  BY <1>1, EligibleIs, EndsUsable
<1>3. s \notin KeepsUp /\ Keys(s) = Clients
  BY DEF KeepsUp, Circuits, Keys, OfProviders
<1>4. Consumed(m.tokens, c) \in [Keys(s) -> Nat]
  <2>1. m.tokens \in [Keys(s) -> Nat] /\ Settings.token \in Nat
    BY SettingIs DEF Remembers
  <2> QED
    BY <1>3, <2>1 DEF Consumed
<1> DEFINE after == [m EXCEPT !.tokens = Consumed(m.tokens, c)]
<1>5. Remembers(s, after)
  BY <1>4, TokensKept
<1>6. \/ TokenBucketTenant(q, m) = Outcome(FinestFirst(q, Eligible(q)), after)
      \/ TokenBucketTenant(q, m) = Outcome(CheapestFirst(q, Eligible(q)), m)
  BY Zenon, <1>1 DEF TokenBucketTenant
<1> HIDE DEF after
<1>7. /\ Sound(s, q, Outcome(FinestFirst(q, Eligible(q)), after))
      /\ Sound(s, q, Outcome(CheapestFirst(q, Eligible(q)), m))
  BY Zenon, <1>2, <1>3, <1>5, SoundIs
<1> QED
  BY Zenon, <1>6, <1>7

LEMMA BurstSound ==
    ASSUME NEW c \in Clients, NEW q, Asked(c, q), NEW m,
           NEW s, s = "TokenBucketBurst", Remembers(s, m)
    PROVE  Sound(s, q, TokenBucketBurst(q, m))
<1> DEFINE before == [d \in Models |-> m.tokens[Provider(d)]]
           full == {d \in Eligible(q) : before[d] >= Settings.token}
           least == [d \in Models |-> <<-before[d], Cost(q, d), -Quality(d), -Name(d)>>]
           chosen == IF full # {} THEN FinestByName(q, full) ELSE Best(Eligible(q), least)
           tokens == Consumed(m.tokens, Provider(chosen))
           after(d) == tokens[Provider(d)]
           key == [d \in Models |-> <<Late(after(d) < Settings.token), -after(d), -Quality(d),
                                      Cost(q, d), Name(d)>>]
<1>1. q.prompt \in Nat /\ q.max_tokens \in Nat
  BY DEF Asked
<1>2. /\ m.tokens \in [Providers -> Nat] /\ Settings.token \in Nat /\ Keys(s) = Providers
      /\ s \notin KeepsUp
  BY SettingIs DEF Remembers, Keys, OfProviders, KeepsUp, Circuits
<1>3. \A d \in Models : /\ Quality(d) \in Int /\ Name(d) \in Int /\ Cost(q, d) \in Int
                        /\ Provider(d) \in Providers
  BY AskedCandidate
<1>4. Eligible(q) \in SUBSET Models /\ Eligible(q) # {}
  BY EligibleIs
<1>5. chosen \in Eligible(q)
  <2>1. CASE full # {}
    <3>1. full \in SUBSET Models
      BY <1>4
    <3> HIDE DEF full
    <3>2. FinestByName(q, full) \in full
      BY <1>1, <2>1, <3>1, FinestIn
    <3> QED
      BY <2>1, <3>2 DEF full
  <2>2. CASE full = {}
    <3>1. \A d \in Eligible(q) : least[d] \in [1..4 -> Int]
      BY <1>2, <1>3, <1>4
    <3> HIDE DEF least
    <3>2. Best(Eligible(q), least) \in Eligible(q)
      BY <1>4, <3>1, 4 \in Nat, BestIn
    <3> QED
      BY <2>2, <3>2
  <2> QED
    BY <2>1, <2>2
<1> HIDE DEF chosen
<1>6. tokens \in [Providers -> Nat]
  <2>1. Provider(chosen) \in Providers
    BY <1>3, <1>4, <1>5
  <2> QED
    BY <1>2, <2>1 DEF Consumed
<1> HIDE DEF tokens
<1>7. \A d \in Eligible(q) \ {chosen} : key[d] \in [1..5 -> Int]
  BY <1>2, <1>3, <1>4, <1>6 DEF Late
<1> HIDE DEF key
<1>8. Remembers(s, [m EXCEPT !.tokens = tokens])
  BY <1>2, <1>6, TokensKept
<1>9. TokenBucketBurst(q, m)
        = Outcome(Decision(chosen, Sorted(Eligible(q) \ {chosen}, key)),
                  [m EXCEPT !.tokens = tokens])
  BY Zenon DEF TokenBucketBurst, chosen, tokens, key
<1>10. Eligible(q) \ {chosen} \in SUBSET (Models \ {chosen})
  BY <1>4
<1>11. Sound(s, q, Outcome(Decision(chosen, Sorted(Eligible(q) \ {chosen}, key)),
                           [m EXCEPT !.tokens = tokens]))
  BY Zenon, <1>2, <1>5, <1>7, <1>8, <1>10, 5 \in Nat, OrderedSound
<1> QED
  BY <1>9, <1>11

LEMMA TierSound ==
    ASSUME NEW c \in Clients, NEW q, Asked(c, q), NEW m,
           NEW s, s = "ModelTierRateLimit", Remembers(s, m)
    PROVE  Sound(s, q, ModelTierRateLimit(q, m))
<1> DEFINE used == [d \in Models |-> Len(m.window[Provider(d)])]
           limit == [d \in Models |-> Settings.tier_rpm[Tier(d)]]
           under == {d \in Eligible(q) : used[d] < limit[d]}
           pool == OrElse(under, Eligible(q))
           key == [d \in Models |->
                      <<Ratio(pool, d, used, limit), -Quality(d), Cost(q, d), Name(d)>>]
           decision == FirstOf(Sorted(pool, key))
<1>1. Keys(s) = Providers /\ s \notin KeepsUp
  BY DEF Keys, OfProviders, KeepsUp, Circuits
<1>2. \A d \in Models : /\ Quality(d) \in Int /\ Name(d) \in Int /\ Cost(q, d) \in Int
                        /\ Provider(d) \in Providers
  BY AskedCandidate
<1>3. pool \in SUBSET Models /\ pool # {} /\ pool \subseteq Eligible(q)
  BY EligibleIs DEF OrElse
<1> HIDE DEF pool
<1>4. \A d \in pool : Ratio(pool, d, used, limit) \in Int
  <2> SUFFICES ASSUME NEW d \in pool PROVE Ratio(pool, d, used, limit) \in Int
    OBVIOUS
  <2> DEFINE part == {e \in pool : used[e] * limit[d] < used[d] * limit[e]}
  <2>1. part \in SUBSET Models
    BY <1>3
  <2> HIDE DEF part
  <2>2. Cardinality(part) \in Nat
    BY <2>1, ModelsAre, FS_CardinalityType
  <2>3. Ratio(pool, d, used, limit) = Cardinality(part)
    BY DEF Ratio, part
  <2> QED
    BY <2>2, <2>3
<1> HIDE DEF used, limit
<1>5. \A d \in pool : key[d] \in [1..4 -> Int]
  BY <1>2, <1>3, <1>4
<1> HIDE DEF key
<1>6. Usable(decision) /\ decision.chosen \in pool
  BY <1>3, <1>5, 4 \in Nat, RankingUsable
<1> HIDE DEF decision
<1>7. Remembers(s, Called(m, Provider(decision.chosen)))
  <2>1. Provider(decision.chosen) \in Keys(s)
    BY <1>1, <1>2, <1>3, <1>6
  <2> QED
    BY <2>1, 1 \in Nat, RecordedKept
<1>8. ModelTierRateLimit(q, m) = Outcome(decision, Called(m, Provider(decision.chosen)))
  BY Zenon DEF ModelTierRateLimit, decision, key, pool, used, limit
<1> QED
  <2>1. decision.chosen \in Eligible(q)
    BY <1>3, <1>6
  <2> QED
    BY Zenon, <1>1, <1>6, <1>7, <1>8, <2>1, SoundIs

LEMMA QuotaSound ==
    ASSUME NEW c \in Clients, NEW q, Asked(c, q), NEW m,
           NEW s, s = "TenantQuotaBurst", Remembers(s, m)
    PROVE  Sound(s, q, TenantQuotaBurst(q, m))
<1>1. q.prompt \in Nat /\ q.max_tokens \in Nat /\ q.client = c
  BY DEF Asked
<1>2. /\ Usable(FinestFirst(q, Eligible(q))) /\ FinestFirst(q, Eligible(q)).chosen \in Eligible(q)
      /\ Usable(CheapestFirst(q, Eligible(q)))
      /\ CheapestFirst(q, Eligible(q)).chosen \in Eligible(q)
  BY <1>1, EligibleIs, EndsUsable
<1>3. s \notin KeepsUp /\ s \in Refuses /\ c \in Keys(s)
  BY DEF KeepsUp, Circuits, Refuses, Keys, OfProviders
<1>4. Remembers(s, Recorded(m, c, 1))
  BY <1>3, 1 \in Nat, RecordedKept
<1>5. Sound(s, q, Refusal(m))
  BY <1>3 DEF Refusal, Outcome, Sound
<1> DEFINE after == Recorded(m, c, 1)
<1>6. \/ TenantQuotaBurst(q, m) = Refusal(m)
      \/ TenantQuotaBurst(q, m) = Outcome(FinestFirst(q, Eligible(q)), after)
      \/ TenantQuotaBurst(q, m) = Outcome(CheapestFirst(q, Eligible(q)), after)
  BY Zenon, <1>1 DEF TenantQuotaBurst
<1>7. /\ Sound(s, q, Outcome(FinestFirst(q, Eligible(q)), after))
      /\ Sound(s, q, Outcome(CheapestFirst(q, Eligible(q)), after))
  BY Zenon, <1>2, <1>3, <1>4, SoundIs
<1> QED
  BY Zenon, <1>5, <1>6, <1>7

\* A request of TenantBudgetCascade that is not refused stays below the ceiling,
\* whichever of its models answers.
LEMMA CascadeSound ==
    ASSUME NEW c \in Clients, NEW q, Asked(c, q), NEW m,
           NEW s, s = "TenantBudgetCascade", Remembers(s, m)
    PROVE  LET o == TenantBudgetCascade(q, m)
           IN  /\ Sound(s, q, o) /\ o.memory = m
               /\ o.decision.chosen # NoModel =>
                    \A d \in ToSet(o.decision.chain) \cup {o.decision.chosen} :
                        Total(m.window[c]) + Cost(q, d) <= Settings.hard_budget
<1> DEFINE hard == Fits(q, m, Settings.hard_budget)
           soft == Fits(q, m, Settings.soft_budget)
           chosen == IF soft # {} THEN FinestByName(q, soft) ELSE Best(hard, ByCost(q))
           key == ByCost(q)
           decision == Decision(chosen, Sorted(hard \ {chosen}, key))
           o == TenantBudgetCascade(q, m)
           spent == Total(m.window[c])
<1>1. q.prompt \in Nat /\ q.max_tokens \in Nat /\ q.client = c
  BY DEF Asked
<1>2. s \notin KeepsUp /\ s \in Refuses
  BY DEF KeepsUp, Circuits, Refuses
<1>3. \A d \in hard : d \in Eligible(q) /\ spent + Cost(q, d) <= Settings.hard_budget
  BY <1>1 DEF Fits
<1>4. CASE hard = {}
  <2>1. o = Refusal(m)
    BY Zenon, <1>4 DEF TenantBudgetCascade
  <2>2. Refusal(m).decision.chosen = NoModel /\ Refusal(m).memory = m
    BY DEF Refusal, Outcome
  <2> HIDE DEF o
  <2> QED
    BY <1>2, <2>1, <2>2 DEF Sound, o
<1>5. CASE hard # {}
  <2>1. o = Outcome(decision, m)
    BY Zenon, <1>5 DEF TenantBudgetCascade
  <2>2. chosen \in hard
    <3>1. hard \in SUBSET Models
      BY <1>3, EligibleIs
    <3>2. CASE soft # {}
      <4>1. soft \in SUBSET Models
        BY EligibleIs DEF Fits
      <4> HIDE DEF soft
      <4>2. FinestByName(q, soft) \in soft
        BY <1>1, <3>2, <4>1, FinestIn
      <4>3. \A d \in soft : d \in hard
        <5>1. \A d \in soft : d \in Eligible(q) /\ spent + Cost(q, d) <= Settings.soft_budget
          BY <1>1 DEF Fits, soft
        <5>2. spent \in Int
          <6>1. m.window[c] \in Seq(Entries)
            BY DEF Remembers, Keys, OfProviders
          <6> QED
            BY <6>1, TotalIs
        <5>3. \A d \in Eligible(q) : Cost(q, d) \in Int
          BY EligibleIs, AskedCandidate
        <5>4. \A d \in soft : spent + Cost(q, d) <= Settings.hard_budget
          <6> HIDE DEF spent, soft
          <6>1. /\ Settings.soft_budget \in Nat /\ Settings.hard_budget \in Nat
                /\ Settings.soft_budget < Settings.hard_budget
            BY Zenon, SettingIs
          <6>2. \A d \in soft : Cost(q, d) \in Int
            BY <5>1, <5>3
          <6> QED
            BY <5>1, <5>2, <6>1, <6>2
        <5> QED
          BY <1>1, <5>1, <5>4 DEF Fits
      <4> QED
        BY <3>2, <4>2, <4>3
    <3>3. CASE soft = {}
      <4> HIDE DEF hard
      <4>1. Best(hard, ByCost(q)) \in hard
        BY <1>1, <1>5, <3>1, FinestIn
      <4> QED
        BY <3>3, <4>1
    <3> QED
      BY <3>2, <3>3
  <2> HIDE DEF chosen, hard
  <2>3. \A d \in hard \ {chosen} : key[d] \in [1..3 -> Int]
    <3>1. \A d \in hard : Quality(d) \in Int /\ Cost(q, d) \in Int /\ Name(d) \in Int
      BY <1>3, EligibleIs, AskedCandidate
    <3> QED
      BY <1>3, <3>1, EligibleIs DEF ByCost
  <2> HIDE DEF key
  <2>4. chosen \in Eligible(q) /\ hard \ {chosen} \in SUBSET (Models \ {chosen})
    BY <1>3, <2>2, EligibleIs
  <2>5. Sound(s, q, Outcome(decision, m))
    BY Zenon, <1>2, <2>3, <2>4, 3 \in Nat, OrderedSound
  <2>6. ToSet(decision.chain) \subseteq hard /\ decision.chosen \in hard
    <3> DEFINE rest == hard \ {chosen}
               t == Sorted(rest, key)
    <3>1. rest \in SUBSET Models /\ \A d \in rest : key[d] \in [1..3 -> Int]
      BY <2>3, <2>4
    <3> HIDE DEF rest
    <3>2. Comparable(rest, key) /\ rest \in SUBSET Nat /\ IsFiniteSet(rest)
      BY <3>1, ModelsAre, 3 \in Nat DEF Comparable
    <3>3. t \in Seq(rest) /\ \A i, j \in DOMAIN t : i # j => t[i] # t[j]
      BY <3>2, SortedIsPermutation
    <3> HIDE DEF t
    <3>4. ToSet(UpTo3(t)) \subseteq rest
      BY <3>3, FirstThree
    <3>5. decision.chain = UpTo3(t) /\ decision.chosen = chosen
      BY DEF Decision, t, rest
    <3> QED
      BY <2>2, <3>4, <3>5 DEF rest
  <2>7. Outcome(decision, m).decision = decision /\ Outcome(decision, m).memory = m
    BY DEF Outcome
  <2> HIDE DEF decision, o, spent
  <2>8. \A d \in ToSet(decision.chain) \cup {decision.chosen} :
            spent + Cost(q, d) <= Settings.hard_budget
    BY <1>3, <2>6
  <2>9. /\ Sound(s, q, o) /\ o.memory = m
        /\ \A d \in ToSet(o.decision.chain) \cup {o.decision.chosen} :
              spent + Cost(q, d) <= Settings.hard_budget
    BY <2>1, <2>5, <2>7, <2>8
  <2> QED
    BY <2>9 DEF spent, o
<1> QED
  BY <1>4, <1>5

\* ProviderQuotaFairShare
LEMMA ShareSound ==
    ASSUME NEW c \in Clients, NEW q, Asked(c, q), NEW m,
           NEW s, s = "ProviderQuotaFairShare", Remembers(s, m)
    PROVE  Sound(s, q, ProviderQuotaFairShare(q, m))
<1> DEFINE providers == ProvidersOf(Eligible(q))
           counted == Cardinality({i \in DOMAIN m.recent : m.recent[i] \in providers})
           times(d) == Times(m.recent, Provider(d))
           under == {d \in Eligible(q) :
                        counted = 0 \/ times(d) * Cardinality(providers) < counted}
           pool == OrElse(under, Eligible(q))
           chosen == FinestByName(q, pool)
           key == [d \in Models |->
                      <<Late(d \notin under), times(d), -Quality(d), Cost(q, d), Name(d)>>]
           after == Observed(m, Provider(chosen), Settings.share_lookback)
<1>1. s \notin KeepsUp /\ Heard(s) = Providers
  BY DEF Heard, KeepsUp, Circuits
<1>2. \A d \in Models : /\ Quality(d) \in Int /\ Name(d) \in Int /\ Cost(q, d) \in Int
                        /\ Provider(d) \in Providers
  BY AskedCandidate
<1>3. \A d : times(d) \in Int
  <2>1. \A x : Times(m.recent, x) \in 0..Len(m.recent)
    BY TimesIs DEF Remembers
  <2>2. Len(m.recent) \in Nat
    BY DEF Remembers
  <2> QED
    BY <2>1, <2>2
<1> HIDE DEF times
<1>4. pool \in SUBSET Models /\ pool # {} /\ pool \subseteq Eligible(q)
  BY EligibleIs DEF OrElse
<1>5. \A d \in Models : key[d] \in [1..5 -> Int]
  <2> HIDE DEF under
  <2> QED
    BY <1>2, <1>3 DEF Late
<1> HIDE DEF pool, under, key
<1>6. chosen \in pool
  BY <1>4, FinestIn DEF Asked
<1> HIDE DEF chosen
<1>7. Remembers(s, after)
  BY <1>1, <1>2, <1>4, <1>6, SettingIs, ObservedKept
<1>8. chosen \in Eligible(q) /\ Eligible(q) \ {chosen} \in SUBSET (Models \ {chosen})
  BY <1>4, <1>6, EligibleIs
<1>9. ProviderQuotaFairShare(q, m)
        = Outcome(Decision(chosen, Sorted(Eligible(q) \ {chosen}, key)), after)
  BY Zenon DEF ProviderQuotaFairShare, chosen, key, pool, under, times
<1> HIDE DEF after
<1>10. \A d \in Eligible(q) \ {chosen} : key[d] \in [1..5 -> Int]
  BY <1>5, EligibleIs
<1>11. Sound(s, q, Outcome(Decision(chosen, Sorted(Eligible(q) \ {chosen}, key)), after))
  BY Zenon, <1>1, <1>7, <1>8, <1>10, 5 \in Nat, OrderedSound
<1> QED
  BY <1>9, <1>11

LEMMA ColdStartSound ==
    ASSUME NEW c \in Clients, NEW q, Asked(c, q), NEW m,
           NEW s, s = "ProviderColdStartBias", Remembers(s, m)
    PROVE  Sound(s, q, ProviderColdStartBias(q, m))
<1> DEFINE times == [d \in Models |-> Times(m.recent, Provider(d))]
           all == {times[d] : d \in Active(q)}
           fewest == LeastOf(all)
           rarest == {d \in Active(q) : times[d] = fewest}
           pool == IF fewest < Settings.cold_target THEN rarest ELSE Active(q)
           chosen == FinestByName(q, pool)
           key == [d \in Models |-> <<times[d], -Quality(d), Cost(q, d), Name(d)>>]
           after == Observed(m, Provider(chosen), Settings.cold_lookback)
<1>1. Heard(s) = Providers
  BY DEF Heard
<1>2. \A d \in Models : /\ Quality(d) \in Int /\ Name(d) \in Int /\ Cost(q, d) \in Int
                        /\ Provider(d) \in Providers
  BY AskedCandidate
<1>3. Active(q) \in SUBSET Models /\ Active(q) # {} /\ Active(q) \subseteq Eligible(q)
  BY ActiveIs
<1>4. \A d \in Models : times[d] \in Nat
  <2>1. \A x : Times(m.recent, x) \in 0..Len(m.recent)
    BY TimesIs DEF Remembers
  <2>2. Len(m.recent) \in Nat
    BY DEF Remembers
  <2> QED
    BY <2>1, <2>2
<1> HIDE DEF times
<1>5. pool \in SUBSET Models /\ pool # {} /\ pool \subseteq Active(q)
  <2>1. all \in SUBSET Nat /\ all # {}
    BY <1>3, <1>4
  <2> HIDE DEF all
  <2>2. fewest \in all
    BY <2>1, LeastIs
  <2>3. rarest # {}
    BY <2>2 DEF all
  <2> HIDE DEF fewest
  <2> QED
    BY <1>3, <2>3
<1>6. \A d \in Models : key[d] \in [1..4 -> Int]
  BY <1>2, <1>4
<1> HIDE DEF pool, key
<1>7. chosen \in pool
  BY <1>5, FinestIn DEF Asked
<1> HIDE DEF chosen
<1>8. Remembers(s, after)
  BY <1>1, <1>2, <1>5, <1>7, <1>3, SettingIs, ObservedKept
<1>9. chosen \in Eligible(q) /\ chosen \in Active(q)
      /\ Active(q) \ {chosen} \in SUBSET (Models \ {chosen})
  BY <1>3, <1>5, <1>7
<1>10. ProviderColdStartBias(q, m)
        = Outcome(Decision(chosen, Sorted(Active(q) \ {chosen}, key)), after)
  BY Zenon DEF ProviderColdStartBias, chosen, key, pool, times
<1> HIDE DEF after
<1>11. \A d \in Active(q) \ {chosen} : key[d] \in [1..4 -> Int]
  BY <1>6, <1>9
<1>12. Sound(s, q, Outcome(Decision(chosen, Sorted(Active(q) \ {chosen}, key)), after))
  BY Zenon, <1>8, <1>9, <1>11, 4 \in Nat, OrderedSound
<1> QED
  BY <1>10, <1>12

LEMMA FairQueueSound ==
    ASSUME NEW c \in Clients, NEW q, Asked(c, q), NEW m,
           NEW s, s = "TenantFairQueue", Remembers(s, m)
    PROVE  Sound(s, q, TenantFairQueue(q, m))
<1>1. q.prompt \in Nat /\ q.max_tokens \in Nat /\ q.client = c
  BY DEF Asked
<1>2. Active(q) \in SUBSET Models /\ Active(q) # {} /\ Active(q) \subseteq Eligible(q)
  BY ActiveIs
<1>3. /\ Usable(FinestFirst(q, Active(q))) /\ FinestFirst(q, Active(q)).chosen \in Active(q)
      /\ Usable(CheapestFirst(q, Active(q))) /\ CheapestFirst(q, Active(q)).chosen \in Active(q)
  BY <1>1, <1>2, EndsUsable
<1> DEFINE after == Observed(m, c, Settings.tenant_lookback)
<1>4. Remembers(s, after)
  BY SettingIs, ObservedKept DEF Heard
<1>5. \/ TenantFairQueue(q, m) = Outcome(FinestFirst(q, Active(q)), after)
      \/ TenantFairQueue(q, m) = Outcome(CheapestFirst(q, Active(q)), after)
  BY Zenon, <1>1 DEF TenantFairQueue
<1> HIDE DEF after
<1>6. /\ FinestFirst(q, Active(q)).chosen \in Eligible(q)
      /\ CheapestFirst(q, Active(q)).chosen \in Eligible(q)
  BY <1>2, <1>3
<1>7. /\ Sound(s, q, Outcome(FinestFirst(q, Active(q)), after))
      /\ Sound(s, q, Outcome(CheapestFirst(q, Active(q)), after))
  BY Zenon, <1>3, <1>4, <1>6, SoundIs
<1> QED
  BY Zenon, <1>5, <1>7

LEMMA LanesSound ==
    ASSUME NEW c \in Clients, NEW q, Asked(c, q), NEW m,
           NEW s, s = "TenantPriorityLanes", Remembers(s, m)
    PROVE  Sound(s, q, TenantPriorityLanes(q, m))
<1> DEFINE measured == {d \in Active(q) : Latency(q, d) > 0}
           pool == OrElse(measured, Active(q))
           quick == [d \in Models |-> <<Latency(q, d), -Quality(d), Cost(q, d), Name(d)>>]
           fastest == Best(pool, quick)
           key == [d \in Models |->
                      <<Late(Latency(q, d) = 0), Latency(q, d), -Quality(d), Name(d)>>]
           after == Observed(m, q.lane, Settings.lane_lookback)
<1>1. q.prompt \in Nat /\ q.max_tokens \in Nat /\ q.lane = Profile[c].lane
  BY DEF Asked
<1>2. Active(q) \in SUBSET Models /\ Active(q) # {} /\ Active(q) \subseteq Eligible(q)
  BY ActiveIs
<1>3. /\ Usable(FinestFirst(q, Active(q))) /\ FinestFirst(q, Active(q)).chosen \in Active(q)
      /\ Usable(CheapestFirst(q, Active(q))) /\ CheapestFirst(q, Active(q)).chosen \in Active(q)
  BY <1>1, <1>2, EndsUsable
<1>4. Remembers(s, after)
  <2>1. q.lane \in Heard(s)
    BY <1>1 DEF Heard
  <2> QED
    BY <2>1, SettingIs, ObservedKept
<1> HIDE DEF after
<1>5. \A d \in Models : /\ Quality(d) \in Int /\ Name(d) \in Int /\ Cost(q, d) \in Int
                        /\ Latency(q, d) \in Int
  BY AskedCandidate
<1>6. \A d \in Models : quick[d] \in [1..4 -> Int] /\ key[d] \in [1..4 -> Int]
  BY <1>5 DEF Late
<1>7. pool \in SUBSET Models /\ pool # {} /\ pool \subseteq Active(q)
  BY <1>2 DEF OrElse
<1> HIDE DEF pool, quick, key
<1>8. fastest \in pool
  BY <1>6, <1>7, 4 \in Nat, BestIn
<1> HIDE DEF fastest
<1>9. /\ fastest \in Active(q) /\ fastest \in Eligible(q)
      /\ Active(q) \ {fastest} \in SUBSET (Models \ {fastest})
      /\ \A d \in Active(q) \ {fastest} : key[d] \in [1..4 -> Int]
      /\ FinestFirst(q, Active(q)).chosen \in Eligible(q)
      /\ CheapestFirst(q, Active(q)).chosen \in Eligible(q)
  BY <1>2, <1>3, <1>6, <1>7, <1>8
<1>10. /\ Sound(s, q, Outcome(FinestFirst(q, Active(q)), after))
       /\ Sound(s, q, Outcome(CheapestFirst(q, Active(q)), after))
  BY Zenon, <1>3, <1>4, <1>9, SoundIs
<1>11. Sound(s, q, Outcome(Decision(fastest, Sorted(Active(q) \ {fastest}, key)), after))
  BY Zenon, <1>4, <1>9, 4 \in Nat, OrderedSound
<1>12. \/ TenantPriorityLanes(q, m) = Outcome(FinestFirst(q, Active(q)), after)
       \/ TenantPriorityLanes(q, m) = Outcome(CheapestFirst(q, Active(q)), after)
       \/ TenantPriorityLanes(q, m)
            = Outcome(Decision(fastest, Sorted(Active(q) \ {fastest}, key)), after)
  <2>1. \E d : /\ TenantPriorityLanes(q, m) = Outcome(d, after)
               /\ \/ d = FinestFirst(q, Active(q)) \/ d = CheapestFirst(q, Active(q))
                  \/ d = Decision(fastest, Sorted(Active(q) \ {fastest}, key))
    BY Zenon DEF TenantPriorityLanes, after, fastest, key, pool, quick
  <2> QED
    BY Zenon, <2>1
<1> QED
  BY Zenon, <1>10, <1>11, <1>12

\* A session is held to what was decided, and leaves it for a reason; and what is
\* decided is up and steady where anything is.
Steady(q) == {d \in Closed(q, Eligible(q)) : Success(q, d) >= Settings.migrate_below}

Migrates(c, q, m) ==
    LET o == StickySessionMigrate(q, m)
        pin == m.pin[c]
    IN  /\ o.memory = [m EXCEPT !.pin[c] = o.decision.chosen]
        /\ Steady(q) # {} => o.decision.chosen \in Steady(q)
        /\ pin \in Eligible(q) /\ o.decision.chosen # pin
             => ~Up(q, pin) \/ Success(q, pin) < Settings.migrate_below

LEMMA MigrateSound ==
    ASSUME NEW c \in Clients, NEW q, Asked(c, q), NEW m,
           NEW s, s = "StickySessionMigrate", Remembers(s, m)
    PROVE  Sound(s, q, StickySessionMigrate(q, m)) /\ Migrates(c, q, m)
<1> DEFINE pin == m.pin[c]
           home == IF pin \in Eligible(q) THEN pin ELSE Pick(ByName(Eligible(q)), q.key)
           fit == {d \in Closed(q, Eligible(q)) : Success(q, d) >= Settings.migrate_below}
           targets == {d \in fit : Provider(d) # Provider(home)}
           steady == [d \in Models |-> <<-Success(q, d), -Quality(d), Cost(q, d), -Name(d)>>]
           chosen == IF home \in fit \/ targets = {} THEN home ELSE Best(targets, steady)
           key == [d \in Models |->
                     <<Late(~Up(q, d)), -Success(q, d), -Quality(d), Cost(q, d), Name(d)>>]
           decision == Decision(chosen, Sorted(Eligible(q) \ {chosen}, key))
           after == [m EXCEPT !.pin[c] = chosen]
           o == StickySessionMigrate(q, m)
<1>1. q.client = c /\ q.key \in Nat
  BY DEF Asked
<1>2. s \notin KeepsUp /\ Held(s, c) = Models \cup {NoModel}
  BY DEF KeepsUp, Held, PinsRegions
<1>3. Eligible(q) \in SUBSET Models /\ Eligible(q) # {}
  BY EligibleIs
<1>4. \A d \in Models : /\ Quality(d) \in Int /\ Name(d) \in Int /\ Cost(q, d) \in Int
                        /\ Success(q, d) \in Int
  BY AskedCandidate
<1>5. home \in Eligible(q)
  BY <1>1, <1>3, PickIn
<1>6. pin \in Eligible(q) => home = pin
  OBVIOUS
<1> HIDE DEF home
<1>7. targets \in SUBSET Models /\ targets \subseteq Eligible(q)
  BY <1>3 DEF Closed
<1>8. \A d \in Models : steady[d] \in [1..4 -> Int] /\ key[d] \in [1..5 -> Int]
  BY <1>4 DEF Late
<1>9. home \notin fit => ~Up(q, home) \/ Success(q, home) < Settings.migrate_below
  <2>1. Success(q, home) \in Int /\ Settings.migrate_below \in Int
    BY <1>3, <1>4, <1>5, SettingIs
  <2> QED
    BY <1>5, <2>1 DEF Closed
<1> HIDE DEF steady, key, targets, fit
<1>10. chosen \in Eligible(q)
  <2>1. targets # {} => Best(targets, steady) \in targets
    BY <1>7, <1>8, 4 \in Nat, BestIn
  <2> QED
    BY <1>5, <1>7, <2>1
<1>11. chosen # home => home \notin fit
  OBVIOUS
<1> HIDE DEF chosen
<1>12. Remembers(s, after)
  BY <1>2, <1>3, <1>10, PinKept
<1>13. o = Outcome(decision, after)
  BY Zenon, <1>1 DEF StickySessionMigrate, chosen, key, targets, fit, home, steady
<1>14. decision.chosen = chosen
  BY DEF Decision
<1>15. Sound(s, q, Outcome(decision, after))
  <2> HIDE DEF after
  <2>1. \A d \in Eligible(q) \ {chosen} : key[d] \in [1..5 -> Int]
    BY <1>3, <1>8
  <2>2. Eligible(q) \ {chosen} \in SUBSET (Models \ {chosen})
    BY <1>3
  <2> QED
    BY Zenon, <1>2, <1>10, <1>12, <2>1, <2>2, 5 \in Nat, OrderedSound
<1>16. Outcome(decision, after).decision = decision /\ Outcome(decision, after).memory = after
  BY DEF Outcome
<1>17. o.decision.chosen = chosen /\ o.memory = after /\ Sound(s, q, o)
  <2> HIDE DEF decision, after, o
  <2> QED
    BY <1>13, <1>14, <1>15, <1>16
<1> HIDE DEF o
<1>18. pin \in Eligible(q) /\ chosen # pin
         => ~Up(q, pin) \/ Success(q, pin) < Settings.migrate_below
  <2> HIDE DEF pin
  <2> QED
    BY <1>6, <1>9, <1>11
<1>19. fit # {} /\ home \notin fit => targets = fit
  <2> SUFFICES ASSUME home \notin fit, NEW d \in fit, Provider(d) = Provider(home) PROVE FALSE
    BY DEF targets
  <2> QED
    BY <1>5 DEF fit, Closed, Up, Success
<1>20. fit # {} => chosen \in fit
  <2> SUFFICES ASSUME fit # {}, home \notin fit PROVE Best(targets, steady) \in fit
    BY <1>19 DEF chosen
  <2> QED
    BY <1>7, <1>8, <1>19, 4 \in Nat, BestIn
<1>21. Steady(q) = fit
  BY DEF Steady, fit
<1> QED
  BY <1>17, <1>18, <1>20, <1>21 DEF o, Migrates

LEMMA PinExpireSound ==
    ASSUME NEW c \in Clients, NEW q, Asked(c, q), NEW m,
           NEW s, s = "StickyModelPinExpire", Remembers(s, m)
    PROVE  LET o == StickyModelPinExpire(q, m)
               pin == m.pin[c]
           IN  /\ Sound(s, q, o)
               /\ o.memory.pin = [m.pin EXCEPT ![c] = o.decision.chosen]
               /\ pin \in Eligible(q) /\ o.decision.chosen # pin => ~Up(q, pin) \/ m.left[c] = 0
<1> DEFINE pin == m.pin[c]
           kept == m.left[c] > 0 /\ pin \in Closed(q, Eligible(q))
           chosen == IF kept THEN pin ELSE FinestByName(q, Active(q))
           key == [d \in Models |-> <<-Quality(d), Name(d)>>]
           decision == Decision(chosen, Sorted(Active(q) \ {chosen}, key))
           renewed == [m EXCEPT !.pin[c] = chosen, !.left[c] = Settings.pin_ttl]
           after == IF kept THEN m ELSE renewed
           o == StickyModelPinExpire(q, m)
<1>1. q.client = c /\ q.prompt \in Nat /\ q.max_tokens \in Nat
  BY DEF Asked
<1>2. Held(s, c) = Models \cup {NoModel} /\ m.left[c] \in Nat
  BY DEF Held, PinsRegions, Remembers
<1>3. /\ Active(q) \in SUBSET Models /\ Active(q) # {} /\ Active(q) \subseteq Eligible(q)
      /\ Closed(q, Eligible(q)) # {} => Active(q) = Closed(q, Eligible(q))
  BY ActiveIs
<1>4. \A d \in Models : key[d] \in [1..2 -> Int]
  <2>1. \A d \in Models : Quality(d) \in Int /\ Name(d) \in Int
    BY AskedCandidate
  <2> QED
    BY <2>1
<1>5. kept => pin \in Active(q) /\ chosen = pin
  BY <1>3
<1>6. pin \in Eligible(q) /\ ~kept => ~Up(q, pin) \/ m.left[c] = 0
  BY <1>2 DEF Closed
<1> HIDE DEF kept, key
<1>7. chosen \in Active(q)
  BY <1>1, <1>3, <1>5, FinestIn
<1> HIDE DEF chosen
<1>8. Remembers(s, after)
  <2>1. Remembers(s, [m EXCEPT !.pin[c] = chosen])
    BY <1>2, <1>3, <1>7, PinKept
  <2> DEFINE n == [m EXCEPT !.pin[c] = chosen]
  <2>2. Remembers(s, [n EXCEPT !.left[c] = Settings.pin_ttl])
    <3> HIDE DEF n
    <3>1. Remembers(s, n)
      BY <2>1 DEF n
    <3> QED
      BY <3>1, SettingIs, LeftKept
  <2>3. [n EXCEPT !.left[c] = Settings.pin_ttl] = renewed
    BY DEF Remembers
  <2> QED
    BY <2>2, <2>3
<1>9. after.pin = [m.pin EXCEPT ![c] = chosen]
  <2>1. CASE kept
    <3>1. after = m /\ chosen = pin
      BY <1>5, <2>1
    <3> QED
      BY <3>1 DEF Remembers
  <2>2. CASE ~kept
    BY <2>2 DEF Remembers
  <2> QED
    BY <2>1, <2>2
<1>10. o = Outcome(decision, after)
  BY Zenon, <1>1 DEF StickyModelPinExpire, chosen, key, kept
<1> HIDE DEF after
<1>11. decision.chosen = chosen
  BY DEF Decision
<1>12. Sound(s, q, Outcome(decision, after))
  <2>1. /\ \A d \in Active(q) \ {chosen} : key[d] \in [1..2 -> Int]
        /\ Active(q) \ {chosen} \in SUBSET (Models \ {chosen})
        /\ chosen \in Eligible(q)
    BY <1>3, <1>4, <1>7
  <2> QED
    BY Zenon, <1>7, <1>8, <2>1, 2 \in Nat, OrderedSound
<1>13. Outcome(decision, after).decision = decision /\ Outcome(decision, after).memory = after
  BY DEF Outcome
<1>14. o.decision.chosen = chosen /\ o.memory = after /\ Sound(s, q, o)
  <2> HIDE DEF decision, o
  <2> QED
    BY <1>10, <1>11, <1>12, <1>13
<1> HIDE DEF o
<1>15. pin \in Eligible(q) /\ chosen # pin => ~Up(q, pin) \/ m.left[c] = 0
  BY <1>5, <1>6
<1> QED
  BY <1>9, <1>14, <1>15 DEF o

\* The regions of a question: the one it asks for comes before the others.
LEMMA RegionsAskedIs ==
    ASSUME NEW c \in Clients, NEW q, Asked(c, q), NEW asked, asked = Regions(q)
    PROVE  /\ asked # <<>> /\ Head(asked) = asked[1] /\ 1 \in DOMAIN asked
           /\ DOMAIN asked \in SUBSET Nat
           /\ \A i \in DOMAIN asked : asked[i] \in Places(c) \ {NoRegion}
           /\ ToSet(Settings.regions) \subseteq ToSet(asked)
           /\ Head(asked) \in Counted("RegionFailoverHysteresis")
<1> DEFINE r == Settings.regions
           all == Settings.regions \o Settings.catalog_regions
<1>1. /\ r # <<>> /\ 1 \in DOMAIN r /\ DOMAIN r \in SUBSET Nat
      /\ \A i \in DOMAIN r : r[i] \in ToSet(all) \ {NoRegion}
  <2> HIDE DEF all
  <2>1. all = Settings.regions \o Settings.catalog_regions
    BY DEF all
  <2> QED
    BY Zenon, <2>1, RegionsAre
<1>2. r \in Seq(STRING) /\ Profile[c].region \in STRING
  BY Zenon, SettingsAssumption, ClientsAssumption
<1>3. \A i \in DOMAIN r : r[i] \in Places(c) \ {NoRegion}
  <2> HIDE DEF all, r
  <2>1. ToSet(all) \subseteq Places(c)
    BY Zenon DEF Places, all
  <2> QED
    BY <1>1, <2>1
<1>4. /\ q.region = Profile[c].region
      /\ q.region # NoRegion => q.region \in Places(c) \ {NoRegion}
  BY Zenon DEF Asked, Places
<1>5. \/ asked = r /\ q.region = NoRegion
      \/ asked = <<q.region>> \o r /\ q.region # NoRegion
  BY Zenon DEF Regions, NoRegion
<1>6. q.region # NoRegion => q.region \in Counted("RegionFailoverHysteresis")
  <2>1. q.region # NoRegion => q.region = Region(Profile[c])
    BY Zenon, <1>4 DEF Region, NoRegion
  <2> QED
    BY Zenon, <2>1 DEF Counted
<1>7. r[1] \in Counted("RegionFailoverHysteresis")
  <2>1. r[1] \in ToSet(r)
    BY <1>1 DEF ToSet
  <2> QED
    BY Zenon, <2>1 DEF Counted
<1> DEFINE C == Counted("RegionFailoverHysteresis")
           P == Places(c) \ {NoRegion}
<1> HIDE DEF r, C, P
<1>8. CASE asked = r /\ q.region = NoRegion
  <2>1. Head(r) = r[1]
    BY <1>1, <1>2
  <2> QED
    BY <1>1, <1>3, <1>7, <1>8, <2>1 DEF C, P, r
<1>9. CASE asked = <<q.region>> \o r /\ q.region # NoRegion
  <2> DEFINE n == Len(r)
  <2>1. /\ n \in Nat /\ DOMAIN r = 1..n /\ DOMAIN asked = 1..(n + 1) /\ asked # <<>>
        /\ Head(asked) = asked[1] /\ asked[1] = q.region
        /\ \A i \in 1..n : asked[i + 1] = r[i]
        /\ \A i \in 2..(n + 1) : asked[i] = r[i - 1]
    BY <1>2, <1>4, <1>9
  <2> HIDE DEF n
  <2>2. \A i \in DOMAIN asked : i = 1 \/ (i - 1 \in DOMAIN r /\ asked[i] = r[i - 1])
    BY <2>1
  <2>3. \A i \in DOMAIN asked : asked[i] \in P
    BY <1>3, <1>4, <1>9, <2>1, <2>2 DEF P
  <2>4. ASSUME NEW i \in DOMAIN r PROVE r[i] \in ToSet(asked)
    <3>1. i + 1 \in DOMAIN asked /\ asked[i + 1] = r[i]
      BY <2>1
    <3> QED
      BY <3>1 DEF ToSet
  <2>5. ToSet(r) \subseteq ToSet(asked)
    BY <2>4 DEF ToSet
  <2>6. 1 \in DOMAIN asked /\ DOMAIN asked \in SUBSET Nat
    BY <2>1
  <2> QED
    BY <1>6, <1>9, <2>1, <2>3, <2>5, <2>6 DEF C, P, r
<1> QED
  BY <1>5, <1>8, <1>9

\* Where anything is up, there the session goes.
LEMMA HysteresisSound ==
    ASSUME NEW c \in Clients, NEW q, Asked(c, q), NEW m,
           NEW s, s = "RegionFailoverHysteresis", Remembers(s, m)
    PROVE  Sound(s, q, RegionFailoverHysteresis(q, m))
<1> DEFINE asked == Regions(q)
           preferred == Head(asked)
           failover == m.pin[c]
           live == {i \in DOMAIN asked : UpIn(q, asked[i]) # {}}
           over == failover # NoRegion
           back == over /\ UpIn(q, preferred) # {} /\ m.count[preferred] >= Settings.hysteresis
           held == over /\ ~back /\ UpIn(q, failover) # {}
           region == IF back THEN preferred ELSE IF held THEN failover
                     ELSE IF live # {} THEN asked[LeastOf(live)] ELSE NoRegion
           pool == IF region = NoRegion THEN Eligible(q) ELSE UpIn(q, region)
           same == held \/ region = NoRegion
           pin == IF region = preferred THEN NoRegion ELSE region
           after == IF same THEN m ELSE [m EXCEPT !.pin[c] = pin]
           chosen == Pick(ByName(pool), q.key)
<1>1. q.client = c /\ q.key \in Nat
  BY DEF Asked
<1>2. Held(s, c) = Places(c) /\ NoRegion \in Places(c)
  BY Zenon DEF Held, PinsRegions, Places
<1>3. /\ asked # <<>> /\ preferred = asked[1] /\ 1 \in DOMAIN asked
      /\ DOMAIN asked \in SUBSET Nat
      /\ \A i \in DOMAIN asked : asked[i] \in Places(c) \ {NoRegion}
      /\ ToSet(Settings.regions) \subseteq ToSet(asked)
  <2> HIDE DEF asked
  <2>1. asked = Regions(q)
    BY DEF asked
  <2> QED
    BY Zenon, <2>1, RegionsAskedIs
<1>4. live # {} => LeastOf(live) \in live
  <2>1. live \in SUBSET Nat
    BY <1>3
  <2> HIDE DEF live
  <2> QED
    BY <2>1, LeastIs
<1>5. failover \in Places(c)
  BY <1>2 DEF Remembers
<1> HIDE DEF asked, preferred, failover
<1>6. /\ region \in Places(c)
      /\ region # NoRegion => UpIn(q, region) # {}
      /\ region = NoRegion => live = {}
  <2>1. CASE back
    BY <1>3, <2>1
  <2>2. CASE ~back /\ held
    BY <1>5, <2>2
  <2>3. CASE ~back /\ ~held /\ live # {}
    <3>1. region = asked[LeastOf(live)] /\ LeastOf(live) \in DOMAIN asked
      BY <1>4, <2>3
    <3>2. UpIn(q, asked[LeastOf(live)]) # {}
      BY <1>4, <2>3
    <3> HIDE DEF region, live
    <3> QED
      BY <1>3, <3>1, <3>2
  <2>4. CASE ~back /\ ~held /\ live = {}
    BY <1>2, <2>4
  <2> QED
    BY <2>1, <2>2, <2>3, <2>4
<1>7. /\ Active(q) \in SUBSET Models /\ Active(q) # {} /\ Active(q) \subseteq Eligible(q)
      /\ Closed(q, Eligible(q)) # {} => Active(q) = Closed(q, Eligible(q))
      /\ Eligible(q) \in SUBSET Models /\ Eligible(q) # {}
  BY ActiveIs, EligibleIs
<1>8. \A r : UpIn(q, r) \subseteq Closed(q, Eligible(q)) /\ UpIn(q, r) \subseteq Eligible(q)
  BY DEF UpIn, Closed
<1>9. Served /\ live = {} => Closed(q, Eligible(q)) = {}
  <2> SUFFICES ASSUME Served, NEW d \in Closed(q, Eligible(q)) PROVE live # {}
    OBVIOUS
  <2>1. d \in Models
    BY <1>7 DEF Closed
  <2>2. PICK r \in ToSet(Settings.regions) : InRegion(d, r)
    BY <2>1 DEF Served, InRegion
  <2>3. PICK i \in DOMAIN asked : asked[i] = r
    BY <1>3, <2>2 DEF ToSet
  <2>4. d \in UpIn(q, asked[i])
    BY <2>2, <2>3 DEF UpIn
  <2> QED
    BY <2>4
<1> HIDE DEF region, live
<1>10. pool \in SUBSET Models /\ pool # {} /\ pool \subseteq Eligible(q)
       /\ (s \in KeepsUp => pool \subseteq Active(q))
  <2>1. CASE region = NoRegion
    <3>1. s \in KeepsUp => Served
      BY DEF KeepsUp
    <3>2. s \in KeepsUp => Closed(q, Eligible(q)) = {}
      BY <1>6, <1>9, <2>1, <3>1
    <3>3. Closed(q, Eligible(q)) = {} => Active(q) = Eligible(q)
      BY DEF Active, OrElse
    <3> QED
      BY <1>7, <2>1, <3>2, <3>3
  <2>2. CASE region # NoRegion
    <3>1. pool = UpIn(q, region) /\ pool # {}
      BY <1>6, <2>2
    <3> HIDE DEF pool
    <3>2. pool \subseteq Closed(q, Eligible(q)) /\ pool \subseteq Eligible(q)
      BY <1>8, <3>1
    <3> QED
      BY <1>7, <3>1, <3>2
  <2> QED
    BY <2>1, <2>2
<1> HIDE DEF pool
<1>11. chosen \in pool
  BY <1>1, <1>10, PickIn
<1>12. Remembers(s, after)
  <2>1. pin \in Held(s, c)
    BY <1>2, <1>6
  <2> HIDE DEF pin
  <2>2. Remembers(s, [m EXCEPT !.pin[c] = pin])
    BY <2>1, PinKept
  <2> QED
    BY <2>2
<1>13. RegionFailoverHysteresis(q, m) = Outcome(Decided(chosen), after)
  BY Zenon, <1>1 DEF RegionFailoverHysteresis, asked, preferred, failover, live, region, pool
<1> HIDE DEF chosen, after
<1>14. chosen \in Eligible(q) /\ (s \notin KeepsUp \/ chosen \in Active(q))
  BY <1>10, <1>11
<1> QED
  BY Zenon, <1>12, <1>13, <1>14, DecidedSound

LEMMA FallbackIs == \A c : "fallback" \in Places(c) \ {NoRegion}
  BY Zenon DEF Places, NoRegion

LEMMA WarmupSound ==
    ASSUME NEW c \in Clients, NEW q, Asked(c, q), NEW m,
           NEW s, s = "StickyRegionWarmup", Remembers(s, m)
    PROVE  Sound(s, q, StickyRegionWarmup(q, m))
<1> DEFINE n == m.count[c]
           pin == m.pin[c]
           r == Settings.regions
           warm == IF q.warmup_region # NoRegion THEN q.warmup_region ELSE r[1]
           others == {i \in DOMAIN r : r[i] # warm}
           order == [i \in others |-> <<i>>]
           places == Sorted(others, order)
           hashed == Pick(places, q.key)
           target == IF pin # NoRegion THEN pin ELSE IF q.region # NoRegion THEN q.region
                     ELSE IF others = {} THEN warm ELSE r[hashed]
           warming == n < Settings.warmup_requests
           region == IF warming THEN warm ELSE target
           there == UpIn(q, region)
           pool == OrElse(there, Active(q))
           spot == q.spread[IF there # {} THEN region ELSE "fallback"]
           chosen == Pick(ByName(pool), spot)
           key == [d \in Models |-> <<Name(d)>>]
           after == IF warming THEN [m EXCEPT !.count[c] = n + 1] ELSE [m EXCEPT !.pin[c] = target]
           P == Places(c) \ {NoRegion}
<1>1. /\ q.client = c /\ q.key \in Nat /\ \A x \in P : q.spread[x] \in Nat
      /\ q.region = Profile[c].region /\ q.warmup_region = Circumstances.warmup_region
  BY DEF Asked
<1>2. /\ Held(s, c) = Places(c) /\ Counted(s) = Clients
      /\ pin \in Places(c) /\ n \in Nat
  <2>1. Held(s, c) = Places(c) /\ Counted(s) = Clients
    BY DEF Held, PinsRegions, Counted, Keys, OfProviders
  <2> QED
    BY <2>1 DEF Remembers
<1>3. 1 \in DOMAIN r /\ DOMAIN r \in SUBSET Nat /\ IsFiniteSet(DOMAIN r)
      /\ \A i \in DOMAIN r : r[i] \in P
  <2> DEFINE all == Settings.regions \o Settings.catalog_regions
  <2>1. ToSet(all) \subseteq Places(c)
    BY Zenon DEF Places
  <2> HIDE DEF all, P
  <2>2. all = Settings.regions \o Settings.catalog_regions
    BY DEF all
  <2>3. /\ 1 \in DOMAIN r /\ DOMAIN r \in SUBSET Nat /\ IsFiniteSet(DOMAIN r)
        /\ \A i \in DOMAIN r : r[i] \in ToSet(all) \ {NoRegion}
    BY Zenon, <2>2, RegionsAre
  <2> QED
    BY <2>1, <2>3 DEF P
<1> HIDE DEF r
<1>4. warm \in P
  <2>1. q.warmup_region \in Places(c)
    BY Zenon, <1>1 DEF Places
  <2> QED
    BY <1>3, <2>1
<1> HIDE DEF warm
<1>5. others # {} => r[hashed] \in P
  <2> HAVE others # {}
  <2>1. others \in SUBSET Nat /\ IsFiniteSet(others)
    BY <1>3, FS_Subset
  <2>2. \A i \in others : order[i] \in [1..1 -> Int]
    BY <2>1
  <2> HIDE DEF order
  <2>3. others \subseteq DOMAIN r
    OBVIOUS
  <2> HIDE DEF others
  <2>4. Comparable(others, order)
    BY <2>2, 1 \in Nat DEF Comparable
  <2>5. places \in Seq(others) /\ places # <<>>
    BY <2>1, <2>4, HeadOfSorted
  <2> HIDE DEF places
  <2>6. Len(places) \in Nat \ {0}
    BY <2>5
  <2>7. q.key % Len(places) \in 0..(Len(places) - 1)
    BY <1>1, <2>6
  <2>8. 1 + (q.key % Len(places)) \in DOMAIN places
    BY <2>5, <2>6, <2>7
  <2>9. hashed \in others
    BY <2>5, <2>8 DEF Pick
  <2> QED
    BY <1>3, <2>3, <2>9
<1> HIDE DEF others, hashed
<1>6. target \in P
  <2>1. q.region \in Places(c)
    BY Zenon, <1>1 DEF Places
  <2> QED
    BY <1>2, <1>4, <1>5, <2>1
<1> HIDE DEF target, P
<1>7. region \in P
  BY <1>4, <1>6
<1>8. /\ Active(q) \in SUBSET Models /\ Active(q) # {} /\ Active(q) \subseteq Eligible(q)
      /\ Closed(q, Eligible(q)) # {} => Active(q) = Closed(q, Eligible(q))
  BY ActiveIs
<1>9. pool \in SUBSET Models /\ pool # {} /\ pool \subseteq Active(q)
  <2>1. there \subseteq Closed(q, Eligible(q))
    BY DEF UpIn
  <2> HIDE DEF there
  <2> QED
    BY <1>8, <2>1 DEF OrElse
<1>10. spot \in Nat
  <2>1. "fallback" \in P
    BY Zenon, FallbackIs DEF P
  <2> HIDE DEF region, there
  <2> QED
    BY <1>1, <1>7, <2>1
<1> HIDE DEF pool, spot
<1>11. chosen \in pool
  BY <1>9, <1>10, PickIn
<1> HIDE DEF chosen
<1>12. Remembers(s, after)
  <2>1. n + 1 \in Nat /\ c \in Counted(s) /\ target \in Held(s, c)
    BY <1>2, <1>6 DEF P
  <2> HIDE DEF n, warming
  <2>2. Remembers(s, [m EXCEPT !.count[c] = n + 1]) /\ Remembers(s, [m EXCEPT !.pin[c] = target])
    BY <2>1, CountKept, PinKept
  <2> QED
    BY <2>2
<1>13. ByName(pool \ {chosen}) = Sorted(pool \ {chosen}, key)
  BY Zenon DEF ByName
<1>14. \A d \in Models : key[d] \in [1..1 -> Int]
  <2>1. \A d \in Models : Name(d) \in Int
    BY CatalogAssumption DEF CatalogAssumption
  <2> QED
    BY <2>1
<1> HIDE DEF key
<1>15. StickyRegionWarmup(q, m) = Outcome(Decision(chosen, ByName(pool \ {chosen})), after)
  BY Zenon, <1>1
     DEF StickyRegionWarmup, chosen, pool, spot, target, others, hashed, warm, r
<1> HIDE DEF after
<1>16. /\ chosen \in Eligible(q) /\ chosen \in Active(q)
       /\ pool \ {chosen} \in SUBSET (Models \ {chosen})
       /\ \A d \in pool \ {chosen} : key[d] \in [1..1 -> Int]
  BY <1>8, <1>9, <1>11, <1>14
<1>17. Sound(s, q, Outcome(Decision(chosen, Sorted(pool \ {chosen}, key)), after))
  BY Zenon, <1>12, <1>16, 1 \in Nat, OrderedSound
<1> QED
  BY Zenon, <1>13, <1>15, <1>17

\* A session leaves what drains, whenever a model that is up is elsewhere.
LEMMA DrainSound ==
    ASSUME NEW c \in Clients, NEW q, Asked(c, q), NEW m,
           NEW s, s = "StickyRegionDrain", Remembers(s, m),
           NEW draining, draining = Settings.draining \cup q.draining,
           NEW elsewhere,
           elsewhere = {d \in Closed(q, Eligible(q)) : ~(Catalog[d].regions \subseteq draining)}
    PROVE  /\ Sound(s, q, StickyRegionDrain(q, m))
           /\ elsewhere # {} => StickyRegionDrain(q, m).decision.chosen \in elsewhere
<1> DEFINE asked == Regions(q)
           pin == m.pin[c]
           desired == IF pin # NoRegion THEN pin ELSE Head(asked)
           stays == desired \notin draining /\ UpIn(q, desired) # {}
           others == Settings.regions \o Settings.catalog_regions
           alternates == {i \in DOMAIN others : /\ others[i] # desired
                                                /\ others[i] \notin draining
                                                /\ UpIn(q, others[i]) # {}}
           there == {d \in Eligible(q) : InRegion(d, desired)}
           region == IF stays THEN desired
                     ELSE IF alternates # {} THEN others[LeastOf(alternates)]
                     ELSE IF there # {} THEN desired ELSE "fallback"
           last_resort == OrElse(UpIn(q, desired), OrElse(Closed(q, Eligible(q)),
                          OrElse(there, Eligible(q))))
           pool == IF stays \/ alternates # {} THEN UpIn(q, region) ELSE last_resort
           chosen == Pick(ByName(pool), q.spread[region])
           rest == Closed(q, Eligible(q)) \ {chosen}
           key == [d \in Models |-> <<Late(~InRegion(d, region)), -Quality(d), Name(d)>>]
           decision == Decision(chosen, Sorted(rest, key))
           after == [m EXCEPT !.pin[c] = region]
           P == Places(c) \ {NoRegion}
<1>1. /\ q.client = c /\ \A x \in P : q.spread[x] \in Nat
  BY DEF Asked
<1>2. Held(s, c) = Places(c) /\ pin \in Places(c)
  <2>1. Held(s, c) = Places(c)
    BY DEF Held, PinsRegions
  <2> QED
    BY <2>1 DEF Remembers
<1>3. Head(asked) \in P
  <2> HIDE DEF asked, P
  <2>1. asked = Regions(q)
    BY DEF asked
  <2>2. /\ Head(asked) = asked[1] /\ 1 \in DOMAIN asked
        /\ \A i \in DOMAIN asked : asked[i] \in Places(c) \ {NoRegion}
    BY Zenon, <2>1, RegionsAskedIs
  <2> QED
    BY Zenon, <2>2 DEF P
<1> HIDE DEF asked
<1>4. desired \in P
  BY <1>2, <1>3
<1> HIDE DEF desired, P
<1>5. /\ DOMAIN others \in SUBSET Nat
      /\ \A i \in DOMAIN others : others[i] \in P
      /\ \A d \in Models : Catalog[d].regions \subseteq ToSet(others)
  <2>1. ToSet(others) \subseteq Places(c)
    BY Zenon DEF Places
  <2> HIDE DEF others
  <2>2. others = Settings.regions \o Settings.catalog_regions
    BY DEF others
  <2>3. /\ DOMAIN others \in SUBSET Nat
        /\ \A i \in DOMAIN others : others[i] \in ToSet(others) \ {NoRegion}
        /\ \A d \in Models : Catalog[d].regions \subseteq ToSet(others) \ {NoRegion}
    BY Zenon, <2>2, RegionsAre
  <2> QED
    BY <2>1, <2>3 DEF P
<1> HIDE DEF others
<1>6. alternates # {} => LeastOf(alternates) \in alternates
  <2>1. alternates \in SUBSET Nat
    BY <1>5
  <2> HIDE DEF alternates
  <2> QED
    BY <2>1, LeastIs
<1>7. /\ region \in P
      /\ stays \/ alternates # {} => UpIn(q, region) # {} /\ region \notin draining
  <2>1. CASE stays
    BY <1>4, <2>1
  <2>2. CASE ~stays /\ alternates # {}
    <3>1. region = others[LeastOf(alternates)]
      BY <2>2
    <3>2. /\ LeastOf(alternates) \in DOMAIN others
          /\ others[LeastOf(alternates)] \notin draining
          /\ UpIn(q, others[LeastOf(alternates)]) # {}
      BY <1>6, <2>2
    <3> HIDE DEF region, alternates, stays
    <3> QED
      BY <1>5, <3>1, <3>2
  <2>3. CASE ~stays /\ alternates = {}
    <3>1. "fallback" \in P
      BY Zenon, FallbackIs DEF P
    <3>2. region = desired \/ region = "fallback"
      BY <2>3
    <3> HIDE DEF region, stays, alternates
    <3> QED
      BY <1>4, <2>3, <3>1, <3>2
  <2> QED
    BY <2>1, <2>2, <2>3
<1>8. /\ Active(q) \in SUBSET Models /\ Active(q) # {} /\ Active(q) \subseteq Eligible(q)
      /\ Closed(q, Eligible(q)) # {} => Active(q) = Closed(q, Eligible(q))
      /\ Closed(q, Eligible(q)) = {} => Active(q) = Eligible(q)
      /\ Eligible(q) \in SUBSET Models /\ Eligible(q) # {}
      /\ Closed(q, Eligible(q)) \in SUBSET Eligible(q)
  BY ActiveIs, EligibleIs DEF Active, OrElse, Closed
<1>9. \A r : UpIn(q, r) \subseteq Closed(q, Eligible(q))
  BY DEF UpIn
<1>10. elsewhere # {} => stays \/ alternates # {}
  <2> SUFFICES ASSUME NEW d \in elsewhere, ~stays PROVE alternates # {}
    OBVIOUS
  <2>1. d \in Closed(q, Eligible(q)) /\ d \in Models
    BY <1>8
  <2>2. PICK r \in Catalog[d].regions : r \notin draining
    OBVIOUS
  <2>3. d \in UpIn(q, r)
    BY <2>1, <2>2 DEF UpIn, InRegion
  <2>4. r # desired
    BY <2>2, <2>3
  <2>5. PICK i \in DOMAIN others : others[i] = r
    BY <1>5, <2>1, <2>2 DEF ToSet
  <2> QED
    BY <2>2, <2>3, <2>4, <2>5
<1> HIDE DEF region
<1>11. /\ pool \in SUBSET Models /\ pool # {} /\ pool \subseteq Active(q)
       /\ elsewhere # {} => pool = UpIn(q, region) /\ region \notin draining
  <2>1. CASE stays \/ alternates # {}
    <3>1. pool = UpIn(q, region) /\ pool # {} /\ region \notin draining
      BY <1>7, <2>1
    <3> HIDE DEF pool, stays, alternates
    <3>2. pool \subseteq Closed(q, Eligible(q))
      BY <1>9, <3>1
    <3> QED
      BY <1>8, <3>1, <3>2
  <2>2. CASE ~(stays \/ alternates # {})
    <3>1. pool = last_resort
      BY <2>2
    <3>2. there \subseteq Eligible(q)
      OBVIOUS
    <3> HIDE DEF there
    <3>3. last_resort \in SUBSET Models /\ last_resort # {} /\ last_resort \subseteq Active(q)
      <4>1. CASE Closed(q, Eligible(q)) # {}
        <5>1. \/ last_resort = UpIn(q, desired) /\ UpIn(q, desired) # {}
              \/ last_resort = Closed(q, Eligible(q))
          BY <4>1 DEF OrElse
        <5> HIDE DEF last_resort
        <5> QED
          BY <1>8, <1>9, <4>1, <5>1
      <4>2. CASE Closed(q, Eligible(q)) = {}
        <5>1. UpIn(q, desired) = {}
          BY <1>9, <4>2
        <5>2. last_resort = OrElse(there, Eligible(q))
          BY <4>2, <5>1 DEF OrElse
        <5> HIDE DEF last_resort
        <5> QED
          BY <1>8, <3>2, <4>2, <5>2 DEF OrElse
      <4> QED
        BY <4>1, <4>2
    <3> HIDE DEF pool, stays, alternates, last_resort
    <3> QED
      BY <1>10, <2>2, <3>1, <3>3
  <2> QED
    BY <2>1, <2>2
<1>12. q.spread[region] \in Nat
  BY <1>1, <1>7
<1> HIDE DEF pool
<1>13. chosen \in pool
  BY <1>11, <1>12, PickIn
<1> HIDE DEF chosen
<1>14. Remembers(s, after)
  <2>1. region \in Held(s, c)
    BY <1>2, <1>7 DEF P
  <2> QED
    BY <2>1, PinKept
<1>15. \A d \in Models : key[d] \in [1..3 -> Int]
  <2>1. \A d \in Models : Quality(d) \in Int /\ Name(d) \in Int
    BY AskedCandidate
  <2> QED
    BY <2>1 DEF Late
<1> HIDE DEF key
<1>16. StickyRegionDrain(q, m) = Outcome(decision, after)
  BY Zenon, <1>1 DEF StickyRegionDrain, chosen, pool, region, key, others, desired, asked
<1>17. decision.chosen = chosen
  BY DEF Decision
<1>18. Sound(s, q, Outcome(decision, after))
  <2> HIDE DEF after
  <2>1. /\ chosen \in Eligible(q) /\ (s \notin KeepsUp \/ chosen \in Active(q))
        /\ rest \in SUBSET (Models \ {chosen})
        /\ \A d \in rest : key[d] \in [1..3 -> Int]
    BY <1>8, <1>11, <1>13, <1>15
  <2> HIDE DEF rest
  <2> QED
    BY Zenon, <1>14, <2>1, 3 \in Nat, OrderedSound
<1>19. Outcome(decision, after).decision = decision
  BY DEF Outcome
<1>20. elsewhere # {} => chosen \in elsewhere
  <2> HAVE elsewhere # {}
  <2>1. chosen \in UpIn(q, region) /\ region \notin draining
    BY <1>11, <1>13
  <2>2. chosen \in Closed(q, Eligible(q)) /\ region \in Catalog[chosen].regions
    BY <1>9, <2>1 DEF UpIn, InRegion
  <2> QED
    BY <2>1, <2>2
<1> HIDE DEF decision, after
<1> QED
  BY Zenon, <1>16, <1>17, <1>18, <1>19, <1>20

\* A probe is counted.  Where every other model that serves the request is of
\* another provider, and there is one, the leader's provider is not asked half
\* open without a probe.
ProbesCounted(q, m, leader, p) ==
    LET o == ProviderCircuitProbe(q, m)
        n == m.count[p]
    IN  \E k \in Nat :
            /\ o.memory = [m EXCEPT !.count[p] = k]
            /\ \/ k = n
               \/ k = 0 /\ p \notin q.open \cup q.half_open
               \/ k = n + 1 /\ p \in q.half_open /\ n < Settings.probe_budget
            /\ (/\ Eligible(q) # {leader}
                /\ \A d \in Eligible(q) \ {leader} : Provider(d) # p
                /\ p \in q.half_open /\ Provider(o.decision.chosen) = p)
                => k = n + 1

\* The models that are up for good.
Settled(q) == {d \in Closed(q, Eligible(q)) : Provider(d) \notin q.half_open}

LEMMA ProbeSound ==
    ASSUME NEW c \in Clients, NEW q, Asked(c, q), NEW m,
           NEW s, s = "ProviderCircuitProbe", Remembers(s, m),
           NEW leader, leader = FinestByName(q, Eligible(q)), NEW p, p = Provider(leader)
    PROVE  /\ Sound(s, q, ProviderCircuitProbe(q, m))
           /\ p \in Providers /\ leader \in Eligible(q)
           /\ ProbesCounted(q, m, leader, p)
           /\ Settled(q) # {} => Up(q, ProviderCircuitProbe(q, m).decision.chosen)
<1> DEFINE half(d) == Provider(d) \in q.half_open
           settled(d) == Up(q, d) /\ ~half(d)
           alternates == {d \in Eligible(q) : Provider(d) # p /\ settled(d)}
           others == OrElse(alternates, OrElse(Eligible(q) \ {leader}, {leader}))
           n == m.count[p]
           probing == half(leader) /\ n < Settings.probe_budget
           chosen == IF settled(leader) \/ probing THEN leader ELSE FinestByName(q, others)
           key == [d \in Models |->
                     <<Late(~settled(d)), Late(half(d)), -Quality(d), Cost(q, d), Name(d)>>]
           decision == Decision(chosen, Sorted(Eligible(q) \ {chosen}, key))
           k == IF settled(leader) THEN 0 ELSE IF probing THEN n + 1 ELSE n
           after == [m EXCEPT !.count[p] = k]
           o == ProviderCircuitProbe(q, m)
<1>1. q.prompt \in Nat /\ q.max_tokens \in Nat
  BY DEF Asked
<1>2. Eligible(q) \in SUBSET Models /\ Eligible(q) # {}
  BY EligibleIs
<1>3. leader \in Eligible(q) /\ p \in Providers
  <2>1. leader \in Eligible(q)
    BY <1>1, <1>2, FinestIn
  <2> QED
    BY <1>2, <2>1, AskedCandidate
<1>4. s \notin KeepsUp /\ Counted(s) = Providers /\ n \in Nat
  <2>1. s \notin KeepsUp /\ Counted(s) = Providers
    BY DEF KeepsUp, Counted, Keys, OfProviders
  <2> QED
    BY <1>3, <2>1 DEF Remembers
<1>5. others \in SUBSET Models /\ others # {} /\ others \subseteq Eligible(q)
  BY <1>2, <1>3 DEF OrElse
<1>6. (/\ Eligible(q) # {leader} /\ \A d \in Eligible(q) \ {leader} : Provider(d) # p)
        => \A d \in others : Provider(d) # p
  BY <1>2, <1>3 DEF OrElse
<1>6a. Settled(q) # {} /\ ~settled(leader) => \A d \in others : Up(q, d)
  <2> SUFFICES ASSUME NEW x \in Settled(q), ~settled(leader), NEW d \in others PROVE Up(q, d)
    OBVIOUS
  <2>1. x \in Eligible(q) /\ settled(x)
    BY DEF Settled, Closed
  <2>2. Provider(x) # p
    BY <2>1 DEF Up
  <2> QED
    BY <2>1, <2>2 DEF OrElse
<1> HIDE DEF others
<1>7. FinestByName(q, others) \in others
  BY <1>1, <1>5, FinestIn
<1>8. chosen \in Eligible(q)
  BY <1>3, <1>5, <1>7
<1>9. (/\ Eligible(q) # {leader} /\ \A d \in Eligible(q) \ {leader} : Provider(d) # p
       /\ p \in q.half_open /\ Provider(chosen) = p) => k = n + 1
  BY <1>6, <1>7
<1>9a. Settled(q) # {} => Up(q, chosen)
  <2> HAVE Settled(q) # {}
  <2>1. CASE settled(leader)
    BY <2>1
  <2>2. CASE ~settled(leader) /\ probing
    <3>1. q.half_open \cap q.open = {}
      BY DEF Asked
    <3> QED
      BY <2>2, <3>1 DEF Up
  <2>3. CASE ~settled(leader) /\ ~probing
    BY <1>7, <1>6a, <2>3
  <2> QED
    BY <2>1, <2>2, <2>3
<1>10. /\ k \in Nat
       /\ \/ k = n
          \/ k = 0 /\ p \notin q.open \cup q.half_open
          \/ k = n + 1 /\ p \in q.half_open /\ n < Settings.probe_budget
  <2>1. settled(leader) => p \notin q.open \cup q.half_open
    BY DEF Up
  <2>2. probing => p \in q.half_open /\ n < Settings.probe_budget
    OBVIOUS
  <2> HIDE DEF settled, probing, n
  <2> QED
    BY <1>4, <2>1, <2>2
<1>11. \A d \in Models : key[d] \in [1..5 -> Int]
  <2>1. \A d \in Models : Quality(d) \in Int /\ Cost(q, d) \in Int /\ Name(d) \in Int
    BY AskedCandidate
  <2> HIDE DEF settled, half
  <2> QED
    BY <2>1 DEF Late
<1>12. o = Outcome(decision, after)
  <2>1. after = [m EXCEPT !.count[p] = IF settled(leader) THEN 0
                                       ELSE IF probing THEN @ + 1 ELSE @]
    OBVIOUS
  <2> HIDE DEF after
  <2> QED
    BY Zenon, <2>1 DEF ProviderCircuitProbe, others
<1> HIDE DEF key, chosen, k
<1>13. Remembers(s, after)
  BY <1>3, <1>4, <1>10, CountKept
<1>14. decision.chosen = chosen
  BY DEF Decision
<1>15. Sound(s, q, Outcome(decision, after))
  <2> HIDE DEF after
  <2>1. /\ Eligible(q) \ {chosen} \in SUBSET (Models \ {chosen})
        /\ \A d \in Eligible(q) \ {chosen} : key[d] \in [1..5 -> Int]
    BY <1>2, <1>8, <1>11
  <2> QED
    BY Zenon, <1>4, <1>8, <1>13, <2>1, 5 \in Nat, OrderedSound
<1>16. Outcome(decision, after).decision = decision /\ Outcome(decision, after).memory = after
  BY DEF Outcome
<1> HIDE DEF decision, o
<1>17. Sound(s, q, o) /\ o.memory = after /\ o.decision.chosen = chosen
  <2> HIDE DEF after
  <2> QED
    BY <1>12, <1>14, <1>15, <1>16
<1> QED
  <2> HIDE DEF n
  <2>1. /\ o.memory = [m EXCEPT !.count[p] = k]
        /\ \/ k = n
           \/ k = 0 /\ p \notin q.open \cup q.half_open
           \/ k = n + 1 /\ p \in q.half_open /\ n < Settings.probe_budget
        /\ (/\ Eligible(q) # {leader}
            /\ \A d \in Eligible(q) \ {leader} : Provider(d) # p
            /\ p \in q.half_open /\ Provider(o.decision.chosen) = p) => k = n + 1
    BY <1>9, <1>10, <1>17
  <2> QED
    BY <1>3, <1>10, <1>17, <1>9a, <2>1 DEF n, o, ProbesCounted

\* choose, of any of them.
LEMMA DecideSound ==
    ASSUME NEW s \in Strategies, NEW c \in Clients, NEW q, Asked(c, q), NEW m, Remembers(s, m)
    PROVE  Sound(s, q, Decide(s, q, m))
<1>1. CASE s = "TokenBucketTenant"
  BY <1>1, BucketsSound DEF Decide
<1>2. CASE s = "TokenBucketBurst"
  BY <1>2, BurstSound DEF Decide
<1>3. CASE s = "ModelTierRateLimit"
  BY <1>3, TierSound DEF Decide
<1>4. CASE s = "TenantQuotaBurst"
  BY <1>4, QuotaSound DEF Decide
<1>5. CASE s = "TenantBudgetCascade"
  BY <1>5, CascadeSound DEF Decide
<1>6. CASE s = "ProviderQuotaFairShare"
  BY <1>6, ShareSound DEF Decide
<1>7. CASE s = "ProviderColdStartBias"
  BY <1>7, ColdStartSound DEF Decide
<1>8. CASE s = "TenantFairQueue"
  BY <1>8, FairQueueSound DEF Decide
<1>9. CASE s = "TenantPriorityLanes"
  BY <1>9, LanesSound DEF Decide
<1>10. CASE s = "StickySessionMigrate"
  BY <1>10, MigrateSound DEF Decide
<1>11. CASE s = "StickyModelPinExpire"
  BY <1>11, PinExpireSound DEF Decide
<1>12. CASE s = "RegionFailoverHysteresis"
  BY <1>12, HysteresisSound DEF Decide
<1>13. CASE s = "StickyRegionWarmup"
  BY <1>13, WarmupSound DEF Decide
<1>14. CASE s = "StickyRegionDrain"
  BY <1>14, DrainSound DEF Decide
<1>15. CASE s = "ProviderCircuitProbe"
  BY <1>15, ProbeSound DEF Decide
<1> QED
  BY <1>1, <1>2, <1>3, <1>4, <1>5, <1>6, <1>7, <1>8, <1>9, <1>10, <1>11, <1>12, <1>13, <1>14,
     <1>15, StrategiesAssumption
-----------------------------------------------------------------------------
(* What the steps leave behind *)

LEMMA FreshRemembers == ASSUME NEW s PROVE Remembers(s, Fresh(s))
<1> DEFINE m == Fresh(s)
<1>1. /\ DOMAIN m = {"tokens", "window", "recent", "pin", "left", "count"}
      /\ m.tokens = [k \in Keys(s) |-> Settings.capacity]
      /\ m.window = [k \in Keys(s) |-> <<>>]
      /\ m.recent = <<>>
      /\ m.pin = [c \in Clients |-> IF s \in PinsRegions THEN NoRegion ELSE NoModel]
      /\ m.left = [c \in Clients |-> 0]
      /\ m.count = [k \in Counted(s) |-> 0]
  BY DEF Fresh, Keys, Counted
<1> HIDE DEF m
<1>2. Settings.capacity \in Nat
  BY SettingIs
<1>3. \A c : NoRegion \in Places(c)
  BY Zenon DEF Places
<1>4. /\ m.tokens \in [Keys(s) -> Nat] /\ m.window \in [Keys(s) -> Seq(Entries)]
      /\ m.recent \in Seq(Heard(s)) /\ m.left \in [Clients -> Nat]
      /\ m.count \in [Counted(s) -> Nat]
  BY <1>1, <1>2
<1>5. m.pin = [c \in Clients |-> m.pin[c]] /\ \A c \in Clients : m.pin[c] \in Held(s, c)
  BY <1>1, <1>3 DEF Held
<1> QED
  BY <1>1, <1>4, <1>5 DEF Remembers, m

\* A tick takes from a window an entry or more at its start, and no amount of the others.
LEMMA AgedIs ==
    ASSUME NEW s, NEW m, Remembers(s, m)
    PROVE  /\ Remembers(s, Aged(m))
           /\ Aged(m).recent = m.recent /\ Aged(m).pin = m.pin /\ Aged(m).count = m.count
           /\ \A k \in Keys(s) : Total(Aged(m).window[k]) <= Total(m.window[k])
<1> DEFINE refilled(n) == IF n + Settings.refill < Settings.capacity
                          THEN n + Settings.refill ELSE Settings.capacity
           ended(w) == Cardinality({i \in DOMAIN w : \A j \in 1..i : w[j].left = 0})
           aged(w) == [i \in 1..(Len(w) - ended(w)) |-> [w[i + ended(w)] EXCEPT !.left = @ - 1]]
           tokens == [k \in Keys(s) |-> refilled(m.tokens[k])]
           window == [k \in Keys(s) |-> aged(m.window[k])]
           left == [c \in Clients |-> IF m.left[c] > 0 THEN m.left[c] - 1 ELSE 0]
<1>1. /\ DOMAIN m.tokens = Keys(s) /\ DOMAIN m.window = Keys(s) /\ DOMAIN m.left = Clients
      /\ DOMAIN m = {"tokens", "window", "recent", "pin", "left", "count"}
      /\ \A k \in Keys(s) : m.tokens[k] \in Nat /\ m.window[k] \in Seq(Entries)
      /\ \A c \in Clients : m.left[c] \in Nat
  BY DEF Remembers
<1>2. Aged(m) = [m EXCEPT !.tokens = tokens, !.window = window, !.left = left]
  <2>1. Aged(m) = [m EXCEPT !.tokens = [k \in DOMAIN m.tokens |-> refilled(m.tokens[k])],
                            !.window = [k \in DOMAIN m.window |-> aged(m.window[k])],
                            !.left = [c \in DOMAIN m.left |->
                                        IF m.left[c] > 0 THEN m.left[c] - 1 ELSE 0]]
    <3> HIDE DEF refilled, aged
    <3> QED
      BY <1>1 DEF Aged, refilled, aged, ended
  <2> QED
    BY Zenon, <1>1, <2>1
<1>3. tokens \in [Keys(s) -> Nat]
  <2>1. Settings.refill \in Nat /\ Settings.capacity \in Nat
    BY SettingIs
  <2> QED
    BY <1>1, <2>1
<1>4. ASSUME NEW w \in Seq(Entries)
      PROVE  aged(w) \in Seq(Entries) /\ Total(aged(w)) <= Total(w)
  <2> DEFINE n == ended(w)
             v == aged(w)
             l == Len(w)
  <2>1. l \in Nat /\ DOMAIN w = 1..l /\ IsFiniteSet(DOMAIN w)
        /\ \A i \in 1..l : w[i] \in Entries
    BY EntriesAre
  <2>2. n \in 0..l
    <3> DEFINE gone == {i \in DOMAIN w : \A j \in 1..i : w[j].left = 0}
    <3>1. gone \subseteq DOMAIN w
      OBVIOUS
    <3>2. Cardinality(DOMAIN w) = l
      <4> HIDE DEF l
      <4>1. IsFiniteSet(1..l) /\ Cardinality(1..l) = (IF 1 > l THEN 0 ELSE l - 1 + 1)
        BY <2>1, FS_Interval
      <4> QED
        BY <2>1, <4>1
    <3> HIDE DEF gone, l
    <3>3. Cardinality(gone) <= Cardinality(DOMAIN w) /\ Cardinality(gone) \in Nat
      BY <2>1, <3>1, FS_Subset, FS_CardinalityType
    <3> QED
      BY <2>1, <3>2, <3>3 DEF gone
  <2>3. v = [i \in 1..(l - n) |-> [w[i + n] EXCEPT !.left = @ - 1]]
    OBVIOUS
  <2> HIDE DEF n, v, l
  <2>4. \A i \in 1..(l - n) : i + n \in 1..l
    BY <2>1, <2>2
  <2>5. \A e \in Entries : /\ [e EXCEPT !.left = @ - 1] \in Entries
                           /\ [e EXCEPT !.left = @ - 1].amount = e.amount
    BY DEF Entries
  <2>6. \A i \in 1..(l - n) : v[i] \in Entries /\ v[i].amount = w[i + n].amount
    BY <2>1, <2>3, <2>4, <2>5
  <2>7. v \in Seq(Entries) /\ Len(v) = l - n
    <3>1. l - n \in Nat
      BY <2>1, <2>2
    <3> DEFINE k == l - n
    <3>2. k \in Nat /\ v = [i \in 1..k |-> v[i]] /\ \A i \in 1..k : v[i] \in Entries
      BY <2>3, <2>6, <3>1
    <3> HIDE DEF k
    <3>3. v \in Seq(Entries) /\ Len(v) = k
      BY <3>2
    <3> QED
      BY <3>3 DEF k
  <2>8. Total(v) <= Total(w)
    BY <2>2, <2>6, <2>7, TotalOfEnd DEF l
  <2> QED
    BY <2>7, <2>8 DEF v
<1> HIDE DEF aged
<1>5. window \in [Keys(s) -> Seq(Entries)] /\ \A k \in Keys(s) : Total(window[k]) <= Total(m.window[k])
  BY <1>1, <1>4
<1>6. left \in [Clients -> Nat]
  BY <1>1
<1> HIDE DEF tokens, window, left
<1>7. /\ Aged(m).tokens = tokens /\ Aged(m).window = window /\ Aged(m).left = left
      /\ Aged(m).recent = m.recent /\ Aged(m).pin = m.pin /\ Aged(m).count = m.count
      /\ DOMAIN Aged(m) = DOMAIN m
  BY <1>1, <1>2
<1>8. Remembers(s, Aged(m))
  BY <1>1, <1>3, <1>5, <1>6, <1>7 DEF Remembers
<1> QED
  BY <1>5, <1>7, <1>8

LEMMA LearntIs ==
    ASSUME NEW s, NEW c \in Clients, Asked(c, Question(c)), NEW d \in Models,
           NEW m, Remembers(s, m), NEW succeeded \in BOOLEAN
    PROVE  /\ Remembers(s, Learnt(s, c, d, m, succeeded))
           /\ s \notin Learns => Learnt(s, c, d, m, succeeded) = m
           /\ s = "TenantBudgetCascade" =>
                Learnt(s, c, d, m, succeeded)
                    = IF succeeded THEN Recorded(m, c, Cost(Question(c), d)) ELSE m
<1>1. CASE s = "RegionFailoverHysteresis"
  <2> DEFINE region == Region(Profile[c])
             n == m.count[region]
             k == IF ~succeeded THEN 0 ELSE IF n < Settings.hysteresis THEN n + 1 ELSE n
  <2>1. region \in Counted(s)
    BY Zenon, <1>1 DEF Counted
  <2> HIDE DEF region
  <2>2. Learnt(s, c, d, m, succeeded) = Streak(m, region, succeeded)
    BY <1>1 DEF Learnt, region
  <2>3. Streak(m, region, succeeded) = [m EXCEPT !.count[region] = k]
    BY DEF Streak
  <2>4. k \in Nat
    BY <2>1 DEF Remembers
  <2>5. Remembers(s, [m EXCEPT !.count[region] = k])
    <3> HIDE DEF k
    <3> QED
      BY <2>1, <2>4, CountKept
  <2> QED
    BY Zenon, <1>1, <2>2, <2>3, <2>5 DEF Learns
<1>2. CASE s = "TenantBudgetCascade"
  <2>1. c \in Keys(s) /\ Cost(Question(c), d) \in Nat
    BY <1>2, CandidateIs DEF Keys, OfProviders, Asked
  <2>2. Remembers(s, Recorded(m, c, Cost(Question(c), d)))
    BY <2>1, RecordedKept
  <2>3. Learnt(s, c, d, m, succeeded)
            = IF succeeded THEN Recorded(m, c, Cost(Question(c), d)) ELSE m
    BY <1>2 DEF Learnt
  <2> QED
    BY <1>2, <2>2, <2>3 DEF Learns
<1>3. CASE s \notin Learns
  BY <1>3 DEF Learnt, Learns
<1> QED
  BY <1>1, <1>2, <1>3 DEF Learns
-----------------------------------------------------------------------------
(* The state is coherent *)

Attempt(call) ==
    call # Idle => /\ call.now \in Models \ call.rest /\ call.rest \in SUBSET Models
                   /\ call.booked \in BOOLEAN

\* There is nothing more to record of what it costs.
Over(call) == call = Idle \/ call.booked

\* The ways in which an attempt ends.
Ends(t) == Fail(t) \/ FailToAudit(t) \/ Answer(t) \/ Cancel(t)

Coherent ==
    /\ strategy \in Strategies
    /\ Seen(sees)
    /\ Remembers(strategy, memory)
    /\ calls = [t \in Tasks |-> calls[t]] /\ \A t \in Tasks : Attempt(calls[t])
    /\ last \in [Clients -> Models \cup {NoModel}]
    /\ probes \in [Providers -> Nat]
    /\ outcome = Outcomes(strategy, sees, memory)

LEMMA NoModelIs == NoModel \notin Models
  BY CatalogAssumption DEF CatalogAssumption

\* What is decided for a client now.
LEMMA OutcomeIs ==
    ASSUME Coherent, NEW c \in Clients
    PROVE  /\ Asked(c, Question(c))
           /\ Question(c).open = sees.open /\ Question(c).half_open = sees.half_open
           /\ Question(c).draining = sees.draining /\ Question(c).success = sees.success
           /\ outcome[c] = Decide(strategy, Question(c), memory)
           /\ Sound(strategy, Question(c), outcome[c])
<1>1. outcome[c] = Decide(strategy, Question(c), memory)
  BY DEF Coherent, Outcomes, Question
<1> QED
  BY <1>1, AskingIs, DecideSound DEF Coherent, Question

LEMMA OwnerIs == ASSUME Coherent, NEW t \in Tasks PROVE Owner(strategy)[t] \in Clients
  BY ClientsAssumption DEF Coherent

\* The next attempt is at one of the models that are left.
LEMMA OnwardIs ==
    ASSUME NEW models \in SUBSET Models, NEW booked \in BOOLEAN,
           NEW call \in Onward(models, booked)
    PROVE  /\ Attempt(call)
           /\ call # Idle => /\ call.now \in models /\ call.rest = models \ {call.now}
                             /\ call.booked = booked
  BY DEF Onward, Closed, Attempt

LEMMA FirstIs ==
    ASSUME NEW decision, decision.chosen \in Models,
           ToSet(decision.chain) \subseteq Models \ {decision.chosen},
           NEW call \in First(decision)
    PROVE  /\ Attempt(call)
           /\ call # Idle => /\ {call.now} \cup call.rest
                                  \subseteq {decision.chosen} \cup ToSet(decision.chain)
                             /\ call.booked = FALSE
<1> DEFINE rest == ToSet(decision.chain)
<1>1. CASE call \in Onward(rest, FALSE)
  <2>1. rest \in SUBSET Models
    OBVIOUS
  <2> HIDE DEF rest
  <2>2. Attempt(call) /\ (call # Idle => /\ call.now \in rest /\ call.rest = rest \ {call.now}
                                         /\ call.booked = FALSE)
    BY <1>1, <2>1, OnwardIs
  <2> QED
    BY <2>2 DEF rest
<1>2. CASE call \notin Onward(rest, FALSE)
  <2>1. PICK c \in Closed(sees, {decision.chosen}) :
            call = [now |-> c, rest |-> rest, booked |-> FALSE]
    BY <1>2 DEF First
  <2>2. c = decision.chosen
    BY DEF Closed
  <2> QED
    BY <2>1, <2>2 DEF Attempt
<1> QED
  BY <1>1, <1>2

LEMMA InitCoherent == Init => Coherent
<1> SUFFICES ASSUME Init PROVE Coherent
  OBVIOUS
<1>1. Seen(sees)
  BY CircumstancesAssumption DEF Init, Seen
<1>2. Remembers(strategy, memory)
  BY FreshRemembers DEF Init
<1>3. \A t \in Tasks : Attempt(calls[t])
  BY DEF Init, Attempt
<1> QED
  BY <1>1, <1>2, <1>3 DEF Init, Coherent

\* What a task's request leaves: the memory that choose returns, and an attempt
\* at one of the models it decided for.
LEMMA AskIs ==
    ASSUME Coherent, NEW t \in Tasks, Ask(t), NEW c, c = Owner(strategy)[t]
    PROVE  /\ c \in Clients /\ calls[t] = Idle
           /\ strategy' = strategy /\ sees' = sees
           /\ memory' = outcome[c].memory /\ Remembers(strategy, memory')
           /\ last' = IF strategy \in Watched
                      THEN [last EXCEPT ![c] = outcome[c].decision.chosen] ELSE last
           /\ outcome[c].decision.chosen \in Models \cup {NoModel}
           /\ \/ calls' = calls
              \/ /\ outcome[c].decision.chosen \in Models
                 /\ \E call : /\ calls' = [calls EXCEPT ![t] = call] /\ Attempt(call)
                              /\ call # Idle =>
                                   /\ {call.now} \cup call.rest
                                        \subseteq {outcome[c].decision.chosen}
                                            \cup ToSet(outcome[c].decision.chain)
                                   /\ call.booked = FALSE
<1> DEFINE decision == outcome[c].decision
<1>1. c \in Clients
  BY OwnerIs
<1>2. Sound(strategy, Question(c), outcome[c])
  BY <1>1, OutcomeIs
<1>3. /\ calls[t] = Idle /\ strategy' = strategy /\ sees' = sees
      /\ memory' = outcome[c].memory
      /\ last' = IF strategy \in Watched THEN [last EXCEPT ![c] = decision.chosen] ELSE last
      /\ \/ /\ strategy \in Learns /\ decision.chosen # NoModel
            /\ \E call \in First(decision) : calls' = [calls EXCEPT ![t] = call]
         \/ calls' = calls
  BY DEF Ask
<1>4. decision.chosen \in Models \cup {NoModel}
      /\ (decision.chosen # NoModel => decision.chosen \in Models
            /\ ToSet(decision.chain) \subseteq Models \ {decision.chosen})
  BY <1>2 DEF Sound, Usable
<1>5. Remembers(strategy, memory')
  BY <1>2, <1>3 DEF Sound
<1> HIDE DEF decision
<1>6. \/ calls' = calls
      \/ /\ decision.chosen \in Models
         /\ \E call : /\ calls' = [calls EXCEPT ![t] = call] /\ Attempt(call)
                      /\ call # Idle => /\ {call.now} \cup call.rest
                                             \subseteq {decision.chosen} \cup ToSet(decision.chain)
                                        /\ call.booked = FALSE
  <2>1. SUFFICES ASSUME decision.chosen # NoModel, NEW call \in First(decision),
                        calls' = [calls EXCEPT ![t] = call]
                 PROVE  /\ Attempt(call)
                        /\ call # Idle =>
                             /\ {call.now} \cup call.rest
                                  \subseteq {decision.chosen} \cup ToSet(decision.chain)
                             /\ call.booked = FALSE
    BY <1>3, <1>4
  <2> QED
    BY <1>4, <2>1, FirstIs
<1> QED
  BY <1>1, <1>3, <1>4, <1>5, <1>6 DEF decision

\* What an attempt leaves when it ends.
LEMMA EndIs ==
    ASSUME Coherent, NEW t \in Tasks, Ends(t), NEW c, c = Owner(strategy)[t]
    PROVE  /\ c \in Clients /\ calls[t] # Idle /\ calls[t].now \in Models
           /\ strategy' = strategy /\ sees' = sees /\ last' = last /\ probes' = probes
           /\ Remembers(strategy, memory')
           /\ strategy \notin Learns => memory' = memory
           /\ \E call :
                /\ calls' = [calls EXCEPT ![t] = call] /\ Attempt(call)
                /\ call # Idle => {call.now} \cup call.rest \subseteq calls[t].rest
                /\ Over(calls[t]) => Over(call)
                /\ strategy = "TenantBudgetCascade" =>
                     \/ memory' = memory
                     \/ /\ ~Over(calls[t]) /\ Over(call)
                        /\ memory' = Recorded(memory, c, Cost(Question(c), calls[t].now))
<1>1. c \in Clients /\ Asked(c, Question(c)) /\ Remembers(strategy, memory)
  BY OwnerIs, OutcomeIs DEF Coherent
<1>2. calls[t] # Idle /\ Attempt(calls[t])
  BY DEF Coherent, Ends, Fail, FailToAudit, Answer, Cancel
<1>3. calls[t].now \in Models /\ calls[t].rest \in SUBSET Models /\ calls[t].booked \in BOOLEAN
  BY <1>2 DEF Attempt
<1> DEFINE now == calls[t].now
           rest == calls[t].rest
           booked == calls[t].booked
           learnt(m, b) == Learnt(strategy, c, now, m, b)
           paid == Recorded(memory, c, Cost(Question(c), now))
<1> HIDE DEF now, rest, booked
<1>4. \A m : Remembers(strategy, m) => \A b \in BOOLEAN :
        /\ Remembers(strategy, learnt(m, b))
        /\ strategy \notin Learns => learnt(m, b) = m
        /\ strategy = "TenantBudgetCascade" =>
             learnt(m, b) = IF b THEN Recorded(m, c, Cost(Question(c), now)) ELSE m
  BY <1>1, <1>3, LearntIs DEF now
<1> HIDE DEF learnt, paid
<1>5. /\ \A b \in BOOLEAN : /\ Remembers(strategy, learnt(memory, b))
                            /\ strategy \notin Learns => learnt(memory, b) = memory
      /\ strategy = "TenantBudgetCascade" =>
           learnt(memory, FALSE) = memory /\ learnt(memory, TRUE) = paid
  BY <1>1, <1>4 DEF paid
<1>6. /\ Remembers(strategy, learnt(learnt(memory, TRUE), FALSE))
      /\ strategy \notin Learns => learnt(learnt(memory, TRUE), FALSE) = memory
      /\ strategy = "TenantBudgetCascade" => learnt(learnt(memory, TRUE), FALSE) = paid
  BY <1>4, <1>5
<1>7. \A b \in BOOLEAN : \A call \in Onward(rest, b) :
        /\ Attempt(call)
        /\ call # Idle => {call.now} \cup call.rest \subseteq rest /\ call.booked = b
  <2> SUFFICES ASSUME NEW b \in BOOLEAN, NEW call \in Onward(rest, b)
               PROVE  /\ Attempt(call)
                      /\ call # Idle => {call.now} \cup call.rest \subseteq rest /\ call.booked = b
    OBVIOUS
  <2>1. /\ Attempt(call)
        /\ call # Idle => /\ call.now \in rest /\ call.rest = rest \ {call.now}
                          /\ call.booked = b
    BY <1>3, OnwardIs DEF rest
  <2> QED
    BY <2>1
<1>8. Attempt(Idle) /\ Over(Idle)
  BY DEF Attempt, Over
<1>9. Over(calls[t]) <=> booked
  BY <1>2 DEF Over, booked
<1> DEFINE Left(call) ==
        /\ calls' = [calls EXCEPT ![t] = call] /\ Attempt(call)
        /\ call # Idle => {call.now} \cup call.rest \subseteq rest
        /\ Over(calls[t]) => Over(call)
        /\ strategy = "TenantBudgetCascade" =>
             \/ memory' = memory
             \/ ~Over(calls[t]) /\ Over(call) /\ memory' = paid
<1>10. /\ strategy' = strategy /\ sees' = sees /\ last' = last /\ probes' = probes
       /\ Remembers(strategy, memory') /\ (strategy \notin Learns => memory' = memory)
       /\ \E call : Left(call)
  <2>1. CASE Cancel(t)
    <3>1. /\ strategy' = strategy /\ sees' = sees /\ last' = last /\ probes' = probes
          /\ memory' = memory /\ calls' = [calls EXCEPT ![t] = Idle]
      BY Zenon, <2>1 DEF Cancel
    <3>2. Left(Idle)
      BY Zenon, <1>8, <3>1
    <3> QED
      BY <1>1, <3>1, <3>2
  <2>2. CASE Answer(t)
    <3>1. /\ strategy' = strategy /\ sees' = sees /\ last' = last /\ probes' = probes
          /\ memory' = learnt(memory, TRUE) /\ calls' = [calls EXCEPT ![t] = Idle] /\ ~booked
      BY Zenon, <2>2 DEF Answer, learnt, now, booked
    <3>2. Left(Idle)
      BY Zenon, <1>5, <1>8, <1>9, <3>1
    <3> QED
      BY <1>5, <3>1, <3>2
  <2>3. CASE Fail(t)
    <3>1. /\ strategy' = strategy /\ sees' = sees /\ last' = last /\ probes' = probes
          /\ memory' = learnt(memory, FALSE)
          /\ \E call \in Onward(rest, booked) : calls' = [calls EXCEPT ![t] = call]
      BY Zenon, <2>3 DEF Fail, learnt, now, rest, booked
    <3>2. PICK call \in Onward(rest, booked) : calls' = [calls EXCEPT ![t] = call]
      BY Zenon, <3>1
    <3>3. booked \in BOOLEAN
      BY <1>3 DEF booked
    <3>4. /\ Attempt(call)
          /\ call # Idle => {call.now} \cup call.rest \subseteq rest /\ call.booked = booked
      BY Zenon, <1>7, <3>3
    <3>5. Over(calls[t]) => Over(call)
      BY <1>9, <3>3, <3>4 DEF Over
    <3>6. Left(call)
      BY Zenon, <1>5, <3>1, <3>2, <3>4, <3>5
    <3> QED
      BY Zenon, <1>5, <3>1, <3>6
  <2>4. CASE FailToAudit(t)
    <3>1. /\ strategy' = strategy /\ sees' = sees /\ last' = last /\ probes' = probes /\ ~booked
          /\ memory' = learnt(learnt(memory, TRUE), FALSE)
          /\ \E call \in Onward(rest, TRUE) : calls' = [calls EXCEPT ![t] = call]
      BY Zenon, <2>4 DEF FailToAudit, learnt, now, rest, booked
    <3>2. PICK call \in Onward(rest, TRUE) : calls' = [calls EXCEPT ![t] = call]
      BY Zenon, <3>1
    <3>3. /\ Attempt(call)
          /\ call # Idle => {call.now} \cup call.rest \subseteq rest /\ call.booked = TRUE
      BY Zenon, <1>7
    <3>4. ~Over(calls[t]) /\ Over(call)
      BY <1>9, <3>1, <3>3 DEF Over
    <3>5. Left(call)
      BY Zenon, <1>6, <3>1, <3>2, <3>3, <3>4
    <3> QED
      BY Zenon, <1>6, <3>1, <3>5
  <2> QED
    BY <2>1, <2>2, <2>3, <2>4 DEF Ends
<1> QED
  BY <1>1, <1>2, <1>3, <1>10 DEF now, rest, paid

\* A change of what is seen.
LEMMA SeenStays ==
    ASSUME NEW x, Seen(x)
    PROVE  /\ \A h \in SUBSET (Providers \ x.open) : Seen([x EXCEPT !.half_open = h])
           /\ \A o \in SUBSET Providers : \A h \in SUBSET (Providers \ o) :
                Seen([x EXCEPT !.open = o, !.half_open = h])
           /\ \A f \in [Providers -> Int] : Seen([x EXCEPT !.success = f])
           /\ \A d : Seen([x EXCEPT !.draining = d])
<1>1. {"open", "half_open", "success", "draining"} \subseteq DOMAIN x
  BY CircumstancesAssumption DEF Seen
<1>2. ASSUME NEW h \in SUBSET (Providers \ x.open)
      PROVE  Seen([x EXCEPT !.half_open = h])
  BY <1>1 DEF Seen
<1>3. ASSUME NEW o \in SUBSET Providers, NEW h \in SUBSET (Providers \ o)
      PROVE  Seen([x EXCEPT !.open = o, !.half_open = h])
  BY <1>1 DEF Seen
<1>4. ASSUME NEW f \in [Providers -> Int] PROVE Seen([x EXCEPT !.success = f])
  BY <1>1 DEF Seen
<1>5. ASSUME NEW d PROVE Seen([x EXCEPT !.draining = d])
  BY <1>1 DEF Seen
<1> QED
  BY Zenon, <1>2, <1>3, <1>4, <1>5

\* What the circumstances leave.
LEMMA TurnIs ==
    ASSUME Coherent, NEW p \in Providers, NEW region,
           Trip(p) \/ Recover(p) \/ Close(p) \/ Waver(p) \/ Mark(region)
    PROVE  /\ strategy' = strategy /\ memory' = memory /\ calls' = calls /\ last' = last
           /\ Seen(sees') /\ probes' \in [Providers -> Nat]
<1>1. Seen(sees) /\ probes \in [Providers -> Nat]
  BY DEF Coherent
<1>2. /\ sees.open \in SUBSET Providers /\ sees.half_open \in SUBSET (Providers \ sees.open)
      /\ sees.success \in [Providers -> Int]
  BY <1>1 DEF Seen
<1>3. probes' = probes \/ probes' = [probes EXCEPT ![p] = 0]
  BY Zenon DEF Trip, Recover, Close, Waver, Mark
<1>4. probes' \in [Providers -> Nat]
  BY <1>1, <1>3
<1>5. Seen(sees')
  <2>1. CASE Trip(p)
    <3>1. sees' = [sees EXCEPT !.open = sees.open \cup {p}, !.half_open = sees.half_open \ {p}]
      BY Zenon, <2>1 DEF Trip
    <3>2. /\ sees.open \cup {p} \in SUBSET Providers
          /\ sees.half_open \ {p} \in SUBSET (Providers \ (sees.open \cup {p}))
      BY Zenon, <1>2
    <3> QED
      BY Zenon, <1>1, <3>1, <3>2, SeenStays
  <2>2. CASE Recover(p)
    <3> DEFINE o == sees.open \ {p}
               h == IF strategy = "ProviderCircuitProbe" THEN sees.half_open \cup {p}
                    ELSE sees.half_open
    <3>1. sees' = [sees EXCEPT !.open = o, !.half_open = h]
      BY Zenon, <2>2 DEF Recover
    <3>2. o \in SUBSET Providers /\ h \in SUBSET (Providers \ o)
      BY Zenon, <1>2
    <3> HIDE DEF o, h
    <3> QED
      BY Zenon, <1>1, <3>1, <3>2, SeenStays
  <2>3. CASE Close(p)
    <3>1. sees' = [sees EXCEPT !.half_open = sees.half_open \ {p}]
      BY Zenon, <2>3 DEF Close
    <3>2. sees.half_open \ {p} \in SUBSET (Providers \ sees.open)
      BY Zenon, <1>2
    <3> QED
      BY Zenon, <1>1, <3>1, <3>2, SeenStays
  <2>4. CASE Waver(p)
    <3>1. PICK rate \in Settings.rates \ {sees.success[p]} :
              sees' = [sees EXCEPT !.success[p] = rate]
      BY Zenon, <2>4 DEF Waver
    <3>2. rate \in Int
      BY Zenon, SettingsAssumption
    <3> DEFINE f == [sees.success EXCEPT ![p] = rate]
    <3>3. f \in [Providers -> Int]
      BY <1>2, <3>2
    <3>4. sees' = [sees EXCEPT !.success = f]
      BY Zenon, <3>1
    <3> HIDE DEF f
    <3> QED
      BY Zenon, <1>1, <3>3, <3>4, SeenStays
  <2>5. CASE Mark(region)
    <3>1. PICK d : sees' = [sees EXCEPT !.draining = d]
      BY Zenon, <2>5 DEF Mark
    <3>2. \A e : Seen([sees EXCEPT !.draining = e])
      BY Zenon, <1>1, SeenStays
    <3>3. Seen([sees EXCEPT !.draining = d])
      BY Zenon, <3>2
    <3> QED
      BY Zenon, <3>1, <3>3
  <2> QED
    BY <2>1, <2>2, <2>3, <2>4, <2>5
<1>6. strategy' = strategy /\ memory' = memory /\ calls' = calls /\ last' = last
  BY Zenon DEF Trip, Recover, Close, Waver, Mark
<1> QED
  BY <1>4, <1>5, <1>6

LEMMA CoherentStep == Coherent /\ [Next]_vars => Coherent'
<1> SUFFICES ASSUME Coherent, [Next]_vars PROVE Coherent'
  OBVIOUS
<1>1. /\ Seen(sees) /\ Remembers(strategy, memory) /\ strategy \in Strategies
      /\ calls = [t \in Tasks |-> calls[t]] /\ \A t \in Tasks : Attempt(calls[t])
      /\ last \in [Clients -> Models \cup {NoModel}] /\ probes \in [Providers -> Nat]
  BY DEF Coherent
<1>2. (/\ Seen(sees') /\ Remembers(strategy', memory') /\ strategy' \in Strategies
       /\ calls' = [t \in Tasks |-> calls'[t]] /\ \A t \in Tasks : Attempt(calls'[t])
       /\ last' \in [Clients -> Models \cup {NoModel}] /\ probes' \in [Providers -> Nat]
       /\ outcome' = Outcomes(strategy', sees', memory')) => Coherent'
  BY Zenon DEF Coherent
<1>3. \A t \in Tasks : \A call : calls' = [calls EXCEPT ![t] = call] /\ Attempt(call)
        => calls' = [u \in Tasks |-> calls'[u]] /\ \A u \in Tasks : Attempt(calls'[u])
  BY <1>1
<1>4. CASE UNCHANGED vars
  <2>1. /\ strategy' = strategy /\ sees' = sees /\ memory' = memory /\ calls' = calls
        /\ last' = last /\ probes' = probes /\ outcome' = outcome
    BY <1>4 DEF vars, state
  <2>2. outcome = Outcomes(strategy, sees, memory)
    BY DEF Coherent
  <2> QED
    BY Zenon, <1>1, <1>2, <2>1, <2>2
<1>5. ASSUME Next PROVE outcome' = Outcomes(strategy', sees', memory')
  BY Zenon, <1>5 DEF Next
<1>6. ASSUME Next, NEW t \in Tasks, Ask(t) PROVE Coherent'
  <2> DEFINE c == Owner(strategy)[t]
  <2>1. /\ c \in Clients /\ strategy' = strategy /\ sees' = sees
        /\ Remembers(strategy, memory')
        /\ last' = IF strategy \in Watched
                   THEN [last EXCEPT ![c] = outcome[c].decision.chosen] ELSE last
        /\ outcome[c].decision.chosen \in Models \cup {NoModel}
        /\ calls' = calls \/ \E call : calls' = [calls EXCEPT ![t] = call] /\ Attempt(call)
    BY <1>6, AskIs
  <2>2. last' \in [Clients -> Models \cup {NoModel}]
    BY <1>1, <2>1
  <2>3. calls' = [u \in Tasks |-> calls'[u]] /\ \A u \in Tasks : Attempt(calls'[u])
    BY <1>1, <1>3, <2>1
  <2>4. probes' \in [Providers -> Nat]
    BY <1>1, <1>6 DEF Ask
  <2> QED
    BY <1>1, <1>2, <1>5, <1>6, <2>1, <2>2, <2>3, <2>4
<1>7. ASSUME Next, NEW t \in Tasks, Ends(t) PROVE Coherent'
  <2>1. /\ strategy' = strategy /\ sees' = sees /\ last' = last /\ probes' = probes
        /\ Remembers(strategy, memory')
        /\ \E call : calls' = [calls EXCEPT ![t] = call] /\ Attempt(call)
    BY <1>7, EndIs
  <2> QED
    BY <1>1, <1>2, <1>3, <1>5, <1>7, <2>1
<1>8. ASSUME Next, NEW p \in Providers, NEW region,
             Trip(p) \/ Recover(p) \/ Close(p) \/ Waver(p) \/ Mark(region)
      PROVE  Coherent'
  <2>1. /\ strategy' = strategy /\ memory' = memory /\ calls' = calls /\ last' = last
        /\ Seen(sees') /\ probes' \in [Providers -> Nat]
    BY <1>8, TurnIs
  <2> QED
    BY <1>1, <1>2, <1>5, <1>8, <2>1
<1>9. ASSUME Next, Tick PROVE Coherent'
  <2>1. /\ strategy' = strategy /\ sees' = sees /\ calls' = calls /\ last' = last
        /\ probes' = probes /\ memory' = Aged(memory)
    BY <1>9 DEF Tick
  <2>2. Remembers(strategy, Aged(memory))
    BY <1>1, AgedIs
  <2> QED
    BY <1>1, <1>2, <1>5, <1>9, <2>1, <2>2
<1>10. Providers # {}
  BY CatalogAssumption DEF CatalogAssumption, Providers
<1> QED
  BY <1>4, <1>6, <1>7, <1>8, <1>9, <1>10 DEF Next, Ends

\* What is remembered stays well formed for the strategy, the attempts of the tasks
\* are at models of the catalog, and what choose would do next is what it does now
\* for what it sees: after any run of requests, records of attempts, ticks, and
\* changes of the circuits.
THEOREM StaysCoherent == Spec => []Coherent
  BY InitCoherent, CoherentStep, PTL DEF Spec

\* Whatever the requests before have left behind, the engine can use the next
\* decision of each of the fifteen strategies, and only the two with a quota or a
\* budget refuse.
THEOREM AlwaysUsable == Spec => []TypeOK
<1>1. Coherent => TypeOK
  <2> SUFFICES ASSUME Coherent PROVE TypeOK
    OBVIOUS
  <2>1. /\ strategy \in Strategies /\ last \in [Clients -> Models \cup {NoModel}]
        /\ \A t \in Tasks : calls[t] # Idle => calls[t].now \in Models \ calls[t].rest
    BY DEF Coherent, Attempt
  <2>2. ASSUME NEW c \in Clients
        PROVE  LET decision == Would(c)
               IN  IF decision.chosen = NoModel
                   THEN strategy \in {"TenantQuotaBurst", "TenantBudgetCascade"}
                   ELSE /\ Len(decision.chain) <= 3
                        /\ ToSet(decision.chain) \subseteq Models \ {decision.chosen}
                        /\ IsInjective(decision.chain)
    <3>1. Sound(strategy, Question(c), outcome[c])
      BY <2>2, OutcomeIs
    <3> QED
      BY <3>1, NoModelIs DEF Sound, Usable, Refuses, Would
  <2> QED
    BY <2>1, <2>2 DEF TypeOK
<1> QED
  BY <1>1, StaysCoherent, PTL

\* What is remembered holds a request where nothing answers only while nothing else
\* will do: nothing that is up, or, for StickySessionMigrate, that is up and meets
\* its threshold, or, for ProviderCircuitProbe, that is up and not half open.
\* RegionFailoverHysteresis keeps this where the regions of its settings are enough
\* for every model: in others it does not look.
THEOREM NothingIsHeld ==
    ASSUME "RegionFailoverHysteresis" \in Strategies => Served
    PROVE  Spec => []NothingHoldsTheDead
<1>1. Coherent => NothingHoldsTheDead
  <2> SUFFICES ASSUME Coherent, NEW c \in Clients,
                      NEW draining, draining = Settings.draining \cup Question(c).draining,
                      NEW elsewhere,
                      elsewhere = {d \in Closed(Question(c), Eligible(Question(c))) :
                                      ~(Catalog[d].regions \subseteq draining)}
               PROVE  /\ strategy \in Circuits \ {"StickySessionMigrate", "ProviderCircuitProbe"}
                         => Would(c).chosen \in Active(Question(c))
                      /\ strategy = "StickySessionMigrate" /\ Steady(Question(c)) # {}
                         => Would(c).chosen \in Steady(Question(c))
                      /\ strategy = "ProviderCircuitProbe" /\ Settled(Question(c)) # {}
                         => Would(c).chosen \in Closed(Question(c), Eligible(Question(c)))
                      /\ strategy = "StickyRegionDrain" /\ elsewhere # {}
                         => Would(c).chosen \in elsewhere
    BY Zenon DEF NothingHoldsTheDead, Steady, Settled
  <2> DEFINE q == Question(c)
  <2>1. /\ Asked(c, q) /\ Sound(strategy, q, outcome[c])
        /\ outcome[c] = Decide(strategy, q, memory) /\ Remembers(strategy, memory)
    BY OutcomeIs DEF Coherent
  <2> HIDE DEF q
  <2>2. strategy \in Circuits \ {"StickySessionMigrate", "ProviderCircuitProbe"}
            => strategy \in KeepsUp /\ strategy \notin Refuses
    BY DEF Coherent, KeepsUp, Refuses, Circuits
  <2>3. strategy \in Circuits \ {"StickySessionMigrate", "ProviderCircuitProbe"}
            => Would(c).chosen \in Active(q)
    BY <2>1, <2>2 DEF Sound, Would
  <2>4. strategy = "StickyRegionDrain" /\ elsewhere # {} => Would(c).chosen \in elsewhere
    <3> SUFFICES ASSUME strategy = "StickyRegionDrain", elsewhere # {}
                 PROVE  Would(c).chosen \in elsewhere
      OBVIOUS
    <3>1. outcome[c] = StickyRegionDrain(q, memory)
      BY Zenon, <2>1 DEF Decide
    <3>2. elsewhere = {d \in Closed(q, Eligible(q)) : ~(Catalog[d].regions \subseteq draining)}
      BY Zenon DEF q
    <3>3. draining = Settings.draining \cup q.draining
      BY Zenon DEF q
    <3>4. StickyRegionDrain(q, memory).decision.chosen \in elsewhere
      <4>1. Asked(c, q) /\ Remembers(strategy, memory) /\ strategy = "StickyRegionDrain"
        BY <2>1
      <4> QED
        BY <3>2, <3>3, <4>1, DrainSound
    <3> QED
      BY Zenon, <3>1, <3>4 DEF Would
  <2>5. strategy = "StickySessionMigrate" /\ Steady(q) # {} => Would(c).chosen \in Steady(q)
    <3> SUFFICES ASSUME strategy = "StickySessionMigrate", Steady(q) # {}
                 PROVE  Would(c).chosen \in Steady(q)
      OBVIOUS
    <3>1. outcome[c] = StickySessionMigrate(q, memory)
      BY Zenon, <2>1 DEF Decide
    <3>2. Migrates(c, q, memory)
      BY <2>1, MigrateSound
    <3> QED
      BY Zenon, <3>1, <3>2 DEF Migrates, Would
  <2>6. strategy = "ProviderCircuitProbe" /\ Settled(q) # {}
            => Would(c).chosen \in Closed(q, Eligible(q))
    <3> SUFFICES ASSUME strategy = "ProviderCircuitProbe", Settled(q) # {}
                 PROVE  Would(c).chosen \in Closed(q, Eligible(q))
      OBVIOUS
    <3>1. outcome[c] = ProviderCircuitProbe(q, memory)
      BY Zenon, <2>1 DEF Decide
    <3>2. Up(q, ProviderCircuitProbe(q, memory).decision.chosen)
      BY <2>1, ProbeSound
    <3>3. Would(c).chosen \in Eligible(q)
      BY <2>1 DEF Sound, Would, Refuses
    <3> QED
      BY <3>1, <3>2, <3>3 DEF Closed, Would
  <2> QED
    BY Zenon, <2>3, <2>4, <2>5, <2>6 DEF q
<1> QED
  BY <1>1, StaysCoherent, PTL
-----------------------------------------------------------------------------
(* What is spent *)

\* What a request costs is a matter of the circumstances, not of the client.
Price(d) == Cost(Circumstances, d)
Dearest == MostOf({Price(d) : d \in Models})

LEMMA PriceIs ==
    /\ Dearest \in Nat
    /\ \A d \in Models : Price(d) \in Nat /\ Price(d) <= Dearest
    /\ \A c, q : Asked(c, q) => \A d \in Models : Cost(q, d) = Price(d)
<1>1. \A d \in Models : Price(d) \in Nat
  BY CircumstancesAssumption, CandidateIs DEF Price
<1>2. \A c, q : Asked(c, q) => \A d \in Models : Cost(q, d) = Price(d)
  BY DEF Asked, Cost, Price
<1> DEFINE S == {Price(d) : d \in Models}
           f == [d \in Models |-> Price(d)]
<1>3. IsFiniteSet(S) /\ S # {} /\ S \in SUBSET Nat
  <2>1. f \in Surjection(Models, S)
    BY DEF Surjection
  <2>2. S # {} /\ S \in SUBSET Nat /\ IsFiniteSet(Models)
    BY <1>1, CatalogAssumption DEF CatalogAssumption
  <2> HIDE DEF f, S
  <2> QED
    BY <2>1, <2>2, FS_Surjection
<1> HIDE DEF S
<1>4. MostOf(S) \in S /\ \A y \in S : MostOf(S) >= y
  BY <1>3, LeastAndMost
<1>5. \A d \in Models : Price(d) \in S
  BY DEF S
<1>6. Dearest = MostOf(S)
  BY DEF Dearest, S
<1> QED
  BY <1>1, <1>2, <1>3, <1>4, <1>5, <1>6

\* The tasks that have a request of client c in flight, of which nothing is
\* recorded yet.
Flying(c) == {t \in Tasks : ~Over(calls[t]) /\ Owner(strategy)[t] = c}

\* What a tenant may have spent while k of its requests are in flight.
Ceiling(k) == Settings.hard_budget + (Cardinality(Tasks) - k) * Dearest

\* One of the requests in flight was the last to be decided: all the others may
\* still cost what the dearest model costs.
Affordable(spent, flying, now) ==
    LET k == Cardinality(flying)
    IN  /\ k = 0 => spent <= Ceiling(1)
        /\ k # 0 => \E t \in flying : \A d \in {now[t].now} \cup now[t].rest :
                        spent + Price(d) <= Ceiling(k)

SpendInvariant ==
    strategy = "TenantBudgetCascade" =>
        \A c \in Clients : Affordable(Total(memory.window[c]), Flying(c), calls)

LEMMA CeilingIs ==
    /\ Cardinality(Tasks) \in Nat \ {0}
    /\ \A k \in 0..Cardinality(Tasks) :
        /\ Ceiling(k) \in Int /\ Settings.hard_budget <= Ceiling(k)
        /\ k # 0 => Ceiling(k - 1) = Ceiling(k) + Dearest /\ Ceiling(k) <= Ceiling(1)
<1> DEFINE n == Cardinality(Tasks)
           h == Settings.hard_budget
<1>1. n \in Nat \ {0}
  BY ClientsAssumption, FS_CardinalityType, FS_EmptySet
<1>2. h \in Nat /\ Dearest \in Nat
  BY SettingIs, PriceIs
<1>3. \A k : Ceiling(k) = h + (n - k) * Dearest
  BY DEF Ceiling
<1> HIDE DEF n, h
<1>4. ASSUME NEW k \in 0..n
      PROVE  /\ Ceiling(k) \in Int /\ h <= Ceiling(k)
             /\ k # 0 => Ceiling(k - 1) = Ceiling(k) + Dearest /\ Ceiling(k) <= Ceiling(1)
  <2>1. /\ n - k \in Nat /\ (n - k) * Dearest \in Nat
        /\ (n - (k - 1)) * Dearest = (n - k) * Dearest + Dearest
    BY <1>1, <1>2
  <2>2. Ceiling(k) \in Int /\ h <= Ceiling(k) /\ Ceiling(k - 1) = Ceiling(k) + Dearest
    BY <1>2, <1>3, <2>1
  <2>3. k # 0 => Ceiling(k) <= Ceiling(1)
    <3> HAVE k # 0
    <3>1. k - 1 \in Nat /\ (k - 1) * Dearest \in Nat
      BY <1>2
    <3>2. (n - 1) * Dearest = (n - k) * Dearest + (k - 1) * Dearest
      BY <1>1, <1>2
    <3> QED
      BY <1>1, <1>2, <1>3, <2>1, <3>1, <3>2
  <2> QED
    BY <2>2, <2>3
<1> QED
  BY <1>1, <1>4 DEF n, h

LEMMA FlyingIs ==
    ASSUME NEW c
    PROVE  /\ Flying(c) \in SUBSET Tasks /\ IsFiniteSet(Flying(c))
           /\ Cardinality(Flying(c)) \in 0..Cardinality(Tasks)
           /\ Cardinality(Flying(c)) = 0 <=> Flying(c) = {}
<1>1. Flying(c) \in SUBSET Tasks
  BY DEF Flying
<1>2. IsFiniteSet(Tasks)
  BY ClientsAssumption
<1> QED
  BY <1>1, <1>2, FS_Subset, FS_CardinalityType, FS_EmptySet

\* Less is affordable too.
LEMMA StillAffordable ==
    ASSUME NEW spent \in Int, NEW less \in Int, less <= spent,
           NEW flying \in SUBSET Tasks, NEW now,
           \A t \in flying : {now[t].now} \cup now[t].rest \subseteq Models,
           Affordable(spent, flying, now)
    PROVE  Affordable(less, flying, now)
<1> DEFINE k == Cardinality(flying)
<1>1. k \in 0..Cardinality(Tasks)
  BY ClientsAssumption, FS_Subset, FS_CardinalityType
<1>2. Ceiling(k) \in Int /\ Ceiling(1) \in Int
  BY <1>1, CeilingIs
<1>3. \A d \in Models : Price(d) \in Nat
  BY PriceIs
<1> HIDE DEF k
<1>4. k = 0 => less <= Ceiling(1)
  BY <1>2 DEF Affordable, k
<1>5. k # 0 => \E t \in flying : \A d \in {now[t].now} \cup now[t].rest :
                   less + Price(d) <= Ceiling(k)
  <2> HAVE k # 0
  <2>1. PICK t \in flying : \A d \in {now[t].now} \cup now[t].rest :
                   spent + Price(d) <= Ceiling(k)
    BY DEF Affordable, k
  <2>2. \A d \in {now[t].now} \cup now[t].rest : d \in Models
    OBVIOUS
  <2> QED
    BY <1>2, <1>3, <2>1, <2>2
<1> QED
  BY <1>4, <1>5 DEF Affordable, k

\* One that is decided for now was affordable on its own.
LEMMA AffordableAgain ==
    ASSUME NEW spent \in Int, NEW flying \in SUBSET Tasks, NEW t \in flying, NEW now,
           \A d \in {now[t].now} \cup now[t].rest :
                d \in Models /\ spent + Price(d) <= Settings.hard_budget
    PROVE  Affordable(spent, flying, now)
<1> DEFINE k == Cardinality(flying)
<1>1. k \in 0..Cardinality(Tasks) /\ k # 0
  BY ClientsAssumption, FS_Subset, FS_CardinalityType, FS_EmptySet
<1>2. Ceiling(k) \in Int /\ Settings.hard_budget <= Ceiling(k) /\ Settings.hard_budget \in Int
  BY <1>1, CeilingIs, SettingIs
<1>3. \A d \in {now[t].now} \cup now[t].rest : spent + Price(d) <= Ceiling(k)
  BY <1>2, PriceIs
<1> HIDE DEF k
<1> QED
  BY <1>1, <1>3 DEF Affordable, k

\* When one has ended, whatever it has cost, the others are affordable.
LEMMA AffordableAfter ==
    ASSUME NEW spent \in Int, NEW more \in Int, NEW flying \in SUBSET Tasks, NEW t \in flying,
           NEW now, \A u \in flying : {now[u].now} \cup now[u].rest \subseteq Models,
           NEW then, \A u \in flying \ {t} : then[u] = now[u],
           Affordable(spent, flying, now), more <= spent + Price(now[t].now)
    PROVE  Affordable(more, flying \ {t}, then)
<1> DEFINE k == Cardinality(flying)
           others == flying \ {t}
           l == Cardinality(others)
<1>1. /\ k \in 0..Cardinality(Tasks) /\ k # 0 /\ IsFiniteSet(others)
      /\ l = k - 1 /\ (l = 0 <=> others = {})
  <2>1. IsFiniteSet(flying) /\ k \in 0..Cardinality(Tasks) /\ k # 0
    BY ClientsAssumption, FS_Subset, FS_CardinalityType, FS_EmptySet
  <2>2. IsFiniteSet(others) /\ l = k - 1
    BY <2>1, FS_RemoveElement
  <2> QED
    BY <2>1, <2>2, FS_EmptySet
<1>2. /\ Ceiling(k) \in Int /\ Ceiling(k - 1) = Ceiling(k) + Dearest /\ Ceiling(k) <= Ceiling(1)
      /\ Ceiling(1) \in Int /\ Dearest \in Nat
  BY <1>1, CeilingIs, PriceIs
<1>3. \A d \in Models : Price(d) \in Nat /\ Price(d) <= Dearest
  BY PriceIs
<1>4. PICK w \in flying : \A d \in {now[w].now} \cup now[w].rest :
                spent + Price(d) <= Ceiling(k)
  BY <1>1 DEF Affordable
<1>5. now[t].now \in Models /\ now[w].now \in Models
  OBVIOUS
<1> HIDE DEF k, others, l
<1>6. spent + Price(now[w].now) <= Ceiling(k)
  BY <1>4
<1>7. CASE w = t
  <2>1. more <= Ceiling(k)
    BY <1>2, <1>3, <1>5, <1>6, <1>7
  <2>2. l # 0 => \E u \in others : \A d \in {then[u].now} \cup then[u].rest :
                     more + Price(d) <= Ceiling(l)
    <3> HAVE l # 0
    <3>1. PICK u \in others : TRUE
      BY <1>1
    <3>2. \A d \in {then[u].now} \cup then[u].rest : d \in Models
      BY <3>1 DEF others
    <3>3. \A d \in Models : more + Price(d) <= Ceiling(l)
      BY <1>1, <1>2, <1>3, <2>1
    <3> QED
      BY <3>2, <3>3
  <2>3. more <= Ceiling(1)
    BY <1>2, <2>1
  <2> QED
    BY <2>2, <2>3 DEF Affordable, others, l
<1>8. CASE w # t
  <2>1. w \in others /\ l # 0 /\ then[w] = now[w]
    BY <1>1, <1>8 DEF others
  <2>2. \A d \in {now[w].now} \cup now[w].rest :
            d \in Models /\ spent + Price(d) <= Ceiling(k)
    BY <1>4
  <2>3. \A d \in {now[w].now} \cup now[w].rest : more + Price(d) <= Ceiling(l)
    BY <1>1, <1>2, <1>3, <1>5, <2>2
  <2> QED
    BY <2>1, <2>3 DEF Affordable, others, l
<1> QED
  BY <1>7, <1>8

LEMMA StrategyStays == ASSUME [Next]_vars PROVE strategy' = strategy
<1>1. CASE UNCHANGED vars
  BY <1>1 DEF vars, state
<1>2. ASSUME NEW t, Ask(t) PROVE strategy' = strategy
  BY Zenon, <1>2 DEF Ask
<1>3. ASSUME NEW t, Ends(t) PROVE strategy' = strategy
  BY Zenon, <1>3 DEF Ends, Fail, FailToAudit, Answer, Cancel
<1>4. ASSUME NEW p, Trip(p) \/ Recover(p) \/ Close(p) \/ Waver(p) PROVE strategy' = strategy
  BY Zenon, <1>4 DEF Trip, Recover, Close, Waver
<1>5. ASSUME NEW region, Mark(region) PROVE strategy' = strategy
  BY Zenon, <1>5 DEF Mark
<1>6. CASE Tick
  BY <1>6 DEF Tick
<1> QED
  BY <1>1, <1>2, <1>3, <1>4, <1>5, <1>6 DEF Next, Ends

LEMMA SpendStep == Coherent /\ SpendInvariant /\ [Next]_vars => SpendInvariant'
<1> SUFFICES ASSUME Coherent, SpendInvariant, [Next]_vars, strategy' = "TenantBudgetCascade",
                    NEW c \in Clients
             PROVE  Affordable(Total(memory.window[c])', Flying(c)', calls')
  BY DEF SpendInvariant
<1> DEFINE spent == Total(memory.window[c])
           more == Total(memory'.window[c])
           flying == Flying(c)
           flying2 == {t \in Tasks : ~Over(calls'[t]) /\ Owner(strategy')[t] = c}
<1>1. Flying(c)' = flying2 /\ Total(memory.window[c])' = more
  BY DEF Flying, Over
<1>2. strategy = "TenantBudgetCascade" /\ strategy' = strategy
  BY StrategyStays
<1>3. /\ c \in Keys(strategy) /\ Remembers(strategy, memory) /\ Remembers(strategy, memory')
      /\ Coherent'
  BY <1>2, CoherentStep DEF Coherent, Keys, OfProviders
<1>4. spent \in Nat /\ more \in Nat
  BY <1>3, TotalIs DEF Remembers
<1>5. /\ flying \in SUBSET Tasks
      /\ flying = {t \in Tasks : ~Over(calls[t]) /\ Owner(strategy)[t] = c}
      /\ flying2 = {t \in Tasks : ~Over(calls'[t]) /\ Owner(strategy)[t] = c}
      /\ \A t \in Tasks : calls[t] # Idle => {calls[t].now} \cup calls[t].rest \subseteq Models
      /\ \A t \in flying : {calls[t].now} \cup calls[t].rest \subseteq Models
      /\ calls = [t \in Tasks |-> calls[t]] /\ Over(Idle)
  BY <1>2 DEF Coherent, Attempt, Flying, Over
<1>6. Affordable(spent, flying, calls)
  BY <1>2 DEF SpendInvariant
<1> HIDE DEF spent, more, flying, flying2
<1>7. SUFFICES Affordable(more, flying2, calls')
  BY <1>1
<1>8. CASE calls' = calls /\ more <= spent
  <2>1. flying2 = flying
    BY <1>5, <1>8
  <2> QED
    BY <1>4, <1>5, <1>6, <1>8, <2>1, StillAffordable
<1>9. CASE UNCHANGED vars
  <2>1. calls' = calls /\ memory' = memory
    BY <1>9 DEF vars, state
  <2>2. more = spent
    BY <2>1 DEF spent, more
  <2> QED
    BY <1>4, <1>8, <2>1, <2>2
<1>10. ASSUME NEW t \in Tasks, Ask(t) PROVE Affordable(more, flying2, calls')
  <2> DEFINE a == Owner(strategy)[t]
             d == outcome[a].decision
  <2>1. /\ a \in Clients /\ calls[t] = Idle /\ memory' = outcome[a].memory
        /\ \/ calls' = calls
           \/ /\ d.chosen \in Models
              /\ \E call : /\ calls' = [calls EXCEPT ![t] = call] /\ Attempt(call)
                           /\ call # Idle =>
                                /\ {call.now} \cup call.rest \subseteq {d.chosen} \cup ToSet(d.chain)
                                /\ call.booked = FALSE
    BY <1>10, AskIs
  <2>2. Asked(a, Question(a)) /\ outcome[a] = TenantBudgetCascade(Question(a), memory)
    <3>1. Asked(a, Question(a)) /\ outcome[a] = Decide(strategy, Question(a), memory)
      BY <2>1, OutcomeIs
    <3> QED
      BY <1>2, <3>1 DEF Decide
  <2>3. /\ memory' = memory
        /\ d.chosen # NoModel =>
             \A e \in ToSet(d.chain) \cup {d.chosen} :
                Total(memory.window[a]) + Cost(Question(a), e) <= Settings.hard_budget
    <3>1. LET o == outcome[a]
          IN  /\ o.memory = memory
              /\ o.decision.chosen # NoModel =>
                   \A e \in ToSet(o.decision.chain) \cup {o.decision.chosen} :
                      Total(memory.window[a]) + Cost(Question(a), e) <= Settings.hard_budget
      BY <1>2, <1>3, <2>1, <2>2, CascadeSound
    <3> QED
      BY <2>1, <3>1
  <2> HIDE DEF d, a
  <2>4. more = spent
    BY <2>3 DEF more, spent
  <2>5. CASE calls' = calls
    BY <1>4, <1>8, <2>4, <2>5
  <2>6. CASE calls' # calls
    <3>1. PICK call : /\ calls' = [calls EXCEPT ![t] = call] /\ Attempt(call)
                      /\ call # Idle =>
                            /\ {call.now} \cup call.rest \subseteq {d.chosen} \cup ToSet(d.chain)
                            /\ call.booked = FALSE
      BY <2>1, <2>6
    <3>2. d.chosen \in Models /\ call # Idle /\ ~Over(call)
      BY <1>5, <2>1, <2>6, <3>1 DEF Over
    <3>3. CASE a = c
      <4>1. t \in flying2 /\ calls'[t] = call
        BY <1>2, <1>5, <3>1, <3>2, <3>3 DEF a
      <4>2. flying2 \in SUBSET Tasks
        BY <1>5
      <4>3. \A e \in {call.now} \cup call.rest : e \in Models
        BY <3>1, <3>2 DEF Attempt
      <4>4. \A e \in {call.now} \cup call.rest : spent + Price(e) <= Settings.hard_budget
        BY <2>1, <2>2, <2>3, <3>1, <3>2, <3>3, <4>3, NoModelIs, PriceIs DEF spent
      <4> QED
        BY <1>4, <2>4, <4>1, <4>2, <4>3, <4>4, AffordableAgain
    <3>4. CASE a # c
      <4>1. flying2 = flying /\ \A u \in flying : calls'[u] = calls[u]
        BY <1>2, <1>5, <3>1, <3>4 DEF a
      <4> QED
        BY <1>6, <2>4, <4>1 DEF Affordable
    <3> QED
      BY <3>3, <3>4
  <2> QED
    BY <2>5, <2>6
<1>11. ASSUME NEW t \in Tasks, Ends(t)
       PROVE  Affordable(more, flying2, calls')
  <2> DEFINE a == Owner(strategy)[t]
             now == calls[t].now
  <2>1. /\ a \in Clients /\ calls[t] # Idle /\ now \in Models
        /\ \E call : /\ calls' = [calls EXCEPT ![t] = call] /\ Attempt(call)
                     /\ call # Idle => {call.now} \cup call.rest \subseteq calls[t].rest
                     /\ Over(calls[t]) => Over(call)
                     /\ \/ memory' = memory
                        \/ /\ ~Over(calls[t]) /\ Over(call)
                           /\ memory' = Recorded(memory, a, Cost(Question(a), now))
    BY <1>2, <1>11, EndIs
  <2>2. PICK call : /\ calls' = [calls EXCEPT ![t] = call] /\ Attempt(call)
                    /\ call # Idle => {call.now} \cup call.rest \subseteq calls[t].rest
                    /\ Over(calls[t]) => Over(call)
                    /\ \/ memory' = memory
                       \/ /\ ~Over(calls[t]) /\ Over(call)
                          /\ memory' = Recorded(memory, a, Cost(Question(a), now))
    BY <2>1
  <2>3. Cost(Question(a), now) = Price(now) /\ Price(now) \in Nat
    BY <2>1, OutcomeIs, PriceIs
  <2>4. more <= spent + (IF a = c /\ memory' # memory THEN Price(now) ELSE 0)
    <3>1. CASE memory' = memory
      BY <1>4, <3>1 DEF more, spent
    <3>2. CASE memory' # memory
      <4> DEFINE w == memory.window[a]
                 x == Entry(Price(now))
                 longer == Append(w, x)
      <4>1. memory' = [memory EXCEPT !.window[a] = longer]
        BY <2>2, <2>3, <3>2 DEF Recorded, Remembers
      <4>2. a # c => memory'.window[c] = memory.window[c]
        BY <1>3, <4>1 DEF Remembers
      <4>3. a = c => memory'.window[c] = longer
        BY <1>3, <4>1 DEF Remembers
      <4>4. w \in Seq(Entries) /\ x \in Entries /\ x.amount = Price(now)
        <5>1. a \in Keys(strategy)
          BY <1>2, <2>1 DEF Keys, OfProviders
        <5>2. w \in Seq(Entries)
          BY <1>3, <5>1 DEF Remembers
        <5> HIDE DEF now, a
        <5>3. x \in Entries /\ x.amount = Price(now)
          BY <2>3, SettingIs DEF Entry, Entries
        <5> QED
          BY <5>2, <5>3
      <4> HIDE DEF x, w
      <4>5. longer \in Seq(Entries) /\ Total(longer) = Total(w) + Price(now)
        BY <4>4, TotalOfAppend
      <4> HIDE DEF longer
      <4>6. CASE a = c
        <5>1. more = Total(longer) /\ spent = Total(w)
          BY <4>3, <4>6 DEF more, spent, w
        <5> QED
          BY <1>4, <2>3, <3>2, <4>5, <4>6, <5>1
      <4>7. CASE a # c
        <5>1. more = spent
          BY <4>2, <4>7 DEF more, spent
        <5> QED
          BY <1>4, <4>7, <5>1
      <4> QED
        BY <4>6, <4>7
    <3> QED
      BY <3>1, <3>2
  <2> HIDE DEF now, a
  <2>5. CASE a # c
    <3>1. flying2 = flying /\ (\A u \in flying : calls'[u] = calls[u])
      BY <1>2, <1>5, <2>2, <2>5 DEF a
    <3>2. Affordable(spent, flying, calls')
      BY <1>6, <3>1 DEF Affordable
    <3>3. \A u \in flying : {calls'[u].now} \cup calls'[u].rest \subseteq Models
      BY <1>5, <3>1
    <3>4. spent \in Int /\ more \in Int /\ more <= spent /\ flying \in SUBSET Tasks
      BY <1>4, <1>5, <2>4, <2>5
    <3>5. Affordable(more, flying, calls')
      BY Zenon, <3>2, <3>3, <3>4, StillAffordable
    <3> QED
      BY <3>1, <3>5
  <2>6. CASE a = c /\ ~Over(calls[t]) /\ Over(call)
    <3>1. t \in flying /\ flying2 = flying \ {t} /\ (\A u \in flying \ {t} : calls'[u] = calls[u])
      BY <1>2, <1>5, <2>1, <2>2, <2>6 DEF a
    <3>2. more <= spent + Price(calls[t].now)
      BY <1>4, <2>3, <2>4, <2>6 DEF now
    <3>3. spent \in Int /\ more \in Int /\ flying \in SUBSET Tasks
          /\ \A u \in flying : {calls[u].now} \cup calls[u].rest \subseteq Models
      BY <1>4, <1>5
    <3>4. Affordable(more, flying \ {t}, calls')
      BY Zenon, <1>6, <3>1, <3>2, <3>3, AffordableAfter
    <3> QED
      BY <3>1, <3>4
  <2>7. CASE a = c /\ Over(calls[t])
    <3>1. Over(call) /\ memory' = memory
      BY <2>2, <2>7
    <3>2. flying2 = flying /\ (\A u \in flying : calls'[u] = calls[u])
      BY <1>2, <1>5, <2>1, <2>2, <2>7, <3>1 DEF a
    <3>3. more = spent
      BY <3>1 DEF more, spent
    <3> QED
      BY <1>6, <3>2, <3>3 DEF Affordable
  <2>8. CASE a = c /\ ~Over(calls[t]) /\ ~Over(call)
    <3>1. t \in flying /\ flying2 = flying /\ (\A u \in flying \ {t} : calls'[u] = calls[u])
          /\ calls'[t] = call
      BY <1>2, <1>5, <2>1, <2>2, <2>8 DEF a
    <3>2. memory' = memory
      BY <2>2, <2>8
    <3>3. more = spent
      BY <3>2 DEF more, spent
    <3>4. \A u \in flying : {calls'[u].now} \cup calls'[u].rest
                                \subseteq {calls[u].now} \cup calls[u].rest
      BY <1>5, <2>2, <2>8, <3>1
    <3> QED
      BY <1>6, <3>1, <3>3, <3>4 DEF Affordable
  <2> QED
    BY <2>5, <2>6, <2>7, <2>8
<1>12. ASSUME NEW p \in Providers, NEW region,
              Trip(p) \/ Recover(p) \/ Close(p) \/ Waver(p) \/ Mark(region)
       PROVE  Affordable(more, flying2, calls')
  <2>1. memory' = memory /\ calls' = calls
    BY <1>12, TurnIs
  <2>2. more = spent
    BY <2>1 DEF more, spent
  <2> QED
    BY <1>4, <1>8, <2>1, <2>2
<1>13. ASSUME Tick PROVE Affordable(more, flying2, calls')
  <2>1. memory' = Aged(memory) /\ calls' = calls
    BY <1>13 DEF Tick
  <2>2. more <= spent
    BY <1>3, <2>1, AgedIs DEF more, spent
  <2> QED
    BY <1>8, <2>1, <2>2
<1>14. Providers # {}
  BY CatalogAssumption DEF CatalogAssumption, Providers
<1> QED
  BY <1>9, <1>10, <1>11, <1>12, <1>13, <1>14 DEF Next, Ends

\* TenantBudgetCascade: a tenant's spend in the window goes above the hard ceiling
\* by what its other requests in flight can cost, and by no more: each was decided
\* when it was affordable, and nothing is reserved for it until it is answered.
THEOREM SpendIsBounded == Spec => []SpendBounded
<1>1. Init => SpendInvariant
  <2> SUFFICES ASSUME Init, strategy = "TenantBudgetCascade", NEW c \in Clients
               PROVE  Affordable(Total(memory.window[c]), Flying(c), calls)
    BY DEF SpendInvariant
  <2>1. memory.window[c] = <<>> /\ Flying(c) = {}
    BY DEF Init, Fresh, OfProviders, Flying, Over
  <2>2. Cardinality(Flying(c)) = 0
    BY <2>1, FS_EmptySet
  <2>3. Total(memory.window[c]) = 0
    BY <2>1, TotalOfNothing
  <2>4. 0 <= Ceiling(1)
    <3>1. 1 \in 0..Cardinality(Tasks)
      BY CeilingIs
    <3> QED
      BY <3>1, CeilingIs, SettingIs
  <2> QED
    BY <2>2, <2>3, <2>4 DEF Affordable
<1>2. Coherent /\ SpendInvariant => SpendBounded
  <2> SUFFICES ASSUME Coherent, SpendInvariant, strategy = "TenantBudgetCascade",
                      NEW c \in Clients
               PROVE  Total(memory.window[c]) <= Settings.hard_budget
                        + (Cardinality(Tasks) - 1) * MostOf({Cost(Question(c), d) : d \in Models})
    BY DEF SpendBounded
  <2> DEFINE spent == Total(memory.window[c])
             flying == Flying(c)
             k == Cardinality(flying)
  <2>1. Affordable(spent, flying, calls)
    BY DEF SpendInvariant
  <2>2. spent \in Nat
    BY TotalIs DEF Coherent, Remembers, Keys, OfProviders
  <2>3. k \in 0..Cardinality(Tasks)
    BY FlyingIs
  <2>4. Ceiling(k) \in Int /\ Ceiling(1) \in Int /\ (k # 0 => Ceiling(k) <= Ceiling(1))
    <3>1. 1 \in 0..Cardinality(Tasks)
      BY CeilingIs
    <3> QED
      BY <2>3, <3>1, CeilingIs
  <2>5. \A t \in flying : calls[t].now \in Models
    BY DEF Coherent, Attempt, Flying, Over
  <2> HIDE DEF spent, flying, k
  <2>6. spent <= Ceiling(1)
    <3>1. CASE k = 0
      BY <2>1, <3>1 DEF Affordable, k
    <3>2. CASE k # 0
      <4>1. PICK t \in flying : spent + Price(calls[t].now) <= Ceiling(k)
        BY <2>1, <3>2 DEF Affordable, k
      <4>2. Price(calls[t].now) \in Nat
        BY <2>5, PriceIs
      <4> QED
        BY <2>2, <2>4, <3>2, <4>1, <4>2
    <3> QED
      BY <3>1, <3>2
  <2>7. {Cost(Question(c), d) : d \in Models} = {Price(d) : d \in Models}
    BY OutcomeIs, PriceIs
  <2> QED
    BY <2>6, <2>7 DEF Ceiling, Dearest, spent
<1> QED
  BY <1>1, <1>2, InitCoherent, CoherentStep, SpendStep, PTL DEF Spec
-----------------------------------------------------------------------------
(* The ration of probes *)

\* What is finest is a matter of the circumstances, not of the client.
Leader == FinestByName(Circumstances, Eligible(Circumstances))

LEMMA LeaderIs ==
    ASSUME NEW c, NEW q, Asked(c, q)
    PROVE  Eligible(q) = Eligible(Circumstances) /\ FinestByName(q, Eligible(q)) = Leader
<1>1. q.domain = Circumstances.domain
  BY DEF Asked
<1>2. Eligible(q) = Eligible(Circumstances)
  BY <1>1 DEF Eligible, Serving
<1> DEFINE f == [d \in Models |-> <<-Quality(d), Cost(q, d), -Name(d)>>]
           g == [d \in Models |-> <<-Quality(d), Cost(Circumstances, d), -Name(d)>>]
<1>3. \A d \in Models : Cost(q, d) = Cost(Circumstances, d)
  BY PriceIs DEF Price
<1>4. f = g
  BY <1>3
<1>5. FinestByName(q, Eligible(q)) = Best(Eligible(q), f)
  BY Zenon DEF FinestByName
<1>6. Leader = Best(Eligible(Circumstances), g)
  BY Zenon DEF Leader, FinestByName
<1> HIDE DEF f, g
<1> QED
  BY <1>2, <1>4, <1>5, <1>6

\* The leader has other models to leave the requests to, and all of them have
\* other providers.
LeaderApart ==
    /\ Eligible(Circumstances) # {Leader}
    /\ \A d \in Eligible(Circumstances) \ {Leader} : Provider(d) # Provider(Leader)

\* The strategy counts what the engine decides; it starts again only when it has
\* seen the circuit closed, and then nothing is counted here either.
ProbesInvariant ==
    LET p == Provider(Leader)
    IN  strategy = "ProviderCircuitProbe" =>
            /\ probes[p] <= memory.count[p]
            /\ memory.count[p] <= Settings.probe_budget
            /\ p \notin sees.open \cup sees.half_open => probes[p] = 0

LEMMA ProbesStep ==
    ASSUME LeaderApart
    PROVE  Coherent /\ ProbesInvariant /\ [Next]_vars => ProbesInvariant'
<1> SUFFICES ASSUME Coherent, ProbesInvariant, [Next]_vars, strategy' = "ProviderCircuitProbe",
                    NEW p, p = Provider(Leader)
             PROVE  /\ probes'[p] <= memory'.count[p]
                    /\ memory'.count[p] <= Settings.probe_budget
                    /\ p \notin sees'.open \cup sees'.half_open => probes'[p] = 0
  BY DEF ProbesInvariant
<1>1. strategy = "ProviderCircuitProbe" /\ strategy' = strategy
  BY StrategyStays
<1>2. /\ p \in Providers /\ Leader \in Models
      /\ Providers = Counted(strategy) /\ Remembers(strategy, memory) /\ Seen(sees)
      /\ memory.count[p] \in Nat /\ probes \in [Providers -> Nat]
  <2>1. Leader \in Models
    BY CircumstancesAssumption, EligibleIs, FinestIn DEF Leader
  <2>2. p \in Providers /\ Counted(strategy) = Providers
    BY <1>1, <2>1 DEF Providers, Counted, Keys, OfProviders
  <2> QED
    BY <2>1, <2>2 DEF Coherent, Remembers
<1>3. /\ probes[p] <= memory.count[p] /\ memory.count[p] <= Settings.probe_budget
      /\ p \notin sees.open \cup sees.half_open => probes[p] = 0
  BY <1>1 DEF ProbesInvariant
<1>4. CASE UNCHANGED vars
  BY <1>3, <1>4 DEF vars, state
<1>5. ASSUME NEW t \in Tasks, Ask(t)
      PROVE  /\ probes'[p] <= memory'.count[p]
             /\ memory'.count[p] <= Settings.probe_budget
             /\ p \notin sees'.open \cup sees'.half_open => probes'[p] = 0
  <2> DEFINE c == Owner(strategy)[t]
             q == Question(c)
             o == outcome[c]
             n == memory.count[p]
             chosen == o.decision.chosen
             counts == /\ chosen # NoModel /\ Provider(chosen) = p
                       /\ p \in sees.half_open /\ probes[p] <= Settings.probe_budget
  <2>1. c \in Clients /\ memory' = o.memory /\ sees' = sees
    BY <1>5, AskIs
  <2>2. probes'[p] = IF counts THEN probes[p] + 1 ELSE probes[p]
    BY <1>2, <1>5 DEF Ask
  <2>3. /\ Asked(c, q) /\ o = ProviderCircuitProbe(q, memory)
        /\ q.open = sees.open /\ q.half_open = sees.half_open
    <3>1. /\ Asked(c, q) /\ o = Decide(strategy, q, memory)
          /\ q.open = sees.open /\ q.half_open = sees.half_open
      BY <2>1, OutcomeIs
    <3> HIDE DEF q, o
    <3> QED
      BY <1>1, <3>1 DEF Decide
  <2> HIDE DEF c, q, o
  <2>4. Leader = FinestByName(q, Eligible(q)) /\ Eligible(q) = Eligible(Circumstances)
    BY <2>3, LeaderIs
  <2>5. \E k \in Nat :
           /\ o.memory = [memory EXCEPT !.count[p] = k]
           /\ \/ k = n
              \/ k = 0 /\ p \notin q.open \cup q.half_open
              \/ k = n + 1 /\ p \in q.half_open /\ n < Settings.probe_budget
           /\ (/\ Eligible(q) # {Leader}
               /\ \A d \in Eligible(q) \ {Leader} : Provider(d) # p
               /\ p \in q.half_open /\ Provider(chosen) = p)
               => k = n + 1
    <3>1. ProbesCounted(q, memory, Leader, p)
      <4>1. /\ c \in Clients /\ Asked(c, q) /\ Remembers(strategy, memory)
            /\ strategy = "ProviderCircuitProbe"
            /\ Leader = FinestByName(q, Eligible(q)) /\ p = Provider(Leader)
        BY Zenon, <1>1, <1>2, <2>1, <2>3, <2>4
      <4> QED
        BY Zenon, <4>1, ProbeSound
    <3> QED
      BY <2>3, <3>1 DEF ProbesCounted
  <2>6. Eligible(q) # {Leader} /\ \A d \in Eligible(q) \ {Leader} : Provider(d) # p
    BY <2>4 DEF LeaderApart
  <2>7. PICK k \in Nat :
           /\ o.memory = [memory EXCEPT !.count[p] = k]
           /\ \/ k = n
              \/ k = 0 /\ p \notin sees.open \cup sees.half_open
              \/ k = n + 1 /\ p \in sees.half_open /\ n < Settings.probe_budget
           /\ p \in sees.half_open /\ Provider(chosen) = p => k = n + 1
    BY <2>3, <2>5, <2>6
  <2>8. memory'.count[p] = k
    BY <1>2, <2>1, <2>7 DEF Remembers
  <2> HIDE DEF n, chosen, counts
  <2>9. counts => k = n + 1 /\ p \in sees.half_open
    BY <2>7 DEF counts, chosen
  <2>10. n \in Nat /\ probes[p] \in Nat /\ probes[p] <= n /\ n <= Settings.probe_budget
         /\ Settings.probe_budget \in Nat
    BY <1>2, <1>3, SettingIs DEF n
  <2> QED
    BY <1>3, <2>1, <2>2, <2>7, <2>8, <2>9, <2>10
<1>6. ASSUME NEW t \in Tasks, Ends(t)
      PROVE  memory' = memory /\ sees' = sees /\ probes' = probes
  <2>1. strategy \notin Learns
    BY <1>1 DEF Learns
  <2> QED
    BY <1>6, <2>1, EndIs
<1>7. ASSUME Tick
      PROVE  memory'.count = memory.count /\ sees' = sees /\ probes' = probes
  BY <1>2, <1>7, AgedIs DEF Tick
<1>8. ASSUME NEW r \in Providers, NEW region,
             Trip(r) \/ Recover(r) \/ Close(r) \/ Waver(r) \/ Mark(region)
      PROVE  /\ memory' = memory
             /\ \/ probes'[p] = 0
                \/ /\ probes'[p] = probes[p]
                   /\ p \in sees.open \cup sees.half_open => p \in sees'.open \cup sees'.half_open
  <2>1. memory' = memory
    BY <1>8, TurnIs
  <2>2. DOMAIN sees = {"domain", "prompt", "max_tokens", "warmup_region", "open",
                       "half_open", "draining", "success", "latency"}
    BY <1>2, CircumstancesAssumption DEF Seen
  <2>3. CASE Trip(r)
    <3>1. /\ sees' = [sees EXCEPT !.open = sees.open \cup {r}, !.half_open = sees.half_open \ {r}]
          /\ probes' = probes
      BY Zenon, <2>3 DEF Trip
    <3> QED
      BY <2>1, <2>2, <3>1
  <2>4. CASE Recover(r)
    <3>1. /\ sees' = [sees EXCEPT !.open = sees.open \ {r}, !.half_open = sees.half_open \cup {r}]
          /\ probes' = probes
      BY Zenon, <1>1, <2>4 DEF Recover
    <3> QED
      BY <2>1, <2>2, <3>1
  <2>5. CASE Close(r)
    <3>1. /\ sees' = [sees EXCEPT !.half_open = sees.half_open \ {r}]
          /\ probes' = [probes EXCEPT ![r] = 0]
      BY Zenon, <2>5 DEF Close
    <3>2. probes'[r] = 0 /\ (r # p => probes'[p] = probes[p])
      BY <1>2, <3>1
    <3>3. sees'.open = sees.open /\ sees'.half_open = sees.half_open \ {r}
      BY <2>2, <3>1
    <3> QED
      BY <2>1, <3>2, <3>3
  <2>6. CASE Waver(r) \/ Mark(region)
    <3>1. strategy = "StickySessionMigrate" \/ strategy = "StickyRegionDrain"
      BY Zenon, <2>6 DEF Waver, Mark
    <3> QED
      BY <1>1, <3>1
  <2> QED
    BY <1>8, <2>3, <2>4, <2>5, <2>6
<1>9. 0 <= memory.count[p]
  BY <1>2
<1>10. Providers # {}
  BY <1>2
<1>11. ASSUME NEW r \in Providers, NEW region,
              Trip(r) \/ Recover(r) \/ Close(r) \/ Waver(r) \/ Mark(region)
       PROVE  /\ probes'[p] <= memory'.count[p]
              /\ memory'.count[p] <= Settings.probe_budget
              /\ p \notin sees'.open \cup sees'.half_open => probes'[p] = 0
  BY <1>3, <1>8, <1>9, <1>11
<1> QED
  BY <1>3, <1>4, <1>5, <1>6, <1>7, <1>11, <1>10 DEF Next, Ends

\* However often the circuit of the finest provider opens again, no more than the
\* budget of requests is decided for it half open until it has closed: where other
\* models serve the request, and other providers have them.  Where there is none,
\* the strategy asks the leader's provider without counting.
THEOREM ProbesAreRationed ==
    ASSUME "ProviderCircuitProbe" \in Strategies => LeaderApart
    PROVE  Spec => []ProbesRationed
<1>1. Init => ProbesInvariant
  <2> SUFFICES ASSUME Init, strategy = "ProviderCircuitProbe", NEW p, p = Provider(Leader)
               PROVE  /\ probes[p] <= memory.count[p]
                      /\ memory.count[p] <= Settings.probe_budget
                      /\ p \notin sees.open \cup sees.half_open => probes[p] = 0
    BY DEF ProbesInvariant
  <2>1. p \in Providers
    BY CircumstancesAssumption, EligibleIs, FinestIn DEF Leader, Providers
  <2>2. probes[p] = 0 /\ memory.count[p] = 0
    BY <2>1 DEF Init, Fresh, OfProviders
  <2> QED
    BY <2>2, SettingIs
<1>2. Coherent /\ ProbesInvariant => ProbesRationed
  <2> SUFFICES ASSUME Coherent, ProbesInvariant, strategy = "ProviderCircuitProbe",
                      NEW c \in Clients
               PROVE  probes[Provider(FinestByName(Question(c), Eligible(Question(c))))]
                          <= Settings.probe_budget
    BY DEF ProbesRationed
  <2> DEFINE p == Provider(Leader)
  <2>1. Provider(FinestByName(Question(c), Eligible(Question(c)))) = p
    BY OutcomeIs, LeaderIs
  <2>2. p \in Providers
    BY CircumstancesAssumption, EligibleIs, FinestIn DEF Leader, Providers
  <2>3. /\ probes[p] <= memory.count[p] /\ memory.count[p] <= Settings.probe_budget
        /\ Counted(strategy) = Providers
    BY DEF ProbesInvariant, Counted, Keys, OfProviders
  <2>4. probes[p] \in Nat /\ memory.count[p] \in Nat
    BY <2>2, <2>3 DEF Coherent, Remembers
  <2> QED
    BY <2>1, <2>3, <2>4, SettingIs
<1>3. Coherent /\ ProbesInvariant /\ [Next]_vars => ProbesInvariant'
  <2>1. CASE LeaderApart
    BY <2>1, ProbesStep
  <2>2. CASE ~LeaderApart
    <3> SUFFICES ASSUME Coherent, [Next]_vars, strategy' = "ProviderCircuitProbe" PROVE FALSE
      BY DEF ProbesInvariant
    <3>1. strategy' = strategy
      BY StrategyStays
    <3> QED
      BY <2>2, <3>1 DEF Coherent
  <2> QED
    BY <2>1, <2>2
<1> QED
  BY <1>1, <1>2, <1>3, InitCoherent, CoherentStep, PTL DEF Spec
-----------------------------------------------------------------------------
(* Where sessions stay *)

Sessions == {"StickySessionMigrate", "StickyModelPinExpire"}

\* What lets a session leave a model.
Leaves(c, home) ==
    \/ ~Up(sees, home)
    \/ strategy = "StickySessionMigrate" /\ Success(sees, home) < Settings.migrate_below
    \/ strategy = "StickyModelPinExpire" /\ memory.left[c] = 0

\* The pin of a session is the last decision for it, and the domain stays: the
\* strategy looks whether the pin is still eligible, and it is.
SessionInvariant ==
    strategy \in Sessions =>
        \A c \in Clients : last[c] # NoModel =>
            memory.pin[c] = last[c] /\ last[c] \in Eligible(Circumstances)

LEMMA SessionAsk ==
    ASSUME Coherent, strategy \in Sessions, NEW t \in Tasks, Ask(t),
           NEW c, c = Owner(strategy)[t]
    PROVE  \E chosen \in Eligible(Circumstances) :
             /\ c \in Clients /\ last' = [last EXCEPT ![c] = chosen]
             /\ memory'.pin = [memory.pin EXCEPT ![c] = chosen]
             /\ memory.pin[c] \in Eligible(Circumstances) /\ chosen # memory.pin[c]
                => Leaves(c, memory.pin[c])
<1> DEFINE q == Question(c)
           o == outcome[c]
           chosen == o.decision.chosen
           pin == memory.pin[c]
<1>1. c \in Clients /\ memory' = o.memory /\ last' = [last EXCEPT ![c] = chosen]
  BY AskIs DEF Sessions, Watched
<1>2. /\ Asked(c, q) /\ q.open = sees.open /\ q.success = sees.success
      /\ o = Decide(strategy, q, memory) /\ Sound(strategy, q, o)
      /\ Remembers(strategy, memory)
  BY <1>1, OutcomeIs DEF Coherent
<1>3. Eligible(q) = Eligible(Circumstances)
  BY <1>2, LeaderIs
<1>4. \A d : (Up(q, d) <=> Up(sees, d)) /\ Success(q, d) = Success(sees, d)
  BY <1>2 DEF Up, Success
<1> HIDE DEF q, o
<1>5. chosen \in Eligible(Circumstances)
  BY <1>2, <1>3, EligibleIs, NoModelIs DEF Sound, Sessions, Refuses
<1>6. CASE strategy = "StickySessionMigrate"
  <2> DEFINE v == StickySessionMigrate(q, memory)
  <2>1. o = v
    BY Zenon, <1>2, <1>6 DEF Decide
  <2>2. Migrates(c, q, memory)
    <3>1. /\ c \in Clients /\ Asked(c, q) /\ Remembers(strategy, memory)
          /\ strategy = "StickySessionMigrate"
      BY Zenon, <1>1, <1>2, <1>6
    <3> QED
      BY Zenon, <3>1, MigrateSound
  <2> HIDE DEF v
  <2>5. /\ v.memory = [memory EXCEPT !.pin[c] = v.decision.chosen]
        /\ pin \in Eligible(q) /\ v.decision.chosen # pin
             => ~Up(q, pin) \/ Success(q, pin) < Settings.migrate_below
    BY Zenon, <2>2 DEF Migrates, v
  <2>3. memory'.pin = [memory.pin EXCEPT ![c] = chosen]
    BY <1>1, <1>2, <2>1, <2>5 DEF Remembers
  <2>4. pin \in Eligible(Circumstances) /\ chosen # pin => Leaves(c, pin)
    BY <1>3, <1>4, <1>6, <2>1, <2>5 DEF Leaves
  <2> QED
    BY <1>1, <1>5, <2>3, <2>4
<1>7. CASE strategy = "StickyModelPinExpire"
  <2> DEFINE v == StickyModelPinExpire(q, memory)
  <2>1. o = v
    BY Zenon, <1>2, <1>7 DEF Decide
  <2>2. /\ v.memory.pin = [memory.pin EXCEPT ![c] = v.decision.chosen]
        /\ pin \in Eligible(q) /\ v.decision.chosen # pin => ~Up(q, pin) \/ memory.left[c] = 0
    BY <1>1, <1>2, <1>7, PinExpireSound
  <2> HIDE DEF v
  <2>3. memory'.pin = [memory.pin EXCEPT ![c] = chosen]
    BY <1>1, <2>1, <2>2
  <2>4. pin \in Eligible(Circumstances) /\ chosen # pin => Leaves(c, pin)
    BY <1>3, <1>4, <1>7, <2>1, <2>2 DEF Leaves
  <2> QED
    BY <1>1, <1>5, <2>3, <2>4
<1> QED
  BY <1>6, <1>7 DEF Sessions

LEMMA SessionStep ==
    Coherent /\ SessionInvariant /\ [Next]_vars =>
        /\ SessionInvariant'
        /\ \A c \in Clients :
             strategy \in Sessions /\ last[c] # NoModel /\ last'[c] # last[c]
                => Leaves(c, last[c])
<1> SUFFICES ASSUME Coherent, SessionInvariant, [Next]_vars, strategy \in Sessions,
                    NEW c \in Clients
             PROVE  /\ last'[c] # NoModel =>
                         memory'.pin[c] = last'[c] /\ last'[c] \in Eligible(Circumstances)
                    /\ last[c] # NoModel /\ last'[c] # last[c] => Leaves(c, last[c])
  BY StrategyStays DEF SessionInvariant
<1>1. /\ strategy \notin Learns /\ Remembers(strategy, memory)
      /\ last \in [Clients -> Models \cup {NoModel}]
      /\ last[c] # NoModel => memory.pin[c] = last[c] /\ last[c] \in Eligible(Circumstances)
  BY DEF Coherent, SessionInvariant, Sessions, Learns
<1>2. CASE last' = last /\ memory'.pin = memory.pin
  BY <1>1, <1>2
<1>3. CASE UNCHANGED vars
  BY <1>2, <1>3 DEF vars, state
<1>4. ASSUME NEW t \in Tasks, Ask(t)
      PROVE  /\ last'[c] # NoModel =>
                  memory'.pin[c] = last'[c] /\ last'[c] \in Eligible(Circumstances)
             /\ last[c] # NoModel /\ last'[c] # last[c] => Leaves(c, last[c])
  <2> DEFINE a == Owner(strategy)[t]
  <2>1. \E chosen \in Eligible(Circumstances) :
             /\ a \in Clients /\ last' = [last EXCEPT ![a] = chosen]
             /\ memory'.pin = [memory.pin EXCEPT ![a] = chosen]
             /\ memory.pin[a] \in Eligible(Circumstances) /\ chosen # memory.pin[a]
                => Leaves(a, memory.pin[a])
    BY <1>4, SessionAsk
  <2> HIDE DEF a
  <2>2. PICK chosen \in Eligible(Circumstances) :
             /\ a \in Clients /\ last' = [last EXCEPT ![a] = chosen]
             /\ memory'.pin = [memory.pin EXCEPT ![a] = chosen]
             /\ memory.pin[a] \in Eligible(Circumstances) /\ chosen # memory.pin[a]
                => Leaves(a, memory.pin[a])
    BY <2>1
  <2>3. DOMAIN last = Clients /\ DOMAIN memory.pin = Clients
    BY <1>1 DEF Remembers
  <2>4. CASE a = c
    BY <1>1, <2>2, <2>3, <2>4
  <2>5. CASE a # c
    <3>1. last'[c] = last[c] /\ memory'.pin[c] = memory.pin[c]
      BY <2>2, <2>3, <2>5
    <3> QED
      BY <1>1, <3>1
  <2> QED
    BY <2>4, <2>5
<1>5. ASSUME NEW t \in Tasks, Ends(t)
      PROVE  last' = last /\ memory' = memory
  BY <1>1, <1>5, EndIs
<1>6. ASSUME NEW p \in Providers, NEW region,
             Trip(p) \/ Recover(p) \/ Close(p) \/ Waver(p) \/ Mark(region)
      PROVE  last' = last /\ memory' = memory
  BY <1>6, TurnIs
<1>7. ASSUME Tick PROVE last' = last /\ memory'.pin = memory.pin
  BY <1>1, <1>7, AgedIs DEF Tick
<1>8. Providers # {}
  BY CatalogAssumption DEF CatalogAssumption, Providers
<1> QED
  BY <1>2, <1>3, <1>4, <1>5, <1>6, <1>7, <1>8 DEF Next, Ends

\* A session leaves the model that was decided for it only when its provider is
\* down, fails too often or, where pins expire, when time has passed: better models
\* that come back, and what other sessions ask, do not move it.
THEOREM SessionsStay == Spec => SessionStays
<1>1. Init => SessionInvariant
  BY DEF Init, SessionInvariant
<1> DEFINE Stay ==
        \A c \in Clients :
            LET home == last[c]
            IN  /\ strategy \in {"StickySessionMigrate", "StickyModelPinExpire"}
                /\ home # NoModel /\ Asks(c) /\ last'[c] # home
                => \/ ~Up(sees, home)
                   \/ /\ strategy = "StickySessionMigrate"
                      /\ Success(sees, home) < Settings.migrate_below
                   \/ /\ strategy = "StickyModelPinExpire"
                      /\ memory.left[c] = 0
<1>2. Coherent /\ SessionInvariant /\ [Next]_vars => [Stay]_vars
  <2> SUFFICES ASSUME Coherent, SessionInvariant, [Next]_vars PROVE Stay
    OBVIOUS
  <2>1. \A c \in Clients :
             strategy \in Sessions /\ last[c] # NoModel /\ last'[c] # last[c]
                => Leaves(c, last[c])
    BY Zenon, SessionStep
  <2> QED
    BY Zenon, <2>1 DEF Sessions, Leaves
<1>3. Coherent /\ SessionInvariant /\ [Next]_vars => SessionInvariant'
  BY SessionStep
<1> QED
  BY <1>1, <1>2, <1>3, InitCoherent, CoherentStep, PTL DEF Spec, SessionStays
-----------------------------------------------------------------------------
(* How often something is in a list *)

LEMMA TimesNat == ASSUME NEW S, NEW s \in Seq(S), NEW x PROVE Times(s, x) \in Nat
<1>1. Times(s, x) \in 0..Len(s) /\ Len(s) \in Nat
  BY TimesIs, LenProperties
<1> DEFINE n == Len(s)
<1> HIDE DEF n
<1>2. Times(s, x) \in 0..n /\ n \in Nat
  BY <1>1 DEF n
<1> QED
  BY <1>2

LEMMA TimesOfAppend ==
    ASSUME NEW S, NEW s \in Seq(S), NEW y \in S, NEW x
    PROVE  Times(Append(s, y), x) = Times(s, x) + (IF y = x THEN 1 ELSE 0)
<1> DEFINE n == Len(s)
           longer == Append(s, y)
           places == {i \in 1..n : s[i] = x}
           more == {i \in 1..(n + 1) : longer[i] = x}
<1>1. /\ n \in Nat /\ DOMAIN s = 1..n /\ DOMAIN longer = 1..(n + 1)
      /\ \A i \in 1..n : longer[i] = s[i]
      /\ longer[n + 1] = y
  BY AppendProperties, LenProperties
<1>2. Times(s, x) = Cardinality(places) /\ Times(longer, x) = Cardinality(more)
  BY <1>1 DEF Times
<1>3. IsFiniteSet(places)
  <2>1. n \in Int
    BY <1>1
  <2> HIDE DEF n
  <2>2. IsFiniteSet(1..n)
    BY <2>1, FS_Interval
  <2>3. places \in SUBSET (1..n)
    OBVIOUS
  <2> QED
    BY <2>2, <2>3, FS_Subset
<1>4. more = IF y = x THEN places \cup {n + 1} ELSE places
  BY <1>1
<1>5. n + 1 \notin places
  BY <1>1
<1> HIDE DEF places, more, longer, n
<1>6. Cardinality(places \cup {n + 1}) = Cardinality(places) + 1
  BY <1>3, <1>5, FS_AddElement
<1>7. Cardinality(places) \in Nat
  BY <1>3, FS_CardinalityType
<1>8. CASE y = x
  BY <1>2, <1>4, <1>6, <1>8 DEF longer
<1>9. CASE y # x
  BY <1>2, <1>4, <1>7, <1>9 DEF longer
<1> QED
  BY <1>8, <1>9

LEMMA TimesOfTail ==
    ASSUME NEW S, NEW s \in Seq(S), s # <<>>, NEW x
    PROVE  Times(s, x) = Times(Tail(s), x) + (IF s[1] = x THEN 1 ELSE 0)
<1> DEFINE n == Len(s)
           rest == Tail(s)
           places == {i \in 1..n : s[i] = x}
           fewer == {i \in 1..(n - 1) : rest[i] = x}
           later == {i \in 2..n : s[i] = x}
           f == [i \in fewer |-> i + 1]
<1>1. /\ n \in Nat \ {0} /\ DOMAIN s = 1..n /\ DOMAIN rest = 1..(n - 1)
      /\ \A i \in 1..(n - 1) : rest[i] = s[i + 1]
  <2>1. /\ rest \in Seq(S) /\ Len(rest) = n - 1
        /\ \A i \in 1..Len(rest) : rest[i] = s[i + 1]
    BY HeadTailProperties
  <2>2. n \in Nat \ {0} /\ DOMAIN s = 1..n
    BY EmptySeq, LenProperties
  <2>3. DOMAIN rest = 1..Len(rest)
    BY <2>1, LenProperties
  <2> HIDE DEF rest, n
  <2> QED
    BY <2>1, <2>2, <2>3
<1>2. Times(s, x) = Cardinality(places) /\ Times(rest, x) = Cardinality(fewer)
  BY <1>1 DEF Times
<1>3. IsFiniteSet(fewer)
  <2> DEFINE k == n - 1
  <2>1. k \in Nat
    BY <1>1
  <2> HIDE DEF n, rest, k
  <2>2. IsFiniteSet(1..k)
    BY <2>1, FS_Interval
  <2>3. fewer \in SUBSET (1..k)
    BY DEF k
  <2> QED
    BY <2>2, <2>3, FS_Subset
<1>4. f \in Bijection(fewer, later)
  <2> HIDE DEF rest, n
  <2>1. \A i \in fewer : i + 1 \in later
    BY <1>1
  <2>2. \A j \in later : j - 1 \in fewer /\ f[j - 1] = j
    BY <1>1
  <2>3. \A i, j \in fewer : f[i] = f[j] => i = j
    BY <1>1
  <2> QED
    BY <2>1, <2>2, <2>3 DEF Bijection, Injection, Surjection, IsInjective
<1>5. IsFiniteSet(later) /\ Cardinality(later) = Cardinality(fewer)
  <2> HIDE DEF f, fewer, later
  <2> QED
    BY <1>3, <1>4, FS_Bijection DEF ExistsBijection
<1>6. places = IF s[1] = x THEN later \cup {1} ELSE later
  <2> HIDE DEF rest, n
  <2> QED
    BY <1>1
<1>7. 1 \notin later
  OBVIOUS
<1> HIDE DEF places, later, fewer, rest
<1>8. Cardinality(later \cup {1}) = Cardinality(later) + 1
  BY <1>5, <1>7, FS_AddElement
<1>9. Cardinality(later) \in Nat
  BY <1>5, FS_CardinalityType
<1>10. CASE s[1] = x
  BY <1>2, <1>5, <1>6, <1>8, <1>10 DEF rest
<1>11. CASE s[1] # x
  BY <1>2, <1>5, <1>6, <1>9, <1>11 DEF rest
<1> QED
  BY <1>10, <1>11

\* All that is in a list adds up to its length.
LEMMA TimesAddUp ==
    ASSUME NEW S, IsFiniteSet(S), NEW s \in Seq(S)
    PROVE  SumOf([x \in S |-> Times(s, x)], S) = Len(s)
<1> DEFINE f == [x \in S |-> Times(s, x)]
           n == Len(s)
           In(T) == {i \in 1..n : s[i] \in T}
           Bad == {T \in SUBSET S : SumOf(f, T) # Cardinality(In(T))}
<1>1. n \in Nat /\ DOMAIN s = 1..n /\ \A i \in 1..n : s[i] \in S
  BY LenProperties
<1>2. IsFiniteSet(1..n) /\ Cardinality(1..n) = n
  <2> HIDE DEF n
  <2>1. IsFiniteSet(1..n) /\ Cardinality(1..n) = (IF 1 > n THEN 0 ELSE n - 1 + 1)
    BY <1>1, FS_Interval
  <2> QED
    BY <1>1, <2>1
<1>3. \A x \in S : f[x] \in Nat /\ f[x] = Cardinality(In({x}))
  <2>1. \A x \in S : Times(s, x) \in 0..n
    BY TimesIs
  <2>2. \A x : Times(s, x) = Cardinality(In({x}))
    <3> SUFFICES ASSUME NEW x PROVE Times(s, x) = Cardinality(In({x}))
      OBVIOUS
    <3>1. In({x}) = {i \in DOMAIN s : s[i] = x}
      BY <1>1
    <3> QED
      BY Zenon, <3>1 DEF Times
  <2> HIDE DEF In, n
  <2> QED
    BY <1>1, <2>1, <2>2
<1>4. Bad = {}
  <2> SUFFICES ASSUME Bad # {} PROVE FALSE
    OBVIOUS
  <2>1. Bad \in SUBSET (SUBSET S)
    OBVIOUS
  <2>2. PICK T \in Bad : \A R \in SUBSET T : R # T => R \notin Bad
    <3> HIDE DEF Bad
    <3> QED
      BY <2>1, LeastCounterexample
  <2>3. /\ T \in SUBSET S /\ SumOf(f, T) # Cardinality(In(T))
        /\ \A R \in SUBSET T : R # T => SumOf(f, R) = Cardinality(In(R))
    BY <2>2
  <2> HIDE DEF Bad, f
  <2>4. CASE T = {}
    <3>1. In(T) = {}
      BY <2>4
    <3>2. SumOf(f, T) = 0 /\ Cardinality(In(T)) = 0
      BY <2>4, <3>1, SumOfNothing, FS_EmptySet
    <3> QED
      BY <2>3, <3>2
  <2>5. CASE T # {}
    <3>1. PICK x \in T : TRUE
      BY <2>5
    <3> DEFINE R == T \ {x}
    <3>10. IsFiniteSet(T)
      <4> HIDE DEF In
      <4> QED
        BY <2>3, FS_Subset
    <3>2. f[x] \in Nat /\ \A y \in T : f[y] \in Int
      <4>1. \A y \in S : f[y] \in Nat
        BY Zenon, <1>3
      <4>2. \A y \in T : y \in S
        BY Zenon, <2>3
      <4> HIDE DEF In
      <4> QED
        BY <4>1, <4>2
    <3>3. SumOf(f, T) = f[x] + SumOf(f, R)
      BY <3>2, <3>10, SumTakes
    <3>4. SumOf(f, R) = Cardinality(In(R))
      BY <2>3
    <3>5. In(T) = In(R) \cup In({x}) /\ In(R) \cap In({x}) = {}
      OBVIOUS
    <3>6. IsFiniteSet(In(R)) /\ IsFiniteSet(In({x}))
      <4>1. In(R) \in SUBSET (1..n) /\ In({x}) \in SUBSET (1..n)
        OBVIOUS
      <4> HIDE DEF In, n
      <4> QED
        BY <1>2, <4>1, FS_Subset
    <3> HIDE DEF In, R
    <3>7. Cardinality(In(T)) = Cardinality(In(R)) + Cardinality(In({x}))
      <4>1. Cardinality({}) = 0
        BY FS_EmptySet
      <4>2. Cardinality(In(R)) \in Nat /\ Cardinality(In({x})) \in Nat
        BY <3>6, FS_CardinalityType
      <4>3. Cardinality(In(R) \cup In({x}))
              = Cardinality(In(R)) + Cardinality(In({x})) - Cardinality(In(R) \cap In({x}))
        BY <3>6, FS_Union
      <4>4. /\ Cardinality(In(T)) = Cardinality(In(R) \cup In({x}))
            /\ Cardinality(In(R) \cap In({x})) = Cardinality({})
        BY Zenon, <3>5
      <4> QED
        BY <4>1, <4>2, <4>3, <4>4
    <3>8. f[x] = Cardinality(In({x}))
      BY <1>3, <2>3
    <3>9. Cardinality(In(R)) \in Nat /\ Cardinality(In({x})) \in Nat
      BY <3>6, FS_CardinalityType
    <3> QED
      BY <2>3, <3>3, <3>4, <3>7, <3>8, <3>9
  <2> QED
    BY <2>4, <2>5
<1>5. In(S) = 1..n
  BY <1>1
<1>6. SumOf(f, S) = Cardinality(In(S))
  BY <1>4
<1> HIDE DEF f, In
<1>7. SumOf(f, S) = n
  BY <1>2, <1>5, <1>6
<1> QED
  BY <1>7 DEF f

\* What one more observation changes: the list does not get shorter, and of the
\* others there is no more in it.
OneMore(S, old, y, recent) ==
    /\ recent \in Seq(S) /\ Len(old) <= Len(recent)
    /\ \A x : Times(recent, x) <= Times(old, x) + (IF x = y THEN 1 ELSE 0)
    /\ \A i \in 1..Len(recent) : recent[i] = y \/ \E j \in 1..Len(old) : recent[i] = old[j]

LEMMA ObservedIs ==
    ASSUME NEW s, NEW m, Remembers(s, m), NEW y \in Heard(s), NEW lookback \in Nat \ {0},
           NEW recent, recent = Observed(m, y, lookback).recent
    PROVE  OneMore(Heard(s), m.recent, y, recent)
<1> DEFINE old == m.recent
           longer == Append(old, y)
           kept == IF Len(longer) > lookback THEN Tail(longer) ELSE longer
           n == Len(old)
<1>1. old \in Seq(Heard(s)) /\ DOMAIN m = {"tokens", "window", "recent", "pin", "left", "count"}
  BY DEF Remembers
<1>2. Observed(m, y, lookback) = [m EXCEPT !.recent = kept]
  BY DEF Observed
<1>3. recent = kept
  <2> HIDE DEF kept
  <2> QED
    BY <1>1, <1>2
<1> HIDE DEF old
<1>4. /\ longer \in Seq(Heard(s)) /\ Len(longer) = n + 1 /\ n \in Nat
      /\ \A i \in 1..n : longer[i] = old[i]
      /\ longer[n + 1] = y
  BY <1>1, AppendProperties, LenProperties
<1>5. \A x : Times(longer, x) = Times(old, x) + (IF x = y THEN 1 ELSE 0)
  <2> SUFFICES ASSUME NEW x PROVE Times(longer, x) = Times(old, x) + (IF x = y THEN 1 ELSE 0)
    OBVIOUS
  <2>1. Times(longer, x) = Times(old, x) + (IF y = x THEN 1 ELSE 0)
    BY <1>1, TimesOfAppend
  <2> QED
    BY <2>1
<1>6. \A x : Times(old, x) \in Nat /\ Times(longer, x) \in Nat
  <2> SUFFICES ASSUME NEW x PROVE Times(old, x) \in Nat /\ Times(longer, x) \in Nat
    OBVIOUS
  <2> HIDE DEF longer
  <2> QED
    BY <1>1, <1>4, TimesNat
<1>7. \A i \in 1..(n + 1) : longer[i] = y \/ \E j \in 1..n : longer[i] = old[j]
  <2> HIDE DEF longer, n
  <2> QED
    BY <1>4
<1> HIDE DEF longer
<1>8. CASE ~(Len(longer) > lookback)
  <2>1. kept = longer
    BY <1>8
  <2>2. n <= Len(longer)
    BY <1>4
  <2> HIDE DEF kept, n
  <2> QED
    BY <1>3, <1>4, <1>5, <1>6, <1>7, <2>1, <2>2 DEF n, old, OneMore
<1>9. CASE Len(longer) > lookback
  <2>1. kept = Tail(longer) /\ longer # <<>>
    BY <1>4, <1>9
  <2>2. /\ Tail(longer) \in Seq(Heard(s)) /\ Len(Tail(longer)) = n
        /\ \A i \in 1..n : Tail(longer)[i] = longer[i + 1]
    <3>1. /\ Tail(longer) \in Seq(Heard(s)) /\ Len(Tail(longer)) = Len(longer) - 1
          /\ \A i \in 1..Len(Tail(longer)) : Tail(longer)[i] = longer[i + 1]
      BY <1>4, <2>1, HeadTailProperties
    <3>2. Len(Tail(longer)) = n
      BY <1>4, <3>1
    <3> QED
      BY <3>1, <3>2
  <2>3. \A x : Times(Tail(longer), x) <= Times(longer, x)
    <3> SUFFICES ASSUME NEW x PROVE Times(Tail(longer), x) <= Times(longer, x)
      OBVIOUS
    <3>1. Times(longer, x) = Times(Tail(longer), x) + (IF longer[1] = x THEN 1 ELSE 0)
      BY <1>4, <2>1, TimesOfTail
    <3>2. Times(Tail(longer), x) \in Nat
      BY <2>2, TimesNat
    <3> QED
      BY <3>1, <3>2
  <2>4. \A x : Times(Tail(longer), x) \in Nat
    BY <2>2, TimesNat
  <2> DEFINE rest == Tail(longer)
  <2> HIDE DEF kept, rest
  <2>5. recent = rest /\ rest \in Seq(Heard(s)) /\ Len(rest) = n
    BY <1>3, <2>1, <2>2 DEF rest
  <2>6. \A x : Times(rest, x) <= Times(old, x) + (IF x = y THEN 1 ELSE 0)
    BY <1>5, <1>6, <2>3, <2>4 DEF rest
  <2>7. \A i \in 1..n : rest[i] = y \/ \E j \in 1..n : rest[i] = old[j]
    <3> SUFFICES ASSUME NEW i \in 1..n
                 PROVE  rest[i] = y \/ \E j \in 1..n : rest[i] = old[j]
      OBVIOUS
    <3>1. rest[i] = longer[i + 1] /\ i + 1 \in 1..(n + 1)
      BY <1>4, <2>2 DEF rest
    <3> QED
      BY <1>7, <3>1
  <2>8. n <= n
    BY <1>4
  <2> HIDE DEF n
  <2> QED
    BY <2>5, <2>6, <2>7, <2>8 DEF n, old, OneMore
<1> QED
  BY <1>8, <1>9

LEMMA ProvidersAre == IsFiniteSet(Providers) /\ Providers # {}
<1> DEFINE f == [c \in Models |-> Provider(c)]
<1>1. f \in Surjection(Models, Providers)
  BY DEF Surjection, Providers
<1>2. IsFiniteSet(Models) /\ Models # {}
  BY CatalogAssumption DEF CatalogAssumption
<1> HIDE DEF f
<1> QED
  BY <1>1, <1>2, FS_Surjection DEF Providers

LEMMA StillEven ==
    ASSUME NEW n \in Nat, NEW a \in Nat, NEW b \in Nat, NEW u \in Nat, NEW v \in Nat,
           u <= v, n * a <= u + n, b <= a \/ (b <= a + 1 /\ n * a <= u)
    PROVE  n * b <= v + n
<1>1. \A x, y \in Nat : x <= y => n * x <= n * y
  <2> SUFFICES ASSUME NEW x \in Nat, NEW y \in Nat, x <= y PROVE n * x <= n * y
    OBVIOUS
  <2>1. y - x \in Nat /\ n * (y - x) \in Nat /\ n * (y - x) = n * y - n * x
    OBVIOUS
  <2> QED
    BY <2>1
<1>2. n * (a + 1) = n * a + n /\ n * a \in Nat /\ n * b \in Nat /\ a + 1 \in Nat
  OBVIOUS
<1>3. CASE b <= a
  <2>1. n * b <= n * a
    BY <1>1, <1>3
  <2> QED
    BY <1>2, <2>1
<1>4. CASE b <= a + 1 /\ n * a <= u
  <2>1. n * b <= n * (a + 1)
    BY <1>1, <1>2, <1>4
  <2> QED
    BY <1>2, <1>4, <2>1
<1> QED
  BY <1>3, <1>4

LEMMA StillBelow ==
    ASSUME NEW a \in Nat, NEW b \in Nat, NEW k \in Nat, NEW l \in Nat,
           NEW u \in Nat, NEW v \in Nat, a <= b, k <= l, u <= v, b * l <= u
    PROVE  a * k <= v
<1>1. b - a \in Nat /\ l - k \in Nat
  OBVIOUS
<1>2. (b - a) * l \in Nat /\ a * (l - k) \in Nat
  BY <1>1
<1>3. b * l - a * k = (b - a) * l + a * (l - k) /\ b * l \in Nat /\ a * k \in Nat
  OBVIOUS
<1> QED
  BY <1>2, <1>3

LEMMA ElementsAre == ASSUME NEW S, NEW s \in Seq(S) PROVE IsFiniteSet(ToSet(s))
<1> DEFINE n == Len(s)
           f == [i \in 1..n |-> s[i]]
<1>1. n \in Nat /\ DOMAIN s = 1..n
  BY LenProperties
<1>2. f \in Surjection(1..n, ToSet(s))
  BY <1>1 DEF ToSet, Surjection
<1> HIDE DEF f, n
<1>3. IsFiniteSet(1..n)
  BY <1>1, FS_Interval
<1> QED
  BY <1>2, <1>3, FS_Surjection

\* Where none is one above an equal share, none is far below it; where none is
\* below it, none is above it.
LEMMA EvenIs ==
    ASSUME NEW S, IsFiniteSet(S), NEW s \in Seq(S), NEW n, n = Cardinality(S)
    PROVE  /\ (\A x \in S : n * Times(s, x) <= Len(s) + n)
                => \A x \in S : Len(s) - n * (n - 1) <= n * Times(s, x)
           /\ (\A x \in S : Len(s) <= n * Times(s, x))
                => \A x \in S : n * Times(s, x) <= Len(s)
<1> DEFINE f == [x \in S |-> Times(s, x)]
           all == Len(s)
<1>1. all \in Nat /\ n \in Nat
  BY LenProperties, FS_CardinalityType
<1>2. \A x \in S : f[x] \in Nat /\ f[x] = Times(s, x)
  <2>1. \A x \in S : Times(s, x) \in Nat
    BY <1>1, TimesIs
  <2> QED
    BY <2>1
<1>3. SumOf(f, S) = all
  BY TimesAddUp
<1> HIDE DEF f, all
<1>4. ASSUME NEW x \in S
      PROVE  /\ (\A y \in S : n * f[y] <= all + n) => all - n * (n - 1) <= n * f[x]
             /\ (\A y \in S : all <= n * f[y]) => n * f[x] <= all
  <2> DEFINE R == S \ {x}
             rest == SumOf(f, R)
             k == Cardinality(R)
  <2>1. IsFiniteSet(R) /\ k = n - 1 /\ k \in Nat
    BY FS_RemoveElement, FS_CardinalityType
  <2>2. \A y \in S : f[y] \in Int
    BY <1>2
  <2>3. all = f[x] + rest /\ rest \in Int
    BY <1>3, <2>2, SumTakes
  <2>4. \A y \in R : f[y] \in Int
    BY <2>2
  <2>5. ASSUME \A y \in S : n * f[y] <= all + n PROVE all - n * (n - 1) <= n * f[x]
    <3>1. \A y \in R : n * f[y] <= all + n
      BY <2>5
    <3>2. n \in Int /\ all + n \in Int
      BY <1>1
    <3> HIDE DEF R, k
    <3>3. n * rest <= k * (all + n)
      BY <2>1, <2>4, <3>1, <3>2, SumAtMost DEF k
    <3> HIDE DEF rest
    <3>4. n \in Int /\ all \in Int /\ f[x] \in Int /\ n * rest <= (n - 1) * (all + n)
      BY <1>1, <2>1, <2>2, <3>3
    <3> QED
      BY Zenon, <2>3, <3>4, OfTheMean
  <2>6. ASSUME \A y \in S : all <= n * f[y] PROVE n * f[x] <= all
    <3>1. \A y \in R : (-n) * f[y] <= -all
      <4> SUFFICES ASSUME NEW y \in R PROVE (-n) * f[y] <= -all
        OBVIOUS
      <4>1. all <= n * f[y] /\ f[y] \in Int /\ n * f[y] \in Int
        BY <1>1, <2>4, <2>6
      <4>2. (-n) * f[y] = -(n * f[y])
        BY <1>1, <4>1
      <4> QED
        BY <1>1, <4>1, <4>2
    <3>2. -n \in Int /\ -all \in Int
      BY <1>1
    <3> HIDE DEF R, k
    <3>3. (-n) * rest <= k * (-all)
      BY <2>1, <2>4, <3>1, <3>2, SumAtMost DEF k
    <3> HIDE DEF rest
    <3>4. n \in Int /\ all \in Int /\ f[x] \in Int /\ (-n) * rest <= (n - 1) * (-all)
      BY <1>1, <2>1, <2>2, <3>3
    <3> QED
      BY Zenon, <2>3, <3>4, OfTheMean
  <2> QED
    BY <2>5, <2>6
<1> QED
  BY <1>2, <1>4 DEF all
-----------------------------------------------------------------------------
(* Equal shares *)

\* A provider that is dealt to was not above an equal share.
Deals(q, m) ==
    \E p \in Providers :
        /\ ProviderQuotaFairShare(q, m).memory = Observed(m, p, Settings.share_lookback)
        /\ Cardinality(Providers) * Times(m.recent, p) <= Len(m.recent)

LEMMA ShareDeals ==
    ASSUME NEW c \in Clients, NEW q, Asked(c, q), NEW m,
           NEW s, s = "ProviderQuotaFairShare", Remembers(s, m),
           ProvidersOf(Eligible(q)) = Providers
    PROVE  Deals(q, m)
<1> DEFINE providers == ProvidersOf(Eligible(q))
           counted == Cardinality({i \in DOMAIN m.recent : m.recent[i] \in providers})
           times(d) == Times(m.recent, Provider(d))
           under == {d \in Eligible(q) :
                        counted = 0 \/ times(d) * Cardinality(providers) < counted}
           pool == OrElse(under, Eligible(q))
           chosen == FinestByName(q, pool)
           key == [d \in Models |->
                      <<Late(d \notin under), times(d), -Quality(d), Cost(q, d), Name(d)>>]
           p == Provider(chosen)
           after == Observed(m, p, Settings.share_lookback)
           n == Cardinality(Providers)
           all == Len(m.recent)
<1>1. m.recent \in Seq(Providers) /\ all \in Nat /\ IsFiniteSet(Providers) /\ n \in Nat
  <2>1. Heard(s) = Providers
    BY DEF Heard
  <2>2. m.recent \in Seq(Providers)
    BY <2>1 DEF Remembers
  <2>3. IsFiniteSet(Providers)
    BY ProvidersAre
  <2> QED
    BY <2>2, <2>3, LenProperties, FS_CardinalityType
<1>2. counted = all
  <2> DEFINE recent == m.recent
  <2>1. {i \in DOMAIN recent : recent[i] \in Providers} = 1..Len(recent)
    <3>1. recent \in Seq(Providers)
      BY <1>1
    <3> HIDE DEF recent
    <3> QED
      BY <3>1
  <2>2. Cardinality(1..all) = all
    <3> HIDE DEF all
    <3>1. Cardinality(1..all) = (IF 1 > all THEN 0 ELSE all - 1 + 1)
      BY <1>1, FS_Interval
    <3> QED
      BY <1>1, <3>1
  <2> QED
    BY Zenon, <2>1, <2>2
<1>3. Eligible(q) \in SUBSET Models /\ Eligible(q) # {}
  BY EligibleIs
<1>4. \A d : times(d) \in Nat
  BY <1>1, TimesNat
<1>5. under = {d \in Eligible(q) : all = 0 \/ times(d) * n < all}
  BY Zenon, <1>2
<1>6. pool \in SUBSET Models /\ pool # {} /\ pool \subseteq Eligible(q)
  BY <1>3 DEF OrElse
<1>7. chosen \in pool
  <2>1. q.prompt \in Nat /\ q.max_tokens \in Nat
    BY DEF Asked
  <2> HIDE DEF pool
  <2> QED
    BY <1>6, <2>1, FinestIn
<1>8. p \in Providers
  BY <1>6, <1>7 DEF Providers
<1>9. ProviderQuotaFairShare(q, m)
        = Outcome(Decision(chosen, Sorted(Eligible(q) \ {chosen}, key)), after)
  BY Zenon DEF ProviderQuotaFairShare
<1>10. ProviderQuotaFairShare(q, m).memory = after
  <2> DEFINE d == Decision(chosen, Sorted(Eligible(q) \ {chosen}, key))
  <2> HIDE DEF d, after
  <2>1. Outcome(d, after).memory = after
    BY DEF Outcome
  <2> QED
    BY <1>9, <2>1 DEF d
<1> HIDE DEF providers, counted, times, after, key
<1>11. CASE under # {}
  <2>1. chosen \in under
    BY <1>7, <1>11 DEF OrElse
  <2> HIDE DEF chosen, under, n, all, pool
  <2>2. all = 0 \/ times(chosen) * n < all
    BY <1>5, <2>1
  <2>3. times(chosen) <= all
    <3>1. Times(m.recent, p) \in 0..all
      BY <1>1, TimesIs DEF all
    <3> QED
      BY <1>1, <3>1 DEF times
  <2>4. n * times(chosen) <= all
    <3>1. CASE all = 0
      <4>1. times(chosen) = 0
        BY <1>4, <2>3, <3>1
      <4> QED
        BY <1>1, <3>1, <4>1
    <3>2. CASE times(chosen) * n < all
      <4>1. n * times(chosen) = times(chosen) * n /\ n * times(chosen) \in Int
        BY <1>1, <1>4
      <4> QED
        BY <1>1, <3>2, <4>1
    <3> QED
      BY <2>2, <3>1, <3>2
  <2> QED
    BY <1>8, <1>10, <2>4 DEF Deals, times, n, all, after
<1>12. CASE under = {}
  <2> HIDE DEF under, n, all
  <2>1. \A d \in Eligible(q) : all <= n * times(d)
    <3> SUFFICES ASSUME NEW d \in Eligible(q) PROVE all <= n * times(d)
      OBVIOUS
    <3>1. ~(times(d) * n < all)
      BY <1>5, <1>12
    <3>2. n * times(d) = times(d) * n /\ n * times(d) \in Int
      BY <1>1, <1>4
    <3> QED
      BY <1>1, <3>1, <3>2
  <2>2. \A x \in Providers : all <= n * Times(m.recent, x)
    <3> SUFFICES ASSUME NEW x \in Providers PROVE all <= n * Times(m.recent, x)
      OBVIOUS
    <3>1. PICK d \in Eligible(q) : x = Provider(d)
      BY DEF ProvidersOf
    <3> QED
      BY <2>1, <3>1 DEF times
  <2>3. \A x \in Providers : n * Times(m.recent, x) <= all
    BY <1>1, <2>2, EvenIs DEF n, all
  <2> HIDE DEF chosen
  <2> QED
    BY <1>8, <1>10, <2>3 DEF Deals, n, all, after
<1> QED
  BY <1>11, <1>12

\* Every provider has a model for the requests.
AllServe == ProvidersOf(Eligible(Circumstances)) = Providers

\* No provider has more than one decision above an equal share.
SharesInvariant ==
    LET n == Cardinality(Providers)
    IN  strategy = "ProviderQuotaFairShare" =>
            \A p \in Providers : n * Times(memory.recent, p) <= Len(memory.recent) + n

LEMMA SharesStep ==
    ASSUME AllServe
    PROVE  Coherent /\ SharesInvariant /\ [Next]_vars => SharesInvariant'
<1> SUFFICES ASSUME Coherent, SharesInvariant, [Next]_vars,
                    strategy' = "ProviderQuotaFairShare",
                    NEW n, n = Cardinality(Providers), NEW p \in Providers
             PROVE  n * Times(memory'.recent, p) <= Len(memory'.recent) + n
  BY DEF SharesInvariant
<1>1. strategy = "ProviderQuotaFairShare" /\ strategy \notin Learns /\ Heard(strategy) = Providers
  BY StrategyStays DEF Learns, Heard
<1>2. /\ Remembers(strategy, memory) /\ memory.recent \in Seq(Providers)
      /\ Len(memory.recent) \in Nat /\ n \in Nat /\ Times(memory.recent, p) \in Nat
  <2>1. Remembers(strategy, memory)
    BY DEF Coherent
  <2>2. memory.recent \in Seq(Providers)
    BY <1>1, <2>1 DEF Remembers
  <2> QED
    BY <2>1, <2>2, ProvidersAre, LenProperties, TimesNat, FS_CardinalityType
<1>3. n * Times(memory.recent, p) <= Len(memory.recent) + n
  BY <1>1 DEF SharesInvariant
<1>4. CASE memory'.recent = memory.recent
  BY <1>3, <1>4
<1>5. CASE UNCHANGED vars
  BY <1>4, <1>5 DEF vars, state
<1>6. ASSUME NEW t \in Tasks, Ask(t)
      PROVE  n * Times(memory'.recent, p) <= Len(memory'.recent) + n
  <2> DEFINE c == Owner(strategy)[t]
             q == Question(c)
             recent == memory'.recent
  <2>1. c \in Clients /\ memory' = outcome[c].memory
    BY <1>6, AskIs
  <2>2. Asked(c, q) /\ outcome[c] = ProviderQuotaFairShare(q, memory)
    <3>1. Asked(c, q) /\ outcome[c] = Decide(strategy, q, memory)
      BY <2>1, OutcomeIs
    <3> HIDE DEF q
    <3> QED
      BY <1>1, <3>1 DEF Decide
  <2> HIDE DEF c, q
  <2>3. ProvidersOf(Eligible(q)) = Providers
    BY <2>2, LeaderIs DEF AllServe
  <2>4. Deals(q, memory)
    BY <1>1, <1>2, <2>1, <2>2, <2>3, ShareDeals
  <2>5. PICK y \in Providers :
            /\ memory' = Observed(memory, y, Settings.share_lookback)
            /\ n * Times(memory.recent, y) <= Len(memory.recent)
    BY <2>1, <2>2, <2>4 DEF Deals
  <2>6. /\ recent \in Seq(Providers) /\ Len(memory.recent) <= Len(recent)
        /\ Times(recent, p) <= Times(memory.recent, p) + (IF p = y THEN 1 ELSE 0)
    <3>1. y \in Heard(strategy) /\ Settings.share_lookback \in Nat \ {0}
      BY <1>1, SettingIs
    <3>2. recent = Observed(memory, y, Settings.share_lookback).recent
      BY <2>5
    <3> HIDE DEF recent
    <3>3. OneMore(Heard(strategy), memory.recent, y, recent)
      BY Zenon, <1>2, <3>1, <3>2, ObservedIs
    <3> QED
      BY <1>1, <3>3 DEF OneMore
  <2> HIDE DEF recent
  <2>7. Len(recent) \in Nat /\ Times(recent, p) \in Nat
    BY <2>6, LenProperties, TimesNat
  <2> DEFINE a == Times(memory.recent, p)
             b == Times(recent, p)
             u == Len(memory.recent)
             v == Len(recent)
  <2>8. a \in Nat /\ b \in Nat /\ u \in Nat /\ v \in Nat /\ u <= v /\ n * a <= u + n
        /\ (p = y => n * a <= u) /\ b <= a + (IF p = y THEN 1 ELSE 0)
    BY <1>2, <1>3, <2>5, <2>6, <2>7
  <2> HIDE DEF a, b, u, v
  <2>9. b <= a \/ (b <= a + 1 /\ n * a <= u)
    <3>1. CASE p = y
      BY <2>8, <3>1
    <3>2. CASE p # y
      <4>1. b <= a + 0
        BY <2>8, <3>2
      <4> QED
        BY <2>8, <4>1
    <3> QED
      BY <3>1, <3>2
  <2>10. n * b <= v + n
    <3>1. /\ n \in Nat /\ a \in Nat /\ b \in Nat /\ u \in Nat /\ v \in Nat
          /\ u <= v /\ n * a <= u + n
      BY Zenon, <1>2, <2>8
    <3> QED
      BY Zenon, <2>9, <3>1, StillEven
  <2> QED
    BY <2>10 DEF b, v, recent
<1>7. ASSUME NEW t \in Tasks, Ends(t) PROVE memory' = memory
  BY <1>1, <1>7, EndIs
<1>8. ASSUME NEW r \in Providers, NEW region,
             Trip(r) \/ Recover(r) \/ Close(r) \/ Waver(r) \/ Mark(region)
      PROVE  memory' = memory
  BY <1>8, TurnIs
<1>9. ASSUME Tick PROVE memory'.recent = memory.recent
  BY <1>2, <1>9, AgedIs DEF Tick
<1>10. Providers # {}
  BY CatalogAssumption DEF CatalogAssumption, Providers
<1> QED
  BY <1>4, <1>5, <1>6, <1>7, <1>8, <1>9, <1>10 DEF Next, Ends

\* ProviderQuotaFairShare deals evenly, for any number of providers and any window
\* of decisions: where every provider has a model for the requests.  In others the
\* one that has none is left behind.
THEOREM SharesAreEven ==
    ASSUME "ProviderQuotaFairShare" \in Strategies => AllServe
    PROVE  Spec => []EvenShares
<1>1. Init => SharesInvariant
  <2> SUFFICES ASSUME Init, NEW n, n = Cardinality(Providers), NEW p \in Providers
               PROVE  n * Times(memory.recent, p) <= Len(memory.recent) + n
    BY DEF SharesInvariant
  <2>1. memory.recent = <<>> /\ n \in Nat
    BY ProvidersAre, FS_CardinalityType DEF Init, Fresh
  <2>2. Times(<<>>, p) = 0
    <3>1. {i \in DOMAIN <<>> : <<>>[i] = p} = {}
      OBVIOUS
    <3> QED
      BY <3>1, FS_EmptySet DEF Times
  <2> QED
    BY <2>1, <2>2
<1>2. Coherent /\ SharesInvariant => EvenShares
  <2> SUFFICES ASSUME Coherent, SharesInvariant, strategy = "ProviderQuotaFairShare",
                      NEW n, n = Cardinality(Providers),
                      NEW all, all = Len(memory.recent), NEW p \in Providers
               PROVE  n * Times(memory.recent, p) \in (all - n * (n - 1))..(all + n)
    BY DEF EvenShares
  <2>1. memory.recent \in Seq(Providers)
    BY DEF Coherent, Remembers, Heard
  <2>2. \A x \in Providers : n * Times(memory.recent, x) <= all + n
    BY DEF SharesInvariant
  <2>3. all - n * (n - 1) <= n * Times(memory.recent, p)
    BY <2>1, <2>2, ProvidersAre, EvenIs
  <2>4. all \in Nat /\ n \in Nat /\ Times(memory.recent, p) \in Nat
    BY <2>1, ProvidersAre, LenProperties, TimesNat, FS_CardinalityType
  <2>5. n * Times(memory.recent, p) \in Int /\ n * (n - 1) \in Int
    BY <2>4
  <2> QED
    BY <2>2, <2>3, <2>4, <2>5
<1>3. Coherent /\ SharesInvariant /\ [Next]_vars => SharesInvariant'
  <2>1. CASE AllServe
    BY <2>1, SharesStep
  <2>2. CASE ~AllServe
    <3> SUFFICES ASSUME Coherent, [Next]_vars, strategy' = "ProviderQuotaFairShare" PROVE FALSE
      BY DEF SharesInvariant
    <3>1. strategy' = strategy
      BY StrategyStays
    <3> QED
      BY <2>2, <3>1 DEF Coherent
  <2> QED
    BY <2>1, <2>2
<1> QED
  BY <1>1, <1>2, <1>3, InitCoherent, CoherentStep, PTL DEF Spec
-----------------------------------------------------------------------------
(* Neighbours *)

\* The finest of a pool by name has the highest quality of all.
LEMMA FinestIsFine ==
    ASSUME NEW q, q.prompt \in Nat, q.max_tokens \in Nat, NEW pool \in SUBSET Models, pool # {}
    PROVE  \A d \in pool : Quality(FinestByName(q, pool)) >= Quality(d)
<1> DEFINE key == [c \in Models |-> <<-Quality(c), Cost(q, c), -Name(c)>>]
           best == Best(pool, key)
<1>1. \A c \in pool : Quality(c) \in Int /\ Cost(q, c) \in Int /\ Name(c) \in Int
  BY CandidateIs
<1>2. \A c \in pool : key[c] \in [1..3 -> Int] /\ DOMAIN key[c] = 1..3 /\ key[c][1] = -Quality(c)
  BY <1>1
<1>3. FinestByName(q, pool) = best
  BY Zenon DEF FinestByName
<1> HIDE DEF key
<1>4. best \in pool /\ \A d \in pool \ {best} : Earlier(best, d, key)
  <2>1. Comparable(pool, key)
    BY <1>2, 3 \in Nat DEF Comparable
  <2>2. pool \in SUBSET Nat /\ IsFiniteSet(pool)
    BY ModelsAre
  <2> QED
    BY <2>1, <2>2, BestIsFirst
<1> HIDE DEF best
<1>5. ASSUME NEW d \in pool PROVE Quality(best) >= Quality(d)
  <2>1. CASE d = best
    BY <1>1, <1>4, <2>1
  <2>2. CASE d # best
    <3>1. Earlier(best, d, key)
      BY <1>4, <2>2
    <3>2. key[best][1] <= key[d][1]
      <4>1. key[best] \in [1..3 -> Int] /\ key[d] \in [1..3 -> Int]
        BY <1>2, <1>4
      <4>2. CASE key[best] = key[d]
        BY <4>1, <4>2
      <4>3. CASE Before(key[best], key[d])
        <5>1. PICK i \in 1..3 : /\ key[best][i] < key[d][i]
                                /\ \A j \in 1..(i - 1) : key[best][j] = key[d][j]
          BY <4>1, <4>3 DEF Before
        <5>2. i = 1 \/ 1 \in 1..(i - 1)
          OBVIOUS
        <5> QED
          BY <4>1, <5>1, <5>2
      <4> QED
        BY <3>1, <4>2, <4>3 DEF Earlier
    <3> QED
      BY <1>1, <1>2, <1>4, <3>2
  <2> QED
    BY <2>1, <2>2
<1> QED
  BY <1>3, <1>5

\* A tenant has not asked more often than the average.
Fair(c, m) ==
    Times(m.recent, c) * Cardinality(ToSet(m.recent) \cup {c}) <= Len(m.recent)

LEMMA FairQueueIs ==
    ASSUME NEW c \in Clients, NEW q, Asked(c, q), NEW m
    PROVE  /\ TenantFairQueue(q, m).memory = Observed(m, c, Settings.tenant_lookback)
           /\ TenantFairQueue(q, m).decision.chosen \in Active(q)
           /\ TenantFairQueue(q, m).decision =
                IF Fair(c, m) THEN FinestFirst(q, Active(q)) ELSE CheapestFirst(q, Active(q))
           /\ Fair(c, m) => \A d \in Active(q) :
                Quality(TenantFairQueue(q, m).decision.chosen) >= Quality(d)
<1> DEFINE d == IF Fair(c, m) THEN FinestFirst(q, Active(q)) ELSE CheapestFirst(q, Active(q))
           after == Observed(m, c, Settings.tenant_lookback)
<1>1. q.prompt \in Nat /\ q.max_tokens \in Nat /\ q.client = c
  BY DEF Asked
<1>2. Active(q) \in SUBSET Models /\ Active(q) # {}
  BY ActiveIs
<1>3. TenantFairQueue(q, m) = Outcome(d, after)
  BY Zenon, <1>1 DEF TenantFairQueue, Fair
<1>4. d.chosen \in Active(q)
  BY <1>1, <1>2, EndsUsable
<1>5. Fair(c, m) => d.chosen = FinestByName(q, Active(q))
  BY DEF FinestFirst, Decision
<1>6. \A e \in Active(q) : Quality(FinestByName(q, Active(q))) >= Quality(e)
  BY <1>1, <1>2, FinestIsFine
<1>7. Outcome(d, after).decision = d /\ Outcome(d, after).memory = after
  BY DEF Outcome
<1> HIDE DEF after
<1>8. TenantFairQueue(q, m).memory = after /\ TenantFairQueue(q, m).decision = d
  <2> HIDE DEF d
  <2> QED
    BY <1>3, <1>7
<1>9. d = IF Fair(c, m) THEN FinestFirst(q, Active(q)) ELSE CheapestFirst(q, Active(q))
  BY Zenon
<1> HIDE DEF d
<1>10. Fair(c, m) => \A e \in Active(q) : Quality(d.chosen) >= Quality(e)
  BY <1>5, <1>6
<1> QED
  BY Zenon, <1>4, <1>8, <1>9, <1>10 DEF after

\* The requests of one that is heard of already make no other's share smaller.
LEMMA StaysFair ==
    ASSUME NEW s, s = "TenantFairQueue", NEW m, Remembers(s, m),
           NEW c \in Clients, c \in ToSet(m.recent), NEW d \in Clients, d # c, Fair(d, m)
    PROVE  Fair(d, Observed(m, c, Settings.tenant_lookback))
<1> DEFINE recent == Observed(m, c, Settings.tenant_lookback).recent
           old == m.recent
           now == ToSet(recent) \cup {d}
           before == ToSet(old) \cup {d}
<1>1. Heard(s) = Clients /\ old \in Seq(Clients)
  BY DEF Heard, Remembers
<1>2. /\ recent \in Seq(Clients) /\ Len(old) <= Len(recent)
      /\ Times(recent, d) <= Times(old, d)
      /\ \A i \in 1..Len(recent) : recent[i] = c \/ \E j \in 1..Len(old) : recent[i] = old[j]
  <2>1. /\ recent \in Seq(Heard(s)) /\ Len(m.recent) <= Len(recent)
        /\ \A x : Times(recent, x) <= Times(m.recent, x) + (IF x = c THEN 1 ELSE 0)
        /\ \A i \in 1..Len(recent) :
              recent[i] = c \/ \E j \in 1..Len(m.recent) : recent[i] = m.recent[j]
    <3> DEFINE r == recent
    <3>1. c \in Heard(s) /\ Settings.tenant_lookback \in Nat \ {0}
      BY <1>1, SettingIs
    <3>2. r = Observed(m, c, Settings.tenant_lookback).recent
      BY Zenon
    <3> HIDE DEF r
    <3>3. OneMore(Heard(s), m.recent, c, r)
      BY Zenon, <3>1, <3>2, ObservedIs
    <3> QED
      BY Zenon, <3>3 DEF r, OneMore
  <2> HIDE DEF recent
  <2>2. Times(recent, d) <= Times(m.recent, d) + 0
    <3>1. Times(recent, d) <= Times(m.recent, d) + (IF d = c THEN 1 ELSE 0)
      BY Zenon, <2>1
    <3> QED
      BY <3>1
  <2>3. Times(m.recent, d) \in Nat
    BY <1>1, TimesNat
  <2> QED
    BY <1>1, <2>1, <2>2, <2>3
<1> HIDE DEF recent, old
<1>3. now \in SUBSET before
  <2>1. DOMAIN recent = 1..Len(recent) /\ DOMAIN old = 1..Len(old)
    BY <1>1, <1>2, LenProperties
  <2>2. c \in ToSet(old)
    BY DEF old
  <2> QED
    BY <1>2, <2>1, <2>2 DEF ToSet
<1>4. IsFiniteSet(before)
  <2>1. IsFiniteSet(ToSet(old))
    BY <1>1, ElementsAre
  <2> QED
    BY <2>1, FS_AddElement
<1> HIDE DEF now, before
<1>5. Cardinality(now) \in Nat /\ Cardinality(before) \in Nat /\ Cardinality(now) <= Cardinality(before)
  BY <1>3, <1>4, FS_Subset, FS_CardinalityType
<1>6. Times(recent, d) \in Nat /\ Times(old, d) \in Nat /\ Len(old) \in Nat /\ Len(recent) \in Nat
  BY <1>1, <1>2, TimesNat, LenProperties
<1>7. Times(old, d) * Cardinality(before) <= Len(old)
  BY DEF Fair, old, before
<1>8. Times(recent, d) * Cardinality(now) <= Len(recent)
  BY <1>2, <1>5, <1>6, <1>7, StillBelow
<1> QED
  BY <1>8 DEF Fair, recent, now

\* What would be decided before and after a request: what is seen is the same.
LEMMA WouldIs ==
    ASSUME Coherent, Next, NEW t \in Tasks, Ask(t), NEW d \in Clients,
           NEW c, c = Owner(strategy)[t]
    PROVE  /\ c \in Clients /\ Asked(c, Question(c)) /\ Asked(d, Question(d))
           /\ strategy' = strategy /\ Remembers(strategy, memory)
           /\ memory' = Decide(strategy, Question(c), memory).memory
           /\ Would(d) = Decide(strategy, Question(d), memory).decision
           /\ Would(d)' = Decide(strategy, Question(d), memory').decision
<1>1. /\ c \in Clients /\ strategy' = strategy /\ sees' = sees
      /\ memory' = outcome[c].memory /\ Remembers(strategy, memory)
  BY AskIs DEF Coherent
<1>2. /\ Asked(c, Question(c)) /\ Asked(d, Question(d))
      /\ outcome[c] = Decide(strategy, Question(c), memory)
      /\ outcome[d] = Decide(strategy, Question(d), memory)
  BY <1>1, OutcomeIs
<1>3. outcome' = Outcomes(strategy', sees', memory')
  BY Zenon DEF Next
<1>4. outcome'[d] = Decide(strategy', Asking(d, sees'), memory')
  BY <1>3 DEF Outcomes
<1>5. outcome'[d] = Decide(strategy, Question(d), memory')
  BY Zenon, <1>1, <1>4 DEF Question
<1>6. Would(d) = outcome[d].decision /\ Would(d)' = outcome'[d].decision
  BY DEF Would
<1> QED
  BY Zenon, <1>1, <1>2, <1>5, <1>6

\* However often the others ask that are heard of already, a tenant that was given
\* the finest model that is up still is, whatever the window is.
THEOREM NoNoisyNeighbour == Spec => NoisyNeighbour
<1> DEFINE Kept ==
        \A c, d \in Clients :
            /\ strategy = "TenantFairQueue"
            /\ c # d /\ Asks(c) /\ c \in ToSet(memory.recent)
            => Quality(Would(d).chosen)' >= Quality(Would(d).chosen)
<1>1. Coherent /\ [Next]_vars => [Kept]_vars
  <2> SUFFICES ASSUME Coherent, Next, NEW c \in Clients, NEW d \in Clients,
                      strategy = "TenantFairQueue", c # d, Asks(c), c \in ToSet(memory.recent)
               PROVE  Quality(Would(d)'.chosen) >= Quality(Would(d).chosen)
    OBVIOUS
  <2>1. PICK t \in Tasks : Ask(t) /\ c = Owner(strategy)[t]
    BY DEF Asks
  <2> DEFINE q == Question(d)
             o == TenantFairQueue(q, memory)
             o2 == TenantFairQueue(q, memory')
  <2>2. /\ Asked(c, Question(c)) /\ Asked(d, q) /\ Remembers(strategy, memory)
        /\ memory' = TenantFairQueue(Question(c), memory).memory
        /\ Would(d) = o.decision /\ Would(d)' = o2.decision
    <3>1. /\ Asked(c, Question(c)) /\ Asked(d, Question(d)) /\ Remembers(strategy, memory)
          /\ memory' = Decide(strategy, Question(c), memory).memory
          /\ Would(d) = Decide(strategy, Question(d), memory).decision
          /\ Would(d)' = Decide(strategy, Question(d), memory').decision
      BY Zenon, <2>1, WouldIs
    <3>2. \A x, m : Decide("TenantFairQueue", x, m) = TenantFairQueue(x, m)
      BY DEF Decide
    <3> QED
      BY Zenon, <3>1, <3>2
  <2>3. memory' = Observed(memory, c, Settings.tenant_lookback)
    <3> DEFINE x == Question(c)
    <3>1. Asked(c, x)
      BY Zenon, <2>2
    <3> HIDE DEF x
    <3>2. TenantFairQueue(x, memory).memory = Observed(memory, c, Settings.tenant_lookback)
      BY <3>1, FairQueueIs
    <3> QED
      BY Zenon, <2>2, <3>2 DEF x
  <2> HIDE DEF q
  <2>4. Fair(d, memory) => Fair(d, memory')
    BY Zenon, <2>2, <2>3, StaysFair
  <2>5. /\ o.decision.chosen \in Active(q)
        /\ o.decision = IF Fair(d, memory) THEN FinestFirst(q, Active(q))
                        ELSE CheapestFirst(q, Active(q))
    BY Zenon, <2>2, FairQueueIs
  <2>6. /\ o2.decision = IF Fair(d, memory') THEN FinestFirst(q, Active(q))
                         ELSE CheapestFirst(q, Active(q))
        /\ Fair(d, memory') => \A e \in Active(q) : Quality(o2.decision.chosen) >= Quality(e)
    BY Zenon, <2>2, FairQueueIs
  <2> HIDE DEF o, o2
  <2>7. CASE Fair(d, memory')
    BY <2>2, <2>5, <2>6, <2>7
  <2>8. CASE ~Fair(d, memory')
    <3>1. o.decision = o2.decision
      BY <2>4, <2>5, <2>6, <2>8
    <3>2. Quality(o.decision.chosen) \in Int
      <4>1. o.decision.chosen \in Models
        BY <2>5, ActiveIs
      <4> QED
        BY <2>2, <4>1, AskedCandidate
    <3> QED
      BY <2>2, <3>1, <3>2
  <2> QED
    BY <2>7, <2>8
<1> QED
  BY <1>1, StaysCoherent, PTL DEF Spec, NoisyNeighbour
-----------------------------------------------------------------------------
(* One client's requests are no matter of another's *)

\* What is remembered of client d is the same.
SameFor(d, m, n) ==
    /\ n.tokens[d] = m.tokens[d] /\ n.window[d] = m.window[d] /\ n.pin[d] = m.pin[d]
    /\ n.left[d] = m.left[d] /\ n.count[d] = m.count[d]

\* The ways in which a decision for client c changes what is remembered.
Touches(c, m, n) ==
    \/ n = m
    \/ \E x : n = [m EXCEPT !.tokens[c] = x]
    \/ \E x : n = [m EXCEPT !.window[c] = x]
    \/ \E x : n = [m EXCEPT !.pin[c] = x]
    \/ \E x, y : n = [m EXCEPT !.pin[c] = x, !.left[c] = y]
    \/ \E x : n = [m EXCEPT !.count[c] = x]

LEMMA TouchesOne ==
    ASSUME NEW s, NEW m, Remembers(s, m), NEW n, NEW c, NEW d, Touches(c, m, n), d # c
    PROVE  SameFor(d, m, n)
<1>1. /\ DOMAIN m = {"tokens", "window", "recent", "pin", "left", "count"}
      /\ DOMAIN m.tokens = Keys(s) /\ DOMAIN m.window = Keys(s) /\ DOMAIN m.pin = Clients
      /\ DOMAIN m.left = Clients /\ DOMAIN m.count = Counted(s)
  BY DEF Remembers
<1>2. CASE n = m
  BY <1>2 DEF SameFor
<1>3. ASSUME NEW x, n = [m EXCEPT !.tokens[c] = x] PROVE SameFor(d, m, n)
  BY <1>1, <1>3 DEF SameFor
<1>4. ASSUME NEW x, n = [m EXCEPT !.window[c] = x] PROVE SameFor(d, m, n)
  BY <1>1, <1>4 DEF SameFor
<1>5. ASSUME NEW x, n = [m EXCEPT !.pin[c] = x] PROVE SameFor(d, m, n)
  BY <1>1, <1>5 DEF SameFor
<1>6. ASSUME NEW x, NEW y, n = [m EXCEPT !.pin[c] = x, !.left[c] = y] PROVE SameFor(d, m, n)
  BY <1>1, <1>6 DEF SameFor
<1>7. ASSUME NEW x, n = [m EXCEPT !.count[c] = x] PROVE SameFor(d, m, n)
  BY <1>1, <1>7 DEF SameFor
<1> QED
  BY Zenon, <1>2, <1>3, <1>4, <1>5, <1>6, <1>7 DEF Touches

LEMMA OutcomeHas == \A x, m : Outcome(x, m).decision = x /\ Outcome(x, m).memory = m
  BY DEF Outcome

LEMMA OutcomeParts ==
    \A o, x, m : o = Outcome(x, m) => o.decision = x /\ o.memory = m
  BY DEF Outcome

\* Each of them touches what is remembered of the client that asks, and looks at no
\* more than that.
LEMMA BucketsOwn ==
    ASSUME NEW q, NEW m
    PROVE  /\ Touches(q.client, m, TokenBucketTenant(q, m).memory)
           /\ \A n : SameFor(q.client, m, n) =>
                TokenBucketTenant(q, n).decision = TokenBucketTenant(q, m).decision
<1> DEFINE c == q.client
<1>1. \A x : TokenBucketTenant(q, x) =
        IF x.tokens[c] >= Settings.token
        THEN Outcome(FinestFirst(q, Eligible(q)), [x EXCEPT !.tokens = Consumed(x.tokens, c)])
        ELSE Outcome(CheapestFirst(q, Eligible(q)), x)
  BY Zenon DEF TokenBucketTenant
<1>2. \/ TokenBucketTenant(q, m).memory = m
      \/ TokenBucketTenant(q, m).memory = [m EXCEPT !.tokens = Consumed(m.tokens, c)]
  <2> DEFINE rich == m.tokens[c] >= Settings.token
             fine == FinestFirst(q, Eligible(q))
             cheap == CheapestFirst(q, Eligible(q))
             less == [m EXCEPT !.tokens = Consumed(m.tokens, c)]
  <2>1. TokenBucketTenant(q, m) = IF rich THEN Outcome(fine, less) ELSE Outcome(cheap, m)
    BY Zenon, <1>1
  <2> HIDE DEF rich, fine, cheap, less
  <2>2. TokenBucketTenant(q, m).memory = m \/ TokenBucketTenant(q, m).memory = less
    BY Zenon, <2>1, OutcomeParts
  <2> QED
    BY Zenon, <2>2 DEF less
<1>3. \E x : [m EXCEPT !.tokens = Consumed(m.tokens, c)] = [m EXCEPT !.tokens[c] = x]
  BY Zenon DEF Consumed
<1>4. \A x : TokenBucketTenant(q, x).decision =
        IF x.tokens[c] >= Settings.token
        THEN FinestFirst(q, Eligible(q)) ELSE CheapestFirst(q, Eligible(q))
  <2> SUFFICES ASSUME NEW x
               PROVE  TokenBucketTenant(q, x).decision =
                        IF x.tokens[c] >= Settings.token
                        THEN FinestFirst(q, Eligible(q)) ELSE CheapestFirst(q, Eligible(q))
    OBVIOUS
  <2> DEFINE rich == x.tokens[c] >= Settings.token
             fine == FinestFirst(q, Eligible(q))
             cheap == CheapestFirst(q, Eligible(q))
             less == [x EXCEPT !.tokens = Consumed(x.tokens, c)]
  <2>1. TokenBucketTenant(q, x) = IF rich THEN Outcome(fine, less) ELSE Outcome(cheap, x)
    BY Zenon, <1>1
  <2> HIDE DEF rich, fine, cheap, less
  <2>2. TokenBucketTenant(q, x).decision = IF rich THEN fine ELSE cheap
    BY Zenon, <2>1, OutcomeParts
  <2> QED
    BY Zenon, <2>2 DEF rich, fine, cheap
<1> QED
  BY Zenon, <1>2, <1>3, <1>4 DEF Touches, SameFor

LEMMA QuotaOwn ==
    ASSUME NEW q, NEW m
    PROVE  /\ Touches(q.client, m, TenantQuotaBurst(q, m).memory)
           /\ \A n : SameFor(q.client, m, n) =>
                TenantQuotaBurst(q, n).decision = TenantQuotaBurst(q, m).decision
<1> DEFINE c == q.client
<1>1. \/ TenantQuotaBurst(q, m).memory = m
      \/ TenantQuotaBurst(q, m).memory = Recorded(m, c, 1)
  BY Zenon, OutcomeHas DEF TenantQuotaBurst, Refusal
<1>2. \E x : Recorded(m, c, 1) = [m EXCEPT !.window[c] = x]
  BY Zenon DEF Recorded
<1>3. \A x : TenantQuotaBurst(q, x).decision =
        IF Len(x.window[c]) >= Settings.hard_quota THEN [chosen |-> NoModel, chain |-> <<>>]
        ELSE IF Len(x.window[c]) < Settings.soft_quota THEN FinestFirst(q, Eligible(q))
        ELSE CheapestFirst(q, Eligible(q))
  BY Zenon, OutcomeHas DEF TenantQuotaBurst, Refusal
<1> QED
  BY Zenon, <1>1, <1>2, <1>3 DEF Touches, SameFor

LEMMA CascadeOwn ==
    ASSUME NEW q, NEW m
    PROVE  /\ Touches(q.client, m, TenantBudgetCascade(q, m).memory)
           /\ \A n : SameFor(q.client, m, n) =>
                TenantBudgetCascade(q, n).decision = TenantBudgetCascade(q, m).decision
<1> DEFINE hard(x) == Fits(q, x, Settings.hard_budget)
           soft(x) == Fits(q, x, Settings.soft_budget)
           chosen(x) == IF soft(x) # {} THEN FinestByName(q, soft(x)) ELSE Best(hard(x), ByCost(q))
           decision(x) == Decision(chosen(x), Sorted(hard(x) \ {chosen(x)}, ByCost(q)))
<1>1. \A x : TenantBudgetCascade(q, x) =
                IF hard(x) = {} THEN Refusal(x) ELSE Outcome(decision(x), x)
  BY Zenon DEF TenantBudgetCascade
<1> HIDE DEF hard, soft
<1>2. TenantBudgetCascade(q, m).memory = m
  <2> DEFINE d == decision(m)
             none == [chosen |-> NoModel, chain |-> <<>>]
             empty == hard(m) = {}
  <2>1. TenantBudgetCascade(q, m) = IF empty THEN Outcome(none, m) ELSE Outcome(d, m)
    BY Zenon, <1>1 DEF Refusal
  <2> HIDE DEF d, none, empty
  <2> QED
    BY Zenon, <2>1, OutcomeHas
<1>3. \A x : TenantBudgetCascade(q, x).decision =
                IF hard(x) = {} THEN [chosen |-> NoModel, chain |-> <<>>] ELSE decision(x)
  BY Zenon, <1>1, OutcomeHas DEF Refusal
<1>4. ASSUME NEW n, SameFor(q.client, m, n)
      PROVE  TenantBudgetCascade(q, n).decision = TenantBudgetCascade(q, m).decision
  <2>1. Total(n.window[q.client]) = Total(m.window[q.client])
    BY Zenon, <1>4 DEF SameFor
  <2>2. hard(n) = hard(m) /\ soft(n) = soft(m)
    BY <2>1 DEF hard, soft, Fits
  <2>3. chosen(n) = chosen(m)
    BY Zenon, <2>2
  <2> HIDE DEF chosen
  <2>4. decision(n) = decision(m)
    BY Zenon, <2>2, <2>3
  <2> HIDE DEF decision
  <2> QED
    BY Zenon, <1>3, <2>2, <2>4
<1> QED
  BY Zenon, <1>2, <1>4 DEF Touches

LEMMA MigrateOwn ==
    ASSUME NEW q, NEW m
    PROVE  /\ Touches(q.client, m, StickySessionMigrate(q, m).memory)
           /\ \A n : SameFor(q.client, m, n) =>
                StickySessionMigrate(q, n).decision = StickySessionMigrate(q, m).decision
<1> DEFINE home(x) == IF x.pin[q.client] \in Eligible(q) THEN x.pin[q.client]
                      ELSE Pick(ByName(Eligible(q)), q.key)
           fit == {c \in Closed(q, Eligible(q)) : Success(q, c) >= Settings.migrate_below}
           targets(x) == {c \in fit : Provider(c) # Provider(home(x))}
           steady == [c \in Models |-> <<-Success(q, c), -Quality(c), Cost(q, c), -Name(c)>>]
           chosen(x) == IF home(x) \in fit \/ targets(x) = {} THEN home(x)
                        ELSE Best(targets(x), steady)
           key == [c \in Models |->
                     <<Late(~Up(q, c)), -Success(q, c), -Quality(c), Cost(q, c), Name(c)>>]
           decision(x) == Decision(chosen(x), Sorted(Eligible(q) \ {chosen(x)}, key))
<1>1. \A x : StickySessionMigrate(q, x)
                = Outcome(decision(x), [x EXCEPT !.pin[q.client] = chosen(x)])
  BY Zenon DEF StickySessionMigrate
<1> HIDE DEF home, fit, steady, key
<1>2. ASSUME NEW n, SameFor(q.client, m, n)
      PROVE  decision(n) = decision(m)
  <2>1. home(n) = home(m)
    BY Zenon, <1>2 DEF SameFor, home
  <2>2. targets(n) = targets(m)
    BY <2>1
  <2> HIDE DEF targets
  <2>3. chosen(n) = chosen(m)
    BY Zenon, <2>1, <2>2
  <2> HIDE DEF chosen
  <2> QED
    BY Zenon, <2>3
<1> HIDE DEF chosen, decision
<1>3. \A x : /\ StickySessionMigrate(q, x).decision = decision(x)
             /\ StickySessionMigrate(q, x).memory = [x EXCEPT !.pin[q.client] = chosen(x)]
  BY Zenon, <1>1, OutcomeParts
<1>4. Touches(q.client, m, StickySessionMigrate(q, m).memory)
  BY Zenon, <1>3 DEF Touches
<1> QED
  BY Zenon, <1>2, <1>3, <1>4

LEMMA PinExpireOwn ==
    ASSUME NEW q, NEW m
    PROVE  /\ Touches(q.client, m, StickyModelPinExpire(q, m).memory)
           /\ \A n : SameFor(q.client, m, n) =>
                StickyModelPinExpire(q, n).decision = StickyModelPinExpire(q, m).decision
<1> DEFINE kept(x) == x.left[q.client] > 0 /\ x.pin[q.client] \in Closed(q, Eligible(q))
           chosen(x) == IF kept(x) THEN x.pin[q.client] ELSE FinestByName(q, Active(q))
           key == [c \in Models |-> <<-Quality(c), Name(c)>>]
           decision(x) == Decision(chosen(x), Sorted(Active(q) \ {chosen(x)}, key))
           after(x) == IF kept(x) THEN x
                       ELSE [x EXCEPT !.pin[q.client] = chosen(x),
                                      !.left[q.client] = Settings.pin_ttl]
<1>1. \A x : StickyModelPinExpire(q, x) = Outcome(decision(x), after(x))
  BY Zenon DEF StickyModelPinExpire
<1> HIDE DEF kept, key
<1>2. ASSUME NEW n, SameFor(q.client, m, n)
      PROVE  decision(n) = decision(m)
  <2>1. kept(n) = kept(m)
    BY Zenon, <1>2 DEF SameFor, kept
  <2>2. chosen(n) = chosen(m)
    BY Zenon, <1>2, <2>1 DEF SameFor
  <2> HIDE DEF chosen
  <2> QED
    BY Zenon, <2>2
<1> HIDE DEF chosen, decision
<1>3. Touches(q.client, m, after(m))
  BY Zenon DEF Touches
<1> HIDE DEF after
<1>4. \A x : /\ StickyModelPinExpire(q, x).decision = decision(x)
             /\ StickyModelPinExpire(q, x).memory = after(x)
  BY Zenon, <1>1, OutcomeParts
<1> QED
  BY Zenon, <1>2, <1>3, <1>4

Pins(c, m, n) == n = m \/ \E x : n = [m EXCEPT !.pin[c] = x]

\* A region's answers are counted for all, and a decision leaves the counts alone.
LEMMA HysteresisOwn ==
    ASSUME NEW q, NEW m
    PROVE  /\ Pins(q.client, m, RegionFailoverHysteresis(q, m).memory)
           /\ \A n : SameFor(q.client, m, n) /\ n.count = m.count =>
                RegionFailoverHysteresis(q, n).decision = RegionFailoverHysteresis(q, m).decision
<1> DEFINE preferred == Head(Regions(q))
           live == {i \in DOMAIN Regions(q) : UpIn(q, Regions(q)[i]) # {}}
           over(x) == x.pin[q.client] # NoRegion
           back(x) == /\ over(x) /\ UpIn(q, preferred) # {}
                      /\ x.count[preferred] >= Settings.hysteresis
           held(x) == over(x) /\ ~back(x) /\ UpIn(q, x.pin[q.client]) # {}
           region(x) == IF back(x) THEN preferred ELSE IF held(x) THEN x.pin[q.client]
                        ELSE IF live # {} THEN Regions(q)[LeastOf(live)] ELSE NoRegion
           pool(x) == IF region(x) = NoRegion THEN Eligible(q) ELSE UpIn(q, region(x))
           same(x) == held(x) \/ region(x) = NoRegion
           decision(x) == Decided(Pick(ByName(pool(x)), q.key))
           to(x) == IF region(x) = preferred THEN NoRegion ELSE region(x)
           after(x) == IF same(x) THEN x ELSE [x EXCEPT !.pin[q.client] = to(x)]
<1>1. \A x : RegionFailoverHysteresis(q, x) = Outcome(decision(x), after(x))
  BY Zenon DEF RegionFailoverHysteresis
<1>2. Pins(q.client, m, after(m))
  <2> HIDE DEF same, to
  <2> QED
    BY Zenon DEF Pins
<1> HIDE DEF preferred, live
<1>3. ASSUME NEW n, SameFor(q.client, m, n), n.count = m.count
      PROVE  decision(n) = decision(m)
  <2>1. over(n) = over(m) /\ n.pin[q.client] = m.pin[q.client]
    BY Zenon, <1>3 DEF SameFor
  <2>2. back(n) = back(m)
    BY Zenon, <1>3, <2>1
  <2> HIDE DEF over, back
  <2>3. held(n) = held(m)
    BY Zenon, <2>1, <2>2
  <2> HIDE DEF held
  <2>4. region(n) = region(m)
    BY Zenon, <2>1, <2>2, <2>3
  <2> HIDE DEF region
  <2>5. pool(n) = pool(m)
    BY Zenon, <2>4
  <2> HIDE DEF pool
  <2> QED
    BY Zenon, <2>5
<1> HIDE DEF decision, after
<1>4. \A x : /\ RegionFailoverHysteresis(q, x).decision = decision(x)
             /\ RegionFailoverHysteresis(q, x).memory = after(x)
  BY Zenon, <1>1, OutcomeParts
<1> QED
  BY Zenon, <1>2, <1>3, <1>4

LEMMA WarmupOwn ==
    ASSUME NEW q, NEW m
    PROVE  /\ Touches(q.client, m, StickyRegionWarmup(q, m).memory)
           /\ \A n : SameFor(q.client, m, n) =>
                StickyRegionWarmup(q, n).decision = StickyRegionWarmup(q, m).decision
<1> DEFINE warm == IF q.warmup_region # NoRegion THEN q.warmup_region ELSE Settings.regions[1]
           others == {i \in DOMAIN Settings.regions : Settings.regions[i] # warm}
           hashed == Pick(Sorted(others, [i \in others |-> <<i>>]), q.key)
           target(x) == IF x.pin[q.client] # NoRegion THEN x.pin[q.client]
                        ELSE IF q.region # NoRegion THEN q.region
                        ELSE IF others = {} THEN warm ELSE Settings.regions[hashed]
           warming(x) == x.count[q.client] < Settings.warmup_requests
           region(x) == IF warming(x) THEN warm ELSE target(x)
           there(x) == UpIn(q, region(x))
           chosen(x) == Pick(ByName(OrElse(there(x), Active(q))),
                             q.spread[IF there(x) # {} THEN region(x) ELSE "fallback"])
           decision(x) == Decision(chosen(x), ByName(OrElse(there(x), Active(q)) \ {chosen(x)}))
           after(x) == IF warming(x) THEN [x EXCEPT !.count[q.client] = x.count[q.client] + 1]
                       ELSE [x EXCEPT !.pin[q.client] = target(x)]
<1>1. \A x : StickyRegionWarmup(q, x) = Outcome(decision(x), after(x))
  BY Zenon DEF StickyRegionWarmup
<1>2. Touches(q.client, m, after(m))
  <2> HIDE DEF warming, target
  <2> QED
    BY Zenon DEF Touches
<1> HIDE DEF warm, others, hashed
<1>3. ASSUME NEW n, SameFor(q.client, m, n)
      PROVE  decision(n) = decision(m)
  <2>1. warming(n) = warming(m) /\ target(n) = target(m)
    BY Zenon, <1>3 DEF SameFor
  <2> HIDE DEF warming, target
  <2>2. region(n) = region(m)
    BY Zenon, <2>1
  <2> HIDE DEF region
  <2>3. there(n) = there(m)
    BY Zenon, <2>2
  <2> HIDE DEF there
  <2>4. chosen(n) = chosen(m)
    BY Zenon, <2>2, <2>3
  <2> HIDE DEF chosen
  <2> QED
    BY Zenon, <2>3, <2>4
<1> HIDE DEF decision, after
<1>4. \A x : /\ StickyRegionWarmup(q, x).decision = decision(x)
             /\ StickyRegionWarmup(q, x).memory = after(x)
  BY Zenon, <1>1, OutcomeParts
<1> QED
  BY Zenon, <1>2, <1>3, <1>4

LEMMA DrainOwn ==
    ASSUME NEW q, NEW m
    PROVE  /\ Touches(q.client, m, StickyRegionDrain(q, m).memory)
           /\ \A n : SameFor(q.client, m, n) =>
                StickyRegionDrain(q, n).decision = StickyRegionDrain(q, m).decision
<1> DEFINE desired(x) == IF x.pin[q.client] # NoRegion THEN x.pin[q.client]
                         ELSE Head(Regions(q))
           draining == Settings.draining \cup q.draining
           stays(x) == desired(x) \notin draining /\ UpIn(q, desired(x)) # {}
           others == Settings.regions \o Settings.catalog_regions
           alternates(x) == {i \in DOMAIN others : /\ others[i] # desired(x)
                                                   /\ others[i] \notin draining
                                                   /\ UpIn(q, others[i]) # {}}
           there(x) == {c \in Eligible(q) : InRegion(c, desired(x))}
           region(x) == IF stays(x) THEN desired(x)
                        ELSE IF alternates(x) # {} THEN others[LeastOf(alternates(x))]
                        ELSE IF there(x) # {} THEN desired(x) ELSE "fallback"
           pool(x) == IF stays(x) \/ alternates(x) # {} THEN UpIn(q, region(x))
                      ELSE OrElse(UpIn(q, desired(x)), OrElse(Closed(q, Eligible(q)),
                           OrElse(there(x), Eligible(q))))
           chosen(x) == Pick(ByName(pool(x)), q.spread[region(x)])
           key(x) == [c \in Models |-> <<Late(~InRegion(c, region(x))), -Quality(c), Name(c)>>]
           decision(x) == Decision(chosen(x),
                                   Sorted(Closed(q, Eligible(q)) \ {chosen(x)}, key(x)))
<1>1. \A x : StickyRegionDrain(q, x)
                = Outcome(decision(x), [x EXCEPT !.pin[q.client] = region(x)])
  <2> SUFFICES ASSUME NEW x
               PROVE  StickyRegionDrain(q, x)
                        = Outcome(decision(x), [x EXCEPT !.pin[q.client] = region(x)])
    BY Zenon
  <2> QED
    BY SMT DEF StickyRegionDrain
<1> HIDE DEF draining, others
<1>2. ASSUME NEW n, SameFor(q.client, m, n)
      PROVE  decision(n) = decision(m)
  <2>1. desired(n) = desired(m)
    BY Zenon, <1>2 DEF SameFor
  <2> HIDE DEF desired
  <2>2. stays(n) = stays(m) /\ alternates(n) = alternates(m) /\ there(n) = there(m)
    BY <2>1
  <2> HIDE DEF stays, alternates, there
  <2>3. region(n) = region(m)
    BY Zenon, <2>1, <2>2
  <2> HIDE DEF region
  <2>4. pool(n) = pool(m) /\ key(n) = key(m)
    BY Zenon, <2>1, <2>2, <2>3
  <2> HIDE DEF pool, key
  <2>5. chosen(n) = chosen(m)
    BY Zenon, <2>3, <2>4
  <2> HIDE DEF chosen
  <2> QED
    BY Zenon, <2>4, <2>5
<1> HIDE DEF decision, region
<1>3. \A x : /\ StickyRegionDrain(q, x).decision = decision(x)
             /\ StickyRegionDrain(q, x).memory = [x EXCEPT !.pin[q.client] = region(x)]
  BY Zenon, <1>1, OutcomeParts
<1>4. Touches(q.client, m, StickyRegionDrain(q, m).memory)
  BY Zenon, <1>3 DEF Touches
<1> QED
  BY Zenon, <1>2, <1>3, <1>4
\* A decision looks at, and touches, what is remembered of the client that asks.
Own(s) ==
    \A q, m : /\ Touches(q.client, m, Decide(s, q, m).memory)
              /\ \A n : SameFor(q.client, m, n) =>
                    Decide(s, q, n).decision = Decide(s, q, m).decision

LEMMA EachIsOwn ==
    ASSUME NEW s \in PerClient \ {"RegionFailoverHysteresis"}
    PROVE  Own(s)
<1>1. CASE s = "TokenBucketTenant"
  <2>1. \A q, m : Decide(s, q, m) = TokenBucketTenant(q, m)
    BY <1>1 DEF Decide
  <2>2. \A q, m : /\ Touches(q.client, m, TokenBucketTenant(q, m).memory)
                 /\ \A n : SameFor(q.client, m, n) =>
                      TokenBucketTenant(q, n).decision = TokenBucketTenant(q, m).decision
    BY Zenon, BucketsOwn
  <2> QED
    BY <2>1, <2>2 DEF Own
<1>2. CASE s = "TenantQuotaBurst"
  <2>1. \A q, m : Decide(s, q, m) = TenantQuotaBurst(q, m)
    BY <1>2 DEF Decide
  <2>2. \A q, m : /\ Touches(q.client, m, TenantQuotaBurst(q, m).memory)
                 /\ \A n : SameFor(q.client, m, n) =>
                      TenantQuotaBurst(q, n).decision = TenantQuotaBurst(q, m).decision
    BY Zenon, QuotaOwn
  <2> QED
    BY <2>1, <2>2 DEF Own
<1>3. CASE s = "TenantBudgetCascade"
  <2>1. \A q, m : Decide(s, q, m) = TenantBudgetCascade(q, m)
    BY <1>3 DEF Decide
  <2>2. \A q, m : /\ Touches(q.client, m, TenantBudgetCascade(q, m).memory)
                 /\ \A n : SameFor(q.client, m, n) =>
                      TenantBudgetCascade(q, n).decision = TenantBudgetCascade(q, m).decision
    BY Zenon, CascadeOwn
  <2> QED
    BY <2>1, <2>2 DEF Own
<1>4. CASE s = "StickySessionMigrate"
  <2>1. \A q, m : Decide(s, q, m) = StickySessionMigrate(q, m)
    BY <1>4 DEF Decide
  <2>2. \A q, m : /\ Touches(q.client, m, StickySessionMigrate(q, m).memory)
                 /\ \A n : SameFor(q.client, m, n) =>
                      StickySessionMigrate(q, n).decision = StickySessionMigrate(q, m).decision
    BY Zenon, MigrateOwn
  <2> QED
    BY <2>1, <2>2 DEF Own
<1>5. CASE s = "StickyModelPinExpire"
  <2>1. \A q, m : Decide(s, q, m) = StickyModelPinExpire(q, m)
    BY <1>5 DEF Decide
  <2>2. \A q, m : /\ Touches(q.client, m, StickyModelPinExpire(q, m).memory)
                 /\ \A n : SameFor(q.client, m, n) =>
                      StickyModelPinExpire(q, n).decision = StickyModelPinExpire(q, m).decision
    BY Zenon, PinExpireOwn
  <2> QED
    BY <2>1, <2>2 DEF Own
<1>6. CASE s = "StickyRegionWarmup"
  <2>1. \A q, m : Decide(s, q, m) = StickyRegionWarmup(q, m)
    BY <1>6 DEF Decide
  <2>2. \A q, m : /\ Touches(q.client, m, StickyRegionWarmup(q, m).memory)
                 /\ \A n : SameFor(q.client, m, n) =>
                      StickyRegionWarmup(q, n).decision = StickyRegionWarmup(q, m).decision
    BY Zenon, WarmupOwn
  <2> QED
    BY <2>1, <2>2 DEF Own
<1>7. CASE s = "StickyRegionDrain"
  <2>1. \A q, m : Decide(s, q, m) = StickyRegionDrain(q, m)
    BY <1>7 DEF Decide
  <2>2. \A q, m : /\ Touches(q.client, m, StickyRegionDrain(q, m).memory)
                 /\ \A n : SameFor(q.client, m, n) =>
                      StickyRegionDrain(q, n).decision = StickyRegionDrain(q, m).decision
    BY Zenon, DrainOwn
  <2> QED
    BY <2>1, <2>2 DEF Own
<1> QED
  BY Zenon, <1>1, <1>2, <1>3, <1>4, <1>5, <1>6, <1>7 DEF PerClient

LEMMA OthersAreSpared ==
    ASSUME NEW s, s \in PerClient, NEW m, Remembers(s, m), NEW q, NEW x, x.client # q.client,
           NEW n, n = Decide(s, q, m).memory
    PROVE  Decide(s, x, n).decision = Decide(s, x, m).decision
<1>1. Touches(q.client, m, n) => SameFor(x.client, m, n)
  BY Zenon, TouchesOne
<1>2. CASE s # "RegionFailoverHysteresis"
  <2>1. Own(s)
    BY <1>2, EachIsOwn
  <2>2. Touches(q.client, m, n)
    BY <2>1 DEF Own
  <2> QED
    BY Zenon, <1>1, <2>1, <2>2 DEF Own
<1>3. CASE s = "RegionFailoverHysteresis"
  <2>1. \A y, w : Decide(s, y, w) = RegionFailoverHysteresis(y, w)
    BY <1>3 DEF Decide
  <2>2. n = RegionFailoverHysteresis(q, m).memory
    BY <2>1
  <2>3. n = m \/ \E y : n = [m EXCEPT !.pin[q.client] = y]
    <3>1. Pins(q.client, m, RegionFailoverHysteresis(q, m).memory)
      BY Zenon, HysteresisOwn
    <3> QED
      BY <2>2, <3>1 DEF Pins
  <2>4. Touches(q.client, m, n)
    BY Zenon, <2>3 DEF Touches
  <2>5. n.count = m.count
    <3>1. DOMAIN m = {"tokens", "window", "recent", "pin", "left", "count"}
      BY DEF Remembers
    <3> QED
      BY <2>3, <3>1
  <2>6. RegionFailoverHysteresis(x, n).decision = RegionFailoverHysteresis(x, m).decision
    <3>1. SameFor(x.client, m, n)
      BY Zenon, <1>1, <2>4
    <3>2. \A y, v, w : SameFor(y.client, v, w) /\ w.count = v.count =>
            RegionFailoverHysteresis(y, w).decision = RegionFailoverHysteresis(y, v).decision
      BY Zenon, HysteresisOwn
    <3> QED
      BY Zenon, <2>5, <3>1, <3>2
  <2> QED
    BY <2>1, <2>6
<1> QED
  BY <1>2, <1>3

\* What is recorded of a client's calls is recorded for the client.
LEMMA OthersAreSparedByCalls ==
    ASSUME Coherent, Next, NEW c \in Clients, NEW d \in Clients, c # d, Hears(c),
           strategy \in PerClient \ {"RegionFailoverHysteresis"}
    PROVE  Would(d)' = Would(d)
<1>1. PICK t \in Tasks : Ends(t) /\ c = Owner(strategy)[t]
  BY DEF Hears, Ends
<1>2. /\ strategy' = strategy /\ sees' = sees /\ Remembers(strategy, memory)
      /\ strategy \notin Learns => memory' = memory
      /\ strategy = "TenantBudgetCascade" =>
           \/ memory' = memory
           \/ memory' = Recorded(memory, c, Cost(Question(c), calls[t].now))
  <2>1. Remembers(strategy, memory)
    BY DEF Coherent
  <2> QED
    BY <1>1, <2>1, EndIs
<1>3. strategy \notin Learns \/ strategy = "TenantBudgetCascade"
  BY DEF Learns
<1>4. Touches(c, memory, memory')
  <2>1. \A a : \E x : Recorded(memory, c, a) = [memory EXCEPT !.window[c] = x]
    BY Zenon DEF Recorded
  <2> QED
    BY Zenon, <1>2, <1>3, <2>1 DEF Touches
<1>5. SameFor(d, memory, memory')
  BY Zenon, <1>2, <1>4, TouchesOne
<1>6. Asked(d, Question(d)) /\ Would(d) = Decide(strategy, Question(d), memory).decision
  BY Zenon, OutcomeIs DEF Would
<1>7. Would(d)' = Decide(strategy, Question(d), memory').decision
  <2>1. outcome' = Outcomes(strategy', sees', memory')
    BY Zenon DEF Next
  <2>2. outcome'[d] = Decide(strategy', Asking(d, sees'), memory')
    BY <2>1 DEF Outcomes
  <2> QED
    BY Zenon, <1>2, <2>2 DEF Question, Would
<1>8. Question(d).client = d
  BY <1>6 DEF Asked
<1> QED
  <2>1. Own(strategy)
    BY EachIsOwn
  <2>2. Decide(strategy, Question(d), memory').decision
          = Decide(strategy, Question(d), memory).decision
    BY Zenon, <1>5, <1>8, <2>1 DEF Own
  <2> QED
    BY Zenon, <1>6, <1>7, <2>2

\* Whatever a client asks, however often, and whatever becomes of its calls, every
\* other client is decided what it was to be decided before: for the strategies that
\* remember a client for itself, and but for the streaks of regions.
THEOREM ClientsAreIsolated == Spec => Isolated
<1> DEFINE Spared ==
        \A c, d \in Clients :
            /\ c # d
            /\ \/ strategy \in PerClient /\ Asks(c)
               \/ strategy \in PerClient \ {"RegionFailoverHysteresis"} /\ Hears(c)
            => Would(d)' = Would(d)
<1>1. Coherent /\ [Next]_vars => [Spared]_vars
  <2> SUFFICES ASSUME Coherent, Next, NEW c \in Clients, NEW d \in Clients,
                      strategy \in PerClient, c # d, Asks(c)
               PROVE  Would(d)' = Would(d)
    BY OthersAreSparedByCalls
  <2>1. PICK t \in Tasks : Ask(t) /\ c = Owner(strategy)[t]
    BY DEF Asks
  <2>2. /\ Asked(c, Question(c)) /\ Asked(d, Question(d)) /\ Remembers(strategy, memory)
        /\ memory' = Decide(strategy, Question(c), memory).memory
        /\ Would(d) = Decide(strategy, Question(d), memory).decision
        /\ Would(d)' = Decide(strategy, Question(d), memory').decision
    BY Zenon, <2>1, WouldIs
  <2>3. Question(c).client = c /\ Question(d).client = d
    BY <2>2 DEF Asked
  <2>4. Question(d).client # Question(c).client
    BY Zenon, <2>3
  <2>5. Decide(strategy, Question(d), memory').decision
          = Decide(strategy, Question(d), memory).decision
    <3> DEFINE s == strategy
               m == memory
               n == memory'
               q == Question(c)
               x == Question(d)
    <3>1. s \in PerClient /\ Remembers(s, m) /\ x.client # q.client
      BY Zenon, <2>2, <2>4
    <3>2. n = Decide(s, q, m).memory
      BY Zenon, <2>2
    <3> HIDE DEF s, m, n, q, x
    <3>3. Decide(s, x, n).decision = Decide(s, x, m).decision
      BY <3>1, <3>2, OthersAreSpared
    <3> QED
      BY Zenon, <3>3 DEF s, m, n, x
  <2> QED
    BY <2>2, <2>5
<1> QED
  BY <1>1, StaysCoherent, PTL DEF Spec, Isolated
===============================================================================
