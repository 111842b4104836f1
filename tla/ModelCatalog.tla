----------------------------- MODULE ModelCatalog -----------------------------
(***************************************************************************)
(* The catalog the strategies choose from, what their keys say of a        *)
(* candidate, and the base class RoutingStrategy of                        *)
(* src/router/strategies.py.                                               *)
(*                                                                         *)
(* A model is its place in the catalog, so that max and min meet the       *)
(* candidates, and a stable sort leaves ties, in the order of the models.  *)
(* Qualities, scores and success rates are percentages, time is counted in *)
(* milliseconds and money in millionths of a dollar.                       *)
(***************************************************************************)
EXTENDS Builtins

CONSTANTS
    Catalog,        \* a sequence of candidates
    Hashes          \* bound of the model: sha256 has this many values

Models == DOMAIN Catalog
NoModel == 0

\* Names and providers are numbered in the order of the alphabet.
Name(c) == Catalog[c].name
Provider(c) == Catalog[c].provider
Quality(c) == Catalog[c].quality
Providers == {Provider(c) : c \in Models}

\* input_token_limit; NoLimit is more than any window.
InputLimit(c) ==
    IF Catalog[c].window < Catalog[c].max_input THEN Catalog[c].window ELSE Catalog[c].max_input

\* estimate_cost, of the tokens of the prompt and of the largest answer: above
\* a threshold of the prompt all of them have other rates.
Cost(q, c) ==
    LET rate == IF q.prompt > Catalog[c].long_above THEN Catalog[c].long ELSE Catalog[c].short
    IN  q.prompt * rate[1] + q.max_tokens * rate[2]

ASSUME CatalogAssumption ==
    /\ Models # {} /\ IsFiniteSet(Models) /\ Models \subseteq Nat \ {NoModel}
    /\ \A c \in Models :
        /\ Name(c) \in Nat /\ Provider(c) \in Nat /\ Quality(c) \in 0..100
        /\ {Catalog[c].window, Catalog[c].max_input, Catalog[c].long_above} \subseteq Nat
        /\ \A i \in {1, 2} : Catalog[c].short[i] \in Nat /\ Catalog[c].long[i] \in Nat
    /\ \A c, d \in Models : c # d => Name(c) # Name(d)
    /\ Hashes \in Nat \ {0, 1}
-----------------------------------------------------------------------------
(* RoutingStrategy *)

UpTo3(s) == IF Len(s) <= 3 THEN s ELSE SubSeq(s, 1, 3)

Decision(c, chain) == [chosen |-> c, chain |-> UpTo3(chain)]

\* fault: the chosen model stays in its own chain
ChainWithChosen(c) == Sorted(Models, [d \in Models |-> <<-Quality(d)>>])

\* _fallback_chain: the rest of the catalog, the best first.
QualityChain(c) == Sorted(Models \ {c}, [d \in Models |-> <<-Quality(d)>>])

\* _decision
Decided(c) == Decision(c, QualityChain(c))

\* The first of a ranking, with the next three as its chain.
FirstOf(ranked) == Decision(Head(ranked), Tail(ranked))

\* fault: the chain is in the order of the names
ChainByName(pool, key) ==
    LET chosen == Best(pool, [c \in Models |-> Append(key[c], -Name(c))])
    IN  Decision(chosen, Sorted(pool \ {chosen}, [c \in Models |-> <<Name(c)>>]))

\* max takes the last of the names for the chosen one, sorted the first of them
\* for the chain.
RankedBy(pool, key) ==
    LET chosen == Best(pool, [c \in Models |-> Append(key[c], -Name(c))])
    IN  Decision(chosen, Sorted(pool \ {chosen}, [c \in Models |-> Append(key[c], Name(c))]))
-----------------------------------------------------------------------------
(* What a strategy sees: a question q holds what of the request and of its *)
(* signals strategies read, and the state of circuits and statistics.      *)

Serving(q) == {c \in Models : q.domain \in Catalog[c].domains}
Eligible(q) == OrElse(Serving(q), Models)

\* is_available
Up(q, c) == Provider(c) \notin q.open

Closed(q, pool) == {c \in pool : Up(q, c)}

\* What serves the domain and is up, or is up, or anything.
Reachable(q) == OrElse(Closed(q, Serving(q)), OrElse(Closed(q, Models), Models))

\* fault: the circuits are not asked
AnyEligible(q) == Eligible(q)

\* healthy or eligible
Active(q) == OrElse(Closed(q, Eligible(q)), Eligible(q))

InTime(q, c) == Catalog[c].realtime \/ q.batch
InRegion(c, region) == region \in Catalog[c].regions

\* The highest quality, then the lowest cost.
Finest(q, pool) == Best(pool, [c \in Models |-> <<-Quality(c), Cost(q, c)>>])

\* The same, then the last of the names.
FinestByName(q, pool) == Best(pool, [c \in Models |-> <<-Quality(c), Cost(q, c), -Name(c)>>])

\* The lowest cost, then the highest quality.
Cheapest(q, pool) == Best(pool, [c \in Models |-> <<Cost(q, c), -Quality(c)>>])

\* infer_model_tier reads the tier off the name.
Tier(c) == Catalog[c].tier

\* infer_target_tier
TargetTier(q) ==
    IF q.complexity >= 70 THEN "frontier"
    ELSE IF q.complexity >= 35 THEN "mid"
    ELSE "economy"

\* The hash of the request's id, divided by the largest one, is below part / whole.
InShare(q, part, whole) == q.hash * whole < part * (Hashes - 1)
InSlice(q, percent) == InShare(q, percent, 100)
===============================================================================
