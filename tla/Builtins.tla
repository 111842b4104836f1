------------------------------- MODULE Builtins -------------------------------
(***************************************************************************)
(* The built-in functions of Python that the strategies of                 *)
(* src/router/strategies.py choose with: min, max and sorted with a key.   *)
(* What they choose from are numbers, in the order in which the code       *)
(* enumerates them; a key, and what is compared, is a function on them.    *)
(***************************************************************************)
EXTENDS Integers, Sequences, FiniteSets

\* Tuples of numbers, compared as Python compares them.
Before(k, l) == \E i \in DOMAIN k : k[i] < l[i] /\ \A j \in 1..(i - 1) : k[j] = l[j]

Earlier(c, d, key) ==
    Before(key[c], key[d]) \/ (key[c] = key[d] /\ c < d)

\* min(pool, key=...); max has the opposite signs.
Best(pool, key) == CHOOSE c \in pool : \A d \in pool \ {c} : Earlier(c, d, key)

\* sorted(pool, key=...)
Sorted(pool, key) ==
    LET place(c) == 1 + Cardinality({d \in pool : Earlier(d, c, key)})
    IN  [i \in 1..Cardinality(pool) |-> CHOOSE c \in pool : place(c) = i]

\* [x for x in s if ...], with the places of s that are kept.
Filtered(s, kept) ==
    LET at == Sorted(kept, [i \in kept |-> <<i>>])
    IN  [k \in DOMAIN at |-> s[at[k]]]

OrElse(pool, other) == IF pool # {} THEN pool ELSE other

\* The place of the quotient num[c] / den[c] among those of the pool.
Ratio(pool, c, num, den) == Cardinality({d \in pool : num[d] * den[c] < num[c] * den[d]})

LeastOf(S) == CHOOSE x \in S : \A y \in S : x <= y
MostOf(S) == CHOOSE x \in S : \A y \in S : x >= y

Late(b) == IF b THEN 1 ELSE 0               \* a Boolean in a sort key
===============================================================================
