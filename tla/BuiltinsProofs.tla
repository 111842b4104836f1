---------------------------- MODULE BuiltinsProofs ----------------------------
(***************************************************************************)
(* Lemmas about what min, max and sorted return, about sums over finite    *)
(* sets and about remainders.                                              *)
(***************************************************************************)
EXTENDS Builtins, FiniteSetTheorems, WellFoundedInduction, TLAPS

\* The keys of a pool are tuples of numbers, all of one length.
Comparable(pool, key) == \E n \in Nat : \A c \in pool : key[c] \in [1..n -> Int]
-----------------------------------------------------------------------------
(* Least elements *)

LEMMA LeastNat ==
    ASSUME NEW S \in SUBSET Nat, S # {}
    PROVE  \E x \in S : \A y \in S : x <= y
<1> DEFINE Less == {p \in Nat \X Nat : p[1] < p[2]}
<1>1. IsWellFoundedOn(Less, Nat)
  BY NatLessThanWellFounded DEF OpToRel
<1>2. PICK x \in S : \A y \in S : <<y, x>> \notin Less
  BY <1>1, WFMin
<1>3. \A y \in S : ~(y < x)
  BY <1>2
<1> QED
  BY <1>3

LEMMA LeastIs ==
    ASSUME NEW S \in SUBSET Nat, S # {}
    PROVE  LeastOf(S) \in S /\ \A y \in S : LeastOf(S) <= y
  BY LeastNat DEF LeastOf

\* The place of the first difference decides, and there is one between two keys.
LEMMA BeforeTotal ==
    ASSUME NEW n \in Nat, NEW k \in [1..n -> Int], NEW l \in [1..n -> Int], k # l
    PROVE  Before(k, l) \/ Before(l, k)
<1> DEFINE Differ == {i \in 1..n : k[i] # l[i]}
<1>1. Differ # {} /\ Differ \in SUBSET Nat
  OBVIOUS
<1>2. PICK i \in Differ : \A j \in Differ : i <= j
  BY <1>1, LeastNat
<1>3. i \in 1..n /\ k[i] # l[i] /\ \A j \in 1..(i - 1) : k[j] = l[j]
  BY <1>2
<1>4. k[i] < l[i] \/ l[i] < k[i]
  BY <1>3
<1> QED
  BY <1>3, <1>4 DEF Before

LEMMA BeforeOrder ==
    ASSUME NEW n \in Nat, NEW k \in [1..n -> Int], NEW l \in [1..n -> Int],
           NEW m \in [1..n -> Int]
    PROVE  /\ ~Before(k, k)
           /\ Before(k, l) /\ Before(l, m) => Before(k, m)
<1>1. ~Before(k, k)
  BY DEF Before
<1>2. ASSUME Before(k, l), Before(l, m) PROVE Before(k, m)
  <2>1. PICK i \in 1..n : k[i] < l[i] /\ \A j \in 1..(i - 1) : k[j] = l[j]
    BY <1>2 DEF Before
  <2>2. PICK h \in 1..n : l[h] < m[h] /\ \A j \in 1..(h - 1) : l[j] = m[j]
    BY <1>2 DEF Before
  <2>3. CASE i <= h
    <3>0. k[i] \in Int /\ l[i] \in Int /\ m[i] \in Int /\ i \in Int /\ h \in Int
      BY <2>1, <2>2
    <3>1. k[i] < m[i]
      <4>1. CASE i = h
        BY <2>1, <2>2, <3>0, <4>1
      <4>2. CASE i \in 1..(h - 1)
        <5>1. l[i] = m[i]
          BY <2>2, <4>2
        <5> QED
          BY <2>1, <5>1
      <4> QED
        BY <2>1, <2>2, <2>3, <3>0, <4>1, <4>2
    <3>2. \A j \in 1..(i - 1) : k[j] = m[j]
      BY <2>1, <2>2, <2>3
    <3> QED
      BY <3>1, <3>2 DEF Before
  <2>4. CASE h < i
    <3>1. k[h] < m[h]
      BY <2>1, <2>2, <2>4
    <3>2. \A j \in 1..(h - 1) : k[j] = m[j]
      BY <2>1, <2>2, <2>4
    <3> QED
      BY <3>1, <3>2 DEF Before
  <2> QED
    BY <2>3, <2>4
<1> QED
  BY <1>1, <1>2
-----------------------------------------------------------------------------
(* Earlier is a strict total order of a pool *)

LEMMA EarlierOrder ==
    ASSUME NEW pool \in SUBSET Nat, NEW key, Comparable(pool, key)
    PROVE  /\ \A c \in pool : ~Earlier(c, c, key)
           /\ \A c, d \in pool : c # d => Earlier(c, d, key) \/ Earlier(d, c, key)
           /\ \A b, c, d \in pool :
                Earlier(b, c, key) /\ Earlier(c, d, key) => Earlier(b, d, key)
<1>1. PICK n \in Nat : \A c \in pool : key[c] \in [1..n -> Int]
  BY DEF Comparable
<1>2. ASSUME NEW c \in pool PROVE ~Earlier(c, c, key)
  <2>1. ~Before(key[c], key[c])
    BY <1>1, BeforeOrder
  <2> QED
    BY <2>1 DEF Earlier
<1>3. ASSUME NEW c \in pool, NEW d \in pool, c # d
      PROVE  Earlier(c, d, key) \/ Earlier(d, c, key)
  <2>1. key[c] = key[d] \/ Before(key[c], key[d]) \/ Before(key[d], key[c])
    BY <1>1, BeforeTotal
  <2>2. c < d \/ d < c
    BY <1>3
  <2> QED
    BY <2>1, <2>2 DEF Earlier
<1>4. ASSUME NEW b \in pool, NEW c \in pool, NEW d \in pool,
             Earlier(b, c, key), Earlier(c, d, key)
      PROVE  Earlier(b, d, key)
  <2>1. Before(key[b], key[c]) /\ Before(key[c], key[d]) => Before(key[b], key[d])
    BY <1>1, BeforeOrder
  <2>2. b < c /\ c < d => b < d
    OBVIOUS
  <2> QED
    BY <1>4, <2>1, <2>2 DEF Earlier
<1> QED
  BY <1>2, <1>3, <1>4

\* How many of the pool come before c.
Ahead(pool, key, c) == Cardinality({d \in pool : Earlier(d, c, key)})

LEMMA AheadOrder ==
    ASSUME NEW pool \in SUBSET Nat, IsFiniteSet(pool), NEW key, Comparable(pool, key)
    PROVE  /\ \A c \in pool : Ahead(pool, key, c) \in 0..(Cardinality(pool) - 1)
           /\ \A c, d \in pool :
                Earlier(c, d, key) => Ahead(pool, key, c) < Ahead(pool, key, d)
<1> DEFINE before(c) == {d \in pool : Earlier(d, c, key)}
<1>1. \A c \in pool : c \notin before(c)
  BY EarlierOrder
<1>2. ASSUME NEW c \in pool, NEW S \in SUBSET pool, before(c) \subseteq S, c \in S
      PROVE  Ahead(pool, key, c) \in Nat /\ Cardinality(S) \in Nat
             /\ Ahead(pool, key, c) < Cardinality(S)
  <2>1. IsFiniteSet(S) /\ IsFiniteSet(before(c))
    BY FS_Subset
  <2>2. Cardinality(before(c)) <= Cardinality(S) /\ Cardinality(before(c)) # Cardinality(S)
    <3>1. before(c) # S
      BY <1>1, <1>2
    <3> HIDE DEF before
    <3> QED
      BY <1>2, <2>1, <3>1, FS_Subset
  <2>3. Cardinality(S) \in Nat /\ Cardinality(before(c)) \in Nat
    BY <2>1, FS_CardinalityType
  <2> QED
    BY <2>2, <2>3 DEF Ahead
<1>3. ASSUME NEW c \in pool PROVE Ahead(pool, key, c) \in 0..(Cardinality(pool) - 1)
  <2>1. before(c) \subseteq pool
    OBVIOUS
  <2>2. Ahead(pool, key, c) \in Nat /\ Cardinality(pool) \in Nat
        /\ Ahead(pool, key, c) < Cardinality(pool)
    BY <1>2, <2>1
  <2> QED
    BY <2>2
<1>4. ASSUME NEW c \in pool, NEW d \in pool, Earlier(c, d, key)
      PROVE  Ahead(pool, key, c) < Ahead(pool, key, d)
  <2>1. before(c) \subseteq before(d) /\ c \in before(d)
    BY <1>4, EarlierOrder
  <2>2. Ahead(pool, key, d) = Cardinality(before(d)) /\ before(d) \in SUBSET pool
    BY DEF Ahead
  <2> HIDE DEF before
  <2> QED
    BY <1>2, <2>1, <2>2
<1> QED
  BY <1>3, <1>4
-----------------------------------------------------------------------------
(* min, max and sorted *)

\* min and max return an element of the pool, and one that no other comes before.
THEOREM BestIsFirst ==
    ASSUME NEW pool \in SUBSET Nat, IsFiniteSet(pool), pool # {},
           NEW key, Comparable(pool, key)
    PROVE  /\ Best(pool, key) \in pool
           /\ \A d \in pool \ {Best(pool, key)} : Earlier(Best(pool, key), d, key)
<1> DEFINE places == {Ahead(pool, key, c) : c \in pool}
<1>1. Cardinality(pool) \in Nat
  BY FS_CardinalityType
<1>2. places \in SUBSET Nat /\ places # {}
  <2>1. \A c \in pool : Ahead(pool, key, c) \in 0..(Cardinality(pool) - 1)
    BY AheadOrder
  <2>2. \A c \in pool : Ahead(pool, key, c) \in Nat
    BY <1>1, <2>1
  <2> QED
    BY <2>2
<1>3. PICK x \in places : \A y \in places : x <= y
  <2> HIDE DEF places
  <2> QED
    BY <1>2, LeastNat
<1>4. PICK c \in pool : x = Ahead(pool, key, c)
  BY <1>3
<1>5. ASSUME NEW d \in pool \ {c} PROVE Earlier(c, d, key)
  <2>1. Earlier(c, d, key) \/ Earlier(d, c, key)
    BY EarlierOrder
  <2>2. ~(Ahead(pool, key, d) < Ahead(pool, key, c))
    <3>1. Ahead(pool, key, c) <= Ahead(pool, key, d)
      BY <1>3, <1>4
    <3>2. Ahead(pool, key, c) \in Nat /\ Ahead(pool, key, d) \in Nat
      BY <1>2
    <3> QED
      BY <3>1, <3>2
  <2> QED
    BY <2>1, <2>2, AheadOrder
<1> QED
  BY <1>5 DEF Best

\* Each place of the order is taken.
LEMMA PlaceIsTaken ==
    ASSUME NEW pool \in SUBSET Nat, IsFiniteSet(pool), NEW key, Comparable(pool, key)
    PROVE  \A i \in 1..Cardinality(pool) : \E c \in pool : 1 + Ahead(pool, key, c) = i
<1> DEFINE n == Cardinality(pool)
           place(c) == 1 + Ahead(pool, key, c)
           f == [c \in pool |-> place(c)]
<1>1. n \in Nat /\ IsFiniteSet(1..n) /\ Cardinality(1..n) = n
  BY FS_CardinalityType, FS_Interval
<1>2. \A c \in pool : place(c) \in 1..n
  BY <1>1, AheadOrder
<1>3. ASSUME NEW c \in pool, NEW d \in pool, place(c) = place(d) PROVE c = d
  <2>1. Ahead(pool, key, c) = Ahead(pool, key, d)
    BY <1>1, <1>3, AheadOrder
  <2>2. Ahead(pool, key, c) \in Int
    BY <1>1, AheadOrder
  <2>3. ~Earlier(c, d, key) /\ ~Earlier(d, c, key)
    BY <2>1, <2>2, AheadOrder
  <2> QED
    BY <2>3, EarlierOrder
<1>4. f \in Injection(pool, 1..n)
  BY <1>2, <1>3 DEF Injection, IsInjective
<1>5. f \in Surjection(pool, 1..n)
  <2> HIDE DEF f
  <2> QED
    BY <1>1, <1>4, FS_Injection
<1> QED
  BY <1>5 DEF Surjection

\* sorted returns each element of the pool, and each of them once.
THEOREM SortedIsPermutation ==
    ASSUME NEW pool \in SUBSET Nat, IsFiniteSet(pool), NEW key, Comparable(pool, key)
    PROVE  /\ Cardinality(pool) \in Nat
           /\ Sorted(pool, key) \in Seq(pool)
           /\ Len(Sorted(pool, key)) = Cardinality(pool)
           /\ \A c \in pool : \E i \in 1..Cardinality(pool) : Sorted(pool, key)[i] = c
           /\ \A i, j \in 1..Cardinality(pool) :
                Sorted(pool, key)[i] = Sorted(pool, key)[j] => i = j
<1> DEFINE n == Cardinality(pool)
           place(c) == 1 + Ahead(pool, key, c)
<1>1. n \in Nat
  BY FS_CardinalityType
<1>2. \A c \in pool : place(c) \in 1..n
  BY <1>1, AheadOrder
<1>3. ASSUME NEW c \in pool, NEW d \in pool, place(c) = place(d) PROVE c = d
  <2>1. Ahead(pool, key, c) = Ahead(pool, key, d)
    BY <1>1, <1>3, AheadOrder
  <2>2. Ahead(pool, key, c) \in Int
    BY <1>1, AheadOrder
  <2>3. ~Earlier(c, d, key) /\ ~Earlier(d, c, key)
    BY <2>1, <2>2, AheadOrder
  <2> QED
    BY <2>3, EarlierOrder
<1>6. \A i \in 1..n : \E c \in pool : place(c) = i
  BY PlaceIsTaken
<1> DEFINE s == Sorted(pool, key)
<1>7. s = [i \in 1..n |-> CHOOSE c \in pool : place(c) = i]
  BY DEF Sorted, Ahead
<1>8. \A i \in 1..n : s[i] \in pool /\ place(s[i]) = i
  <2>1. SUFFICES ASSUME NEW i \in 1..n PROVE s[i] \in pool /\ place(s[i]) = i
    OBVIOUS
  <2>2. s[i] = CHOOSE c \in pool : place(c) = i
    BY <1>7
  <2>3. \E c \in pool : place(c) = i
    BY <1>6
  <2> HIDE DEF place, s
  <2> QED
    BY <2>2, <2>3
<1>9. s \in [1..n -> pool] /\ s \in Seq(pool) /\ Len(s) = n
  <2>1. s \in [1..n -> pool]
    BY <1>7, <1>8
  <2> HIDE DEF s
  <2> QED
    BY <1>1, <2>1
<1>10. \A c \in pool : s[place(c)] = c
  <2> HIDE DEF place, s
  <2> QED
    BY <1>2, <1>3, <1>8
<1>11. \A i, j \in 1..n : s[i] = s[j] => i = j
  <2> HIDE DEF place, s
  <2> QED
    BY <1>8
<1> QED
  BY <1>1, <1>2, <1>9, <1>10, <1>11

\* sorted returns them in the order of their keys.
THEOREM SortedIsOrdered ==
    ASSUME NEW pool \in SUBSET Nat, IsFiniteSet(pool), NEW key, Comparable(pool, key)
    PROVE  \A i, j \in 1..Cardinality(pool) :
                i < j <=> Earlier(Sorted(pool, key)[i], Sorted(pool, key)[j], key)
<1> DEFINE n == Cardinality(pool)
           s == Sorted(pool, key)
           place(c) == 1 + Ahead(pool, key, c)
<1>1. n \in Nat /\ \A i \in 1..n : s[i] \in pool
  BY SortedIsPermutation
<1>2. \A c \in pool : place(c) \in 1..n
  BY <1>1, AheadOrder
<1>3. ASSUME NEW i \in 1..n PROVE place(s[i]) = i
  <2>1. s[i] = CHOOSE c \in pool : place(c) = i
    BY DEF Sorted, Ahead
  <2>2. \E c \in pool : place(c) = i
    BY <1>3, PlaceIsTaken
  <2> HIDE DEF place, s
  <2> QED
    BY <2>1, <2>2
<1>4. ASSUME NEW i \in 1..n, NEW j \in 1..n PROVE i < j <=> Earlier(s[i], s[j], key)
  <2>1. s[i] \in pool /\ s[j] \in pool /\ place(s[i]) = i /\ place(s[j]) = j
    BY <1>1, <1>3
  <2>2. /\ Earlier(s[i], s[j], key) => place(s[i]) < place(s[j])
        /\ Earlier(s[j], s[i], key) => place(s[j]) < place(s[i])
    <3>1. \A c \in pool : Ahead(pool, key, c) \in Int
      BY <1>1, AheadOrder
    <3>2. \A c, d \in pool : Earlier(c, d, key) => place(c) < place(d)
      BY <3>1, AheadOrder
    <3> HIDE DEF s, place
    <3> QED
      BY <2>1, <3>2
  <2>3. s[i] = s[j] \/ Earlier(s[i], s[j], key) \/ Earlier(s[j], s[i], key)
    BY <2>1, EarlierOrder
  <2> HIDE DEF s, place
  <2>4. s[i] = s[j] => i = j
    BY <2>1
  <2> QED
    BY <2>1, <2>2, <2>3, <2>4
<1> QED
  BY <1>4

LEMMA HeadOfSorted ==
    ASSUME NEW pool \in SUBSET Nat, IsFiniteSet(pool), pool # {},
           NEW key, Comparable(pool, key)
    PROVE  /\ Sorted(pool, key) \in Seq(pool) /\ Sorted(pool, key) # <<>>
           /\ Head(Sorted(pool, key)) \in pool
<1>1. Cardinality(pool) # 0
  BY FS_EmptySet
<1>2. Sorted(pool, key) \in Seq(pool) /\ Len(Sorted(pool, key)) # 0
  BY <1>1, SortedIsPermutation
<1> QED
  BY <1>2

LEMMA BeforeOne == ASSUME NEW a \in Int, NEW b \in Int PROVE Before(<<a>>, <<b>>) <=> a < b
<1>1. DOMAIN <<a>> = {1} /\ <<a>>[1] = a /\ <<b>>[1] = b
  OBVIOUS
<1>2. 1..(1 - 1) = {}
  OBVIOUS
<1> DEFINE k == <<a>>
           l == <<b>>
<1> HIDE DEF k, l
<1> QED
  BY <1>1, <1>2 DEF Before, k, l

\* What is at the kept places of s, in their order.
Keeps(t, s, kept) ==
    \E at \in [DOMAIN t -> kept] :
        /\ \A k \in DOMAIN t : t[k] = s[at[k]]
        /\ \A i \in kept : \E k \in DOMAIN t : at[k] = i
        /\ \A k, l \in DOMAIN t : k < l <=> at[k] < at[l]

\* A comprehension keeps the places it names and their order.
LEMMA FilteredIs ==
    ASSUME NEW S, NEW s \in Seq(S), NEW kept \in SUBSET DOMAIN s
    PROVE  /\ IsFiniteSet(kept) /\ Filtered(s, kept) \in Seq(S)
           /\ Keeps(Filtered(s, kept), s, kept)
<1> DEFINE key == [i \in kept |-> <<i>>]
           at == Sorted(kept, key)
           u == Filtered(s, kept)
<1>1. kept \in SUBSET Nat /\ IsFiniteSet(kept)
  <2>1. DOMAIN s = 1..Len(s) /\ Len(s) \in Nat
    OBVIOUS
  <2>2. IsFiniteSet(1..Len(s))
    BY <2>1, 1 \in Int, FS_Interval
  <2> QED
    BY <2>1, <2>2, FS_Subset
<1>2. Comparable(kept, key)
  <2>1. \A i \in kept : key[i] \in [1..1 -> Int]
    BY <1>1
  <2> HIDE DEF key
  <2> QED
    BY <2>1, 1 \in Nat DEF Comparable
<1>3. /\ at \in Seq(kept) /\ Len(at) = Cardinality(kept) /\ Cardinality(kept) \in Nat
      /\ \A i \in kept : \E k \in 1..Cardinality(kept) : at[k] = i
  <2> HIDE DEF key
  <2> QED
    BY <1>1, <1>2, SortedIsPermutation
<1>4. \A k, l \in 1..Cardinality(kept) : k < l <=> Earlier(at[k], at[l], key)
  <2> HIDE DEF key
  <2> QED
    BY <1>1, <1>2, SortedIsOrdered
<1>5. \A i, j \in kept : Earlier(i, j, key) <=> i < j
  <2>1. SUFFICES ASSUME NEW i \in kept, NEW j \in kept PROVE Earlier(i, j, key) <=> i < j
    OBVIOUS
  <2>2. key[i] = <<i>> /\ key[j] = <<j>>
    OBVIOUS
  <2>3. Before(<<i>>, <<j>>) <=> i < j
    BY <1>1, BeforeOne
  <2> QED
    BY <2>2, <2>3 DEF Earlier
<1>6. u = [k \in DOMAIN at |-> s[at[k]]]
  BY DEF Filtered
<1> HIDE DEF u, at, key
<1>7. DOMAIN at = 1..Len(at) /\ Len(at) \in Nat /\ \A k \in DOMAIN at : at[k] \in kept
  BY <1>3
<1>8. \A k \in DOMAIN at : s[at[k]] \in S
  BY <1>7
<1>9. u \in Seq(S) /\ DOMAIN u = DOMAIN at /\ \A k \in DOMAIN at : u[k] = s[at[k]]
  BY <1>6, <1>7, <1>8
<1>10. at \in [DOMAIN u -> kept]
  BY <1>3, <1>7, <1>9
<1>11. \A k, l \in DOMAIN at : k < l <=> at[k] < at[l]
  BY <1>3, <1>4, <1>5, <1>7
<1>12. \A i \in kept : \E k \in DOMAIN at : at[k] = i
  BY <1>3, <1>7
<1>13. Keeps(u, s, kept)
  BY <1>9, <1>10, <1>11, <1>12 DEF Keeps
<1> QED
  BY <1>1, <1>9, <1>13 DEF u

LEMMA LeastValue ==
    ASSUME NEW n \in Nat \ {0}, NEW f \in [1..n -> Int]
    PROVE  \E i \in 1..n : \A j \in 1..n : f[i] <= f[j]
<1> DEFINE key == [i \in 1..n |-> <<f[i]>>]
<1>1. 1..n \in SUBSET Nat /\ IsFiniteSet(1..n) /\ 1..n # {}
  <2>1. IsFiniteSet(1..n)
    BY 1 \in Int, n \in Int, FS_Interval
  <2>2. 1 \in 1..n
    OBVIOUS
  <2>3. 1..n \in SUBSET Nat /\ 1..n # {}
    BY <2>2
  <2> QED
    BY <2>1, <2>3
<1>2. Comparable(1..n, key)
  <2>1. \A i \in 1..n : key[i] \in [1..1 -> Int]
    OBVIOUS
  <2> HIDE DEF key
  <2> QED
    BY <2>1, 1 \in Nat DEF Comparable
<1>3. PICK i \in 1..n : \A j \in (1..n) \ {i} : Earlier(i, j, key)
  <2> HIDE DEF key
  <2> QED
    BY <1>1, <1>2, BestIsFirst
<1>4. ASSUME NEW j \in (1..n) \ {i} PROVE f[i] <= f[j]
  <2>1. Before(<<f[i]>>, <<f[j]>>) \/ <<f[i]>> = <<f[j]>>
    BY <1>3 DEF Earlier
  <2>2. f[i] < f[j] \/ f[i] = f[j]
    BY <2>1 DEF Before
  <2> QED
    BY <2>2
<1>5. \A j \in 1..n : f[i] <= f[j]
  <2>1. f[i] <= f[i]
    OBVIOUS
  <2> QED
    BY <1>4, <2>1
<1> QED
  BY <1>5

\* The least and the greatest of finitely many numbers.
LEMMA LeastAndMost ==
    ASSUME NEW S \in SUBSET Int, IsFiniteSet(S), S # {}
    PROVE  /\ LeastOf(S) \in S /\ \A y \in S : LeastOf(S) <= y
           /\ MostOf(S) \in S /\ \A y \in S : MostOf(S) >= y
<1>1. PICK n \in Nat : n = Cardinality(S)
  BY FS_CardinalityType
<1>2. PICK f : f \in Bijection(1..n, S)
  BY <1>1, FS_CardinalityType DEF ExistsBijection
<1>3. /\ f \in [1..n -> S]
      /\ \A y \in S : \E i \in 1..n : f[i] = y
  BY <1>2 DEF Bijection, Injection, Surjection
<1>4. n # 0
  BY <1>1, FS_EmptySet
<1> DEFINE g == [i \in 1..n |-> -f[i]]
<1>5. f \in [1..n -> Int] /\ g \in [1..n -> Int]
  <2>1. \A i \in 1..n : f[i] \in Int
    BY <1>3
  <2> QED
    BY <1>3, <2>1
<1>6. PICK i \in 1..n : \A j \in 1..n : f[i] <= f[j]
  BY <1>4, <1>5, LeastValue
<1>7. PICK h \in 1..n : \A j \in 1..n : g[h] <= g[j]
  <2> HIDE DEF g
  <2> QED
    BY <1>4, <1>5, LeastValue
<1>8. f[i] \in S /\ \A y \in S : f[i] <= y
  BY <1>3, <1>6
<1>9. f[h] \in S /\ \A y \in S : f[h] >= y
  <2>1. \A j \in 1..n : f[h] >= f[j]
    BY <1>5, <1>7
  <2> QED
    BY <1>3, <2>1
<1> QED
  BY <1>8, <1>9 DEF LeastOf, MostOf
-----------------------------------------------------------------------------
(* Remainders *)

\* A multiple of n that is less than n is nothing.
LEMMA Small ==
    ASSUME NEW n \in Nat \ {0}, NEW z \in Int, -n < n * z, n * z < n
    PROVE  z = 0
<1>1. ASSUME z >= 1 PROVE FALSE
  <2> DEFINE y == z - 1
  <2>1. y \in Nat /\ z = 1 + y
    BY <1>1
  <2> HIDE DEF y
  <2>2. n * y \in Nat
    BY <2>1
  <2>3. n * z = n + n * y
    BY <2>1
  <2> QED
    BY <2>2, <2>3
<1>2. ASSUME z <= -1 PROVE FALSE
  <2> DEFINE y == -1 - z
  <2>1. y \in Nat /\ z = -1 - y
    BY <1>2
  <2> HIDE DEF y
  <2>2. n * y \in Nat
    BY <2>1
  <2>3. n * z = -n - n * y
    BY <2>1
  <2> QED
    BY <2>2, <2>3
<1> QED
  BY <1>1, <1>2

LEMMA Rest ==
    ASSUME NEW n \in Nat \ {0}, NEW d \in Nat, NEW e \in 0..(n - 1)
    PROVE  (n * d + e) % n = e
<1> DEFINE a == n * d + e
           k == a \div n
           m == a % n
<1>0. a \in Nat /\ a = n * d + e
  OBVIOUS
<1> HIDE DEF a
<1>1. k \in Int /\ m \in 0..(n - 1) /\ a = n * k + m
  BY <1>0
<1> HIDE DEF k, m
<1>2. n * (k - d) = e - m
  BY <1>0, <1>1
<1>3. k - d = 0
  <2>1. -n < n * (k - d) /\ n * (k - d) < n /\ k - d \in Int
    BY <1>1, <1>2
  <2> QED
    BY <2>1, Small
<1>4. m = e
  BY <1>0, <1>1, <1>3
<1> QED
  BY <1>4 DEF m, a

\* Going around a ring of n from any place meets every place.
LEMMA Around ==
    ASSUME NEW n \in Nat \ {0}, NEW key \in Nat, NEW i \in 1..n
    PROVE  \E o \in 0..(n - 1) : 1 + ((key + o) % n) = i
<1> DEFINE d == key \div n
           r == key % n
           f == i - 1
<1>1. d \in Nat /\ r \in 0..(n - 1) /\ key = n * d + r
  OBVIOUS
<1>2. f \in 0..(n - 1) /\ i = 1 + f
  OBVIOUS
<1> HIDE DEF d, r, f
<1>3. CASE r <= f
  <2> DEFINE o == f - r
  <2>1. o \in 0..(n - 1) /\ key + o = n * d + f
    BY <1>1, <1>2, <1>3
  <2>2. (n * d + f) % n = f
    BY Zenon, <1>1, <1>2, Rest
  <2> HIDE DEF o
  <2> QED
    BY Zenon, <1>2, <2>1, <2>2
<1>4. CASE r > f
  <2> DEFINE o == n + f - r
             e == d + 1
  <2>1. e \in Nat /\ o \in 0..(n - 1) /\ key + o = n * e + f
    BY <1>1, <1>2, <1>4
  <2> HIDE DEF o, e
  <2>2. (n * e + f) % n = f
    BY Zenon, <1>2, <2>1, Rest
  <2> QED
    BY Zenon, <1>2, <2>1, <2>2
<1> QED
  BY <1>1, <1>2, <1>3, <1>4
-----------------------------------------------------------------------------
(* Sums over finite sets, as MapThenSumSet and FoldSeq of the community       *)
(* modules take them: an element is taken out, and what is left summed first. *)

Taken(S) == CHOOSE x \in S : TRUE

IsSum(g, f, S) ==
    g = [T \in SUBSET S |-> IF T = {} THEN 0 ELSE f[Taken(T)] + g[T \ {Taken(T)}]]

SumOf(f, S) == (CHOOSE g : IsSum(g, f, S))[S]

\* Induction on how many elements a subset has.
LEMMA Smaller ==
    ASSUME NEW S, IsFiniteSet(S), NEW T \in SUBSET S, NEW x \in T
    PROVE  /\ Cardinality(T) \in Nat /\ Cardinality(T \ {x}) \in Nat
           /\ Cardinality(T \ {x}) = Cardinality(T) - 1
           /\ IsFiniteSet(T)
<1>1. IsFiniteSet(T)
  BY FS_Subset
<1> QED
  BY <1>1, FS_RemoveElement, FS_CardinalityType

LEMMA LeastCounterexample ==
    ASSUME NEW S, IsFiniteSet(S), NEW Bad \in SUBSET (SUBSET S), Bad # {}
    PROVE  \E T \in Bad : \A R \in SUBSET T : R # T => R \notin Bad
<1> DEFINE sizes == {Cardinality(T) : T \in Bad}
<1>0. \A T \in SUBSET S : IsFiniteSet(T) /\ Cardinality(T) \in Nat
  BY FS_Subset, FS_CardinalityType
<1>1. sizes \in SUBSET Nat /\ sizes # {}
  BY <1>0
<1>2. PICK n \in sizes : \A m \in sizes : n <= m
  <2> HIDE DEF sizes
  <2> QED
    BY <1>1, LeastNat
<1>3. PICK T \in Bad : n = Cardinality(T)
  BY <1>2
<1>4. ASSUME NEW R \in SUBSET T, R # T, R \in Bad
      PROVE  FALSE
  <2>1. Cardinality(T) <= Cardinality(R)
    BY <1>2, <1>3, <1>4
  <2>2. Cardinality(R) <= Cardinality(T) /\ (Cardinality(R) = Cardinality(T) => R = T)
    BY <1>0, <1>4, FS_Subset
  <2>3. Cardinality(R) \in Nat /\ Cardinality(T) \in Nat
    BY <1>0, <1>4
  <2> QED
    BY <1>4, <2>1, <2>2, <2>3
<1> QED
  BY <1>4

\* There is a sum: the values for subsets with one element more follow.
LEMMA SumExists ==
    ASSUME NEW S, IsFiniteSet(S), NEW f, \A x \in S : f[x] \in Int
    PROVE  \E g : IsSum(g, f, S)
<1> DEFINE upto(n) == {T \in SUBSET S : Cardinality(T) <= n}
           value(g, T) == IF T = {} THEN 0 ELSE f[Taken(T)] + g[T \ {Taken(T)}]
           good(n) == \E g \in [upto(n) -> Int] : \A T \in upto(n) : g[T] = value(g, T)
<1>0. \A T \in SUBSET S : T # {} => Taken(T) \in T
  BY DEF Taken
<1>1. good(0)
  <2>1. \A T \in upto(0) : T = {}
    BY FS_Subset, FS_CardinalityType, FS_EmptySet
  <2> DEFINE g == [T \in upto(0) |-> 0]
  <2>2. g \in [upto(0) -> Int] /\ \A T \in upto(0) : g[T] = 0
    BY 0 \in Int
  <2> HIDE DEF g
  <2> QED
    BY <2>1, <2>2
<1>2. ASSUME NEW n \in Nat, good(n)
      PROVE  good(n + 1)
  <2>1. PICK g \in [upto(n) -> Int] : \A T \in upto(n) : g[T] = value(g, T)
    BY <1>2
  <2> DEFINE h == [T \in upto(n + 1) |-> value(g, T)]
  <2>2. ASSUME NEW T \in upto(n + 1), T # {}
        PROVE  T \ {Taken(T)} \in upto(n) /\ f[Taken(T)] \in Int
    BY <1>0, <2>2, Smaller
  <2>3. h \in [upto(n + 1) -> Int]
    <3>1. \A T \in upto(n + 1) : value(g, T) \in Int
      BY <2>2
    <3> QED
      BY <3>1
  <2>4. \A T \in upto(n) : T \in upto(n + 1) /\ h[T] = g[T]
    <3>1. \A T \in upto(n) : T \in upto(n + 1)
      BY FS_Subset, FS_CardinalityType
    <3> QED
      BY <2>1, <3>1
  <2>5. ASSUME NEW T \in upto(n + 1)
        PROVE  h[T] = value(h, T)
    <3>1. h[T] = value(g, T)
      OBVIOUS
    <3>2. T # {} => h[T \ {Taken(T)}] = g[T \ {Taken(T)}]
      BY <2>2, <2>4
    <3> HIDE DEF h
    <3> QED
      BY <3>1, <3>2
  <2> HIDE DEF h
  <2> QED
    BY <2>3, <2>5
<1>3. \A n \in Nat : good(n)
  <2> DEFINE bad == {n \in Nat : ~good(n)}
  <2> HIDE DEF good
  <2> SUFFICES ASSUME bad # {} PROVE FALSE
    OBVIOUS
  <2>1. PICK n \in bad : \A m \in bad : n <= m
    <3>1. bad \in SUBSET Nat
      OBVIOUS
    <3> HIDE DEF bad
    <3> QED
      BY <3>1, LeastNat
  <2>2. n # 0
    BY <1>1, <2>1
  <2>3. n - 1 \in Nat /\ n - 1 \notin bad
    BY <2>1, <2>2
  <2> QED
    BY <1>2, <2>1, <2>3
<1>4. Cardinality(S) \in Nat /\ upto(Cardinality(S)) = SUBSET S
  BY FS_Subset, FS_CardinalityType
<1>5. PICK g \in [SUBSET S -> Int] : \A T \in SUBSET S : g[T] = value(g, T)
  BY <1>3, <1>4
<1>6. g = [T \in SUBSET S |-> value(g, T)]
  BY <1>5
<1> QED
  BY <1>6 DEF IsSum

LEMMA SumValues ==
    ASSUME NEW S, IsFiniteSet(S), NEW f, \A x \in S : f[x] \in Int, NEW g, IsSum(g, f, S)
    PROVE  /\ g[{}] = 0
           /\ \A T \in SUBSET S : g[T] \in Int
           /\ \A T \in SUBSET S : \A x \in T : g[T] = f[x] + g[T \ {x}]
<1>0. \A T \in SUBSET S : T # {} => Taken(T) \in T
  BY DEF Taken
<1>1. \A T \in SUBSET S :
        g[T] = IF T = {} THEN 0 ELSE f[Taken(T)] + g[T \ {Taken(T)}]
  BY DEF IsSum
<1>2. \A T \in SUBSET S : g[T] \in Int
  <2> DEFINE Bad == {T \in SUBSET S : g[T] \notin Int}
  <2>0. Bad \in SUBSET (SUBSET S)
    OBVIOUS
  <2>1. SUFFICES ASSUME Bad # {} PROVE FALSE
    OBVIOUS
  <2>2. PICK T \in Bad : \A R \in SUBSET T : R # T => R \notin Bad
    <3> HIDE DEF Bad
    <3> QED
      BY <2>0, <2>1, LeastCounterexample
  <2>3. /\ T \in SUBSET S /\ g[T] \notin Int
        /\ \A R \in SUBSET T : R # T => g[R] \in Int
    BY <2>2
  <2> HIDE DEF Bad
  <2>4. CASE T = {}
    BY <1>1, <2>3, <2>4
  <2>5. CASE T # {}
    <3>1. Taken(T) \in T /\ f[Taken(T)] \in Int
      BY <1>0, <2>3, <2>5
    <3>2. g[T \ {Taken(T)}] \in Int
      BY <2>3, <3>1
    <3>3. g[T] = f[Taken(T)] + g[T \ {Taken(T)}]
      BY <1>1, <2>3, <2>5
    <3> QED
      BY <2>3, <3>1, <3>2, <3>3
  <2> QED
    BY <2>4, <2>5
<1>3. \A T \in SUBSET S : \A x \in T : g[T] = f[x] + g[T \ {x}]
  <2> DEFINE takes(T) == \A x \in T : g[T] = f[x] + g[T \ {x}]
             Bad == {T \in SUBSET S : ~takes(T)}
  <2>0. Bad \in SUBSET (SUBSET S)
    OBVIOUS
  <2>1. SUFFICES ASSUME Bad # {} PROVE FALSE
    BY Zenon
  <2>2. PICK T \in SUBSET S : ~takes(T) /\ \A R \in SUBSET T : R # T => takes(R)
    <3>1. PICK T \in Bad : \A R \in SUBSET T : R # T => R \notin Bad
      <4> HIDE DEF Bad
      <4> QED
        BY <2>0, <2>1, LeastCounterexample
    <3> HIDE DEF takes
    <3> QED
      BY <3>1
  <2>3. PICK x \in T : g[T] # f[x] + g[T \ {x}]
    BY <2>2
  <2> DEFINE y == Taken(T)
             rest == (T \ {x}) \ {y}
  <2>4. y \in T /\ g[T] = f[y] + g[T \ {y}] /\ x # y
    BY <1>0, <1>1, <2>2, <2>3
  <2> HIDE DEF y
  <2>5. rest = (T \ {y}) \ {x}
    OBVIOUS
  <2>6. g[T \ {y}] = f[x] + g[rest]
    <3>1. T \ {y} \in SUBSET T /\ T \ {y} # T /\ T \ {y} \in SUBSET S /\ x \in T \ {y}
      BY <2>2, <2>4
    <3>2. takes(T \ {y})
      BY <2>2, <3>1
    <3> HIDE DEF rest
    <3> QED
      BY <2>5, <3>1, <3>2
  <2>7. g[T \ {x}] = f[y] + g[rest]
    <3>1. T \ {x} \in SUBSET T /\ T \ {x} # T /\ T \ {x} \in SUBSET S /\ y \in T \ {x}
      BY <2>2, <2>4
    <3>2. takes(T \ {x})
      BY <2>2, <3>1
    <3> QED
      BY <3>1, <3>2
  <2>8. f[x] \in Int /\ f[y] \in Int /\ g[rest] \in Int
    BY <1>2, <2>2, <2>4
  <2> HIDE DEF rest, takes
  <2> QED
    BY <2>3, <2>4, <2>6, <2>7, <2>8
<1>4. g[{}] = 0
  BY <1>1
<1> QED
  BY <1>2, <1>3, <1>4

\* Two sums agree on what both are about if what they add up does.
LEMMA SumsAgree ==
    ASSUME NEW S, IsFiniteSet(S), NEW f, \A x \in S : f[x] \in Int, NEW g, IsSum(g, f, S),
           NEW R, IsFiniteSet(R), NEW e, \A x \in R : e[x] \in Int, NEW h, IsSum(h, e, R),
           NEW U \in SUBSET (S \cap R), \A x \in U : f[x] = e[x]
    PROVE  g[U] = h[U]
<1> DEFINE Bad == {T \in SUBSET U : g[T] # h[T]}
<1>0. IsFiniteSet(U)
  BY FS_Subset
<1>1. SUFFICES ASSUME Bad # {} PROVE FALSE
  OBVIOUS
<1>2. Bad \in SUBSET (SUBSET U)
  OBVIOUS
<1>3. PICK T \in Bad : \A Q \in SUBSET T : Q # T => Q \notin Bad
  <2> HIDE DEF Bad
  <2> QED
    BY <1>0, <1>1, <1>2, LeastCounterexample
<1>4. /\ T \in SUBSET U /\ g[T] # h[T]
      /\ \A Q \in SUBSET T : Q # T => g[Q] = h[Q]
  BY <1>3
<1> HIDE DEF Bad
<1>5. g[{}] = 0 /\ h[{}] = 0
  BY SumValues
<1>6. PICK x \in T : TRUE
  BY <1>4, <1>5
<1>7. T \in SUBSET S /\ T \in SUBSET R
  BY <1>4
<1>8. g[T] = f[x] + g[T \ {x}]
  BY <1>7, SumValues
<1>9. h[T] = e[x] + h[T \ {x}]
  BY <1>7, SumValues
<1>10. f[x] = e[x] /\ g[T \ {x}] = h[T \ {x}]
  BY <1>4
<1> QED
  BY <1>4, <1>8, <1>9, <1>10

\* Whatever a fold computes for a set is the sum.
LEMMA SumIs ==
    ASSUME NEW S, IsFiniteSet(S), NEW f, \A x \in S : f[x] \in Int
    PROVE  /\ \A g : IsSum(g, f, S) => g[S] = SumOf(f, S)
           /\ IsSum(CHOOSE g : IsSum(g, f, S), f, S)
<1> DEFINE c == CHOOSE g : IsSum(g, f, S)
<1>1. IsSum(c, f, S)
  BY SumExists
<1>2. SumOf(f, S) = c[S]
  BY DEF SumOf
<1> HIDE DEF c
<1>3. ASSUME NEW g, IsSum(g, f, S)
      PROVE  g[S] = c[S]
  BY <1>1, <1>3, SumsAgree
<1> QED
  BY <1>1, <1>2, <1>3 DEF c

LEMMA SumOfNothing ==
    ASSUME NEW f
    PROVE  SumOf(f, {}) = 0
  BY SumIs, SumValues, FS_EmptySet DEF SumOf

\* An element can be taken out first, whichever it is.
LEMMA SumTakes ==
    ASSUME NEW S, IsFiniteSet(S), NEW f, \A x \in S : f[x] \in Int
    PROVE  /\ SumOf(f, S) \in Int
           /\ \A x \in S : /\ SumOf(f, S \ {x}) \in Int
                           /\ SumOf(f, S) = f[x] + SumOf(f, S \ {x})
<1>1. PICK g : IsSum(g, f, S) /\ g[S] = SumOf(f, S)
  BY SumIs
<1>2. /\ \A T \in SUBSET S : g[T] \in Int
      /\ \A T \in SUBSET S : \A x \in T : g[T] = f[x] + g[T \ {x}]
  BY <1>1, SumValues
<1>3. SumOf(f, S) \in Int
  BY <1>1, <1>2
<1>4. ASSUME NEW x \in S
      PROVE  SumOf(f, S \ {x}) \in Int /\ SumOf(f, S) = f[x] + SumOf(f, S \ {x})
  <2>1. IsFiniteSet(S \ {x})
    BY FS_Subset
  <2>2. PICK h : IsSum(h, f, S \ {x}) /\ h[S \ {x}] = SumOf(f, S \ {x})
    BY <2>1, SumIs
  <2>3. g[S \ {x}] = h[S \ {x}]
    BY <1>1, <2>1, <2>2, SumsAgree
  <2>4. S \in SUBSET S /\ S \ {x} \in SUBSET S
    OBVIOUS
  <2>5. g[S] = f[x] + g[S \ {x}] /\ g[S \ {x}] \in Int
    BY <1>2, <2>4
  <2> QED
    BY <1>1, <2>2, <2>3, <2>5
<1> QED
  BY <1>3, <1>4

\* What is added up for no element less is no less.
LEMMA SumMonotone ==
    ASSUME NEW S, IsFiniteSet(S), NEW f, \A x \in S : f[x] \in Int,
           NEW h, \A x \in S : h[x] \in Int, \A x \in S : f[x] <= h[x]
    PROVE  SumOf(f, S) <= SumOf(h, S)
<1> DEFINE Bad == {T \in SUBSET S : ~(SumOf(f, T) <= SumOf(h, T))}
<1>1. SUFFICES ASSUME Bad # {} PROVE FALSE
  OBVIOUS
<1>2. Bad \in SUBSET (SUBSET S)
  OBVIOUS
<1>3. PICK T \in Bad : \A R \in SUBSET T : R # T => R \notin Bad
  <2> HIDE DEF Bad
  <2> QED
    BY <1>1, <1>2, LeastCounterexample
<1>4. /\ T \in SUBSET S /\ ~(SumOf(f, T) <= SumOf(h, T))
      /\ \A R \in SUBSET T : R # T => SumOf(f, R) <= SumOf(h, R)
  BY <1>3
<1> HIDE DEF Bad
<1>5. SumOf(f, {}) = 0 /\ SumOf(h, {}) = 0
  BY SumOfNothing
<1>6. PICK x \in T : TRUE
  <2>1. T # {}
    <3> SUFFICES ASSUME T = {} PROVE FALSE
      OBVIOUS
    <3>1. SumOf(f, T) = 0 /\ SumOf(h, T) = 0
      BY <1>5
    <3> QED
      BY <1>4, <3>1
  <2> QED
    BY <2>1
<1>7. IsFiniteSet(T) /\ f[x] \in Int /\ h[x] \in Int /\ f[x] <= h[x]
  BY <1>4, FS_Subset
<1>8. SumOf(f, T) = f[x] + SumOf(f, T \ {x}) /\ SumOf(f, T \ {x}) \in Int
  BY <1>4, <1>7, SumTakes
<1>9. SumOf(h, T) = h[x] + SumOf(h, T \ {x}) /\ SumOf(h, T \ {x}) \in Int
  BY <1>4, <1>7, SumTakes
<1>10. SumOf(f, T \ {x}) <= SumOf(h, T \ {x})
  BY <1>4
<1> QED
  BY <1>4, <1>7, <1>8, <1>9, <1>10

LEMMA SumSame ==
    ASSUME NEW S, IsFiniteSet(S), NEW f, \A x \in S : f[x] \in Int,
           NEW h, \A x \in S : h[x] = f[x]
    PROVE  SumOf(f, S) = SumOf(h, S)
<1>1. PICK g : IsSum(g, f, S) /\ g[S] = SumOf(f, S)
  BY SumIs
<1>2. PICK e : IsSum(e, h, S) /\ e[S] = SumOf(h, S)
  BY SumIs
<1> QED
  BY <1>1, <1>2, SumsAgree

\* Where what is added up changes for one element only, the sum changes by as much.
LEMMA SumChanges ==
    ASSUME NEW S, IsFiniteSet(S), NEW f, \A x \in S : f[x] \in Int,
           NEW h, \A x \in S : h[x] \in Int,
           NEW x \in S, \A y \in S \ {x} : h[y] = f[y]
    PROVE  SumOf(h, S) = SumOf(f, S) - f[x] + h[x]
<1>1. IsFiniteSet(S \ {x})
  BY FS_Subset
<1>2. SumOf(f, S \ {x}) = SumOf(h, S \ {x})
  BY <1>1, SumSame
<1> QED
  BY <1>2, SumTakes

LEMMA SumNat ==
    ASSUME NEW S, IsFiniteSet(S), NEW f, \A x \in S : f[x] \in Nat
    PROVE  SumOf(f, S) \in Nat
<1> DEFINE Bad == {T \in SUBSET S : SumOf(f, T) \notin Nat}
<1>1. SUFFICES ASSUME Bad # {} PROVE FALSE
  OBVIOUS
<1>2. Bad \in SUBSET (SUBSET S)
  OBVIOUS
<1>3. PICK T \in Bad : \A R \in SUBSET T : R # T => R \notin Bad
  <2> HIDE DEF Bad
  <2> QED
    BY <1>1, <1>2, LeastCounterexample
<1>4. /\ T \in SUBSET S /\ SumOf(f, T) \notin Nat
      /\ \A R \in SUBSET T : R # T => SumOf(f, R) \in Nat
  BY <1>3
<1> HIDE DEF Bad
<1>5. CASE T = {}
  <2>1. SumOf(f, T) = 0
    BY <1>5, SumOfNothing
  <2> QED
    BY <1>4, <2>1
<1>6. CASE T # {}
  <2>1. PICK x \in T : TRUE
    BY <1>6
  <2>2. IsFiniteSet(T) /\ f[x] \in Nat /\ \A y \in T : f[y] \in Int
    BY <1>4, FS_Subset
  <2>3. SumOf(f, T) = f[x] + SumOf(f, T \ {x})
    BY <2>2, SumTakes
  <2>4. SumOf(f, T \ {x}) \in Nat
    BY <1>4
  <2> QED
    BY <1>4, <2>2, <2>3, <2>4
<1> QED
  BY <1>5, <1>6

LEMMA OfTheMean ==
    ASSUME NEW n \in Int, NEW all \in Int, NEW x \in Int, NEW rest \in Int, all = x + rest
    PROVE  /\ n * rest <= (n - 1) * (all + n) => all - n * (n - 1) <= n * x
           /\ (-n) * rest <= (n - 1) * (-all) => n * x <= all
<1>1. n * all = n * x + n * rest /\ (-n) * rest = -(n * rest)
  OBVIOUS
<1>2. (n - 1) * (all + n) = n * all - all + n * (n - 1) /\ (n - 1) * (-all) = all - n * all
  OBVIOUS
<1>3. n * x \in Int /\ n * rest \in Int /\ n * (n - 1) \in Int /\ n * all \in Int
  OBVIOUS
<1> QED
  BY <1>1, <1>2, <1>3

\* None is above the mean: then the sum is not above as many means.
LEMMA SumAtMost ==
    ASSUME NEW S, IsFiniteSet(S), NEW f, \A x \in S : f[x] \in Int,
           NEW n \in Int, NEW b \in Int, \A x \in S : n * f[x] <= b
    PROVE  n * SumOf(f, S) <= Cardinality(S) * b
<1> DEFINE Bad == {T \in SUBSET S : ~(n * SumOf(f, T) <= Cardinality(T) * b)}
<1>1. SUFFICES ASSUME Bad # {} PROVE FALSE
  OBVIOUS
<1>2. Bad \in SUBSET (SUBSET S)
  OBVIOUS
<1>3. PICK T \in Bad : \A R \in SUBSET T : R # T => R \notin Bad
  <2> HIDE DEF Bad
  <2> QED
    BY <1>1, <1>2, LeastCounterexample
<1>4. /\ T \in SUBSET S /\ ~(n * SumOf(f, T) <= Cardinality(T) * b)
      /\ \A R \in SUBSET T : R # T => n * SumOf(f, R) <= Cardinality(R) * b
  BY <1>3
<1> HIDE DEF Bad
<1>5. CASE T = {}
  <2>1. SumOf(f, T) = 0 /\ Cardinality(T) = 0
    BY <1>5, SumOfNothing, FS_EmptySet
  <2> QED
    BY <1>4, <2>1
<1>6. CASE T # {}
  <2>1. PICK x \in T : TRUE
    BY <1>6
  <2> DEFINE rest == SumOf(f, T \ {x})
             k == Cardinality(T \ {x})
  <2>2. IsFiniteSet(T) /\ f[x] \in Int /\ n * f[x] <= b /\ \A y \in T : f[y] \in Int
    BY <1>4, FS_Subset
  <2>3. SumOf(f, T) = f[x] + rest /\ rest \in Int
    BY <2>2, SumTakes
  <2>4. k \in Nat /\ Cardinality(T) = k + 1
    BY <1>4, Smaller
  <2>5. n * rest <= k * b
    BY <1>4
  <2> HIDE DEF rest, k
  <2>6. n * SumOf(f, T) = n * f[x] + n * rest /\ Cardinality(T) * b = k * b + b
    BY <2>2, <2>3, <2>4
  <2>7. n * f[x] \in Int /\ n * rest \in Int /\ k * b \in Int
    BY <2>2, <2>3, <2>4
  <2> QED
    BY <1>4, <2>2, <2>5, <2>6, <2>7
<1> QED
  BY <1>5, <1>6

\* A part of the elements adds up to no more than all of them.
LEMMA SumPart ==
    ASSUME NEW S, IsFiniteSet(S), NEW f, \A x \in S : f[x] \in Nat, NEW U \in SUBSET S
    PROVE  SumOf(f, U) <= SumOf(f, S)
<1> DEFINE Bad == {T \in SUBSET S : U \subseteq T /\ ~(SumOf(f, U) <= SumOf(f, T))}
<1>1. SUFFICES ASSUME Bad # {} PROVE FALSE
  OBVIOUS
<1>2. Bad \in SUBSET (SUBSET S)
  OBVIOUS
<1>3. PICK T \in Bad : \A R \in SUBSET T : R # T => R \notin Bad
  <2> HIDE DEF Bad
  <2> QED
    BY <1>1, <1>2, LeastCounterexample
<1>4. /\ T \in SUBSET S /\ U \subseteq T /\ ~(SumOf(f, U) <= SumOf(f, T))
      /\ \A R \in SUBSET T : R # T /\ U \subseteq R => SumOf(f, U) <= SumOf(f, R)
  BY <1>3
<1> HIDE DEF Bad
<1>5. IsFiniteSet(T) /\ IsFiniteSet(U) /\ SumOf(f, U) \in Nat /\ SumOf(f, T) \in Nat
  BY <1>4, FS_Subset, SumNat
<1>6. U # T
  <2>1. SumOf(f, T) <= SumOf(f, T)
    BY <1>5
  <2> QED
    BY <1>4, <2>1
<1>7. PICK x \in T : x \notin U
  BY <1>4, <1>6
<1>8. /\ f[x] \in Nat /\ \A y \in T : f[y] \in Int
  BY <1>4
<1>9. SumOf(f, T) = f[x] + SumOf(f, T \ {x}) /\ SumOf(f, T \ {x}) \in Int
  BY <1>5, <1>8, SumTakes
<1>10. SumOf(f, U) <= SumOf(f, T \ {x})
  BY <1>4, <1>7
<1> QED
  BY <1>4, <1>5, <1>8, <1>9, <1>10

\* It does not matter what the elements are called.
Renames(b, S, R) ==
    /\ \A x \in S : b[x] \in R
    /\ \A y \in R : \E x \in S : y = b[x]
    /\ \A x, y \in S : b[x] = b[y] => x = y

LEMMA SumMoves ==
    ASSUME NEW S, IsFiniteSet(S), NEW R, IsFiniteSet(R), NEW b, Renames(b, S, R),
           NEW f, \A y \in R : f[y] \in Int, NEW e, \A x \in S : e[x] = f[b[x]]
    PROVE  SumOf(e, S) = SumOf(f, R)
<1> USE DEF Renames
<1> DEFINE image(T) == {b[x] : x \in T}
           Bad == {T \in SUBSET S : SumOf(e, T) # SumOf(f, image(T))}
<1>1. SUFFICES ASSUME Bad # {} PROVE FALSE
  <2>1. image(S) = R
    OBVIOUS
  <2> HIDE DEF image
  <2> QED
    BY <2>1
<1>2. Bad \in SUBSET (SUBSET S)
  OBVIOUS
<1>3. PICK T \in Bad : \A U \in SUBSET T : U # T => U \notin Bad
  <2> HIDE DEF Bad
  <2> QED
    BY <1>1, <1>2, LeastCounterexample
<1>4. /\ T \in SUBSET S /\ SumOf(e, T) # SumOf(f, image(T))
      /\ \A U \in SUBSET T : U # T => SumOf(e, U) = SumOf(f, image(U))
  BY <1>3
<1> HIDE DEF Bad
<1>5. T # {}
  <2> SUFFICES ASSUME T = {} PROVE FALSE
    OBVIOUS
  <2>1. image(T) = {}
    OBVIOUS
  <2>2. SumOf(e, {}) = 0 /\ SumOf(f, {}) = 0
    BY SumOfNothing
  <2> HIDE DEF image
  <2> QED
    BY <1>4, <2>1, <2>2
<1>6. PICK x \in T : TRUE
  BY <1>5
<1>7. /\ IsFiniteSet(T) /\ \A y \in T : e[y] \in Int
      /\ e[x] = f[b[x]] /\ b[x] \in image(T)
  BY <1>4, FS_Subset
<1>8. /\ IsFiniteSet(image(T)) /\ \A y \in image(T) : f[y] \in Int
      /\ image(T \ {x}) = image(T) \ {b[x]}
  <2>1. image(T) \in SUBSET R
    BY <1>4
  <2>2. image(T \ {x}) = image(T) \ {b[x]}
    BY <1>4
  <2> HIDE DEF image
  <2> QED
    BY <2>1, <2>2, FS_Subset
<1> HIDE DEF image
<1>9. SumOf(e, T) = e[x] + SumOf(e, T \ {x})
  BY <1>7, SumTakes
<1>10. SumOf(f, image(T)) = f[b[x]] + SumOf(f, image(T) \ {b[x]})
  BY <1>7, <1>8, SumTakes
<1>11. SumOf(e, T \ {x}) = SumOf(f, image(T \ {x}))
  BY <1>4
<1> QED
  BY <1>4, <1>7, <1>8, <1>9, <1>10, <1>11
===============================================================================
