-------------------------- MODULE TokenBucketProofs ---------------------------
(***************************************************************************)
(* Theorems about TokenBucket, for every capacity, cost and set of         *)
(* subjects, when one thread calls the limiter.                            *)
(***************************************************************************)
EXTENDS TokenBucket, TLAPS

OneThread == \A t, u \in Threads : t = u

USE BucketAssumption DEF NoStamp

LEMMA Level ==
    ASSUME TypeOK, NEW s \in Subjects, NEW now \in Nat
    PROVE  /\ Refilled(s, now) \in 0..Capacity
           /\ updated[s] <= now =>
                \/ Refilled(s, now) = Capacity /\ tokens[s] + (now - updated[s]) >= Capacity
                \/ Refilled(s, now) = tokens[s] + (now - updated[s])
  BY DEF TypeOK, Refilled

LEMMA TypeInit == Init => TypeOK
<1> SUFFICES ASSUME Init PROVE TypeOK
  OBVIOUS
<1>1. clock \in 0..Horizon /\ mark \in 0..clock
  BY DEF Init
<1>2. tokens \in [Subjects -> 0..Capacity] /\ taken \in [Subjects -> Nat]
  BY DEF Init
<1>3. updated \in [Subjects -> 0..clock]
  BY DEF Init
<1>4. stamp \in [Threads -> NoStamp..clock]
  <2>1. -1 \in -1..0
    OBVIOUS
  <2> QED
    BY <2>1 DEF Init
<1> QED
  BY <1>1, <1>2, <1>3, <1>4 DEF TypeOK

LEMMA SettledType ==
    ASSUME TypeOK, NEW t \in Threads, NEW s \in Subjects, NEW level \in 0..Capacity,
           stamp[t] # NoStamp, Settle(t, s, level), taken' \in [Subjects -> Nat]
    PROVE  TypeOK'
<1>1. stamp[t] \in 0..clock /\ -1 \in -1..clock
  BY DEF TypeOK
<1>2. tokens' \in [Subjects -> 0..Capacity]
  BY DEF TypeOK, Settle
<1>3. updated' \in [Subjects -> 0..clock]
  BY <1>1 DEF TypeOK, Settle
<1>4. stamp' \in [Threads -> -1..clock]
  BY <1>1 DEF TypeOK, Settle
<1> QED
  BY <1>2, <1>3, <1>4 DEF TypeOK, Settle

LEMMA TypeStep ==
    ASSUME TypeOK, [Next]_vars
    PROVE  TypeOK'
<1>1. ASSUME NEW t \in Threads, ReadClock(t)
      PROVE  TypeOK'
  BY <1>1 DEF TypeOK, ReadClock
<1>2. ASSUME NEW t \in Threads, NEW s \in Subjects, Admit(t, s)
      PROVE  TypeOK'
  <2>1. stamp[t] \in Nat
    BY <1>2 DEF TypeOK, Admit
  <2>2. Refilled(s, stamp[t]) \in 0..Capacity
    BY <2>1, Level
  <2>3. Refilled(s, stamp[t]) - Cost \in 0..Capacity
    BY <1>2, <2>2 DEF Admit
  <2>4. taken' \in [Subjects -> Nat]
    BY <1>2 DEF TypeOK, Admit
  <2> QED
    BY <1>2, <2>3, <2>4, SettledType DEF Admit
<1>3. ASSUME NEW t \in Threads, NEW s \in Subjects, Refresh(t, s)
      PROVE  TypeOK'
  <2>1. stamp[t] \in Nat
    BY <1>3 DEF TypeOK, Refresh
  <2> QED
    BY <1>3, <2>1, Level, SettledType DEF Refresh, TypeOK
<1>4. CASE Tick
  BY <1>4 DEF TypeOK, Tick
<1>5. CASE Mark
  BY <1>5 DEF TypeOK, Mark
<1>6. CASE UNCHANGED vars
  BY <1>6 DEF TypeOK, vars
<1> QED
  BY <1>1, <1>2, <1>3, <1>4, <1>5, <1>6 DEF Next

\* A bucket holds between nothing and its capacity, and no bucket was touched,
\* nor any clock read, in the future.
THEOREM TypeCorrect == Spec => []TypeOK
  BY TypeInit, TypeStep, PTL DEF Spec
-----------------------------------------------------------------------------
(* The inductive invariant: a clock that was read is not behind any bucket *)
(* nor behind the mark, and the bucket keeps account of what the subject   *)
(* took and of what it let pass.                                           *)

StampsAreRecent ==
    \A t \in Threads : stamp[t] # NoStamp =>
        stamp[t] >= mark /\ \A s \in Subjects : stamp[t] >= updated[s]

Balance(s) ==
    /\ taken[s] # 0 =>
        updated[s] >= mark /\ taken[s] + tokens[s] <= Capacity + (updated[s] - mark)
    /\ taken[s] = 0 /\ updated[s] >= mark =>
        tokens[s] = Capacity \/ tokens[s] >= updated[s] - mark

BucketInv == TypeOK /\ StampsAreRecent /\ \A s \in Subjects : Balance(s)

LEMMA BucketInit == Init => BucketInv
  BY TypeInit DEF Init, BucketInv, StampsAreRecent, Balance

LEMMA SettledStamps ==
    ASSUME OneThread, BucketInv, NEW t \in Threads, NEW s \in Subjects, NEW level \in Int,
           stamp[t] # NoStamp, Settle(t, s, level)
    PROVE  StampsAreRecent'
  BY DEF OneThread, BucketInv, TypeOK, Settle, StampsAreRecent

LEMMA OthersKeepBalance ==
    ASSUME BucketInv, NEW t \in Threads, NEW s \in Subjects, NEW level \in Int,
           Settle(t, s, level), NEW q \in Subjects, q # s, taken'[q] = taken[q]
    PROVE  Balance(q)'
  BY DEF BucketInv, TypeOK, Settle, Balance

LEMMA BucketStep ==
    ASSUME OneThread, BucketInv, [Next]_vars
    PROVE  BucketInv'
<1>0. TypeOK /\ TypeOK'
  BY TypeStep DEF BucketInv
<1>1. ASSUME NEW t \in Threads, ReadClock(t)
      PROVE  BucketInv'
  <2>1. StampsAreRecent'
    BY <1>0, <1>1 DEF ReadClock, BucketInv, StampsAreRecent, TypeOK
  <2>2. \A s \in Subjects : Balance(s)'
    BY <1>1 DEF ReadClock, BucketInv, Balance
  <2> QED
    BY <1>0, <2>1, <2>2 DEF BucketInv
<1>2. ASSUME NEW t \in Threads, NEW s \in Subjects, Admit(t, s)
      PROVE  BucketInv'
  <2> DEFINE now == stamp[t]
             level == Refilled(s, now)
  <2>1. now \in Nat /\ now >= mark /\ now >= updated[s]
    BY <1>0, <1>2 DEF Admit, BucketInv, StampsAreRecent, TypeOK
  <2>2. level \in 0..Capacity /\ level <= tokens[s] + (now - updated[s])
    <3>1. /\ level \in 0..Capacity
          /\ \/ level = Capacity /\ tokens[s] + (now - updated[s]) >= Capacity
             \/ level = tokens[s] + (now - updated[s])
      BY <1>0, <2>1, Level
    <3> QED
      BY <3>1
  <2>3. tokens'[s] = level - Cost /\ updated'[s] = now /\ taken'[s] = taken[s] + Cost
        /\ mark' = mark
    BY <1>0, <1>2 DEF Admit, Settle, TypeOK
  <2>4. Balance(s)'
    <3>1. taken[s] \in Nat /\ tokens[s] \in Nat /\ updated[s] \in Nat /\ mark \in Nat
      BY <1>0 DEF TypeOK
    <3> HIDE DEF level, now
    <3>2. taken[s] + level <= Capacity + (now - mark)
      BY <2>1, <2>2, <3>1 DEF BucketInv, Balance
    <3> QED
      BY <2>1, <2>2, <2>3, <3>1, <3>2 DEF Balance
  <2>5. \A q \in Subjects \ {s} : Balance(q)'
    BY <1>0, <1>2, <2>2, OthersKeepBalance DEF Admit, TypeOK
  <2>6. StampsAreRecent'
    BY <1>2, <2>2, SettledStamps DEF Admit
  <2> QED
    BY <1>0, <2>4, <2>5, <2>6 DEF BucketInv
<1>3. ASSUME NEW t \in Threads, NEW s \in Subjects, Refresh(t, s)
      PROVE  BucketInv'
  <2> DEFINE now == stamp[t]
             level == Refilled(s, now)
  <2>1. now \in Nat /\ now >= mark /\ now >= updated[s]
    BY <1>0, <1>3 DEF Refresh, BucketInv, StampsAreRecent, TypeOK
  <2>2. /\ level \in 0..Capacity
        /\ \/ level = Capacity /\ tokens[s] + (now - updated[s]) >= Capacity
           \/ level = tokens[s] + (now - updated[s])
    BY <1>0, <2>1, Level DEF TypeOK
  <2>3. tokens'[s] = level /\ updated'[s] = now /\ taken'[s] = taken[s] /\ mark' = mark
    BY <1>0, <1>3 DEF Refresh, Settle, TypeOK
  <2>4. Balance(s)'
    <3>1. taken[s] \in Nat /\ tokens[s] \in Nat /\ updated[s] \in Nat /\ mark \in Nat
      BY <1>0 DEF TypeOK
    <3> HIDE DEF level, now
    <3>2. taken[s] # 0 => taken[s] + level <= Capacity + (now - mark)
      BY <2>1, <2>2, <3>1 DEF BucketInv, Balance
    <3>3. taken[s] = 0 => level = Capacity \/ level >= now - mark
      BY <2>1, <2>2, <3>1 DEF BucketInv, Balance
    <3> QED
      BY <2>1, <2>2, <2>3, <3>1, <3>2, <3>3 DEF Balance
  <2>5. \A q \in Subjects \ {s} : Balance(q)'
    BY <1>0, <1>3, <2>2, OthersKeepBalance DEF Refresh, TypeOK
  <2>6. StampsAreRecent'
    BY <1>3, <2>2, SettledStamps DEF Refresh
  <2> QED
    BY <1>0, <2>4, <2>5, <2>6 DEF BucketInv
<1>4. CASE Tick
  BY <1>0, <1>4 DEF Tick, BucketInv, StampsAreRecent, Balance
<1>5. CASE Mark
  BY <1>0, <1>5 DEF Mark, BucketInv, StampsAreRecent, Balance, TypeOK
<1>6. CASE UNCHANGED vars
  BY <1>0, <1>6 DEF vars, BucketInv, StampsAreRecent, Balance
<1> QED
  BY <1>1, <1>2, <1>3, <1>4, <1>5, <1>6 DEF Next

LEMMA BucketHolds ==
    ASSUME OneThread
    PROVE  Spec => []BucketInv
  BY BucketInit, BucketStep, PTL DEF Spec

\* In no stretch of time, of any length, does a subject get more through the
\* limiter than a full bucket and what the stretch refills.
THEOREM RateIsBounded ==
    ASSUME OneThread
    PROVE  Spec => []RateBound
<1>1. BucketInv => RateBound
  BY DEF BucketInv, Balance, TypeOK, RateBound
<1> QED
  BY <1>1, BucketHolds, PTL

\* Refusals and reads of the bucket cost a subject nothing it is owed.
THEOREM NothingIsWithheld ==
    ASSUME OneThread
    PROVE  Spec => []OwedIsPaid
<1>1. BucketInv => OwedIsPaid
  BY DEF BucketInv, Balance, TypeOK, OwedIsPaid, Refilled
<1> QED
  BY <1>1, BucketHolds, PTL
===============================================================================
