------------------------ MODULE IdempotentGatewayProofs -----------------------
(***************************************************************************)
(* Theorems about IdempotentGateway, for every set of requests and keys    *)
(* and for every lease, time to live and bound on a run.  The one about    *)
(* the promise assumes what the default settings give: a run is shorter    *)
(* than the lease.                                                         *)
(***************************************************************************)
EXTENDS IdempotentGateway, TLAPS

USE GatewayAssumption DEF Running

LEMMA RowKinds ==
    ASSUME NEW x \in Rows
    PROVE  /\ x = Free \/ (x.kind = "pending" /\ x.by \in Requests /\ x.left \in 0..Lease)
                       \/ (x.kind = "done" /\ x.by \in Requests /\ x.left \in 0..Ttl)
  BY DEF Rows

LEMMA RowsInTable ==
    /\ Free \in Rows
    /\ \A r \in Requests : Pending(r) \in Rows /\ Done(r) \in Rows
  BY DEF Rows, Free, Pending, Done

LEMMA EvictedType ==
    ASSUME TypeOK
    PROVE  Evicted(row) \in [Keys -> Rows]
  BY RowsInTable DEF TypeOK, Evicted

LEMMA CompletedType ==
    ASSUME TypeOK, NEW r \in Requests
    PROVE  Completed(row, r) \in [Keys -> Rows] /\ Released(row, r) \in [Keys -> Rows]
<1>1. Done(r) \in Rows /\ Free \in Rows
  BY RowsInTable
<1>2. [row EXCEPT ![KeyOf[r]] = Done(r)] \in [Keys -> Rows]
  BY <1>1 DEF TypeOK
<1>3. [Evicted(row) EXCEPT ![KeyOf[r]] = Done(r)] \in [Keys -> Rows]
  BY <1>1, EvictedType
<1>4. [row EXCEPT ![KeyOf[r]] = Free] \in [Keys -> Rows]
  BY <1>1 DEF TypeOK
<1> QED
  BY <1>2, <1>3, <1>4, EvictedType DEF Completed, Released, TypeOK

LEMMA BillType ==
    ASSUME TypeOK, NEW r \in Requests, Bill(r)
    PROVE  bills' \in [Keys -> 0..MostBills]
<1>1. \A n \in 0..MostBills : Counted(n) \in 0..MostBills
  BY DEF Counted
<1> QED
  BY <1>1 DEF TypeOK, Bill

LEMMA ChargeType ==
    ASSUME TypeOK, NEW r \in Requests, Charge(r)
    PROVE  bills' \in [Keys -> 0..MostBills]
  BY BillType DEF TypeOK, Charge

LEMMA AgedRow ==
    ASSUME NEW x \in Rows
    PROVE  [x EXCEPT !.left = IF @ = 0 THEN 0 ELSE @ - 1] \in Rows
<1>1. CASE x = Free
  BY <1>1 DEF Rows, Free
<1>2. CASE x \in [kind : {"pending"}, by : Requests, left : 0..Lease]
  BY <1>2 DEF Rows
<1>3. CASE x \in [kind : {"done"}, by : Requests, left : 0..Ttl]
  BY <1>3 DEF Rows
<1> QED
  BY <1>1, <1>2, <1>3 DEF Rows

LEMMA TypeStep ==
    ASSUME TypeOK, [Next]_vars
    PROVE  TypeOK'
<1>1. ASSUME NEW r \in Requests, Claim(r)
      PROVE  TypeOK'
  BY <1>1, EvictedType, RowsInTable DEF TypeOK, Claim, Phases
<1>2. ASSUME NEW r \in Requests, Conflict(r)
      PROVE  TypeOK'
  BY <1>2, EvictedType DEF TypeOK, Conflict
<1>3. ASSUME NEW r \in Requests, Replay(r)
      PROVE  TypeOK'
  <2>1. Evicted(row)[KeyOf[r]].by \in Requests
    BY <1>3, EvictedType, RowKinds DEF Replay, Free
  <2> QED
    BY <1>3, <2>1, EvictedType DEF TypeOK, Replay, Phases
<1>4. ASSUME NEW r \in Requests, Stream(r)
      PROVE  TypeOK'
  BY <1>4, EvictedType DEF TypeOK, Stream, Phases
<1>5. ASSUME NEW r \in Requests, Answer(r)
      PROVE  TypeOK'
  BY <1>5, CompletedType, ChargeType DEF TypeOK, Answer, Phases
<1>6. ASSUME NEW r \in Requests, Fail(r)
      PROVE  TypeOK'
  BY <1>6, CompletedType, ChargeType DEF TypeOK, Fail, Phases
<1>7. ASSUME NEW dead \in SUBSET Running, Crash(dead)
      PROVE  TypeOK'
  <2>1. PICK r \in dead : Charge(r)
    BY <1>7 DEF Crash
  <2>2. bills' \in [Keys -> 0..MostBills]
    BY <2>1, ChargeType
  <2> QED
    BY <1>7, <2>2 DEF TypeOK, Crash, Phases
<1>10. ASSUME NEW r \in Requests, FallBack(r)
       PROVE  TypeOK'
  BY <1>10, BillType DEF TypeOK, FallBack
<1>8. CASE Tick
  BY <1>8, AgedRow DEF TypeOK, Tick
<1>9. CASE UNCHANGED vars
  BY <1>9 DEF TypeOK, vars
<1> QED
  BY <1>1, <1>2, <1>3, <1>4, <1>5, <1>6, <1>7, <1>8, <1>9, <1>10 DEF Next

LEMMA TypeInit == Init => TypeOK
  BY RowsInTable DEF Init, TypeOK, Phases

\* The table holds rows of the three kinds and a run never outlives MaxRun.
THEOREM TypeCorrect == Spec => []TypeOK
  BY TypeInit, TypeStep, PTL DEF Spec
-----------------------------------------------------------------------------
(* Ownership *)

LEMMA LiveSurvives ==
    ASSUME TypeOK, NEW k \in Keys, row[k].left > 0
    PROVE  Evicted(row)[k] = row[k] /\ row[k] # Free
  BY DEF Evicted, Free, TypeOK

LEMMA OnlyOwnersTouch ==
    ASSUME TypeOK, [Next]_vars, NEW k \in Keys, row[k].left > 0
    PROVE  \/ row'[k] = row[k]
           \/ row'[k] = [row[k] EXCEPT !.left = @ - 1]
           \/ /\ row[k].kind = "pending" /\ phase[row[k].by] = "running"
              /\ row'[k] = IF phase'[row[k].by] = "answered" THEN Done(row[k].by) ELSE Free
<1>0. Evicted(row)[k] = row[k] /\ row[k] # Free
  BY LiveSurvives
<1>1. ASSUME NEW r \in Requests, Claim(r)
      PROVE  row'[k] = row[k]
  BY <1>0, <1>1, EvictedType DEF Claim
<1>2. ASSUME NEW r \in Requests, Conflict(r) \/ Replay(r) \/ Stream(r)
      PROVE  row'[k] = row[k]
  BY <1>0, <1>2 DEF Conflict, Replay, Stream
<1>3. ASSUME NEW r \in Requests, Answer(r)
      PROVE  \/ row'[k] = row[k]
             \/ /\ row[k].kind = "pending" /\ phase[row[k].by] = "running"
                /\ row'[k] = IF phase'[row[k].by] = "answered" THEN Done(row[k].by) ELSE Free
  <2>1. CASE KeyOf[r] = k /\ Owns(row, r)
    BY <1>3, <2>1 DEF Answer, Completed, Owns, TypeOK
  <2>2. CASE ~Owns(row, r)
    BY <1>0, <1>3, <2>2, EvictedType DEF Answer, Completed
  <2>3. CASE KeyOf[r] # k /\ Owns(row, r)
    BY <1>3, <2>3 DEF Answer, Completed, TypeOK
  <2> QED
    BY <2>1, <2>2, <2>3
<1>4. ASSUME NEW r \in Requests, Fail(r)
      PROVE  \/ row'[k] = row[k]
             \/ /\ row[k].kind = "pending" /\ phase[row[k].by] = "running"
                /\ row'[k] = IF phase'[row[k].by] = "answered" THEN Done(row[k].by) ELSE Free
  BY <1>4 DEF Fail, Released, Owns, TypeOK
<1>5. CASE Tick
  BY <1>5 DEF Tick
<1>6. CASE \/ UNCHANGED vars \/ \E r \in Requests : FallBack(r)
           \/ \E dead \in SUBSET Running : Crash(dead)
  BY <1>6 DEF vars, FallBack, Crash
<1> QED
  BY <1>1, <1>2, <1>3, <1>4, <1>5, <1>6 DEF Next

\* Whatever the lease, a live claim or a stored answer is changed by its own
\* handler or by time, never by a request that lost its lease.
THEOREM OwnersOnly == Spec => LiveRowsAreOwned
<1>1. TypeOK /\ [Next]_vars =>
        [\A k \in Keys :
            LET x == row[k] IN
            x.left > 0 =>
                \/ row'[k] = x
                \/ row'[k] = [x EXCEPT !.left = @ - 1]
                \/ /\ x.kind = "pending" /\ phase[x.by] = "running"
                   /\ row'[k] = IF phase'[x.by] = "answered" THEN Done(x.by) ELSE Free]_vars
  BY OnlyOwnersTouch
<1> QED
  BY <1>1, TypeCorrect, PTL DEF Spec, LiveRowsAreOwned
-----------------------------------------------------------------------------
(* Answers, whatever the lease *)

\* A stored answer is one that its own client was given, and only those who are
\* through with their request have an answer.
Given ==
    /\ \A k \in Keys : row[k].kind = "done" =>
            /\ KeyOf[row[k].by] = k
            /\ got[row[k].by] = row[k].by
    /\ \A r \in Requests : phase[r] \in {"idle", "running"} => got[r] = NoRequest

GivenInv == TypeOK /\ Given /\ ReplaysAreAnswers

LEMMA GivenInit == Init => GivenInv
  BY TypeInit DEF Init, GivenInv, Given, ReplaysAreAnswers, Free

\* Evicted rows that are done have not expired.
LEMMA EvictedDoneIsLive ==
    ASSUME TypeOK, NEW k \in Keys, Evicted(row)[k].kind = "done"
    PROVE  row[k].kind = "done" /\ row[k].left > 0 /\ Evicted(row)[k] = row[k]
<1>1. row[k].left # 0
  BY DEF Evicted, Free
<1>2. Evicted(row)[k] = row[k]
  BY <1>1 DEF Evicted
<1>3. row[k].left \in 0..Ttl
  BY <1>2, RowKinds DEF TypeOK, Free
<1> QED
  BY <1>1, <1>2, <1>3

\* What is left after an eviction was there before.
LEMMA EvictionKeeps ==
    ASSUME TypeOK, NEW k \in Keys, Evicted(row)[k].kind # "free"
    PROVE  Evicted(row)[k] = row[k]
  BY DEF Evicted, Free

LEMMA GivenStep ==
    ASSUME GivenInv, [Next]_vars
    PROVE  GivenInv'
<1>0. TypeOK /\ TypeOK' /\ Given /\ ReplaysAreAnswers
  BY TypeStep DEF GivenInv
<1>a. \A k \in Keys : row[k].kind = "done" => row[k].by \in Requests
  BY <1>0, RowKinds DEF TypeOK, Free
<1>1. ASSUME NEW r \in Requests, Claim(r)
      PROVE  Given' /\ ReplaysAreAnswers'
  <2>1. got' = got /\ \A q \in Requests : phase'[q] \in {"idle", "running"} => got[q] = NoRequest
    BY <1>0, <1>1 DEF Claim, Given, TypeOK
  <2>2. ASSUME NEW k \in Keys, row'[k].kind = "done"
        PROVE  row'[k] = row[k]
    <3>1. k # KeyOf[r] /\ row'[k] = Evicted(row)[k]
      BY <1>0, <1>1, <2>2, EvictedType DEF Claim, Pending
    <3> QED
      BY <1>0, <2>2, <3>1, EvictionKeeps
  <2> QED
    BY <1>0, <2>1, <2>2 DEF Given, ReplaysAreAnswers
<1>2. ASSUME NEW r \in Requests, Conflict(r) \/ Stream(r)
      PROVE  Given' /\ ReplaysAreAnswers'
  <2>1. got' = got /\ \A q \in Requests : phase'[q] \in {"idle", "running"} => got[q] = NoRequest
    BY <1>0, <1>2 DEF Conflict, Stream, Given, TypeOK
  <2>2. ASSUME NEW k \in Keys, row'[k].kind = "done"
        PROVE  row'[k] = row[k]
    BY <1>0, <1>2, <2>2, EvictionKeeps DEF Conflict, Stream
  <2> QED
    BY <1>0, <2>1, <2>2 DEF Given, ReplaysAreAnswers
<1>3. ASSUME NEW r \in Requests, Replay(r)
      PROVE  Given' /\ ReplaysAreAnswers'
  <2> DEFINE s == row[KeyOf[r]].by
  <2>1. row[KeyOf[r]].kind = "done" /\ Evicted(row)[KeyOf[r]] = row[KeyOf[r]]
    BY <1>0, <1>3, EvictedDoneIsLive DEF Replay
  <2>2. s \in Requests /\ KeyOf[s] = KeyOf[r] /\ got[s] = s
    BY <1>0, <1>a, <2>1 DEF Given
  <2>3. got[r] = NoRequest /\ got' = [got EXCEPT ![r] = s]
    BY <1>0, <1>3, <2>1 DEF Replay, Given
  <2>4. s # r
    BY <2>2, <2>3
  <2>5. ASSUME NEW k \in Keys, row'[k].kind = "done"
        PROVE  row'[k] = row[k] /\ got'[row[k].by] = got[row[k].by]
    <3>1. row'[k] = row[k]
      BY <1>0, <1>3, <2>5, EvictionKeeps DEF Replay
    <3>2. row[k].by \in Requests /\ got[row[k].by] = row[k].by
      BY <1>0, <1>a, <2>5, <3>1 DEF Given
    <3> QED
      BY <1>0, <2>3, <3>1, <3>2 DEF TypeOK
  <2>6. ASSUME NEW q \in Requests, got'[q] # NoRequest
        PROVE  KeyOf[got'[q]] = KeyOf[q] /\ got'[got'[q]] = got'[q]
    <3>1. CASE q = r
      BY <1>0, <2>2, <2>3, <2>4, <3>1 DEF TypeOK
    <3>2. CASE q # r
      <4>1. got'[q] = got[q] /\ got[q] \in Requests /\ got[got[q]] = got[q]
        BY <1>0, <2>3, <2>6, <3>2 DEF ReplaysAreAnswers, TypeOK
      <4>2. got[q] # r
        BY <2>3, <4>1
      <4> QED
        BY <1>0, <2>3, <2>6, <4>1, <4>2 DEF ReplaysAreAnswers, TypeOK
    <3> QED
      BY <3>1, <3>2
  <2>7. \A q \in Requests : phase'[q] \in {"idle", "running"} => got'[q] = NoRequest
    BY <1>0, <1>3, <2>3 DEF Replay, Given, TypeOK
  <2>8. Given'
    BY <1>0, <2>5, <2>7 DEF Given
  <2>9. ReplaysAreAnswers'
    BY <2>6 DEF ReplaysAreAnswers
  <2> QED
    BY <2>8, <2>9
<1>4. ASSUME NEW r \in Requests, Answer(r)
      PROVE  Given' /\ ReplaysAreAnswers'
  <2>1. got[r] = NoRequest /\ got' = [got EXCEPT ![r] = r]
    BY <1>0, <1>4 DEF Answer, Given
  <2>2. ASSUME NEW k \in Keys, row'[k].kind = "done"
        PROVE  KeyOf[row'[k].by] = k /\ got'[row'[k].by] = row'[k].by
    <3>1. row'[k] = row[k] \/ (k = KeyOf[r] /\ row'[k] = Done(r))
      <4>1. row'[k] \in {row[k], Evicted(row)[k]} \/ (k = KeyOf[r] /\ row'[k] = Done(r))
        BY <1>0, <1>4, EvictedType DEF Answer, Completed, TypeOK
      <4> QED
        BY <1>0, <2>2, <4>1, EvictionKeeps
    <3>2. CASE row'[k] = row[k]
      <4>1. row[k].by \in Requests /\ KeyOf[row[k].by] = k /\ got[row[k].by] = row[k].by
        BY <1>0, <1>a, <2>2, <3>2 DEF Given
      <4> QED
        BY <1>0, <2>1, <3>2, <4>1 DEF TypeOK
    <3>3. CASE k = KeyOf[r] /\ row'[k] = Done(r)
      BY <1>0, <2>1, <3>3 DEF Done, TypeOK
    <3> QED
      BY <3>1, <3>2, <3>3
  <2>3. ASSUME NEW q \in Requests, got'[q] # NoRequest
        PROVE  KeyOf[got'[q]] = KeyOf[q] /\ got'[got'[q]] = got'[q]
    BY <1>0, <2>1, <2>3 DEF ReplaysAreAnswers, TypeOK
  <2>4. \A q \in Requests : phase'[q] \in {"idle", "running"} => got'[q] = NoRequest
    BY <1>0, <1>4, <2>1 DEF Answer, Given, TypeOK
  <2> QED
    BY <2>2, <2>3, <2>4 DEF Given, ReplaysAreAnswers
<1>5. ASSUME NEW r \in Requests, Fail(r)
      PROVE  Given' /\ ReplaysAreAnswers'
  <2>1. got' = got /\ \A q \in Requests : phase'[q] \in {"idle", "running"} => got[q] = NoRequest
    BY <1>0, <1>5 DEF Fail, Given, TypeOK
  <2>2. ASSUME NEW k \in Keys, row'[k].kind = "done"
        PROVE  row'[k] = row[k]
    BY <1>0, <1>5, <2>2 DEF Fail, Released, Free, TypeOK
  <2> QED
    BY <1>0, <2>1, <2>2 DEF Given, ReplaysAreAnswers
<1>6. ASSUME NEW dead \in SUBSET Running, Crash(dead)
      PROVE  Given' /\ ReplaysAreAnswers'
  <2>1. got' = got /\ row' = row
    BY <1>6 DEF Crash
  <2>2. \A q \in Requests : phase'[q] \in {"idle", "running"} => phase'[q] = phase[q]
    BY <1>6 DEF Crash
  <2> QED
    BY <1>0, <2>1, <2>2 DEF Given, ReplaysAreAnswers
<1>7. CASE Tick
  <2>1. got' = got /\ phase' = phase
    BY <1>7 DEF Tick
  <2>2. ASSUME NEW k \in Keys
        PROVE  row'[k].kind = row[k].kind /\ row'[k].by = row[k].by
    BY <1>0, <1>7 DEF Tick, TypeOK, Rows, Free
  <2>3. Given'
    BY <1>0, <2>1, <2>2, Zenon DEF Given
  <2>4. ReplaysAreAnswers'
    BY <1>0, <2>1 DEF ReplaysAreAnswers
  <2> QED
    BY <1>0, <2>3, <2>4 DEF GivenInv
<1>8. CASE UNCHANGED vars \/ \E r \in Requests : FallBack(r)
  <2>1. row' = row /\ phase' = phase /\ got' = got
    BY <1>8 DEF vars, FallBack
  <2>2. Given'
    BY <1>0, <2>1 DEF Given
  <2>3. ReplaysAreAnswers'
    BY <1>0, <2>1 DEF ReplaysAreAnswers
  <2> QED
    BY <1>0, <2>2, <2>3 DEF GivenInv
<1> QED
  BY <1>0, <1>1, <1>2, <1>3, <1>4, <1>5, <1>6, <1>7, <1>8 DEF Next, GivenInv

\* Whatever the lease, a replay is an answer that a request with the same key was
\* really given.
THEOREM ReplaysFaithful == Spec => []ReplaysAreAnswers
<1>1. GivenInv => ReplaysAreAnswers
  BY DEF GivenInv
<1> QED
  BY <1>1, GivenInit, GivenStep, PTL DEF Spec
-----------------------------------------------------------------------------
(* The lease of a claim *)

\* The claim of a running request has exactly the part of the lease left that
\* its run has not used.
Claimed ==
    /\ \A r \in Running : age[r] < Lease =>
            Owns(row, r) /\ row[KeyOf[r]].left + age[r] = Lease
    /\ \A r \in Requests \ Running : age[r] = 0

ClaimInv == TypeOK /\ Claimed

LEMMA HolderIsLive ==
    ASSUME ClaimInv, NEW r \in Running, age[r] < Lease
    PROVE  /\ row[KeyOf[r]].left > 0
           /\ Evicted(row)[KeyOf[r]] = row[KeyOf[r]]
           /\ row[KeyOf[r]].kind = "pending" /\ row[KeyOf[r]].by = r
<1>1. age[r] \in 0..MaxRun /\ row[KeyOf[r]].left + age[r] = Lease /\ Owns(row, r)
  BY DEF ClaimInv, Claimed, TypeOK
<1>2. row[KeyOf[r]].left \in Int
  BY RowKinds DEF ClaimInv, TypeOK, Free
<1>3. row[KeyOf[r]].left > 0
  BY <1>1, <1>2
<1> QED
  BY <1>1, <1>3, LiveSurvives DEF ClaimInv, Owns

LEMMA ClaimInit == Init => ClaimInv
  BY TypeInit DEF Init, ClaimInv, Claimed

\* Rows of claims that are up stay what they are in a step that starts no run and
\* takes no time.
LEMMA ClaimsStay ==
    ASSUME ClaimInv, Running' \subseteq Running,
           \A r \in Requests : age'[r] = IF phase'[r] = "running" THEN age[r] ELSE 0,
           \A r \in Running' : age[r] < Lease => row'[KeyOf[r]] = row[KeyOf[r]]
    PROVE  Claimed'
  BY DEF ClaimInv, Claimed, Owns

LEMMA ClaimStep ==
    ASSUME ClaimInv, [Next]_vars
    PROVE  ClaimInv'
<1>0. TypeOK /\ TypeOK'
  BY TypeStep DEF ClaimInv
<1>a. \A r \in Requests : phase[r] # "running" => age[r] = 0
  BY DEF ClaimInv, Claimed
<1>1. ASSUME NEW r \in Requests, Claim(r)
      PROVE  Claimed'
  <2>1. age' = age /\ \A q \in Requests \ {r} : phase'[q] = phase[q]
    BY <1>0, <1>1 DEF Claim, TypeOK
  <2>2. ASSUME NEW q \in Running', age'[q] < Lease
        PROVE  Owns(row, q)' /\ (row[KeyOf[q]].left + age[q] = Lease)'
    <3>1. CASE q = r
      <4>1. row'[KeyOf[r]] = Pending(r) /\ age[r] = 0
        BY <1>0, <1>a, <1>1, EvictedType DEF Claim
      <4> QED
        BY <2>1, <3>1, <4>1 DEF Owns, Pending
    <3>2. CASE q # r
      <4>1. q \in Running /\ age[q] < Lease
        BY <2>1, <2>2, <3>2
      <4>2. /\ Evicted(row)[KeyOf[q]] = row[KeyOf[q]] /\ row[KeyOf[q]].kind = "pending"
            /\ Owns(row, q) /\ row[KeyOf[q]].left + age[q] = Lease
        BY <4>1, HolderIsLive DEF ClaimInv, Claimed
      <4>3. KeyOf[q] # KeyOf[r]
        BY <1>1, <4>2 DEF Claim, Free
      <4>4. row'[KeyOf[q]] = row[KeyOf[q]]
        BY <1>0, <1>1, <4>2, <4>3, EvictedType DEF Claim
      <4> QED
        BY <2>1, <4>2, <4>4 DEF Owns
    <3> QED
      BY <3>1, <3>2
  <2>3. \A q \in Requests \ Running' : age'[q] = 0
    BY <1>0, <1>a, <1>1, <2>1 DEF Claim, TypeOK
  <2> QED
    BY <2>2, <2>3 DEF Claimed
<1>2. ASSUME NEW r \in Requests, Conflict(r) \/ Replay(r) \/ Stream(r)
      PROVE  Claimed'
  <2>1. /\ age' = age /\ row' = Evicted(row)
        /\ \A q \in Requests : phase'[q] = "running" <=> phase[q] = "running"
    BY <1>0, <1>2 DEF Conflict, Replay, Stream, TypeOK
  <2>2. \A q \in Running' : age[q] < Lease => row'[KeyOf[q]] = row[KeyOf[q]]
    BY <2>1, HolderIsLive
  <2> QED
    BY <1>a, <2>1, <2>2, ClaimsStay
<1>3. ASSUME NEW r \in Requests, Answer(r) \/ Fail(r)
      PROVE  Claimed'
  <2>1. /\ age' = [age EXCEPT ![r] = 0] /\ phase'[r] # "running"
        /\ \A q \in Requests \ {r} : phase'[q] = phase[q]
        /\ row' \in {Completed(row, r), Released(row, r), row}
    BY <1>0, <1>3 DEF Answer, Fail, TypeOK
  <2>2. ASSUME NEW q \in Running', age[q] < Lease
        PROVE  row'[KeyOf[q]] = row[KeyOf[q]]
    <3>1. q \in Running /\ q # r
      BY <2>1
    <3>2. /\ Evicted(row)[KeyOf[q]] = row[KeyOf[q]]
          /\ row[KeyOf[q]].kind = "pending" /\ row[KeyOf[q]].by = q
      BY <2>2, <3>1, HolderIsLive
    <3>3. CASE Owns(row, r)
      <4>1. KeyOf[q] # KeyOf[r]
        BY <3>1, <3>2, <3>3 DEF Owns
      <4> QED
        BY <1>0, <2>1, <3>3, <4>1 DEF Completed, Released, TypeOK
    <3>4. CASE ~Owns(row, r)
      <4>1. Evicted(row)[KeyOf[q]] # Free
        BY <3>2 DEF Free
      <4> QED
        BY <1>0, <2>1, <3>2, <3>4, <4>1, EvictedType DEF Completed, Released
    <3> QED
      BY <3>3, <3>4
  <2> QED
    BY <1>0, <1>a, <2>1, <2>2, ClaimsStay DEF TypeOK
<1>4. CASE Tick
  <2>1. /\ \A q \in Requests : age'[q] = IF phase[q] = "running" THEN age[q] + 1 ELSE age[q]
        /\ phase' = phase
    BY <1>4 DEF Tick
  <2>2. ASSUME NEW q \in Running, age'[q] < Lease
        PROVE  Owns(row, q)' /\ (row[KeyOf[q]].left + age[q] = Lease)'
    <3>1. age[q] \in Nat /\ age'[q] = age[q] + 1
      BY <1>0, <2>1 DEF TypeOK
    <3>2. /\ row[KeyOf[q]].left > 0 /\ row[KeyOf[q]].kind = "pending" /\ Owns(row, q)
          /\ row[KeyOf[q]].left + age[q] = Lease
      BY <2>2, <3>1, HolderIsLive DEF ClaimInv, Claimed
    <3>3. row[KeyOf[q]] \in [kind : {"pending"}, by : Requests, left : 0..Lease]
      BY <1>0, <3>2 DEF TypeOK, Rows, Free
    <3>4. row'[KeyOf[q]] = [row[KeyOf[q]] EXCEPT !.left = @ - 1]
      BY <1>4, <3>2, <3>3 DEF Tick
    <3> QED
      BY <3>1, <3>2, <3>3, <3>4 DEF Owns
  <2> QED
    BY <1>0, <1>a, <2>1, <2>2 DEF Claimed, ClaimInv
<1>5. ASSUME NEW dead \in SUBSET Running, Crash(dead)
      PROVE  Claimed'
  <2>1. /\ row' = row
        /\ \A q \in Requests : /\ phase'[q] = IF q \in dead THEN "dead" ELSE phase[q]
                               /\ age'[q] = IF q \in dead THEN 0 ELSE age[q]
    BY <1>5 DEF Crash
  <2> QED
    BY <1>a, <2>1, ClaimsStay
<1>6. CASE UNCHANGED vars \/ \E r \in Requests : FallBack(r)
  <2>1. row' = row /\ phase' = phase /\ age' = age
    BY <1>6 DEF vars, FallBack
  <2>2. Claimed'
    BY <1>a, <2>1, ClaimsStay
  <2> QED
    BY <1>0, <2>2 DEF ClaimInv
<1> QED
  BY <1>0, <1>1, <1>2, <1>3, <1>4, <1>5, <1>6 DEF Next, ClaimInv

LEMMA ClaimsHold == Spec => []ClaimInv
  BY ClaimInit, ClaimStep, PTL DEF Spec

\* A claim is alone with its key for as long as its lease is up, whatever expires,
\* comes late or is released around it.
THEOREM OneRunPerKey == Spec => []SingleFlight
<1>1. ClaimInv => SingleFlight
  BY DEF ClaimInv, Claimed, Owns, SingleFlight
<1> QED
  BY <1>1, ClaimsHold, PTL
-----------------------------------------------------------------------------
(* A lease longer than any run *)

\* Every running request holds its claim; nobody has an answer before its handler
\* ends.
Leased ==
    /\ \A r \in Running : Owns(row, r) /\ row[KeyOf[r]].left > 0
    /\ \A r \in Requests : phase[r] \in {"idle", "running"} => got[r] = NoRequest

LeaseInv == TypeOK /\ Leased

LEMMA RunningIsLive ==
    ASSUME LeaseInv, NEW r \in Running
    PROVE  /\ row[KeyOf[r]].left > 0
           /\ Evicted(row)[KeyOf[r]] = row[KeyOf[r]]
           /\ row[KeyOf[r]].kind = "pending" /\ row[KeyOf[r]].by = r
  BY LiveSurvives DEF LeaseInv, Leased, Owns

LEMMA LeaseHolds ==
    ASSUME MaxRun < Lease
    PROVE  Spec => []LeaseInv
<1>1. ASSUME ClaimInv, GivenInv
      PROVE  LeaseInv
  <2>1. \A r \in Running : age[r] < Lease
    BY <1>1 DEF ClaimInv, TypeOK
  <2>2. ASSUME NEW r \in Running
        PROVE  Owns(row, r) /\ row[KeyOf[r]].left > 0
    BY <1>1, <2>1, HolderIsLive DEF Owns
  <2> QED
    BY <1>1, <2>2 DEF GivenInv, Given, LeaseInv, Leased
<1>2. Spec => []GivenInv
  BY GivenInit, GivenStep, PTL DEF Spec
<1> QED
  BY <1>1, <1>2, ClaimsHold, PTL
-----------------------------------------------------------------------------
(* The promise *)

LEMMA RememberedMeans ==
    ASSUME TypeOK, NEW k \in Keys
    PROVE  /\ Remembered[k] # NoRequest <=> row[k].kind = "done" /\ row[k].left > 0
           /\ Remembered[k] # NoRequest => Remembered[k] = row[k].by
<1>1. row[k].kind = "done" => row[k].by \in Requests
  BY RowKinds DEF TypeOK, Free
<1> QED
  BY <1>1 DEF Remembered

LEMMA EvictionForgetsNothing ==
    ASSUME TypeOK, NEW k \in Keys
    PROVE  (IF Evicted(row)[k].kind = "done" /\ Evicted(row)[k].left > 0
            THEN Evicted(row)[k].by ELSE NoRequest) = Remembered[k]
  BY DEF Evicted, Remembered, Free

LEMMA PromiseStep ==
    ASSUME LeaseInv, [Next]_vars
    PROVE  [Once!OnceNext]_(Once!onceVars)
<1> USE DEF Once!onceVars
<1>0. TypeOK /\ Leased
  BY DEF LeaseInv
<1>1. ASSUME NEW r \in Requests, Claim(r)
      PROVE  Once!Start(r)
  <2>1. \A q \in Running : KeyOf[q] # KeyOf[r]
    BY <1>1, RunningIsLive DEF Claim, Free
  <2>2. Running' = Running \cup {r}
    BY <1>0, <1>1 DEF Claim, TypeOK
  <2>3. Remembered[KeyOf[r]] = NoRequest
    BY <1>0, <1>1, EvictionForgetsNothing DEF Claim, Free
  <2>4. Remembered' = Remembered
    BY <1>0, <1>1, <2>3, EvictedType, EvictionForgetsNothing DEF Claim, Remembered, Pending
  <2> QED
    BY <1>1, <2>1, <2>2, <2>3, <2>4 DEF Once!Start, Claim
<1>2. ASSUME NEW r \in Requests, Conflict(r) \/ Stream(r)
      PROVE  UNCHANGED Once!onceVars
  <2>1. Running' = Running /\ got' = got /\ row' = Evicted(row)
    BY <1>0, <1>2 DEF Conflict, Stream, TypeOK
  <2>2. Remembered' = Remembered
    BY <1>0, <2>1, EvictionForgetsNothing DEF Remembered
  <2> QED
    BY <2>1, <2>2
<1>3. ASSUME NEW r \in Requests, Replay(r)
      PROVE  Once!Recall(r)
  <2>1. Running' = Running /\ row' = Evicted(row) /\ got[r] = NoRequest
    BY <1>0, <1>3 DEF Replay, Leased, TypeOK
  <2>2. Remembered' = Remembered
    BY <1>0, <2>1, EvictionForgetsNothing DEF Remembered
  <2>3. Remembered[KeyOf[r]] # NoRequest /\ Remembered[KeyOf[r]] = Evicted(row)[KeyOf[r]].by
    BY <1>0, <1>3, EvictedDoneIsLive, RememberedMeans DEF Replay
  <2> QED
    BY <1>3, <2>1, <2>2, <2>3 DEF Replay, Once!Recall
<1>4. ASSUME NEW r \in Requests, Answer(r)
      PROVE  Once!Publish(r)
  <2>1. r \in Running /\ Running' = Running \ {r}
    BY <1>0, <1>4 DEF Answer, TypeOK
  <2>2. row' = [row EXCEPT ![KeyOf[r]] = Done(r)]
    BY <1>0, <1>4, <2>1 DEF Answer, Completed, Leased
  <2>3. Remembered' = [Remembered EXCEPT ![KeyOf[r]] = r]
    <3>1. row'[KeyOf[r]] = Done(r) /\ \A k \in Keys \ {KeyOf[r]} : row'[k] = row[k]
      BY <1>0, <2>2 DEF TypeOK
    <3>2. Done(r).kind = "done" /\ Done(r).by = r /\ Done(r).left > 0
      BY DEF Done
    <3>3. Remembered' = [k \in Keys |-> IF k = KeyOf[r] THEN r ELSE Remembered[k]]
      BY <3>1, <3>2 DEF Remembered
    <3> QED
      BY <3>3 DEF Remembered
  <2> QED
    BY <1>4, <2>1, <2>3 DEF Answer, Once!Publish
<1>5. ASSUME NEW r \in Requests, Fail(r)
      PROVE  r \in Running /\ Once!Stop({r})
  <2>1. r \in Running /\ Running' = Running \ {r} /\ got' = got
    BY <1>0, <1>5 DEF Fail, TypeOK
  <2>2. row' = row \/ row' = [row EXCEPT ![KeyOf[r]] = Free]
    BY <1>5 DEF Fail, Released
  <2>3. Remembered[KeyOf[r]] = NoRequest
    BY <1>0, <2>1, RememberedMeans DEF Leased, Owns
  <2>4. Remembered' = Remembered
    BY <1>0, <2>2, <2>3 DEF Remembered, TypeOK, Free
  <2> QED
    BY <2>1, <2>4 DEF Once!Stop
<1>6. CASE Tick
  <2> DEFINE kept == {k \in Keys : Remembered'[k] = Remembered[k]}
  <2>1. Running' = Running /\ got' = got
    BY <1>6 DEF Tick
  <2>2. ASSUME NEW k \in Keys
        PROVE  Remembered'[k] \in {Remembered[k], NoRequest}
    <3>1. CASE row[k].kind = "done"
      <4>1. row[k] \in [kind : {"done"}, by : Requests, left : 0..Ttl]
        BY <1>0, <3>1 DEF TypeOK, Rows, Free
      <4>2. row'[k] = [row[k] EXCEPT !.left = IF @ = 0 THEN 0 ELSE @ - 1]
        BY <1>6 DEF Tick
      <4> QED
        BY <4>1, <4>2 DEF Remembered
    <3>2. CASE row[k].kind # "done"
      <4>1. row'[k].kind # "done"
        BY <1>0, <1>6, <3>2 DEF Tick, TypeOK, Rows, Free
      <4> QED
        BY <4>1 DEF Remembered
    <3> QED
      BY <3>1, <3>2
  <2>3. Remembered' = [k \in Keys |-> IF k \in kept THEN Remembered[k] ELSE NoRequest]
    BY <2>2 DEF Remembered
  <2>4. kept \in SUBSET Keys
    OBVIOUS
  <2> HIDE DEF kept
  <2> QED
    BY <2>1, <2>3, <2>4 DEF Once!OnceNext, Once!Forget
<1>7. ASSUME NEW dead \in SUBSET Running, Crash(dead)
      PROVE  Once!Stop(dead)
  BY <1>7 DEF Once!Stop, Crash, Remembered
<1>8. CASE UNCHANGED vars \/ \E r \in Requests : FallBack(r)
  BY <1>8 DEF vars, FallBack, Remembered
<1> QED
  BY <1>1, <1>2, <1>3, <1>4, <1>5, <1>6, <1>7, <1>8 DEF Next, Once!OnceNext

LEMMA PromiseInit == Init => Once!OnceInit
  BY DEF Init, Once!OnceInit, Remembered, Free

\* The rows, leases and retries of the gateway implement the promise of an
\* Idempotency-Key, if no run outlives its lease.
THEOREM PromiseKept ==
    ASSUME MaxRun < Lease
    PROVE  Spec => KeepsPromise
  BY PromiseInit, PromiseStep, LeaseHolds, PTL
     DEF Spec, KeepsPromise, Once!OnceSpec, Once!onceVars
===============================================================================
