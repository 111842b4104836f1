------------------------- MODULE GatewayProcessesProofs -----------------------
(***************************************************************************)
(* Theorems about GatewayProcesses, for any number of processes and        *)
(* requests, whatever the lifetimes of cached texts, stored answers and    *)
(* claims are.                                                             *)
(***************************************************************************)
EXTENDS GatewayProcesses, IdempotentGatewayProofs, BuiltinsProofs

LEMMA StepIsGatewayStep ==
    ASSUME [ProcessesNext]_processVars
    PROVE  [Next]_vars
<1>1. ASSUME NEW r \in Requests, Begin(r) \/ Reply(r) \/ Finish(r) \/ AskFallback(r) \/ Break(r)
      PROVE  Next
  BY <1>1 DEF Begin, Reply, Finish, AskFallback, Break, Next
<1>2. ASSUME NEW p \in Processes, Restart(p)
      PROVE  Next \/ UNCHANGED vars
  BY <1>2 DEF Restart, Next, Running
<1>3. CASE PassTime
  BY <1>3 DEF PassTime, Next
<1>4. CASE UNCHANGED processVars
  BY <1>4 DEF processVars
<1> QED
  BY <1>1, <1>2, <1>3, <1>4 DEF ProcessesNext

\* Processes with caches and budgets of their own are gateways as IdempotentGateway
\* describes them, so that its theorems hold for them.
THEOREM IsGateway == ProcessesSpec => Spec
<1>1. BeginInit => Init
  BY DEF BeginInit
<1> QED
  BY <1>1, StepIsGatewayStep, PTL DEF ProcessesSpec, Spec

\* The restarts and the caches of several processes leave live rows to their owners.
THEOREM ProcessesRespectOwners == ProcessesSpec => LiveRowsAreOwned
  BY IsGateway, OwnersOnly

\* Nor do they let a second run of a key begin within the lease of the first.
THEOREM ProcessesRunOnce == ProcessesSpec => []SingleFlight
  BY IsGateway, OneRunPerKey
-----------------------------------------------------------------------------
(* The ages of texts *)

Entries == [left : 0..CacheTtl, old : 0..Ancient]

MemoryOK ==
    /\ cache \in [Processes -> Entries]
    /\ source \in [Requests -> Sources]
    /\ old \in [Requests -> 0..Ancient]
    /\ since \in [Processes -> 0..CacheTtl]

\* A live entry is as old as the part of its lifetime that has passed, and it is
\* there if a provider has answered within that lifetime; a run that hit it is
\* ended before time passes.
CacheYoung ==
    /\ \A p \in Processes :
        /\ cache[p].left > 0 => cache[p].old + cache[p].left = CacheTtl
        /\ since[p] < CacheTtl => cache[p].left = CacheTtl - since[p]
    /\ \A r \in Hits : old[r] < CacheTtl

\* What is left of a stored answer and the age of its text are never more than the
\* two lifetimes.
RowsYoung ==
    \A k \in Keys : row[k].kind = "done" =>
        /\ phase[row[k].by] = "answered"
        /\ row[k].left > 0 => old[row[k].by] + row[k].left <= CacheTtl + Ttl

SparedHit == spared \subseteq Hits

AgeInv == TypeOK /\ MemoryOK /\ CacheYoung /\ RowsYoung /\ SparedHit

USE GatewayAssumption, ProcessesAssumption DEF Running, Of, Hits

LEMMA AncientNat == Ancient \in Nat /\ Ancient > CacheTtl + Ttl
  BY DEF Ancient

LEMMA AgeInit == BeginInit => AgeInv
<1>1. BeginInit => TypeOK
  BY TypeInit DEF BeginInit
<1>2. NoEntry \in Entries /\ NoEntry.left = 0
  BY AncientNat DEF NoEntry, Entries
<1>3. BeginInit => MemoryOK
  BY <1>2, AncientNat DEF BeginInit, MemoryOK, Sources
<1>4. BeginInit => CacheYoung /\ RowsYoung /\ SparedHit
  BY <1>2, AncientNat DEF BeginInit, Init, CacheYoung, RowsYoung, SparedHit, Free
<1> QED
  BY <1>1, <1>3, <1>4 DEF AgeInv

\* Rows that stay what they were stay young while the texts and phases behind them do.
LEMMA RowsStayYoung ==
    ASSUME AgeInv,
           \A k \in Keys : row'[k].kind = "done" => row'[k] = row[k],
           \A r \in Requests : phase[r] = "answered" => phase'[r] = "answered" /\ old'[r] = old[r]
    PROVE  RowsYoung'
<1>1. \A k \in Keys : row[k].kind = "done" => row[k].by \in Requests
  BY RowKinds DEF AgeInv, TypeOK, Free
<1> QED
  BY <1>1 DEF AgeInv, RowsYoung

LEMMA BeginStep ==
    ASSUME AgeInv, NEW r \in Requests, Begin(r)
    PROVE  MemoryOK' /\ CacheYoung' /\ RowsYoung' /\ SparedHit'
<1> DEFINE p == ProcessOf[r]
<1>0. TypeOK /\ MemoryOK /\ CacheYoung /\ SparedHit /\ Claim(r) /\ p \in Processes
  BY DEF AgeInv, Begin
<1>1. /\ source' = [source EXCEPT ![r] = From(p)]
      /\ old' = [old EXCEPT ![r] = IF From(p) = "cache" THEN cache[p].old ELSE Ancient]
      /\ spared' = IF since[p] < CacheTtl THEN spared \cup {r} ELSE spared
      /\ cache' = cache /\ since' = since
  BY DEF Begin
<1>2. /\ phase[r] = "idle" /\ phase' = [phase EXCEPT ![r] = "running"]
      /\ Evicted(row)[KeyOf[r]] = Free
      /\ row' = [Evicted(row) EXCEPT ![KeyOf[r]] = Pending(r)]
  BY <1>0 DEF Claim
<1>3. /\ From(p) \in Sources
      /\ From(p) = "cache" <=> cache[p].left > 0
  BY DEF From, Sources
<1>4. cache[p] \in Entries
  BY <1>0 DEF MemoryOK
<1>5. MemoryOK'
  BY <1>0, <1>1, <1>3, <1>4, AncientNat DEF MemoryOK, Entries
<1>6. CacheYoung'
  <2>1. ASSUME NEW q \in Requests, phase'[q] = "running", source'[q] = "cache"
        PROVE  old'[q] < CacheTtl
    <3>1. CASE q = r
      <4>1. cache[p].left > 0 /\ old'[r] = cache[p].old
        BY <1>0, <1>1, <1>3, <2>1, <3>1 DEF MemoryOK
      <4> QED
        BY <1>0, <1>4, <3>1, <4>1 DEF CacheYoung, Entries
    <3>2. CASE q # r
      BY <1>0, <1>1, <1>2, <2>1, <3>2 DEF CacheYoung, MemoryOK, TypeOK
    <3> QED
      BY <3>1, <3>2
  <2> QED
    BY <1>0, <1>1, <2>1 DEF CacheYoung
<1>7. RowsYoung'
  <2>1. ASSUME NEW k \in Keys, row'[k].kind = "done"
        PROVE  row'[k] = row[k]
    <3>1. k # KeyOf[r] /\ row'[k] = Evicted(row)[k]
      BY <1>0, <1>2, <2>1, EvictedType DEF Pending
    <3> QED
      BY <1>0, <2>1, <3>1, EvictionKeeps
  <2>2. \A q \in Requests : phase[q] = "answered" => phase'[q] = "answered" /\ old'[q] = old[q]
    BY <1>0, <1>1, <1>2 DEF MemoryOK, TypeOK
  <2> QED
    BY <2>1, <2>2, RowsStayYoung
<1>8. SparedHit'
  <2>1. CASE since[p] < CacheTtl
    <3>1. cache[p].left > 0
      BY <1>0, <2>1 DEF CacheYoung, MemoryOK
    <3>2. source'[r] = "cache" /\ phase'[r] = "running"
      BY <1>0, <1>1, <1>2, <1>3, <3>1 DEF MemoryOK, TypeOK
    <3>3. spared' = spared \cup {r}
      BY <1>1, <2>1
    <3>4. \A q \in Requests \ {r} : phase'[q] = phase[q] /\ source'[q] = source[q]
      BY <1>0, <1>1, <1>2 DEF MemoryOK, TypeOK
    <3> QED
      BY <1>0, <3>2, <3>3, <3>4 DEF SparedHit
  <2>2. CASE ~(since[p] < CacheTtl)
    <3>1. spared' = spared /\ r \notin spared
      BY <1>0, <1>1, <1>2, <2>2 DEF SparedHit
    <3>2. \A q \in Requests \ {r} : phase'[q] = phase[q] /\ source'[q] = source[q]
      BY <1>0, <1>1, <1>2 DEF MemoryOK, TypeOK
    <3> QED
      BY <1>0, <3>1, <3>2 DEF SparedHit
  <2> QED
    BY <2>1, <2>2
<1> QED
  BY <1>5, <1>6, <1>7, <1>8

LEMMA ReplyStep ==
    ASSUME AgeInv, NEW r \in Requests, Reply(r)
    PROVE  MemoryOK' /\ CacheYoung' /\ RowsYoung' /\ SparedHit'
<1>0. TypeOK /\ MemoryOK /\ CacheYoung /\ SparedHit
  BY DEF AgeInv
<1>1. /\ cache' = cache /\ source' = source /\ old' = old /\ since' = since /\ spared' = spared
      /\ row' = Evicted(row)
  BY DEF Reply, memory, Conflict, Replay
<1>2. \A q \in Requests : \/ phase'[q] = phase[q]
                          \/ phase[q] = "idle" /\ phase'[q] = "replayed"
  BY <1>0 DEF Reply, Conflict, Replay, TypeOK
<1>3. MemoryOK' /\ CacheYoung'
  BY <1>0, <1>1, <1>2 DEF MemoryOK, CacheYoung
<1>4. RowsYoung'
  BY <1>0, <1>1, <1>2, EvictionKeeps, RowsStayYoung
<1>5. SparedHit'
  BY <1>0, <1>1, <1>2 DEF SparedHit
<1> QED
  BY <1>3, <1>4, <1>5

\* What Finish and Break do to the caches and to the other requests.
LEMMA TextStep ==
    ASSUME AgeInv, NEW r \in Requests, phase[r] = "running", Leave({r}),
           NEW after \in Phases \ {"idle", "running"}, phase' = [phase EXCEPT ![r] = after],
           old' \in [Requests -> 0..Ancient], \A q \in Requests \ {r} : old'[q] = old[q],
           \/ UNCHANGED <<cache, since>>
           \/ source[r] = "provider" /\ Keep(r) /\ Receive(r)
    PROVE  MemoryOK' /\ CacheYoung' /\ SparedHit'
<1>0. TypeOK /\ MemoryOK /\ CacheYoung /\ SparedHit /\ ProcessOf[r] \in Processes
  BY DEF AgeInv
<1>1. \A q \in Requests : /\ phase'[q] = "running" => phase[q] = "running" /\ q # r
                          /\ q # r => phase'[q] = phase[q] /\ source'[q] = source[q]
  BY <1>0 DEF TypeOK, Leave
<1>2. SparedHit'
  BY <1>0, <1>1 DEF SparedHit, Leave
<1>3. source' \in [Requests -> Sources]
  BY <1>0 DEF MemoryOK, Leave, Sources
<1>4. \A q \in Hits' : old'[q] < CacheTtl
  BY <1>0, <1>1 DEF CacheYoung
<1>5. CASE UNCHANGED <<cache, since>>
  BY <1>0, <1>2, <1>3, <1>4, <1>5 DEF MemoryOK, CacheYoung
<1>6. CASE Keep(r) /\ Receive(r)
  <2>1. [left |-> CacheTtl, old |-> 0] \in Entries
    BY AncientNat DEF Entries
  <2>2. MemoryOK'
    BY <1>0, <1>3, <1>6, <2>1, AncientNat DEF MemoryOK, Keep, Receive
  <2>3. \A p \in Processes :
          /\ cache'[p].left > 0 => cache'[p].old + cache'[p].left = CacheTtl
          /\ since'[p] < CacheTtl => cache'[p].left = CacheTtl - since'[p]
    BY <1>0, <1>6, <2>1 DEF MemoryOK, CacheYoung, Keep, Receive
  <2> QED
    BY <1>2, <1>4, <2>2, <2>3 DEF CacheYoung
<1> QED
  BY <1>5, <1>6

LEMMA FinishStep ==
    ASSUME AgeInv, NEW r \in Requests, Finish(r)
    PROVE  /\ MemoryOK' /\ CacheYoung' /\ RowsYoung' /\ SparedHit'
           /\ old'[r] = 0 \/ old'[r] < CacheTtl
<1>0. TypeOK /\ MemoryOK /\ CacheYoung /\ RowsYoung
  BY DEF AgeInv
<1>1. /\ phase[r] = "running" /\ phase' = [phase EXCEPT ![r] = "answered"]
      /\ row' = Completed(row, r) /\ Leave({r})
      /\ old' = IF source[r] = "provider" THEN [old EXCEPT ![r] = 0] ELSE old
  BY DEF Finish, Answer
<1>2. \/ source[r] = "cache" /\ UNCHANGED <<cache, since>>
      \/ source[r] = "provider" /\ Keep(r) /\ Receive(r)
  BY DEF Finish, FromCache, FromProvider, Pay
<1>3. old'[r] = 0 \/ old'[r] < CacheTtl
  BY <1>0, <1>1, <1>2 DEF CacheYoung, MemoryOK
<1>4. \A q \in Requests \ {r} : old'[q] = old[q] /\ phase'[q] = phase[q]
  BY <1>0, <1>1 DEF MemoryOK, TypeOK
<1>5. old' \in [Requests -> 0..Ancient]
  BY <1>0, <1>1, AncientNat DEF MemoryOK
<1>6. MemoryOK' /\ CacheYoung' /\ SparedHit'
  <2>1. "answered" \in Phases \ {"idle", "running"}
    BY DEF Phases
  <2> QED
    BY <1>1, <1>2, <1>4, <1>5, <2>1, TextStep
<1>7. RowsYoung'
  <2>1. ASSUME NEW k \in Keys, row'[k].kind = "done"
        PROVE  /\ phase'[row'[k].by] = "answered"
               /\ row'[k].left > 0 => old'[row'[k].by] + row'[k].left <= CacheTtl + Ttl
    <3>1. row'[k] = row[k] \/ (k = KeyOf[r] /\ row'[k] = Done(r))
      <4>1. row'[k] \in {row[k], Evicted(row)[k]} \/ (k = KeyOf[r] /\ row'[k] = Done(r))
        BY <1>0, <1>1, EvictedType DEF Completed, TypeOK
      <4> QED
        BY <1>0, <2>1, <4>1, EvictionKeeps
    <3>2. CASE row'[k] = row[k]
      <4>1. row[k].by \in Requests /\ phase[row[k].by] = "answered"
        BY <1>0, <2>1, <3>2, RowKinds DEF RowsYoung, TypeOK, Free
      <4>2. row[k].by # r
        BY <1>1, <4>1
      <4> QED
        BY <1>0, <1>4, <2>1, <3>2, <4>1, <4>2 DEF RowsYoung
    <3>3. CASE row'[k] = Done(r)
      <4>1. row'[k].by = r /\ row'[k].left = Ttl /\ phase'[r] = "answered"
        BY <1>0, <1>1, <3>3 DEF Done, TypeOK
      <4>2. old'[r] \in Nat /\ old'[r] <= CacheTtl
        BY <1>6, <1>3 DEF MemoryOK
      <4> QED
        BY <4>1, <4>2
    <3> QED
      BY <3>1, <3>2, <3>3
  <2> QED
    BY <2>1 DEF RowsYoung
<1> QED
  BY <1>6, <1>3, <1>7

LEMMA BreakStep ==
    ASSUME AgeInv, NEW r \in Requests, Break(r)
    PROVE  MemoryOK' /\ CacheYoung' /\ RowsYoung' /\ SparedHit'
<1>0. TypeOK /\ MemoryOK
  BY DEF AgeInv
<1>1. /\ phase[r] = "running" /\ phase' = [phase EXCEPT ![r] = "failed"]
      /\ row' \in {Released(row, r), row} /\ Leave({r}) /\ Discard({r})
  BY DEF Break, Fail
<1>2. \/ UNCHANGED <<cache, since>>
      \/ source[r] = "provider" /\ Keep(r) /\ Receive(r)
  BY DEF Break, Unstored, NoAnswer, Unbooked, FromCache, FromProvider, Pay
<1>3. \A q \in Requests \ {r} : old'[q] = old[q] /\ phase'[q] = phase[q]
  BY <1>0, <1>1 DEF TypeOK, Discard
<1>4. old' \in [Requests -> 0..Ancient]
  BY <1>0, <1>1, AncientNat DEF MemoryOK, Discard
<1>5. MemoryOK' /\ CacheYoung' /\ SparedHit'
  <2>1. "failed" \in Phases \ {"idle", "running"}
    BY DEF Phases
  <2> QED
    BY <1>1, <1>2, <1>3, <1>4, <2>1, TextStep
<1>6. \A k \in Keys : row'[k].kind = "done" => row'[k] = row[k]
  BY <1>0, <1>1 DEF Released, Free, TypeOK
<1>7. RowsYoung'
  BY <1>1, <1>3, <1>6, RowsStayYoung
<1> QED
  BY <1>5, <1>7

LEMMA RestartStep ==
    ASSUME AgeInv, NEW p \in Processes, Restart(p)
    PROVE  MemoryOK' /\ CacheYoung' /\ RowsYoung' /\ SparedHit'
<1> DEFINE runs == Running \cap Of(p)
<1>0. TypeOK /\ MemoryOK /\ CacheYoung /\ SparedHit
  BY DEF AgeInv
<1>1. /\ cache' = [cache EXCEPT ![p] = NoEntry]
      /\ since' = [since EXCEPT ![p] = CacheTtl]
      /\ Leave(runs) /\ Discard(runs)
  BY DEF Restart
<1>2. /\ UNCHANGED row
      /\ \A q \in Requests : phase'[q] = IF q \in runs THEN "dead" ELSE phase[q]
  <2>1. CASE runs = {} /\ UNCHANGED vars
    BY <2>1 DEF vars
  <2>2. CASE Crash(runs)
    BY <2>2 DEF Crash
  <2> QED
    BY <2>1, <2>2 DEF Restart
<1>3. NoEntry \in Entries /\ NoEntry.left = 0
  BY AncientNat DEF NoEntry, Entries
<1>4. MemoryOK'
  BY <1>0, <1>1, <1>3, AncientNat DEF MemoryOK, Leave, Discard, Sources
<1>5. \A q \in Requests :
        phase'[q] = "running" => /\ phase[q] = "running" /\ source'[q] = source[q]
                                 /\ old'[q] = old[q] /\ q \notin runs
  BY <1>1, <1>2 DEF Leave, Discard
<1>6. CacheYoung'
  BY <1>0, <1>1, <1>3, <1>5, AncientNat DEF MemoryOK, CacheYoung
<1>7. RowsYoung'
  <2>1. \A q \in Requests : phase[q] = "answered" => phase'[q] = "answered" /\ old'[q] = old[q]
    BY <1>1, <1>2 DEF Discard
  <2> QED
    BY <1>2, <2>1, RowsStayYoung
<1>8. SparedHit'
  BY <1>0, <1>1, <1>2 DEF SparedHit, Leave
<1> QED
  BY <1>4, <1>6, <1>7, <1>8

LEMMA PassTimeStep ==
    ASSUME AgeInv, PassTime
    PROVE  MemoryOK' /\ CacheYoung' /\ RowsYoung' /\ SparedHit'
<1> DEFINE aged(e) == IF e.left <= 1 THEN NoEntry ELSE [left |-> e.left - 1, old |-> e.old + 1]
<1>0. TypeOK /\ MemoryOK /\ CacheYoung /\ RowsYoung /\ SparedHit
  BY DEF AgeInv
<1>1. /\ cache' = [p \in Processes |-> aged(cache[p])]
      /\ old' = [r \in Requests |-> IF old[r] < Ancient THEN old[r] + 1 ELSE Ancient]
      /\ since' = [p \in Processes |-> IF since[p] < CacheTtl THEN since[p] + 1 ELSE CacheTtl]
      /\ Hits = {} /\ UNCHANGED <<source, spared>>
  BY DEF PassTime
<1>2. UNCHANGED phase /\ row' = [k \in Keys |-> [row[k] EXCEPT !.left = IF @ = 0 THEN 0 ELSE @ - 1]]
  BY DEF PassTime, Tick
<1>3. NoEntry \in Entries /\ NoEntry.left = 0
  BY AncientNat DEF NoEntry, Entries
<1>4. ASSUME NEW p \in Processes
      PROVE  /\ aged(cache[p]) \in Entries
             /\ aged(cache[p]).left = IF cache[p].left = 0 THEN 0 ELSE cache[p].left - 1
             /\ aged(cache[p]).left > 0 => aged(cache[p]).old = cache[p].old + 1
  <2>1. cache[p] \in Entries
    BY <1>0 DEF MemoryOK
  <2>2. CASE cache[p].left <= 1
    BY <1>3, <2>1, <2>2 DEF Entries
  <2>3. CASE ~(cache[p].left <= 1)
    <3>1. cache[p].old + cache[p].left = CacheTtl
      BY <1>0, <2>1, <2>3 DEF CacheYoung, Entries
    <3> QED
      BY <2>1, <2>3, <3>1, AncientNat DEF Entries
  <2> QED
    BY <2>2, <2>3
<1> HIDE DEF aged
<1>5. \A p \in Processes : cache[p].left \in 0..CacheTtl /\ cache[p].old \in 0..Ancient
  BY <1>0 DEF MemoryOK, Entries
<1>6. MemoryOK'
  BY <1>0, <1>1, <1>4, AncientNat DEF MemoryOK
<1>7. CacheYoung'
  <2>1. ASSUME NEW p \in Processes, cache'[p].left > 0
        PROVE  cache'[p].old + cache'[p].left = CacheTtl
    <3>1. cache[p].left > 0 /\ cache'[p].left = cache[p].left - 1
      BY <1>1, <1>4, <1>5, <2>1
    <3>2. cache'[p].old = cache[p].old + 1
      BY <1>1, <1>4, <2>1
    <3> QED
      BY <1>0, <1>5, <3>1, <3>2 DEF CacheYoung
  <2>2. ASSUME NEW p \in Processes, since'[p] < CacheTtl
        PROVE  cache'[p].left = CacheTtl - since'[p]
    <3>1. since[p] \in 0..CacheTtl
      BY <1>0 DEF MemoryOK
    <3>2. since[p] < CacheTtl /\ since'[p] = since[p] + 1
      BY <1>1, <2>2, <3>1
    <3>3. cache[p].left = CacheTtl - since[p]
      BY <1>0, <3>2 DEF CacheYoung
    <3> QED
      BY <1>1, <1>4, <3>1, <3>2, <3>3
  <2>3. Hits' = {}
    BY <1>1, <1>2
  <2> QED
    BY <2>1, <2>2, <2>3 DEF CacheYoung
<1>8. RowsYoung'
  <2>1. ASSUME NEW k \in Keys, row'[k].kind = "done"
        PROVE  /\ phase'[row'[k].by] = "answered"
               /\ row'[k].left > 0 => old'[row'[k].by] + row'[k].left <= CacheTtl + Ttl
    <3>1. row[k] \in Rows
      BY <1>0 DEF TypeOK
    <3>2. row'[k] = [row[k] EXCEPT !.left = IF @ = 0 THEN 0 ELSE @ - 1]
      BY <1>2
    <3>3. row[k].kind = "done"
      BY <2>1, <3>1, <3>2 DEF Rows, Free
    <3>4. /\ row[k].by \in Requests /\ row[k].left \in 0..Ttl
          /\ row'[k].by = row[k].by
          /\ row'[k].left = IF row[k].left = 0 THEN 0 ELSE row[k].left - 1
      BY <3>1, <3>2, <3>3 DEF Rows, Free
    <3>5. /\ old[row[k].by] \in 0..Ancient
          /\ old'[row[k].by] = IF old[row[k].by] < Ancient THEN old[row[k].by] + 1 ELSE Ancient
      BY <1>0, <1>1, <3>4 DEF MemoryOK
    <3>6. /\ phase[row[k].by] = "answered"
          /\ row[k].left > 0 => old[row[k].by] + row[k].left <= CacheTtl + Ttl
      BY <1>0, <3>3 DEF RowsYoung
    <3> QED
      BY <1>2, <3>4, <3>5, <3>6, AncientNat
  <2> QED
    BY <2>1 DEF RowsYoung
<1>9. SparedHit'
  BY <1>0, <1>1, <1>2 DEF SparedHit
<1> QED
  BY <1>6, <1>7, <1>8, <1>9

\* The ages are kept by every step.
LEMMA AgeStep ==
    ASSUME AgeInv, [ProcessesNext]_processVars
    PROVE  AgeInv'
<1>1. TypeOK'
  BY StepIsGatewayStep, TypeStep DEF AgeInv
<1>2. ASSUME NEW r \in Requests, Begin(r) \/ Reply(r) \/ Finish(r) \/ Break(r)
      PROVE  MemoryOK' /\ CacheYoung' /\ RowsYoung' /\ SparedHit'
  BY <1>2, BeginStep, ReplyStep, FinishStep, BreakStep
<1>3. ASSUME NEW p \in Processes, Restart(p)
      PROVE  MemoryOK' /\ CacheYoung' /\ RowsYoung' /\ SparedHit'
  BY <1>3, RestartStep
<1>4. CASE PassTime
  BY <1>1, <1>4, PassTimeStep DEF AgeInv
<1>5. CASE UNCHANGED processVars \/ \E r \in Requests : AskFallback(r)
  <2>1. UNCHANGED <<row, phase, cache, source, old, since, spared>>
    BY <1>5 DEF AskFallback, FallBack, processVars, vars, memory
  <2> QED
    BY <1>1, <2>1 DEF AgeInv, MemoryOK, CacheYoung, RowsYoung, SparedHit
<1> QED
  BY <1>1, <1>2, <1>3, <1>4, <1>5 DEF AgeInv, ProcessesNext
-----------------------------------------------------------------------------
(* What follows *)

LEMMA FreshStep ==
    ASSUME AgeInv, [ProcessesNext]_processVars, NEW r \in Requests, got'[r] # got[r]
    PROVE  IF got'[r] = r THEN old'[r] = 0 \/ old'[r] < CacheTtl
           ELSE old[got'[r]] < CacheTtl + Ttl
<1>0. TypeOK /\ RowsYoung
  BY DEF AgeInv
<1>1. ASSUME NEW q \in Requests, Finish(q)
      PROVE  q = r /\ got'[r] = r
  BY <1>0, <1>1 DEF Finish, Answer, TypeOK
<1>2. ASSUME NEW q \in Requests, Reply(q)
      PROVE  got'[r] # r /\ old[got'[r]] < CacheTtl + Ttl
  <2>1. q = r /\ Replay(r)
    BY <1>0, <1>2 DEF Reply, Conflict, Replay, TypeOK
  <2> DEFINE k == KeyOf[r]
  <2>2. /\ phase[r] = "idle" /\ got'[r] = Evicted(row)[k].by
        /\ Evicted(row)[k].kind = "done" /\ k \in Keys
    BY <1>0, <2>1 DEF Replay, TypeOK
  <2>3. Evicted(row)[k] = row[k] /\ row[k].left # 0
    BY <2>2 DEF Evicted, Free
  <2>4. /\ row[k].by \in Requests /\ row[k].left \in 0..Ttl
        /\ phase[row[k].by] = "answered"
        /\ row[k].left > 0 => old[row[k].by] + row[k].left <= CacheTtl + Ttl
    <3>1. row[k] \in Rows
      BY <1>0, <2>2 DEF TypeOK
    <3> QED
      BY <1>0, <2>2, <2>3, <3>1 DEF RowsYoung, Rows, Free
  <2>5. old[row[k].by] \in Nat
    BY <2>4 DEF AgeInv, MemoryOK
  <2> QED
    BY <2>2, <2>3, <2>4, <2>5, AncientNat
<1>3. ASSUME NEW q \in Requests, Begin(q) \/ Break(q)
      PROVE  FALSE
  BY <1>3 DEF Begin, Claim, Break, Fail
<1>4. ASSUME NEW p \in Processes, Restart(p)
      PROVE  FALSE
  BY <1>4 DEF Restart, Crash, vars
<1>5. ~PassTime /\ ~UNCHANGED processVars /\ \A q \in Requests : ~AskFallback(q)
  BY DEF PassTime, Tick, AskFallback, FallBack, processVars, vars
<1> QED
  BY <1>1, <1>2, <1>3, <1>4, <1>5, FinishStep DEF ProcessesNext

\* No text is older than the lifetimes allow, whatever path it takes from a provider
\* to a client: _complete_cached does not renew the entry it was answered from.
THEOREM TextsStayFresh == ProcessesSpec => AnswersStayFresh
<1>1. AgeInv /\ [ProcessesNext]_processVars =>
        [\A r \in Requests :
            LET s == got'[r]
            IN  s # got[r] => IF s = r THEN old'[r] = 0 \/ old'[r] < CacheTtl
                              ELSE old[s] < CacheTtl + Ttl]_processVars
  BY FreshStep
<1> QED
  BY <1>1, AgeInit, AgeStep, PTL DEF ProcessesSpec, AnswersStayFresh

LEMMA SparedStep ==
    ASSUME AgeInv, [ProcessesNext]_processVars, NEW r \in spared,
           phase[r] = "running", phase'[r] # "running", phase'[r] # "dead"
    PROVE  spent' = spent
<1>0. TypeOK /\ r \in Requests /\ source[r] = "cache"
  BY DEF AgeInv, SparedHit
<1>1. ASSUME NEW q \in Requests, Finish(q) \/ Break(q)
      PROVE  q = r
  BY <1>0, <1>1 DEF Finish, Break, Answer, Fail, TypeOK
<1>2. ASSUME Finish(r)
      PROVE  UNCHANGED spent
  BY <1>0, <1>2 DEF Finish, FromCache, FromProvider, Pay
<1>3. ASSUME Break(r)
      PROVE  UNCHANGED spent
  BY <1>0, <1>3 DEF Break, Unstored, NoAnswer, Unbooked, FromCache, FromProvider, Pay
<1>4. ASSUME NEW q \in Requests, Begin(q) \/ Reply(q)
      PROVE  FALSE
  BY <1>0, <1>4 DEF Begin, Claim, Reply, Conflict, Replay, TypeOK
<1>5. ASSUME NEW p \in Processes, Restart(p)
      PROVE  FALSE
  BY <1>0, <1>5 DEF Restart, Crash, vars
<1>6. ~PassTime /\ ~UNCHANGED processVars /\ \A q \in Requests : ~AskFallback(q)
  BY DEF PassTime, Tick, AskFallback, FallBack, processVars, vars
<1> QED
  BY <1>1, <1>2, <1>3, <1>4, <1>5, <1>6 DEF ProcessesNext

LEMMA SparedIsUnpaid ==
    ASSUME AgeInv, [ProcessesNext]_processVars, NEW r \in spared, r \in paid'
    PROVE  r \in paid
<1>1. source[r] = "cache"
  BY DEF AgeInv, SparedHit
<1>2. ASSUME NEW q \in Requests, AskFallback(q)
      PROVE  paid' = paid \cup {q} /\ q # r
  BY <1>1, <1>2 DEF AskFallback, FallBack
<1>3. ASSUME NEW q \in Requests, Begin(q) \/ Reply(q) \/ Finish(q) \/ Break(q)
      PROVE  paid' \subseteq paid
  BY <1>3 DEF Begin, Reply, Finish, Break, Claim, Conflict, Replay, Answer, Fail
<1>4. ASSUME NEW p \in Processes, Restart(p)
      PROVE  paid' \subseteq paid
  BY <1>4 DEF Restart, Crash, vars
<1>5. CASE PassTime \/ UNCHANGED processVars
  BY <1>5 DEF PassTime, Tick, processVars, vars
<1> QED
  BY <1>2, <1>3, <1>4, <1>5 DEF ProcessesNext

\* A duplicate that comes while the answer is cached is never paid for again, also
\* when the first request failed after its answer was cached or lost its claim.
THEOREM DuplicatesArePaidOnce == ProcessesSpec => NotPaidAgain
<1>1. AgeInv /\ [ProcessesNext]_processVars =>
        [\A r \in spared :
            /\ phase[r] = "running" /\ phase'[r] # "running" /\ phase'[r] # "dead"
               => spent' = spent
            /\ r \in paid' => r \in paid]_processVars
  BY SparedStep, SparedIsUnpaid
<1> QED
  BY <1>1, AgeInit, AgeStep, PTL DEF ProcessesSpec, NotPaidAgain
-----------------------------------------------------------------------------
(* The ledger *)

\* With what it has in flight a life of a process stays within its allowance: the
\* budget was not used up when the last of its calls began.
Kept(p) ==
    /\ IsFiniteSet(Calls(p))
    /\ Cardinality(Calls(p)) <= most[p]
    /\ spent[p] + Cardinality(Calls(p)) <= Allowance(p)

\* Every row of the ledger is in the budget of a process, or was allowed to a life
\* that has ended.
LedgerCovered == ledger <= allowed + SumOf(spent, Processes)

LedgerInv ==
    /\ AgeInv
    /\ spent \in [Processes -> Nat] /\ most \in [Processes -> Nat]
    /\ allowed \in Nat /\ ledger \in Nat
    /\ \A p \in Processes : Kept(p)
    /\ LedgerCovered

LEMMA LedgerInit == BeginInit => LedgerInv
<1>1. SUFFICES ASSUME BeginInit PROVE LedgerInv
  OBVIOUS
<1>2. \A p \in Processes : Calls(p) = {}
  BY <1>1 DEF BeginInit, Init, Calls
<1>3. \A p \in Processes : Kept(p)
  BY <1>1, <1>2, FS_EmptySet DEF BeginInit, Kept, Allowance
<1>4. \A p \in Processes : spent[p] \in Nat
  BY <1>1 DEF BeginInit
<1>5. SumOf(spent, Processes) \in Nat
  BY <1>4, SumNat
<1> QED
  BY <1>1, <1>3, <1>5, AgeInit DEF BeginInit, LedgerInv, LedgerCovered

LEMMA KeptSame ==
    ASSUME NEW p \in Processes, Kept(p),
           spent'[p] = spent[p], most'[p] = most[p], Calls(p)' = Calls(p)
    PROVE  Kept(p)'
  BY DEF Kept, Allowance

\* A run that is over makes room for what it has cost.
LEMMA KeptEnds ==
    ASSUME NEW p \in Processes, Kept(p), spent[p] \in Nat, most[p] \in Nat, most'[p] = most[p],
           NEW r \in Calls(p), Calls(p)' = Calls(p) \ {r}, spent'[p] \in {spent[p], spent[p] + 1}
    PROVE  Kept(p)'
<1> DEFINE n == Cardinality(Calls(p))
<1>1. n \in Nat /\ Cardinality(Calls(p)') = n - 1 /\ IsFiniteSet(Calls(p)')
  BY FS_RemoveElement, FS_CardinalityType DEF Kept
<1>2. Allowance(p)' = Allowance(p) /\ Allowance(p) \in Int
  BY DEF Allowance
<1>3. n <= most[p] /\ spent[p] + n <= Allowance(p)
  BY DEF Kept
<1> HIDE DEF n
<1> QED
  BY <1>1, <1>2, <1>3 DEF Kept

LEMMA BeginKeeps ==
    ASSUME LedgerInv, NEW r \in Requests, Begin(r)
    PROVE  /\ most' \in [Processes -> Nat]
           /\ \A q \in Processes : Kept(q)'
<1> DEFINE p == ProcessOf[r]
           n == Cardinality(Calls(p))
<1>0. /\ TypeOK /\ MemoryOK /\ p \in Processes /\ Kept(p)
      /\ spent \in [Processes -> Nat] /\ most \in [Processes -> Nat]
  BY DEF LedgerInv, AgeInv
<1>1. /\ source' = [source EXCEPT ![r] = From(p)] /\ UNCHANGED spent
      /\ most' = [most EXCEPT ![p] = IF From(p) = "provider" /\ n + 1 > @ THEN n + 1 ELSE @]
      /\ phase[r] = "idle" /\ phase' = [phase EXCEPT ![r] = "running"]
      /\ paid' = paid /\ r \notin paid
  BY <1>0 DEF Begin, Claim, TypeOK
<1>2. n \in Nat /\ IsFiniteSet(Calls(p)) /\ n <= most[p] /\ spent[p] + n <= Allowance(p)
  BY <1>0, FS_CardinalityType DEF Kept
<1>3. most' \in [Processes -> Nat]
  BY <1>0, <1>1, <1>2
<1>4. \A q \in Requests \ {r} : phase'[q] = phase[q] /\ source'[q] = source[q]
  BY <1>0, <1>1 DEF TypeOK, MemoryOK
<1>5. phase'[r] = "running" /\ source'[r] = From(p)
  BY <1>0, <1>1 DEF TypeOK, MemoryOK
<1>6. ASSUME NEW q \in Processes, q # p
      PROVE  Kept(q)'
  <2>1. Calls(q)' = Calls(q)
    BY <1>1, <1>4, <1>6 DEF Calls
  <2>2. most'[q] = most[q] /\ Kept(q)
    BY <1>0, <1>1, <1>6 DEF LedgerInv
  <2> QED
    BY <1>1, <2>1, <2>2, KeptSame
<1>7. Kept(p)'
  <2>1. CASE From(p) # "provider"
    <3>1. Calls(p)' = Calls(p)
      BY <1>1, <1>4, <1>5, <2>1 DEF Calls
    <3>2. most'[p] = most[p]
      BY <1>0, <1>1, <2>1
    <3> QED
      BY <1>0, <1>1, <3>1, <3>2, KeptSame
  <2>2. CASE From(p) = "provider"
    <3>1. spent[p] + 1 <= Cap
      BY <2>2 DEF From
    <3>2. Calls(p)' = Calls(p) \cup {r} /\ r \notin Calls(p)
      BY <1>1, <1>4, <1>5, <2>2 DEF Calls
    <3>3. IsFiniteSet(Calls(p)') /\ Cardinality(Calls(p)') = n + 1
      BY <1>2, <3>2, FS_AddElement
    <3>4. most'[p] = IF n + 1 > most[p] THEN n + 1 ELSE most[p]
      BY <1>0, <1>1, <2>2
    <3>5. spent[p] \in Nat /\ most[p] \in Nat
      BY <1>0
    <3> HIDE DEF n, p
    <3>6. n + 1 <= most'[p] /\ most'[p] # 0 /\ most'[p] \in Nat
      BY <1>2, <3>4, <3>5
    <3>7. Allowance(p)' = Cap + most'[p] - 1
      BY <3>6 DEF Allowance
    <3> QED
      BY <1>1, <1>2, <3>1, <3>3, <3>5, <3>6, <3>7 DEF Kept
  <2> QED
    BY <2>1, <2>2
<1> QED
  BY <1>3, <1>6, <1>7

\* A row of the ledger is covered by the charge that goes with it.
LEMMA CostIsCovered ==
    ASSUME LedgerInv, NEW p \in Processes, spent'[p] = spent[p] + 1,
           \A q \in Processes \ {p} : spent'[q] = spent[q],
           ledger' \in {ledger, ledger + 1}, UNCHANGED allowed
    PROVE  LedgerCovered'
<1>0. /\ spent \in [Processes -> Nat] /\ allowed \in Nat /\ ledger \in Nat
      /\ ledger <= allowed + SumOf(spent, Processes)
  BY DEF LedgerInv, LedgerCovered
<1>1. /\ \A q \in Processes : spent[q] \in Int /\ spent'[q] \in Int
      /\ \A q \in Processes \ {p} : spent'[q] = spent[q]
      /\ spent'[p] = spent[p] + 1 /\ spent[p] \in Int
  BY <1>0
<1>2. SumOf(spent', Processes) = SumOf(spent, Processes) - spent[p] + spent'[p]
  BY <1>1, SumChanges
<1>3. SumOf(spent, Processes) \in Int
  BY <1>1, SumTakes
<1>4. SumOf(spent', Processes) = SumOf(spent, Processes) + 1
  BY <1>1, <1>2, <1>3
<1> QED
  BY <1>0, <1>3, <1>4 DEF LedgerCovered

\* Finish and Break end one run, and what it has cost is on the books.
LEMMA EndKeeps ==
    ASSUME LedgerInv, NEW r \in Requests, phase[r] = "running", Leave({r}), UNCHANGED <<most, allowed>>,
           NEW after \in Phases \ {"idle", "running"}, phase' = [phase EXCEPT ![r] = after],
           paid' \in {paid, paid \ {r}},
           \/ UNCHANGED <<spent, ledger>>
           \/ /\ source[r] = "provider" /\ r \notin paid /\ spent' = [spent EXCEPT ![ProcessOf[r]] = @ + 1]
              /\ ledger' \in {ledger, ledger + 1}
    PROVE  /\ spent' \in [Processes -> Nat] /\ ledger' \in Nat
           /\ \A q \in Processes : Kept(q)'
           /\ LedgerCovered'
<1> DEFINE p == ProcessOf[r]
<1>0. /\ TypeOK /\ MemoryOK /\ p \in Processes
      /\ spent \in [Processes -> Nat] /\ most \in [Processes -> Nat]
      /\ allowed \in Nat /\ ledger \in Nat
  BY DEF LedgerInv, AgeInv
<1>1. spent' \in [Processes -> Nat] /\ ledger' \in Nat
  BY <1>0
<1>2. /\ \A q \in Requests \ {r} : phase'[q] = phase[q] /\ source'[q] = source[q]
      /\ \A q \in Requests \ {r} : q \in paid' <=> q \in paid
  BY <1>0 DEF TypeOK, Leave
<1>3. phase'[r] # "running"
  BY <1>0 DEF TypeOK
<1>4. \A q \in Processes : Calls(q)' = Calls(q) \ {r}
  BY <1>2, <1>3 DEF Calls
<1>5. ASSUME NEW q \in Processes
      PROVE  Kept(q)'
  <2>0. Kept(q) /\ most'[q] = most[q] /\ spent[q] \in Nat /\ most[q] \in Nat
    BY <1>0 DEF LedgerInv
  <2>1. CASE r \in Calls(q)
    <3>1. spent'[q] \in {spent[q], spent[q] + 1}
      BY <1>0, <2>1 DEF Calls
    <3> QED
      BY <1>4, <2>0, <2>1, <3>1, KeptEnds
  <2>2. CASE r \notin Calls(q)
    <3>1. Calls(q)' = Calls(q)
      BY <1>4, <2>2
    <3>2. spent'[q] = spent[q]
      BY <1>0, <2>2 DEF Calls
    <3> QED
      BY <2>0, <3>1, <3>2, KeptSame
  <2> QED
    BY <2>1, <2>2
<1>6. LedgerCovered'
  <2>0. ledger <= allowed + SumOf(spent, Processes)
    BY DEF LedgerInv, LedgerCovered
  <2>1. CASE UNCHANGED <<spent, ledger>>
    BY <2>0, <2>1 DEF LedgerCovered
  <2>2. CASE /\ spent' = [spent EXCEPT ![p] = @ + 1]
             /\ ledger' \in {ledger, ledger + 1}
    <3>1. spent'[p] = spent[p] + 1 /\ \A q \in Processes \ {p} : spent'[q] = spent[q]
      BY <1>0, <2>2
    <3> HIDE DEF p
    <3> QED
      BY <1>0, <2>2, <3>1, CostIsCovered
  <2> QED
    BY <2>1, <2>2
<1> QED
  BY <1>1, <1>5, <1>6

\* A run that is charged makes room for what it has cost.
LEMMA FallbackKeeps ==
    ASSUME LedgerInv, NEW r \in Requests, AskFallback(r)
    PROVE  /\ spent' \in [Processes -> Nat] /\ ledger' \in Nat
           /\ \A q \in Processes : Kept(q)'
           /\ LedgerCovered'
<1> DEFINE p == ProcessOf[r]
<1>0. /\ p \in Processes /\ spent \in [Processes -> Nat] /\ most \in [Processes -> Nat]
      /\ ledger \in Nat /\ Kept(p)
  BY DEF LedgerInv
<1>1. /\ spent' = [spent EXCEPT ![p] = @ + 1] /\ ledger' \in {ledger, ledger + 1}
      /\ UNCHANGED <<source, phase, most, allowed>>
      /\ phase[r] = "running" /\ source[r] = "provider"
      /\ r \notin paid /\ paid' = paid \cup {r}
  BY DEF AskFallback, FallBack, Bill
<1>2. r \in Calls(p) /\ Calls(p)' = Calls(p) \ {r}
  BY <1>1 DEF Calls
<1>3. ASSUME NEW q \in Processes, q # p
      PROVE  Kept(q)'
  <2>1. spent'[q] = spent[q] /\ most'[q] = most[q] /\ Kept(q)
    BY <1>0, <1>1, <1>3 DEF LedgerInv
  <2>2. Calls(q)' = Calls(q)
    BY <1>1, <1>3 DEF Calls
  <2> QED
    BY <2>1, <2>2, KeptSame
<1>4. Kept(p)'
  <2>1. spent'[p] \in {spent[p], spent[p] + 1} /\ spent[p] \in Nat /\ most[p] \in Nat
        /\ most'[p] = most[p]
    BY <1>0, <1>1
  <2> HIDE DEF p
  <2> QED
    BY <1>0, <1>2, <2>1, KeptEnds
<1>5. LedgerCovered'
  <2>1. spent'[p] = spent[p] + 1 /\ \A q \in Processes \ {p} : spent'[q] = spent[q]
    BY <1>0, <1>1
  <2> HIDE DEF p
  <2> QED
    BY <1>0, <1>1, <2>1, CostIsCovered
<1> QED
  BY <1>0, <1>1, <1>3, <1>4, <1>5

LEMMA RestartKeeps ==
    ASSUME LedgerInv, NEW p \in Processes, Restart(p)
    PROVE  /\ spent' \in [Processes -> Nat] /\ most' \in [Processes -> Nat]
           /\ allowed' \in Nat /\ ledger' \in Nat
           /\ \A q \in Processes : Kept(q)'
           /\ LedgerCovered'
<1> DEFINE runs == Running \cap Of(p)
           n == Cardinality(Calls(p))
<1>0. /\ TypeOK /\ MemoryOK /\ Kept(p)
      /\ spent \in [Processes -> Nat] /\ most \in [Processes -> Nat]
      /\ allowed \in Nat /\ ledger \in Nat
      /\ ledger <= allowed + SumOf(spent, Processes)
  BY DEF LedgerInv, AgeInv, LedgerCovered
<1>1. /\ spent' = [spent EXCEPT ![p] = 0] /\ most' = [most EXCEPT ![p] = 0]
      /\ allowed' = allowed + Allowance(p) /\ Leave(runs)
  BY DEF Restart
<1>2. /\ \A q \in Requests : phase'[q] = IF q \in runs THEN "dead" ELSE phase[q]
      /\ paid' = paid \ runs
  BY DEF Restart, Crash, vars
<1>3. ledger' = ledger \/ (ledger' = ledger + 1 /\ Calls(p) # {})
  BY DEF Restart, Lost, Calls, Bill
<1>4. n \in Nat /\ (Calls(p) # {} => n >= 1) /\ spent[p] + n <= Allowance(p)
  <2>1. IsFiniteSet(Calls(p)) /\ spent[p] + n <= Allowance(p)
    BY <1>0 DEF Kept
  <2>2. n \in Nat /\ (Calls(p) # {} => n # 0)
    BY <2>1, FS_CardinalityType, FS_EmptySet
  <2> QED
    BY <2>1, <2>2
<1>5. Allowance(p) \in Nat
  BY <1>0 DEF Allowance
<1>6. /\ spent' \in [Processes -> Nat] /\ most' \in [Processes -> Nat]
      /\ allowed' \in Nat /\ ledger' \in Nat
  BY <1>0, <1>1, <1>3, <1>5
<1>7. ASSUME NEW q \in Processes, q # p
      PROVE  Kept(q)'
  <2>1. Calls(q)' = Calls(q)
    <3>1. \A r \in Of(q) : /\ phase'[r] = phase[r] /\ source'[r] = source[r]
                           /\ r \in paid' <=> r \in paid
      BY <1>1, <1>2, <1>7 DEF Leave
    <3> QED
      BY <3>1 DEF Calls
  <2> QED
    BY <1>0, <1>1, <1>7, <2>1, KeptSame DEF LedgerInv
<1>8. Kept(p)'
  <2>1. Calls(p)' = {}
    BY <1>2 DEF Calls
  <2>2. spent'[p] = 0 /\ most'[p] = 0
    BY <1>0, <1>1
  <2> QED
    BY <2>1, <2>2, FS_EmptySet DEF Kept, Allowance
<1>9. LedgerCovered'
  <2>1. /\ \A q \in Processes : spent[q] \in Int /\ spent'[q] \in Int
        /\ \A q \in Processes \ {p} : spent'[q] = spent[q]
        /\ spent'[p] = 0 /\ spent[p] \in Nat
    BY <1>0, <1>1
  <2>2. SumOf(spent', Processes) = SumOf(spent, Processes) - spent[p] + spent'[p]
    BY <2>1, SumChanges
  <2>3. SumOf(spent, Processes) \in Int
    BY <2>1, SumTakes
  <2>4. ledger' <= ledger + Allowance(p) - spent[p]
    <3> HIDE DEF n
    <3> QED
      BY <1>0, <1>3, <1>4, <1>5, <2>1
  <2> QED
    BY <1>0, <1>1, <1>5, <1>6, <2>1, <2>2, <2>3, <2>4 DEF LedgerCovered
<1> QED
  BY <1>6, <1>7, <1>8, <1>9

LEMMA LedgerStep ==
    ASSUME LedgerInv, [ProcessesNext]_processVars
    PROVE  LedgerInv'
<1>0. AgeInv /\ AgeInv'
  BY AgeStep DEF LedgerInv
<1>1. ASSUME NEW r \in Requests, Begin(r)
      PROVE  LedgerInv'
  <2>1. UNCHANGED <<spent, ledger, allowed>>
    BY <1>1 DEF Begin
  <2>2. most' \in [Processes -> Nat] /\ \A q \in Processes : Kept(q)'
    BY <1>1, BeginKeeps
  <2> QED
    BY <1>0, <2>1, <2>2 DEF LedgerInv, LedgerCovered
<1>2. ASSUME NEW r \in Requests, Finish(r)
      PROVE  LedgerInv'
  <2>1. /\ phase[r] = "running" /\ Leave({r}) /\ UNCHANGED <<most, allowed>>
        /\ phase' = [phase EXCEPT ![r] = "answered"] /\ paid' = paid
    BY <1>2 DEF Finish, Answer
  <2>2. \/ UNCHANGED <<spent, ledger>>
        \/ /\ source[r] = "provider" /\ r \notin paid
           /\ spent' = [spent EXCEPT ![ProcessOf[r]] = @ + 1]
           /\ ledger' \in {ledger, ledger + 1}
    BY <1>2 DEF Finish, FromCache, FromProvider, Pay, Bill
  <2>3. "answered" \in Phases \ {"idle", "running"}
    BY DEF Phases
  <2>4. /\ spent' \in [Processes -> Nat] /\ ledger' \in Nat
        /\ \A q \in Processes : Kept(q)'
        /\ LedgerCovered'
    BY <2>1, <2>2, <2>3, EndKeeps
  <2> QED
    BY <1>0, <2>1, <2>4 DEF LedgerInv
<1>3. ASSUME NEW r \in Requests, Break(r)
      PROVE  LedgerInv'
  <2>1. /\ phase[r] = "running" /\ Leave({r}) /\ UNCHANGED <<most, allowed>>
        /\ phase' = [phase EXCEPT ![r] = "failed"] /\ paid' = paid \ {r}
    BY <1>3 DEF Break, Fail
  <2>2. \/ UNCHANGED <<spent, ledger>>
        \/ /\ source[r] = "provider" /\ r \notin paid
           /\ spent' = [spent EXCEPT ![ProcessOf[r]] = @ + 1]
           /\ ledger' \in {ledger, ledger + 1}
    BY <1>3 DEF Break, Unstored, NoAnswer, Unbooked, FromCache, FromProvider, Pay, Bill
  <2>3. "failed" \in Phases \ {"idle", "running"}
    BY DEF Phases
  <2>4. /\ spent' \in [Processes -> Nat] /\ ledger' \in Nat
        /\ \A q \in Processes : Kept(q)'
        /\ LedgerCovered'
    BY <2>1, <2>2, <2>3, EndKeeps
  <2> QED
    BY <1>0, <2>1, <2>4 DEF LedgerInv
<1>9. ASSUME NEW r \in Requests, AskFallback(r)
      PROVE  LedgerInv'
  <2>1. UNCHANGED <<most, allowed>>
    BY <1>9 DEF AskFallback
  <2> QED
    BY <1>0, <1>9, <2>1, FallbackKeeps DEF LedgerInv
<1>4. ASSUME NEW p \in Processes, Restart(p)
      PROVE  LedgerInv'
  BY <1>0, <1>4, RestartKeeps DEF LedgerInv
<1>5. ASSUME UNCHANGED <<spent, ledger, most, allowed, source, paid>>,
             \A r \in Requests : phase'[r] = "running" <=> phase[r] = "running"
      PROVE  LedgerInv'
  <2>1. ASSUME NEW p \in Processes
        PROVE  Kept(p)'
    <3>1. Calls(p)' = Calls(p)
      BY <1>5 DEF Calls
    <3> QED
      BY <1>5, <3>1, KeptSame DEF LedgerInv
  <2> QED
    BY <1>0, <1>5, <2>1 DEF LedgerInv, LedgerCovered
<1>6. ASSUME NEW r \in Requests, Reply(r)
      PROVE  LedgerInv'
  <2>1. UNCHANGED <<spent, ledger, most, allowed, source, paid>>
    BY <1>6 DEF Reply, Conflict, Replay, memory
  <2>2. \A q \in Requests : phase'[q] = "running" <=> phase[q] = "running"
    BY <1>0, <1>6 DEF Reply, Conflict, Replay, AgeInv, TypeOK
  <2> QED
    BY <1>5, <2>1, <2>2
<1>7. CASE PassTime
  BY <1>5, <1>7 DEF PassTime, Tick
<1>8. CASE UNCHANGED processVars
  BY <1>5, <1>8 DEF processVars, vars, memory
<1> QED
  BY <1>1, <1>2, <1>3, <1>4, <1>6, <1>7, <1>8, <1>9 DEF ProcessesNext

LEMMA AllowancesAdd ==
    ASSUME \A p \in Processes : Allowance(p) \in Int
    PROVE  MapThenSumSet(Allowance, Processes) =
               SumOf([p \in Processes |-> Allowance(p)], Processes)
<1> DEFINE f == [p \in Processes |-> Allowance(p)]
           folds(g) == g = [T \in SUBSET Processes |->
                               IF T = {} THEN 0
                               ELSE Allowance(Taken(T)) + g[T \ {Taken(T)}]]
<1>1. \A p \in Processes : f[p] \in Int /\ f[p] = Allowance(p)
  OBVIOUS
<1> HIDE DEF f
<1>2. ASSUME NEW g
      PROVE  folds(g) <=> IsSum(g, f, Processes)
  <2>1. \A T \in SUBSET Processes : T # {} => f[Taken(T)] = Allowance(Taken(T))
    BY <1>1 DEF Taken
  <2>2. [T \in SUBSET Processes |->
           IF T = {} THEN 0 ELSE Allowance(Taken(T)) + g[T \ {Taken(T)}]]
        = [T \in SUBSET Processes |-> IF T = {} THEN 0 ELSE f[Taken(T)] + g[T \ {Taken(T)}]]
    BY <2>1
  <2> QED
    BY Zenon, <2>2 DEF IsSum
<1>3. MapThenSumSet(Allowance, Processes) = (CHOOSE g : folds(g))[Processes]
  BY DEF MapThenSumSet, MapThenFoldSet, Taken
<1>4. \E g : folds(g)
  <2>1. \E g : IsSum(g, f, Processes)
    BY <1>1, SumExists
  <2> HIDE DEF folds
  <2> QED
    BY <1>2, <2>1
<1> HIDE DEF folds
<1>5. IsSum(CHOOSE g : folds(g), f, Processes)
  BY <1>2, <1>4
<1> QED
  BY <1>1, <1>3, <1>5, SumIs DEF f

\* A restart forgets what was spent, and nothing else does: whatever fails or is
\* lost between a charge and its answer, the ledger shows no more than one budget
\* for each life of a process and what was in flight when it was used up.
THEOREM LedgerStaysBounded == ProcessesSpec => []LedgerBounded
<1>1. LedgerInv => LedgerBounded
  <2> SUFFICES ASSUME LedgerInv PROVE LedgerBounded
    OBVIOUS
  <2> DEFINE f == [p \in Processes |-> Allowance(p)]
  <2>1. ASSUME NEW p \in Processes
        PROVE  spent[p] \in Int /\ Allowance(p) \in Int /\ spent[p] <= Allowance(p)
    <3>1. Kept(p) /\ spent[p] \in Nat /\ most[p] \in Nat
      BY DEF LedgerInv
    <3>2. Cardinality(Calls(p)) \in Nat
      BY <3>1, FS_CardinalityType DEF Kept
    <3> QED
      BY <3>1, <3>2 DEF Kept, Allowance
  <2>2. \A p \in Processes : f[p] \in Int /\ spent[p] <= f[p]
    BY <2>1
  <2>3. MapThenSumSet(Allowance, Processes) = SumOf(f, Processes)
    BY <2>1, AllowancesAdd
  <2> HIDE DEF f
  <2>4. SumOf(spent, Processes) <= SumOf(f, Processes)
    BY <2>1, <2>2, SumMonotone
  <2>5. SumOf(spent, Processes) \in Int /\ SumOf(f, Processes) \in Int
    BY <2>1, <2>2, SumTakes
  <2> QED
    BY <2>3, <2>4, <2>5 DEF LedgerInv, LedgerCovered, LedgerBounded
<1> QED
  BY <1>1, LedgerInit, LedgerStep, PTL DEF ProcessesSpec
===============================================================================
