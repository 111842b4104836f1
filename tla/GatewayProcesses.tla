--------------------------- MODULE GatewayProcesses ---------------------------
(***************************************************************************)
(* The gateway as it is deployed: several processes over one idempotency   *)
(* table and one spend ledger, each with a response cache and a budget of  *)
(* its own in memory.  A run of IdempotentGateway is told apart here by    *)
(* where its answer comes from: _complete_cached (src/api/main.py) looks   *)
(* into the cache before the router awaits a provider, and writes to it    *)
(* after; the budget is checked and charged around the same await.         *)
(*                                                                         *)
(* All requests are equal and of one tenant, so that they have one cache   *)
(* key and one budget, and every answer costs 1.  Streams use neither the  *)
(* cache nor a claim and are left out.                                     *)
(***************************************************************************)
EXTENDS IdempotentGateway, FiniteSetsExt

CONSTANTS
    Processes,
    ProcessOf,      \* [Requests -> Processes]: the one that serves a request
    CacheTtl,       \* response_cache_ttl_seconds, in ticks; 0 if it is off
    Cap             \* the budget of the tenant

ASSUME ProcessesAssumption ==
    /\ IsFiniteSet(Processes)
    /\ ProcessOf \in [Requests -> Processes]
    /\ CacheTtl \in Nat
    /\ Cap \in Nat
    /\ Streams = {}

VARIABLES
    cache,          \* the entry of each process: what is left of it, and its text
    spent,          \* the budget of each process
    ledger,         \* rows of the spend ledger
    source,         \* where the run of a request takes its answer from
    old,            \* history: ticks since the text of an answer was generated
    since,          \* history: ticks since a provider answered a life of a process,
                    \* as long as they are fewer than the lifetime of an entry
    spared,         \* history: those running that began a short while after that
    most,           \* history: the most runs of a life with a provider at once
    allowed         \* history: what the lives that have ended might have spent

memory == <<cache, spent, ledger, source, old, since, spared, most, allowed>>

processVars == <<vars, memory>>

\* Bound of the model: texts older than this are of one age.
Ancient == CacheTtl + Ttl + 1

NoEntry == [left |-> 0, old |-> Ancient]

Sources == {"nowhere", "cache", "provider", "nobody"}

Of(p) == {r \in Requests : ProcessOf[r] = p}

Hits == {r \in Running : source[r] = "cache"}

\* With a provider of process p, and not charged yet.
Calls(p) == {r \in (Running \cap Of(p)) \ paid : source[r] = "provider"}

\* A run that is answered from the cache awaits nothing: the event loop of its
\* process does nothing else before it ends.
Turn(p) == Hits \cap Of(p) = {}

\* What a life of process p may spend: the budget, and what was in flight when it
\* was used up.
Allowance(p) == IF most[p] = 0 THEN 0 ELSE Cap + most[p] - 1
-----------------------------------------------------------------------------
BeginInit ==
    /\ Init
    /\ cache = [p \in Processes |-> NoEntry]
    /\ spent = [p \in Processes |-> 0]
    /\ ledger = 0
    /\ source = [r \in Requests |-> "nowhere"]
    /\ old = [r \in Requests |-> Ancient]
    /\ since = [p \in Processes |-> CacheTtl]
    /\ spared = {}
    /\ most = [p \in Processes |-> 0]
    /\ allowed = 0

\* fault: the budget is not looked at
FromAnyone(p) == IF cache[p].left > 0 THEN "cache" ELSE "provider"

\* ResponseCache.get, then assert_can_spend.
From(p) ==
    IF cache[p].left > 0 THEN "cache" ELSE IF spent[p] + 1 <= Cap THEN "provider" ELSE "nobody"

\* The handler claims its key, looks into the cache and reaches a provider at once.
Begin(r) ==
    LET p == ProcessOf[r]
        calls == Cardinality(Calls(p)) + 1
    IN  /\ Turn(p) /\ Claim(r)
        /\ source' = [source EXCEPT ![r] = From(p)]
        /\ old' = [old EXCEPT ![r] = IF From(p) = "cache" THEN cache[p].old ELSE Ancient]
        /\ spared' = IF since[p] < CacheTtl THEN spared \cup {r} ELSE spared
        /\ most' = [most EXCEPT ![p] = IF From(p) = "provider" /\ calls > @ THEN calls ELSE @]
        /\ UNCHANGED <<cache, spent, ledger, since, allowed>>

\* Refused or replayed without a run.
Reply(r) ==
    /\ Turn(ProcessOf[r])
    /\ Conflict(r) \/ Replay(r)
    /\ UNCHANGED memory

\* _respond: the budget is charged, then the ledger written.
Pay(r) ==
    /\ source[r] = "provider"
    /\ Bill(r)
    /\ spent' = [spent EXCEPT ![ProcessOf[r]] = @ + 1]
    /\ ledger' = ledger + 1

\* complete returns what a provider answered.
Receive(r) == since' = [since EXCEPT ![ProcessOf[r]] = 0]

\* ResponseCache.set
Keep(r) == cache' = [cache EXCEPT ![ProcessOf[r]] = [left |-> CacheTtl, old |-> 0]]

\* fault: an answer from the cache is written to it again
KeepAgain(r) ==
    /\ source[r] = "cache"
    /\ cache' = [cache EXCEPT ![ProcessOf[r]].left = CacheTtl]
    /\ UNCHANGED <<bills, spent, ledger, since>>

FromCache(r) ==
    /\ source[r] = "cache"
    /\ UNCHANGED <<bills, cache, spent, ledger, since>>

FromProvider(r) == Pay(r) /\ Receive(r) /\ Keep(r)

\* The runs are over.
Leave(runs) ==
    /\ source' = [r \in Requests |-> IF r \in runs THEN "nowhere" ELSE source[r]]
    /\ spared' = spared \ runs

\* Nobody gets their texts.
Discard(runs) == old' = [r \in Requests |-> IF r \in runs THEN Ancient ELSE old[r]]

Finish(r) ==
    /\ Turn(ProcessOf[r]) \/ r \in Hits
    /\ Answer(r)
    /\ FromCache(r) \/ FromProvider(r)
    /\ old' = IF source[r] = "provider" THEN [old EXCEPT ![r] = 0] ELSE old
    /\ Leave({r})
    /\ UNCHANGED <<most, allowed>>

\* fault: a text is kept once the idempotency table has it
KeptLast(r) == FromCache(r) \/ (Pay(r) /\ Receive(r) /\ UNCHANGED cache)

\* The idempotency table cannot be written, after the text was put in the cache.
Unstored(r) == FromCache(r) \/ FromProvider(r)

\* The ledger, or the audit log after it, cannot be written: the text is lost, but
\* there is a fallback, and the budget lets it be asked.
AskFallback(r) ==
    LET p == ProcessOf[r]
    IN  /\ Turn(p) /\ FallBack(r)
        /\ source[r] = "provider"
        /\ spent' = [spent EXCEPT ![p] = @ + 1]
        /\ ledger' \in {ledger, ledger + 1}
        /\ spent'[p] + 1 <= Cap
        /\ UNCHANGED <<cache, source, old, since, spared, most, allowed>>

\* No provider answered, or none whose answer is taken, the budget refused, or the
\* caller went away.
NoAnswer(r) ==
    /\ source[r] \in {"provider", "nobody"}
    /\ UNCHANGED <<bills, cache, spent, ledger, since>>

\* The ledger, or the audit log, cannot be written and there is no fallback, or the
\* budget refuses it.
Unbooked(r) ==
    /\ source[r] = "provider"
    /\ Bill(r)
    /\ spent' = [spent EXCEPT ![ProcessOf[r]] = @ + 1]
    /\ ledger' \in {ledger, ledger + 1}
    /\ UNCHANGED <<cache, since>>

Break(r) ==
    /\ Turn(ProcessOf[r]) \/ r \in Hits
    /\ Fail(r)
    /\ Unstored(r) \/ NoAnswer(r) \/ Unbooked(r)
    /\ Leave({r}) /\ Discard({r})
    /\ UNCHANGED <<most, allowed>>

\* At most one of the runs that are lost was between its charge and its answer;
\* what those in a fallback have cost before is on the books already.
Lost(runs) ==
    \/ UNCHANGED <<bills, ledger>>
    \/ \E r \in runs :
        /\ source[r] = "provider"
        /\ Bill(r)
        /\ ledger' \in {ledger, ledger + 1}

\* Process p dies or is shut down, and is started again; its runs, cache and budget
\* are gone.
Restart(p) ==
    LET runs == Running \cap Of(p)
    IN  /\ \/ runs = {} /\ UNCHANGED <<vars, ledger>>
           \/ Crash(runs) /\ Lost(runs)
        /\ cache' = [cache EXCEPT ![p] = NoEntry]
        /\ spent' = [spent EXCEPT ![p] = 0]
        /\ since' = [since EXCEPT ![p] = CacheTtl]
        /\ allowed' = allowed + Allowance(p)
        /\ most' = [most EXCEPT ![p] = 0]
        /\ Leave(runs) /\ Discard(runs)

PassTime ==
    LET aged(e) == IF e.left <= 1 THEN NoEntry ELSE [left |-> e.left - 1, old |-> e.old + 1]
    IN  /\ Hits = {}
        /\ Tick
        /\ cache' = [p \in Processes |-> aged(cache[p])]
        /\ old' = [r \in Requests |-> IF old[r] < Ancient THEN old[r] + 1 ELSE Ancient]
        /\ since' = [p \in Processes |-> IF since[p] < CacheTtl THEN since[p] + 1 ELSE CacheTtl]
        /\ UNCHANGED <<spent, ledger, source, spared, most, allowed>>

ProcessesNext ==
    \/ \E r \in Requests : Begin(r) \/ Reply(r) \/ Finish(r) \/ AskFallback(r) \/ Break(r)
    \/ \E p \in Processes : Restart(p)
    \/ PassTime

ProcessesSpec == BeginInit /\ [][ProcessesNext]_processVars
-----------------------------------------------------------------------------
(* Properties *)

\* However a text goes from a provider through a cache into the table and out
\* again, a run answers with none older than the cache keeps it, and a replay with
\* none older than that and the table's lifetime together.
AnswersStayFresh ==
    [][ \A r \in Requests :
            LET s == got'[r]
            IN  s # got[r] => IF s = r THEN old'[r] = 0 \/ old'[r] < CacheTtl
                              ELSE old[s] < CacheTtl + Ttl ]_processVars

\* A request that begins when an equal one was answered a short while ago by the
\* same process is never charged: not when the first one failed because its answer
\* could not be stored, nor when its claim was lost.
NotPaidAgain ==
    [][ \A r \in spared :
            /\ phase[r] = "running" /\ phase'[r] # "running" /\ phase'[r] # "dead"
               => spent' = spent
            /\ r \in paid' => r \in paid ]_processVars

\* The ledger never shows more than one budget for each life of a process, and
\* what was in flight when it was used up: a restart forgets what was spent, and
\* nothing else does.
LedgerBounded == ledger <= allowed + MapThenSumSet(Allowance, Processes)
===============================================================================
