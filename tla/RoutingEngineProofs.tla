-------------------------- MODULE RoutingEngineProofs --------------------------
(***************************************************************************)
(* What the engine guarantees for any number of requests, models,          *)
(* providers and users, any budget and any breaker settings.               *)
(***************************************************************************)
EXTENDS RoutingEngine, FiniteSetTheorems, TLAPS

\* The loop has at most one owner, and it is in the middle of its attempts.
LoopOwner == \A r \in Requests : running = r <=> phase[r] = "routing"

\* attempt_index starts at the first attempt.
IdleAtFirst == \A r \in Requests : phase[r] = "idle" => at[r] = 1

TypeInv == TypeOK /\ LoopOwner /\ IdleAtFirst

-----------------------------------------------------------------------------
(* The operators on circuits return circuits. *)

LEMMA CircuitType ==
    ASSUME NEW c \in CircuitStates
    PROVE  /\ AfterCheck(c) \in CircuitStates
           /\ AfterSuccess(c) \in CircuitStates
           /\ AfterFailure(c) \in CircuitStates
           /\ AfterTick(c) \in CircuitStates
BY BreakerAssumption
   DEF CircuitStates, AfterCheck, AfterSuccess, AfterFailure, AfterTick, Closed, Never,
       Saturated, IsOpen

\* The request being worked on is at one of its models.
LEMMA ModelType ==
    ASSUME TypeOK, NEW r \in Requests, phase[r] \in Waiting
    PROVE  /\ Model(r) \in Models
           /\ Provider(r) \in Providers
           /\ at[r] \in 1..Len(plan[r])
           /\ at[r] \in Nat
           /\ Len(plan[r]) \in Nat
           /\ plan[r] \in Seq(Models)
<1>1. plan[r] \in Seq(Models) /\ at[r] \in DOMAIN plan[r] /\ at[r] \in Nat
  BY DEF TypeOK
<1>2. DOMAIN plan[r] = 1..Len(plan[r]) /\ Len(plan[r]) \in Nat
  BY <1>1
<1>3. plan[r][at[r]] \in Models
  BY <1>1, <1>2
<1> QED
  BY <1>1, <1>2, <1>3, EngineAssumption DEF Model, Provider

\* A decision's attempts are models of the catalog, as many as it has.
LEMMA OrderType ==
    ASSUME NEW d \in Decisions, NEW attempts \in OrderAttempts(d)
    PROVE  /\ attempts \in Seq(Models)
           /\ Len(attempts) = Len(d)
           /\ 1 \in DOMAIN attempts
<1> DEFINE chain == Tail(d)
           models == {chain[i] : i \in DOMAIN chain}
<1>1. d \in Seq(Models) /\ d # <<>>
  BY EngineAssumption
<1>2. chain \in Seq(Models) /\ Len(chain) = Len(d) - 1 /\ Head(d) \in Models
  BY <1>1
<1>3. models \subseteq Models
  BY <1>2
<1>4. PICK s \in [DOMAIN chain -> models] : attempts = <<Head(d)>> \o s
  BY DEF OrderAttempts
<1>5. s \in Seq(Models) /\ Len(s) = Len(chain)
  <2>1. DOMAIN chain = 1..Len(chain) /\ Len(chain) \in Nat
    BY <1>2
  <2>2. s \in [1..Len(chain) -> Models]
    BY <1>3, <2>1
  <2> QED
    BY <2>1, <2>2
<1>6. attempts \in Seq(Models) /\ Len(attempts) = 1 + Len(s)
  <2>1. <<Head(d)>> \in Seq(Models) /\ Len(<<Head(d)>>) = 1
    BY <1>2
  <2> QED
    BY <1>4, <1>5, <2>1
<1>7. Len(attempts) = Len(d) /\ Len(attempts) \in Nat \ {0}
  BY <1>1, <1>2, <1>5, <1>6
<1> QED
  BY <1>6, <1>7

-----------------------------------------------------------------------------
(* The control part of the type invariant, which End and NextAttempt keep. *)

ControlOK ==
    /\ running \in Requests \cup {NoRequest}
    /\ phase \in [Requests -> Phases]
    /\ state \in [Requests -> RequestStates]
    /\ at \in [Requests -> Nat \ {0}]
    /\ \A r \in Requests : phase[r] \in Waiting => at[r] \in DOMAIN plan[r]
    /\ LoopOwner
    /\ IdleAtFirst

LEMMA EndControl ==
    ASSUME TypeInv, NEW r \in Requests, running \in {r, NoRequest},
           NEW o \in Ended, NEW s \in RequestStates, End(r, o, s), plan' = plan
    PROVE  ControlOK'
BY EngineAssumption
   DEF TypeInv, TypeOK, LoopOwner, IdleAtFirst, ControlOK, End, Ended, Waiting, Phases

LEMMA NextAttemptControl ==
    ASSUME TypeInv, NEW r \in Requests, phase[r] \in Waiting, running \in {r, NoRequest},
           NEW s \in RequestStates, NextAttempt(r, s), plan' = plan
    PROVE  ControlOK'
<1>1. at[r] \in Nat /\ Len(plan[r]) \in Nat /\ DOMAIN plan[r] = 1..Len(plan[r])
  BY ModelType DEF TypeInv, TypeOK
<1>2. CASE at[r] < Len(plan[r])
  <2>1. at' = [at EXCEPT ![r] = @ + 1] /\ phase' = [phase EXCEPT ![r] = "routing"]
        /\ running' = r
        /\ state' = [state EXCEPT ![r] = IF s = "DISPATCHED" THEN "FALLBACK" ELSE s]
    BY <1>1, <1>2 DEF NextAttempt
  <2>2. at' \in [Requests -> Nat \ {0}] /\ at'[r] = at[r] + 1
    BY <2>1, <1>1 DEF TypeInv, TypeOK
  <2>3. \A q \in Requests : phase'[q] \in Waiting => at'[q] \in DOMAIN plan'[q]
    <3> SUFFICES ASSUME NEW q \in Requests, phase'[q] \in Waiting
                 PROVE  at'[q] \in DOMAIN plan[q]
      OBVIOUS
    <3>1. CASE q = r
      BY <3>1, <1>1, <1>2, <2>2
    <3>2. CASE q # r
      BY <3>2, <2>1 DEF TypeInv, TypeOK
    <3> QED
      BY <3>1, <3>2
  <2>4. phase' \in [Requests -> Phases] /\ running' \in Requests \cup {NoRequest}
    BY <2>1 DEF TypeInv, TypeOK, Phases, Waiting
  <2>5. state' \in [Requests -> RequestStates]
    <3>1. state \in [Requests -> RequestStates]
          /\ (IF s = "DISPATCHED" THEN "FALLBACK" ELSE s) \in RequestStates
      BY DEF TypeInv, TypeOK, RequestStates
    <3> QED
      BY <3>1, <2>1
  <2>6. LoopOwner'
    BY <2>1, EngineAssumption DEF TypeInv, TypeOK, LoopOwner
  <2>7. IdleAtFirst'
    BY <2>1 DEF TypeInv, TypeOK, IdleAtFirst
  <2> QED
    BY <2>2, <2>3, <2>4, <2>5, <2>6, <2>7 DEF ControlOK
<1>3. CASE at[r] = Len(plan[r])
  <2>1. End(r, "failed", "FAILED") \/ End(r, "crashed", s)
    BY <1>1, <1>3 DEF NextAttempt
  <2> QED
    BY <2>1, EndControl DEF Ended, RequestStates
<1> QED
  BY <1>2, <1>3 DEF NextAttempt

LEMMA ProviderFailedControl ==
    ASSUME TypeInv, NEW r \in Requests, phase[r] \in Waiting, running \in {r, NoRequest},
           NEW c \in CircuitStates, NEW b \in Standing, NEW s \in RequestStates,
           ProviderFailed(r, c, b, s), plan' = plan
    PROVE  /\ ControlOK'
           /\ breaker' \in [Providers -> CircuitStates]
           /\ board' \in [Providers -> Standing]
<1>1. ControlOK'
  <2>1. CASE OutputStarted(r)
    <3> DEFINE t == IF s = "DISPATCHED" THEN "FAILED" ELSE s
    <3>1. End(r, "failed", t)
      BY <2>1 DEF ProviderFailed
    <3>2. t \in RequestStates /\ "failed" \in Ended
      BY DEF RequestStates, Ended
    <3> HIDE DEF t
    <3> QED
      BY <3>1, <3>2, EndControl
  <2>2. CASE ~OutputStarted(r)
    BY <2>2, NextAttemptControl DEF ProviderFailed
  <2> QED
    BY <2>1, <2>2
<1>2. breaker' \in [Providers -> CircuitStates]
  BY CircuitType DEF ProviderFailed, TypeInv, TypeOK
<1>3. board' \in [Providers -> Standing]
  BY DEF ProviderFailed, TypeInv, TypeOK, Standing
<1> QED
  BY <1>1, <1>2, <1>3

LEMMA FinishType ==
    ASSUME TypeOK, NEW r \in Requests, Finish(r)
    PROVE  /\ inflight' \in [Providers -> Nat]
           /\ load' \in [Users \X Providers -> Nat]
           /\ peak' \in [Users -> Nat]
<1>1. \A n \in Nat : Finished(n) \in Nat
  BY DEF Finished
<1>2. inflight' \in [Providers -> Nat]
  BY <1>1 DEF Finish, TypeOK
<1>3. load' \in [Users \X Providers -> Nat]
  <2> DEFINE k == <<UserOf[r], Provider(r)>>
  <2>1. load' = [load EXCEPT ![k] = Finished(load[k])]
    BY DEF Finish
  <2> HIDE DEF k
  <2> QED
    BY <1>1, <2>1 DEF TypeOK
<1> QED
  BY <1>2, <1>3 DEF Finish, TypeOK

\* A counter of a function of counters goes up.
LEMMA Increment ==
    ASSUME NEW S, NEW f \in [S -> Nat], NEW k, NEW n \in Nat
    PROVE  [f EXCEPT ![k] = f[k] + n] \in [S -> Nat]
<1>1. CASE k \in S
  <2>1. f[k] + n \in Nat
    BY <1>1
  <2> QED
    BY <2>1
<1>2. CASE k \notin S
  <2>1. [f EXCEPT ![k] = f[k] + n] = f
    BY <1>2
  <2> QED
    BY <2>1
<1> QED
  BY <1>1, <1>2

LEMMA BeginType ==
    ASSUME TypeOK, NEW r \in Requests, Begin(r)
    PROVE  /\ inflight' \in [Providers -> Nat]
           /\ load' \in [Users \X Providers -> Nat]
           /\ peak' \in [Users -> Nat]
<1>1. inflight' \in [Providers -> Nat]
  <2> DEFINE p == Provider(r)
  <2>1. inflight' = [inflight EXCEPT ![p] = inflight[p] + 1] /\ inflight \in [Providers -> Nat]
    BY DEF Begin, TypeOK
  <2> HIDE DEF p
  <2> QED
    BY <2>1, Increment
<1>2. load' \in [Users \X Providers -> Nat]
  <2> DEFINE k == <<UserOf[r], Provider(r)>>
  <2>1. load' = [load EXCEPT ![k] = load[k] + 1] /\ load \in [Users \X Providers -> Nat]
    BY DEF Begin, TypeOK
  <2> HIDE DEF k
  <2> QED
    BY <2>1, Increment
<1>3. peak' \in [Users -> Nat]
  <2>1. Cardinality(UserCalls(UserOf[r])) \in Nat
    BY FiniteRequests, FS_Subset, FS_CardinalityType DEF UserCalls, Awaiting
  <2> QED
    BY <2>1, EngineAssumption DEF Begin, TypeOK
<1> QED
  BY <1>1, <1>2, <1>3

LEMMA ChargeType ==
    ASSUME TypeOK, NEW r \in Requests, \E cost \in Costs : Charge(r, cost)
    PROVE  spend' \in [Users -> Nat] /\ charged' \in [Requests -> Nat]
<1>1. PICK cost \in Costs : Charge(r, cost)
  OBVIOUS
<1>2. cost \in Nat /\ UserOf[r] \in Users
  BY EngineAssumption
<1>3. spend' \in [Users -> Nat]
  BY <1>1, <1>2 DEF Charge, TypeOK
<1>4. charged' \in [Requests -> Nat]
  BY <1>1 DEF Charge, TypeOK
<1> QED
  BY <1>3, <1>4

\* Every step keeps every variable in its type.
LEMMA TypeStep ==
    ASSUME TypeInv, [Next]_vars
    PROVE  TypeInv'
<1> USE DEF TypeInv, TypeOK
<1>1. ASSUME NEW r \in Requests, Refuse(r) PROVE TypeInv'
  <2>1. PICK s \in {"RECEIVED", "CLASSIFIED"} : End(r, "refused", s)
    BY <1>1 DEF Refuse
  <2>2. ControlOK'
    BY <2>1, <1>1, EndControl DEF Refuse, Ended, RequestStates, LoopFree
  <2> QED
    BY <1>1, <2>2 DEF Refuse, ControlOK, shared
<1>2. ASSUME NEW r \in Requests, Route(r) PROVE TypeInv'
  <2>1. PICK d \in Decisions :
            \E m \in Modes : \E attempts \in OrderAttempts(d) :
                /\ mode' = [mode EXCEPT ![r] = m]
                /\ plan' = [plan EXCEPT ![r] = attempts]
    BY <1>2 DEF Route
  <2>2. PICK m \in Modes, attempts \in OrderAttempts(d) :
            /\ mode' = [mode EXCEPT ![r] = m]
            /\ plan' = [plan EXCEPT ![r] = attempts]
    BY <2>1
  <2>3. attempts \in Seq(Models) /\ 1 \in DOMAIN attempts
    BY OrderType
  <2>4. plan' \in [Requests -> Seq(Models)] /\ mode' \in [Requests -> Modes]
    BY <2>2, <2>3
  <2>5. at[r] = 1 /\ plan'[r] = attempts
    BY <1>2, <2>2 DEF Route, IdleAtFirst
  <2>6. \A q \in Requests : phase'[q] \in Waiting => at'[q] \in DOMAIN plan'[q]
    BY <1>2, <2>2, <2>3, <2>5 DEF Route
  <2>7. LoopOwner' /\ IdleAtFirst'
    BY <1>2, EngineAssumption DEF Route, LoopOwner, IdleAtFirst, LoopFree
  <2> QED
    BY <1>2, <2>4, <2>6, <2>7 DEF Route, shared, RequestStates, Phases, Waiting
<1>3. ASSUME NEW r \in Requests, Skip(r) PROVE TypeInv'
  <2>1. phase[r] \in Waiting
    BY <1>3 DEF Skip, LoopOwner, Waiting
  <2>2. ControlOK'
    BY <1>3, <2>1, NextAttemptControl DEF Skip
  <2> QED
    BY <1>3, <2>2 DEF Skip, ControlOK, shared
<1>4. ASSUME NEW r \in Requests, MissingAdapter(r) PROVE TypeInv'
  <2>1. phase[r] \in Waiting
    BY <1>4 DEF MissingAdapter, LoopOwner, Waiting
  <2>2. /\ AfterCheck(breaker[Provider(r)]) \in CircuitStates
        /\ board[Provider(r)] \in Standing
    BY <2>1, ModelType, CircuitType
  <2>3. /\ ControlOK'
        /\ breaker' \in [Providers -> CircuitStates]
        /\ board' \in [Providers -> Standing]
    BY <1>4, <2>1, <2>2, ProviderFailedControl DEF MissingAdapter
  <2> QED
    BY <1>4, <2>3 DEF MissingAdapter, ControlOK
<1>5. ASSUME NEW r \in Requests, Dispatch(r) PROVE TypeInv'
  <2>1. phase[r] \in Waiting /\ Provider(r) \in Providers /\ UserOf[r] \in Users
    BY <1>5, ModelType, EngineAssumption DEF Dispatch, LoopOwner, Waiting
  <2>2. breaker' \in [Providers -> CircuitStates]
    BY <1>5, <2>1, CircuitType DEF Dispatch
  <2>3. /\ inflight' \in [Providers -> Nat]
        /\ load' \in [Users \X Providers -> Nat]
        /\ peak' \in [Users -> Nat]
    BY <1>5, BeginType DEF Dispatch
  <2>4. LoopOwner' /\ IdleAtFirst'
    BY <1>5, EngineAssumption DEF Dispatch, LoopOwner, IdleAtFirst
  <2>5. state' \in [Requests -> RequestStates]
    BY <1>5 DEF Dispatch, RequestStates
  <2> QED
    BY <1>5, <2>1, <2>2, <2>3, <2>4, <2>5 DEF Dispatch, Phases, Waiting
<1>6. ASSUME NEW r \in Requests, Chunk(r) PROVE TypeInv'
  <2>1. phase[r] \in Waiting
    BY <1>6 DEF Chunk, Waiting
  <2>2. text' \in [Requests -> SUBSET Models]
    BY <1>6, <2>1, ModelType DEF Chunk
  <2> QED
    BY <1>6, <2>2 DEF Chunk, shared, LoopOwner, IdleAtFirst
<1>7. ASSUME NEW r \in Requests, CallFails(r) PROVE TypeInv'
  <2>1. phase[r] \in Waiting
    BY <1>7 DEF CallFails, Waiting
  <2>2. breaker[Provider(r)] \in CircuitStates /\ board[Provider(r)] \in Standing
    BY <2>1, ModelType
  <2>3. /\ ControlOK'
        /\ breaker' \in [Providers -> CircuitStates]
        /\ board' \in [Providers -> Standing]
    BY <1>7, <2>1, <2>2, ProviderFailedControl DEF CallFails, LoopFree
  <2> QED
    BY <1>7, <2>3, FinishType DEF CallFails, ControlOK
<1>8. ASSUME NEW r \in Requests, Answer(r) PROVE TypeInv'
  <2>1. ControlOK'
    BY <1>8, EndControl DEF Answer, Ended, RequestStates, LoopFree
  <2>2. breaker' \in [Providers -> CircuitStates] /\ board' \in [Providers -> Standing]
    BY <1>8, CircuitType DEF Answer, Standing
  <2>3. spend' \in [Users -> Nat] /\ charged' \in [Requests -> Nat]
    BY <1>8, ChargeType DEF Answer
  <2>4. ledger' \in [Requests -> Nat] /\ audited' \in [Requests -> Nat]
    BY <1>8 DEF Answer
  <2> QED
    BY <1>8, <2>1, <2>2, <2>3, <2>4, FinishType DEF Answer, ControlOK
<1>9. ASSUME NEW r \in Requests, BookkeepingFails(r) PROVE TypeInv'
  <2>1. phase[r] \in Waiting
    BY <1>9 DEF BookkeepingFails, Waiting
  <2>2. AfterSuccess(breaker[Provider(r)]) \in CircuitStates
        /\ "scored" \in Standing /\ "RESPONDED" \in RequestStates
    BY <2>1, ModelType, CircuitType DEF Standing, RequestStates
  <2>3. /\ ControlOK'
        /\ breaker' \in [Providers -> CircuitStates]
        /\ board' \in [Providers -> Standing]
    BY <1>9, <2>1, <2>2, ProviderFailedControl DEF BookkeepingFails, LoopFree
  <2>4. spend' \in [Users -> Nat] /\ charged' \in [Requests -> Nat]
    BY <1>9, ChargeType DEF BookkeepingFails
  <2>5. ledger' \in [Requests -> Nat]
    BY <1>9 DEF BookkeepingFails
  <2> QED
    BY <1>9, <2>3, <2>4, <2>5, FinishType DEF BookkeepingFails, ControlOK
<1>10. ASSUME NEW r \in Requests, SecondAnswer(r) PROVE TypeInv'
  <2>1. phase[r] \in Waiting
    BY <1>10 DEF SecondAnswer, Waiting
  <2>2. /\ AfterSuccess(breaker[Provider(r)]) \in CircuitStates
        /\ board[Provider(r)] \in Standing
    BY <2>1, ModelType, CircuitType
  <2>3. /\ ControlOK'
        /\ breaker' \in [Providers -> CircuitStates]
        /\ board' \in [Providers -> Standing]
    BY <1>10, <2>1, <2>2, ProviderFailedControl DEF SecondAnswer, LoopFree
  <2> QED
    BY <1>10, <2>3, FinishType DEF SecondAnswer, ControlOK
<1>11. ASSUME NEW r \in Requests, Cancel(r) PROVE TypeInv'
  <2>1. ControlOK'
    BY <1>11, EndControl DEF Cancel, Ended, LoopFree
  <2> QED
    BY <1>11, <2>1, FinishType DEF Cancel, ControlOK
<1>12. ASSUME Tick PROVE TypeInv'
  BY <1>12, CircuitType DEF Tick, LoopOwner, IdleAtFirst
<1>13. ASSUME UNCHANGED vars PROVE TypeInv'
  BY <1>13 DEF vars, LoopOwner, IdleAtFirst
<1> QED
  BY <1>1, <1>2, <1>3, <1>4, <1>5, <1>6, <1>7, <1>8, <1>9, <1>10, <1>11, <1>12, <1>13
     DEF Next

LEMMA TypeInit == Init => TypeInv
<1> SUFFICES ASSUME Init PROVE TypeInv
  OBVIOUS
<1>1. \A p \in Providers : Closed \in CircuitStates
  BY BreakerAssumption DEF Closed, CircuitStates, Never
<1> QED
  BY <1>1, EngineAssumption
     DEF Init, TypeInv, TypeOK, LoopOwner, IdleAtFirst, Phases, Waiting, Ended, Modes,
         RequestStates, Standing

LEMMA TypeInvariant == Spec => []TypeInv
BY TypeInit, TypeStep, PTL DEF Spec

\* Every variable stays in its type: in particular the loop never runs past its
\* last attempt.
THEOREM TypeCorrect == Spec => []TypeOK
<1>1. TypeInv => TypeOK
  BY DEF TypeInv
<1> QED
  BY <1>1, TypeInvariant, PTL

-----------------------------------------------------------------------------
(* The calls in flight.  A step leaves them alone, adds the call of one     *)
(* request, or takes the call of one request away.                          *)

\* The attempts of the requests in S are where they were.
Unmoved(S) == \A q \in S : plan'[q] = plan[q] /\ at'[q] = at[q]

Steady == Awaiting' = Awaiting /\ Unmoved(Awaiting)
Joins(r) == r \notin Awaiting /\ Awaiting' = Awaiting \cup {r} /\ Unmoved(Awaiting \cup {r})
Leaves(r) == r \in Awaiting /\ Awaiting' = Awaiting \ {r} /\ Unmoved(Awaiting \ {r})

LEMMA EndLeaves ==
    ASSUME TypeInv, NEW r \in Awaiting, NEW o \in Ended, NEW s, End(r, o, s), plan' = plan
    PROVE  Leaves(r)
BY DEF TypeInv, TypeOK, End, Ended, Leaves, Awaiting, Unmoved

LEMMA NextAttemptMoves ==
    ASSUME TypeInv, NEW r \in Requests, NEW s, NextAttempt(r, s), plan' = plan
    PROVE  /\ Awaiting' = Awaiting \ {r}
           /\ Unmoved(Awaiting \ {r})
<1>1. phase' = [phase EXCEPT ![r] = phase'[r]] /\ phase'[r] \in {"routing", "failed", "crashed"}
  BY DEF NextAttempt, End, TypeInv, TypeOK
<1>2. \A q \in Requests \ {r} : at'[q] = at[q]
  BY DEF NextAttempt, End, TypeInv, TypeOK
<1> QED
  BY <1>1, <1>2 DEF Awaiting, Unmoved, TypeInv, TypeOK

LEMMA ProviderFailedMoves ==
    ASSUME TypeInv, NEW r \in Requests, NEW c, NEW b, NEW s,
           ProviderFailed(r, c, b, s), plan' = plan
    PROVE  /\ Awaiting' = Awaiting \ {r}
           /\ Unmoved(Awaiting \ {r})
<1>1. CASE OutputStarted(r)
  <2>1. phase' = [phase EXCEPT ![r] = "failed"] /\ at' = at
    BY <1>1 DEF ProviderFailed, End
  <2> QED
    BY <2>1 DEF Awaiting, Unmoved, TypeInv, TypeOK
<1>2. CASE ~OutputStarted(r)
  BY <1>2, NextAttemptMoves DEF ProviderFailed
<1> QED
  BY <1>1, <1>2

\* What a step does to the calls in flight and to their counters.
LEMMA CallSteps ==
    ASSUME TypeInv, [Next]_vars
    PROVE  \/ Steady /\ UNCHANGED <<inflight, load, peak>>
           \/ \E r \in Requests : Joins(r) /\ Begin(r)
           \/ \E r \in Requests : Leaves(r) /\ Finish(r)
<1> DEFINE Goal == \/ Steady /\ UNCHANGED <<inflight, load, peak>>
                   \/ \E r \in Requests : Joins(r) /\ Begin(r)
                   \/ \E r \in Requests : Leaves(r) /\ Finish(r)
<1> USE DEF TypeInv, TypeOK
<1>1. ASSUME NEW r \in Requests, Refuse(r) PROVE Goal
  BY <1>1 DEF Refuse, End, shared, Steady, Awaiting, Unmoved
<1>2. ASSUME NEW r \in Requests, Route(r) PROVE Goal
  <2>1. \A q \in Requests \ {r} : plan'[q] = plan[q]
    BY <1>2 DEF Route
  <2> QED
    BY <1>2, <2>1 DEF Route, shared, Steady, Awaiting, Unmoved
<1>3. ASSUME NEW r \in Requests, Skip(r) PROVE Goal
  <2>1. r \notin Awaiting
    BY <1>3 DEF Skip, LoopOwner, Awaiting
  <2>2. Awaiting' = Awaiting \ {r} /\ Unmoved(Awaiting \ {r})
    BY <1>3, NextAttemptMoves DEF Skip
  <2> QED
    BY <1>3, <2>1, <2>2 DEF Skip, shared, Steady, Unmoved
<1>4. ASSUME NEW r \in Requests, MissingAdapter(r) PROVE Goal
  <2>1. r \notin Awaiting
    BY <1>4 DEF MissingAdapter, LoopOwner, Awaiting
  <2>2. Awaiting' = Awaiting \ {r} /\ Unmoved(Awaiting \ {r})
    BY <1>4, ProviderFailedMoves DEF MissingAdapter
  <2> QED
    BY <1>4, <2>1, <2>2 DEF MissingAdapter, Steady, Unmoved
<1>5. ASSUME NEW r \in Requests, Dispatch(r) PROVE Goal
  <2>1. r \notin Awaiting
    BY <1>5 DEF Dispatch, LoopOwner, Awaiting
  <2>2. Joins(r)
    BY <1>5, <2>1 DEF Dispatch, Joins, Awaiting, Unmoved
  <2> QED
    BY <1>5, <2>2 DEF Dispatch
<1>6. ASSUME NEW r \in Requests, Chunk(r) PROVE Goal
  BY <1>6 DEF Chunk, shared, Steady, Awaiting, Unmoved
<1>7. ASSUME NEW r \in Requests, CallFails(r) PROVE Goal
  BY <1>7, ProviderFailedMoves DEF CallFails, Leaves, Awaiting
<1>8. ASSUME NEW r \in Requests, Answer(r) PROVE Goal
  <2>1. Leaves(r)
    BY <1>8, EndLeaves DEF Answer, Awaiting, Ended
  <2> QED
    BY <1>8, <2>1 DEF Answer
<1>9. ASSUME NEW r \in Requests, BookkeepingFails(r) PROVE Goal
  BY <1>9, ProviderFailedMoves DEF BookkeepingFails, Leaves, Awaiting
<1>10. ASSUME NEW r \in Requests, SecondAnswer(r) PROVE Goal
  BY <1>10, ProviderFailedMoves DEF SecondAnswer, Leaves, Awaiting
<1>11. ASSUME NEW r \in Requests, Cancel(r) PROVE Goal
  <2>1. Leaves(r)
    BY <1>11, EndLeaves DEF Cancel, Awaiting, Ended
  <2> QED
    BY <1>11, <2>1 DEF Cancel
<1>12. ASSUME Tick PROVE Goal
  BY <1>12 DEF Tick, Steady, Awaiting, Unmoved
<1>13. ASSUME UNCHANGED vars PROVE Goal
  BY <1>13 DEF vars, Steady, Awaiting, Unmoved
<1> QED
  BY <1>1, <1>2, <1>3, <1>4, <1>5, <1>6, <1>7, <1>8, <1>9, <1>10, <1>11, <1>12, <1>13
     DEF Next

\* The sets the counters count.
LEMMA CallSets ==
    /\ IsFiniteSet(Awaiting)
    /\ \A p : CallsOn(p) \subseteq Awaiting
    /\ \A u, p : CallsOf(u, p) \subseteq Awaiting
    /\ \A u : UserCalls(u) \subseteq Awaiting
BY FiniteRequests, FS_Subset DEF Awaiting, CallsOn, CallsOf, UserCalls

LEMMA CountIn ==
    ASSUME NEW S, NEW x, IsFiniteSet(S), x \notin S
    PROVE  Cardinality(S \cup {x}) = Cardinality(S) + 1
BY FS_AddElement

LEMMA CountOut ==
    ASSUME NEW S, NEW x, IsFiniteSet(S), x \in S
    PROVE  Cardinality(S \ {x}) = Finished(Cardinality(S))
<1>1. Cardinality(S \ {x}) = Cardinality(S) - 1 /\ Cardinality(S) \in Nat
  BY FS_RemoveElement, FS_CardinalityType
<1>2. Cardinality(S \ {x}) \in Nat
  BY FS_Subset, FS_CardinalityType
<1> QED
  BY <1>1, <1>2 DEF Finished

LEMMA JoinSets ==
    ASSUME TypeInv, NEW r \in Requests, Joins(r)
    PROVE  /\ \A p : CallsOn(p)' = IF p = Provider(r) THEN CallsOn(p) \cup {r} ELSE CallsOn(p)
           /\ \A u, p : CallsOf(u, p)' = IF u = UserOf[r] /\ p = Provider(r)
                                         THEN CallsOf(u, p) \cup {r} ELSE CallsOf(u, p)
           /\ \A u : UserCalls(u)' = IF u = UserOf[r] THEN UserCalls(u) \cup {r} ELSE UserCalls(u)
           /\ \A p : r \notin CallsOn(p)
           /\ \A u, p : r \notin CallsOf(u, p)
           /\ \A u : r \notin UserCalls(u)
<1>1. \A q \in Awaiting' : Provider(q)' = Provider(q)
  BY DEF Joins, Unmoved, Provider, Model
<1> QED
  BY <1>1 DEF Joins, CallsOn, CallsOf, UserCalls

LEMMA LeaveSets ==
    ASSUME TypeInv, NEW r \in Requests, Leaves(r)
    PROVE  /\ \A p : CallsOn(p)' = IF p = Provider(r) THEN CallsOn(p) \ {r} ELSE CallsOn(p)
           /\ \A u, p : CallsOf(u, p)' = IF u = UserOf[r] /\ p = Provider(r)
                                         THEN CallsOf(u, p) \ {r} ELSE CallsOf(u, p)
           /\ \A u : UserCalls(u)' = IF u = UserOf[r] THEN UserCalls(u) \ {r} ELSE UserCalls(u)
           /\ r \in CallsOn(Provider(r))
           /\ r \in CallsOf(UserOf[r], Provider(r))
           /\ r \in UserCalls(UserOf[r])
<1>1. \A q \in Awaiting' : Provider(q)' = Provider(q)
  BY DEF Leaves, Unmoved, Provider, Model
<1> QED
  BY <1>1 DEF Leaves, CallsOn, CallsOf, UserCalls

LEMMA SteadySets ==
    ASSUME Steady
    PROVE  /\ \A p : CallsOn(p)' = CallsOn(p)
           /\ \A u, p : CallsOf(u, p)' = CallsOf(u, p)
           /\ \A u : UserCalls(u)' = UserCalls(u)
<1>1. \A q \in Awaiting' : Provider(q)' = Provider(q)
  BY DEF Steady, Unmoved, Provider, Model
<1> QED
  BY <1>1 DEF Steady, CallsOn, CallsOf, UserCalls

-----------------------------------------------------------------------------
(* In-flight counters *)

LEMMA InflightStep ==
    ASSUME TypeInv, InflightMatchesCalls, [Next]_vars
    PROVE  InflightMatchesCalls'
<1>1. CASE Steady /\ UNCHANGED <<inflight, load, peak>>
  BY <1>1, SteadySets DEF InflightMatchesCalls
<1>2. ASSUME NEW r \in Requests, Joins(r), Begin(r)
      PROVE  InflightMatchesCalls'
  <2>1. ASSUME NEW p \in Providers PROVE inflight'[p] = Cardinality(CallsOn(p)')
    <3>1. inflight'[p] = IF p = Provider(r) THEN inflight[p] + 1 ELSE inflight[p]
      BY <1>2 DEF Begin, TypeInv, TypeOK
    <3>2. IsFiniteSet(CallsOn(p)) /\ r \notin CallsOn(p)
      BY <1>2, CallSets, FS_Subset, JoinSets
    <3>3. Cardinality(CallsOn(p) \cup {r}) = Cardinality(CallsOn(p)) + 1
      BY <3>2, CountIn
    <3>4. CallsOn(p)' = IF p = Provider(r) THEN CallsOn(p) \cup {r} ELSE CallsOn(p)
      BY <1>2, JoinSets
    <3> QED
      BY <3>1, <3>3, <3>4 DEF InflightMatchesCalls
  <2>2. ASSUME NEW u \in Users, NEW p \in Providers
        PROVE  load'[<<u, p>>] = Cardinality(CallsOf(u, p)')
    <3>1. load'[<<u, p>>] = IF u = UserOf[r] /\ p = Provider(r)
                            THEN load[<<u, p>>] + 1 ELSE load[<<u, p>>]
      BY <1>2 DEF Begin, TypeInv, TypeOK
    <3>2. IsFiniteSet(CallsOf(u, p)) /\ r \notin CallsOf(u, p)
      BY <1>2, CallSets, FS_Subset, JoinSets
    <3>3. Cardinality(CallsOf(u, p) \cup {r}) = Cardinality(CallsOf(u, p)) + 1
      BY <3>2, CountIn
    <3>4. CallsOf(u, p)' = IF u = UserOf[r] /\ p = Provider(r)
                           THEN CallsOf(u, p) \cup {r} ELSE CallsOf(u, p)
      BY <1>2, JoinSets
    <3> QED
      BY <3>1, <3>3, <3>4 DEF InflightMatchesCalls
  <2> QED
    BY <2>1, <2>2 DEF InflightMatchesCalls
<1>3. ASSUME NEW r \in Requests, Leaves(r), Finish(r)
      PROVE  InflightMatchesCalls'
  <2>1. ASSUME NEW p \in Providers PROVE inflight'[p] = Cardinality(CallsOn(p)')
    <3>1. inflight'[p] = IF p = Provider(r) THEN Finished(inflight[p]) ELSE inflight[p]
      BY <1>3 DEF Finish, TypeInv, TypeOK
    <3>2. CASE p = Provider(r)
      <4>1. IsFiniteSet(CallsOn(p)) /\ r \in CallsOn(p) /\ CallsOn(p)' = CallsOn(p) \ {r}
        BY <1>3, <3>2, CallSets, FS_Subset, LeaveSets
      <4> QED
        BY <3>1, <3>2, <4>1, CountOut DEF InflightMatchesCalls
    <3>3. CASE p # Provider(r)
      BY <1>3, <3>1, <3>3, LeaveSets DEF InflightMatchesCalls
    <3> QED
      BY <3>2, <3>3
  <2>2. ASSUME NEW u \in Users, NEW p \in Providers
        PROVE  load'[<<u, p>>] = Cardinality(CallsOf(u, p)')
    <3> DEFINE own == u = UserOf[r] /\ p = Provider(r)
    <3>1. load'[<<u, p>>] = IF own THEN Finished(load[<<u, p>>]) ELSE load[<<u, p>>]
      BY <1>3 DEF Finish, TypeInv, TypeOK
    <3>2. CASE own
      <4>1. /\ IsFiniteSet(CallsOf(u, p)) /\ r \in CallsOf(u, p)
            /\ CallsOf(u, p)' = CallsOf(u, p) \ {r}
        BY <1>3, <3>2, CallSets, FS_Subset, LeaveSets
      <4> QED
        BY <3>1, <3>2, <4>1, CountOut DEF InflightMatchesCalls
    <3>3. CASE ~own
      BY <1>3, <3>1, <3>3, LeaveSets DEF InflightMatchesCalls
    <3> QED
      BY <3>2, <3>3
  <2> QED
    BY <2>1, <2>2 DEF InflightMatchesCalls
<1> QED
  BY <1>1, <1>2, <1>3, CallSteps

\* Least-busy and tenant-fair routing always read exact counts: no outcome of a
\* call, nor its cancellation, leaks or loses one.
THEOREM InflightExact == Spec => []InflightMatchesCalls
<1>1. Init => InflightMatchesCalls
  <2> SUFFICES ASSUME Init PROVE InflightMatchesCalls
    OBVIOUS
  <2>1. Awaiting = {}
    BY DEF Init, Awaiting
  <2>2. \A u, p : CallsOn(p) = {} /\ CallsOf(u, p) = {}
    BY <2>1 DEF CallsOn, CallsOf
  <2> QED
    BY <2>2, FS_EmptySet DEF Init, InflightMatchesCalls
<1> QED
  BY <1>1, InflightStep, TypeInvariant, PTL DEF Spec

-----------------------------------------------------------------------------
(* The books of a request.  Its budget charge goes with RESPONDED, a state  *)
(* that can be entered once and never left: this ties the count of charges  *)
(* to the state machine, and the outcome of the request to both.            *)

BookInv(r) ==
    /\ charged[r] = IF state[r] = "RESPONDED" THEN 1 ELSE 0
    /\ audited[r] = IF phase[r] = "answered" THEN 1 ELSE 0
    /\ audited[r] <= ledger[r] /\ ledger[r] <= charged[r]
    /\ phase[r] = "idle" => state[r] = "RECEIVED"
    /\ phase[r] = "routing" => state[r] \in {"ROUTED", "FALLBACK", "RESPONDED"}
    /\ phase[r] = "awaiting" => state[r] \in {"DISPATCHED", "RESPONDED"}
    /\ phase[r] = "failed" /\ mode[r] = "complete" => state[r] = "FAILED"
    /\ phase[r] = "crashed" => state[r] = "RESPONDED"

Books == \A r \in Requests : BookInv(r)

\* Nothing about request q changes.
Untouched(q) ==
    /\ phase'[q] = phase[q] /\ mode'[q] = mode[q] /\ state'[q] = state[q]
    /\ charged'[q] = charged[q] /\ ledger'[q] = ledger[q] /\ audited'[q] = audited[q]

\* How an attempt without an answer leaves its request.
LEMMA FailedAttempt ==
    ASSUME TypeInv, NEW r \in Requests, NEW c, NEW b, NEW s \in RequestStates,
           ProviderFailed(r, c, b, s) \/ NextAttempt(r, s)
    PROVE  /\ \/ phase'[r] = "routing"
                 /\ state'[r] = IF s = "DISPATCHED" THEN "FALLBACK" ELSE s
              \/ phase'[r] = "failed" /\ state'[r] = "FAILED" /\ s # "RESPONDED"
              \/ phase'[r] = "failed" /\ state'[r] = s /\ mode[r] = "stream" /\ s # "DISPATCHED"
              \/ phase'[r] = "crashed" /\ state'[r] = s /\ s \in {"RESPONDED", "FAILED"}
           /\ \A q \in Requests \ {r} : phase'[q] = phase[q] /\ state'[q] = state[q]
<1>1. CanMove(s, "FAILED") <=> s \notin {"RESPONDED", "FAILED"}
  BY DEF CanMove, AllowedTransitions, RequestStates
<1>2. CASE NextAttempt(r, s)
  BY <1>1, <1>2 DEF NextAttempt, End, TypeInv, TypeOK
<1>3. CASE ProviderFailed(r, c, b, s) /\ OutputStarted(r)
  BY <1>3 DEF ProviderFailed, OutputStarted, End, TypeInv, TypeOK
<1> QED
  BY <1>2, <1>3 DEF ProviderFailed

LEMMA BooksStep ==
    ASSUME TypeInv, Books, [Next]_vars
    PROVE  Books'
<1> SUFFICES ASSUME NEW q \in Requests PROVE BookInv(q)'
  BY DEF Books
<1>0. BookInv(q)
  BY DEF Books
<1>a. Untouched(q) => BookInv(q)'
  BY <1>0 DEF Untouched, BookInv
<1>b. /\ charged[q] \in Nat /\ ledger[q] \in Nat /\ audited[q] \in Nat
      /\ state[q] \in RequestStates
  BY DEF TypeInv, TypeOK
<1>c. CanMove(state[q], "RESPONDED") => state[q] \in {"DISPATCHED", "FALLBACK"}
  BY <1>b DEF CanMove, AllowedTransitions, RequestStates
<1>1. ASSUME NEW r \in Requests, Refuse(r) PROVE BookInv(q)'
  <2>1. CASE q # r
    BY <1>1, <1>a, <2>1 DEF Refuse, End, Untouched, TypeInv, TypeOK
  <2>2. CASE q = r
    BY <1>0, <1>1, <2>2 DEF Refuse, End, BookInv, TypeInv, TypeOK
  <2> QED
    BY <2>1, <2>2
<1>2. ASSUME NEW r \in Requests, Route(r) PROVE BookInv(q)'
  <2>1. CASE q # r
    BY <1>2, <1>a, <2>1 DEF Route, Untouched, TypeInv, TypeOK
  <2>2. CASE q = r
    BY <1>0, <1>2, <2>2 DEF Route, BookInv, TypeInv, TypeOK
  <2> QED
    BY <2>1, <2>2
<1>3. ASSUME NEW r \in Requests, Skip(r) PROVE BookInv(q)'
  <2>1. phase[r] = "routing"
    BY <1>3 DEF Skip, TypeInv, LoopOwner
  <2>2. CASE q # r
    BY <1>3, <1>a, <1>b, <2>2, FailedAttempt DEF Skip, Untouched, TypeInv, TypeOK
  <2>3. CASE q = r
    BY <1>0, <1>3, <1>b, <2>1, <2>3, FailedAttempt DEF Skip, BookInv
  <2> QED
    BY <2>2, <2>3
<1>4. ASSUME NEW r \in Requests, MissingAdapter(r) PROVE BookInv(q)'
  <2>1. phase[r] = "routing" /\ state[r] \in RequestStates
    BY <1>4 DEF MissingAdapter, TypeInv, TypeOK, LoopOwner
  <2>2. CASE q # r
    BY <1>4, <1>a, <2>1, <2>2, FailedAttempt DEF MissingAdapter, Untouched
  <2>3. CASE q = r
    BY <1>0, <1>4, <2>1, <2>3, FailedAttempt DEF MissingAdapter, BookInv
  <2> QED
    BY <2>2, <2>3
<1>5. ASSUME NEW r \in Requests, Dispatch(r) PROVE BookInv(q)'
  <2>1. phase[r] = "routing"
    BY <1>5 DEF Dispatch, TypeInv, LoopOwner
  <2>2. CASE q # r
    BY <1>5, <1>a, <2>2 DEF Dispatch, Untouched, TypeInv, TypeOK
  <2>3. CASE q = r
    BY <1>0, <1>5, <2>1, <2>3 DEF Dispatch, BookInv, TypeInv, TypeOK
  <2> QED
    BY <2>2, <2>3
<1>6. ASSUME NEW r \in Requests, Chunk(r) PROVE BookInv(q)'
  BY <1>6, <1>a DEF Chunk, Untouched
<1>7. ASSUME NEW r \in Requests, CallFails(r) PROVE BookInv(q)'
  <2>1. phase[r] = "awaiting" /\ state[r] \in RequestStates
    BY <1>7 DEF CallFails, TypeInv, TypeOK
  <2>2. CASE q # r
    BY <1>7, <1>a, <2>1, <2>2, FailedAttempt DEF CallFails, Untouched
  <2>3. CASE q = r
    BY <1>0, <1>7, <2>1, <2>3, FailedAttempt DEF CallFails, BookInv
  <2> QED
    BY <2>2, <2>3
<1>8. ASSUME NEW r \in Requests, Answer(r) PROVE BookInv(q)'
  <2>1. CanMove(state[r], "RESPONDED") /\ charged' = [charged EXCEPT ![r] = @ + 1]
    BY <1>8 DEF Answer, Charge
  <2>2. CASE q # r
    BY <1>8, <1>a, <2>1, <2>2 DEF Answer, End, Untouched, TypeInv, TypeOK
  <2>3. CASE q = r
    <3>1. state[q] = "DISPATCHED" /\ phase[q] = "awaiting"
      BY <1>0, <1>8, <1>c, <2>1, <2>3 DEF Answer, BookInv
    <3>2. charged[q] = 0 /\ ledger[q] = 0 /\ audited[q] = 0
      BY <1>0, <1>b, <3>1 DEF BookInv
    <3> QED
      BY <1>8, <2>1, <2>3, <3>2 DEF Answer, End, BookInv, TypeInv, TypeOK
  <2> QED
    BY <2>2, <2>3
<1>9. ASSUME NEW r \in Requests, BookkeepingFails(r) PROVE BookInv(q)'
  <2>1. /\ CanMove(state[r], "RESPONDED") /\ charged' = [charged EXCEPT ![r] = @ + 1]
        /\ "RESPONDED" \in RequestStates
    BY <1>9 DEF BookkeepingFails, Charge, RequestStates
  <2>2. PICK n \in {0, 1} : ledger' = [ledger EXCEPT ![r] = @ + n]
    BY <1>9 DEF BookkeepingFails
  <2>3. CASE q # r
    BY <1>9, <1>a, <2>1, <2>2, <2>3, FailedAttempt
       DEF BookkeepingFails, Untouched, TypeInv, TypeOK
  <2>4. CASE q = r
    <3>1. state[q] = "DISPATCHED" /\ phase[q] = "awaiting"
      BY <1>0, <1>9, <1>c, <2>1, <2>4 DEF BookkeepingFails, BookInv
    <3>2. charged[q] = 0 /\ ledger[q] = 0 /\ audited[q] = 0
      BY <1>0, <1>b, <3>1 DEF BookInv
    <3>3. charged'[q] = 1 /\ ledger'[q] = n /\ audited'[q] = 0
      BY <1>9, <2>1, <2>2, <2>4, <3>2 DEF BookkeepingFails, TypeInv, TypeOK
    <3>4. state'[q] = "RESPONDED" /\ phase'[q] \in {"routing", "failed", "crashed"}
          /\ (phase'[q] = "failed" => mode'[q] = "stream")
      BY <1>9, <2>1, <2>4, FailedAttempt DEF BookkeepingFails
    <3> QED
      BY <3>3, <3>4 DEF BookInv
  <2> QED
    BY <2>3, <2>4
<1>10. ASSUME NEW r \in Requests, SecondAnswer(r) PROVE BookInv(q)'
  <2>1. phase[r] = "awaiting" /\ state[r] \in RequestStates
    BY <1>10 DEF SecondAnswer, TypeInv, TypeOK
  <2>2. CASE q # r
    BY <1>10, <1>a, <2>1, <2>2, FailedAttempt DEF SecondAnswer, Untouched
  <2>3. CASE q = r
    BY <1>0, <1>10, <2>1, <2>3, FailedAttempt DEF SecondAnswer, BookInv
  <2> QED
    BY <2>2, <2>3
<1>11. ASSUME NEW r \in Requests, Cancel(r) PROVE BookInv(q)'
  <2>1. CASE q # r
    BY <1>11, <1>a, <2>1 DEF Cancel, End, Untouched, TypeInv, TypeOK
  <2>2. CASE q = r
    BY <1>0, <1>11, <2>2 DEF Cancel, End, BookInv, TypeInv, TypeOK
  <2> QED
    BY <2>1, <2>2
<1>12. ASSUME Tick PROVE BookInv(q)'
  BY <1>12, <1>a DEF Tick, Untouched
<1>13. ASSUME UNCHANGED vars PROVE BookInv(q)'
  BY <1>13, <1>a DEF vars, Untouched
<1> QED
  BY <1>1, <1>2, <1>3, <1>4, <1>5, <1>6, <1>7, <1>8, <1>9, <1>10, <1>11, <1>12, <1>13
     DEF Next

LEMMA BooksInvariant == Spec => []Books
<1>1. Init => Books
  BY DEF Init, Books, BookInv
<1> QED
  BY <1>1, BooksStep, TypeInvariant, PTL DEF Spec

\* A request is charged at most once and audited exactly when it is answered.
THEOREM ChargedAtMostOnce == Spec => []BooksAgree
<1>1. Books => BooksAgree
  BY DEF Books, BookInv, BooksAgree
<1> QED
  BY <1>1, BooksInvariant, PTL

\* RoutingFailedError out of complete() means that nothing was charged.
THEOREM FailureCostsNothing == Spec => []FailureIsFree
<1>1. Books => FailureIsFree
  BY DEF Books, BookInv, FailureIsFree
<1> QED
  BY <1>1, BooksInvariant, PTL

-----------------------------------------------------------------------------
(* The budget.  A call is let in only while what is spent is within the     *)
(* cap, and each call in flight may still add one cost to it.               *)

LEMMA SpendSteps ==
    ASSUME TypeInv, [Next]_vars
    PROVE  /\ \A r \in Awaiting' \ Awaiting : spend[UserOf[r]] <= Cap
           /\ \/ spend' = spend
              \/ \E r \in Awaiting \ Awaiting', cost \in Costs :
                    spend' = [spend EXCEPT ![UserOf[r]] = @ + cost]
<1> DEFINE Charged == \E r \in Awaiting \ Awaiting', cost \in Costs :
                            spend' = [spend EXCEPT ![UserOf[r]] = @ + cost]
           Goal == /\ \A r \in Awaiting' \ Awaiting : spend[UserOf[r]] <= Cap
                   /\ spend' = spend \/ Charged
<1>1. ASSUME NEW r \in Requests, Dispatch(r) PROVE Goal
  <2>1. /\ Estimate[Model(r)] \in Nat /\ spend[UserOf[r]] \in Nat /\ Cap \in Nat
        /\ spend[UserOf[r]] + Estimate[Model(r)] <= Cap
    BY <1>1, ModelType, EngineAssumption
       DEF Dispatch, CanDispatch, WithinBudget, TypeInv, TypeOK, LoopOwner, Waiting
  <2>2. Awaiting' \ Awaiting \subseteq {r}
    BY <1>1 DEF Dispatch, Awaiting, TypeInv, TypeOK
  <2> QED
    BY <1>1, <2>1, <2>2 DEF Dispatch
<1>2. ASSUME NEW r \in Requests, Answer(r) \/ BookkeepingFails(r) PROVE Goal
  <2>1. Leaves(r)
    BY <1>2, EndLeaves, ProviderFailedMoves
       DEF Answer, BookkeepingFails, Leaves, Awaiting, Ended
  <2>2. PICK cost \in Costs : Charge(r, cost)
    BY <1>2 DEF Answer, BookkeepingFails
  <2>3. r \in Awaiting \ Awaiting' /\ Awaiting' \ Awaiting = {}
    BY <2>1 DEF Leaves
  <2>4. spend' = [spend EXCEPT ![UserOf[r]] = @ + cost]
    BY <2>2 DEF Charge
  <2>5. Charged
    BY <2>3, <2>4
  <2> HIDE DEF Charged
  <2> QED
    BY <2>3, <2>5
<1>3. CASE /\ spend' = spend
           /\ ~\E r \in Requests : Dispatch(r) \/ Answer(r) \/ BookkeepingFails(r)
  <2>1. Awaiting' \subseteq Awaiting
    <3>1. ASSUME NEW r \in Requests, Refuse(r) \/ Route(r) \/ Chunk(r) \/ Cancel(r)
          PROVE  Awaiting' \subseteq Awaiting
      BY <3>1 DEF Refuse, Route, Chunk, Cancel, End, Awaiting, TypeInv, TypeOK
    <3>2. ASSUME NEW r \in Requests,
                 Skip(r) \/ MissingAdapter(r) \/ CallFails(r) \/ SecondAnswer(r)
          PROVE  Awaiting' \subseteq Awaiting
      BY <3>2, NextAttemptMoves, ProviderFailedMoves
         DEF Skip, MissingAdapter, CallFails, SecondAnswer
    <3>3. ASSUME Tick \/ UNCHANGED vars PROVE Awaiting' \subseteq Awaiting
      BY <3>3 DEF Tick, vars, Awaiting
    <3> QED
      BY <1>3, <3>1, <3>2, <3>3 DEF Next
  <2> QED
    BY <1>3, <2>1
<1>4. ASSUME ~\E r \in Requests : Dispatch(r) \/ Answer(r) \/ BookkeepingFails(r)
      PROVE  spend' = spend
  BY <1>4 DEF Next, Refuse, Route, Skip, MissingAdapter, Chunk, CallFails, SecondAnswer,
              Cancel, Tick, vars, shared
<1> QED
  BY <1>1, <1>2, <1>3, <1>4

Overshoot(u, c) ==
    /\ spend[u] + c * Cardinality(UserCalls(u)) <= Cap + c * peak[u]
    /\ Cardinality(UserCalls(u)) <= peak[u]

LEMMA Products ==
    ASSUME NEW c \in Nat, NEW m \in Nat, NEW n \in Nat
    PROVE  /\ c * m \in Nat
           /\ c * (m + 1) = c * m + c
           /\ m <= n => c * m <= c * n
<1>1. c * m \in Nat /\ c * (m + 1) = c * m + c
  OBVIOUS
<1>2. ASSUME m <= n PROVE c * m <= c * n
  <2>1. n - m \in Nat /\ c * (n - m) \in Nat /\ c * n = c * m + c * (n - m)
    BY <1>2
  <2>2. c * m \in Nat /\ c * n \in Nat
    OBVIOUS
  <2> QED
    BY <2>1, <2>2
<1> QED
  BY <1>1, <1>2

LEMMA OvershootStep ==
    ASSUME TypeInv, [Next]_vars, NEW u \in Users, NEW c \in Costs,
           \A d \in Costs : d <= c, Overshoot(u, c)
    PROVE  Overshoot(u, c)'
<1> DEFINE n == Cardinality(UserCalls(u))
<1>1. /\ c \in Nat /\ Cap \in Nat /\ \A d \in Costs : d \in Nat
      /\ \A r \in Requests : UserOf[r] \in Users
  BY EngineAssumption
<1>2. IsFiniteSet(UserCalls(u)) /\ n \in Nat
  BY CallSets, FS_Subset, FS_CardinalityType
<1>3. spend[u] \in Nat /\ peak[u] \in Nat
  BY DEF TypeInv, TypeOK
<1>4. CASE Steady /\ UNCHANGED <<inflight, load, peak>>
  <2>1. spend' = spend
    BY <1>4, SpendSteps DEF Steady
  <2> QED
    BY <1>4, <2>1, SteadySets DEF Overshoot
<1>5. ASSUME NEW r \in Requests, Joins(r), Begin(r) PROVE Overshoot(u, c)'
  <2>1. spend' = spend /\ spend[UserOf[r]] <= Cap
    BY <1>5, SpendSteps DEF Joins
  <2>2. CASE u = UserOf[r]
    <3>1. Cardinality(UserCalls(u)') = n + 1
      BY <1>2, <1>5, <2>2, JoinSets, CountIn
    <3>2. peak'[u] \in Nat /\ n + 1 <= peak'[u]
      BY <1>2, <1>3, <1>5, <2>2 DEF Begin, TypeInv, TypeOK
    <3>3. c * (n + 1) <= c * peak'[u] /\ c * (n + 1) \in Nat /\ c * peak'[u] \in Nat
      <4> HIDE DEF n
      <4>1. n + 1 \in Nat
        BY <1>2
      <4> QED
        BY <1>1, <3>2, <4>1, Products
    <3> HIDE DEF n
    <3> QED
      BY <1>1, <1>3, <2>1, <2>2, <3>1, <3>2, <3>3 DEF Overshoot
  <2>3. CASE u # UserOf[r]
    <3>1. UserCalls(u)' = UserCalls(u) /\ peak'[u] = peak[u]
      BY <1>5, <2>3, JoinSets DEF Begin, TypeInv, TypeOK
    <3> QED
      BY <2>1, <3>1 DEF Overshoot
  <2> QED
    BY <2>2, <2>3
<1>6. ASSUME NEW r \in Requests, Leaves(r), Finish(r) PROVE Overshoot(u, c)'
  <2>1. peak' = peak
    BY <1>6 DEF Finish
  <2>2. \A q \in Awaiting \ Awaiting' : q = r
    BY <1>6 DEF Leaves
  <2>3. spend' = spend \/ \E cost \in Costs : spend' = [spend EXCEPT ![UserOf[r]] = @ + cost]
    BY <2>2, SpendSteps
  <2>4. CASE u = UserOf[r]
    <3>1. Cardinality(UserCalls(u)') \in Nat /\ n = Cardinality(UserCalls(u)') + 1
      <4>1. UserCalls(u)' = UserCalls(u) \ {r} /\ r \in UserCalls(u)
        BY <1>6, <2>4, LeaveSets
      <4>2. Cardinality(UserCalls(u) \ {r}) = n - 1 /\ IsFiniteSet(UserCalls(u) \ {r})
        BY <1>2, <4>1, FS_RemoveElement, FS_Subset
      <4> QED
        BY <1>2, <4>1, <4>2, FS_CardinalityType
    <3>2. spend'[u] \in Nat /\ spend'[u] <= spend[u] + c
      BY <1>1, <1>3, <2>3, <2>4 DEF TypeInv, TypeOK
    <3> DEFINE k == Cardinality(UserCalls(u)')
    <3>3. c * n = c * k + c /\ c * k \in Nat /\ c * peak[u] \in Nat
      <4> HIDE DEF n, k
      <4> QED
        BY <1>1, <1>3, <3>1, Products DEF k
    <3>4. spend[u] + c * n <= Cap + c * peak[u] /\ n <= peak[u]
      BY DEF Overshoot
    <3>5. spend'[u] + c * k <= Cap + c * peak[u] /\ k <= peak[u]
      <4> HIDE DEF n, k
      <4>1. k \in Nat /\ n = k + 1
        BY <3>1 DEF k
      <4> QED
        BY <1>1, <1>3, <3>2, <3>3, <3>4, <4>1
    <3> QED
      BY <2>1, <3>5 DEF Overshoot
  <2>5. CASE u # UserOf[r]
    <3>1. UserCalls(u)' = UserCalls(u)
      BY <1>6, <2>5, LeaveSets
    <3>2. spend'[u] = spend[u]
      BY <2>3, <2>5 DEF TypeInv, TypeOK
    <3> QED
      BY <2>1, <3>1, <3>2 DEF Overshoot
  <2> QED
    BY <2>4, <2>5
<1> QED
  BY <1>4, <1>5, <1>6, CallSteps

\* However many requests a user sends, spend passes the cap by at most one cost
\* for each call the user had in flight at once.
THEOREM BoundedOvershoot == Spec => []OvershootBounded
<1> DEFINE Inv == \A u \in Users, c \in Costs : (\A d \in Costs : d <= c) => Overshoot(u, c)
<1>1. Init => Inv
  <2> SUFFICES ASSUME Init, NEW u \in Users, NEW c \in Costs PROVE Overshoot(u, c)
    OBVIOUS
  <2>1. UserCalls(u) = {}
    BY DEF Init, UserCalls, Awaiting
  <2>2. Cardinality(UserCalls(u)) = 0 /\ spend[u] = 0 /\ peak[u] = 0
    BY <2>1, FS_EmptySet DEF Init
  <2>3. c \in Nat /\ Cap \in Nat
    BY EngineAssumption
  <2> QED
    BY <2>2, <2>3 DEF Overshoot
<1>2. TypeInv /\ Inv /\ [Next]_vars => Inv'
  BY OvershootStep
<1>3. Inv => OvershootBounded
  BY DEF Overshoot, OvershootBounded
<1> HIDE DEF Inv
<1> QED
  BY <1>1, <1>2, <1>3, TypeInvariant, PTL DEF Spec

-----------------------------------------------------------------------------
(* Streams *)

\* Text is sent by an awaited attempt only, and an attempt that sent text is
\* the last one.
OneVoice ==
    \A r \in Requests :
        /\ text[r] # {} => text[r] = {Model(r)} /\ mode[r] = "stream"
        /\ phase[r] \in {"idle", "routing"} => text[r] = {}

LEMMA OneVoiceStep ==
    ASSUME TypeInv, OneVoice, [Next]_vars
    PROVE  OneVoice'
<1> DEFINE Kept(q) == /\ text'[q] = text[q] /\ mode'[q] = mode[q]
                      /\ plan'[q] = plan[q] /\ at'[q] = at[q]
           Good(q) == /\ text[q] # {} => text[q] = {Model(q)} /\ mode[q] = "stream"
                      /\ phase[q] \in {"idle", "routing"} => text[q] = {}
<1> SUFFICES ASSUME NEW q \in Requests PROVE Good(q)'
  BY DEF OneVoice
<1>0. Good(q)
  BY DEF OneVoice
<1>a. Kept(q) /\ (phase'[q] \in {"idle", "routing"} => phase[q] \in {"idle", "routing"})
      => Good(q)'
  BY <1>0 DEF Model
<1>b. ASSUME NEW r \in Requests, NEW c, NEW b, NEW s, ProviderFailed(r, c, b, s),
             UNCHANGED <<text, mode, plan>>
      PROVE  Good(q)'
  <2>1. CASE OutputStarted(r)
    BY <1>a, <1>b, <2>1 DEF ProviderFailed, End, TypeInv, TypeOK
  <2>2. CASE ~OutputStarted(r)
    <3>1. text[r] = {}
      BY <2>2 DEF OutputStarted, OneVoice
    <3>2. \A x \in Requests \ {r} : at'[x] = at[x] /\ phase'[x] = phase[x]
      BY <1>b, <2>2 DEF ProviderFailed, NextAttempt, End, TypeInv, TypeOK
    <3> QED
      BY <1>0, <1>a, <1>b, <3>1, <3>2
  <2> QED
    BY <2>1, <2>2
<1>1. ASSUME NEW r \in Requests, Refuse(r) PROVE Good(q)'
  BY <1>1, <1>a DEF Refuse, End, TypeInv, TypeOK
<1>2. ASSUME NEW r \in Requests, Route(r) PROVE Good(q)'
  <2>1. CASE q = r
    BY <1>0, <1>2, <2>1 DEF Route
  <2>2. CASE q # r
    BY <1>2, <1>a, <2>2 DEF Route, TypeInv, TypeOK
  <2> QED
    BY <2>1, <2>2
<1>3. ASSUME NEW r \in Requests, Skip(r) PROVE Good(q)'
  <2>1. text[r] = {}
    BY <1>3 DEF Skip, TypeInv, LoopOwner, OneVoice
  <2>2. \A x \in Requests \ {r} : at'[x] = at[x] /\ phase'[x] = phase[x]
    BY <1>3 DEF Skip, NextAttempt, End, TypeInv, TypeOK
  <2> QED
    BY <1>0, <1>3, <1>a, <2>1, <2>2 DEF Skip
<1>4. ASSUME NEW r \in Requests, Dispatch(r) PROVE Good(q)'
  BY <1>4, <1>a DEF Dispatch, TypeInv, TypeOK
<1>5. ASSUME NEW r \in Requests, Chunk(r) PROVE Good(q)'
  <2>1. Model(q)' = Model(q)
    BY <1>5 DEF Chunk, Model
  <2>2. CASE q = r
    BY <1>0, <1>5, <2>1, <2>2 DEF Chunk, TypeInv, TypeOK
  <2>3. CASE q # r
    BY <1>5, <1>a, <2>3 DEF Chunk, TypeInv, TypeOK
  <2> QED
    BY <2>2, <2>3
<1>6. ASSUME NEW r \in Requests,
             MissingAdapter(r) \/ CallFails(r) \/ BookkeepingFails(r) \/ SecondAnswer(r)
      PROVE  Good(q)'
  BY <1>6, <1>b DEF MissingAdapter, CallFails, BookkeepingFails, SecondAnswer
<1>7. ASSUME NEW r \in Requests, Answer(r) \/ Cancel(r) PROVE Good(q)'
  BY <1>7, <1>a DEF Answer, Cancel, End, TypeInv, TypeOK
<1>8. ASSUME Tick \/ UNCHANGED vars PROVE Good(q)'
  BY <1>8, <1>a DEF Tick, vars
<1> QED
  BY <1>1, <1>2, <1>3, <1>4, <1>5, <1>6, <1>7, <1>8 DEF Next

LEMMA OnlyOne == ASSUME NEW m PROVE (CHOOSE x \in {m} : TRUE) = m
OBVIOUS

\* The reader's view of request q changes when q itself ends or speaks.
LEMMA ViewKept ==
    ASSUME NEW q \in Requests,
           text'[q] = text[q], phase'[q] = phase[q], state'[q] = state[q],
           plan'[q] = plan[q], at'[q] = at[q]
    PROVE  [Contract(q)!ContractNext]_(Contract(q)!contract)
BY DEF Contract!contract, Voice, Outcome, Author, Model

\* A failed attempt, or a skip (s as it was), ends q or shows nothing of it.
LEMMA FailureSeen ==
    ASSUME TypeInv, OneVoice, NEW q \in Requests, phase[q] \in Waiting,
           UNCHANGED <<text, plan>>,
           \/ phase'[q] = "routing"
           \/ phase'[q] = "failed"
           \/ phase'[q] = "crashed" /\ text[q] = {}
    PROVE  [Contract(q)!ContractNext]_(Contract(q)!contract)
<1>1. Voice(q)' = Voice(q)
  BY DEF Voice
<1>2. Outcome(q) = "open" /\ Author(q) = NoModel /\ Author(q)' = NoModel
  BY DEF Outcome, Author, Waiting
<1>3. CASE phase'[q] = "routing"
  <2>1. Outcome(q)' = "open"
    BY <1>3 DEF Outcome
  <2> QED
    BY <1>1, <1>2, <2>1 DEF Contract!contract
<1>4. CASE phase'[q] = "failed"
  <2>1. Outcome(q)' = "failed"
    BY <1>4 DEF Outcome
  <2> QED
    BY <1>1, <1>2, <2>1 DEF Contract!ContractNext, Contract!Raise
<1>5. CASE phase'[q] = "crashed" /\ text[q] = {}
  <2>1. Outcome(q)' = "crashed" /\ Voice(q) = NoModel
    BY <1>5 DEF Outcome, Voice
  <2> QED
    BY <1>1, <1>2, <2>1 DEF Contract!ContractNext, Contract!Raise
<1> QED
  BY <1>3, <1>4, <1>5

LEMMA NextAttemptSeen ==
    ASSUME TypeInv, NEW r \in Requests, NEW s, NextAttempt(r, s)
    PROVE  /\ phase'[r] \in {"routing", "failed", "crashed"}
           /\ \A q \in Requests \ {r} :
                phase'[q] = phase[q] /\ state'[q] = state[q] /\ at'[q] = at[q]
BY DEF NextAttempt, End, TypeInv, TypeOK

LEMMA ProviderFailedSeen ==
    ASSUME TypeInv, OneVoice, NEW r \in Requests, NEW c, NEW b, NEW s,
           ProviderFailed(r, c, b, s)
    PROVE  /\ \/ phase'[r] = "failed"
              \/ phase'[r] \in {"routing", "crashed"} /\ text[r] = {}
           /\ \A q \in Requests \ {r} :
                phase'[q] = phase[q] /\ state'[q] = state[q] /\ at'[q] = at[q]
<1>1. CASE OutputStarted(r)
  BY <1>1 DEF ProviderFailed, End, TypeInv, TypeOK
<1>2. CASE ~OutputStarted(r)
  <2>1. text[r] = {}
    BY <1>2 DEF OutputStarted, OneVoice
  <2>2. NextAttempt(r, s)
    BY <1>2 DEF ProviderFailed
  <2> QED
    BY <2>1, <2>2, NextAttemptSeen
<1> QED
  BY <1>1, <1>2

LEMMA ContractStep ==
    ASSUME TypeInv, OneVoice, [Next]_vars, NEW q \in Requests
    PROVE  [Contract(q)!ContractNext]_(Contract(q)!contract)
<1> DEFINE Goal == [Contract(q)!ContractNext]_(Contract(q)!contract)
<1>0. /\ q \in Requests
      /\ phase[q] \in {"idle", "routing"} => text[q] = {}
      /\ text[q] # {} => text[q] = {Model(q)}
  BY DEF OneVoice
<1>a. ASSUME NEW r \in Requests, NEW c, NEW b, NEW s, ProviderFailed(r, c, b, s),
             phase[r] \in Waiting, UNCHANGED <<text, plan>>
      PROVE  Goal
  <2>1. CASE q = r
    BY <1>a, <2>1, FailureSeen, ProviderFailedSeen
  <2>2. CASE q # r
    BY <1>a, <2>2, ViewKept, ProviderFailedSeen
  <2> QED
    BY <2>1, <2>2
<1>1. ASSUME NEW r \in Requests, Refuse(r) PROVE Goal
  <2>1. CASE q = r
    <3>1. /\ Voice(q) = NoModel /\ Voice(q)' = NoModel
          /\ Author(q) = NoModel /\ Author(q)' = NoModel
          /\ Outcome(q) = "open" /\ Outcome(q)' \in {"failed", "crashed"}
      BY <1>0, <1>1, <2>1 DEF Refuse, End, Voice, Author, Outcome, TypeInv, TypeOK
    <3> QED
      BY <3>1 DEF Contract!ContractNext, Contract!Raise
  <2>2. CASE q # r
    BY <1>1, <2>2, ViewKept DEF Refuse, End, TypeInv, TypeOK
  <2> QED
    BY <2>1, <2>2
<1>2. ASSUME NEW r \in Requests, Route(r) PROVE Goal
  <2>1. CASE q = r
    <3>1. /\ Voice(q) = NoModel /\ Voice(q)' = NoModel
          /\ Author(q) = NoModel /\ Author(q)' = NoModel
          /\ Outcome(q) = "open" /\ Outcome(q)' = "open"
      BY <1>0, <1>2, <2>1 DEF Route, Voice, Author, Outcome, TypeInv, TypeOK
    <3> QED
      BY <3>1 DEF Contract!contract
  <2>2. CASE q # r
    BY <1>2, <2>2, ViewKept DEF Route, TypeInv, TypeOK
  <2> QED
    BY <2>1, <2>2
<1>3. ASSUME NEW r \in Requests, Skip(r) PROVE Goal
  <2>1. phase[r] = "routing" /\ text[r] = {} /\ UNCHANGED <<text, plan>>
    BY <1>3 DEF Skip, TypeInv, LoopOwner, OneVoice
  <2>2. NextAttempt(r, state[r])
    BY <1>3 DEF Skip
  <2>3. CASE q = r
    BY <2>1, <2>2, <2>3, FailureSeen, NextAttemptSeen DEF Waiting
  <2>4. CASE q # r
    BY <2>1, <2>2, <2>4, ViewKept, NextAttemptSeen
  <2> QED
    BY <2>3, <2>4
<1>4. ASSUME NEW r \in Requests, Dispatch(r) PROVE Goal
  <2>1. CASE q = r
    <3>1. phase[q] = "routing" /\ phase'[q] = "awaiting" /\ text' = text
      BY <1>4, <2>1 DEF Dispatch, TypeInv, TypeOK, LoopOwner
    <3>2. /\ Voice(q)' = Voice(q)
          /\ Author(q) = NoModel /\ Author(q)' = NoModel
          /\ Outcome(q) = "open" /\ Outcome(q)' = "open"
      BY <3>1 DEF Voice, Author, Outcome
    <3> QED
      BY <3>2 DEF Contract!contract
  <2>2. CASE q # r
    BY <1>4, <2>2, ViewKept DEF Dispatch, TypeInv, TypeOK
  <2> QED
    BY <2>1, <2>2
<1>5. ASSUME NEW r \in Requests, Chunk(r) PROVE Goal
  <2>1. CASE q = r
    <3>1. phase[q] = "awaiting" /\ phase' = phase /\ text'[q] = text[q] \cup {Model(q)}
      BY <1>5, <2>1 DEF Chunk, TypeInv, TypeOK
    <3>2. text'[q] = {Model(q)}
      BY <1>0, <3>1
    <3>3. Voice(q)' = Model(q) /\ Voice(q) \in {NoModel, Model(q)}
      BY <1>0, <3>2, OnlyOne DEF Voice
    <3>4. /\ Author(q) = NoModel /\ Author(q)' = NoModel
          /\ Outcome(q) = "open" /\ Outcome(q)' = "open"
      BY <3>1 DEF Author, Outcome
    <3>5. Model(q) \in Models
      BY <3>1, ModelType DEF TypeInv, Waiting
    <3> QED
      BY <3>3, <3>4, <3>5 DEF Contract!ContractNext, Contract!Speak, Contract!MaySpeak
  <2>2. CASE q # r
    BY <1>5, <2>2, ViewKept DEF Chunk, TypeInv, TypeOK
  <2> QED
    BY <2>1, <2>2
<1>6. ASSUME NEW r \in Requests, MissingAdapter(r) PROVE Goal
  <2>1. phase[r] \in Waiting
    BY <1>6 DEF MissingAdapter, TypeInv, LoopOwner, Waiting
  <2> QED
    BY <1>6, <1>a, <2>1 DEF MissingAdapter
<1>7. ASSUME NEW r \in Requests, CallFails(r) \/ BookkeepingFails(r) \/ SecondAnswer(r)
      PROVE  Goal
  BY <1>7, <1>a DEF CallFails, BookkeepingFails, SecondAnswer, Waiting
<1>8. ASSUME NEW r \in Requests, Answer(r) PROVE Goal
  <2>1. CASE q = r
    <3>1. /\ phase[q] = "awaiting" /\ phase'[q] = "answered"
          /\ UNCHANGED <<text, plan, at>>
      BY <1>8, <2>1 DEF Answer, End, TypeInv, TypeOK
    <3>2. Voice(q)' = Voice(q) /\ Voice(q) \in {NoModel, Model(q)}
      BY <1>0, <3>1, OnlyOne DEF Voice
    <3>3. /\ Author(q) = NoModel /\ Author(q)' = Model(q)
          /\ Outcome(q) = "open" /\ Outcome(q)' = "answered"
      BY <3>1 DEF Author, Outcome, Model
    <3>4. Model(q) \in Models
      BY <3>1, ModelType DEF TypeInv, Waiting
    <3> QED
      BY <3>2, <3>3, <3>4 DEF Contract!ContractNext, Contract!Complete, Contract!MaySpeak
  <2>2. CASE q # r
    BY <1>8, <2>2, ViewKept DEF Answer, End, TypeInv, TypeOK
  <2> QED
    BY <2>1, <2>2
<1>9. ASSUME NEW r \in Requests, Cancel(r) PROVE Goal
  <2>1. CASE q = r
    <3>1. /\ Voice(q)' = Voice(q)
          /\ Author(q) = NoModel /\ Author(q)' = NoModel
          /\ Outcome(q) = "open" /\ Outcome(q)' = "closed"
      BY <1>9, <2>1 DEF Cancel, End, TypeInv, TypeOK, Voice, Author, Outcome
    <3> QED
      BY <3>1 DEF Contract!ContractNext, Contract!Close
  <2>2. CASE q # r
    BY <1>9, <2>2, ViewKept DEF Cancel, End, TypeInv, TypeOK
  <2> QED
    BY <2>1, <2>2
<1>10. ASSUME Tick \/ UNCHANGED vars PROVE Goal
  BY <1>10, ViewKept DEF Tick, vars
<1> QED
  BY <1>1, <1>2, <1>3, <1>4, <1>5, <1>6, <1>7, <1>8, <1>9, <1>10 DEF Next

\* Every request keeps the contract its reader relies on, however its attempts,
\* skips and fallbacks interleave with those of other requests.
THEOREM StreamsKeepContract == Spec => KeepsStreamContract
<1> DEFINE View(r) == [Contract(r)!ContractNext]_(Contract(r)!contract)
           Views == \A r \in Requests : View(r)
           Opened == \A r \in Requests : Contract(r)!ContractInit
<1>1. Init => OneVoice /\ Opened
  BY DEF Init, OneVoice, Contract!ContractInit, Voice, Outcome, Author
<1>2. TypeInv /\ OneVoice /\ [Next]_vars => Views
  BY ContractStep
<1>3. KeepsStreamContract <=> Opened /\ [][Views]_vars
  BY DEF KeepsStreamContract
<1> HIDE DEF Views, Opened
<1> QED
  BY <1>1, <1>2, <1>3, OneVoiceStep, TypeInvariant, PTL DEF Spec

-----------------------------------------------------------------------------
(* Circuits *)

\* A circuit has been opened, and not closed since, exactly when its count is full.
Sound(c) == c.wait # Never <=> c.failures = Threshold
CircuitsSound == \A p \in Providers : Sound(breaker[p])

LEMMA SoundKept ==
    ASSUME NEW c \in CircuitStates, Sound(c)
    PROVE  /\ Sound(AfterCheck(c)) /\ Sound(Closed) /\ Sound(AfterTick(c))
           /\ Sound(AfterFailure(c))
<1>1. Threshold \in Nat \ {0} /\ Window \in Nat \ {0} /\ c.failures \in 0..Threshold
      /\ c.wait \in Never..Window
  BY BreakerAssumption DEF CircuitStates
<1>2. Sound(Closed)
  BY <1>1 DEF Sound, Closed, Never
<1>3. Sound(AfterCheck(c))
  BY <1>2 DEF AfterCheck
<1>4. Sound(AfterTick(c))
  BY <1>1 DEF Sound, AfterTick, IsOpen, Never, CircuitStates
<1>5. Sound(AfterFailure(c))
  BY <1>1 DEF Sound, AfterFailure, Saturated, Never
<1> QED
  BY <1>2, <1>3, <1>4, <1>5

\* No check, no answer and no tick adds to a circuit.
LEMMA Relieved ==
    ASSUME NEW c \in CircuitStates
    PROVE  \A d \in {AfterCheck(c), Closed, AfterTick(c)} :
                ~(d.failures > c.failures) /\ ~(d.wait > c.wait)
BY BreakerAssumption
   DEF CircuitStates, AfterCheck, Closed, AfterTick, IsOpen, Never

\* The call of r on p has ended in an exception.
Blamed(p) ==
    \/ p \notin Adapters
    \/ \E r \in CallsOn(p) : phase'[r] \notin {"awaiting", "answered", "cancelled"}

\* What a step does to the circuit of p.
CircuitMoves(p) ==
    \/ breaker'[p] \in {breaker[p], AfterCheck(breaker[p]), Closed, AfterTick(breaker[p])}
    \/ /\ Blamed(p)
       /\ \E c \in {breaker[p], AfterCheck(breaker[p]), Closed} : breaker'[p] = AfterFailure(c)

LEMMA ProviderFailedBlames ==
    ASSUME TypeInv, NEW r \in Requests, NEW c, NEW b, NEW s, ProviderFailed(r, c, b, s),
           NEW p \in Providers
    PROVE  /\ phase'[r] \in {"routing", "failed", "crashed"}
           /\ breaker'[p] = IF p = Provider(r) THEN AfterFailure(c) ELSE breaker[p]
<1>1. phase'[r] \in {"routing", "failed", "crashed"}
  BY DEF ProviderFailed, NextAttempt, End, TypeInv, TypeOK
<1>2. breaker'[p] = IF p = Provider(r) THEN AfterFailure(c) ELSE breaker[p]
  BY DEF ProviderFailed, TypeInv, TypeOK
<1> QED
  BY <1>1, <1>2

LEMMA CircuitStep ==
    ASSUME TypeInv, [Next]_vars, NEW p \in Providers
    PROVE  /\ CircuitMoves(p)
           /\ inflight'[p] > inflight[p] => ~IsOpen(breaker[p])
<1> DEFINE Quiet == ~(inflight'[p] > inflight[p])
<1>a. inflight[p] \in Nat /\ breaker \in [Providers -> CircuitStates]
  BY DEF TypeInv, TypeOK
<1>b. ASSUME NEW r \in Requests, Finish(r) PROVE Quiet
  BY <1>a, <1>b DEF Finish, Finished, TypeInv, TypeOK
<1>1. ASSUME UNCHANGED <<breaker, inflight>> PROVE CircuitMoves(p) /\ Quiet
  BY <1>1, <1>a DEF CircuitMoves
<1>2. ASSUME NEW r \in Requests, Refuse(r) \/ Route(r) \/ Skip(r) \/ Chunk(r)
      PROVE  CircuitMoves(p) /\ Quiet
  BY <1>1, <1>2 DEF Refuse, Route, Skip, Chunk, shared
<1>3. ASSUME NEW r \in Requests, MissingAdapter(r) PROVE CircuitMoves(p) /\ Quiet
  <2>1. /\ Provider(r) \notin Adapters /\ inflight' = inflight
        /\ breaker'[p] = IF p = Provider(r) THEN AfterFailure(AfterCheck(breaker[p]))
                         ELSE breaker[p]
    BY <1>3, ProviderFailedBlames DEF MissingAdapter
  <2> QED
    BY <2>1, <1>a DEF CircuitMoves, Blamed
<1>4. ASSUME NEW r \in Requests, Dispatch(r)
      PROVE  CircuitMoves(p) /\ (inflight'[p] > inflight[p] => ~IsOpen(breaker[p]))
  <2>1. breaker'[p] = IF p = Provider(r) THEN AfterCheck(breaker[p]) ELSE breaker[p]
    BY <1>4, <1>a DEF Dispatch
  <2>2. inflight'[p] = IF p = Provider(r) THEN inflight[p] + 1 ELSE inflight[p]
    BY <1>4 DEF Dispatch, Begin, TypeInv, TypeOK
  <2>3. ~IsOpen(breaker[Provider(r)])
    BY <1>4 DEF Dispatch, CanDispatch
  <2> QED
    BY <1>a, <2>1, <2>2, <2>3 DEF CircuitMoves
<1>5. ASSUME NEW r \in Requests, CallFails(r) \/ BookkeepingFails(r) \/ SecondAnswer(r)
      PROVE  CircuitMoves(p) /\ Quiet
  <2>1. Finish(r) /\ r \in Awaiting
    BY <1>5 DEF CallFails, BookkeepingFails, SecondAnswer, Awaiting
  <2>2. \E c \in {breaker[Provider(r)], Closed} : \E b, s : ProviderFailed(r, c, b, s)
    BY <1>5 DEF CallFails, BookkeepingFails, SecondAnswer, AfterSuccess
  <2>3. PICK c \in {breaker[Provider(r)], Closed} : \E b, s : ProviderFailed(r, c, b, s)
    BY <2>2
  <2>4. /\ phase'[r] \in {"routing", "failed", "crashed"}
        /\ breaker'[p] = IF p = Provider(r) THEN AfterFailure(c) ELSE breaker[p]
    BY <2>3, ProviderFailedBlames
  <2>5. p = Provider(r) => Blamed(p)
    BY <2>1, <2>4 DEF Blamed, CallsOn
  <2> QED
    BY <1>b, <2>1, <2>4, <2>5 DEF CircuitMoves
<1>6. ASSUME NEW r \in Requests, Answer(r) PROVE CircuitMoves(p) /\ Quiet
  <2>1. breaker'[p] = IF p = Provider(r) THEN Closed ELSE breaker[p]
    BY <1>6, <1>a DEF Answer, AfterSuccess
  <2> QED
    BY <1>6, <1>b, <2>1 DEF Answer, CircuitMoves
<1>7. ASSUME NEW r \in Requests, Cancel(r) PROVE CircuitMoves(p) /\ Quiet
  BY <1>7, <1>b DEF Cancel, CircuitMoves
<1>8. ASSUME Tick PROVE CircuitMoves(p) /\ Quiet
  BY <1>8, <1>a DEF Tick, CircuitMoves
<1> QED
  BY <1>1, <1>2, <1>3, <1>4, <1>5, <1>6, <1>7, <1>8 DEF Next, vars

LEMMA SoundStep ==
    ASSUME TypeInv, CircuitsSound, [Next]_vars
    PROVE  CircuitsSound'
<1> SUFFICES ASSUME NEW p \in Providers PROVE Sound(breaker'[p])
  BY DEF CircuitsSound, Sound
<1>1. breaker[p] \in CircuitStates /\ Sound(breaker[p])
  BY DEF TypeInv, TypeOK, CircuitsSound
<1>2. \A c \in {breaker[p], AfterCheck(breaker[p]), Closed} :
        c \in CircuitStates /\ Sound(c)
  BY <1>1, SoundKept, CircuitType DEF AfterSuccess
<1> QED
  BY <1>1, <1>2, CircuitStep, SoundKept DEF CircuitMoves

LEMMA SoundInvariant == Spec => []CircuitsSound
<1>1. Init => CircuitsSound
  <2>1. Sound(Closed)
    BY BreakerAssumption DEF Sound, Closed, Never
  <2> QED
    BY <2>1 DEF Init, CircuitsSound
<1> QED
  BY <1>1, SoundStep, TypeInvariant, PTL DEF Spec

\* assert_available keeps calls off an open circuit, however the tasks interleave
\* between the check, the await and the outcomes of older calls.
THEOREM OpenCircuitsAreQuiet == Spec => OpenCircuitGetsNoCall
<1>1. TypeInv /\ CircuitsSound /\ CircuitsSound' /\ [Next]_vars
        => [\A p \in Providers :
                /\ inflight'[p] > inflight[p] => ~IsOpen(breaker[p])
                /\ breaker'[p].wait # Never <=> breaker'[p].failures = Threshold]_vars
  BY CircuitStep DEF CircuitsSound, Sound
<1> QED
  BY <1>1, TypeInvariant, SoundInvariant, PTL DEF Spec, OpenCircuitGetsNoCall

\* record_failure is for attempts that failed: no guardrail that skips a candidate, no
\* caller that goes away and no passing of time brings a circuit nearer to opening.
THEOREM NobodyElseTrips == Spec => OnlyAttemptsTripCircuits
<1>1. ASSUME TypeInv, [Next]_vars, NEW p \in Providers,
             breaker'[p].failures > breaker[p].failures \/ breaker'[p].wait > breaker[p].wait
      PROVE  Blamed(p)
  <2>1. breaker[p] \in CircuitStates
    BY <1>1 DEF TypeInv, TypeOK
  <2>2. \A d \in {breaker[p], AfterCheck(breaker[p]), Closed, AfterTick(breaker[p])} :
            ~(d.failures > breaker[p].failures) /\ ~(d.wait > breaker[p].wait)
    BY <2>1, Relieved DEF CircuitStates
  <2>3. CircuitMoves(p)
    BY <1>1, CircuitStep
  <2> QED
    BY <1>1, <2>2, <2>3 DEF CircuitMoves
<1>2. TypeInv /\ [Next]_vars
        => [\A p \in Providers :
                \/ breaker'[p].failures > breaker[p].failures
                \/ breaker'[p].wait > breaker[p].wait
                => Blamed(p)]_vars
  BY <1>1
<1> QED
  BY <1>2, TypeInvariant, PTL DEF Spec, OnlyAttemptsTripCircuits, Blamed
==============================================================================
