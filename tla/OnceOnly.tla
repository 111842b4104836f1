------------------------------- MODULE OnceOnly -------------------------------
(***************************************************************************)
(* What an Idempotency-Key promises a client, with no leases, no rows and  *)
(* no clock: of the requests that carry one key at most one runs at a      *)
(* time, none runs while an answer is remembered, and whoever is not run   *)
(* receives the remembered answer as it is.                                *)
(***************************************************************************)
EXTENDS Naturals

CONSTANTS Requests, NoRequest, Keys, KeyOf

VARIABLES
    executing,      \* requests being run
    remembered,     \* [Keys -> the request whose answer is kept for the key]
    answer          \* [Requests -> the request whose answer was received]

onceVars == <<executing, remembered, answer>>

OnceInit ==
    /\ executing = {}
    /\ remembered = [k \in Keys |-> NoRequest]
    /\ answer = [r \in Requests |-> NoRequest]

Start(r) ==
    /\ \A q \in executing : KeyOf[q] # KeyOf[r]
    /\ remembered[KeyOf[r]] = NoRequest
    /\ executing' = executing \cup {r}
    /\ UNCHANGED <<remembered, answer>>

Publish(r) ==
    /\ r \in executing
    /\ executing' = executing \ {r}
    /\ remembered' = [remembered EXCEPT ![KeyOf[r]] = r]
    /\ answer' = [answer EXCEPT ![r] = r]

Stop(stopped) ==
    /\ stopped \subseteq executing
    /\ executing' = executing \ stopped
    /\ UNCHANGED <<remembered, answer>>

Recall(r) ==
    /\ remembered[KeyOf[r]] # NoRequest
    /\ answer[r] = NoRequest
    /\ answer' = [answer EXCEPT ![r] = remembered[KeyOf[r]]]
    /\ UNCHANGED <<executing, remembered>>

Forget ==
    /\ \E kept \in SUBSET Keys :
        remembered' = [k \in Keys |-> IF k \in kept THEN remembered[k] ELSE NoRequest]
    /\ UNCHANGED <<executing, answer>>

OnceNext ==
    \/ \E r \in Requests : Start(r) \/ Publish(r) \/ Recall(r)
    \/ \E stopped \in SUBSET executing : Stop(stopped)
    \/ Forget

OnceSpec == OnceInit /\ [][OnceNext]_onceVars
===============================================================================
