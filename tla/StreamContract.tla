---------------------------- MODULE StreamContract ----------------------------
(***************************************************************************)
(* What NexusRouter.complete_stream promises whoever reads one of its      *)
(* streams, without attempts, circuits or budgets: one model speaks, and   *)
(* the stream ends with that model's answer, with one of the errors the    *)
(* gateway knows (ROUTING_ERRORS), or, only while nothing was said, with   *)
(* an error it does not know.                                              *)
(***************************************************************************)

CONSTANTS Models, NoModel

VARIABLES
    voice,          \* the model whose text the reader has received
    outcome,        \* how the stream stands
    author          \* the model whose answer completed the stream

contract == <<voice, outcome, author>>

Outcomes == {"open", "answered", "failed", "crashed", "closed"}

MaySpeak(m) == outcome = "open" /\ voice \in {NoModel, m}

ContractInit ==
    /\ voice = NoModel
    /\ outcome = "open"
    /\ author = NoModel

\* A non-empty piece of text.
Speak(m) ==
    /\ MaySpeak(m)
    /\ voice' = m
    /\ UNCHANGED <<outcome, author>>

Complete(m) ==
    /\ MaySpeak(m)
    /\ outcome' = "answered"
    /\ author' = m
    /\ UNCHANGED voice

Raise ==
    /\ outcome = "open"
    /\ \/ outcome' = "failed"
       \/ voice = NoModel /\ outcome' = "crashed"
    /\ UNCHANGED <<voice, author>>

\* The reader closes the stream, or is cancelled while it waits for it.
Close ==
    /\ outcome = "open"
    /\ outcome' = "closed"
    /\ UNCHANGED <<voice, author>>

ContractNext ==
    \/ \E m \in Models : Speak(m) \/ Complete(m)
    \/ Raise
    \/ Close

ContractSpec == ContractInit /\ [][ContractNext]_contract
===============================================================================
