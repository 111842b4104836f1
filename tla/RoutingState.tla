----------------------------- MODULE RoutingState -----------------------------
(***************************************************************************)
(* The lifecycle of a routed request (src/router/state.py): its states and *)
(* the transitions RoutingStateMachine allows.  transition() raises        *)
(* StateTransitionError on any other, and nothing in the router catches    *)
(* that error by name.                                                     *)
(***************************************************************************)

RequestStates == {"RECEIVED", "CLASSIFIED", "ROUTED", "DISPATCHED",
                  "RESPONDED", "FALLBACK", "FAILED"}

AllowedTransitions ==
    [s \in RequestStates |->
        CASE s = "RECEIVED"   -> {"CLASSIFIED", "FAILED"}
          [] s = "CLASSIFIED" -> {"ROUTED", "FAILED"}
          [] s = "ROUTED"     -> {"DISPATCHED", "FAILED"}
          [] s = "DISPATCHED" -> {"RESPONDED", "FALLBACK", "FAILED"}
          [] s = "FALLBACK"   -> {"DISPATCHED", "RESPONDED", "FAILED"}
          [] OTHER            -> {}]

\* fault: RESPONDED may be entered again from itself
LooseTransition(s, t) == t \in AllowedTransitions[s] \/ s = t

\* fault: any state may fail
AlwaysFails(s, t) == t \in AllowedTransitions[s] \/ t = "FAILED"

CanMove(s, t) == t \in AllowedTransitions[s]
===============================================================================
