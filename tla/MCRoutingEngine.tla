--------------------------- MODULE MCRoutingEngine ----------------------------
(* Small instances of RoutingEngine for TLC. *)
EXTENDS RoutingEngine, TLC

CONSTANTS r1, r2, r3, a, b, c, m1, m2, m3, u1

\* Provider c is in the catalog and has no adapter.
MCProviderOf == (m1 :> a) @@ (m2 :> c) @@ (m3 :> b)
MCUserOf == [r \in Requests |-> u1]
MCEstimate == [m \in Models |-> 1]
MCDecisions == {<<m1, m2, m3>>, <<m3, m1>>}
MCSymmetry == Permutations(Requests)

=============================================================================
