--------------------------- MODULE MCWebhooksOut ----------------------------
(* WebhooksOut on small instances.                                         *)
EXTENDS WebhooksOut, TLC

Symmetry == Permutations(Replicas) \cup Permutations(Types) \cup Permutations(Tenants)

Budget(events, faults, changes) == [events |-> events, faults |-> faults, changes |-> changes]

\* Replicas race over two events; one event meets a fault and a change, or
\* two changes.
RaceFaultOrChange == {Budget(2, 0, 0), Budget(1, 1, 1), Budget(1, 0, 2)}
=============================================================================
