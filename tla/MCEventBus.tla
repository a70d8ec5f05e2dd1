----------------------------- MODULE MCEventBus -----------------------------
(***************************************************************************)
(* Instances of EventBus for TLC.  Two events share an ordering key, so    *)
(* that they wait for each other; the events of the other key compete with *)
(* them for capacity and concurrency slots.                                *)
(***************************************************************************)
EXTENDS EventBusProps, TLC

CONSTANTS e1, e2, e3, e4, ka, kb

TwoKeys == [e \in Events |-> IF e \in {e1, e2} THEN ka ELSE kb]

\* Nothing tells e1 and e2 apart.
SameKeyEvents == Permutations({e1, e2})
=============================================================================
