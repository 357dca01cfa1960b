---------------------------- MODULE MCOutboxRelay ----------------------------
(* Instances of OutboxRelay for TLC. *)
EXTENDS OutboxRelay, TLC

(* Events 1 and 2 belong to one aggregate, 3 to another. *)
TwoAndOne == <<"x", "x", "y">>
(* A single aggregate: one serial group. *)
OneGroup == <<"x", "x">>

ReplicaSymmetry == Permutations(Replicas)
=============================================================================
