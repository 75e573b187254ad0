----------------------------- MODULE MCPlatform -----------------------------
EXTENDS PlatformProperties, TLC

CONSTANTS a, b

Small == [cpu |-> 1, memory |-> 1]
OneRequest == {Small}

Spec_(image, desired) ==
    [image |-> image, desired |-> desired, request |-> Small]

\* Every image with no replica, one and two.
AllSpecs == {Spec_(image, n) : image \in {a, b}, n \in 0..2}
\* A service of one, and of two replicas.
OneReplica == {Spec_(a, 1)}
TwoReplicas == {Spec_(a, 2)}
\* One replica and one more than two nodes of capacity 1 hold.
ScaleSpecs == {Spec_(a, 1), Spec_(a, 3)}
TwoImages == {Spec_(a, 1), Spec_(b, 2)}

\* The conditional properties say nothing beyond the first lost update.
NoLostUpdate == ~overwrote
ClientSymmetry == Permutations(Clients)
RolloutSymmetry == Permutations(Rollouts)
=============================================================================
