--------------------------- MODULE PlatformSafety ---------------------------
(***************************************************************************)
(* One run for the safety of the platform: every behaviour is one of five  *)
(* scenarios, each with the faults, operations, specs and capacity under   *)
(* which its properties can fail.  A scenario is an instance of Platform;  *)
(* the constants of this module are the ones all of them share.            *)
(***************************************************************************)
EXTENDS MCPlatform

VARIABLE scenario  \* which of the instances below the behaviour follows

\* Containers die, Docker refuses and the process restarts at any point.
Restart == INSTANCE Platform WITH
    CpuCapacity <- 8, MemoryCapacity <- 8, Policy <- "binpack",
    Specs <- TwoImages, NewImages <- {},
    Faults <- {"container", "crash", "docker"}, MaxFaults <- 2,
    Ops <- {"create", "patch", "apply", "delete"}, MaxOps <- 3

\* Two clients and the autoscaler; more replicas wanted than two nodes hold.
Steady == INSTANCE Platform WITH
    CpuCapacity <- 1, MemoryCapacity <- 1, Policy <- "spread",
    Specs <- ScaleSpecs, NewImages <- {},
    Faults <- {"container", "docker", "address"}, MaxFaults <- 1,
    Ops <- {"create", "patch", "delete", "scale"}, MaxOps <- 3

\* A rollout over two replicas, one of which dies, or is listed late.
Rollout == INSTANCE Platform WITH
    CpuCapacity <- 14, MemoryCapacity <- 14, Policy <- "binpack",
    Specs <- TwoReplicas, NewImages <- {b},
    Faults <- {"container", "listing"}, MaxFaults <- 1, MaxMade <- 5,
    Ops <- {"create", "deploy"}, MaxOps <- 2

\* Two rollouts of the same service at the same time.
TwoRollouts == INSTANCE Platform WITH
    CpuCapacity <- 14, MemoryCapacity <- 14, Policy <- "binpack",
    Specs <- OneReplica, NewImages <- {b},
    Faults <- {}, MaxFaults <- 0, MaxMade <- 3,
    Ops <- {"create", "deploy"}, MaxOps <- 3

\* A rollout meets the teardown of its service.
Teardown == INSTANCE Platform WITH
    CpuCapacity <- 14, MemoryCapacity <- 14, Policy <- "binpack",
    Specs <- OneReplica, NewImages <- {b},
    Faults <- {"container"}, MaxFaults <- 1, MaxMade <- 3,
    Ops <- {"create", "deploy", "delete"}, MaxOps <- 3

Scenarios == {"restart", "steady", "rollout", "two rollouts", "teardown"}

\* At most one of the clients has a request in progress.
OneCall == Cardinality({c \in Clients : api'[c].op # "none"}) <= 1

\* At most one rollout is ever asked for.
OneRollout == Cardinality({d \in Rollouts : rollout'[d].status # "absent"}) <= 1

ScenarioInit ==
    \/ scenario = "restart" /\ Restart!Init
    \/ scenario = "steady" /\ Steady!Init
    \/ scenario = "rollout" /\ Rollout!Init
    \/ scenario = "two rollouts" /\ TwoRollouts!Init
    \/ scenario = "teardown" /\ Teardown!Init

ScenarioNext ==
    /\ \/ scenario = "restart" /\ Restart!Next /\ OneCall
       \/ scenario = "steady" /\ Steady!Next
       \/ scenario = "rollout" /\ Rollout!Next /\ OneCall
       \/ scenario = "two rollouts" /\ TwoRollouts!Next /\ OneCall
       \/ scenario = "teardown" /\ Teardown!Next /\ OneRollout
    /\ UNCHANGED scenario

ScenarioSpec == ScenarioInit /\ [][ScenarioNext]_<<vars, scenario>>

ScenarioSymmetry == ClientSymmetry \cup RolloutSymmetry
=============================================================================
