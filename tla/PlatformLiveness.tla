-------------------------- MODULE PlatformLiveness --------------------------
(***************************************************************************)
(* One run for what the platform eventually does.  As in PlatformSafety    *)
(* every behaviour follows one of several instances of Platform; fairness  *)
(* is Platform's own, stated once for whichever instance is followed.      *)
(***************************************************************************)
EXTENDS MCPlatform

VARIABLE scenario  \* which of the instances below the behaviour follows

\* One client at a time; a container dies, the process restarts, or a call
\* of the reconcile pass raises.
Faulty == INSTANCE Platform WITH
    CpuCapacity <- 14, MemoryCapacity <- 14, MaxPolls <- 1, MaxMade <- 14,
    Specs <- TwoImages, Faults <- {"container", "crash", "error"},
    MaxFaults <- 2, Ops <- {"create", "patch", "delete"}, MaxOps <- 2

\* Two clients whose updates overwrite each other's and the pass's.
Clashing == INSTANCE Platform WITH
    CpuCapacity <- 14, MemoryCapacity <- 14, MaxPolls <- 1, MaxMade <- 14,
    Specs <- TwoImages, Faults <- {}, MaxFaults <- 0,
    Ops <- {"create", "patch", "delete"}, MaxOps <- 3

\* The autoscaler, a manifest and destroy write, and a container gets no
\* address or cannot be created.
Writers == INSTANCE Platform WITH
    CpuCapacity <- 14, MemoryCapacity <- 14, MaxPolls <- 1, MaxMade <- 14,
    Specs <- TwoImages, Faults <- {"address", "docker"}, MaxFaults <- 1,
    Ops <- {"create", "apply", "destroy", "scale"}, MaxOps <- 2

\* A rollout on a node with no room for a replica beside the old one.
Cramped == INSTANCE Platform WITH
    CpuCapacity <- 1, MemoryCapacity <- 1, MaxPolls <- 2, MaxMade <- 14,
    Specs <- OneReplica, Faults <- {}, MaxFaults <- 0,
    Ops <- {"create", "deploy"}, MaxOps <- 2

\* A rollout that is interrupted by an exception or a restart.
Interrupted == INSTANCE Platform WITH
    CpuCapacity <- 14, MemoryCapacity <- 14, MaxPolls <- 1, MaxMade <- 2,
    Specs <- OneReplica, Faults <- {"crash", "error"}, MaxFaults <- 1,
    Ops <- {"create", "deploy"}, MaxOps <- 2

OneCall == Cardinality({c \in Clients : api'[c].op # "none"}) <= 1

ScenarioInit ==
    \/ scenario = "faulty" /\ Faulty!Init
    \/ scenario = "clashing" /\ Clashing!Init
    \/ scenario = "writers" /\ Writers!Init
    \/ scenario = "cramped" /\ Cramped!Init
    \/ scenario = "interrupted" /\ Interrupted!Init

ScenarioNext ==
    /\ \/ scenario = "faulty" /\ Faulty!Next /\ OneCall
       \/ scenario = "clashing" /\ Clashing!Next
       \/ scenario = "writers" /\ Writers!Next /\ OneCall
       \/ scenario = "cramped" /\ Cramped!Next /\ OneCall
       \/ scenario = "interrupted" /\ Interrupted!Next /\ OneCall
    /\ UNCHANGED scenario

ScenarioVars == <<vars, scenario>>

\* What the loops of the orchestrator and an answered request do next, in
\* whichever scenario.
PassStep ==
    /\ \/ scenario = "faulty" /\ (Faulty!Start \/ Faulty!ReconcilePass)
       \/ scenario = "clashing" /\ (Clashing!Start \/ Clashing!ReconcilePass)
       \/ scenario = "writers" /\ (Writers!Start \/ Writers!ReconcilePass)
       \/ scenario = "cramped" /\ (Cramped!Start \/ Cramped!ReconcilePass)
       \/ /\ scenario = "interrupted"
          /\ Interrupted!Start \/ Interrupted!ReconcilePass
    /\ UNCHANGED <<apiVars, scenario>>

LoopStep ==
    /\ \/ scenario = "cramped" /\ Cramped!RolloutLoop
       \/ scenario = "interrupted" /\ Interrupted!RolloutLoop
    /\ UNCHANGED <<apiVars, scenario>>

TaskStep ==
    /\ \E d \in Rollouts :
          \/ scenario = "cramped" /\ Cramped!RolloutTask(d)
          \/ scenario = "interrupted" /\ Interrupted!RolloutTask(d)
    /\ UNCHANGED <<apiVars, scenario>>

AnswerStep(c) ==
    /\ \/ /\ scenario = "faulty"
          /\ Faulty!RefreshForScale(c) \/ Faulty!Respond(c)
       \/ /\ scenario = "clashing"
          /\ Clashing!RefreshForScale(c) \/ Clashing!Respond(c)
       \/ /\ scenario = "writers"
          /\ Writers!RefreshForScale(c) \/ Writers!Respond(c)
       \/ /\ scenario = "cramped"
          /\ Cramped!RefreshForScale(c) \/ Cramped!Respond(c)
       \/ /\ scenario = "interrupted"
          /\ Interrupted!RefreshForScale(c) \/ Interrupted!Respond(c)
    /\ UNCHANGED scenario

ScenarioSpec ==
    /\ ScenarioInit
    /\ [][ScenarioNext]_ScenarioVars
    /\ WF_ScenarioVars(PassStep)
    /\ WF_ScenarioVars(LoopStep)
    /\ WF_ScenarioVars(TaskStep)
    /\ \A c \in Clients : WF_ScenarioVars(AnswerStep(c))

(* Properties *)

\* Where the nodes have room, also for a container a lost update made the
\* orchestrator forget, the service settles once requests and faults cease.
SettlesWithRoom ==
    scenario \in {"faulty", "clashing", "writers"} => Settles

\* Where nothing fails a rollout that was accepted is reported complete, even
\* on a node that has no room for its surge.
CrampedCompletes == scenario = "cramped" => RolloutsComplete
=============================================================================
