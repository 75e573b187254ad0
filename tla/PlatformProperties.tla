------------------------- MODULE PlatformProperties -------------------------
(***************************************************************************)
(* What the orchestrator and the writers of a service's row promise        *)
(* together.  Most safety properties are conditional on ~overwrote: they   *)
(* say what the protocol guarantees as long as no whole-row write replaces *)
(* a row it was not made from.                                             *)
(***************************************************************************)
EXTENDS Platform

Labels ==
    {"starting", "orphans", "idle", "refresh", "ref_put", "ref_route",
     "reread", "create", "cr_read", "cr_put", "cr_route", "observe", "ob_put",
     "td_delete", "td_route", "rm_stop", "rm_read", "rm_put", "rm_route",
     "off", "begin", "read", "switch", "surge_read", "surge_put", "wait",
     "shrink_read", "shrink_put", "complete", "final_read", "final_put"}

\* Where a task goes on when its removals are done.
AfterRemoval ==
    {"idle", "td_delete", "observe", "reread", "surge_read", "complete"}

\* The replicas created so far.
Created == 1..Len(made)

MaybeService == ServiceOf(Created) \cup {NoService}

\* The types of the variables that hold records.
Deployment ==
    [status : {"absent", "pending", "updating", "running"}, image : Images]
Job ==
    [current : MaybeService, todo : SUBSET Created, request : Requests,
     after : AfterRemoval]
Pass ==
    [service : MaybeService, want : Int, missing : Nat, fresh : 0..Len(made),
     addressed : BOOLEAN]
Batches ==
    [old : SUBSET Created, batch : SUBSET Created, polls : 0..MaxPolls]
Call ==
    [op : {"none", "create", "patch", "apply", "delete", "destroy", "scale",
           "scale_put"},
     base : MaybeService,
     spec : [image : Images, desired : Int, request : Requests]]
Faulted == [count : 0..MaxFaults, interrupted : BOOLEAN]

\* Every variable holds what the code's types allow, and no row, local or
\* list names a replica that has not been created.
TypeOK ==
    /\ made \in Seq([image : Images, node : Nodes])
    /\ Len(made) \in 0..MaxMade
    /\ row \in MaybeService
    /\ rollout \in [Rollouts -> Deployment]
    /\ routing \subseteq Created
    /\ up \subseteq Created
    /\ nodes \in LedgerType(Created)
    /\ pc \in [Tasks -> Labels]
    /\ job \in [Tasks -> Job]
    /\ pass \in Pass
    /\ batches \in [Rollouts -> Batches]
    /\ pending \subseteq Rollouts
    /\ faults \in Faulted
    /\ overwrote \in BOOLEAN
    /\ api \in [Clients -> Call]
    /\ ops \in 0..MaxOps
    /\ asked \in Int

\* No container is forgotten: every running one is in the service's row, or
\* is the one the reconcile pass is about to record there.  After a restart
\* this holds again once the orphans are removed.
NoLeak ==
    Started /\ ~overwrote =>
        \A r \in up : \/ r = pass.fresh
                      \/ row # NoService /\ r \in row.replicas

\* Between two passes, and between two changes of a pass.
AtRest == pc[Reconcile] \in {"idle", "create", "observe", "ob_put"}

Recorded == IF row = NoService THEN {} ELSE row.replicas

\* No task was ever abandoned half-way, and none but the pass ever ran.
Undisturbed ==
    ~faults.interrupted /\ \A d \in Rollouts : rollout[d].status = "absent"

\* The routing entry in Redis is exactly the addressed replicas of the row
\* in Postgres whenever the pass is not in the middle of changing the two,
\* and it is gone when the service is.
RoutingMatchesRow ==
    AtRest /\ ~overwrote =>
        routing = IF row = NoService THEN {} ELSE row.addressed

\* Without a restart and a rollout, which may be anywhere when the pass rests,
\* the routing entry and the row agree whenever it does, whatever clients write
\* and whichever containers come and go (_refresh_observed_replicas,
\* _create_replica, _remove_replica, _teardown_service).
SteadyRouting == Undisturbed => RoutingMatchesRow

\* The ledger charges every node for the recorded replicas placed on it, no
\* more and no fewer, whatever containers came and went.
LedgerMatchesRow ==
    AtRest /\ ~overwrote =>
        \A n \in Nodes :
            /\ nodes[n].replicas = {r \in Recorded : made[r].node = n}
            /\ \E request \in Requests :
                  /\ nodes[n].cpu =
                       request.cpu * Cardinality(nodes[n].replicas)
                  /\ nodes[n].memory =
                       request.memory * Cardinality(nodes[n].replicas)

\* ... and so do the ledger of the NodeManager and the row, which nothing but
\* the pass's own allocate and deallocate keep together.
SteadyLedger == Undisturbed => LedgerMatchesRow

\* The containers that really run on a node fit on it.
CapacityRespected ==
    ~overwrote =>
        \A n \in Nodes : \E request \in Requests :
            request.cpu * Cardinality({r \in up : made[r].node = n})
                <= CpuCapacity

\* What a rollout adds to the desired count it takes away again: with no
\* rollout under way the service is back at the count its client asked for.
SurgeTakenBack ==
    /\ ~overwrote
    /\ row # NoService
    /\ \A d \in Rollouts : pc[d] \notin {"wait", "shrink_read", "shrink_put"}
    => row.desired = asked

\* A completed rollout has moved the service to its image.
RolloutDelivered ==
    ~overwrote /\ row # NoService =>
        \A d \in Rollouts :
            rollout[d].status = "running" => row.image = rollout[d].image

\* The row, the containers, the routing entry and the desired count agree.
Converged ==
    /\ row.replicas \subseteq up
    /\ Cardinality(row.replicas) = IF row.desired < 0 THEN 0 ELSE row.desired
    /\ \A r \in row.replicas : made[r].image = row.image
    /\ routing = row.replicas

\* Once requests and faults cease the service settles, whatever updates were
\* lost on the way.
Settles == <>[](row = NoService \/ Converged)

\* A rollout that was accepted is taken up, also after a restart.
RolloutsStart ==
    \A d \in Rollouts :
        rollout[d].status = "pending" ~> rollout[d].status # "pending"

\* ... and is reported complete, unless it or the orchestrator fails.
RolloutsComplete ==
    \A d \in Rollouts :
        rollout[d].status = "pending" ~> rollout[d].status = "running"

\* DELETE marks the row, and the reconcile loop removes it.
DeleteIsHonoured ==
    (row # NoService /\ row.status = "deleting") ~> row = NoService

\* destroy removes the service, its containers included.
DestroyRemoves == row = NoService ~> (up = {} \/ row # NoService)
=============================================================================
