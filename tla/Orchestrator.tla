---------------------------- MODULE Orchestrator ----------------------------
(***************************************************************************)
(* The orchestrator process (compute/orchestrator.py) at work on ONE       *)
(* service: the reconcile pass, the rollout tasks, the replica lifecycle   *)
(* they share, and the start and restart of the process.                   *)
(*                                                                         *)
(* The process is one asyncio loop.  Control passes between its tasks,     *)
(* and to the other processes that write the same row, at every await on   *)
(* a store or on the routing table; an action below is what runs from one  *)
(* such await to the next.  Calls to Docker and to the NodeManager are     *)
(* synchronous, so they happen inside an action.  The row of a service is  *)
(* read and written whole, without a version and outside a transaction.    *)
(*                                                                         *)
(* A replica is the number of its creation.  Every list of replicas in the *)
(* code is in order of creation, so a set of numbers carries the list; the *)
(* image and node of a replica never change and are kept in made.          *)
(***************************************************************************)
EXTENDS NodeManager, Sequences

CONSTANTS
    Images,       \* container images a spec may name
    Requests,     \* requests for capacity a spec may make
    MaxMade,      \* bound: containers created in a behaviour
    MaxSurge,     \* strategy.max_surge of every rollout
    MaxPolls,     \* bound: polls of a rollout for new replicas (30 in the code)
    Rollouts,     \* deployment ids
    Reconcile,    \* the reconcile loop, as a task
    NoService,    \* the service has no row
    Faults,       \* kinds of fault that may strike
    MaxFaults     \* bound: faults in a behaviour

ASSUME OrchestratorAssumption ==
    /\ Requests \subseteq [cpu : Nat \ {0}, memory : Nat]
    /\ Requests # {}
    /\ MaxMade \in Nat
    /\ MaxSurge \in Nat
    /\ MaxPolls \in Nat \ {0}
    /\ Reconcile \notin Rollouts
    /\ Faults \subseteq {"container", "crash", "error", "docker", "address",
                         "listing"}
    /\ MaxFaults \in Nat

Tasks == Rollouts \cup {Reconcile}
Replicas == 1..MaxMade
BatchSize == IF MaxSurge < 1 THEN 1 ELSE MaxSurge

ServiceStatus == {"pending", "running", "updating", "degraded", "deleting"}

\* ServiceState.  addressed are the replicas whose container_ip is known.
ServiceOf(replicas) ==
    [image : Images, desired : Int, request : Requests,
     status : ServiceStatus, replicas : SUBSET replicas,
     addressed : SUBSET replicas]

Service == ServiceOf(Replicas)

ASSUME NoServiceAssumption == NoService \notin Service

VARIABLES
    row,       \* the row of the service in Postgres, or NoService
    rollout,   \* the rows of the deployments table
    routing,   \* Redis: the replicas in the service's routing entry
    up,        \* Docker: the replicas whose container runs
    made,      \* the image and node of every container ever created
    nodes,     \* the capacity ledger, in memory
    pc,        \* where each task of the orchestrator is
    job,       \* its locals: current_service and the removals it has to do
    pass,      \* the reconcile pass: service_state, and replicas to add
    batches,   \* locals of a rollout: old_replicas still to go, the batch
    pending,   \* the rollout loop: a listing that is answered late
    faults,    \* history: faults so far, and whether one interrupted a task
    overwrote  \* history: a write has replaced a row it was not made from

storeVars == <<row, rollout, overwrote>>
hostVars == <<up, made, nodes>>
taskVars == <<pc, job, pass, batches, pending>>
orchVars == <<row, rollout, overwrote, routing, up, made, nodes,
              pc, job, pass, batches, pending, faults>>

-----------------------------------------------------------------------------
(* Lists of replicas, as sets in order of creation.                        *)

\* replicas[:n]
Oldest(replicas, n) ==
    {r \in replicas : Cardinality({s \in replicas : s <= r}) <= n}

\* Mutant of Beyond: the slice starts one too late.
Beyond_OffByOne(replicas, n) == replicas \ Oldest(replicas, n + 1)

\* running_replicas[n:]; a negative n counts from the end, as in Python.
Beyond(replicas, n) ==
    IF n >= 0 THEN replicas \ Oldest(replicas, n)
    ELSE {r \in replicas : Cardinality({s \in replicas : s >= r}) <= -n}

\* container_is_running
Running(r) == r \in up

StaleReplicas(service) ==
    {r \in service.replicas : made[r].image # service.image}

ObservedStatus(service) ==
    IF service.replicas # {} THEN "running" ELSE "degraded"

WithReplica(service, r, addressed) ==
    [service EXCEPT !.replicas = @ \cup {r},
                    !.addressed = IF addressed THEN @ \cup {r} ELSE @]

WithoutReplica(service, r) ==
    [service EXCEPT !.replicas = @ \ {r}, !.addressed = @ \ {r}]

-----------------------------------------------------------------------------
(* The store.  Write notes when the row it replaces is not the one the new *)
(* row was computed from: another task or process wrote in between.        *)

Write(base, service) ==
    /\ row' = service
    /\ overwrote' = (overwrote \/ row # base)

Goto(t, from, to) ==
    /\ pc[t] = from
    /\ pc' = [pc EXCEPT ![t] = to]

\* A fault strikes.
Fault(kind) ==
    /\ kind \in Faults
    /\ faults.count < MaxFaults
    /\ faults' = [count |-> faults.count + 1,
                  interrupted |-> \/ faults.interrupted
                                  \/ kind \in {"crash", "error"}]

NoRequest == CHOOSE request \in Requests : TRUE

Idle == [current |-> NoService, todo |-> {}, request |-> NoRequest,
         after |-> "idle"]
NoPass == [service |-> NoService, want |-> 0, missing |-> 0, fresh |-> 0,
           addressed |-> FALSE]
NoBatches == [old |-> {}, batch |-> {}, polls |-> 0]

InitOrchestrator ==
    /\ row = NoService
    /\ rollout = [d \in Rollouts |->
                    [status |-> "absent", image |-> CHOOSE i \in Images : TRUE]]
    /\ routing = {}
    /\ up = {}
    /\ made = <<>>
    /\ nodes = FreshNodes
    /\ pc = [t \in Tasks |-> IF t = Reconcile THEN "starting" ELSE "off"]
    /\ job = [t \in Tasks |-> Idle]
    /\ pass = NoPass
    /\ batches = [d \in Rollouts |-> NoBatches]
    /\ pending = {}
    /\ faults = [count |-> 0, interrupted |-> FALSE]
    /\ overwrote = FALSE

-----------------------------------------------------------------------------
(* _remove_replica, run by the reconcile pass and by rollouts: the         *)
(* replicas of todo one after the other, then on to after.                 *)

NextReplica(t) == CHOOSE r \in job[t].todo : \A s \in job[t].todo : r <= s

\* Mutant of RemovalLabel: the loop stops one replica early.
RemovalLabel_OffByOne(todo, after) ==
    IF Cardinality(todo) <= 1 THEN after ELSE "rm_stop"

RemovalLabel(todo, after) == IF todo = {} THEN after ELSE "rm_stop"

\* The replica at the head of todo is dealt with.
NextRemoval(t, from) ==
    LET rest == job[t].todo \ {NextReplica(t)}
    IN  /\ Goto(t, from, RemovalLabel(rest, job[t].after))
        /\ job' = [job EXCEPT ![t].todo = rest]

StopReplica(t) ==
    /\ Goto(t, "rm_stop", "rm_read")
    /\ up' = up \ {NextReplica(t)}
    /\ nodes' = Deallocate(nodes, made[NextReplica(t)].node, NextReplica(t),
                           job[t].request)
    /\ UNCHANGED <<storeVars, routing, made, job, pass, batches, pending,
                   faults>>

ReadForRemoval(t) ==
    /\ \/ /\ row # NoService
          /\ Goto(t, "rm_read", "rm_put")
          /\ job' = [job EXCEPT ![t].current = row]
       \/ /\ row = NoService
          /\ NextRemoval(t, "rm_read")
    /\ UNCHANGED <<storeVars, hostVars, routing, pass, batches, pending,
                   faults>>

PutRemoval(t) ==
    LET without == WithoutReplica(job[t].current, NextReplica(t))
    IN  /\ Goto(t, "rm_put", "rm_route")
        /\ Write(job[t].current, without)
        /\ job' = [job EXCEPT ![t].current = without]
        /\ UNCHANGED <<rollout, hostVars, routing, pass, batches, pending,
                       faults>>

RouteRemoval(t) ==
    LET rest == job[t].todo \ {NextReplica(t)}
    IN  /\ Goto(t, "rm_route", RemovalLabel(rest, job[t].after))
        /\ routing' = job[t].current.addressed
        /\ job' = [job EXCEPT ![t].todo = rest, ![t].current = NoService]
        /\ UNCHANGED <<storeVars, hostVars, pass, batches, pending, faults>>

RemoveReplica(t) ==
    StopReplica(t) \/ ReadForRemoval(t) \/ PutRemoval(t) \/ RouteRemoval(t)

-----------------------------------------------------------------------------
(* The reconcile pass: _reconcile_all, _reconcile_service,                 *)
(* _refresh_observed_replicas, _create_replica and _teardown_service.      *)

service_state == pass.service
current_service == job[Reconcile].current

\* Where _refresh_observed_replicas is once it has looked at all but todo.
RefreshLabel(seen, base, todo) ==
    IF todo # {} THEN "refresh"
    ELSE IF seen = base THEN "ref_route" ELSE "ref_put"

\* A service being deleted is torn down, any other is reconciled.
ListServices ==
    \/ /\ row = NoService
       /\ pc[Reconcile] = "idle"
       /\ UNCHANGED orchVars
    \/ /\ row # NoService
       /\ Goto(Reconcile, "idle",
               IF row.status = "deleting"
               THEN RemovalLabel(row.replicas, "td_delete")
               ELSE RefreshLabel(row, row, row.replicas))
       /\ job' = [job EXCEPT ![Reconcile] =
                    [current |-> IF row.status = "deleting" THEN NoService
                                 ELSE row,
                     todo |-> row.replicas, request |-> row.request,
                     after |-> IF row.status = "deleting" THEN "td_delete"
                               ELSE "idle"]]
       /\ pass' = [NoPass EXCEPT !.service = IF row.status = "deleting"
                                             THEN NoService ELSE row]
       /\ UNCHANGED <<storeVars, hostVars, routing, batches, pending, faults>>

\* One replica of the list: dropped when its container is not running, else
\* charged to its node (again, after a restart) and its address refreshed.
ObserveReplica ==
    LET r    == NextReplica(Reconcile)
        rest == job[Reconcile].todo \ {r}
        seen == IF Running(r) THEN WithReplica(service_state, r, TRUE)
                ELSE WithoutReplica(service_state, r)
    IN  /\ Goto(Reconcile, "refresh", RefreshLabel(seen, current_service, rest))
        /\ job' = [job EXCEPT ![Reconcile].todo = rest]
        /\ pass' = [pass EXCEPT !.service = seen]
        /\ nodes' = IF Running(r)
                    THEN Allocate(nodes, made[r].node, r, service_state.request)
                    ELSE Deallocate(nodes, made[r].node, r, service_state.request)
        /\ UNCHANGED <<storeVars, routing, up, made, batches, pending, faults>>

\* The row of the listing goes back to the store with what was observed.
PutObserved ==
    /\ Goto(Reconcile, "ref_put", "ref_route")
    /\ Write(current_service, service_state)
    /\ job' = [job EXCEPT ![Reconcile].current = NoService]
    /\ UNCHANGED <<rollout, hostVars, routing, pass, batches, pending,
                   faults>>

\* Compare with the desired count: add, or remove the newest, or neither.
Scale(from, service, want) ==
    LET have   == Cardinality(service.replicas)
        excess == IF have > want THEN Beyond(service.replicas, want) ELSE {}
    IN  /\ Goto(Reconcile, from, IF have < want THEN "create"
                                 ELSE RemovalLabel(excess, "observe"))
        /\ job' = [job EXCEPT ![Reconcile] =
                     [current |-> NoService, todo |-> excess,
                      request |-> service.request, after |-> "observe"]]
        /\ pass' = IF have < want
                   THEN [NoPass EXCEPT !.service = service,
                                       !.missing = want - have]
                   ELSE NoPass

\* Every replica of an older image is removed, all in the same pass.
RouteObserved ==
    LET stale == StaleReplicas(service_state)
    IN  /\ pc[Reconcile] = "ref_route"
        /\ routing' = service_state.addressed
        /\ \/ /\ stale = {}
              /\ Scale("ref_route", service_state, service_state.desired)
           \/ /\ stale # {}
              /\ Goto(Reconcile, "ref_route", "rm_stop")
              /\ job' = [job EXCEPT ![Reconcile] =
                           [current |-> NoService, todo |-> stale,
                            request |-> service_state.request,
                            after |-> "reread"]]
              /\ pass' = [pass EXCEPT !.want = service_state.desired]
        /\ UNCHANGED <<storeVars, hostVars, batches, pending, faults>>

\* The row is read again, but the desired count stays that of the listing.
ReadAgain ==
    /\ Scale("reread", IF row = NoService THEN service_state ELSE row, pass.want)
    /\ UNCHANGED <<storeVars, hostVars, routing, batches, pending, faults>>

\* One of the missing replicas is dealt with, whether it came up or not.
NextCreation(from) ==
    /\ Goto(Reconcile, from, IF pass.missing > 1 THEN "create" ELSE "observe")
    /\ pass' = IF pass.missing > 1
               THEN [pass EXCEPT !.missing = @ - 1, !.fresh = 0,
                                 !.addressed = FALSE]
               ELSE NoPass

\* No node has room, or Docker cannot create the container.
SkipReplica ==
    /\ NextCreation("create")
    /\ \/ /\ Candidates(nodes, service_state.request) = {}
          /\ UNCHANGED faults
       \/ Fault("docker")
    /\ UNCHANGED <<storeVars, hostVars, routing, job, batches, pending>>

CreateContainer ==
    LET fresh == Len(made) + 1
    IN  /\ Goto(Reconcile, "create", "cr_read")
        /\ fresh <= MaxMade
        /\ Candidates(nodes, service_state.request) # {}
        /\ made' = Append(made, [image |-> service_state.image,
                                 node |-> SelectNode(nodes, service_state.request)])
        /\ up' = up \cup {fresh}
        /\ \/ /\ pass' = [pass EXCEPT !.fresh = fresh, !.addressed = TRUE]
              /\ UNCHANGED faults
           \/ /\ Fault("address")
              /\ pass' = [pass EXCEPT !.fresh = fresh]
        /\ UNCHANGED <<storeVars, nodes, routing, job, batches, pending>>

\* Charge the node; without a row the container is left unrecorded.
AllocateReplica ==
    /\ pc[Reconcile] = "cr_read"
    /\ nodes' = Allocate(nodes, made[pass.fresh].node, pass.fresh,
                         service_state.request)
    /\ \/ /\ row # NoService
          /\ Goto(Reconcile, "cr_read", "cr_put")
          /\ job' = [job EXCEPT ![Reconcile].current = row]
          /\ UNCHANGED pass
       \/ /\ row = NoService
          /\ NextCreation("cr_read")
          /\ UNCHANGED job
    /\ UNCHANGED <<storeVars, up, made, routing, batches, pending, faults>>

PutReplica ==
    LET recorded == WithReplica(current_service, pass.fresh, pass.addressed)
    IN  /\ Goto(Reconcile, "cr_put", "cr_route")
        /\ Write(current_service, recorded)
        /\ job' = [job EXCEPT ![Reconcile].current = recorded]
        /\ UNCHANGED <<rollout, hostVars, routing, pass, batches, pending,
                       faults>>

\* Mutant of RouteReplica: the routing entry is not brought up to date.
RouteReplica_Skipped ==
    /\ NextCreation("cr_route")
    /\ job' = [job EXCEPT ![Reconcile].current = NoService]
    /\ UNCHANGED <<storeVars, hostVars, routing, batches, pending, faults>>

RouteReplica ==
    /\ NextCreation("cr_route")
    /\ routing' = current_service.addressed
    /\ job' = [job EXCEPT ![Reconcile].current = NoService]
    /\ UNCHANGED <<storeVars, hostVars, batches, pending, faults>>

\* The status of the row follows from its replicas, whatever it was.
StatusDiffers == row # NoService /\ row.status # ObservedStatus(row)

ReadStatus ==
    /\ \/ /\ StatusDiffers
          /\ Goto(Reconcile, "observe", "ob_put")
          /\ job' = [job EXCEPT ![Reconcile] = [Idle EXCEPT !.current = row]]
       \/ /\ ~StatusDiffers
          /\ Goto(Reconcile, "observe", "idle")
          /\ job' = [job EXCEPT ![Reconcile] = Idle]
    /\ pass' = NoPass
    /\ UNCHANGED <<storeVars, hostVars, routing, batches, pending, faults>>

PutStatus ==
    /\ Goto(Reconcile, "ob_put", "idle")
    /\ Write(current_service, [current_service EXCEPT
                                 !.status = ObservedStatus(current_service)])
    /\ job' = [job EXCEPT ![Reconcile] = Idle]
    /\ UNCHANGED <<rollout, hostVars, routing, pass, batches, pending, faults>>

\* The end of a teardown, after the replicas of the listing are removed.  It
\* is a lost update when the row has been rewritten for a service to keep.
DeleteRow ==
    /\ Goto(Reconcile, "td_delete", "td_route")
    /\ row' = NoService
    /\ overwrote' = \/ overwrote
                    \/ row # NoService /\ row.status # "deleting"
    /\ job' = [job EXCEPT ![Reconcile] = Idle]
    /\ UNCHANGED <<rollout, hostVars, routing, pass, batches, pending, faults>>

RemoveRoute ==
    /\ Goto(Reconcile, "td_route", "idle")
    /\ routing' = {}
    /\ UNCHANGED <<storeVars, hostVars, job, pass, batches, pending, faults>>

ReconcilePass ==
    \/ ListServices \/ ObserveReplica \/ PutObserved \/ RouteObserved
    \/ ReadAgain \/ SkipReplica \/ CreateContainer \/ AllocateReplica
    \/ PutReplica \/ RouteReplica \/ ReadStatus \/ PutStatus
    \/ DeleteRow \/ RemoveRoute \/ RemoveReplica(Reconcile)

-----------------------------------------------------------------------------
(* Rollouts: _dispatch_pending_rollouts and one _run_rollout per task.     *)

Started == pc[Reconcile] \notin {"starting", "orphans"}

PendingRollouts == {d \in Rollouts : rollout[d].status = "pending"}

\* A task for every listed rollout that does not have one.
Dispatch(listed) ==
    pc' = [t \in Tasks |->
             IF t \in listed /\ pc[t] = "off" THEN "begin" ELSE pc[t]]

\* The listing is answered at once ...
DispatchRollouts ==
    /\ Started
    /\ pending = {}
    /\ Dispatch(PendingRollouts)
    /\ UNCHANGED <<storeVars, hostVars, routing, job, pass, batches, pending,
                   faults>>

\* ... or so late that what it says may no longer be so.
DelayListing ==
    /\ Started
    /\ pending = {}
    /\ pending' = PendingRollouts
    /\ pending' # {}
    /\ UNCHANGED <<storeVars, hostVars, routing, pc, job, pass, batches>>

DispatchDelayed ==
    /\ pending # {}
    /\ pending' = {}
    /\ Dispatch(pending)
    /\ UNCHANGED <<storeVars, hostVars, routing, job, pass, batches, faults>>

\* while old_replicas: ... else the rollout is complete.
BatchLabel(old) == IF old = {} THEN "complete" ELSE "surge_read"

BeginRollout(d) ==
    /\ Goto(d, "begin", "read")
    /\ rollout' = [rollout EXCEPT ![d].status = "updating"]
    /\ UNCHANGED <<row, overwrote, hostVars, routing, job, pass, batches,
                   pending, faults>>

\* Read the row on the way from one label to the next, or leave when it is
\* gone.
ReadRow(d, from, to, gone) ==
    \/ /\ row # NoService
       /\ Goto(d, from, to)
       /\ job' = [job EXCEPT ![d].current = row]
    \/ /\ row = NoService
       /\ Goto(d, from, gone)
       /\ job' = [job EXCEPT ![d] = Idle]

\* A service without a row ends the task here, with the rollout updating.
ReadForRollout(d) ==
    /\ ReadRow(d, "read", "switch", "off")
    /\ batches' = [batches EXCEPT ![d].old =
                     IF row = NoService THEN {} ELSE row.replicas]
    /\ UNCHANGED <<storeVars, hostVars, routing, pass, pending, faults>>

\* Mutant of SwitchImage: the status changes and the image does not.
SwitchImage_StatusOnly(d) ==
    /\ Goto(d, "switch", BatchLabel(batches[d].old))
    /\ Write(job[d].current, [job[d].current EXCEPT !.status = "updating"])
    /\ job' = [job EXCEPT ![d] = Idle]
    /\ UNCHANGED <<rollout, hostVars, routing, pass, batches, pending, faults>>

SwitchImage(d) ==
    /\ Goto(d, "switch", BatchLabel(batches[d].old))
    /\ Write(job[d].current, [job[d].current EXCEPT
                                !.image = rollout[d].image,
                                !.status = "updating"])
    /\ job' = [job EXCEPT ![d] = Idle]
    /\ UNCHANGED <<rollout, hostVars, routing, pass, batches, pending, faults>>

SurgeRead(d) ==
    LET batch == Oldest(batches[d].old, BatchSize)
    IN  /\ ReadRow(d, "surge_read", "surge_put", "complete")
        /\ batches' = [batches EXCEPT ![d] =
                         IF row = NoService THEN NoBatches
                         ELSE [old |-> batches[d].old \ batch,
                               batch |-> batch, polls |-> 0]]
        /\ UNCHANGED <<storeVars, hostVars, routing, pass, pending, faults>>

\* Mutant of SurgePut: the batch is added to the replicas there are.
SurgePut_Absolute(d) ==
    /\ Goto(d, "surge_put", "wait")
    /\ Write(job[d].current,
             [job[d].current EXCEPT
                !.desired = Cardinality(job[d].current.replicas)
                              + Cardinality(batches[d].batch)])
    /\ job' = [job EXCEPT ![d] = Idle]
    /\ UNCHANGED <<rollout, hostVars, routing, pass, batches, pending, faults>>

SurgePut(d) ==
    /\ Goto(d, "surge_put", "wait")
    /\ Write(job[d].current,
             [job[d].current EXCEPT
                !.desired = @ + Cardinality(batches[d].batch)])
    /\ job' = [job EXCEPT ![d] = Idle]
    /\ UNCHANGED <<rollout, hostVars, routing, pass, batches, pending, faults>>

\* running_new: every replica of the row that is not of this batch counts.
Replaced(d) ==
    \/ row = NoService
    \/ Cardinality(row.replicas \ batches[d].batch) >=
         Cardinality(batches[d].batch)

\* Mutant of PollReplicas: no timeout.
PollReplicas_Patient(d) ==
    /\ Goto(d, "wait", IF Replaced(d) THEN "shrink_read" ELSE "wait")
    /\ UNCHANGED <<storeVars, hostVars, routing, job, pass, batches, pending,
                   faults>>

\* One poll: go on when the batch is replaced or the time is up.
PollReplicas(d) ==
    LET last == batches[d].polls + 1 >= MaxPolls
    IN  /\ Goto(d, "wait", IF Replaced(d) \/ last THEN "shrink_read" ELSE "wait")
        /\ batches' = [batches EXCEPT ![d].polls =
                         IF Replaced(d) \/ last THEN 0 ELSE @ + 1]
        /\ UNCHANGED <<storeVars, hostVars, routing, job, pass, pending,
                       faults>>

ShrinkRead(d) ==
    /\ ReadRow(d, "shrink_read", "shrink_put", "complete")
    /\ batches' = [batches EXCEPT ![d] =
                     IF row = NoService THEN NoBatches ELSE @]
    /\ UNCHANGED <<storeVars, hostVars, routing, pass, pending, faults>>

ShrinkPut(d) ==
    LET batch  == batches[d].batch
        shrunk == [job[d].current EXCEPT !.desired = @ - Cardinality(batch)]
    IN  /\ Goto(d, "shrink_put", RemovalLabel(batch, BatchLabel(batches[d].old)))
        /\ Write(job[d].current, shrunk)
        /\ job' = [job EXCEPT ![d] =
                     [current |-> NoService, todo |-> batch,
                      request |-> shrunk.request,
                      after |-> BatchLabel(batches[d].old)]]
        /\ batches' = [batches EXCEPT ![d].batch = {}]
        /\ UNCHANGED <<rollout, hostVars, routing, pass, pending, faults>>

CompleteRollout(d) ==
    /\ Goto(d, "complete", "final_read")
    /\ rollout' = [rollout EXCEPT ![d].status = "running"]
    /\ job' = [job EXCEPT ![d] = Idle]
    /\ UNCHANGED <<row, overwrote, hostVars, routing, pass, batches, pending,
                   faults>>

FinalRead(d) ==
    /\ ReadRow(d, "final_read", "final_put", "off")
    /\ UNCHANGED <<storeVars, hostVars, routing, pass, batches, pending,
                   faults>>

FinalPut(d) ==
    /\ Goto(d, "final_put", "off")
    /\ Write(job[d].current, [job[d].current EXCEPT !.status = "running"])
    /\ job' = [job EXCEPT ![d] = Idle]
    /\ UNCHANGED <<rollout, hostVars, routing, pass, batches, pending, faults>>

RolloutTask(d) ==
    \/ BeginRollout(d) \/ ReadForRollout(d) \/ SwitchImage(d)
    \/ SurgeRead(d) \/ SurgePut(d) \/ PollReplicas(d)
    \/ ShrinkRead(d) \/ ShrinkPut(d) \/ RemoveReplica(d)
    \/ CompleteRollout(d) \/ FinalRead(d) \/ FinalPut(d)

RolloutLoop == DispatchRollouts \/ DispatchDelayed

-----------------------------------------------------------------------------
(* Start, restart and faults.                                              *)

\* _remove_orphan_containers: the rows are read, then every managed
\* container that none of them names is removed.
ListKnown ==
    /\ Goto(Reconcile, "starting", "orphans")
    /\ job' = [job EXCEPT ![Reconcile].current = row]
    /\ UNCHANGED <<storeVars, hostVars, routing, pass, batches, pending,
                   faults>>

RemoveOrphans ==
    /\ Goto(Reconcile, "orphans", "idle")
    /\ up' = IF current_service = NoService THEN {}
             ELSE up \cap current_service.replicas
    /\ job' = [job EXCEPT ![Reconcile] = Idle]
    /\ UNCHANGED <<storeVars, routing, made, nodes, pass, batches, pending,
                   faults>>

Start == ListKnown \/ RemoveOrphans

\* A container exits or is removed behind the orchestrator's back.
LoseContainer ==
    /\ Fault("container")
    /\ \E r \in up : up' = up \ {r}
    /\ UNCHANGED <<storeVars, routing, made, nodes, taskVars>>

\* The process dies and is restarted: all its memory is gone.
Crash ==
    /\ Fault("crash")
    /\ nodes' = FreshNodes
    /\ pc' = [t \in Tasks |-> IF t = Reconcile THEN "starting" ELSE "off"]
    /\ job' = [t \in Tasks |-> Idle]
    /\ pass' = NoPass
    /\ batches' = [d \in Rollouts |-> NoBatches]
    /\ pending' = {}
    /\ UNCHANGED <<storeVars, routing, up, made>>

\* Mutant of Abandon: the rollout stays among the active ones.
Abandon_Active(t) ==
    /\ Fault("error")
    /\ pc[t] \notin {"starting", "orphans", "idle", "off"}
    /\ pc' = [pc EXCEPT ![t] = IF t = Reconcile THEN "idle" ELSE "active"]
    /\ job' = [job EXCEPT ![t] = Idle]
    /\ pass' = IF t = Reconcile THEN NoPass ELSE pass
    /\ UNCHANGED <<storeVars, hostVars, routing, batches, pending>>

\* A store, Redis or Docker call raises: the pass, or the rollout's task, is
\* abandoned where it is.
Abandon(t) ==
    /\ Fault("error")
    /\ pc[t] \notin {"starting", "orphans", "idle", "off"}
    /\ pc' = [pc EXCEPT ![t] = IF t = Reconcile THEN "idle" ELSE "off"]
    /\ job' = [job EXCEPT ![t] = Idle]
    /\ pass' = IF t = Reconcile THEN NoPass ELSE pass
    /\ batches' = [d \in Rollouts |-> IF d = t THEN NoBatches ELSE batches[d]]
    /\ UNCHANGED <<storeVars, hostVars, routing, pending>>

FaultStep ==
    \/ LoseContainer
    \/ Crash
    \/ \E t \in Tasks : Abandon(t)
    \/ Fault("listing") /\ DelayListing

OrchestratorStep ==
    Start \/ ReconcilePass \/ RolloutLoop \/ \E d \in Rollouts : RolloutTask(d)
=============================================================================
