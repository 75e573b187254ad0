------------------------------ MODULE Platform ------------------------------
(***************************************************************************)
(* The orchestrator together with the other writers of a service's row:    *)
(* the REST handlers and the manifest applier of the control plane, and    *)
(* the autoscaler process.  Every one of them reads the row, waits for the *)
(* answer and writes a whole row back; other writers run in between.       *)
(***************************************************************************)
EXTENDS Orchestrator

CONSTANTS
    Clients,      \* requests in progress at the same time
    Ops,          \* the operations clients may ask for
    MaxOps,       \* bound: operations in a behaviour
    Specs,        \* the specs clients submit
    NewImages,    \* the images deployments move to
    MinReplicas,  \* spec.min_replicas
    MaxReplicas   \* spec.max_replicas

ASSUME PlatformAssumption ==
    /\ Ops \subseteq {"create", "patch", "apply", "delete", "destroy",
                      "scale", "deploy"}
    /\ MaxOps \in Nat
    /\ Specs \subseteq [image : Images, desired : Nat, request : Requests]
    /\ Specs # {}
    /\ NewImages \subseteq Images
    /\ MinReplicas \in 0..MaxReplicas
    /\ MaxReplicas \in Nat

VARIABLES
    api,   \* what each client's request has read and is about to write
    ops,   \* history: operations asked for so far
    asked  \* history: the desired count last written for a client

apiVars == <<api, ops, asked>>
vars == <<row, rollout, overwrote, routing, up, made, nodes,
          pc, job, pass, batches, pending, faults, api, ops, asked>>

\* Stands where a request carries no spec.
NoSpec == CHOOSE spec \in Specs : TRUE

NoCall == [op |-> "none", base |-> NoService, spec |-> NoSpec]

NewService(spec) ==
    [image |-> spec.image, desired |-> spec.desired, request |-> spec.request,
     status |-> "pending", replicas |-> {}, addressed |-> {}]

WithSpec(service, spec) ==
    [service EXCEPT !.image = spec.image, !.desired = spec.desired,
                    !.request = spec.request]

Init ==
    /\ InitOrchestrator
    /\ api = [c \in Clients |-> NoCall]
    /\ ops = 0
    /\ asked = 0

-----------------------------------------------------------------------------
(* What a handler does when its read of the row is answered.  A handler    *)
(* that finds no row to change, or a row where it wants none, answers with *)
(* an error and is not modelled further.                                   *)

Receive(c, op) ==
    /\ op \in Ops
    /\ ops < MaxOps
    /\ api[c] = NoCall
    /\ ops' = ops + 1

Begin(c, op, spec) ==
    /\ Receive(c, op)
    /\ api' = [api EXCEPT ![c] = [op |-> op, base |-> row, spec |-> spec]]
    /\ UNCHANGED <<orchVars, asked>>

CreateService(c) ==
    /\ row = NoService
    /\ \E spec \in Specs : Begin(c, "create", spec)

UpdateService(c) ==
    /\ row # NoService
    /\ \E spec \in Specs : Begin(c, "patch", spec)

ApplyService(c) == \E spec \in Specs : Begin(c, "apply", spec)

DeleteService(c) ==
    /\ row # NoService
    /\ Begin(c, "delete", NoSpec)

DestroyService(c) ==
    /\ row # NoService
    /\ Begin(c, "destroy", NoSpec)

\* The autoscaler decides on the row of its listing ...
EvaluateService(c) ==
    /\ row # NoService
    /\ MinReplicas # MaxReplicas
    /\ \/ /\ row.desired < MaxReplicas
          /\ Begin(c, "scale", [NoSpec EXCEPT !.desired = row.desired + 1])
       \/ /\ row.desired > MinReplicas
          /\ Begin(c, "scale", [NoSpec EXCEPT !.desired = row.desired - 1])

\* ... and reads the row again before it writes the count it decided on.
RefreshForScale(c) ==
    /\ api[c].op = "scale"
    /\ api' = [api EXCEPT ![c] = IF row = NoService THEN NoCall
                                 ELSE [@ EXCEPT !.op = "scale_put",
                                                !.base = row]]
    /\ UNCHANGED <<orchVars, ops, asked>>

\* Reading the service and storing the rollout are one step: the rollout
\* does not depend on anything the row holds.
CreateDeployment(c) ==
    /\ Receive(c, "deploy")
    /\ row # NoService
    /\ \E d \in Rollouts, image \in NewImages :
          /\ rollout[d].status = "absent"
          /\ rollout' = [rollout EXCEPT ![d] =
                           [status |-> "pending", image |-> image]]
    /\ UNCHANGED <<row, overwrote, routing, hostVars, taskVars, faults, api,
                   asked>>

\* The row a request is about to write.
NewRow(request) ==
    CASE request.op = "create" -> NewService(request.spec)
      [] request.op = "patch" ->
           [WithSpec(request.base, request.spec) EXCEPT !.status = "updating"]
      [] request.op = "apply" ->
           IF request.base = NoService THEN NewService(request.spec)
           ELSE WithSpec(request.base, request.spec)
      [] request.op = "delete" -> [request.base EXCEPT !.status = "deleting"]
      [] request.op = "destroy" -> NoService
      [] request.op = "scale_put" ->
           [request.base EXCEPT !.desired = request.spec.desired]

Respond(c) ==
    LET written == NewRow(api[c])
    IN  /\ api[c].op \notin {"none", "scale"}
        /\ Write(api[c].base, written)
        /\ asked' = IF api[c].op \in {"delete", "destroy"} THEN asked
                    ELSE written.desired
        /\ api' = [api EXCEPT ![c] = NoCall]
        /\ UNCHANGED <<rollout, routing, hostVars, taskVars, faults, ops>>

ClientStep(c) ==
    \/ CreateService(c) \/ UpdateService(c) \/ ApplyService(c)
    \/ DeleteService(c) \/ DestroyService(c) \/ EvaluateService(c)
    \/ CreateDeployment(c)

Next ==
    \/ (OrchestratorStep \/ FaultStep) /\ UNCHANGED apiVars
    \/ \E c \in Clients : ClientStep(c) \/ RefreshForScale(c) \/ Respond(c)

\* Every await is answered and the process is restarted after a crash
\* (restart: unless-stopped), so every task keeps taking its steps; requests
\* and faults come when they come.
Fairness ==
    /\ WF_vars((Start \/ ReconcilePass) /\ UNCHANGED apiVars)
    /\ WF_vars(RolloutLoop /\ UNCHANGED apiVars)
    /\ \A d \in Rollouts : WF_vars(RolloutTask(d) /\ UNCHANGED apiVars)
    /\ \A c \in Clients : WF_vars(RefreshForScale(c) \/ Respond(c))

Spec == Init /\ [][Next]_vars
FairSpec == Spec /\ Fairness
=============================================================================
