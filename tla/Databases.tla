------------------------------ MODULE Databases ------------------------------
(***************************************************************************)
(* A managed database in the orchestrator (compute/orchestrator.py): its   *)
(* row, its container and volume, the networks of the services bound to it *)
(* and the credentials a new replica gets.  The reconcile pass looks after *)
(* the database and then creates the replicas that are missing; it is the  *)
(* only task that creates containers.  The pass is at the await that its   *)
(* next action answers; what the code does between two awaits, Docker      *)
(* calls included, is one action, and any of them may raise.               *)
(*                                                                         *)
(* How many replicas a service has is the matter of the module             *)
(* Orchestrator: here one that is recorded stands for them.                *)
(***************************************************************************)
EXTENDS Naturals, FiniteSets, FiniteSetsExt

CONSTANTS
    Services,
    MaxContainers,
    Scenarios          \* what takes part and what may happen

\* The services of a behaviour, what happens beside applying, what fails, and
\* the bounds on both.
Scenario ==
    [services : SUBSET Services,
     ops : SUBSET {"destroy", "bind", "unbind", "retire"}, maxOps : Nat,
     faults : SUBSET {"stops", "vanishes", "crash", "docker", "error"}, maxFaults : Nat,
     containers : 0..MaxContainers]

ASSUME DatabasesAssumption ==
    /\ Scenarios \subseteq Scenario /\ MaxContainers \in Nat
    /\ Services \cap {"password", "database", "nothing"} = {}

Ids == 1..MaxContainers
None == 0

VARIABLES
    row,         \* of the database
    services,    \* of each service: its row
    containers,  \* of the database and of replicas
    secret,      \* the password and the services' tokens, None when missing
    volume,      \* the password the data was made with
    minted,      \* how many secrets have been made: each is a new value
    pass,        \* where the reconcile pass is and what it holds
    cut,         \* history: joining the networks has raised since the row was written
    up, ops, faults,
    scenario     \* the one this behaviour follows

limits == <<ops, faults, scenario>>
dockerVars == <<containers, volume>>
secretVars == <<secret, minted>>
vars == <<row, services, dockerVars, secretVars, pass, cut, up, limits>>

NoRow == [status |-> "absent", container |-> None]
Pending == [status |-> "pending", container |-> None]
NoServiceRow == [exists |-> FALSE, bound |-> FALSE, replica |-> None]
NoContainer == [of |-> "nothing", running |-> FALSE, nets |-> {}, password |-> None, token |-> None]
\* The service is the one whose replica is created, or the database is at hand.
Idle == [at |-> "idle", service |-> "database", bound |-> FALSE, base |-> NoRow,
         password |-> None, token |-> None, id |-> None, todo |-> {}]

Init ==
    /\ row = NoRow
    /\ services = [s \in Services |-> NoServiceRow]
    /\ containers = [i \in Ids |-> NoContainer]
    /\ secret = [n \in {"password"} \cup Services |-> None]
    /\ volume = None /\ minted = 0
    /\ pass = Idle /\ cut = FALSE
    /\ up = TRUE /\ ops = 0 /\ faults = 0 /\ scenario \in Scenarios

Fault(kind) ==
    /\ kind \in scenario.faults /\ faults < scenario.maxFaults
    /\ faults' = faults + 1
    /\ UNCHANGED <<ops, scenario>>
Of(kind) == {i \in Ids : containers[i].of = kind}
Running(i) == i # None /\ containers[i].running
FreshIds == {i \in 1..scenario.containers :
                /\ containers[i] = NoContainer /\ i \notin {row.container, pass.base.container, pass.id}
                /\ \A s \in Services : services[s].replica # i}
Fresh == Min(FreshIds)
Goto(step) == pass' = [pass EXCEPT !.at = step]
\* The pass goes on with its next service.
Over == pass' = [Idle EXCEPT !.at = IF pass.service = "database" THEN "services" ELSE "next", !.todo = pass.todo]
Abort == pass' = Idle

----------------------------------------------------------------------------
(* The database *)

ListDatabases ==
    /\ up /\ pass.at = "idle"
    /\ pass' = [pass EXCEPT !.base = row, !.at = IF row = NoRow THEN "services" ELSE "database"]
    /\ UNCHANGED <<row, services, dockerVars, secretVars, cut, up, limits>>

ToPut(base, next) == pass' = [pass EXCEPT !.base = base, !.at = next]

Forgotten(base) == Pending

\* Mutant of ReconcileDatabase: a stopped container is left where it is.
ReconcileDatabase_KeepsStale ==
    /\ up /\ pass.at = "database"
    /\ LET base == pass.base IN
       IF base.container # None
       THEN /\ IF ~Running(base.container) THEN ToPut(Forgotten(base), "put and leave")
               ELSE IF base.status # "running" THEN ToPut([base EXCEPT !.status = "running"], "put and leave")
               ELSE Goto("services")
            /\ UNCHANGED containers
       ELSE IF \E i \in Of("database") : Running(i)
       THEN /\ ToPut([status |-> "running", container |-> Max(Of("database"))], "put")
            /\ UNCHANGED containers
       ELSE Goto("password") /\ UNCHANGED containers
    /\ UNCHANGED <<row, services, volume, secretVars, cut, up, limits>>

\* _reconcile_database, until it writes the row or needs the password.
ReconcileDatabase ==
    /\ up /\ pass.at = "database"
    /\ LET base == pass.base IN
       IF base.container # None
       THEN /\ IF ~Running(base.container) THEN ToPut(Forgotten(base), "put and leave")
               ELSE IF base.status # "running" THEN ToPut([base EXCEPT !.status = "running"], "put and leave")
               ELSE Goto("services")
            /\ UNCHANGED containers
       ELSE IF \E i \in Of("database") : Running(i)
       THEN /\ ToPut([status |-> "running", container |-> Max(Of("database"))], "put")
            /\ UNCHANGED containers
       ELSE /\ containers' = [i \in Ids |-> IF i \in Of("database") THEN NoContainer ELSE containers[i]]
            /\ Goto("password")
    /\ UNCHANGED <<row, services, volume, secretVars, cut, up, limits>>

\* The container that Docker makes, and the password of data that is new.
Creates(running) ==
    /\ FreshIds # {}
    /\ containers' = [containers EXCEPT ![Fresh] =
           [NoContainer EXCEPT !.of = "database", !.running = running, !.password = pass.password]]
    /\ volume' = IF running /\ volume = None THEN pass.password ELSE volume

\* Docker refuses a name that is taken.  What it raises is caught and logged,
\* also when the container has been made by then, and even been started.
CreateDatabase ==
    /\ up /\ pass.at = "create database"
    /\ IF Of("database") # {} THEN Over /\ UNCHANGED <<dockerVars, limits>>
       ELSE \/ /\ Creates(TRUE)
               /\ ToPut([status |-> "running", container |-> Fresh], "put")
               /\ UNCHANGED limits
            \/ /\ Fault("docker")
               /\ UNCHANGED dockerVars \/ \E running \in BOOLEAN : Creates(running)
               /\ Over
    /\ UNCHANGED <<row, services, secretVars, cut, up>>

PutDatabase ==
    /\ up /\ pass.at \in {"put", "put and leave"}
    /\ row' = pass.base
    /\ cut' = FALSE
    /\ Goto(IF pass.at = "put" THEN "join" ELSE "services")
    /\ UNCHANGED <<services, dockerVars, secretVars, up, limits>>

BoundServices == {s \in Services : services[s].exists /\ services[s].bound}

Attached(id, nets) == IF nets = {} THEN containers ELSE [containers EXCEPT ![id].nets = @ \cup nets]

\* Joining a container that is gone raises, and the pass is over.
Join(id, nets, next) ==
    IF nets # {} /\ containers[id] = NoContainer
    THEN Abort /\ UNCHANGED containers
    ELSE containers' = Attached(id, nets) /\ Goto(next)

\* _attach_database_to_bound_service_networks, when the services are listed.
JoinBoundServices ==
    /\ up /\ pass.at = "join"
    /\ Join(pass.base.container, BoundServices, "services")
    /\ UNCHANGED <<row, services, volume, secretVars, cut, up, limits>>

\* Listing the services, or Docker at one of them, raises: the row says RUNNING
\* by then, and no later pass gets here again.
JoinFails ==
    /\ up /\ pass.at = "join" /\ Fault("error")
    /\ \E nets \in SUBSET BoundServices :
           containers' = IF containers[pass.base.container] = NoContainer THEN containers
                         ELSE Attached(pass.base.container, nets)
    /\ cut' = TRUE
    /\ Abort
    /\ UNCHANGED <<row, services, volume, secretVars, up>>

----------------------------------------------------------------------------
(* A replica that is missing *)

\* The rows as they are listed; the pass takes them one by one.
ListServices ==
    /\ up /\ pass.at = "services"
    /\ pass' = [Idle EXCEPT !.at = "next",
           !.todo = {<<s, services[s].bound>> : s \in {r \in Services : services[r].exists /\ services[r].replica = None}}]
    /\ UNCHANGED <<row, services, dockerVars, secretVars, cut, up, limits>>

BeginReplica(s, bound) ==
    /\ up /\ pass.at = "next" /\ <<s, bound>> \in pass.todo
    /\ pass' = [pass EXCEPT !.at = "token", !.service = s, !.bound = bound, !.todo = @ \ {<<s, bound>>}]
    /\ UNCHANGED <<row, services, dockerVars, secretVars, cut, up, limits>>

EndPass ==
    /\ up /\ pass.at = "next" /\ pass.todo = {}
    /\ Abort
    /\ UNCHANGED <<row, services, dockerVars, secretVars, cut, up, limits>>

\* What is asked for at each await, and what comes after it is known.
Asked == IF pass.at \in {"token", "mint token"} THEN pass.service ELSE "password"
Then ==
    CASE Asked = pass.service -> IF pass.bound THEN "database env" ELSE "create replica"
      [] pass.service = "database" -> "create database"
      [] OTHER -> "create replica"
Known(value) ==
    pass' = [pass EXCEPT !.at = Then,
        !.password = IF Asked = "password" THEN value ELSE @,
        !.token = IF Asked = "password" THEN @ ELSE value]

\* _service_token and _database_password: what is there is used ...
GetSecret ==
    /\ up /\ pass.at \in {"token", "password"}
    /\ IF secret[Asked] # None THEN Known(secret[Asked])
       ELSE Goto(IF pass.at = "token" THEN "mint token" ELSE "mint password")
    /\ UNCHANGED <<row, services, dockerVars, secretVars, cut, up, limits>>

\* Mutant of CreateSecret: the value is not stored.
CreateSecret_Forgotten ==
    /\ up /\ pass.at \in {"mint token", "mint password"}
    /\ minted' = minted + 1
    /\ Known(minted + 1)
    /\ UNCHANGED <<row, services, dockerVars, secret, cut, up, limits>>

\* ... and what is not, made and stored.
CreateSecret ==
    /\ up /\ pass.at \in {"mint token", "mint password"}
    /\ minted' = minted + 1
    /\ secret' = [secret EXCEPT ![Asked] = minted + 1]
    /\ Known(minted + 1)
    /\ UNCHANGED <<row, services, dockerVars, cut, up, limits>>

DatabaseEnv ==
    /\ up /\ pass.at = "database env"
    /\ Goto(IF row = NoRow THEN "create replica" ELSE "password")
    /\ UNCHANGED <<row, services, dockerVars, secretVars, cut, up, limits>>

CreateReplica ==
    /\ up /\ pass.at = "create replica"
    /\ \/ /\ FreshIds # {}
          /\ containers' = [containers EXCEPT ![Fresh] =
                 [NoContainer EXCEPT !.of = pass.service, !.running = TRUE,
                                     !.password = pass.password, !.token = pass.token]]
          /\ pass' = [pass EXCEPT !.id = Fresh, !.at = IF pass.bound THEN "attach" ELSE "record"]
          /\ UNCHANGED limits
       \/ /\ Fault("docker")
          /\ Over /\ UNCHANGED containers
    /\ UNCHANGED <<row, services, volume, secretVars, cut, up>>

\* Mutant of AttachReplica: joining is left to the pass that starts a database.
AttachReplica_Not ==
    /\ up /\ pass.at = "attach"
    /\ Join(row.container, {}, "record")
    /\ UNCHANGED <<row, services, volume, secretVars, cut, up, limits>>

\* _attach_service_replica_networks, when the database's row is read.
AttachReplica ==
    /\ up /\ pass.at = "attach"
    /\ Join(row.container, IF row.container = None THEN {} ELSE {pass.service}, "record")
    /\ UNCHANGED <<row, services, volume, secretVars, cut, up, limits>>

RecordReplica ==
    /\ up /\ pass.at = "record"
    /\ services' = [services EXCEPT ![pass.service].replica = pass.id]
    /\ Over
    /\ UNCHANGED <<row, dockerVars, secretVars, cut, up, limits>>

\* Any other call of the pass raises: _reconcile_loop logs it and begins anew.
PassFails ==
    /\ up /\ pass.at \notin {"idle", "join"} /\ Fault("error")
    /\ Abort
    /\ UNCHANGED <<row, services, dockerVars, secretVars, cut, up>>

----------------------------------------------------------------------------
(* Replicas that go, clients, failures and the start of the orchestrator *)

Client ==
    /\ ops < scenario.maxOps
    /\ ops' = ops + 1
    /\ UNCHANGED <<faults, scenario>>

\* _remove_replica, of a rollout or a smaller count: the container goes first,
\* and the row is read and written afterwards, by this task or by a later pass
\* that finds the container gone.
RetireReplica(s) ==
    /\ "retire" \in scenario.ops /\ services[s].replica # None
    /\ containers[services[s].replica] # NoContainer /\ Client
    /\ containers' = [containers EXCEPT ![services[s].replica] = NoContainer]
    /\ UNCHANGED <<row, services, volume, secretVars, pass, cut, up>>

UnrecordReplica(s) ==
    /\ up /\ services[s].replica # None /\ containers[services[s].replica] = NoContainer
    /\ services' = [services EXCEPT ![s].replica = None]
    /\ UNCHANGED <<row, dockerVars, secretVars, pass, cut, up, limits>>

ApplyDatabase ==
    /\ row = NoRow /\ Client /\ row' = Pending
    /\ UNCHANGED <<services, dockerVars, secretVars, pass, cut, up>>

\* Nothing sets the status DELETING of a database: its row is just deleted.
DestroyDatabase ==
    /\ "destroy" \in scenario.ops /\ row # NoRow /\ Client /\ row' = NoRow
    /\ UNCHANGED <<services, dockerVars, secretVars, pass, cut, up>>

ApplyService(s, bound) ==
    /\ services[s].exists => /\ services[s].bound # bound
                             /\ (IF bound THEN "bind" ELSE "unbind") \in scenario.ops
    /\ s \in scenario.services /\ Client
    /\ services' = [services EXCEPT ![s].exists = TRUE, ![s].bound = bound]
    /\ UNCHANGED <<row, dockerVars, secretVars, pass, cut, up>>

DatabaseFails(i, how) ==
    /\ Fault(how)
    /\ containers[i].of = "database" /\ containers[i].running
    /\ containers' = [containers EXCEPT ![i] = IF how = "vanishes" THEN NoContainer ELSE [@ EXCEPT !.running = FALSE]]
    /\ UNCHANGED <<row, services, volume, secretVars, pass, cut, up>>

Crash ==
    /\ up /\ Fault("crash")
    /\ up' = FALSE /\ Abort
    /\ UNCHANGED <<row, services, dockerVars, secretVars, cut>>

\* _remove_orphan_containers: whatever runs and no service names, the database
\* included.
Start ==
    /\ ~up /\ up' = TRUE
    /\ containers' = [i \in Ids |->
           IF containers[i].running /\ i \notin {services[s].replica : s \in Services} THEN NoContainer
           ELSE containers[i]]
    /\ UNCHANGED <<row, services, volume, secretVars, pass, cut, limits>>

PassStep ==
    \/ ListDatabases \/ ReconcileDatabase \/ CreateDatabase \/ PutDatabase \/ JoinBoundServices
    \/ ListServices \/ EndPass \/ \E s \in Services, bound \in BOOLEAN : BeginReplica(s, bound)
    \/ GetSecret \/ CreateSecret \/ DatabaseEnv \/ CreateReplica \/ AttachReplica \/ RecordReplica

Next ==
    \/ PassStep \/ JoinFails \/ PassFails
    \/ ApplyDatabase \/ DestroyDatabase \/ \E s \in Services, bound \in BOOLEAN : ApplyService(s, bound)
    \/ \E s \in Services : RetireReplica(s) \/ UnrecordReplica(s)
    \/ \E i \in Ids, how \in {"stops", "vanishes"} : DatabaseFails(i, how)
    \/ Crash \/ Start

Spec == Init /\ [][Next]_vars

\* The event loop runs the pass, and a crashed process is started again.
FairSpec == Spec /\ WF_vars(PassStep) /\ WF_vars(Start)

----------------------------------------------------------------------------
(* Properties *)

TypeOK ==
    /\ row.status \in {"absent", "pending", "running"} /\ row.container \in Ids \cup {None}
    /\ row.status = "running" <=> row.container # None
    /\ services \in [Services -> [exists : BOOLEAN, bound : BOOLEAN, replica : Ids \cup {None}]]
    /\ \A i \in Ids : containers[i].of \in {"nothing", "database"} \cup Services
    /\ Cardinality(Of("database")) <= 1
    /\ pass.id \in Ids \cup {None} /\ pass.service \in {"database"} \cup Services

Joined(s) == Running(row.container) /\ s \in containers[row.container].nets

\* "Databases join the service networks of bound services"
\* (docs/architecture.md), when a service is bound from its first row on: once
\* the row names a running database and the service has a replica, they share
\* a network or the pass is about to see to it, whatever order the two started
\* in and however often the database, a replica or the orchestrator was lost,
\* and wherever a pass was cut off but in the joining of that very container.
BoundJoined ==
    "bind" \notin scenario.ops => \A s \in Services :
        up /\ services[s].bound /\ services[s].replica # None /\ Running(row.container) =>
            Joined(s) \/ pass.at = "join" \/ cut

\* Every secret a recorded replica was given still opens what it is for, the
\* data of the database and the service's own identity, over passes that were
\* cut off between making a secret and using it (_service_token,
\* _database_password).
CredentialsAgree ==
    \A s \in Services : services[s].replica # None =>
        LET c == containers[services[s].replica] IN
        c # NoContainer =>
            /\ c.token = secret[s]
            /\ c.password # None /\ volume # None => c.password = volume

\* A database whose row stays gets a container that runs and that the bound
\* services reach, after any loss of the container or of the orchestrator and
\* after any pass that raised but in the joining of that container.
DatabaseServes == \A s \in Services : (row # NoRow /\ services[s].bound) ~> (row = NoRow \/ Joined(s) \/ cut)

\* "Databases join the service networks of bound services"
\* (docs/architecture.md): a binding that is there to stay takes effect.
EventuallyJoined == \A s \in Services : []((services[s].bound /\ row # NoRow) => <>(~services[s].bound \/ row = NoRow \/ Joined(s)))

\* "The database container joins only the networks of services that declare a
\* resources.databases binding" (docs/architecture.md): a binding that was
\* removed for good ends.
EventuallyLeft == \A s \in Services : (services[s].exists /\ ~services[s].bound) ~> (services[s].bound \/ ~Joined(s))

\* "Destroy resources from a manifest with: aws-light destroy" (docs/examples.md):
\* a database whose row was destroyed does not run on for ever.
EventuallyDestroyed == (row = NoRow) ~> (row # NoRow \/ \A i \in Of("database") : ~Running(i))
=============================================================================
