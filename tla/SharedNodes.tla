----------------------------- MODULE SharedNodes -----------------------------
(***************************************************************************)
(* Several services on the same nodes: the reconcile pass takes them one   *)
(* after the other and charges the ledger of NodeManager, rollouts release *)
(* replicas beside it, and a restart begins with an empty ledger.          *)
(*                                                                         *)
(* How one service is reconciled, await by await, is in Orchestrator.      *)
(* Here the steps are those between which another task changes the ledger  *)
(* or a row; reading a row and writing it back is one step, but for the    *)
(* row of the listing, which the pass holds for as long as it takes.  An   *)
(* exception may end the pass at any of its steps; one in the task of a    *)
(* rollout is left to Orchestrator.                                        *)
(***************************************************************************)
EXTENDS NodeManager, Sequences, SequencesExt

CONSTANTS
    Services,
    Blocked,      \* services for which Docker cannot make a network
    MaxReplicas,  \* of a service
    MaxContainers,
    Scenarios     \* what may be asked for and what may go wrong

\* An exception is told apart by what it leaves behind: a replica that runs and
\* is not charged, one that is charged and not recorded, one that is released
\* and still recorded, or none of these.
Faults == {"exit", "crash", "raise", "raise_in_start", "raise_in_record", "raise_in_removal"}

\* sizes is the CPU a service may ask for; the bounds are on operations and
\* faults in a behaviour.
Scenario ==
    [sizes : SUBSET Nat, ops : SUBSET {"scale", "resize", "delete", "rollout"}, maxOps : Nat,
     faults : SUBSET Faults, maxFaults : Nat]

ASSUME SharedNodesAssumption ==
    /\ Scenarios \subseteq Scenario /\ IsFiniteSet(Services)
    /\ Blocked \subseteq Services
    /\ MaxReplicas \in Nat /\ MaxContainers \in Nat

Ids == 1..MaxContainers

VARIABLES
    rows,        \* of each service
    containers,  \* every replica that was started, with what its row keeps
    nodes,       \* the ledger
    pass,        \* where the pass is and what it holds
    rollouts,    \* of each service: its rollout
    ops, faults,
    scenario     \* the one this behaviour follows

limits == <<ops, faults, scenario>>
vars == <<rows, containers, nodes, pass, rollouts, limits>>

NoRow == [exists |-> FALSE, deleting |-> FALSE, desired |-> 0, size |-> 0, image |-> 0, replicas |-> {}]
NoContainer == [state |-> "new", node |-> 0, size |-> 0, image |-> 0]
Idle == [at |-> "idle", todo |-> <<>>, name |-> "none", base |-> NoRow, desired |-> 0,
         remove |-> <<>>, create |-> 0, node |-> 0, then |-> "idle"]
NoRollout == [at |-> "idle", base |-> NoRow, remove |-> <<>>]

Init ==
    /\ scenario \in Scenarios
    /\ rows \in [Services -> {[NoRow EXCEPT !.exists = TRUE, !.desired = 1, !.size = z] : z \in scenario.sizes}]
    /\ containers = [i \in Ids |-> NoContainer]
    /\ nodes = FreshNodes
    /\ pass = Idle
    /\ rollouts = [s \in Services |-> NoRollout]
    /\ ops = 0 /\ faults = 0

Fault(kind) ==
    /\ kind \in scenario.faults /\ faults < scenario.maxFaults
    /\ faults' = faults + 1
    /\ UNCHANGED <<ops, scenario>>
Ask(op) ==
    /\ op \in scenario.ops /\ ops < scenario.maxOps
    /\ ops' = ops + 1
    /\ UNCHANGED <<faults, scenario>>
Request(size) == [cpu |-> size, memory |-> 0]
Running(i) == containers[i].state = "running"
InOrder(replicas) ==
    CHOOSE order \in [1..Cardinality(replicas) -> replicas] :
        \A i, j \in DOMAIN order : i < j => order[i] < order[j]

----------------------------------------------------------------------------
(* The pass *)

\* The store lists rows in no order of its own.
List ==
    /\ pass.at = "idle"
    /\ \E order \in SetToSeqs({s \in Services : rows[s].exists}) :
           pass' = [Idle EXCEPT !.at = "next", !.todo = [k \in DOMAIN order |-> [name |-> order[k], base |-> rows[order[k]]]]]
    /\ UNCHANGED <<rows, containers, nodes, rollouts, limits>>

\* A deleted service is torn down; the row goes last.
NextService ==
    LET next == Head(pass.todo) IN
    /\ pass.at = "next"
    /\ pass' = IF pass.todo = <<>> THEN Idle
               ELSE LET held == [Idle EXCEPT !.todo = Tail(pass.todo), !.name = next.name, !.base = next.base] IN
                    IF next.base.deleting
                    THEN [held EXCEPT !.at = "remove", !.remove = InOrder(next.base.replicas), !.then = "forget"]
                    ELSE [held EXCEPT !.at = "refresh", !.desired = next.base.desired]
    /\ UNCHANGED <<rows, containers, nodes, rollouts, limits>>

\* Mutant of Observe: replicas that are gone are not released.
Observe_Keeps(ledger, i) ==
    IF Running(i) THEN Allocate(ledger, containers[i].node, i, Request(pass.base.size)) ELSE ledger

\* A replica that runs is charged, one that does not is released.
Observe(ledger, i) ==
    IF Running(i) THEN Allocate(ledger, containers[i].node, i, Request(pass.base.size))
    ELSE Deallocate(ledger, containers[i].node, i, Request(pass.base.size))

\* Mutant of Surplus: the first one too many stays.
Surplus_OffByOne(have, desired) ==
    IF desired >= 0 THEN SubSeq(have, desired + 2, Len(have)) ELSE have

\* replicas[desired:], of the last ones if the count is negative.
Surplus(have, desired) ==
    IF desired >= 0 THEN SubSeq(have, desired + 1, Len(have))
    ELSE IF Len(have) + desired <= 0 THEN have ELSE SubSeq(have, Len(have) + desired + 1, Len(have))

\* What to remove or how many to create, of the replicas the pass knows.
Balance(held) ==
    LET have == InOrder(held.base.replicas) IN
    IF Len(have) > held.desired
    THEN [held EXCEPT !.at = "remove", !.remove = Surplus(have, held.desired), !.then = "status"]
    ELSE [held EXCEPT !.at = "place", !.create = held.desired - Len(have)]

\* _ensure_service_network and _refresh_observed_replicas.  The listed row is
\* written back when replicas of it are gone; those of another image follow.
Refresh ==
    LET gone == {i \in pass.base.replicas : ~Running(i)}
        stay == pass.base.replicas \ gone
        base == [pass.base EXCEPT !.replicas = stay]
        stale == {i \in stay : containers[i].image # base.image} IN
    /\ pass.at = "refresh"
    /\ IF pass.name \in Blocked THEN pass' = Idle /\ UNCHANGED <<rows, containers, nodes>>
       ELSE /\ nodes' = FoldLeft(Observe, nodes, InOrder(pass.base.replicas))
            /\ containers' = [i \in Ids |-> IF i \in gone THEN [containers[i] EXCEPT !.state = "removed"] ELSE containers[i]]
            /\ rows' = IF gone = {} THEN rows ELSE [rows EXCEPT ![pass.name] = base]
            /\ pass' = IF stale = {} THEN Balance([pass EXCEPT !.base = base])
                       ELSE [pass EXCEPT !.base = base, !.at = "remove", !.remove = InOrder(stale), !.then = "reread"]
    /\ UNCHANGED <<rollouts, limits>>

\* An exception on the way through the replicas: those before it have been
\* observed, and the row is not written.
RefreshFails ==
    /\ pass.at = "refresh"
    /\ \E seen \in SUBSET pass.base.replicas :
           LET gone == {i \in seen : ~Running(i)} IN
           /\ \A i \in seen, j \in pass.base.replicas \ seen : i < j
           /\ Fault(IF gone = {} THEN "raise" ELSE "raise_in_removal")
           /\ nodes' = FoldLeft(Observe, nodes, InOrder(seen))
           /\ containers' = [i \in Ids |-> IF i \in gone THEN [containers[i] EXCEPT !.state = "removed"] ELSE containers[i]]
    /\ pass' = Idle
    /\ UNCHANGED <<rows, rollouts>>

Reread ==
    /\ pass.at = "reread"
    /\ pass' = Balance([pass EXCEPT !.base = IF rows[pass.name].exists THEN rows[pass.name] ELSE @])
    /\ UNCHANGED <<rows, containers, nodes, rollouts, limits>>

\* Mutant of Release: the share is not given back.
Release_Keeps(i, base) ==
    /\ containers' = [containers EXCEPT ![i].state = "removed"]
    /\ UNCHANGED nodes

\* _remove_replica: the container and its share at once, its record later.
Release(i, base) ==
    /\ containers' = [containers EXCEPT ![i].state = "removed"]
    /\ nodes' = Deallocate(nodes, containers[i].node, i, Request(base.size))

Unrecord(s, i) ==
    rows' = IF rows[s].exists THEN [rows EXCEPT ![s].replicas = @ \ {i}] ELSE rows

ReleaseReplica ==
    /\ pass.at = "remove"
    /\ IF pass.remove = <<>> THEN pass' = [pass EXCEPT !.at = pass.then] /\ UNCHANGED <<containers, nodes>>
       ELSE Release(Head(pass.remove), pass.base) /\ pass' = [pass EXCEPT !.at = "unrecord"]
    /\ UNCHANGED <<rows, rollouts, limits>>

UnrecordReplica ==
    /\ pass.at = "unrecord"
    /\ Unrecord(pass.name, Head(pass.remove))
    /\ pass' = [pass EXCEPT !.at = "remove", !.remove = Tail(@)]
    /\ UNCHANGED <<containers, nodes, rollouts, limits>>

ForgetService ==
    /\ pass.at = "forget"
    /\ rows' = [rows EXCEPT ![pass.name] = NoRow]
    /\ pass' = [pass EXCEPT !.at = "next"]
    /\ UNCHANGED <<containers, nodes, rollouts, limits>>

\* _create_replica: the node is selected before the awaits, and charged when
\* the container has been started.
Place ==
    LET request == Request(pass.base.size) IN
    /\ pass.at = "place"
    /\ pass' = IF pass.create = 0 THEN [pass EXCEPT !.at = "status"]
               ELSE IF Candidates(nodes, request) = {} THEN [pass EXCEPT !.create = @ - 1]
               ELSE [pass EXCEPT !.at = "start", !.create = @ - 1, !.node = SelectNode(nodes, request)]
    /\ UNCHANGED <<rows, containers, nodes, rollouts, limits>>

NewId == CHOOSE i \in Ids : containers[i].state = "new" /\ \A j \in Ids : j < i => containers[j].state # "new"
Fresh == \E i \in Ids : containers[i].state = "new"

Start ==
    /\ pass.at = "start" /\ Fresh
    /\ containers' = [containers EXCEPT ![NewId] =
           [state |-> "running", node |-> pass.node, size |-> pass.base.size, image |-> pass.base.image]]
    /\ pass' = [pass EXCEPT !.at = "charge", !.remove = <<NewId>>]
    /\ UNCHANGED <<rows, nodes, rollouts, limits>>

\* create_container raised, which is caught: before the container runs, or after.
StartFails ==
    /\ pass.at = "start"
    /\ \/ ~Fresh /\ UNCHANGED <<containers, limits>>
       \/ Fault("raise") /\ UNCHANGED containers
       \/ /\ Fresh /\ Fault("raise_in_start")
          /\ containers' = [containers EXCEPT ![NewId] =
                 [state |-> "running", node |-> pass.node, size |-> pass.base.size, image |-> pass.base.image]]
    /\ pass' = [pass EXCEPT !.at = "place"]
    /\ UNCHANGED <<rows, nodes, rollouts>>

\* Mutant of ChargeReplica: the replica is recorded without being charged.
ChargeReplica_Not ==
    /\ pass.at = "charge"
    /\ pass' = [pass EXCEPT !.at = "record"]
    /\ UNCHANGED <<rows, containers, nodes, rollouts, limits>>

\* The networks of the running replica have been attached.
ChargeReplica ==
    /\ pass.at = "charge"
    /\ nodes' = Allocate(nodes, pass.node, Head(pass.remove), Request(pass.base.size))
    /\ pass' = [pass EXCEPT !.at = "record"]
    /\ UNCHANGED <<rows, containers, rollouts, limits>>

Record ==
    /\ pass.at = "record"
    /\ rows' = IF rows[pass.name].exists THEN [rows EXCEPT ![pass.name].replicas = @ \cup {Head(pass.remove)}] ELSE rows
    /\ pass' = [pass EXCEPT !.at = "place", !.remove = <<>>]
    /\ UNCHANGED <<containers, nodes, rollouts, limits>>

\* RUNNING or DEGRADED, also over a delete that came in meanwhile.
SetStatus ==
    /\ pass.at = "status"
    /\ rows' = IF rows[pass.name].exists THEN [rows EXCEPT ![pass.name].deleting = FALSE] ELSE rows
    /\ pass' = [pass EXCEPT !.at = "next"]
    /\ UNCHANGED <<containers, nodes, rollouts, limits>>

Pass == \/ List \/ NextService \/ Refresh \/ Reread \/ ReleaseReplica \/ UnrecordReplica
        \/ ForgetService \/ Place \/ Start \/ StartFails \/ ChargeReplica \/ Record \/ SetStatus

----------------------------------------------------------------------------
(* Rollouts, one replica at a time *)

Rolls(s, at) == rollouts[s].at = at
Roll(s, changes) == rollouts' = [rollouts EXCEPT ![s] = changes]

\* The old replicas are remembered, the image is the new one, and the status
\* UPDATING, as RUNNING in the end, replaces that of a deleted service.
BeginRollout(s) ==
    /\ Ask("rollout")
    /\ Rolls(s, "idle") /\ rows[s].exists
    /\ rows' = [rows EXCEPT ![s].image = @ + 1, ![s].deleting = FALSE]
    /\ Roll(s, [at |-> "surge", base |-> NoRow, remove |-> InOrder(rows[s].replicas)])
    /\ UNCHANGED <<containers, nodes, pass>>

Surge(s) ==
    /\ Rolls(s, "surge")
    /\ IF ~rows[s].exists THEN Roll(s, NoRollout) /\ UNCHANGED rows
       ELSE IF rollouts[s].remove = <<>>
       THEN Roll(s, NoRollout) /\ rows' = [rows EXCEPT ![s].deleting = FALSE]
       ELSE /\ rows' = [rows EXCEPT ![s].desired = @ + 1]
            /\ Roll(s, [rollouts[s] EXCEPT !.at = "wait"])
    /\ UNCHANGED <<containers, nodes, pass, limits>>

\* The wait ends with a new replica or with the timeout.
EndSurge(s) ==
    /\ Rolls(s, "wait")
    /\ IF rows[s].exists
       THEN /\ rows' = [rows EXCEPT ![s].desired = @ - 1]
            /\ Roll(s, [rollouts[s] EXCEPT !.at = "remove", !.base = rows'[s]])
       ELSE Roll(s, NoRollout) /\ UNCHANGED rows
    /\ UNCHANGED <<containers, nodes, pass, limits>>

RetireReplica(s) ==
    /\ Rolls(s, "remove")
    /\ Release(Head(rollouts[s].remove), rollouts[s].base)
    /\ Roll(s, [rollouts[s] EXCEPT !.at = "unrecord"])
    /\ UNCHANGED <<rows, pass, limits>>

UnrecordRetired(s) ==
    /\ Rolls(s, "unrecord")
    /\ Unrecord(s, Head(rollouts[s].remove))
    /\ Roll(s, [at |-> "surge", base |-> NoRow, remove |-> Tail(rollouts[s].remove)])
    /\ UNCHANGED <<containers, nodes, pass, limits>>

Rollout(s) == Surge(s) \/ EndSurge(s) \/ RetireReplica(s) \/ UnrecordRetired(s)

----------------------------------------------------------------------------
(* Clients and faults *)

Change(op, s, row) ==
    /\ Ask(op)
    /\ rows[s].exists /\ rows' = [rows EXCEPT ![s] = row]
    /\ UNCHANGED <<containers, nodes, pass, rollouts>>

\* A new specification also takes back a delete that is not yet done.
Rescale(s) == \E n \in 0..MaxReplicas : Change("scale", s, [rows[s] EXCEPT !.desired = n, !.deleting = FALSE])
Resize(s) == \E z \in scenario.sizes : Change("resize", s, [rows[s] EXCEPT !.size = z, !.deleting = FALSE])
MarkDeleting(s) == Change("delete", s, [rows[s] EXCEPT !.deleting = TRUE])

Exit(i) ==
    /\ Fault("exit") /\ Running(i)
    /\ containers' = [containers EXCEPT ![i].state = "exited"]
    /\ UNCHANGED <<rows, nodes, pass, rollouts>>

\* What remove_container leaves behind when it raises: the container as it was,
\* or stopped.
NotRemoved ==
    \/ UNCHANGED containers
    \/ /\ pass.at = "remove" /\ pass.remove # <<>> /\ Running(Head(pass.remove))
       /\ containers' = [containers EXCEPT ![Head(pass.remove)].state = "exited"]

\* An exception ends the pass: the services that were to follow wait.
PassFails ==
    /\ \/ Fault("raise") /\ pass.at \in {"next", "remove", "reread", "forget", "place", "start", "status"}
       \/ Fault("raise_in_start") /\ pass.at = "charge"
       \/ Fault("raise_in_record") /\ pass.at = "record"
       \/ Fault("raise_in_removal") /\ pass.at = "unrecord"
    /\ NotRemoved
    /\ pass' = Idle
    /\ UNCHANGED <<rows, nodes, rollouts>>

\* The process dies.  The next start finds an empty ledger and removes the
\* containers that no row knows.
Crash ==
    /\ Fault("crash")
    /\ nodes' = FreshNodes
    /\ pass' = Idle /\ rollouts' = [s \in Services |-> NoRollout]
    /\ containers' = [i \in Ids |-> IF Running(i) /\ \A s \in Services : i \notin rows[s].replicas
                                    THEN [containers[i] EXCEPT !.state = "removed"] ELSE containers[i]]
    /\ UNCHANGED rows

Next ==
    \/ Pass
    \/ \E s \in Services : BeginRollout(s) \/ Rollout(s) \/ Rescale(s) \/ Resize(s) \/ MarkDeleting(s)
    \/ \E i \in Ids : Exit(i)
    \/ RefreshFails \/ PassFails \/ Crash

Spec == Init /\ [][Next]_vars

\* The loop of the pass and the tasks of the rollouts go on.
Fairness == WF_vars(Pass) /\ \A s \in Services : WF_vars(Rollout(s))
FairSpec == Spec /\ Fairness

----------------------------------------------------------------------------
(* Properties *)

Used(n) == MapThenSumSet(LAMBDA i : containers[i].size, {i \in Ids : Running(i) /\ containers[i].node = n})

TypeOK ==
    /\ nodes \in LedgerType(Ids)
    /\ \A s \in Services : rows[s].replicas \subseteq Ids /\ (~rows[s].exists => rows[s] = NoRow)
    /\ \A i \in Ids : /\ containers[i].state \in {"new", "running", "exited", "removed"}
                      /\ containers[i].state # "new" => containers[i].node \in Nodes
    /\ pass.at \in {"idle", "next", "refresh", "remove", "unrecord", "reread", "forget", "place", "start", "charge", "record", "status"}

\* What runs on a node was asked for within its capacity.
FitsNodes == \A n \in Nodes : Used(n) <= CpuCapacity

\* The process lives, no rollout releases beside the pass, no service changes
\* its size, and no exception comes between the start of a replica and its
\* charge or between its release and the removal of its record.
Undisturbed ==
    /\ scenario.ops \subseteq {"scale", "delete"}
    /\ scenario.faults \subseteq {"exit", "raise", "raise_in_record"}

\* Then no node is overfull, over any services that are scaled and deleted,
\* containers that exit and passes that are cut off at any other step.
UndisturbedFits == Undisturbed => FitsNodes

\* The ledger in the end says what runs: no share is kept, none is given back
\* twice, and nothing runs that is not charged.
LedgerRecovers == <>[](\A n \in Nodes : nodes[n].cpu = Used(n))

\* No room is lost for good: in the end the ledger holds nothing that does not
\* run, over restarts and over rollouts that release what the pass releases.
RoomComesBack == <>[](\A n \in Nodes : nodes[n].cpu <= Used(n))

Served(s) ==
    IF rows[s].deleting THEN FALSE
    ELSE Cardinality({i \in rows[s].replicas : Running(i)}) = rows[s].desired

\* Where there is room every service ends up with the replicas it asks for, or
\* gone, whatever failed for the others.
AllServed == <>[](\A s \in Services : Served(s))

\* One that can be served is served, also when another one cannot be.
OthersServed == <>[](\A s \in Services \ Blocked : Served(s))
=============================================================================
