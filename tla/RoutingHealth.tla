--------------------------- MODULE RoutingHealth ---------------------------
(***************************************************************************)
(* The routing entry of a service and its two kinds of writers: the        *)
(* orchestrator, which replaces the entry as a whole and carries over the  *)
(* health marks of the replicas it knows (proxy/redis_routing_table.py,    *)
(* update_service), and the health checker, which probes every replica of  *)
(* the row and sets marks (proxy/health_checker.py).  They are separate    *)
(* processes; the table is Redis ("redis"), or the in-memory one of the    *)
(* tests, whose methods hold a lock ("memory", proxy/routing_table.py).    *)
(***************************************************************************)
EXTENDS Naturals, FiniteSets

CONSTANTS
    Replicas,
    Syncers,           \* tasks of the orchestrator: the reconcile pass, rollouts
    Tables,            \* of "redis", "memory": one of them is in use
    FailureThreshold,  \* settings.health_check_failure_threshold
    SuccessThreshold,  \* settings.health_check_success_threshold
    Faults,            \* which of "checker", "restart", "orchestrator" happen
    MaxFaults,         \* bound on their number
    NoEntry, NoReplica

ASSUME HealthAssumption ==
    /\ FailureThreshold \in Nat \ {0}
    /\ SuccessThreshold \in Nat \ {0}
    /\ Tables \subseteq {"redis", "memory"}

VARIABLES
    table,      \* the one in use
    status,     \* of each replica in the row: new, stopped, running or gone
    up,         \* the replicas that answer their health check
    entry,      \* routing:<service>, the mark of each endpoint, or NoEntry
    sync,       \* the update_service call of each orchestrator task
    pc,         \* what the health checker is awaiting
    todo,       \* the replicas still to be checked in this pass
    current,    \* the replica being checked
    mark,       \* the mark to be set, once the probe has decided
    failures,   \* _consecutive_failures, counted up to one past the threshold
    successes,  \* _consecutive_successes
    routeable,  \* _routeable_replicas
    streak,     \* history: probes of each replica that failed in a row
    answered,   \* history: the replicas that ever passed a probe
    disruptions

rows == <<status, up>>
probeCounts == <<failures, successes, routeable>>
probeHistory == <<streak, answered>>
healthVars == <<table, rows, entry, sync, pc, todo, current, mark, probeCounts, probeHistory, disruptions>>

Idle == [phase |-> "idle"]
Endpoints == {r \in Replicas : status[r] = "running"}
Listed == {r \in Replicas : status[r] \in {"stopped", "running"}}

HealthInit ==
    /\ table \in Tables
    /\ status = [r \in Replicas |-> "new"]
    /\ up = {}
    /\ entry = NoEntry
    /\ sync = [s \in Syncers |-> Idle]
    /\ pc = "rest" /\ todo = {} /\ current = NoReplica /\ mark = FALSE
    /\ failures = [r \in Replicas |-> 0]
    /\ successes = [r \in Replicas |-> 0]
    /\ routeable = {}
    /\ streak = [r \in Replicas |-> 0]
    /\ answered = {}
    /\ disruptions = 0

----------------------------------------------------------------------------
(* The orchestrator *)

\* The row changes: replicas are recorded, stop, run again and are removed,
\* their ids never come back.
ChangeReplica(r, s) ==
    /\ status[r] # "gone"
    /\ s = "gone" => status[r] # "new"
    /\ status' = [status EXCEPT ![r] = s]
    /\ UNCHANGED <<up, entry, sync, pc, todo, current, mark, probeCounts, probeHistory, disruptions>>

\* A container starts or stops answering its health check.
ChangeHealth(r) ==
    /\ up' = IF r \in up THEN up \ {r} ELSE up \cup {r}
    /\ UNCHANGED <<status, entry, sync, pc, todo, current, mark, probeCounts, probeHistory, disruptions>>

Marked(r) == IF entry # NoEntry /\ r \in DOMAIN entry THEN entry[r] ELSE FALSE

\* Mutant of Merge: an endpoint the table does not know is taken to be healthy.
Merge_Trusting(endpoints, known) ==
    [r \in endpoints |-> IF r \in DOMAIN known THEN known[r] ELSE TRUE]

\* Known endpoints keep their mark, new ones start unhealthy.
Merge(endpoints, known) ==
    [r \in endpoints |-> IF r \in DOMAIN known THEN known[r] ELSE FALSE]

Known == IF entry = NoEntry THEN [r \in {} |-> FALSE] ELSE entry

\* _sync_routing_table: the endpoints are those of the row in hand.
BeginSync(s) ==
    /\ sync[s] = Idle
    /\ \E r \in Replicas : status[r] # "gone"
    /\ sync' = [sync EXCEPT ![s] = [phase |-> "read", endpoints |-> Endpoints]]
    /\ UNCHANGED <<rows, entry, pc, todo, current, mark, probeCounts, probeHistory, disruptions>>

\* update_service of the Redis table: GET, then SET of the whole entry.
ReadMarks(s) ==
    /\ table = "redis"
    /\ sync[s].phase = "read"
    /\ sync' = [sync EXCEPT ![s] = [phase |-> "write",
                                    value |-> Merge(sync[s].endpoints, Known)]]
    /\ UNCHANGED <<rows, entry, pc, todo, current, mark, probeCounts, probeHistory, disruptions>>

WriteEntry(s) ==
    /\ sync[s].phase = "write"
    /\ entry' = sync[s].value
    /\ sync' = [sync EXCEPT ![s] = Idle]
    /\ UNCHANGED <<rows, pc, todo, current, mark, probeCounts, probeHistory, disruptions>>

\* update_service of the in-memory table, under its lock.
UpdateLocked(s) ==
    /\ table = "memory"
    /\ sync[s].phase = "read"
    /\ entry' = Merge(sync[s].endpoints, Known)
    /\ sync' = [sync EXCEPT ![s] = Idle]
    /\ UNCHANGED <<rows, pc, todo, current, mark, probeCounts, probeHistory, disruptions>>

\* remove_service, when the replicas have been removed and the row is gone.
RemoveService ==
    /\ \A r \in Replicas : status[r] = "gone"
    /\ entry # NoEntry
    /\ entry' = NoEntry
    /\ UNCHANGED <<rows, sync, pc, todo, current, mark, probeCounts, probeHistory, disruptions>>

----------------------------------------------------------------------------
(* The health checker *)

\* _check_all_services: the rows as they are listed.
ListRow ==
    /\ pc = "rest"
    /\ pc' = "next" /\ todo' = Listed
    /\ UNCHANGED <<rows, entry, sync, current, mark, probeCounts, probeHistory, disruptions>>

NextReplica(r) ==
    /\ pc = "next" /\ r \in todo
    /\ pc' = "probe" /\ todo' = todo \ {r} /\ current' = r
    /\ UNCHANGED <<rows, entry, sync, mark, probeCounts, probeHistory, disruptions>>

EndPass ==
    /\ pc = "next" /\ todo = {}
    /\ pc' = "rest"
    /\ UNCHANGED <<rows, entry, sync, todo, current, mark, probeCounts, probeHistory, disruptions>>

\* Bound of the model: beyond it every count is alike.
AtMost(bound, n) == IF n > bound THEN bound ELSE n

\* Mutant of Passed: a replica that is known to be routeable is not marked again.
Passed_Once(r) ==
    LET count == successes[r] + 1 IN
    /\ IF count >= SuccessThreshold
       THEN /\ successes' = [successes EXCEPT ![r] = 0]
            /\ failures' = [failures EXCEPT ![r] = 0]
            /\ routeable' = routeable \cup {r}
            /\ mark' = TRUE
            /\ pc' = IF r \in routeable THEN "next" ELSE "keys"
       ELSE /\ successes' = [successes EXCEPT ![r] = count]
            /\ pc' = "next"
            /\ UNCHANGED <<failures, routeable, mark>>

\* Every probe that passes, from the success threshold on, sets the mark.
Passed(r) ==
    LET count == successes[r] + 1 IN
    /\ IF count >= SuccessThreshold
       THEN /\ successes' = [successes EXCEPT ![r] = 0]
            /\ failures' = [failures EXCEPT ![r] = 0]
            /\ mark' = TRUE
            /\ pc' = "keys"
       ELSE /\ successes' = [successes EXCEPT ![r] = count]
            /\ pc' = "next"
            /\ UNCHANGED <<failures, mark>>
    /\ UNCHANGED routeable

\* Mutant of Failed: the mark is taken away one failure early.
Failed_Early(r) ==
    /\ failures' = [failures EXCEPT ![r] = AtMost(FailureThreshold + 1, @ + 1)]
    /\ successes' = [successes EXCEPT ![r] = 0]
    /\ IF failures[r] + 2 = FailureThreshold
       THEN routeable' = routeable \ {r} /\ mark' = FALSE /\ pc' = "keys"
       ELSE pc' = "next" /\ UNCHANGED <<routeable, mark>>

\* Mutant of Failed: the failures are not counted, the mark never goes.
Failed_Uncounted(r) ==
    /\ successes' = [successes EXCEPT ![r] = 0]
    /\ pc' = "next"
    /\ UNCHANGED <<failures, routeable, mark>>

\* The mark is taken away at the failure that makes the count equal to the
\* threshold, and at no later one.
Failed(r) ==
    /\ failures' = [failures EXCEPT ![r] = AtMost(FailureThreshold + 1, @ + 1)]
    /\ successes' = [successes EXCEPT ![r] = 0]
    /\ IF failures[r] + 1 = FailureThreshold
       THEN routeable' = routeable \ {r} /\ mark' = FALSE /\ pc' = "keys"
       ELSE pc' = "next" /\ UNCHANGED <<routeable, mark>>

\* _check_replica: the answer to the probe.
Probe ==
    LET r == current IN
    /\ pc = "probe"
    /\ IF r \in up THEN Passed(r) ELSE Failed(r)
    /\ streak' = [streak EXCEPT ![r] = IF r \in up THEN 0 ELSE AtMost(FailureThreshold, @ + 1)]
    /\ answered' = IF r \in up THEN answered \cup {r} ELSE answered
    /\ current' = IF pc' = "next" THEN NoReplica ELSE r
    /\ UNCHANGED <<rows, entry, sync, todo, disruptions>>

\* set_healthy: the entries there are.
ListEntries ==
    /\ pc = "keys"
    /\ pc' = IF entry # NoEntry THEN "set" ELSE "publish"
    /\ UNCHANGED <<rows, entry, sync, todo, current, mark, probeCounts, probeHistory, disruptions>>

\* The script that changes one mark in one entry, atomically.
SetMark ==
    /\ pc = "set"
    /\ pc' = "publish"
    /\ entry' = IF entry # NoEntry /\ current \in DOMAIN entry
                THEN [entry EXCEPT ![current] = mark] ELSE entry
    /\ UNCHANGED <<rows, sync, todo, current, mark, probeCounts, probeHistory, disruptions>>

\* What is left of _check_replica: the events, which change no mark.
Publish ==
    /\ pc = "publish"
    /\ pc' = "next"
    /\ routeable' = IF mark THEN routeable \cup {current} ELSE routeable
    /\ current' = NoReplica /\ mark' = FALSE
    /\ UNCHANGED <<rows, entry, sync, todo, failures, successes, probeHistory, disruptions>>

\* Postgres or Redis refuses, _health_check_loop logs it and the rest of the
\* pass is skipped.  The in-memory table goes with stores that do not refuse.
CheckerFault ==
    /\ "checker" \in Faults /\ disruptions < MaxFaults /\ pc # "probe" /\ table = "redis"
    /\ disruptions' = disruptions + 1
    /\ pc' = "rest" /\ todo' = {} /\ current' = NoReplica /\ mark' = FALSE
    /\ UNCHANGED <<rows, entry, sync, probeCounts, probeHistory>>

\* The process of the health checker starts again with empty counters.
CheckerRestart ==
    /\ "restart" \in Faults /\ disruptions < MaxFaults
    /\ disruptions' = disruptions + 1
    /\ pc' = "rest" /\ todo' = {} /\ current' = NoReplica /\ mark' = FALSE
    /\ failures' = [r \in Replicas |-> 0]
    /\ successes' = [r \in Replicas |-> 0]
    /\ routeable' = {}
    /\ UNCHANGED <<rows, entry, sync, probeHistory>>

\* An update_service call fails or its process dies.
SyncFault(s) ==
    /\ "orchestrator" \in Faults /\ disruptions < MaxFaults /\ sync[s] # Idle
    /\ disruptions' = disruptions + 1
    /\ sync' = [sync EXCEPT ![s] = Idle]
    /\ UNCHANGED <<rows, entry, pc, todo, current, mark, probeCounts, probeHistory>>

Sync(s) == BeginSync(s) \/ ReadMarks(s) \/ WriteEntry(s) \/ UpdateLocked(s)

Checker ==
    \/ ListRow \/ EndPass \/ Probe \/ ListEntries \/ SetMark \/ Publish
    \/ \E r \in Replicas : NextReplica(r)

HealthNext ==
    /\ \/ \E r \in Replicas, s \in {"stopped", "running", "gone"} : ChangeReplica(r, s)
       \/ \E r \in Replicas : ChangeHealth(r)
       \/ \E s \in Syncers : Sync(s) \/ SyncFault(s)
       \/ RemoveService
       \/ Checker \/ CheckerFault \/ CheckerRestart
    /\ UNCHANGED table

\* Both loops run for ever: the checker every ten seconds, the pass every few.
HealthFairness ==
    /\ WF_healthVars(Checker /\ UNCHANGED table)
    /\ \A s \in Syncers : WF_healthVars(Sync(s) /\ UNCHANGED table)

HealthSpec == HealthInit /\ [][HealthNext]_healthVars
HealthFairSpec == HealthSpec /\ HealthFairness

----------------------------------------------------------------------------
(* Properties *)

HealthTypeOK ==
    /\ status \in [Replicas -> {"new", "stopped", "running", "gone"}]
    /\ up \subseteq Replicas
    /\ entry = NoEntry \/ entry \in UNION {[S -> BOOLEAN] : S \in SUBSET Replicas}
    /\ pc \in {"rest", "next", "probe", "keys", "set", "publish"}
    /\ todo \subseteq Replicas /\ current \in Replicas \cup {NoReplica} /\ mark \in BOOLEAN
    /\ failures \in [Replicas -> 0..FailureThreshold + 1]
    /\ successes \in [Replicas -> 0..SuccessThreshold - 1]
    /\ routeable \subseteq Replicas /\ answered \subseteq Replicas
    /\ streak \in [Replicas -> 0..FailureThreshold]

\* No replica is in rotation that has never passed a probe, however updates of
\* the entry, removals, marks that arrive late, and restarts overlap.
OnlyProbedRouted == \A r \in Replicas : Marked(r) => r \in answered

\* "Consecutive failures before a replica is marked unhealthy" (config.py): a
\* mark is only taken away from a replica by as many failed probes in a row.
UnhealthyAfterThreshold ==
    pc \in {"keys", "set"} /\ ~mark => streak[current] >= FailureThreshold

Good(r) == status[r] = "running" /\ r \in up
Failing(r) == status[r] \in {"running", "stopped"} /\ r \notin up

\* A replica that runs and answers for good is in rotation again and again,
\* whatever marks were lost on the way: every passed probe sets it anew.
GoodIsRouted == \A r \in Replicas : <>[]Good(r) => []<>Marked(r)

\* A replica that fails its probes for good is out of rotation for good in the end.
FailingLeaves == \A r \in Replicas : <>[]Failing(r) => <>[]~Marked(r)

\* ... if the table changes an entry under a lock, as the in-memory one does.
LockedLeaves == table = "memory" => FailingLeaves
=============================================================================
