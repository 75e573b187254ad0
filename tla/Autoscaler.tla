----------------------------- MODULE Autoscaler -----------------------------
(***************************************************************************)
(* The autoscaler (autoscaler/) with what feeds it: the orchestrator's     *)
(* loop that stores the CPU average of a service in Redis, and the proxy's *)
(* request counters.  A pass lists the rows and evaluates one after the    *)
(* other on what it listed; clients change, remove and create rows         *)
(* meanwhile.  The loop is at the await that its next action answers.      *)
(*                                                                         *)
(* Thresholds are kept, their numbers are small: CPU is 0, 1 or 2, idle    *)
(* below 1 and busy above 1.  How a row's count is carried out, and what   *)
(* writing a whole row back does to other writers, is in Platform.         *)
(***************************************************************************)
EXTENDS Naturals, Sequences, FiniteSets, SequencesExt

CONSTANTS
    Services,
    Checks,           \* autoscaler_scale_down_consecutive_checks
    RpsUp, RpsDown,   \* requests in an interval: busy above, idle below
    MaxRequests,      \* of a service, in any scenario
    Scenarios

\* The services there are, the rows that clients ask for, and the bounds.
Scenario ==
    [services : SUBSET Services,
     rows : SUBSET [exists : {TRUE}, replicas : Nat, min : Nat, max : Nat],
     loads : SUBSET (0..2), maxRequests : 0..MaxRequests, maxChanges : Nat, maxFaults : Nat]

ASSUME AutoscalerAssumption ==
    /\ IsFiniteSet(Services) /\ Checks \in Nat \ {0} /\ RpsUp \in Nat /\ RpsDown \in Nat
    /\ MaxRequests \in Nat /\ Scenarios \subseteq Scenario

VARIABLES
    row,       \* of each service
    load,      \* what its containers really use
    cpu,       \* cpu:<service> in Redis, 0 when missing
    count,     \* rps:<service> in Redis
    loop,      \* where the loop is and what it holds
    counters,  \* _scale_down_counters
    decided,   \* _last_evaluation_decisions
    last,      \* _last_rps_counts, NoCount when missing
    lows,      \* history: evaluations in a row that found a service idle: those
               \* carried through, by name and since it was created, and those
               \* that read its metrics
    traffic,   \* history: requests sent and requests seen by the autoscaler
    changes, faults,
    scenario   \* the one this behaviour follows

memory == <<counters, decided, last>>
redis == <<cpu, count>>
history == <<lows, traffic>>
limits == <<changes, faults>>
vars == <<row, load, redis, loop, memory, history, limits, scenario>>

NoRow == [exists |-> FALSE, replicas |-> 0, min |-> 0, max |-> 0]
NoCount == MaxRequests + 1
NoLows == [name |-> 0, own |-> 0, read |-> 0]
Asleep == [at |-> "sleep", todo |-> <<>>, name |-> "none", base |-> NoRow, cpu |-> 0,
           busy |-> FALSE, idle |-> FALSE, goal |-> 0]

Init ==
    /\ row = [s \in Services |-> NoRow]
    /\ scenario \in Scenarios
    /\ \E level \in [scenario.services -> scenario.loads] :
           load = [s \in Services |-> IF s \in scenario.services THEN level[s] ELSE 0]
    /\ cpu = [s \in Services |-> 0] /\ count = [s \in Services |-> 0]
    /\ loop = Asleep
    /\ counters = [s \in Services |-> 0]
    /\ decided = [s \in Services |-> <<>>]
    /\ last = [s \in Services |-> NoCount]
    /\ lows = [s \in Services |-> NoLows]
    /\ traffic = [s \in Services |-> [sent |-> 0, seen |-> 0]]
    /\ changes = 0 /\ faults = 0

----------------------------------------------------------------------------
(* A pass *)

\* _evaluate_all_services; a service without a range is left alone.
List ==
    /\ loop.at = "sleep"
    /\ loop' = [Asleep EXCEPT !.at = "next", !.todo =
           SetToSeq({[name |-> s, base |-> row[s]] : s \in {s \in Services : row[s].exists /\ row[s].min # row[s].max}})]
    /\ UNCHANGED <<row, load, redis, memory, history, limits>>

NextService ==
    /\ loop.at = "next"
    /\ loop' = IF loop.todo = <<>> THEN Asleep
               ELSE [Asleep EXCEPT !.at = "cpu", !.todo = Tail(loop.todo),
                                   !.name = Head(loop.todo).name, !.base = Head(loop.todo).base]
    /\ UNCHANGED <<row, load, redis, memory, history, limits>>

ReadCpu ==
    /\ loop.at = "cpu"
    /\ loop' = [loop EXCEPT !.at = "rps", !.cpu = cpu[loop.name]]
    /\ UNCHANGED <<row, load, redis, memory, history, limits>>

\* The history need not count further than Checks.
Longer(n, idle) == IF idle THEN (IF n < Checks THEN n + 1 ELSE n) ELSE 0

Minus(a, b) == IF a > b THEN a - b ELSE 0

\* _autoscale_decision
Decision(s, base, busy, idle) ==
    CASE busy /\ base.replicas < base.max -> <<"scale_up">>
      [] busy -> <<"hold_at_max">>
      [] idle /\ base.replicas > base.min ->
             IF counters[s] + 1 >= Checks THEN <<"scale_down">> ELSE <<"wait", counters[s] + 1>>
      [] idle -> <<"hold_at_min">>
      [] OTHER -> <<"hold">>

\* What was seen, and what was decided: announced if it is another decision
\* than the last one, and remembered before it is announced.
Seen(requests, next) ==
    LET s == loop.name
        busy == loop.cpu > 1 \/ requests > RpsUp
        idle == loop.cpu < 1 /\ requests < RpsDown
        decision == Decision(s, loop.base, busy, idle) IN
    /\ loop' = [loop EXCEPT !.at = IF decided[s] = decision THEN next ELSE "publish", !.busy = busy, !.idle = idle]
    /\ decided' = [decided EXCEPT ![s] = decision]
    /\ traffic' = [traffic EXCEPT ![s].seen = @ + requests]
    /\ lows' = [lows EXCEPT ![s].read = Longer(@, idle)]
    /\ UNCHANGED <<row, load, redis, counters, limits>>

\* Mutant of ReadRps: at first everything that was ever counted.
ReadRps_FromZero ==
    /\ loop.at = "rps"
    /\ Seen(IF last[loop.name] = NoCount THEN count[loop.name] ELSE Minus(count[loop.name], last[loop.name]), "decide")
    /\ last' = [last EXCEPT ![loop.name] = count[loop.name]]

\* Nothing was counted before the first collection, and a counter that Redis
\* lost counts as no requests.
ReadRps ==
    /\ loop.at = "rps"
    /\ Seen(IF last[loop.name] = NoCount THEN 0 ELSE Minus(count[loop.name], last[loop.name]), "decide")
    /\ last' = [last EXCEPT ![loop.name] = count[loop.name]]

PublishEvaluation ==
    /\ loop.at = "publish"
    /\ loop' = [loop EXCEPT !.at = "decide"]
    /\ UNCHANGED <<row, load, redis, memory, history, limits>>

Scale(goal) == loop' = [loop EXCEPT !.at = "refresh", !.goal = goal]
Hold == loop' = [loop EXCEPT !.at = "next"]
Counted(n) == counters' = [counters EXCEPT ![loop.name] = n]

\* The history of an evaluation that is carried through.
Found(idle) ==
    lows' = [lows EXCEPT ![loop.name].name = Longer(@, idle), ![loop.name].own = Longer(@, idle)]
Dropped == lows' = [lows EXCEPT ![loop.name] = NoLows]

ScaleUp ==
    /\ loop.at = "decide" /\ loop.busy /\ loop.base.replicas < loop.base.max
    /\ Counted(0) /\ Scale(loop.base.replicas + 1) /\ Found(FALSE)
    /\ UNCHANGED <<row, load, redis, decided, last, traffic, limits>>

\* Mutant of ScaleDown: checks that do not suffice are forgotten.
ScaleDown_Forgets ==
    LET checks == counters[loop.name] + 1 IN
    /\ loop.at = "decide" /\ loop.idle /\ loop.base.replicas > loop.base.min
    /\ Counted(0)
    /\ IF checks >= Checks THEN Scale(loop.base.replicas - 1) /\ Dropped ELSE Hold /\ Found(TRUE)
    /\ UNCHANGED <<row, load, redis, decided, last, traffic, limits>>

ScaleDown ==
    LET checks == counters[loop.name] + 1 IN
    /\ loop.at = "decide" /\ loop.idle /\ loop.base.replicas > loop.base.min
    /\ IF checks >= Checks
       THEN Counted(0) /\ Scale(loop.base.replicas - 1) /\ Dropped
       ELSE Counted(checks) /\ Hold /\ Found(TRUE)
    /\ UNCHANGED <<row, load, redis, decided, last, traffic, limits>>

\* Mutant of HoldCount: what was counted before stays.
HoldCount_Keeps ==
    /\ loop.at = "decide"
    /\ ~(loop.busy /\ loop.base.replicas < loop.base.max)
    /\ ~(loop.idle /\ loop.base.replicas > loop.base.min)
    /\ Hold /\ Found(loop.idle)
    /\ UNCHANGED <<row, load, redis, counters, decided, last, traffic, limits>>

HoldCount ==
    /\ loop.at = "decide"
    /\ ~(loop.busy /\ loop.base.replicas < loop.base.max)
    /\ ~(loop.idle /\ loop.base.replicas > loop.base.min)
    /\ Counted(0) /\ Hold /\ Found(loop.idle)
    /\ UNCHANGED <<row, load, redis, decided, last, traffic, limits>>

\* _apply_scale: the row is read again, and gets the count that was decided on
\* the listed one.
Refresh ==
    /\ loop.at = "refresh"
    /\ IF row[loop.name].exists THEN loop' = [loop EXCEPT !.at = "write", !.base = row[loop.name]]
                                ELSE Hold
    /\ UNCHANGED <<row, load, redis, memory, history, limits>>

Write ==
    /\ loop.at = "write"
    /\ row' = [row EXCEPT ![loop.name] = [loop.base EXCEPT !.replicas = loop.goal]]
    /\ loop' = [loop EXCEPT !.at = "announce"]
    /\ UNCHANGED <<load, redis, memory, history, limits>>

Announce ==
    /\ loop.at = "announce"
    /\ Hold
    /\ UNCHANGED <<row, load, redis, memory, history, limits>>

Pass == \/ List \/ NextService \/ ReadCpu \/ ReadRps \/ PublishEvaluation
        \/ ScaleUp \/ ScaleDown \/ HoldCount \/ Refresh \/ Write \/ Announce

----------------------------------------------------------------------------
(* What feeds it *)

\* _collect_and_publish_cpu_stats: the average over the replicas that have
\* statistics, 0 when none has.
StoreCpu(s, average) ==
    /\ row[s].exists
    /\ cpu' = [cpu EXCEPT ![s] = average]
    /\ UNCHANGED <<row, load, count, loop, memory, history, changes>>

CollectCpu(s) == StoreCpu(s, load[s]) /\ UNCHANGED faults
CollectNothing(s) == StoreCpu(s, 0) /\ faults < scenario.maxFaults /\ faults' = faults + 1

Request(s) ==
    /\ traffic[s].sent < scenario.maxRequests
    /\ count' = [count EXCEPT ![s] = @ + 1]
    /\ traffic' = [traffic EXCEPT ![s].sent = @ + 1]
    /\ UNCHANGED <<row, load, cpu, loop, memory, lows, limits>>

----------------------------------------------------------------------------
(* Clients, load and faults *)

Change(s, r) ==
    /\ changes < scenario.maxChanges /\ changes' = changes + 1
    /\ row' = [row EXCEPT ![s] = r]
    /\ lows' = [lows EXCEPT ![s].own = IF row[s].exists THEN @ ELSE 0]
    /\ UNCHANGED <<load, redis, loop, memory, traffic, faults>>

PutRow(s) == \E r \in scenario.rows : Change(s, r)
DeleteRow(s) == row[s].exists /\ Change(s, NoRow)

Work(s, level) ==
    /\ changes < scenario.maxChanges /\ changes' = changes + 1
    /\ load' = [load EXCEPT ![s] = level]
    /\ UNCHANGED <<row, redis, loop, memory, history, faults>>

Fault == faults < scenario.maxFaults /\ faults' = faults + 1

\* An await raises: the rest of the pass is given up.
PassFails ==
    /\ loop.at \notin {"sleep", "next", "decide"} /\ Fault
    /\ loop' = Asleep
    /\ UNCHANGED <<row, load, redis, memory, history, changes>>

Restart ==
    /\ Fault
    /\ loop' = Asleep
    /\ counters' = [s \in Services |-> 0]
    /\ decided' = [s \in Services |-> <<>>]
    /\ last' = [s \in Services |-> NoCount]
    /\ UNCHANGED <<row, load, redis, history, changes>>

RedisRestarts ==
    /\ Fault
    /\ cpu' = [s \in Services |-> 0] /\ count' = [s \in Services |-> 0]
    /\ UNCHANGED <<row, load, loop, memory, history, changes>>

Act ==
    \/ Pass
    \/ \E s \in scenario.services : \/ CollectCpu(s) \/ CollectNothing(s) \/ Request(s) \/ PutRow(s) \/ DeleteRow(s)
                           \/ \E level \in scenario.loads : Work(s, level)
    \/ PassFails \/ Restart \/ RedisRestarts

Next == Act /\ UNCHANGED scenario

Spec == Init /\ [][Next]_vars

\* Both loops go on for as long as their processes live.
Fairness ==
    /\ WF_vars(Pass /\ UNCHANGED scenario)
    /\ \A s \in Services : WF_vars(CollectCpu(s) /\ UNCHANGED scenario)

FairSpec == Spec /\ Fairness

----------------------------------------------------------------------------
(* Properties *)

TypeOK ==
    /\ \A s \in Services : row[s].exists \in BOOLEAN /\ row[s].replicas \in Nat
    /\ load \in [Services -> 0..2] /\ cpu \in [Services -> 0..2]
    /\ count \in [Services -> 0..MaxRequests] /\ last \in [Services -> 0..NoCount]
    /\ counters \in [Services -> 0..Checks - 1]
    /\ loop.at \in {"sleep", "next", "cpu", "rps", "publish", "decide", "refresh", "write", "announce"}
    /\ loop.at \notin {"sleep", "next"} => loop.name \in Services

Drops(s) == loop.at = "decide" /\ loop'.at = "refresh" /\ loop.name = s /\ loop'.goal < loop.base.replicas

\* One replica less is decided only when the last Checks evaluations of that
\* name that were carried through all found it idle, none of which led to an
\* earlier drop: whatever passes failed, rows changed or processes restarted.
PatientDown == [][\A s \in Services : Drops(s) => lows[s].name + 1 >= Checks]_vars

\* The same for the service that is there now: evaluations of one that was
\* removed and had its name do not count.
ChecksOfItsOwn == [][\A s \in Services : Drops(s) => lows[s].own + 1 >= Checks]_vars

\* The same for every evaluation that read the metrics, that it could not be
\* announced included.
NoCheckForgotten == [][\A s \in Services : Drops(s) => lows[s].read >= Checks]_vars

\* No request is counted into two intervals: what the autoscaler has seen of a
\* service was sent to it, over restarts of its own and of Redis.
TrafficOnce == \A s \in Services : traffic[s].seen <= traffic[s].sent

\* A count that is stored is within the bounds of the row it is stored in.
WithinBounds ==
    [][Write => row'[loop.name].replicas \in row'[loop.name].min..row'[loop.name].max]_vars

Scalable(s) == row[s].exists /\ row[s].min < row[s].max

\* A service that stays busy gets to its upper bound, and one that stays idle
\* to its lower one, whatever failed before and whatever else is in the loop.
FollowsLoad ==
    \A s \in Services :
        /\ <>[](Scalable(s) /\ load[s] = 2) => <>[](row[s].replicas >= row[s].max)
        /\ <>[](Scalable(s) /\ load[s] = 0) => <>[](row[s].replicas <= row[s].min)
=============================================================================
