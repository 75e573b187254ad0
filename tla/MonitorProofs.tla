--------------------------- MODULE MonitorProofs ---------------------------
(***************************************************************************)
(* The two tasks that watch the services: what the health checker and the  *)
(* orchestrator make of a routing entry, for any number of replicas and of *)
(* tasks that update it, and any thresholds; and what the autoscaler       *)
(* counts, for any number of services, evaluations and requests, and any   *)
(* rows, loads and faults of a scenario.                                   *)
(***************************************************************************)
EXTENDS RoutingHealth, Autoscaler, Integers, FiniteSetTheorems, SequenceTheorems, TLAPS

-----------------------------------------------------------------------------
(* The routing entry *)

\* Every mark in an entry is of a replica that has passed a probe.
Earned(e) == \A r \in DOMAIN e : e[r] => r \in answered

\* The entry, the value a task is about to write in its place, and the mark
\* the checker is about to set are all earned.
EarnedInv ==
    /\ entry # NoEntry => Earned(entry)
    /\ DOMAIN sync = Syncers
    /\ \A s \in Syncers : sync[s].phase = "write" => Earned(sync[s].value)
    /\ pc \in {"keys", "set"} /\ mark => current \in answered

LEMMA EarnedInit == HealthInit => EarnedInv
  BY DEF HealthInit, EarnedInv, Idle

\* Merging what is known into the endpoints of a row earns no mark.
LEMMA MergeEarned ==
    ASSUME NEW endpoints, entry # NoEntry => Earned(entry)
    PROVE  Earned(Merge(endpoints, Known))
  <1>1. CASE entry = NoEntry
    BY <1>1 DEF Earned, Merge, Known
  <1>2. CASE entry # NoEntry
    BY <1>2 DEF Earned, Merge, Known
  <1> QED BY <1>1, <1>2

\* A probe makes the set of replicas that have passed one no smaller.
LEMMA EarnedProbe == EarnedInv /\ Probe => EarnedInv'
  <1> SUFFICES ASSUME EarnedInv, Probe PROVE EarnedInv'
    OBVIOUS
  <1>1. answered \subseteq answered' /\ UNCHANGED <<entry, sync>>
    BY DEF Probe
  <1>2. pc' \in {"keys", "set"} /\ mark' => current' \in answered'
    <2>1. CASE current \in up
      BY <2>1 DEF Probe, Passed
    <2>2. CASE current \notin up
      BY <2>2 DEF Probe, Failed
    <2> QED BY <2>1, <2>2
  <1> QED BY <1>1, <1>2 DEF EarnedInv, Earned

\* Nor does any other step of the checker or of the orchestrator put a mark
\* into an entry that is not there or not earned.
LEMMA EarnedStep == EarnedInv /\ [HealthNext]_healthVars => EarnedInv'
  <1> SUFFICES ASSUME EarnedInv, [HealthNext]_healthVars PROVE EarnedInv'
    OBVIOUS
  <1> USE DEF EarnedInv
  <1>1. ASSUME NEW s \in Syncers, BeginSync(s) PROVE EarnedInv'
    BY <1>1 DEF BeginSync, Earned, probeHistory
  <1>2. ASSUME NEW s \in Syncers, ReadMarks(s) PROVE EarnedInv'
    <2> DEFINE value == Merge(sync[s].endpoints, Known)
    <2>1. Earned(value)
      BY MergeEarned
    <2>2. Earned(value)'
      BY <1>2, <2>1 DEF ReadMarks, Earned, probeHistory, Known, Merge
    <2>3. /\ UNCHANGED <<entry, pc, mark, current, answered>>
          /\ sync' = [sync EXCEPT ![s] = [phase |-> "write", value |-> value]]
      BY <1>2 DEF ReadMarks, probeHistory
    <2> HIDE DEF value
    <2>4. ASSUME NEW t \in Syncers, sync'[t].phase = "write"
          PROVE  Earned(sync[t].value)'
      BY <2>1, <2>3, <2>4 DEF Earned
    <2> QED BY <2>3, <2>4 DEF Earned
  <1>3. ASSUME NEW s \in Syncers, WriteEntry(s) PROVE EarnedInv'
    BY <1>3 DEF WriteEntry, Earned, Idle, probeHistory
  <1>4. ASSUME NEW s \in Syncers, UpdateLocked(s) PROVE EarnedInv'
    <2>1. Earned(Merge(sync[s].endpoints, Known))
      BY MergeEarned
    <2> QED BY <1>4, <2>1 DEF UpdateLocked, Earned, Idle, probeHistory
  <1>5. ASSUME NEW s \in Syncers, SyncFault(s) PROVE EarnedInv'
    BY <1>5 DEF SyncFault, Earned, Idle, probeHistory
  <1>6. CASE SetMark
    BY <1>6 DEF SetMark, Earned, probeHistory
  <1>7. CASE Probe
    BY <1>7, EarnedProbe
  <1>8. CASE RemoveService
    BY <1>8 DEF RemoveService, Earned, probeHistory
  <1>9. ASSUME NEW r \in Replicas, NextReplica(r) PROVE EarnedInv'
    BY <1>9 DEF NextReplica, Earned, probeHistory
  <1>10. CASE ListRow \/ EndPass \/ ListEntries \/ Publish
    BY <1>10 DEF ListRow, EndPass, ListEntries, Publish, Earned, probeHistory
  <1>11. CASE CheckerFault \/ CheckerRestart
    BY <1>11 DEF CheckerFault, CheckerRestart, Earned, probeHistory
  <1>12. ASSUME NEW r \in Replicas, NEW s, ChangeReplica(r, s) PROVE EarnedInv'
    BY <1>12 DEF ChangeReplica, Earned, probeHistory
  <1>13. ASSUME NEW r \in Replicas, ChangeHealth(r) PROVE EarnedInv'
    BY <1>13 DEF ChangeHealth, Earned, probeHistory
  <1>14. CASE UNCHANGED healthVars
    BY <1>14 DEF healthVars, rows, probeHistory, Earned
  <1> HIDE DEF EarnedInv
  <1> QED
    BY <1>1, <1>2, <1>3, <1>4, <1>5, <1>6, <1>7, <1>8, <1>9, <1>10, <1>11,
       <1>12, <1>13, <1>14 DEF HealthNext, Sync, Checker

\* However updates of the routing entry by several tasks overlap with the marks
\* of the health checker, and whatever fails and restarts, no replica is ever
\* in rotation that has not passed a probe.
THEOREM OnlyProbedRoutedHolds == HealthSpec => []OnlyProbedRouted
  <1>1. EarnedInv => OnlyProbedRouted
    BY DEF EarnedInv, Earned, OnlyProbedRouted, Marked
  <1> QED BY <1>1, EarnedInit, EarnedStep, PTL DEF HealthSpec

----------------------------------------------------------------------------

\* With one passed probe enough, the checker's count of failures is never ahead
\* of the failures in a row, the two bounds of the counts aside.
Follows(r) == failures[r] <= streak[r] \/ streak[r] = FailureThreshold

\* The counts have their types, a probe is of a replica, and a mark that is to
\* be taken away belongs to one that has failed often enough.
CountInv ==
    /\ todo \subseteq Replicas
    /\ pc = "probe" => current \in Replicas
    /\ mark \in BOOLEAN
    /\ failures \in [Replicas -> Nat]
    /\ successes \in [Replicas -> Nat]
    /\ streak \in [Replicas -> 0..FailureThreshold]
    /\ \A r \in Replicas : Follows(r)
    /\ UnhealthyAfterThreshold

LEMMA CountInit == HealthInit => CountInv
  <1> SUFFICES ASSUME HealthInit PROVE CountInv
    OBVIOUS
  <1>1. /\ failures \in [Replicas -> Nat] /\ successes \in [Replicas -> Nat]
        /\ \A r \in Replicas : failures[r] = 0 /\ streak[r] = 0
    BY DEF HealthInit
  <1>2. streak \in [Replicas -> 0..FailureThreshold]
    BY HealthAssumption DEF HealthInit, HealthAssumption
  <1>3. \A r \in Replicas : Follows(r)
    BY <1>1 DEF Follows
  <1>4. UnhealthyAfterThreshold
    BY DEF HealthInit, UnhealthyAfterThreshold
  <1>5. todo \subseteq Replicas /\ mark \in BOOLEAN /\ pc # "probe"
    BY DEF HealthInit
  <1> QED BY <1>1, <1>2, <1>3, <1>4, <1>5 DEF CountInv

\* A probe counts a failure in both, or, with a success threshold of one,
\* clears both.
LEMMA CountProbe ==
    ASSUME SuccessThreshold = 1, CountInv, Probe
    PROVE  CountInv'
  <1> DEFINE r == current
  <1> USE HealthAssumption
  <1>1. r \in Replicas /\ pc = "probe"
    BY DEF Probe, CountInv
  <1>2. CASE r \in up
    <2>1. /\ failures' = [failures EXCEPT ![r] = 0]
          /\ successes' = [successes EXCEPT ![r] = 0]
          /\ mark' = TRUE /\ pc' = "keys"
      BY <1>1, <1>2 DEF Probe, Passed, CountInv
    <2>2. streak' = [streak EXCEPT ![r] = 0] /\ UNCHANGED todo
      BY <1>2 DEF Probe
    <2> QED BY <1>1, <2>1, <2>2 DEF CountInv, Follows, UnhealthyAfterThreshold
  <1>3. CASE r \notin up
    <2>1. /\ failures' = [failures EXCEPT ![r] = AtMost(FailureThreshold + 1, failures[r] + 1)]
          /\ successes' = [successes EXCEPT ![r] = 0]
          /\ streak' = [streak EXCEPT ![r] = AtMost(FailureThreshold, streak[r] + 1)]
          /\ UNCHANGED todo
      BY <1>3 DEF Probe, Failed
    <2>2. /\ failures[r] \in Nat /\ streak[r] \in 0..FailureThreshold /\ Follows(r)
      BY <1>1 DEF CountInv
    <2>3. /\ AtMost(FailureThreshold + 1, failures[r] + 1) \in Nat
          /\ AtMost(FailureThreshold, streak[r] + 1) \in 0..FailureThreshold
      BY <2>2 DEF AtMost
    <2>4. \A q \in Replicas : Follows(q)'
      BY <1>1, <2>1, <2>2 DEF Follows, AtMost, CountInv
    <2>5. CASE failures[r] + 1 = FailureThreshold
      <3>1. mark' = FALSE /\ pc' = "keys" /\ current' = r
        BY <1>3, <2>5 DEF Probe, Failed
      <3>2. streak'[r] >= FailureThreshold
        BY <1>1, <2>1, <2>2, <2>5 DEF AtMost, Follows, CountInv
      <3> QED BY <1>1, <2>1, <2>3, <2>4, <3>1, <3>2 DEF CountInv, UnhealthyAfterThreshold
    <2>6. CASE failures[r] + 1 # FailureThreshold
      <3>1. pc' = "next" /\ UNCHANGED mark
        BY <1>3, <2>6 DEF Probe, Failed
      <3> QED BY <1>1, <2>1, <2>3, <2>4, <3>1 DEF CountInv, UnhealthyAfterThreshold
    <2> QED BY <2>5, <2>6
  <1> QED BY <1>2, <1>3

\* No other step counts: it leaves the counts, or clears the checker's own.
LEMMA CountStep ==
    ASSUME SuccessThreshold = 1, CountInv, [HealthNext]_healthVars
    PROVE  CountInv'
  <1> USE HealthAssumption DEF CountInv, Follows, UnhealthyAfterThreshold
  <1>1. ASSUME NEW s \in Syncers, Sync(s) \/ SyncFault(s) PROVE CountInv'
    BY <1>1 DEF Sync, BeginSync, ReadMarks, WriteEntry, UpdateLocked, SyncFault,
                probeCounts, probeHistory
  <1>2. CASE SetMark \/ ListEntries \/ EndPass \/ Publish
    BY <1>2 DEF SetMark, ListEntries, EndPass, Publish, probeCounts, probeHistory
  <1>3. CASE Probe
    BY <1>3, CountProbe
  <1>4. CASE RemoveService \/ ListRow
    BY <1>4 DEF RemoveService, ListRow, Listed, probeCounts, probeHistory
  <1>5. ASSUME NEW r \in Replicas, NextReplica(r) PROVE CountInv'
    BY <1>5 DEF NextReplica, probeCounts, probeHistory
  <1>6. CASE CheckerFault
    BY <1>6 DEF CheckerFault, probeCounts, probeHistory
  <1>7. CASE CheckerRestart
    <2>1. /\ failures' \in [Replicas -> Nat] /\ successes' \in [Replicas -> Nat]
          /\ \A r \in Replicas : failures'[r] = 0
      BY <1>7 DEF CheckerRestart
    <2>2. UNCHANGED streak /\ todo' = {} /\ pc' = "rest" /\ mark' = FALSE
      BY <1>7 DEF CheckerRestart, probeHistory
    <2>3. \A r \in Replicas : Follows(r)'
      <3>1. \A r \in Replicas : streak'[r] \in Nat
        BY <2>2
      <3> QED BY <2>1, <3>1
    <2> QED BY <2>1, <2>2, <2>3
  <1>8. ASSUME NEW r \in Replicas, NEW s, ChangeReplica(r, s) PROVE CountInv'
    BY <1>8 DEF ChangeReplica, probeCounts, probeHistory
  <1>9. ASSUME NEW r \in Replicas, ChangeHealth(r) PROVE CountInv'
    BY <1>9 DEF ChangeHealth, probeCounts, probeHistory
  <1>10. CASE UNCHANGED healthVars
    BY <1>10 DEF healthVars, probeCounts, probeHistory
  <1> HIDE DEF CountInv
  <1> QED
    BY <1>1, <1>2, <1>3, <1>4, <1>5, <1>6, <1>7, <1>8, <1>9, <1>10 DEF HealthNext, Checker

\* With the default success threshold of one, for every failure threshold, a
\* replica loses its mark only after that many failed probes in a row, restarts
\* of the checker in between or not.
THEOREM UnhealthyAfterThresholdHolds ==
    ASSUME SuccessThreshold = 1
    PROVE  HealthSpec => []UnhealthyAfterThreshold
  <1>1. CountInv /\ [HealthNext]_healthVars => CountInv'
    BY CountStep
  <1>2. CountInv => UnhealthyAfterThreshold
    BY DEF CountInv
  <1> QED BY <1>1, <1>2, CountInit, PTL DEF HealthSpec
-----------------------------------------------------------------------------
(* The autoscaler *)

Rows == [exists : BOOLEAN, replicas : Int, min : Int, max : Int]
Evaluations == [name : Services, base : Rows]

\* A set listed as a sequence is a sequence over it.
LEMMA SetToSeqType ==
    ASSUME NEW S, IsFiniteSet(S)
    PROVE  SetToSeq(S) \in Seq(S)
  <1> DEFINE n == Cardinality(S)
  <1>1. n \in Nat /\ ExistsBijection(1..n, S)
    BY FS_CardinalityType
  <1>2. \E f \in [1..n -> S] : IsInjective(f)
    BY <1>1 DEF ExistsBijection, Bijection, Injection
  <1>3. SetToSeq(S) \in [1..n -> S]
    BY <1>2 DEF SetToSeq
  <1> HIDE DEF n
  <1> QED BY <1>1, <1>3, IsASeq

\* Rows have their fields, and what the loop holds is a row of a service.
Held ==
    /\ scenario \in Scenarios
    /\ row \in [Services -> Rows]
    /\ loop = [f \in DOMAIN Asleep |-> loop[f]]
    /\ loop.todo \in Seq(Evaluations)
    /\ loop.at \notin {"sleep", "next"} => loop.name \in Services
    /\ loop.base \in Rows /\ loop.goal \in Int

\* The state of a sleeping loop, field by field.
LEMMA AsleepFields ==
    /\ DOMAIN Asleep = {"at", "todo", "name", "base", "cpu", "busy", "idle", "goal"}
    /\ Asleep.at = "sleep" /\ Asleep.todo = <<>> /\ Asleep.base = NoRow /\ Asleep.goal = 0
    /\ NoRow \in Rows
  BY DEF Asleep, NoRow, Rows

\* A scenario asks for rows and services that exist.
LEMMA ScenarioRows ==
    ASSUME scenario \in Scenarios
    PROVE  scenario.rows \subseteq Rows /\ scenario.services \subseteq Services
  <1>1. scenario \in Scenario
    BY AutoscalerAssumption DEF AutoscalerAssumption
  <1>2. /\ scenario.services \subseteq Services
        /\ scenario.rows \subseteq [exists : {TRUE}, replicas : Nat, min : Nat, max : Nat]
    BY <1>1 DEF Scenario
  <1>3. [exists : {TRUE}, replicas : Nat, min : Nat, max : Nat] \subseteq Rows
    <2> SUFFICES ASSUME NEW r \in [exists : {TRUE}, replicas : Nat, min : Nat, max : Nat]
                 PROVE  r \in Rows
      OBVIOUS
    <2>1. r \in [exists : BOOLEAN, replicas : Nat, min : Nat, max : Nat]
      <3>1. {TRUE} \subseteq BOOLEAN
        OBVIOUS
      <3> QED BY <3>1, Zenon
    <2> QED BY <2>1 DEF Rows
  <1> QED BY <1>2, <1>3

LEMMA HeldInit == Init => Held
  <1> SUFFICES ASSUME Init PROVE Held
    OBVIOUS
  <1>1. row \in [Services -> Rows] /\ scenario \in Scenarios /\ loop = Asleep
    BY AsleepFields DEF Init
  <1>2. Asleep = [f \in DOMAIN Asleep |-> Asleep[f]]
    BY DEF Asleep
  <1> QED BY <1>1, <1>2, AsleepFields DEF Held

\* What the loop does to what it holds.
LEMMA HeldLoop ==
    ASSUME Held, UNCHANGED <<row, scenario>>,
           \/ loop' = Asleep
           \/ \E at : loop' = [loop EXCEPT !.at = at] /\ (at \in {"sleep", "next"} \/
                                                        loop.at \notin {"sleep", "next"})
    PROVE  Held'
  <1>1. CASE loop' = Asleep
    <2>1. Asleep = [f \in DOMAIN Asleep |-> Asleep[f]]
      BY DEF Asleep
    <2> QED BY <1>1, <2>1, AsleepFields DEF Held
  <1>2. ASSUME NEW at, loop' = [loop EXCEPT !.at = at],
               at \in {"sleep", "next"} \/ loop.at \notin {"sleep", "next"}
        PROVE  Held'
    <2>1. DOMAIN loop = DOMAIN Asleep
      BY DEF Held
    <2>2. /\ loop'.todo = loop.todo /\ loop'.name = loop.name /\ loop'.base = loop.base
          /\ loop'.goal = loop.goal /\ loop'.at = at
          /\ loop' = [f \in DOMAIN Asleep |-> loop'[f]]
      BY <1>2, <2>1, AsleepFields
    <2> QED BY <1>2, <2>2 DEF Held
  <1> QED BY <1>1, <1>2

LEMMA HeldPass == Held /\ Pass /\ UNCHANGED scenario => Held'
  <1> SUFFICES ASSUME Held, Pass, UNCHANGED scenario PROVE Held'
    OBVIOUS
  <1>0. DOMAIN loop = DOMAIN Asleep /\ Asleep = [f \in DOMAIN Asleep |-> Asleep[f]]
    BY DEF Held, Asleep
  <1>1. CASE List
    <2> DEFINE S == {[name |-> s, base |-> row[s]] :
                        s \in {s \in Services : row[s].exists /\ row[s].min # row[s].max}}
    <2>1. IsFiniteSet({s \in Services : row[s].exists /\ row[s].min # row[s].max})
      BY AutoscalerAssumption, FS_Subset DEF AutoscalerAssumption
    <2>2. IsFiniteSet(S)
      <3> DEFINE T == {s \in Services : row[s].exists /\ row[s].min # row[s].max}
                 f == [s \in T |-> [name |-> s, base |-> row[s]]]
      <3>1. f \in Surjection(T, S)
        BY DEF Surjection
      <3> HIDE DEF f, T
      <3> QED BY <2>1, <3>1, FS_Surjection DEF T
    <2>3. S \subseteq Evaluations
      BY DEF Evaluations, Held
    <2>4. SetToSeq(S) \in Seq(Evaluations)
      BY <2>2, <2>3, SetToSeqType, SeqMonotonic
    <2>5. loop' = [Asleep EXCEPT !.at = "next", !.todo = SetToSeq(S)] /\ UNCHANGED row
      BY <1>1 DEF List
    <2> HIDE DEF S
    <2>6. /\ loop'.todo = SetToSeq(S) /\ loop'.base = NoRow /\ loop'.goal = 0 /\ loop'.at = "next"
          /\ loop' = [f \in DOMAIN Asleep |-> loop'[f]]
      BY <2>5, AsleepFields DEF Asleep
    <2> QED BY <2>4, <2>5, <2>6, AsleepFields DEF Held
  <1>2. CASE NextService
    <2>1. CASE loop.todo = <<>>
      BY <1>2, <2>1, HeldLoop DEF NextService
    <2>2. CASE loop.todo # <<>>
      <3>1. Head(loop.todo) \in Evaluations /\ Tail(loop.todo) \in Seq(Evaluations)
        <4>1. loop.todo \in Seq(Evaluations)
          BY DEF Held
        <4> QED BY <2>2, <4>1, HeadTailProperties
      <3>2. loop' = [Asleep EXCEPT !.at = "cpu", !.todo = Tail(loop.todo),
                                   !.name = Head(loop.todo).name, !.base = Head(loop.todo).base]
            /\ UNCHANGED row
        BY <1>2, <2>2 DEF NextService
      <3>3. /\ loop'.todo = Tail(loop.todo) /\ loop'.name = Head(loop.todo).name
            /\ loop'.base = Head(loop.todo).base /\ loop'.goal = 0 /\ loop'.at = "cpu"
            /\ loop' = [f \in DOMAIN Asleep |-> loop'[f]]
        BY <3>2, AsleepFields DEF Asleep
      <3>4. Head(loop.todo).name \in Services /\ Head(loop.todo).base \in Rows
        BY <3>1 DEF Evaluations
      <3>5. scenario' \in Scenarios /\ row' \in [Services -> Rows] /\ 0 \in Int
        BY <3>2 DEF Held
      <3>6. loop'.todo \in Seq(Evaluations) /\ loop'.name \in Services /\ loop'.base \in Rows
        BY <3>1, <3>3, <3>4
      <3> QED BY <3>3, <3>5, <3>6 DEF Held
    <2> QED BY <2>1, <2>2
  <1>3. CASE ReadCpu
    <2>1. /\ loop'.todo = loop.todo /\ loop'.name = loop.name /\ loop'.base = loop.base
          /\ loop'.goal = loop.goal /\ loop.at \notin {"sleep", "next"}
          /\ loop' = [f \in DOMAIN Asleep |-> loop'[f]] /\ UNCHANGED row
      BY <1>0, <1>3, AsleepFields DEF ReadCpu
    <2> QED BY <2>1 DEF Held
  <1>4. CASE ReadRps
    <2>1. \E at, busy, idle : loop' = [loop EXCEPT !.at = at, !.busy = busy, !.idle = idle]
      BY <1>4 DEF ReadRps, Seen
    <2>2. loop.at \notin {"sleep", "next"} /\ UNCHANGED row
      BY <1>4 DEF ReadRps, Seen
    <2>3. /\ loop'.todo = loop.todo /\ loop'.name = loop.name /\ loop'.base = loop.base
          /\ loop'.goal = loop.goal /\ loop' = [f \in DOMAIN Asleep |-> loop'[f]]
      BY <1>0, <2>1, AsleepFields
    <2> QED BY <2>2, <2>3 DEF Held
  <1>5. CASE PublishEvaluation
    BY <1>5, HeldLoop DEF PublishEvaluation
  <1>6. ASSUME NEW goal \in Int, Scale(goal), loop.at = "decide", UNCHANGED row PROVE Held'
    <2>1. /\ loop'.todo = loop.todo /\ loop'.name = loop.name /\ loop'.base = loop.base
          /\ loop'.goal = goal /\ loop' = [f \in DOMAIN Asleep |-> loop'[f]]
      BY <1>0, <1>6, AsleepFields DEF Scale
    <2> QED BY <1>6, <2>1 DEF Held
  <1>7. ASSUME Hold, UNCHANGED row PROVE Held'
    BY <1>7, HeldLoop DEF Hold
  <1>8. loop.base.replicas + 1 \in Int /\ loop.base.replicas - 1 \in Int
    BY DEF Held, Rows
  <1>9. CASE ScaleUp \/ ScaleDown \/ HoldCount
    BY <1>6, <1>7, <1>8, <1>9 DEF ScaleUp, ScaleDown, HoldCount
  <1>10. CASE Refresh
    <2>1. CASE row[loop.name].exists
      <3>1. /\ loop.name \in Services /\ UNCHANGED row
            /\ loop' = [loop EXCEPT !.at = "write", !.base = row[loop.name]]
        BY <1>10, <2>1 DEF Refresh, Held
      <3>2. /\ loop'.todo = loop.todo /\ loop'.name = loop.name /\ loop'.base = row[loop.name]
            /\ loop'.goal = loop.goal /\ loop' = [f \in DOMAIN Asleep |-> loop'[f]]
        BY <1>0, <3>1, AsleepFields
      <3>3. row[loop.name] \in Rows
        BY <3>1 DEF Held
      <3> QED BY <3>1, <3>2, <3>3 DEF Held
    <2> QED BY <1>7, <1>10, <2>1 DEF Refresh
  <1>11. CASE Write
    <2>1. /\ loop.at = "write" /\ row' = [row EXCEPT ![loop.name] = [loop.base EXCEPT !.replicas = loop.goal]]
          /\ loop' = [loop EXCEPT !.at = "announce"]
      BY <1>11 DEF Write
    <2>2. [loop.base EXCEPT !.replicas = loop.goal] \in Rows
      BY DEF Held, Rows
    <2>3. row' \in [Services -> Rows]
      BY <2>1, <2>2 DEF Held
    <2>4. /\ loop'.todo = loop.todo /\ loop'.name = loop.name /\ loop'.base = loop.base
          /\ loop'.goal = loop.goal /\ loop' = [f \in DOMAIN Asleep |-> loop'[f]]
      BY <1>0, <2>1, AsleepFields
    <2> QED BY <2>1, <2>3, <2>4 DEF Held
  <1>12. CASE Announce
    BY <1>7, <1>12 DEF Announce
  <1> QED BY <1>1, <1>2, <1>3, <1>4, <1>5, <1>9, <1>10, <1>11, <1>12 DEF Pass

LEMMA HeldStep == Held /\ [Next]_vars => Held'
  <1> SUFFICES ASSUME Held, [Next]_vars PROVE Held'
    OBVIOUS
  <1>1. ASSUME NEW s \in Services, NEW r \in Rows, Change(s, r), UNCHANGED scenario PROVE Held'
    BY <1>1 DEF Change, Held
  <1>2. ASSUME NEW s \in scenario.services, PutRow(s) \/ DeleteRow(s), UNCHANGED scenario
        PROVE  Held'
    BY <1>1, <1>2, ScenarioRows, AsleepFields DEF PutRow, DeleteRow, Held
  <1>3. ASSUME UNCHANGED <<row, loop, scenario>> PROVE Held'
    BY <1>3 DEF Held
  <1>4. ASSUME NEW s, NEW level, Work(s, level), UNCHANGED scenario PROVE Held'
    BY <1>3, <1>4 DEF Work
  <1>5. ASSUME NEW s, CollectCpu(s) \/ CollectNothing(s) \/ Request(s), UNCHANGED scenario
        PROVE  Held'
    BY <1>3, <1>5 DEF CollectCpu, CollectNothing, StoreCpu, Request
  <1>6. CASE (PassFails \/ Restart) /\ UNCHANGED scenario
    BY <1>6, HeldLoop DEF PassFails, Restart
  <1>7. CASE RedisRestarts /\ UNCHANGED scenario
    BY <1>3, <1>7 DEF RedisRestarts
  <1>8. CASE UNCHANGED vars
    BY <1>3, <1>8 DEF vars
  <1> QED BY <1>2, <1>4, <1>5, <1>6, <1>7, <1>8, HeldPass DEF Next, Act

\* The rows and what the loop of the autoscaler holds of them keep their types.
THEOREM HeldAlways == Spec => []Held
  BY HeldInit, HeldStep, PTL DEF Spec

----------------------------------------------------------------------------
(* Requests *)

\* What is still to be seen of a service's requests has been sent, and was not
\* seen before.
Once(s) ==
    /\ traffic[s].sent \in 0..MaxRequests /\ traffic[s].seen \in Nat
    /\ count[s] \in 0..traffic[s].sent /\ last[s] \in 0..NoCount
    /\ traffic[s].seen <= traffic[s].sent
    /\ last[s] # NoCount => traffic[s].seen + Minus(count[s], last[s]) <= traffic[s].sent

OnceInv ==
    /\ DOMAIN last = Services /\ DOMAIN count = Services
    /\ traffic = [s \in Services |-> [sent |-> traffic[s].sent, seen |-> traffic[s].seen]]
    /\ \A s \in Services : Once(s)

LEMMA OnceInit == Init => OnceInv
  <1> SUFFICES ASSUME Init PROVE OnceInv
    OBVIOUS
  <1>1. MaxRequests \in Nat
    BY AutoscalerAssumption DEF AutoscalerAssumption
  <1>2. /\ last = [s \in Services |-> NoCount] /\ count = [s \in Services |-> 0]
        /\ traffic = [s \in Services |-> [sent |-> 0, seen |-> 0]]
    BY DEF Init
  <1> QED BY <1>1, <1>2 DEF OnceInv, Once, NoCount

\* What is collected was sent since the last collection.
LEMMA OnceRead == Held /\ OnceInv /\ ReadRps => OnceInv'
  <1> SUFFICES ASSUME Held, OnceInv, ReadRps PROVE OnceInv'
    OBVIOUS
  <1>0. loop.name \in Services
    BY DEF Held, ReadRps
  <1>1. PICK n \in Services : n = loop.name
    BY <1>0
  <1> DEFINE requests == IF last[n] = NoCount THEN 0 ELSE Minus(count[n], last[n])
  <1>2. /\ traffic' = [traffic EXCEPT ![n].seen = @ + requests]
        /\ last' = [last EXCEPT ![n] = count[n]] /\ UNCHANGED count
    BY <1>1 DEF ReadRps, Seen, redis
  <1>3. Once(n) /\ MaxRequests \in Nat
    BY AutoscalerAssumption DEF OnceInv, AutoscalerAssumption
  <1>4. requests \in Nat /\ traffic[n].seen + requests <= traffic[n].sent
    BY <1>1, <1>3 DEF Once, Minus
  <1> HIDE DEF requests
  <1>5. /\ traffic'[n].seen = traffic[n].seen + requests /\ traffic'[n].sent = traffic[n].sent
        /\ last'[n] = count[n] /\ count'[n] = count[n]
    BY <1>1, <1>2 DEF OnceInv
  <1>6. Once(n)'
    BY <1>1, <1>3, <1>4, <1>5 DEF Once, Minus, NoCount
  <1>7. ASSUME NEW s \in Services, s # n PROVE Once(s)'
    <2>1. traffic'[s] = traffic[s] /\ last'[s] = last[s] /\ count'[s] = count[s]
      BY <1>1, <1>2, <1>7 DEF OnceInv
    <2>2. Once(s)
      BY DEF OnceInv
    <2> QED BY <2>1, <2>2 DEF Once, Minus, NoCount
  <1>8. /\ DOMAIN last' = Services /\ DOMAIN count' = Services
        /\ traffic' = [s \in Services |-> [sent |-> traffic'[s].sent, seen |-> traffic'[s].seen]]
    <2> QED BY <1>1, <1>2 DEF OnceInv
  <1> QED BY <1>6, <1>7, <1>8 DEF OnceInv

\* A request is one more to be seen, at most.
LEMMA OnceRequest ==
    ASSUME Held, OnceInv, NEW r \in Services, Request(r)
    PROVE  OnceInv'
  <1>1. /\ traffic' = [traffic EXCEPT ![r].sent = @ + 1]
        /\ count' = [count EXCEPT ![r] = @ + 1] /\ UNCHANGED last
        /\ traffic[r].sent < scenario.maxRequests
    BY DEF Request, memory
  <1>2. MaxRequests \in Nat /\ scenario.maxRequests \in 0..MaxRequests
    BY AutoscalerAssumption DEF Held, AutoscalerAssumption, Scenario
  <1>3. Once(r)
    BY DEF OnceInv
  <1>4. /\ traffic'[r].sent = traffic[r].sent + 1 /\ traffic'[r].seen = traffic[r].seen
        /\ count'[r] = count[r] + 1 /\ last'[r] = last[r]
    BY <1>1 DEF OnceInv
  <1>5. Once(r)'
    BY <1>1, <1>2, <1>3, <1>4 DEF Once, Minus, NoCount
  <1>6. ASSUME NEW s \in Services, s # r PROVE Once(s)'
    <2>1. traffic'[s] = traffic[s] /\ last'[s] = last[s] /\ count'[s] = count[s]
      BY <1>1, <1>6 DEF OnceInv
    <2> QED BY <2>1 DEF OnceInv, Once, Minus, NoCount
  <1>7. /\ DOMAIN last' = Services /\ DOMAIN count' = Services
        /\ traffic' = [s \in Services |-> [sent |-> traffic'[s].sent, seen |-> traffic'[s].seen]]
    BY <1>1 DEF OnceInv
  <1> QED BY <1>5, <1>6, <1>7 DEF OnceInv

LEMMA OnceStep == Held /\ OnceInv /\ [Next]_vars => OnceInv'
  <1> SUFFICES ASSUME Held, OnceInv, [Next]_vars PROVE OnceInv'
    OBVIOUS
  <1>1. ASSUME UNCHANGED <<traffic, count, last>> PROVE OnceInv'
    BY <1>1 DEF OnceInv, Once, Minus, NoCount
  <1>2. CASE Pass
    <2>1. ReadRps \/ UNCHANGED <<traffic, count, last>>
      BY <1>2 DEF Pass, List, NextService, ReadCpu, PublishEvaluation, ScaleUp, ScaleDown,
                  HoldCount, Refresh, Write, Announce, memory, redis, history
    <2> QED BY <1>1, <2>1, OnceRead
  <1>3. ASSUME NEW s \in scenario.services, CollectCpu(s) \/ CollectNothing(s) PROVE OnceInv'
    BY <1>1, <1>3 DEF CollectCpu, CollectNothing, StoreCpu, memory, history
  <1>4. ASSUME NEW s \in scenario.services, Request(s) PROVE OnceInv'
    BY <1>4, OnceRequest, ScenarioRows DEF Held
  <1>5. ASSUME NEW s \in scenario.services, PutRow(s) \/ DeleteRow(s) PROVE OnceInv'
    BY <1>1, <1>5 DEF PutRow, DeleteRow, Change, redis, memory
  <1>6. ASSUME NEW s, NEW level, Work(s, level) PROVE OnceInv'
    BY <1>1, <1>6 DEF Work, redis, memory, history
  <1>7. CASE PassFails
    BY <1>1, <1>7 DEF PassFails, redis, memory, history
  <1>8. CASE Restart
    <2>1. UNCHANGED <<traffic, count>> /\ last' = [s \in Services |-> NoCount]
      BY <1>8 DEF Restart, redis, history
    <2>2. NoCount \in 0..NoCount
      BY AutoscalerAssumption DEF AutoscalerAssumption, NoCount
    <2> QED BY <2>1, <2>2 DEF OnceInv, Once, NoCount
  <1>9. CASE RedisRestarts
    <2>1. UNCHANGED <<traffic, last>> /\ count' = [s \in Services |-> 0]
      BY <1>9 DEF RedisRestarts, memory, history
    <2>2. ASSUME NEW s \in Services PROVE Once(s)'
      <3>1. Once(s) /\ MaxRequests \in Nat
        BY AutoscalerAssumption DEF OnceInv, AutoscalerAssumption
      <3>2. traffic'[s] = traffic[s] /\ last'[s] = last[s] /\ count'[s] = 0
        BY <2>1
      <3> QED BY <3>1, <3>2 DEF Once, Minus, NoCount
    <2> QED BY <2>1, <2>2 DEF OnceInv
  <1>10. CASE UNCHANGED vars
    BY <1>1, <1>10 DEF vars, redis, memory, history
  <1> QED BY <1>2, <1>3, <1>4, <1>5, <1>6, <1>7, <1>8, <1>9, <1>10 DEF Next, Act

\* TrafficOnce: what MetricsCollector.collect returns over all intervals, over
\* restarts of the autoscaler and of Redis, is at most what was sent.
THEOREM SeenOnce == Spec => []TrafficOnce
  <1>1. OnceInv => TrafficOnce
    BY DEF OnceInv, Once, TrafficOnce
  <1> QED BY <1>1, HeldAlways, OnceInit, OnceStep, PTL DEF Spec

----------------------------------------------------------------------------
(* Evaluations that found a service idle *)

\* The count of a service is never ahead of what was found.
Behind(s) ==
    /\ counters[s] \in 0..Checks - 1 /\ lows[s].name \in 0..Checks
    /\ counters[s] <= lows[s].name

ChecksInv ==
    /\ DOMAIN counters = Services
    /\ lows = [s \in Services |-> [name |-> lows[s].name, own |-> lows[s].own,
                                   read |-> lows[s].read]]
    /\ \A s \in Services : Behind(s)

\* The number of idle checks before a decrease is positive.
LEMMA ChecksType == Checks \in Nat \ {0}
  BY AutoscalerAssumption DEF AutoscalerAssumption

LEMMA ChecksInit == Init => ChecksInv
  BY ChecksType DEF Init, ChecksInv, Behind, NoLows

\* One evaluation sets both, and no other service's.
LEMMA ChecksSet ==
    ASSUME ChecksInv, NEW n \in Services, NEW c \in 0..Checks - 1,
           NEW name \in 0..Checks, NEW own, NEW read, c <= name,
           counters' = [counters EXCEPT ![n] = c],
           lows' = [lows EXCEPT ![n] = [name |-> name, own |-> own, read |-> read]]
    PROVE  ChecksInv'
  <1>1. counters'[n] = c /\ lows'[n].name = name
    BY DEF ChecksInv
  <1>2. ASSUME NEW s \in Services, s # n PROVE Behind(s)'
    BY <1>2 DEF ChecksInv, Behind
  <1>3. Behind(n)'
    BY <1>1 DEF Behind
  <1>4. /\ DOMAIN counters' = Services
        /\ lows' = [s \in Services |-> [name |-> lows'[s].name, own |-> lows'[s].own,
                                        read |-> lows'[s].read]]
    BY DEF ChecksInv
  <1> QED BY <1>2, <1>3, <1>4 DEF ChecksInv

\* A count of idle checks stays in range and only grows while the service is idle.
LEMMA LongerBounds ==
    ASSUME NEW n \in 0..Checks, NEW idle
    PROVE  /\ Longer(n, idle) \in 0..Checks
           /\ idle => Longer(n, idle) = n + 1 \/ Longer(n, idle) = Checks
  BY ChecksType DEF Longer

\* An evaluation that is carried through.
LEMMA ChecksDecide == Held /\ ChecksInv /\ (ScaleUp \/ ScaleDown \/ HoldCount) => ChecksInv'
  <1> SUFFICES ASSUME Held, ChecksInv, ScaleUp \/ ScaleDown \/ HoldCount PROVE ChecksInv'
    OBVIOUS
  <1>0. loop.name \in Services
    BY DEF Held, ScaleUp, ScaleDown, HoldCount
  <1>1. PICK n \in Services : n = loop.name
    BY <1>0
  <1>2. Behind(n)
    BY DEF ChecksInv
  <1>3. ASSUME NEW idle, Found(idle)
        PROVE  lows' = [lows EXCEPT ![n] = [name |-> Longer(lows[n].name, idle),
                                            own |-> Longer(lows[n].own, idle),
                                            read |-> lows[n].read]]
    <2> DEFINE old == lows[n]
               new == [old EXCEPT !.name = Longer(@, idle), !.own = Longer(@, idle)]
    <2>1. old = [name |-> old.name, own |-> old.own, read |-> old.read] /\ DOMAIN lows = Services
      BY DEF ChecksInv
    <2>2. lows' = [lows EXCEPT ![n] = new]
      BY <1>1, <1>3, <2>1 DEF Found
    <2>3. /\ new = [old EXCEPT !.name = Longer(old.name, idle), !.own = Longer(old.own, idle)]
          /\ DOMAIN old = {"name", "own", "read"}
      BY <2>1
    <2>4. new = [name |-> Longer(old.name, idle), own |-> Longer(old.own, idle), read |-> old.read]
      <3> DEFINE other == [name |-> Longer(old.name, idle), own |-> Longer(old.own, idle), read |-> old.read]
      <3> HIDE DEF old
      <3>1. DOMAIN new = {"name", "own", "read"} /\ DOMAIN other = {"name", "own", "read"}
        BY <2>3
      <3>2. /\ new.name = Longer(old.name, idle)
            /\ new.own = Longer(old.own, idle)
            /\ new.read = old.read
        BY <2>3
      <3>3. new = [f \in {"name", "own", "read"} |-> new[f]]
        BY <2>3
      <3>4. other = [f \in {"name", "own", "read"} |-> other[f]]
        OBVIOUS
      <3>5. /\ other.name = Longer(old.name, idle)
            /\ other.own = Longer(old.own, idle)
            /\ other.read = old.read
        OBVIOUS
      <3> HIDE DEF new, other
      <3>6. \A f \in {"name", "own", "read"} : new[f] = other[f]
        BY <3>2, <3>5
      <3>7. new = other
        BY <3>3, <3>4, <3>6
      <3> QED BY <3>7 DEF other
    <2> QED BY <2>2, <2>4
  <1>4. ASSUME NEW idle, Counted(0), Found(idle) PROVE ChecksInv'
    <2>1. Longer(lows[n].name, idle) \in 0..Checks
      BY <1>2, LongerBounds DEF Behind
    <2>2. counters' = [counters EXCEPT ![n] = 0]
      BY <1>1, <1>4 DEF Counted
    <2>3. 0 \in 0..Checks - 1 /\ 0 <= Longer(lows[n].name, idle)
      BY <2>1, ChecksType
    <2> QED BY <1>3, <1>4, <2>1, <2>2, <2>3, ChecksSet
  <1>5. CASE ScaleUp
    BY <1>4, <1>5 DEF ScaleUp
  <1>6. CASE HoldCount
    BY <1>4, <1>6 DEF HoldCount
  <1>7. CASE ScaleDown
    <2> DEFINE checks == counters[n] + 1
    <2>1. CASE checks >= Checks
      <3>1. /\ counters' = [counters EXCEPT ![n] = 0]
            /\ lows' = [lows EXCEPT ![n] = [name |-> 0, own |-> 0, read |-> 0]]
        BY <1>1, <1>7, <2>1 DEF ScaleDown, Counted, Dropped, NoLows
      <3>2. 0 \in 0..Checks - 1 /\ 0 \in 0..Checks /\ 0 <= 0
        BY ChecksType
      <3> QED BY <3>1, <3>2, ChecksSet
    <2>2. CASE ~(checks >= Checks)
      <3>1. counters' = [counters EXCEPT ![n] = checks] /\ Found(TRUE)
        BY <1>1, <1>7, <2>2 DEF ScaleDown, Counted
      <3>2. /\ Longer(lows[n].name, TRUE) \in 0..Checks
            /\ checks \in 0..Checks - 1 /\ checks <= Longer(lows[n].name, TRUE)
        <4>1. lows[n].name \in 0..Checks /\ counters[n] \in Nat /\ counters[n] <= lows[n].name
          BY <1>2, ChecksType DEF Behind
        <4>2. Longer(lows[n].name, TRUE) \in 0..Checks
          BY <4>1, LongerBounds
        <4>3. \/ Longer(lows[n].name, TRUE) = lows[n].name + 1
              \/ Longer(lows[n].name, TRUE) = Checks
          BY <4>1, LongerBounds
        <4> DEFINE c == counters[n]
                   m == lows[n].name
                   longer == Longer(lows[n].name, TRUE)
        <4>4. c + 1 < Checks /\ c \in Nat /\ m \in 0..Checks /\ c <= m
          BY <2>2, <4>1, ChecksType
        <4>5. longer \in 0..Checks /\ (longer = m + 1 \/ longer = Checks)
          BY <4>2, <4>3
        <4> HIDE DEF c, m, longer
        <4>6. c + 1 \in 0..Checks - 1 /\ c + 1 <= longer
          BY <4>4, <4>5, ChecksType
        <4> QED BY <4>2, <4>6 DEF c, longer
      <3> HIDE DEF checks
      <3> QED BY <1>3, <3>1, <3>2, ChecksSet
    <2> QED BY <2>1, <2>2
  <1> QED BY <1>5, <1>6, <1>7

LEMMA ChecksStep == Held /\ ChecksInv /\ [Next]_vars => ChecksInv'
  <1> SUFFICES ASSUME Held, ChecksInv, [Next]_vars PROVE ChecksInv'
    OBVIOUS
  <1>1. ASSUME UNCHANGED <<counters, lows>> PROVE ChecksInv'
    BY <1>1 DEF ChecksInv, Behind
  <1>2. ASSUME NEW n \in Services, UNCHANGED counters,
               \/ \E own : lows' = [lows EXCEPT ![n].own = own]
               \/ \E read : lows' = [lows EXCEPT ![n].read = read]
        PROVE  ChecksInv'
    <2>1. /\ \A s \in Services : lows'[s].name = lows[s].name
          /\ lows' = [s \in Services |-> [name |-> lows'[s].name, own |-> lows'[s].own,
                                          read |-> lows'[s].read]]
      BY <1>2 DEF ChecksInv
    <2> QED BY <1>2, <2>1 DEF ChecksInv, Behind
  <1>3. CASE Pass
    <2>1. CASE ReadRps
      <3>1. loop.name \in Services
        BY <2>1 DEF ReadRps, Held
      <3>2. UNCHANGED counters /\ \E read : lows' = [lows EXCEPT ![loop.name].read = read]
        BY <2>1 DEF ReadRps, Seen
      <3> QED BY <1>2, <3>1, <3>2
    <2>2. CASE List \/ NextService \/ ReadCpu \/ PublishEvaluation \/ Refresh \/ Write
               \/ Announce
      BY <1>1, <2>2 DEF List, NextService, ReadCpu, PublishEvaluation, Refresh, Write,
                        Announce, memory, history
    <2> QED BY <1>3, <2>1, <2>2, ChecksDecide DEF Pass
  <1>4. ASSUME NEW s \in scenario.services, CollectCpu(s) \/ CollectNothing(s) \/ Request(s)
        PROVE  ChecksInv'
    <2>1. CASE CollectCpu(s) \/ CollectNothing(s)
      BY <1>1, <2>1 DEF CollectCpu, CollectNothing, StoreCpu, memory, history
    <2>2. CASE Request(s)
      BY <1>1, <2>2 DEF Request, memory
    <2> QED BY <1>4, <2>1, <2>2
  <1>5. ASSUME NEW s \in scenario.services, PutRow(s) \/ DeleteRow(s) PROVE ChecksInv'
    <2>1. UNCHANGED counters /\ \E own : lows' = [lows EXCEPT ![s].own = own]
      BY <1>5 DEF PutRow, DeleteRow, Change, memory
    <2>2. s \in Services
      BY ScenarioRows DEF Held
    <2> QED BY <1>2, <2>1, <2>2
  <1>6. ASSUME NEW s, NEW level, Work(s, level) PROVE ChecksInv'
    BY <1>1, <1>6 DEF Work, memory, history
  <1>7. CASE PassFails \/ RedisRestarts
    BY <1>1, <1>7 DEF PassFails, RedisRestarts, memory, history
  <1>8. CASE Restart
    <2>1. UNCHANGED lows /\ counters' = [s \in Services |-> 0]
      BY <1>8 DEF Restart, history
    <2> QED BY <2>1, ChecksType DEF ChecksInv, Behind
  <1>9. CASE UNCHANGED vars
    BY <1>1, <1>9 DEF vars, memory, history
  <1> QED BY <1>3, <1>4, <1>5, <1>6, <1>7, <1>8, <1>9 DEF Next, Act

\* PatientDown: a replica is taken away by _evaluate_service only after
\* scale_down_consecutive_checks idle evaluations in a row, whatever happened
\* between them.
THEOREM Patience == Spec => PatientDown
  <1>1. ASSUME Held, ChecksInv, [Next]_vars, NEW s \in Services, Drops(s)
        PROVE  lows[s].name + 1 >= Checks
    <2>1. loop.at = "decide" /\ loop'.at = "refresh" /\ loop.name = s
          /\ loop'.goal < loop.base.replicas
      BY <1>1 DEF Drops
    <2>2. DOMAIN loop = DOMAIN Asleep /\ loop.base.replicas \in Int
      BY <1>1 DEF Held, Rows
    <2>3. ScaleUp \/ ScaleDown
      BY <1>1, <2>1, <2>2, AsleepFields
         DEF Next, Act, Pass, List, NextService, ReadCpu, ReadRps, PublishEvaluation, HoldCount,
             Hold, Refresh, Write, Announce, CollectCpu, CollectNothing, StoreCpu, Request,
             PutRow, DeleteRow, Change, Work, PassFails, Restart, RedisRestarts, vars
    <2>4. ~ScaleUp
      <3>1. ASSUME ScaleUp PROVE loop'.goal = loop.base.replicas + 1
        BY <2>2, <3>1, AsleepFields DEF ScaleUp, Scale
      <3> QED BY <2>1, <2>2, <3>1
    <2>5. counters[s] + 1 >= Checks
      <3>1. ScaleDown
        BY <2>3, <2>4
      <3>2. ASSUME ~(counters[s] + 1 >= Checks) PROVE loop'.at = "next"
        BY <2>1, <2>2, <3>1, <3>2, AsleepFields DEF ScaleDown, Hold
      <3> QED BY <2>1, <3>2
    <2>6. Behind(s)
      BY <1>1 DEF ChecksInv
    <2> QED BY <2>5, <2>6, ChecksType DEF Behind
  <1>2. Held /\ ChecksInv /\ [Next]_vars =>
           [\A s \in Services : Drops(s) => lows[s].name + 1 >= Checks]_vars
    BY <1>1
  <1> QED BY <1>2, HeldAlways, ChecksInit, ChecksStep, PTL DEF Spec, PatientDown
=============================================================================
