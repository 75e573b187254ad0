-------------------------- MODULE ProxyWithMetrics --------------------------
(***************************************************************************)
(* The proxy: its request path, and the counters it keeps.  The two meet   *)
(* only in the results of requests that the counters record, so each       *)
(* behaviour runs one of them while the other rests.                       *)
(***************************************************************************)
EXTENDS Proxy

CONSTANTS Services, NoService, Statuses, Buckets, MaxRequests, Loads

VARIABLES
    part,  \* the machine this behaviour runs, "requests" or "counters"
    buffer, batch, loop, stored, stopping, bucket, reader, recorded, lost, faults, load

counters == <<buffer, batch, loop, stored, stopping, bucket, reader, recorded, lost, faults, load>>

Metrics == INSTANCE ProxyMetrics

ASSUME MetricsAssumed == Metrics!MetricsAssumption

----------------------------------------------------------------------------
PartInit ==
    /\ Init /\ Metrics!Init
    /\ part \in {"requests", "counters"}
    /\ part = "requests" => load = CHOOSE l \in Loads : TRUE
    /\ part = "counters" => /\ scenario = CHOOSE w \in Scenarios : TRUE
                            /\ policy = CHOOSE p \in scenario.policies : TRUE

PartNext ==
    /\ \/ part = "requests" /\ Next /\ UNCHANGED counters
       \/ part = "counters" /\ Metrics!Next /\ UNCHANGED vars
    /\ UNCHANGED part

all == <<vars, counters, part>>

PartSpec ==
    /\ PartInit /\ [][PartNext]_all
    /\ \A c \in Conns : WF_all(part = "requests" /\ Step(c) /\ UNCHANGED <<counters, part>>)

----------------------------------------------------------------------------
(* Properties *)

\* Each request is counted once by each sink, and under all its counters.
CountedOnce == Metrics!NothingTwice /\ Metrics!CountersAgree

\* What the platform API returns in one answer fits together.
ViewsOrdered == Metrics!ViewsOrdered

\* What is buffered is taken to Redis, as long as the proxy runs.
EventuallyFlushed == Metrics!EventuallyFlushed

\* The same for a refused flush, under the fairness of the counters alone.
CountersSpec ==
    /\ PartInit /\ part = "counters" /\ [][PartNext]_all
    /\ \A s \in Metrics!Sinks :
          /\ WF_all(Metrics!Flush(s) /\ UNCHANGED <<vars, load, part>>)
          /\ WF_all(Metrics!Executed(s) /\ UNCHANGED <<vars, load, part>>)
=============================================================================
