---------------------------- MODULE ProxyMetrics ----------------------------
(***************************************************************************)
(* How the proxy counts its requests (proxy/proxy_server.py): two buffers  *)
(* in memory, the metrics and the traffic activity, each emptied by a loop *)
(* of its own into Redis, the last flush when the proxy stops, and the     *)
(* platform API that reads the counters one key after the other            *)
(* (api/platform.py).                                                      *)
(*                                                                         *)
(* A buffer is a function from the counters of the code, named for them,   *)
(* to a count per key.  Durations are left out but for their number, which *)
(* is what an average divides by.                                          *)
(***************************************************************************)
EXTENDS Naturals, Sequences, FiniteSets, Functions

CONSTANTS
    Services, NoService,  \* requests without a service are counted as unknown
    Statuses,
    Buckets,              \* of the time series: 1..n
    Loads,                \* what goes wrong and what is read meanwhile
    MaxRequests

\* "refused": Redis fails, "lost": its answer is lost, "stop": the proxy stops.
Load == [faults : SUBSET {"refused", "lost", "stop"},
         views : SUBSET {"metrics", "timeseries"}, maxFaults : Nat]

\* Of the constants; the module that gives them their values assumes it.
MetricsAssumption ==
    /\ NoService \notin Services
    /\ IsFiniteSet(Services) /\ IsFiniteSet(Buckets)
    /\ Statuses \subseteq 100..599
    /\ Loads \subseteq Load /\ MaxRequests \in Nat

Names == Services \cup {NoService}

\* What can be recorded: a reason is given for the proxy's own errors only,
\* and a request without a service is always one.
Results ==
    {r \in [service : Names, status : Statuses, reason : BOOLEAN, bucket : Buckets] :
        /\ r.reason => r.status >= 400
        /\ r.service = NoService => r.reason}

\* _ProxyMetrics and _ProxyTrafficActivity.
Sinks == {"metrics", "traffic"}
Fields(s) ==
    IF s = "metrics"
    THEN {"total", "service", "rps", "status", "failures", "ts_requests", "ts_status",
          "ts_latency_count", "ts_errors"}
    ELSE {"total", "names", "status", "failures"}

Keys(f) ==
    CASE f \in {"total", "failures"} -> {"all"}
      [] f \in {"service", "rps"} -> Services
      [] f = "names" -> Names
      [] f = "status" -> Statuses
      [] f = "ts_status" -> Buckets \X Statuses
      [] OTHER -> Buckets \X Names

\* The keys of counter f that a result is counted under.
Counted(f, r) ==
    CASE f = "total" -> {"all"}
      [] f = "failures" -> IF r.reason THEN {"all"} ELSE {}
      [] f \in {"service", "rps"} -> {r.service} \cap Services
      [] f = "names" -> {r.service}
      [] f = "status" -> {r.status}
      [] f = "ts_status" -> {<<r.bucket, r.status>>}
      [] f = "ts_errors" -> IF r.status >= 500 THEN {<<r.bucket, r.service>>} ELSE {}
      [] OTHER -> {<<r.bucket, r.service>>}

VARIABLES
    buffer,    \* of each sink, what has been recorded and not taken by its loop
    batch,     \* of each sink, what its loop has taken and Redis has not confirmed
    loop,      \* of each sink: sleep, executing, dead, ended or cut short
    stored,    \* what has arrived in Redis, as keys or as events
    stopping,  \* how far stop() has come
    bucket,    \* the bucket of the present time
    reader,    \* a request to the platform API: what it still reads and has read
    recorded, lost, faults,
    load       \* the one of Loads this behaviour follows

proxy == <<buffer, batch, loop, stopping>>
vars == <<proxy, stored, bucket, reader, recorded, lost, faults, load>>

Zero(s) == [f \in Fields(s) |-> [k \in Keys(f) |-> 0]]
Add(c, r) ==
    [f \in DOMAIN c |-> [k \in DOMAIN c[f] |-> c[f][k] + (IF k \in Counted(f, r) THEN 1 ELSE 0)]]
Plus(c, d) == [f \in DOMAIN c |-> [k \in DOMAIN c[f] |-> c[f][k] + d[f][k]]]
Total(c) == c["total"]["all"]
NoView == [left |-> <<>>, bucket |-> 0, seen |-> <<>>]

Init ==
    /\ buffer = [s \in Sinks |-> Zero(s)]
    /\ batch = [s \in Sinks |-> Zero(s)]
    /\ loop = [s \in Sinks |-> "sleep"]
    /\ stored = [s \in Sinks |-> Zero(s)]
    /\ stopping = "no"
    /\ bucket = 1
    /\ reader = NoView
    /\ recorded = 0 /\ lost = [s \in Sinks |-> 0] /\ faults = 0
    /\ load \in Loads

\* _record_proxy_result: both buffers, each under its lock, nothing between.
Record(r) ==
    /\ recorded < MaxRequests /\ stopping # "closed" /\ r.bucket = bucket
    /\ recorded' = recorded + 1
    /\ buffer' = [s \in Sinks |-> Add(buffer[s], r)]
    /\ UNCHANGED <<batch, loop, stored, stopping, bucket, reader, lost, faults>>

Taken(s) == buffer[s]

Cleared(s) == Zero(s)

\* flush_to and snapshot: what is there is taken and the buffer cleared.
Take(s, next) ==
    /\ buffer' = [buffer EXCEPT ![s] = Cleared(s)]
    /\ batch' = [batch EXCEPT ![s] = Taken(s)]
    /\ loop' = [loop EXCEPT ![s] = next]

\* _metric_flush_loop, _traffic_activity_loop: the sleep is over.
Flush(s) ==
    /\ loop[s] = "sleep" /\ Total(buffer[s]) > 0
    /\ Take(s, "executing")
    /\ UNCHANGED <<stored, stopping, bucket, reader, recorded, lost, faults>>

Settle(s, applied, next) ==
    /\ stored' = IF applied THEN [stored EXCEPT ![s] = Plus(@, batch[s])] ELSE stored
    /\ lost' = IF applied THEN lost ELSE [lost EXCEPT ![s] = @ + Total(batch[s])]
    /\ batch' = [batch EXCEPT ![s] = Zero(s)]
    /\ loop' = [loop EXCEPT ![s] = next]

\* The transaction, or the event, is in Redis.
Executed(s) ==
    /\ loop[s] = "executing"
    /\ Settle(s, TRUE, "sleep")
    /\ UNCHANGED <<buffer, stopping, bucket, reader, recorded, faults>>

\* Nothing catches the exception, so the task of the loop ends with it.
Failed(s, applied) == Settle(s, applied, "dead")

\* Mutant of RedisFails: what Redis did not confirm is put back to be sent again.
RedisFails_PutBack(s, applied) ==
    /\ loop[s] = "executing" /\ faults < load.maxFaults
    /\ (IF applied THEN "lost" ELSE "refused") \in load.faults
    /\ faults' = faults + 1
    /\ stored' = IF applied THEN [stored EXCEPT ![s] = Plus(@, batch[s])] ELSE stored
    /\ buffer' = [buffer EXCEPT ![s] = Plus(@, batch[s])]
    /\ batch' = [batch EXCEPT ![s] = Zero(s)]
    /\ loop' = [loop EXCEPT ![s] = "sleep"]
    /\ UNCHANGED <<stopping, bucket, reader, recorded, lost>>

RedisFails(s, applied) ==
    /\ loop[s] = "executing" /\ faults < load.maxFaults
    /\ (IF applied THEN "lost" ELSE "refused") \in load.faults
    /\ faults' = faults + 1
    /\ Failed(s, applied)
    /\ UNCHANGED <<buffer, stopping, bucket, reader, recorded>>

\* stop(): a loop that sleeps is cancelled; one that executes is, too, and
\* what it had taken may or may not arrive; one that had died raises its
\* exception in stop(), which goes no further.
CancelLoop(s, applied) ==
    /\ "stop" \in load.faults
    /\ stopping = IF s = "metrics" THEN "no" ELSE "cancelled metrics"
    /\ stopping' = IF loop[s] = "dead" THEN "raised"
                   ELSE IF s = "metrics" THEN "cancelled metrics" ELSE "cancelled both"
    /\ IF loop[s] = "executing" THEN Settle(s, applied, "cut")
       ELSE /\ loop' = [loop EXCEPT ![s] = IF @ = "sleep" THEN "ended" ELSE @]
            /\ UNCHANGED <<stored, lost, batch>>
    /\ UNCHANGED <<buffer, bucket, reader, recorded, faults>>

\* The last flush, of the metrics only.
FinalFlush ==
    /\ stopping = "cancelled both"
    /\ stopping' = "flushing"
    /\ Take("metrics", loop["metrics"])
    /\ UNCHANGED <<stored, bucket, reader, recorded, lost, faults>>

FinalExecuted ==
    /\ stopping = "flushing"
    /\ stopping' = "closed"
    /\ Settle("metrics", TRUE, loop["metrics"])
    /\ UNCHANGED <<buffer, bucket, reader, recorded, faults>>

\* stop() itself raises, before it closes the server.
FinalFails(applied) ==
    /\ stopping = "flushing" /\ faults < load.maxFaults
    /\ (IF applied THEN "lost" ELSE "refused") \in load.faults
    /\ faults' = faults + 1
    /\ stopping' = "raised"
    /\ Settle("metrics", applied, loop["metrics"])
    /\ UNCHANGED <<buffer, bucket, reader, recorded>>

Tick ==
    /\ bucket + 1 \in Buckets /\ bucket' = bucket + 1
    /\ UNCHANGED <<proxy, stored, reader, recorded, lost, faults>>

\* Mutant of ReadOrder: the totals come last.
ReadOrder_TotalsLast(view) ==
    IF view = "metrics" THEN <<"status", "service", "failures", "total">>
    ELSE <<"ts_latency_count", "ts_status", "ts_errors", "ts_requests">>

\* get_platform_metrics and, for one bucket, get_platform_timeseries.
ReadOrder(view) ==
    IF view = "metrics" THEN <<"total", "service", "status", "failures">>
    ELSE <<"ts_requests", "ts_errors", "ts_status", "ts_latency_count">>

BeginRead(view, b) ==
    /\ reader.left = <<>>
    /\ reader' = [left |-> ReadOrder(view), bucket |-> b, seen |-> <<>>]
    /\ UNCHANGED <<proxy, stored, bucket, recorded, lost, faults>>

ReadKey ==
    /\ reader.left # <<>>
    /\ LET f == Head(reader.left) IN
       reader' = [reader EXCEPT !.left = Tail(@),
                                !.seen = Append(@, [field |-> f, value |-> stored["metrics"][f]])]
    /\ UNCHANGED <<proxy, stored, bucket, recorded, lost, faults>>

Act ==
    \/ \E r \in Results : Record(r)
    \/ \E s \in Sinks : Flush(s) \/ Executed(s)
    \/ \E s \in Sinks, applied \in BOOLEAN : RedisFails(s, applied) \/ CancelLoop(s, applied)
    \/ \E applied \in BOOLEAN : FinalFails(applied)
    \/ FinalFlush \/ FinalExecuted
    \/ Tick
    \/ \E view \in load.views, b \in Buckets : BeginRead(view, b)
    \/ ReadKey

Next == Act /\ UNCHANGED load

Spec == Init /\ [][Next]_vars

\* The event loop runs its tasks and Redis answers.
FairSpec == Spec /\ \A s \in Sinks : WF_vars(Flush(s) /\ UNCHANGED load) /\ WF_vars(Executed(s) /\ UNCHANGED load)

----------------------------------------------------------------------------
(* Properties *)

TypeOK ==
    /\ \A s \in Sinks : \A c \in {buffer[s], batch[s], stored[s]} :
           \A f \in Fields(s) : c[f] \in [Keys(f) -> 0..MaxRequests]
    /\ loop \in [Sinks -> {"sleep", "executing", "dead", "ended", "cut"}]
    /\ stopping \in {"no", "cancelled metrics", "cancelled both", "flushing", "closed", "raised"}

Sum(f) == FoldFunction(LAMBDA x, y : x + y, 0, f)

\* The counters Redis holds are of the same requests, however flushes overlap
\* with requests, failures and the stop: the totals, the statuses, the time
\* series and the services agree with each other at every instant.
CountersAgree ==
    LET m == stored["metrics"]
        t == stored["traffic"]
    IN /\ \A f \in {"status", "ts_requests", "ts_status", "ts_latency_count"} :
              Sum(m[f]) = Total(m)
       /\ \A n \in Services : m["service"][n] = m["rps"][n]
              /\ m["service"][n] = Sum([b \in Buckets |-> m["ts_requests"][<<b, n>>]])
       /\ Sum(m["ts_errors"]) = Sum([x \in Statuses |-> IF x >= 500 THEN m["status"][x] ELSE 0])
       /\ Sum(t["names"]) = Total(t) /\ Sum(t["status"]) = Total(t)

\* Every request is counted exactly once by each sink: it waits, is on its
\* way, has arrived, or was lost, and none is lost without a failure of Redis
\* or a stop in the middle of a flush.
NothingTwice ==
    \A s \in Sinks :
        /\ recorded = Total(buffer[s]) + Total(batch[s]) + Total(stored[s]) + lost[s]
        /\ lost[s] > 0 => faults > 0 \/ loop[s] = "cut"

Value(f) == LET i == CHOOSE i \in DOMAIN reader.seen : reader.seen[i].field = f
            IN reader.seen[i].value

\* What the platform API returns was read at several instants, yet no total is
\* above the sum of what it is the total of, and no average divides the
\* requests of a service by fewer than were counted.
ViewsOrdered ==
    reader.left = <<>> /\ reader.seen # <<>> =>
        IF \E i \in DOMAIN reader.seen : reader.seen[i].field = "total"
        THEN Sum(Value("total")) <= Sum(Value("status"))
        ELSE \A n \in Names : LET k == <<reader.bucket, n>> IN
                 /\ Value("ts_requests")[k] <= Value("ts_latency_count")[k]
                 /\ Sum([m \in Names |-> Value("ts_requests")[<<reader.bucket, m>>]]) <=
                    Sum([x \in Statuses |-> Value("ts_status")[<<reader.bucket, x>>]])

\* "Proxy metrics are buffered and flushed to Redis" (docs/architecture.md):
\* as long as the proxy runs, what is buffered is taken to Redis.
EventuallyFlushed ==
    \A s \in Sinks : (Total(buffer[s]) > 0) ~> (Total(buffer[s]) = 0 \/ stopping # "no")
=============================================================================
