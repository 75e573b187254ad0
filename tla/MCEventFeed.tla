---------------------------- MODULE MCEventFeed ----------------------------
(***************************************************************************)
(* The instances of the event feed: short streams and small queues, so     *)
(* that events are trimmed and dropped.                                    *)
(***************************************************************************)
EXTENDS EventFeed

CONSTANTS c1, c2

\* One client that comes back twice.
One == [clients |-> {c1}, streamLength |-> 3, recentCount |-> 2, queueSize |-> 2,
        batchSize |-> 3, maxEvents |-> 4, maxConnects |-> 3, maxFaults |-> 2]

\* Two clients at once.
Two == [clients |-> {c1, c2}, streamLength |-> 2, recentCount |-> 1, queueSize |-> 1,
        batchSize |-> 2, maxEvents |-> 3, maxConnects |-> 2, maxFaults |-> 1]

FeedScenarios == {One, Two}
=============================================================================
