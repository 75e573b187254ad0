---------------------------- MODULE MCAutoscaler ----------------------------
(***************************************************************************)
(* Rows with a range, with a narrower one, and with none.                  *)
(***************************************************************************)
EXTENDS Autoscaler

Wide == [exists |-> TRUE, replicas |-> 1, min |-> 1, max |-> 3]
Full == [exists |-> TRUE, replicas |-> 3, min |-> 1, max |-> 3]
Narrow == [exists |-> TRUE, replicas |-> 2, min |-> 1, max |-> 2]
Fixed == [exists |-> TRUE, replicas |-> 2, min |-> 2, max |-> 2]

CONSTANTS s1, s2

\* One service whose row and load change, with requests that are counted.
Changing == [services |-> {s1}, rows |-> {Full, Narrow, Fixed}, loads |-> {0, 2},
             maxRequests |-> 2, maxChanges |-> 3, maxFaults |-> 2]

\* Two services in one loop.
Looping == [services |-> {s1, s2}, rows |-> {Wide, Full}, loads |-> {0, 2},
            maxRequests |-> 0, maxChanges |-> 2, maxFaults |-> 1]

\* An upper bound that comes down; a service that is removed and comes back;
\* a pass that fails.
Narrowing == [services |-> {s1}, rows |-> {Wide, Narrow}, loads |-> {0, 2},
              maxRequests |-> 0, maxChanges |-> 4, maxFaults |-> 0]
Recreated == [Narrowing EXCEPT !.rows = {Wide, Full}, !.loads = {0}]
PassFailing == [Narrowing EXCEPT !.rows = {Wide, Full}, !.maxFaults = 1]

AutoscaleScenarios == {Changing, Looping}
NarrowingOnly == {Narrowing}
RecreatedOnly == {Recreated}
PassFailingOnly == {PassFailing}
=============================================================================
