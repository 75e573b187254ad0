------------------------------ MODULE MCProxy ------------------------------
(***************************************************************************)
(* The instances of the proxy and of its counters.                         *)
(***************************************************************************)
EXTENDS ProxyWithMetrics

CONSTANTS c1, c2, c3, r1, r2, r3

Open == [external |-> TRUE, internal |-> FALSE]

\* Two requests over replicas that go down, hang, enter and leave the rotation.
Forward == [conns |-> {c1, c2}, replicas |-> {r1, r2}, steady |-> {r1},
            kinds |-> {"http"}, tokens |-> {"none"}, policies |-> {Open}, faults |-> {"client"},
            maxChanges |-> 2, counterCycle |-> 2]

\* Every kind of request and token; policy, token, replicas and client change.
Ingress == [conns |-> {c1}, replicas |-> {r1, r2}, steady |-> {},
            kinds |-> {"oversized", "slow", "chunked", "badLength", "shortBody",
                       "storage", "noHost", "http", "websocket"},
            tokens |-> {"none", "source", "unknown"}, policies |-> Policies, faults |-> {"client"},
            maxChanges |-> 2, counterCycle |-> 2]

\* ... and the upstream connections raise where they may.
Raising == [Ingress EXCEPT !.kinds = {"http", "websocket"}, !.tokens = {"none"},
                           !.policies = {Open}, !.faults = {"client", "close", "upgrade"}]

\* Three requests take turns at three replicas.
Spread == [conns |-> {c1, c2, c3}, replicas |-> {r1, r2, r3}, steady |-> {r1},
           kinds |-> {"http"}, tokens |-> {"none"}, policies |-> {Open}, faults |-> {},
           maxChanges |-> 1, counterCycle |-> 6]

ProxyScenarios == {Forward, Ingress, Raising, Spread}

\* Redis refuses, or its answer is lost, or the proxy stops.
Flushing == [faults |-> {"refused", "lost", "stop"}, views |-> {}, maxFaults |-> 1]

\* The platform API reads meanwhile.
Viewing == [faults |-> {}, views |-> {"metrics", "timeseries"}, maxFaults |-> 0]

\* A refused flush only.
Refusing == [faults |-> {"refused"}, views |-> {}, maxFaults |-> 1]

ProxyLoads == {Flushing, Viewing}
RefusingLoads == {Refusing}
=============================================================================
