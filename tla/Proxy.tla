------------------------------- MODULE Proxy -------------------------------
(***************************************************************************)
(* The request path of the proxy (proxy/proxy_server.py) and its balancer  *)
(* (proxy/load_balancer.py): every client connection is a coroutine that   *)
(* carries one request from its head to its answer, over the replicas the  *)
(* routing entry of one target service held when it looked.                *)
(*                                                                         *)
(* The content of a request is its `kind`, what decides its way through    *)
(* _proxy_request, and whether it carries a service token.  The policy and *)
(* the token are read as the stores have them; how old a cached answer can *)
(* be is the matter of CachedStore.                                        *)
(***************************************************************************)
EXTENDS Naturals, Sequences, FiniteSets, SequencesExt, TLC

CONSTANTS
    Conns,         \* client connections
    Replicas,      \* of the target service
    ControlPlane,  \* the upstream of the platform storage paths
    Scenarios,     \* what arrives and what goes wrong
    NoPolicy

Policies == [external : BOOLEAN, internal : BOOLEAN] \cup {NoPolicy}

\* Some of the replicas always work and are always in rotation.  "client":
\* clients leave, "close": closing an upstream raises, "upgrade": sending an
\* upgrade request raises.  Bounds: the changes of replicas, entry, policy and
\* token, and the value at which the counter returns to 0.
Scenario ==
    [conns : SUBSET Conns, replicas : SUBSET Replicas, steady : SUBSET Replicas,
     kinds : SUBSET {"oversized", "slow", "chunked", "badLength", "shortBody",
                     "storage", "noHost", "http", "websocket"},
     tokens : SUBSET {"none", "source", "unknown"}, policies : SUBSET Policies,
     faults : SUBSET {"client", "close", "upgrade"},
     maxChanges : Nat, counterCycle : Nat \ {0}]

ASSUME ProxyAssumption ==
    /\ IsFiniteSet(Replicas) /\ ControlPlane \notin Replicas
    /\ NoPolicy \notin [external : BOOLEAN, internal : BOOLEAN]
    /\ Scenarios \subseteq Scenario
    /\ \A w \in Scenarios :
          /\ w.steady \subseteq w.replicas
          /\ \A n \in 1..Cardinality(w.replicas) : w.counterCycle % n = 0

VARIABLES
    upstream,    \* each upstream: up, down (refuses), hangs (accepts, never answers)
    healthy,     \* the replicas marked healthy in the routing entry
    policy,      \* the ingress policy of the target service, NoPolicy if it has no row
    tokenValid,  \* the source service and its token secret exist
    counter,     \* _counters[service]
    conn,        \* the connections
    picks,       \* history: first candidates since the entry last changed
    version,     \* history: how often the entry has changed
    changes,
    scenario     \* the one this behaviour follows

world == <<upstream, healthy, policy, tokenValid, version, changes, scenario>>
vars == <<world, counter, conn, picks>>

Upstreams == scenario.replicas \cup {ControlPlane}

\* The replicas in rotation, in an order that stands as long as the entry does.
Entry == SetToSeq(healthy)

Free == [pc |-> "free", kind |-> "http", token |-> "none", client |-> TRUE, candidates |-> <<>>,
         timeout |-> FALSE, open |-> FALSE, status |-> 0, wrote |-> <<>>, recorded |-> 0,
         permits |-> {}, seen |-> 0]

\* What lets a request with this token through, if all of it is given.
Needed(token) == IF token = "none" THEN {"external"} ELSE {"internal", token}
Given(p, valid) ==
    {f \in {"external", "internal"} : p # NoPolicy /\ p[f]} \cup {f \in {"source"} : valid}

Init ==
    /\ scenario \in Scenarios
    /\ upstream \in [Upstreams -> {"up"}]
    /\ healthy = scenario.replicas
    /\ policy \in scenario.policies
    /\ tokenValid = TRUE
    /\ counter = 0
    /\ conn = [c \in Conns |-> Free]
    /\ picks = <<>> /\ version = 0
    /\ changes = 0

\* A record with some of its fields changed.
With(record, fields) ==
    [f \in DOMAIN record |-> IF f \in DOMAIN fields THEN fields[f] ELSE record[f]]

Set(c, fields) == conn' = [conn EXCEPT ![c] = With(@, fields)]

\* history: what has been given at some instant since the request arrived.
Permitted(p, valid) ==
    [c \in Conns |-> [conn[c] EXCEPT !.permits = @ \cup (Given(p, valid) \cap Needed(conn[c].token))]]

----------------------------------------------------------------------------
(* The world around the proxy *)

Change == changes < scenario.maxChanges /\ changes' = changes + 1 /\ UNCHANGED scenario

ChangeUpstream(u, s) ==
    /\ Change /\ u \notin scenario.steady /\ upstream[u] # s
    /\ upstream' = [upstream EXCEPT ![u] = s]
    /\ UNCHANGED <<healthy, policy, tokenValid, version, counter, conn, picks>>

ChangeEntry(s) ==
    /\ Change /\ scenario.steady \subseteq s /\ s # healthy
    /\ healthy' = s /\ picks' = <<>> /\ version' = version + 1
    /\ UNCHANGED <<upstream, policy, tokenValid, counter, conn>>

ChangePolicy(p, valid) ==
    /\ Change /\ <<p, valid>> # <<policy, tokenValid>>
    /\ "source" \in scenario.tokens \/ valid  \* else nobody looks at it
    /\ policy' = p /\ tokenValid' = valid /\ conn' = Permitted(p, valid)
    /\ UNCHANGED <<upstream, healthy, version, counter, picks>>

ClientLeaves(c) ==
    /\ "client" \in scenario.faults /\ conn[c].client /\ conn[c].pc \notin {"free", "closed"}
    /\ Set(c, [client |-> FALSE])
    /\ UNCHANGED <<world, counter, picks>>

----------------------------------------------------------------------------
(* One connection *)

\* _handle_connection: the client's request arrives.
Accept(c, k, t) ==
    /\ conn[c].pc = "free"
    /\ Set(c, [pc |-> "head", kind |-> k, token |-> t,
               permits |-> Given(policy, tokenValid) \cap Needed(t)])
    /\ UNCHANGED <<world, counter, picks>>

\* The status is written and drained.  Without a client the drain may raise,
\* and then nothing is recorded.
Reply(c, s) ==
    \/ Set(c, [pc |-> "record", status |-> s,
               wrote |-> IF conn[c].client THEN Append(conn[c].wrote, s) ELSE conn[c].wrote])
    \/ /\ ~conn[c].client
       /\ Set(c, [pc |-> "closed"])

\* The head that was read decides what the request is; an oversized head or
\* one that does not come in time ends the connection without an answer.
ReadHead(c) ==
    LET k == conn[c].kind IN
    /\ conn[c].pc = "head"
    /\ CASE k \in {"oversized", "slow"} -> Set(c, [pc |-> "closed"])
         [] k = "chunked" -> Reply(c, 501)
         [] k \in {"badLength", "shortBody"} -> Reply(c, 400)
         [] k = "storage" -> Set(c, [pc |-> "connect", candidates |-> <<ControlPlane>>])
         [] k = "noHost" -> Reply(c, 503)
         [] OTHER -> Set(c, [pc |-> IF conn[c].token = "none" THEN "external" ELSE "source"])
    /\ UNCHANGED <<world, counter, picks>>

\* Mutant of ResolveSource: a token nobody holds is like no token.
ResolveSource_FallThrough(c) ==
    /\ conn[c].pc = "source"
    /\ Set(c, [pc |-> IF conn[c].token = "source" /\ tokenValid THEN "internal" ELSE "external"])
    /\ UNCHANGED <<world, counter, picks>>

\* _source_service_from_request: a token without a living source is refused.
ResolveSource(c) ==
    /\ conn[c].pc = "source"
    /\ IF conn[c].token = "source" /\ tokenValid THEN Set(c, [pc |-> "internal"]) ELSE Reply(c, 403)
    /\ UNCHANGED <<world, counter, picks>>

CheckInternal(c) ==
    /\ conn[c].pc = "internal"
    /\ IF policy # NoPolicy /\ policy.internal THEN Set(c, [pc |-> "entry"]) ELSE Reply(c, 403)
    /\ UNCHANGED <<world, counter, picks>>

CheckExternal(c) ==
    /\ conn[c].pc = "external"
    /\ IF policy # NoPolicy /\ policy.external THEN Set(c, [pc |-> "entry"]) ELSE Reply(c, 403)
    /\ UNCHANGED <<world, counter, picks>>

\* healthy_replicas_for_request: the entry is read ...
ReadEntry(c) ==
    /\ conn[c].pc = "entry"
    /\ IF healthy = {} THEN Reply(c, 503)
       ELSE Set(c, [pc |-> "lock", seen |-> version,
                    candidates |-> Entry])
    /\ UNCHANGED <<world, counter, picks>>

Rotate(s, offset) == SubSeq(s, offset + 1, Len(s)) \o SubSeq(s, 1, offset)

\* Mutant of PickReplica: the counter is read without being moved on.
PickReplica_Sticky(c) ==
    LET order == Rotate(conn[c].candidates, counter % Len(conn[c].candidates)) IN
    /\ conn[c].pc = "lock"
    /\ Set(c, [pc |-> "connect", candidates |-> order])
    /\ picks' = IF conn[c].seen = version THEN Append(picks, Head(order)) ELSE picks
    /\ UNCHANGED <<world, counter>>

\* ... and, when the answer is there, the counter moves on and turns the list.
PickReplica(c) ==
    LET order == Rotate(conn[c].candidates, counter % Len(conn[c].candidates)) IN
    /\ conn[c].pc = "lock"
    /\ counter' = (counter + 1) % scenario.counterCycle
    /\ Set(c, [pc |-> "connect", candidates |-> order])
    /\ picks' = IF conn[c].seen = version THEN Append(picks, Head(order)) ELSE <<>>
    /\ UNCHANGED world

Websocket(c) == conn[c].kind = "websocket"

Failing(c, rest, timeout) ==
    Set(c, [pc |-> IF rest = <<>> THEN "giveUp" ELSE "connect", candidates |-> rest,
            timeout |-> conn[c].timeout \/ timeout, open |-> FALSE, status |-> 0])

\* Mutant of NextCandidate: a timeout ends the search.
NextCandidate_NotAfterTimeout(c, timeout) ==
    Failing(c, IF timeout THEN <<>> ELSE Tail(conn[c].candidates), timeout)

\* Mutant of NextCandidate: the same candidate is tried again.
NextCandidate_Same(c, timeout) == Failing(c, conn[c].candidates, timeout)

\* A candidate failed, by a timeout or otherwise: the next one is tried.
NextCandidate(c, timeout) == Failing(c, Tail(conn[c].candidates), timeout)

\* The connection to the candidate: refused, or open and the request sent.
\* When sending an upgrade raises, nobody closes the upstream.
Connect(c) ==
    LET u == Head(conn[c].candidates) IN
    /\ conn[c].pc = "connect"
    /\ IF upstream[u] = "down" THEN NextCandidate(c, FALSE)
       ELSE \/ Set(c, [pc |-> IF Websocket(c) THEN "pipe" ELSE "reply", open |-> TRUE])
            \/ /\ Websocket(c) /\ "upgrade" \in scenario.faults
               /\ Set(c, [pc |-> "closed", open |-> TRUE])
    /\ UNCHANGED <<world, counter, picks>>

\* Mutant of ReadReply: the reply is passed on as it comes, a later failure
\* still leads to the next candidate.
ReadReply_Streamed(c) ==
    LET u == Head(conn[c].candidates) IN
    /\ conn[c].pc = "reply"
    /\ IF upstream[u] = "up"
       THEN Set(c, [pc |-> "closeUpstream", status |-> 200, wrote |-> Append(conn[c].wrote, 200)])
       ELSE Set(c, [pc |-> "giveUp", candidates |-> <<>>, open |-> FALSE,
                    wrote |-> Append(conn[c].wrote, 200)])
    /\ UNCHANGED <<world, counter, picks>>

\* _read_full_response: the whole reply is read before any of it is passed
\* on.  When passing it on raises, as when the client has left, that is
\* taken for a failure of the candidate.
ReadReply(c) ==
    LET u == Head(conn[c].candidates) IN
    /\ conn[c].pc = "reply"
    /\ IF upstream[u] = "up"
       THEN \/ Set(c, [pc |-> "closeUpstream", status |-> 200,
                       wrote |-> IF conn[c].client THEN Append(conn[c].wrote, 200)
                                 ELSE conn[c].wrote])
            \/ /\ ~conn[c].client
               /\ NextCandidate(c, FALSE)
       ELSE NextCandidate(c, upstream[u] = "hangs")
    /\ UNCHANGED <<world, counter, picks>>

\* The finally of _forward_http_to_endpoint; when it raises, the candidate
\* counts as failed although its reply has been passed on.
CloseUpstream(c) ==
    /\ conn[c].pc = "closeUpstream"
    /\ \/ Set(c, [pc |-> "record", open |-> FALSE])
       \/ /\ "close" \in scenario.faults
          /\ NextCandidate(c, FALSE)
    /\ UNCHANGED <<world, counter, picks>>

\* No candidate is left.
GiveUp(c) ==
    /\ conn[c].pc = "giveUp"
    /\ Reply(c, IF conn[c].timeout /\ ~Websocket(c) THEN 504 ELSE 502)
    /\ UNCHANGED <<world, counter, picks>>

\* Both directions of an upgraded connection are copied until one ends, then
\* the other is closed; nothing is recorded.
EndPipe(c) ==
    /\ conn[c].pc = "pipe"
    /\ Set(c, [pc |-> "closed", open |-> FALSE])
    /\ UNCHANGED <<world, counter, picks>>

\* _record_proxy_result, then the connection is closed.
Record(c) ==
    /\ conn[c].pc = "record"
    /\ Set(c, [pc |-> "closed", recorded |-> conn[c].status])
    /\ UNCHANGED <<world, counter, picks>>

Step(c) ==
    \/ ReadHead(c) \/ ResolveSource(c) \/ CheckInternal(c) \/ CheckExternal(c)
    \/ ReadEntry(c) \/ PickReplica(c) \/ Connect(c) \/ ReadReply(c) \/ CloseUpstream(c)
    \/ GiveUp(c) \/ EndPipe(c) \/ Record(c)

Next ==
    \/ \E u \in Upstreams, s \in {"up", "down", "hangs"} : ChangeUpstream(u, s)
    \/ \E s \in SUBSET scenario.replicas : ChangeEntry(s)
    \/ \E p \in scenario.policies, valid \in BOOLEAN : ChangePolicy(p, valid)
    \/ \E c \in Conns : ClientLeaves(c) \/ Step(c)
    \/ \E c \in scenario.conns, k \in scenario.kinds, t \in scenario.tokens : Accept(c, k, t)

Spec == Init /\ [][Next]_vars

\* Every await of a connection ends: reads have timeouts, and whoever is
\* piped leaves some day.
FairSpec == Spec /\ \A c \in Conns : WF_vars(Step(c))

----------------------------------------------------------------------------
(* Properties *)

TypeOK ==
    /\ upstream \in [Upstreams -> {"up", "down", "hangs"}]
    /\ healthy \subseteq Replicas
    /\ policy \in Policies /\ tokenValid \in BOOLEAN
    /\ counter \in 0..scenario.counterCycle - 1
    /\ \A c \in Conns : /\ conn[c].candidates \in Seq(Upstreams)
                        /\ conn[c].pc \in {"connect", "reply", "closeUpstream", "pipe"} =>
                               conn[c].candidates # <<>>

\* A request reaches a replica only if, since it arrived, its target allowed
\* external ingress or, for a request with a service token, internal ingress
\* while that token was one of a living service: a token never falls back to
\* the external policy, however policy and token change meanwhile.
OnlyPermittedForwarded ==
    \A c \in Conns : conn[c].kind # "storage"
        /\ conn[c].pc \in {"entry", "lock", "connect", "reply", "closeUpstream", "pipe", "giveUp"}
        => conn[c].permits = Needed(conn[c].token)

\* With a replica in rotation that works all the time, no request of a client
\* that stays fails because others are down, hang or come and go, as long as
\* closing an upstream after its reply does not raise.
SteadyServes ==
    scenario.steady # {} /\ "close" \notin scenario.faults => \A c \in Conns :
        conn[c].kind \in {"http", "websocket"} /\ conn[c].client =>
            conn[c].status \notin {502, 503, 504}

\* A client is answered at most once, and what the metrics count for its
\* request is what it was answered.
RecordedAsAnswered ==
    \A c \in Conns :
        /\ Len(conn[c].wrote) <= 1
        /\ conn[c].recorded # 0 /\ conn[c].client => conn[c].wrote = <<conn[c].recorded>>

\* That holds as long as closing an upstream after its reply does not raise.
AnsweredOnce == "close" \notin scenario.faults => RecordedAsAnswered

\* No upstream connection outlives the client connection it was opened for.
UpstreamClosed == \A c \in Conns : conn[c].pc \in {"closed", "record"} => ~conn[c].open

\* Round robin under concurrent requests: of any as many consecutive picks as
\* there are replicas in rotation, each replica is the first of one.
EvenSpread ==
    LET n == Cardinality(healthy) IN
    \A i \in 1..Len(picks) : i + n - 1 <= Len(picks) =>
        Cardinality({picks[j] : j \in i..i + n - 1}) = n

\* Every connection is closed in the end.
EveryConnectionEnds == \A c \in Conns : conn[c].pc = "head" ~> conn[c].pc = "closed"
=============================================================================
