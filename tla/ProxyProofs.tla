---------------------------- MODULE ProxyProofs ----------------------------
(***************************************************************************)
(* What the request path of the proxy promises, for any number of          *)
(* connections, replicas and changes of the world around it; and that its  *)
(* counters count every request once and agree, for any number of          *)
(* requests, services and flushes.                                         *)
(***************************************************************************)
EXTENDS ProxyWithMetrics, FiniteSetTheorems, SequenceTheorems, TLAPS

Fields == DOMAIN Free

\* Every connection has all its fields.
Records ==
    /\ conn = [c \in Conns |-> conn[c]]
    /\ \A c \in Conns : conn[c] = [f \in Fields |-> conn[c][f]]

\* What Set does to the connection it is about, and that it leaves the others.
LEMMA SetEffect ==
    ASSUME Records, NEW c \in Conns, NEW fields, Set(c, fields)
    PROVE  /\ Records'
           /\ \A d \in Conns : d # c => conn'[d] = conn[d]
           /\ \A f \in Fields :
                 conn'[c][f] = IF f \in DOMAIN fields THEN fields[f] ELSE conn[c][f]
  <1>1. DOMAIN conn[c] = Fields
    BY DEF Records
  <1> DEFINE new == [f \in Fields |-> IF f \in DOMAIN fields THEN fields[f] ELSE conn[c][f]]
  <1>2. conn' = [conn EXCEPT ![c] = new]
    BY <1>1 DEF Set, With
  <1>3. DOMAIN conn = Conns
    BY DEF Records
  <1>4. conn'[c] = new /\ \A d \in Conns : d # c => conn'[d] = conn[d]
    BY <1>2, <1>3
  <1> QED BY <1>2, <1>3, <1>4 DEF Records

\* The fields of a connection.
LEMMA FieldNames ==
    Fields = {"pc", "kind", "token", "client", "candidates", "timeout", "open", "status",
              "wrote", "recorded", "permits", "seen"}
  BY DEF Fields, Free

\* What the world around the proxy keeps: the steady replicas work and are in
\* rotation, whatever else changes.
World ==
    /\ scenario \in Scenarios
    /\ upstream = [u \in Upstreams |-> upstream[u]]
    /\ \A r \in scenario.steady : upstream[r] = "up"
    /\ healthy \subseteq scenario.replicas /\ scenario.steady \subseteq healthy
    /\ policy \in Policies /\ tokenValid \in BOOLEAN
    /\ version \in Nat

\* The parts of a scenario have the types of the constants.
LEMMA ScenarioType ==
    ASSUME scenario \in Scenarios
    PROVE  /\ scenario.conns \subseteq Conns /\ scenario.replicas \subseteq Replicas
           /\ scenario.steady \subseteq scenario.replicas
           /\ scenario.policies \subseteq Policies
           /\ scenario.counterCycle \in Nat \ {0}
           /\ IsFiniteSet(scenario.replicas)
  BY ProxyAssumption, FS_Subset DEF ProxyAssumption, Scenario

Base == Records /\ World /\ counter \in Nat

LEMMA BaseInit == Init => Base
  <1> SUFFICES ASSUME Init PROVE Base
    OBVIOUS
  <1>1. Records
    BY DEF Init, Records, Fields, Free
  <1>2. World
    BY ScenarioType DEF Init, World, Upstreams
  <1>3. counter \in Nat
    BY DEF Init
  <1> QED BY <1>1, <1>2, <1>3 DEF Base

\* The step of a connection is one Set of that connection, and moves the
\* counter at most by one.
LEMMA StepSets ==
    ASSUME NEW c \in Conns, Step(c)
    PROVE  /\ UNCHANGED world /\ \E fields : Set(c, fields)
           /\ counter' \in {counter, (counter + 1) % scenario.counterCycle}
  <1>1. ASSUME NEW s, Reply(c, s) PROVE \E fields : Set(c, fields)
    BY <1>1 DEF Reply
  <1>2. ASSUME NEW timeout, NextCandidate(c, timeout) PROVE \E fields : Set(c, fields)
    BY <1>2 DEF NextCandidate, Failing
  <1>3. CASE ReadHead(c)
    BY <1>3, <1>1 DEF ReadHead
  <1>4. CASE ResolveSource(c)
    BY <1>4, <1>1 DEF ResolveSource
  <1>5. CASE CheckInternal(c)
    BY <1>5, <1>1 DEF CheckInternal
  <1>6. CASE CheckExternal(c)
    BY <1>6, <1>1 DEF CheckExternal
  <1>7. CASE ReadEntry(c)
    BY <1>7, <1>1 DEF ReadEntry
  <1>8. CASE PickReplica(c)
    BY <1>8 DEF PickReplica
  <1>9. CASE Connect(c)
    BY <1>9, <1>2 DEF Connect
  <1>10. CASE ReadReply(c)
    BY <1>10, <1>2 DEF ReadReply
  <1>11. CASE CloseUpstream(c)
    BY <1>11, <1>2 DEF CloseUpstream
  <1>12. CASE GiveUp(c)
    BY <1>12, <1>1 DEF GiveUp
  <1>13. CASE EndPipe(c)
    BY <1>13 DEF EndPipe
  <1>14. CASE Record(c)
    BY <1>14 DEF Record
  <1> QED BY <1>3, <1>4, <1>5, <1>6, <1>7, <1>8, <1>9, <1>10, <1>11, <1>12, <1>13, <1>14
          DEF Step

LEMMA BaseStep == Base /\ [Next]_vars => Base'
  <1> SUFFICES ASSUME Base, [Next]_vars PROVE Base'
    OBVIOUS
  <1> USE DEF Base
  <1>1. ASSUME NEW u \in Upstreams, NEW s, ChangeUpstream(u, s) PROVE Base'
    BY <1>1 DEF ChangeUpstream, Change, World, Records, Upstreams
  <1>2. ASSUME NEW s \in SUBSET scenario.replicas, ChangeEntry(s) PROVE Base'
    <2>1. /\ healthy' = s /\ scenario.steady \subseteq s /\ version' = version + 1
          /\ UNCHANGED <<scenario, upstream, policy, tokenValid, conn, counter>>
      BY <1>2 DEF ChangeEntry, Change
    <2>2. World'
      <3>1. s \subseteq scenario.replicas
        OBVIOUS
      <3>2. version' \in Nat
        BY <2>1 DEF World
      <3>3. Upstreams' = Upstreams
        BY <2>1 DEF Upstreams
      <3> QED BY <2>1, <3>1, <3>2, <3>3 DEF World
    <2> QED BY <2>1, <2>2 DEF Records
  <1>3. ASSUME NEW p \in scenario.policies, NEW valid \in BOOLEAN, ChangePolicy(p, valid)
        PROVE  Base'
    <2>1. conn' = Permitted(p, valid)
      BY <1>3 DEF ChangePolicy
    <2>2. conn' = [d \in Conns |-> conn'[d]]
      BY <2>1 DEF Permitted
    <2>3. ASSUME NEW d \in Conns PROVE conn'[d] = [f \in Fields |-> conn'[d][f]]
      BY <2>1 DEF Permitted, Records
    <2>4. World'
      BY <1>3, ScenarioType DEF ChangePolicy, Change, World, Upstreams
    <2>5. counter' = counter
      BY <1>3 DEF ChangePolicy
    <2> QED BY <2>2, <2>3, <2>4, <2>5 DEF Records
  <1>4. ASSUME NEW c \in Conns, ClientLeaves(c) PROVE Base'
    BY <1>4, SetEffect DEF ClientLeaves, world, World, Upstreams
  <1>5. ASSUME NEW c \in Conns, Step(c) PROVE Base'
    <2>1. counter' \in Nat
      <3>1. scenario.counterCycle \in Nat \ {0}
        BY ScenarioType DEF World
      <3>2. (counter + 1) % scenario.counterCycle \in Nat
        BY <3>1
      <3> QED BY <1>5, <3>2, StepSets
    <2> QED BY <1>5, <2>1, StepSets, SetEffect DEF world, World, Upstreams
  <1>6. ASSUME NEW c \in scenario.conns, NEW k, NEW t, Accept(c, k, t) PROVE Base'
    BY <1>6, SetEffect, ScenarioType DEF Accept, world, World, Upstreams
  <1>7. CASE UNCHANGED vars
    BY <1>7 DEF vars, world, World, Records, Upstreams
  <1> QED BY <1>1, <1>2, <1>3, <1>4, <1>5, <1>6, <1>7 DEF Next

\* The locals of a connection (conn) keep their fields, the counters stay natural
\* numbers and the world of a request stays one of its scenario.
THEOREM BaseHolds == Spec => []Base
  BY BaseInit, BaseStep, PTL DEF Spec

----------------------------------------------------------------------------
(* What is forwarded was permitted *)

Forwarded == {"entry", "lock", "connect", "reply", "closeUpstream", "pipe", "giveUp"}

\* What is known of the permits of a request on its way: those seen are some
\* of those it needs, those given now are among them, and each check it has
\* passed has seen its own.
Entitled(c) ==
    /\ conn[c].permits \subseteq Needed(conn[c].token)
    /\ conn[c].pc # "free" =>
          Given(policy, tokenValid) \cap Needed(conn[c].token) \subseteq conn[c].permits
    /\ conn[c].pc = "internal" => conn[c].token = "source" /\ "source" \in conn[c].permits
    /\ conn[c].pc = "external" => conn[c].token = "none"
    /\ conn[c].kind # "storage" /\ conn[c].pc \in Forwarded =>
          conn[c].permits = Needed(conn[c].token)

EntitledInv == \A c \in Conns : Entitled(c)

LEMMA EntitledInit == Init => EntitledInv
  <1> SUFFICES ASSUME Init, NEW c \in Conns PROVE Entitled(c)
    BY DEF EntitledInv
  <1>1. conn[c] = Free
    BY DEF Init
  <1>2. Free.pc = "free" /\ Free.permits = {}
    BY DEF Free
  <1> QED BY <1>1, <1>2 DEF Entitled, Forwarded

\* A step of a connection to a state that needs no more than it has.
LEMMA Keeps ==
    ASSUME Base, NEW c \in Conns, Entitled(c), conn[c].pc # "free", UNCHANGED world,
           NEW fields, Set(c, fields),
           DOMAIN fields \cap {"permits", "token", "kind"} = {},
           "pc" \in DOMAIN fields =>
              \/ fields.pc \in {"record", "closed", "source"}
              \/ fields.pc \in Forwarded /\ conn[c].pc \in Forwarded
              \/ fields.pc \in Forwarded /\ conn[c].kind = "storage"
              \/ fields.pc \in Forwarded /\ conn[c].permits = Needed(conn[c].token)
              \/ fields.pc = "external" /\ conn[c].token = "none"
              \/ fields.pc = "internal" /\ conn[c].token = "source" /\ tokenValid
    PROVE  Entitled(c)'
  <1>1. /\ conn'[c].permits = conn[c].permits /\ conn'[c].token = conn[c].token
        /\ conn'[c].kind = conn[c].kind
        /\ conn'[c].pc = IF "pc" \in DOMAIN fields THEN fields.pc ELSE conn[c].pc
    BY SetEffect, FieldNames DEF Base
  <1>2. conn[c].token = "source" /\ tokenValid => "source" \in conn[c].permits
    BY DEF Entitled, Given, Needed
  <1>3. UNCHANGED <<policy, tokenValid>>
    BY DEF world
  <1>4. "pc" \notin DOMAIN fields => Entitled(c)'
    BY <1>1, <1>3 DEF Entitled, Given
  <1>5. "pc" \in DOMAIN fields => Entitled(c)'
    BY <1>1, <1>2, <1>3 DEF Entitled, Given, Forwarded
  <1> QED BY <1>4, <1>5

\* An answer ends the use of what was permitted.
LEMMA ReplyKeeps ==
    ASSUME Base, NEW c \in Conns, Entitled(c), conn[c].pc # "free", UNCHANGED world,
           NEW s, Reply(c, s)
    PROVE  Entitled(c)'
  BY Keeps DEF Reply

\* So does the next candidate of a request that has been permitted.
LEMMA CandidateKeeps ==
    ASSUME Base, NEW c \in Conns, Entitled(c), conn[c].pc \in Forwarded, UNCHANGED world,
           NEW timeout, NextCandidate(c, timeout)
    PROVE  Entitled(c)'
  BY Keeps DEF NextCandidate, Failing, Forwarded

LEMMA EntitledStep ==
    ASSUME Base, NEW c \in Conns, Entitled(c), Step(c)
    PROVE  Entitled(c)'
  <1>0. UNCHANGED world
    BY StepSets
  <1>1. CASE ReadHead(c)
    <2>1. conn[c].pc = "head"
      BY <1>1 DEF ReadHead
    <2>2. CASE Set(c, [pc |-> "closed"])
      BY <1>0, <2>1, <2>2, Keeps
    <2>3. CASE \E s : Reply(c, s)
      BY <1>0, <2>1, <2>3, ReplyKeeps
    <2>4. CASE conn[c].kind = "storage"
               /\ Set(c, [pc |-> "connect", candidates |-> <<ControlPlane>>])
      BY <1>0, <2>1, <2>4, Keeps DEF Forwarded
    <2>5. CASE Set(c, [pc |-> IF conn[c].token = "none" THEN "external" ELSE "source"])
      BY <1>0, <2>1, <2>5, Keeps
    <2> QED BY <1>1, <2>2, <2>3, <2>4, <2>5 DEF ReadHead
  <1>2. CASE ResolveSource(c)
    BY <1>0, <1>2, Keeps, ReplyKeeps DEF ResolveSource
  <1>3. CASE CheckInternal(c)
    <2>1. conn[c].pc = "internal"
      BY <1>3 DEF CheckInternal
    <2>2. CASE policy # NoPolicy /\ policy.internal
      <3>1. conn[c].permits = Needed(conn[c].token)
        BY <2>1, <2>2 DEF Entitled, Given, Needed
      <3>2. Set(c, [pc |-> "entry"])
        BY <1>3, <2>2 DEF CheckInternal
      <3> QED BY <1>0, <2>1, <3>1, <3>2, Keeps DEF Forwarded
    <2> QED BY <1>0, <1>3, <2>1, <2>2, ReplyKeeps DEF CheckInternal
  <1>4. CASE CheckExternal(c)
    <2>1. conn[c].pc = "external"
      BY <1>4 DEF CheckExternal
    <2>2. CASE policy # NoPolicy /\ policy.external
      <3>1. conn[c].permits = Needed(conn[c].token)
        BY <2>1, <2>2 DEF Entitled, Given, Needed
      <3>2. Set(c, [pc |-> "entry"])
        BY <1>4, <2>2 DEF CheckExternal
      <3> QED BY <1>0, <2>1, <3>1, <3>2, Keeps DEF Forwarded
    <2> QED BY <1>0, <1>4, <2>1, <2>2, ReplyKeeps DEF CheckExternal
  <1>5. CASE ReadEntry(c)
    BY <1>0, <1>5, Keeps, ReplyKeeps DEF ReadEntry, Forwarded
  <1>6. CASE PickReplica(c)
    BY <1>0, <1>6, Keeps DEF PickReplica, Forwarded
  <1>7. CASE Connect(c)
    BY <1>0, <1>7, Keeps, CandidateKeeps DEF Connect, Forwarded
  <1>8. CASE ReadReply(c)
    <2>1. conn[c].pc = "reply"
      BY <1>8 DEF ReadReply
    <2>2. CASE \E wrote : Set(c, [pc |-> "closeUpstream", status |-> 200, wrote |-> wrote])
      BY <1>0, <2>1, <2>2, Keeps DEF Forwarded
    <2>3. CASE \E timeout : NextCandidate(c, timeout)
      BY <1>0, <2>1, <2>3, CandidateKeeps DEF Forwarded
    <2> QED BY <1>8, <2>2, <2>3 DEF ReadReply
  <1>9. CASE CloseUpstream(c)
    BY <1>0, <1>9, Keeps, CandidateKeeps DEF CloseUpstream, Forwarded
  <1>10. CASE GiveUp(c)
    BY <1>0, <1>10, ReplyKeeps DEF GiveUp
  <1>11. CASE EndPipe(c)
    BY <1>0, <1>11, Keeps DEF EndPipe
  <1>12. CASE Record(c)
    BY <1>0, <1>12, Keeps DEF Record
  <1> QED BY <1>1, <1>2, <1>3, <1>4, <1>5, <1>6, <1>7, <1>8, <1>9, <1>10, <1>11, <1>12
          DEF Step

LEMMA EntitledNext == Base /\ EntitledInv /\ [Next]_vars => EntitledInv'
  <1> SUFFICES ASSUME Base, EntitledInv, [Next]_vars, NEW d \in Conns PROVE Entitled(d)'
    BY DEF EntitledInv
  <1>0. Entitled(d)
    BY DEF EntitledInv
  <1>1. ASSUME UNCHANGED <<conn, policy, tokenValid>> PROVE Entitled(d)'
    BY <1>0, <1>1 DEF Entitled, Given
  <1>2. ASSUME NEW p, NEW valid, ChangePolicy(p, valid) PROVE Entitled(d)'
    <2>1. conn'[d] = [conn[d] EXCEPT !.permits =
                                @ \cup (Given(p, valid) \cap Needed(conn[d].token))]
      BY <1>2 DEF ChangePolicy, Permitted
    <2>2. DOMAIN conn[d] = Fields
      BY DEF Base, Records
    <2>3. /\ conn'[d].permits = conn[d].permits \cup (Given(p, valid) \cap Needed(conn[d].token))
          /\ conn'[d].token = conn[d].token /\ conn'[d].kind = conn[d].kind
          /\ conn'[d].pc = conn[d].pc
      BY <2>1, <2>2, FieldNames
    <2>4. policy' = p /\ tokenValid' = valid
      BY <1>2 DEF ChangePolicy
    <2>5. Given(policy, tokenValid)' = Given(p, valid)
      BY <2>4 DEF Given
    <2>6. Given(p, valid) \cap Needed(conn[d].token) \subseteq conn'[d].permits
      BY <2>3
    <2>7. conn'[d].permits \subseteq Needed(conn[d].token)
      BY <1>0, <2>3 DEF Entitled
    <2>8. conn[d].permits \subseteq conn'[d].permits
      BY <2>3
    <2> QED BY <1>0, <2>3, <2>5, <2>6, <2>7, <2>8 DEF Entitled
  <1>3. ASSUME NEW c \in Conns, c # d, \E fields : Set(c, fields), UNCHANGED world
        PROVE  Entitled(d)'
    <2>1. conn'[d] = conn[d]
      BY <1>3, SetEffect DEF Base
    <2> QED BY <1>0, <1>3, <2>1 DEF Entitled, Given, world
  <1>4. ASSUME NEW c \in Conns, ClientLeaves(c) PROVE Entitled(d)'
    <2>1. CASE c = d
      BY <1>0, <1>4, <2>1, Keeps DEF ClientLeaves
    <2> QED BY <1>3, <1>4, <2>1 DEF ClientLeaves
  <1>5. ASSUME NEW c \in Conns, Step(c) PROVE Entitled(d)'
    BY <1>0, <1>3, <1>5, EntitledStep, StepSets
  <1>6. ASSUME NEW c \in scenario.conns, NEW k, NEW t, Accept(c, k, t) PROVE Entitled(d)'
    <2>0. c \in Conns
      BY ScenarioType DEF Base, World
    <2>1. CASE c = d
      <3>1. /\ conn'[d].permits = Given(policy, tokenValid) \cap Needed(t)
            /\ conn'[d].token = t /\ conn'[d].pc = "head"
        BY <1>6, <2>0, <2>1, SetEffect, FieldNames DEF Accept, Base
      <3>2. UNCHANGED <<policy, tokenValid>>
        BY <1>6 DEF Accept, world
      <3> QED BY <3>1, <3>2 DEF Entitled, Given, Forwarded
    <2> QED BY <1>3, <1>6, <2>0, <2>1 DEF Accept
  <1> QED BY <1>1, <1>2, <1>4, <1>5, <1>6 DEF Next, ChangeUpstream, ChangeEntry, vars, world

\* OnlyPermittedForwarded: whatever policy and token do while a request is on
\* its way through _proxy_request, it is forwarded only after its own checks
\* were met, each at some instant since it arrived.
THEOREM PermittedForwarded == Spec => []OnlyPermittedForwarded
  <1>1. EntitledInv => OnlyPermittedForwarded
    BY DEF EntitledInv, Entitled, OnlyPermittedForwarded, Forwarded
  <1> QED BY <1>1, BaseHolds, EntitledInit, EntitledNext, PTL DEF Spec

----------------------------------------------------------------------------
(* What a client is answered, and what is recorded *)

\* Nothing is written before the reply is there; then one status is, and it is
\* the one that is recorded.
Answered(c) ==
    LET k == conn[c] IN
    /\ \/ k.wrote = <<>> /\ k.recorded = 0
       \/ /\ k.wrote = <<>> \/ \E s : k.wrote = <<s>>
          /\ k.pc \in {"closeUpstream", "record", "closed"}
    /\ k.pc \in {"closeUpstream", "record"} => k.recorded = 0
    /\ k.pc \in {"closeUpstream", "record"} /\ k.client => k.wrote = <<k.status>>
    /\ k.recorded # 0 /\ k.client => k.wrote = <<k.recorded>>

AnsweredInv == "close" \notin scenario.faults => \A c \in Conns : Answered(c)

LEMMA AnsweredInit == Init => AnsweredInv
  <1> SUFFICES ASSUME Init, NEW c \in Conns PROVE Answered(c)
    BY DEF AnsweredInv
  <1>1. conn[c] = Free
    BY DEF Init
  <1>2. Free.pc = "free" /\ Free.wrote = <<>> /\ Free.recorded = 0
    BY DEF Free
  <1> QED BY <1>1, <1>2 DEF Answered

\* A step that writes nothing, from before the reply.
LEMMA Silent ==
    ASSUME Base, NEW c \in Conns, Answered(c), NEW fields, Set(c, fields),
           DOMAIN fields \cap {"wrote", "recorded", "client"} = {},
           conn[c].pc \notin {"closeUpstream", "record", "closed"},
           "pc" \in DOMAIN fields => fields.pc \notin {"closeUpstream", "record"}
    PROVE  Answered(c)'
  <1>1. /\ conn'[c].wrote = conn[c].wrote /\ conn'[c].recorded = conn[c].recorded
        /\ conn'[c].client = conn[c].client
        /\ conn'[c].pc = IF "pc" \in DOMAIN fields THEN fields.pc ELSE conn[c].pc
    BY SetEffect, FieldNames DEF Base
  <1>2. conn[c].wrote = <<>> /\ conn[c].recorded = 0
    BY DEF Answered
  <1> QED BY <1>1, <1>2 DEF Answered

\* What is appended to nothing is alone.
LEMMA AppendToEmpty == \A s : Append(<<>>, s) = <<s>>
  OBVIOUS

\* A status is written once, as it is kept.
LEMMA Written ==
    ASSUME Base, NEW c \in Conns, Answered(c),
           conn[c].pc \notin {"closeUpstream", "record", "closed"},
           NEW pc \in {"closeUpstream", "record"}, NEW s,
           Set(c, [pc |-> pc, status |-> s,
                   wrote |-> IF conn[c].client THEN Append(conn[c].wrote, s) ELSE conn[c].wrote])
    PROVE  Answered(c)'
  <1>1. conn[c].wrote = <<>> /\ conn[c].recorded = 0
    BY DEF Answered
  <1>2. IF conn[c].client THEN conn'[c].wrote = <<s>> ELSE conn'[c].wrote = <<>>
    BY <1>1, SetEffect, FieldNames, AppendToEmpty DEF Base
  <1>3. /\ conn'[c].recorded = conn[c].recorded /\ conn'[c].client = conn[c].client
        /\ conn'[c].pc = pc /\ conn'[c].status = s
    BY SetEffect, FieldNames DEF Base
  <1> QED BY <1>1, <1>2, <1>3 DEF Answered

\* A reply is the first answer of its connection.
LEMMA ReplyAnswers ==
    ASSUME Base, NEW c \in Conns, Answered(c), NEW s, Reply(c, s),
           conn[c].pc \notin {"closeUpstream", "record", "closed"}
    PROVE  Answered(c)'
  BY Written, Silent DEF Reply

\* So is the refusal when no candidate is left, and a further try answers nothing.
LEMMA CandidateAnswers ==
    ASSUME Base, NEW c \in Conns, Answered(c), NEW timeout, NextCandidate(c, timeout),
           conn[c].pc \notin {"closeUpstream", "record", "closed"}
    PROVE  Answered(c)'
  BY Silent DEF NextCandidate, Failing

LEMMA AnsweredStep ==
    ASSUME Base, NEW c \in Conns, Answered(c), Step(c), "close" \notin scenario.faults
    PROVE  Answered(c)'
  <1>1. CASE ReadHead(c)
    <2>1. conn[c].pc = "head"
      BY <1>1 DEF ReadHead
    <2>2. CASE \E s : Reply(c, s)
      BY <2>1, <2>2, ReplyAnswers
    <2>3. CASE Set(c, [pc |-> "closed"])
      BY <2>1, <2>3, Silent
    <2>4. CASE Set(c, [pc |-> "connect", candidates |-> <<ControlPlane>>])
      BY <2>1, <2>4, Silent
    <2>5. CASE Set(c, [pc |-> IF conn[c].token = "none" THEN "external" ELSE "source"])
      BY <2>1, <2>5, Silent
    <2> QED BY <1>1, <2>2, <2>3, <2>4, <2>5 DEF ReadHead
  <1>2. CASE ResolveSource(c)
    BY <1>2, Silent, ReplyAnswers DEF ResolveSource
  <1>3. CASE CheckInternal(c)
    BY <1>3, Silent, ReplyAnswers DEF CheckInternal
  <1>4. CASE CheckExternal(c)
    BY <1>4, Silent, ReplyAnswers DEF CheckExternal
  <1>5. CASE ReadEntry(c)
    BY <1>5, Silent, ReplyAnswers DEF ReadEntry
  <1>6. CASE PickReplica(c)
    BY <1>6, Silent DEF PickReplica
  <1>7. CASE Connect(c)
    <2>1. conn[c].pc = "connect"
      BY <1>7 DEF Connect
    <2>2. CASE \E timeout : NextCandidate(c, timeout)
      BY <2>1, <2>2, CandidateAnswers
    <2>3. CASE Set(c, [pc |-> IF Websocket(c) THEN "pipe" ELSE "reply", open |-> TRUE])
      BY <2>1, <2>3, Silent
    <2>4. CASE Set(c, [pc |-> "closed", open |-> TRUE])
      BY <2>1, <2>4, Silent
    <2> QED BY <1>7, <2>2, <2>3, <2>4 DEF Connect
  <1>8. CASE ReadReply(c)
    BY <1>8, Written, CandidateAnswers DEF ReadReply
  <1>9. CASE CloseUpstream(c)
    <2>1. conn[c].pc = "closeUpstream" /\ Set(c, [pc |-> "record", open |-> FALSE])
      BY <1>9 DEF CloseUpstream
    <2>2. /\ conn'[c].wrote = conn[c].wrote /\ conn'[c].recorded = conn[c].recorded
          /\ conn'[c].client = conn[c].client /\ conn'[c].status = conn[c].status
          /\ conn'[c].pc = "record"
      BY <2>1, SetEffect, FieldNames DEF Base
    <2> QED BY <2>1, <2>2 DEF Answered
  <1>10. CASE GiveUp(c)
    BY <1>10, ReplyAnswers DEF GiveUp
  <1>11. CASE EndPipe(c)
    BY <1>11, Silent DEF EndPipe
  <1>12. CASE Record(c)
    <2>1. conn[c].pc = "record" /\ Set(c, [pc |-> "closed", recorded |-> conn[c].status])
      BY <1>12 DEF Record
    <2>2. /\ conn'[c].wrote = conn[c].wrote /\ conn'[c].recorded = conn[c].status
          /\ conn'[c].client = conn[c].client /\ conn'[c].pc = "closed"
      BY <2>1, SetEffect, FieldNames DEF Base
    <2> QED BY <2>1, <2>2 DEF Answered
  <1> QED BY <1>1, <1>2, <1>3, <1>4, <1>5, <1>6, <1>7, <1>8, <1>9, <1>10, <1>11, <1>12
          DEF Step

LEMMA AnsweredNext == Base /\ AnsweredInv /\ [Next]_vars => AnsweredInv'
  <1> SUFFICES ASSUME Base, AnsweredInv, [Next]_vars, "close" \notin scenario'.faults,
                      NEW d \in Conns
               PROVE  Answered(d)'
    BY DEF AnsweredInv
  <1>0. scenario' = scenario
    BY StepSets DEF Next, ChangeUpstream, ChangeEntry, ChangePolicy, Change, ClientLeaves,
                    Accept, world, vars
  <1>1. "close" \notin scenario.faults /\ Answered(d)
    BY <1>0 DEF AnsweredInv
  <1>2. ASSUME conn'[d] = conn[d] PROVE Answered(d)'
    BY <1>1, <1>2 DEF Answered
  <1>3. ASSUME NEW p, NEW valid, ChangePolicy(p, valid) PROVE Answered(d)'
    <2>1. \E permits : conn'[d] = [conn[d] EXCEPT !.permits = permits]
      BY <1>3 DEF ChangePolicy, Permitted
    <2>2. DOMAIN conn[d] = Fields
      BY DEF Base, Records
    <2>3. /\ conn'[d].wrote = conn[d].wrote /\ conn'[d].recorded = conn[d].recorded
          /\ conn'[d].client = conn[d].client /\ conn'[d].status = conn[d].status
          /\ conn'[d].pc = conn[d].pc
      BY <2>1, <2>2, FieldNames
    <2> QED BY <1>1, <2>3 DEF Answered
  <1>4. ASSUME NEW c \in Conns, c # d, \E fields : Set(c, fields) PROVE Answered(d)'
    BY <1>2, <1>4, SetEffect DEF Base
  <1>5. ASSUME NEW c \in Conns, ClientLeaves(c) PROVE Answered(d)'
    <2>1. CASE c = d
      <3>1. /\ conn'[d].wrote = conn[d].wrote /\ conn'[d].recorded = conn[d].recorded
            /\ conn'[d].client = FALSE /\ conn'[d].pc = conn[d].pc
        BY <1>5, <2>1, SetEffect, FieldNames DEF ClientLeaves, Base
      <3> QED BY <1>1, <3>1 DEF Answered
    <2> QED BY <1>4, <1>5, <2>1 DEF ClientLeaves
  <1>6. ASSUME NEW c \in Conns, Step(c) PROVE Answered(d)'
    BY <1>1, <1>4, <1>6, AnsweredStep, StepSets
  <1>7. ASSUME NEW c \in scenario.conns, NEW k, NEW t, Accept(c, k, t) PROVE Answered(d)'
    <2>0. c \in Conns
      BY ScenarioType DEF Base, World
    <2>1. CASE c = d
      BY <1>1, <1>7, <2>1, Silent DEF Accept
    <2> QED BY <1>4, <1>7, <2>0, <2>1 DEF Accept
  <1> QED BY <1>2, <1>3, <1>5, <1>6, <1>7 DEF Next, ChangeUpstream, ChangeEntry, vars

\* AnsweredOnce: however often a request is sent again, its client is answered
\* at most once, and what is recorded is what it was answered.
THEOREM OneAnswer == Spec => []AnsweredOnce
  <1>1. ASSUME AnsweredInv PROVE AnsweredOnce
    <2> SUFFICES ASSUME "close" \notin scenario.faults, NEW c \in Conns
                 PROVE  /\ Len(conn[c].wrote) <= 1
                        /\ conn[c].recorded # 0 /\ conn[c].client =>
                              conn[c].wrote = <<conn[c].recorded>>
      BY DEF AnsweredOnce, RecordedAsAnswered
    <2>1. Answered(c)
      BY <1>1 DEF AnsweredInv
    <2>2. conn[c].wrote = <<>> \/ \E s : conn[c].wrote = <<s>>
      BY <2>1 DEF Answered
    <2>3. Len(conn[c].wrote) <= 1
      <3>1. CASE conn[c].wrote = <<>>
        BY <3>1
      <3>2. ASSUME NEW s, conn[c].wrote = <<s>> PROVE Len(conn[c].wrote) <= 1
        BY <3>2
      <3> QED BY <2>2, <3>1, <3>2
    <2>4. conn[c].recorded # 0 /\ conn[c].client => conn[c].wrote = <<conn[c].recorded>>
      BY <2>1 DEF Answered
    <2> QED BY <2>3, <2>4
  <1> QED BY <1>1, BaseHolds, AnsweredInit, AnsweredNext, PTL DEF Spec

----------------------------------------------------------------------------
(* With a steady replica in rotation, nobody is refused *)

\* Division with remainder.
LEMMA Residues ==
    /\ \A n \in Nat \ {0}, a \in Nat : a % n \in 0..n - 1
    /\ \A n \in Nat \ {0}, q \in Nat : \A r \in 0..n - 1 : (n * q + r) % n = r
  OBVIOUS

\* Division with remainder.
LEMMA Quotient ==
    ASSUME NEW n \in Nat \ {0}, NEW a \in Nat
    PROVE  \E q \in Nat : a = n * q + (a % n)
  <1>1. a = n * (a \div n) + (a % n)
    OBVIOUS
  <1>2. a \div n \in Nat
    OBVIOUS
  <1> QED BY <1>1, <1>2

Holds(s) == s \in Seq(Upstreams) /\ \E i \in 1..Len(s) : s[i] \in scenario.steady

\* Turning a list loses nothing of it, and brings the element after the
\* offset to its front.
LEMMA RotateElements ==
    ASSUME NEW S, NEW s \in Seq(S), NEW offset \in 0..Len(s) - 1
    PROVE  /\ Rotate(s, offset) \in Seq(S)
           /\ Len(Rotate(s, offset)) = Len(s)
           /\ \A i \in 1..Len(s) : Rotate(s, offset)[i] =
                 IF i <= Len(s) - offset THEN s[offset + i] ELSE s[i - (Len(s) - offset)]
  <1> DEFINE front == SubSeq(s, offset + 1, Len(s))
             rest == SubSeq(s, 1, offset)
  <1>0. Len(s) \in Nat /\ \A i \in 1..Len(s) : s[i] \in S
    BY ElementOfSeq, LenProperties
  <1>1. /\ front \in Seq(S) /\ Len(front) = Len(s) - offset
        /\ \A i \in 1..Len(s) - offset : front[i] = s[offset + i]
    BY <1>0, SubSeqProperties
  <1>2. /\ rest \in Seq(S) /\ Len(rest) = offset
        /\ \A i \in 1..offset : rest[i] = s[i]
    BY <1>0, SubSeqProperties
  <1> HIDE DEF front, rest
  <1>3. /\ front \o rest \in Seq(S) /\ Len(front \o rest) = Len(s)
        /\ \A i \in 1..Len(s) : (front \o rest)[i] =
              IF i <= Len(s) - offset THEN front[i] ELSE rest[i - (Len(s) - offset)]
    <2>1. /\ front \o rest \in Seq(S)
          /\ Len(front \o rest) = Len(front) + Len(rest)
          /\ \A i \in 1..Len(front) + Len(rest) : (front \o rest)[i] =
                IF i <= Len(front) THEN front[i] ELSE rest[i - Len(front)]
      BY <1>1, <1>2, ConcatProperties
    <2>2. Len(front) = Len(s) - offset /\ Len(front) + Len(rest) = Len(s)
      BY <1>0, <1>1, <1>2
    <2>3. /\ Len(front \o rest) = Len(s)
          /\ \A i \in 1..Len(s) : (front \o rest)[i] =
                IF i <= Len(front) THEN front[i] ELSE rest[i - Len(front)]
      BY <2>1, <2>2
    <2> QED BY <2>1, <2>2, <2>3
  <1>4. Rotate(s, offset) = front \o rest
    BY DEF Rotate, front, rest
  <1>5. ASSUME NEW i \in 1..Len(s)
        PROVE  (front \o rest)[i] =
                  IF i <= Len(s) - offset THEN s[offset + i] ELSE s[i - (Len(s) - offset)]
    <2>1. CASE i <= Len(s) - offset
      BY <1>0, <1>1, <1>3, <2>1
    <2>2. CASE ~(i <= Len(s) - offset)
      <3>1. i - (Len(s) - offset) \in 1..offset
        BY <1>0, <2>2
      <3> QED BY <1>2, <1>3, <2>2, <3>1
    <2> QED BY <2>1, <2>2
  <1> QED BY <1>3, <1>4, <1>5

\* A rotated sequence holds what it held.
LEMMA RotateHolds ==
    ASSUME NEW s, Holds(s), NEW offset \in 0..Len(s) - 1
    PROVE  Holds(Rotate(s, offset))
  <1>1. PICK i \in 1..Len(s) : s[i] \in scenario.steady
    BY DEF Holds
  <1>2. s \in Seq(Upstreams) /\ Len(s) \in Nat
    BY DEF Holds
  <1> DEFINE j == IF i > offset THEN i - offset ELSE i + (Len(s) - offset)
  <1>3. j \in 1..Len(s) /\ Rotate(s, offset)[j] = s[i]
    <2>1. j \in 1..Len(s)
      BY <1>2
    <2>2. Rotate(s, offset)[j] =
             IF j <= Len(s) - offset THEN s[offset + j] ELSE s[j - (Len(s) - offset)]
      <3> HIDE DEF j
      <3> QED BY <1>2, <2>1, RotateElements
    <2>3. CASE i > offset
      BY <1>2, <2>1, <2>2, <2>3
    <2>4. CASE ~(i > offset)
      <3>1. j = i + (Len(s) - offset) /\ j - (Len(s) - offset) = i /\ ~(j <= Len(s) - offset)
        BY <1>2, <2>4
      <3> QED BY <2>1, <2>2, <3>1
    <2> QED BY <2>3, <2>4
  <1>4. Rotate(s, offset) \in Seq(Upstreams) /\ Len(Rotate(s, offset)) = Len(s)
    BY <1>2, RotateElements
  <1> QED BY <1>1, <1>3, <1>4 DEF Holds

\* A candidate that failed was not the steady one, which is still to come.
LEMMA TailHolds ==
    ASSUME NEW s, Holds(s), Head(s) \notin scenario.steady
    PROVE  Tail(s) # <<>> /\ Holds(Tail(s))
  <1>1. PICK i \in 1..Len(s) : s[i] \in scenario.steady
    BY DEF Holds
  <1>2. s \in Seq(Upstreams) /\ s # <<>> /\ Len(s) \in Nat
    BY <1>1 DEF Holds
  <1>3. i # 1
    BY <1>1, <1>2
  <1>4. /\ Tail(s) \in Seq(Upstreams) /\ Len(Tail(s)) = Len(s) - 1
        /\ \A j \in 1..Len(s) - 1 : Tail(s)[j] = s[j + 1]
    BY <1>2, HeadTailProperties
  <1>5. i - 1 \in 1..Len(Tail(s)) /\ Tail(s)[i - 1] = s[i]
    BY <1>2, <1>3, <1>4
  <1>6. Tail(s) # <<>>
    BY <1>5
  <1> QED BY <1>1, <1>4, <1>5, <1>6 DEF Holds

\* The entry as a list names each replica in rotation once, and no other.
LEMMA EntryLists ==
    ASSUME World
    PROVE  /\ Cardinality(healthy) \in Nat
           /\ Entry \in [1..Cardinality(healthy) -> healthy]
           /\ Entry \in Seq(Upstreams) /\ Len(Entry) = Cardinality(healthy)
           /\ \A i, j \in 1..Len(Entry) : Entry[i] = Entry[j] => i = j
           /\ \A r \in healthy : \E i \in 1..Len(Entry) : Entry[i] = r
  <1> DEFINE n == Cardinality(healthy)
  <1>1. IsFiniteSet(healthy)
    BY ScenarioType, FS_Subset DEF World
  <1>2. n \in Nat /\ ExistsBijection(1..n, healthy)
    BY <1>1, FS_CardinalityType
  <1>3. \E f \in [1..n -> healthy] : IsInjective(f)
    BY <1>2 DEF ExistsBijection, Bijection, Injection
  <1>4. Entry \in [1..n -> healthy] /\ IsInjective(Entry)
    BY <1>3 DEF Entry, SetToSeq
  <1> HIDE DEF n
  <1>5. Entry \in Seq(Upstreams) /\ Len(Entry) = n
    BY <1>2, <1>4, IsASeq DEF World, Upstreams
  <1>6. \A i, j \in 1..n : Entry[i] = Entry[j] => i = j
    BY <1>4 DEF IsInjective
  <1>7. \A r \in healthy : \E i \in 1..n : Entry[i] = r
    <2>1. Entry \in Injection(1..n, healthy)
      BY <1>4 DEF Injection
    <2>2. Cardinality(1..n) = n
      BY <1>2, FS_Interval
    <2>3. Entry \in Surjection(1..n, healthy)
      BY <1>1, <2>1, <2>2, FS_Injection DEF n
    <2> QED BY <2>3 DEF Surjection
  <1> QED BY <1>2, <1>4, <1>5, <1>6, <1>7 DEF n

Refusals == {502, 503, 504}

\* A request of a client that stays has not been refused, and still has the
\* steady replica before it while it looks for one that answers.
Served(c) ==
    LET k == conn[c] IN
    /\ k.pc = "free" => k.status = 0
    /\ k.kind \in {"http", "websocket"} /\ k.client =>
          /\ k.status \notin Refusals /\ k.pc # "giveUp"
          /\ k.pc \in {"lock", "connect", "reply"} => Holds(k.candidates)

Steady == scenario.steady # {} /\ "close" \notin scenario.faults

ServedInv == Steady => \A c \in Conns : Served(c)

LEMMA ServedInit == Init => ServedInv
  <1> SUFFICES ASSUME Init, NEW c \in Conns PROVE Served(c)
    BY DEF ServedInv
  <1>1. conn[c] = Free
    BY DEF Init
  <1>2. Free.pc = "free" /\ Free.status = 0
    BY DEF Free
  <1> QED BY <1>1, <1>2 DEF Served, Refusals

\* A step that refuses nobody and leaves a steady candidate where one is needed.
LEMMA Serves ==
    ASSUME Base, NEW c \in Conns, Served(c), UNCHANGED world, NEW fields, Set(c, fields),
           DOMAIN fields \cap {"kind", "client"} = {},
           "pc" \in DOMAIN fields, fields.pc # "free",
           conn[c].kind \in {"http", "websocket"} /\ conn[c].client =>
              /\ "status" \in DOMAIN fields => fields.status \notin Refusals
              /\ fields.pc # "giveUp"
              /\ fields.pc \in {"lock", "connect", "reply"} =>
                    Holds(IF "candidates" \in DOMAIN fields THEN fields.candidates
                          ELSE conn[c].candidates)
    PROVE  Served(c)'
  <1>1. /\ conn'[c].kind = conn[c].kind /\ conn'[c].client = conn[c].client
        /\ conn'[c].pc = fields.pc
        /\ conn'[c].status = IF "status" \in DOMAIN fields THEN fields.status
                            ELSE conn[c].status
        /\ conn'[c].candidates = IF "candidates" \in DOMAIN fields THEN fields.candidates
                                ELSE conn[c].candidates
    BY SetEffect, FieldNames DEF Base
  <1>2. \A s : Holds(s) => Holds(s)'
    BY DEF Holds, Upstreams, world
  <1>3. conn'[c].kind \in {"http", "websocket"} /\ conn'[c].client =>
           conn'[c].status \notin Refusals
    BY <1>1 DEF Served
  <1>4. conn'[c].kind \in {"http", "websocket"} /\ conn'[c].client /\
           conn'[c].pc \in {"lock", "connect", "reply"} => Holds(conn'[c].candidates)
    BY <1>1
  <1>5. Holds(conn'[c].candidates) => Holds(conn[c].candidates)'
    BY <1>2
  <1> QED BY <1>1, <1>3, <1>4, <1>5 DEF Served

\* A reply that refuses no client that waits keeps what steady replicas owe.
LEMMA ReplyServes ==
    ASSUME Base, NEW c \in Conns, Served(c), UNCHANGED world, NEW s, Reply(c, s),
           s \notin Refusals \/ conn[c].kind \notin {"http", "websocket"} \/ ~conn[c].client
    PROVE  Served(c)'
  BY Serves DEF Reply

\* So does trying the next candidate after one that is not steady.
LEMMA CandidateServes ==
    ASSUME Base, NEW c \in Conns, Served(c), UNCHANGED world,
           NEW timeout, NextCandidate(c, timeout), conn[c].pc \in {"connect", "reply"},
           Head(conn[c].candidates) \notin scenario.steady \/ ~conn[c].client
    PROVE  Served(c)'
  <1> DEFINE rest == Tail(conn[c].candidates)
             fields == [pc |-> IF rest = <<>> THEN "giveUp" ELSE "connect", candidates |-> rest,
                        timeout |-> conn[c].timeout \/ timeout, open |-> FALSE, status |-> 0]
  <1>1. Set(c, fields)
    BY DEF NextCandidate, Failing
  <1>2. conn[c].kind \in {"http", "websocket"} /\ conn[c].client => rest # <<>> /\ Holds(rest)
    BY TailHolds DEF Served
  <1> HIDE DEF rest
  <1> QED BY <1>1, <1>2, Serves DEF Refusals

LEMMA ServedStep ==
    ASSUME Base, NEW c \in Conns, Served(c), Step(c), Steady
    PROVE  Served(c)'
  <1>0. UNCHANGED world
    BY StepSets
  <1> DEFINE Ours == conn[c].kind \in {"http", "websocket"} /\ conn[c].client
  <1>1. CASE ReadHead(c)
    <2>1. conn[c].pc = "head"
      BY <1>1 DEF ReadHead
    <2>2. CASE ~Ours /\ \E s : Reply(c, s)
      BY <1>0, <2>2, ReplyServes
    <2>3. CASE Set(c, [pc |-> "closed"])
      BY <1>0, <2>3, Serves
    <2>4. CASE conn[c].kind = "storage"
               /\ Set(c, [pc |-> "connect", candidates |-> <<ControlPlane>>])
      BY <1>0, <2>4, Serves
    <2>5. CASE Set(c, [pc |-> IF conn[c].token = "none" THEN "external" ELSE "source"])
      BY <1>0, <2>5, Serves
    <2> QED BY <1>1, <2>2, <2>3, <2>4, <2>5 DEF ReadHead
  <1>2. CASE ResolveSource(c)
    BY <1>0, <1>2, Serves, ReplyServes DEF ResolveSource, Refusals
  <1>3. CASE CheckInternal(c)
    BY <1>0, <1>3, Serves, ReplyServes DEF CheckInternal, Refusals
  <1>4. CASE CheckExternal(c)
    BY <1>0, <1>4, Serves, ReplyServes DEF CheckExternal, Refusals
  <1>5. CASE ReadEntry(c)
    <2>1. healthy # {} /\ \E r \in healthy : r \in scenario.steady
      BY DEF Steady, Base, World
    <2>2. Holds(Entry)
      BY <2>1, EntryLists DEF Holds, Base
    <2>3. Set(c, [pc |-> "lock", seen |-> version, candidates |-> Entry])
      BY <1>5, <2>1 DEF ReadEntry
    <2> QED BY <1>0, <2>2, <2>3, Serves
  <1>6. CASE PickReplica(c)
    <2> DEFINE offset == counter % Len(conn[c].candidates)
               order == Rotate(conn[c].candidates, offset)
    <2>1. conn[c].pc = "lock" /\ Set(c, [pc |-> "connect", candidates |-> order])
      BY <1>6 DEF PickReplica
    <2>2. ASSUME Ours PROVE Holds(order)
      <3>1. Holds(conn[c].candidates)
        BY <2>1, <2>2 DEF Served
      <3>2. Len(conn[c].candidates) \in Nat \ {0}
        BY <3>1 DEF Holds
      <3>3. offset \in 0..Len(conn[c].candidates) - 1
        BY <3>2, Residues DEF Base
      <3> HIDE DEF offset
      <3> QED BY <3>1, <3>3, RotateHolds
    <2> HIDE DEF order
    <2> QED BY <1>0, <2>1, <2>2, Serves
  <1>7. CASE Connect(c)
    <2> DEFINE u == Head(conn[c].candidates)
    <2>1. conn[c].pc = "connect"
      BY <1>7 DEF Connect
    <2>2. CASE upstream[u] = "down"
      <3>1. u \notin scenario.steady
        BY <2>2 DEF Base, World
      <3> QED BY <1>0, <1>7, <2>1, <2>2, <3>1, CandidateServes DEF Connect
    <2>3. CASE Set(c, [pc |-> IF Websocket(c) THEN "pipe" ELSE "reply", open |-> TRUE])
      <3>1. Ours => Holds(conn[c].candidates)
        BY <2>1 DEF Served
      <3> QED BY <1>0, <2>3, <3>1, Serves
    <2>4. CASE Set(c, [pc |-> "closed", open |-> TRUE])
      BY <1>0, <2>4, Serves
    <2> QED BY <1>7, <2>2, <2>3, <2>4 DEF Connect
  <1>8. CASE ReadReply(c)
    <2> DEFINE u == Head(conn[c].candidates)
    <2>1. conn[c].pc = "reply"
      BY <1>8 DEF ReadReply
    <2>2. CASE \E wrote : Set(c, [pc |-> "closeUpstream", status |-> 200, wrote |-> wrote])
      BY <1>0, <2>2, Serves DEF Refusals
    <2>3. CASE ~conn[c].client /\ NextCandidate(c, FALSE)
      BY <1>0, <2>1, <2>3, CandidateServes
    <2>4. CASE upstream[u] # "up" /\ NextCandidate(c, upstream[u] = "hangs")
      <3>1. u \notin scenario.steady
        BY <2>4 DEF Base, World
      <3> QED BY <1>0, <2>1, <2>4, <3>1, CandidateServes
    <2> QED BY <1>8, <2>2, <2>3, <2>4 DEF ReadReply
  <1>9. CASE CloseUpstream(c)
    BY <1>0, <1>9, Serves DEF CloseUpstream, Steady
  <1>10. CASE GiveUp(c)
    <2>1. ~Ours
      BY <1>10 DEF GiveUp, Served
    <2> QED BY <1>0, <1>10, <2>1, ReplyServes DEF GiveUp
  <1>11. CASE EndPipe(c)
    BY <1>0, <1>11, Serves DEF EndPipe
  <1>12. CASE Record(c)
    BY <1>0, <1>12, Serves DEF Record
  <1> QED BY <1>1, <1>2, <1>3, <1>4, <1>5, <1>6, <1>7, <1>8, <1>9, <1>10, <1>11, <1>12
          DEF Step

LEMMA ServedNext == Base /\ ServedInv /\ [Next]_vars => ServedInv'
  <1> SUFFICES ASSUME Base, ServedInv, [Next]_vars, Steady', NEW d \in Conns
               PROVE  Served(d)'
    BY DEF ServedInv
  <1>0. scenario' = scenario
    BY StepSets DEF Next, ChangeUpstream, ChangeEntry, ChangePolicy, Change, ClientLeaves,
                    Accept, world, vars
  <1>1. Steady /\ Served(d)
    BY <1>0 DEF ServedInv, Steady
  <1>2. \A s : Holds(s) => Holds(s)'
    BY <1>0 DEF Holds, Upstreams
  <1>3. ASSUME /\ conn'[d].pc = conn[d].pc /\ conn'[d].kind = conn[d].kind
               /\ conn'[d].status = conn[d].status
               /\ conn'[d].candidates = conn[d].candidates,
               conn'[d].client => conn[d].client
        PROVE  Served(d)'
    <2>1. Holds(conn[d].candidates) => Holds(conn[d].candidates)'
      BY <1>2, <1>3
    <2> QED BY <1>1, <1>3, <2>1 DEF Served
  <1>4. ASSUME NEW p, NEW valid, ChangePolicy(p, valid) PROVE Served(d)'
    <2>1. \E permits : conn'[d] = [conn[d] EXCEPT !.permits = permits]
      BY <1>4 DEF ChangePolicy, Permitted
    <2>2. DOMAIN conn[d] = Fields
      BY DEF Base, Records
    <2> QED BY <1>3, <2>1, <2>2, FieldNames
  <1>5. ASSUME NEW c \in Conns, c # d, \E fields : Set(c, fields) PROVE Served(d)'
    BY <1>3, <1>5, SetEffect DEF Base
  <1>6. ASSUME NEW c \in Conns, ClientLeaves(c) PROVE Served(d)'
    <2>1. CASE c = d
      <3>1. conn[d].client
        BY <1>6, <2>1 DEF ClientLeaves
      <3> QED BY <1>3, <1>6, <2>1, <3>1, SetEffect, FieldNames DEF ClientLeaves, Base
    <2> QED BY <1>5, <1>6, <2>1 DEF ClientLeaves
  <1>7. ASSUME NEW c \in Conns, Step(c) PROVE Served(d)'
    BY <1>1, <1>5, <1>7, ServedStep, StepSets
  <1>8. ASSUME NEW c \in scenario.conns, NEW k, NEW t, Accept(c, k, t) PROVE Served(d)'
    <2>0. c \in Conns
      BY ScenarioType DEF Base, World
    <2>1. CASE c = d
      <3>1. conn'[d].pc = "head" /\ conn'[d].status = conn[d].status /\ conn[d].pc = "free"
        BY <1>8, <2>0, <2>1, SetEffect, FieldNames DEF Accept, Base
      <3> QED BY <1>1, <3>1 DEF Served, Refusals
    <2> QED BY <1>5, <1>8, <2>0, <2>1 DEF Accept
  <1> QED BY <1>3, <1>4, <1>6, <1>7, <1>8 DEF Next, ChangeUpstream, ChangeEntry, vars

\* SteadyServes: while one replica of the entry works, the loop over the
\* candidates reaches it before it runs out, however many others fail and
\* whatever joins or leaves the rotation.
THEOREM SteadyAnswers == Spec => []SteadyServes
  <1>1. ServedInv => SteadyServes
    BY DEF ServedInv, Served, Steady, SteadyServes, Refusals
  <1> QED BY <1>1, BaseHolds, ServedInit, ServedNext, PTL DEF Spec

----------------------------------------------------------------------------
(* Round robin *)

\* One more turns a remainder on by one, or back to 0.
LEMMA NextResidue ==
    ASSUME NEW n \in Nat \ {0}, NEW a \in Nat
    PROVE  (a + 1) % n = IF a % n = n - 1 THEN 0 ELSE (a % n) + 1
  <1>1. PICK q \in Nat : a = n * q + (a % n)
    BY Quotient
  <1>2. a % n \in 0..n - 1
    BY Residues
  <1>3. CASE a % n = n - 1
    <2>1. a + 1 = n * (q + 1) + 0
      BY <1>1, <1>3
    <2>2. (n * (q + 1) + 0) % n = 0
      BY Residues
    <2> QED BY <1>3, <2>1, <2>2
  <1>4. CASE a % n # n - 1
    <2>1. a + 1 = n * q + ((a % n) + 1)
      BY <1>1, <1>2
    <2>2. (a % n) + 1 \in 0..n - 1
      BY <1>2, <1>4
    <2>3. (n * q + ((a % n) + 1)) % n = (a % n) + 1
      BY <2>2, Residues
    <2> QED BY <1>4, <2>1, <2>3
  <1> QED BY <1>3, <1>4

\* Numbers less than n apart have different remainders.
LEMMA DistinctResidues ==
    ASSUME NEW n \in Nat \ {0}, NEW a \in Nat, NEW d \in 1..n - 1
    PROVE  a % n # (a + d) % n
  <1> SUFFICES ASSUME a % n = (a + d) % n PROVE FALSE
    OBVIOUS
  <1>1. PICK p \in Nat : a = n * p + (a % n)
    BY Quotient
  <1>0. a + d \in Nat
    OBVIOUS
  <1>2. PICK q \in Nat : a + d = n * q + ((a + d) % n)
    BY <1>0, Quotient
  <1>3. a % n \in Nat
    BY Residues
  <1>4. n * p + d = n * q
    BY <1>1, <1>2, <1>3
  <1>5. CASE q <= p
    <2>1. n * q <= n * p
      BY <1>5
    <2> QED BY <1>4, <2>1
  <1>6. CASE q >= p + 1
    <2>1. n * q >= n * (p + 1)
      BY <1>6
    <2>2. n * (p + 1) = n * p + n
      OBVIOUS
    <2> QED BY <1>4, <2>1, <2>2
  <1> QED BY <1>5, <1>6

\* A counter that returns to 0 at a multiple of n has the remainders it would
\* have if it did not.
LEMMA CycleResidue ==
    ASSUME NEW n \in Nat \ {0}, NEW cycle \in Nat \ {0}, cycle % n = 0, NEW a \in Nat
    PROVE  (a % cycle) % n = a % n
  <1>1. PICK p \in Nat : cycle = n * p + 0
    BY Quotient
  <1>2. PICK q \in Nat : a = cycle * q + (a % cycle)
    BY Quotient
  <1>3. a % cycle \in Nat
    BY Residues
  <1>4. PICK s \in Nat : a % cycle = n * s + ((a % cycle) % n)
    BY <1>3, Quotient
  <1>5. (a % cycle) % n \in 0..n - 1
    BY <1>3, Residues
  <1>6. p * q + s \in Nat /\ cycle * q = n * (p * q)
    BY <1>1
  <1>7. n * (p * q + s) = n * (p * q) + n * s
    OBVIOUS
  <1>8. a = n * (p * q + s) + ((a % cycle) % n)
    <2> DEFINE A == cycle * q
               B == n * s
               r == (a % cycle) % n
               C == n * (p * q + s)
    <2>1. A \in Nat /\ B \in Nat /\ r \in Nat
      BY <1>5
    <2>2. a = A + (B + r) /\ C = A + B
      BY <1>2, <1>4, <1>6, <1>7
    <2> HIDE DEF A, B, C, r
    <2>3. a = C + r
      BY <2>1, <2>2
    <2> QED BY <2>3 DEF C, r
  <1>9. (n * (p * q + s) + ((a % cycle) % n)) % n = (a % cycle) % n
    BY <1>5, <1>6, Residues
  <1> QED BY <1>8, <1>9

Rotation == Cardinality(healthy)

\* Since the entry last changed, every pick has taken the next turn after the
\* one before it, and the counter stands at the turn that comes next.
Turns(base) ==
    /\ healthy # {} => (base + Len(picks)) % Rotation = counter % Rotation
    /\ \A j \in 1..Len(picks) : /\ healthy # {}
                                /\ picks[j] = Entry[1 + ((base + j - 1) % Rotation)]

\* A request that waits for the counter and has seen the entry as it is holds
\* the whole of it.
Waiting(c) ==
    /\ conn[c].seen \in Nat /\ conn[c].seen <= version
    /\ conn[c].pc = "lock" /\ conn[c].seen = version =>
          healthy # {} /\ conn[c].candidates = Entry

SpreadInv ==
    /\ \A c \in Conns : Waiting(c)
    /\ picks \in Seq(Replicas) /\ \E base \in Nat : Turns(base)

\* Nothing picked is evenly spread.
LEMMA NoPicks == counter \in Nat /\ picks = <<>> => picks \in Seq(Replicas) /\ Turns(counter)
  BY DEF Turns

LEMMA SpreadInit == Init => SpreadInv
  <1> SUFFICES ASSUME Init PROVE SpreadInv
    OBVIOUS
  <1>1. ASSUME NEW c \in Conns PROVE Waiting(c)
    <2>1. conn[c] = Free /\ version = 0
      BY DEF Init
    <2>2. Free.pc = "free" /\ Free.seen = 0
      BY DEF Free
    <2> QED BY <2>1, <2>2 DEF Waiting
  <1>2. counter \in Nat /\ picks = <<>>
    BY DEF Init
  <1> QED BY <1>1, <1>2, NoPicks DEF SpreadInv

\* A step that does not look at the entry.
LEMMA Elsewhere ==
    ASSUME Base, NEW c \in Conns, Waiting(c), UNCHANGED <<healthy, version>>,
           NEW fields, Set(c, fields), "seen" \notin DOMAIN fields,
           "pc" \in DOMAIN fields => fields.pc # "lock",
           "candidates" \in DOMAIN fields => "pc" \in DOMAIN fields
    PROVE  Waiting(c)'
  <1>1. /\ conn'[c].seen = conn[c].seen
        /\ conn'[c].pc = IF "pc" \in DOMAIN fields THEN fields.pc ELSE conn[c].pc
        /\ conn'[c].candidates = IF "candidates" \in DOMAIN fields THEN fields.candidates
                                ELSE conn[c].candidates
    BY SetEffect, FieldNames DEF Base
  <1>2. Entry' = Entry
    BY DEF Entry
  <1> QED BY <1>1, <1>2 DEF Waiting

\* A reply picks no replica.
LEMMA ReplyElsewhere ==
    ASSUME Base, NEW c \in Conns, Waiting(c), UNCHANGED <<healthy, version>>,
           NEW s, Reply(c, s)
    PROVE  Waiting(c)'
  BY Elsewhere DEF Reply

\* Nor does trying the next candidate.
LEMMA CandidateElsewhere ==
    ASSUME Base, NEW c \in Conns, Waiting(c), UNCHANGED <<healthy, version>>,
           NEW timeout, NextCandidate(c, timeout)
    PROVE  Waiting(c)'
  BY Elsewhere DEF NextCandidate, Failing

LEMMA WaitingStep ==
    ASSUME Base, NEW c \in Conns, Waiting(c), Step(c)
    PROVE  Waiting(c)'
  <1>0. UNCHANGED <<healthy, version>>
    BY StepSets DEF world
  <1>1. CASE ReadHead(c)
    <2>1. CASE \E s : Reply(c, s)
      BY <1>0, <2>1, ReplyElsewhere
    <2>2. CASE Set(c, [pc |-> "closed"])
      BY <1>0, <2>2, Elsewhere
    <2>3. CASE Set(c, [pc |-> "connect", candidates |-> <<ControlPlane>>])
      BY <1>0, <2>3, Elsewhere
    <2>4. CASE Set(c, [pc |-> IF conn[c].token = "none" THEN "external" ELSE "source"])
      BY <1>0, <2>4, Elsewhere
    <2> QED BY <1>1, <2>1, <2>2, <2>3, <2>4 DEF ReadHead
  <1>2. CASE ResolveSource(c)
    BY <1>0, <1>2, Elsewhere, ReplyElsewhere DEF ResolveSource
  <1>3. CASE CheckInternal(c)
    BY <1>0, <1>3, Elsewhere, ReplyElsewhere DEF CheckInternal
  <1>4. CASE CheckExternal(c)
    BY <1>0, <1>4, Elsewhere, ReplyElsewhere DEF CheckExternal
  <1>5. CASE ReadEntry(c)
    <2>1. CASE healthy = {}
      BY <1>0, <1>5, <2>1, ReplyElsewhere DEF ReadEntry
    <2>2. CASE healthy # {}
      <3>1. Set(c, [pc |-> "lock", seen |-> version, candidates |-> Entry])
        BY <1>5, <2>2 DEF ReadEntry
      <3>2. conn'[c].seen = version /\ conn'[c].candidates = Entry
        BY <3>1, SetEffect, FieldNames DEF Base
      <3>3. Entry' = Entry
        BY <1>0 DEF Entry
      <3>4. version \in Nat /\ version <= version
        BY DEF Base, World
      <3> QED BY <1>0, <2>2, <3>2, <3>3, <3>4 DEF Waiting
    <2> QED BY <2>1, <2>2
  <1>6. CASE PickReplica(c)
    BY <1>0, <1>6, Elsewhere DEF PickReplica
  <1>7. CASE Connect(c)
    <2>1. CASE \E timeout : NextCandidate(c, timeout)
      BY <1>0, <2>1, CandidateElsewhere
    <2>2. CASE Set(c, [pc |-> IF Websocket(c) THEN "pipe" ELSE "reply", open |-> TRUE])
      BY <1>0, <2>2, Elsewhere
    <2>3. CASE Set(c, [pc |-> "closed", open |-> TRUE])
      BY <1>0, <2>3, Elsewhere
    <2> QED BY <1>7, <2>1, <2>2, <2>3 DEF Connect
  <1>8. CASE ReadReply(c)
    <2>1. CASE \E timeout : NextCandidate(c, timeout)
      BY <1>0, <2>1, CandidateElsewhere
    <2>2. CASE \E wrote : Set(c, [pc |-> "closeUpstream", status |-> 200, wrote |-> wrote])
      BY <1>0, <2>2, Elsewhere
    <2> QED BY <1>8, <2>1, <2>2 DEF ReadReply
  <1>9. CASE CloseUpstream(c)
    BY <1>0, <1>9, Elsewhere, CandidateElsewhere DEF CloseUpstream
  <1>10. CASE GiveUp(c)
    BY <1>0, <1>10, ReplyElsewhere DEF GiveUp
  <1>11. CASE EndPipe(c)
    BY <1>0, <1>11, Elsewhere DEF EndPipe
  <1>12. CASE Record(c)
    BY <1>0, <1>12, Elsewhere DEF Record
  <1> QED BY <1>1, <1>2, <1>3, <1>4, <1>5, <1>6, <1>7, <1>8, <1>9, <1>10, <1>11, <1>12
          DEF Step

\* The number of replicas in rotation divides the cycle of the counter.
LEMMA RotationDivides ==
    ASSUME World, healthy # {}
    PROVE  /\ Rotation \in Nat \ {0}
           /\ scenario.counterCycle % Rotation = 0
  <1>1. /\ IsFiniteSet(scenario.replicas) /\ healthy \subseteq scenario.replicas
        /\ scenario \in Scenarios
    BY ScenarioType DEF World
  <1>2. /\ Rotation \in Nat /\ Cardinality(scenario.replicas) \in Nat
        /\ Rotation <= Cardinality(scenario.replicas) /\ IsFiniteSet(healthy)
    BY <1>1, FS_Subset, FS_CardinalityType DEF Rotation
  <1>3. Rotation # 0
    BY <1>2, FS_EmptySet DEF Rotation
  <1>4. Rotation \in 1..Cardinality(scenario.replicas)
    BY <1>2, <1>3
  <1> QED BY <1>1, <1>3, <1>4, ProxyAssumption DEF ProxyAssumption

\* A pick takes the turn the counter stands at, and moves the counter on.
LEMMA PickTurns ==
    ASSUME Base, SpreadInv, NEW c \in Conns, PickReplica(c)
    PROVE  picks' \in Seq(Replicas) /\ \E base \in Nat : Turns(base)'
  <1> DEFINE n == Rotation
             order == Rotate(conn[c].candidates, counter % Len(conn[c].candidates))
  <1>0. /\ conn[c].pc = "lock" /\ UNCHANGED <<healthy, scenario>>
        /\ counter' = (counter + 1) % scenario.counterCycle
        /\ picks' = IF conn[c].seen = version THEN Append(picks, Head(order)) ELSE <<>>
    BY DEF PickReplica, world
  <1>1. counter \in Nat /\ World /\ scenario.counterCycle \in Nat \ {0}
    BY ScenarioType DEF Base, World
  <1>2. counter' \in Nat
    <2>1. (counter + 1) % scenario.counterCycle \in Nat
      BY <1>1
    <2> QED BY <1>0, <2>1
  <1>3. CASE conn[c].seen # version
    <2>1. picks' = <<>>
      BY <1>0, <1>3
    <2>2. Turns(counter)'
      BY <1>2, <2>1 DEF Turns
    <2> QED BY <1>2, <2>1, <2>2
  <1>4. CASE conn[c].seen = version
    <2>1. healthy # {} /\ conn[c].candidates = Entry
      BY <1>0, <1>4 DEF SpreadInv, Waiting
    <2>2. n \in Nat \ {0} /\ scenario.counterCycle % n = 0
      BY <1>1, <2>1, RotationDivides
    <2>3. /\ Entry \in [1..n -> healthy] /\ Entry \in Seq(healthy) /\ Len(Entry) = n
          /\ healthy \subseteq Replicas
      BY <1>1, <2>2, EntryLists, IsASeq, ScenarioType DEF Rotation, World
    <2> HIDE DEF n
    <2>4. counter % n \in 0..n - 1
      BY <1>1, <2>2, Residues
    <2>5. Head(order) = Entry[1 + (counter % n)] /\ Head(order) \in Replicas
      <3>1. order = Rotate(Entry, counter % n)
        BY <2>1, <2>3
      <3>2. order \in Seq(healthy) /\ Len(order) = n
        BY <2>3, <2>4, <3>1, RotateElements
      <3>3. order[1] = Entry[(counter % n) + 1]
        <4>1. 1 \in 1..Len(Entry) /\ 1 <= Len(Entry) - (counter % n)
          BY <2>2, <2>3, <2>4
        <4> QED BY <2>3, <2>4, <3>1, <4>1, RotateElements
      <3>4. Head(order) = order[1] /\ order[1] \in healthy
        BY <2>2, <3>2
      <3> QED BY <2>2, <2>3, <2>4, <3>3, <3>4
    <2>6. PICK base \in Nat : Turns(base)
      BY DEF SpreadInv
    <2>7. picks \in Seq(Replicas) /\ Len(picks) \in Nat
      BY DEF SpreadInv
    <2> HIDE DEF order
    <2>8. /\ picks' \in Seq(Replicas) /\ Len(picks') = Len(picks) + 1
          /\ picks'[Len(picks) + 1] = Head(order)
          /\ \A j \in 1..Len(picks) : picks'[j] = picks[j]
      BY <1>0, <1>4, <2>5, <2>7, AppendProperties
    <2>9. (base + Len(picks)) % n = counter % n
      BY <2>1, <2>6 DEF Turns, n
    <2>10. (base + Len(picks')) % n = counter' % n
      <3>1. counter' % n = (counter + 1) % n
        <4>1. counter + 1 \in Nat
          BY <1>1
        <4> QED BY <1>0, <1>1, <2>2, <4>1, CycleResidue
      <3>2. base + Len(picks) \in Nat /\ base + Len(picks') = (base + Len(picks)) + 1
        BY <2>7, <2>8
      <3>3. (counter + 1) % n = IF counter % n = n - 1 THEN 0 ELSE (counter % n) + 1
        BY <1>1, <2>2, NextResidue
      <3> DEFINE turn == base + Len(picks)
      <3>4. (turn + 1) % n = IF turn % n = n - 1 THEN 0 ELSE (turn % n) + 1
        <4> HIDE DEF turn
        <4> QED BY <2>2, <3>2, NextResidue DEF turn
      <3> QED BY <2>9, <3>1, <3>2, <3>3, <3>4
    <2>11. ASSUME NEW j \in 1..Len(picks')
           PROVE  picks'[j] = Entry[1 + ((base + j - 1) % n)]
      <3>1. CASE j = Len(picks) + 1
        <4>1. base + j - 1 = base + Len(picks)
          BY <2>7, <3>1
        <4> QED BY <2>5, <2>8, <2>9, <3>1, <4>1
      <3>2. CASE j # Len(picks) + 1
        <4>1. j \in 1..Len(picks)
          BY <2>7, <2>8, <3>2
        <4> QED BY <2>6, <2>8, <4>1 DEF Turns, n
      <3> QED BY <3>1, <3>2
    <2>12. Rotation' = n /\ Entry' = Entry
      BY <1>0 DEF Rotation, Entry, n
    <2>13. Turns(base)'
      BY <1>0, <2>1, <2>10, <2>11, <2>12 DEF Turns
    <2> QED BY <2>8, <2>13
  <1> QED BY <1>3, <1>4

LEMMA SpreadNext == Base /\ SpreadInv /\ [Next]_vars => SpreadInv'
  <1> SUFFICES ASSUME Base, SpreadInv, [Next]_vars PROVE SpreadInv'
    OBVIOUS
  <1>0. \A d \in Conns : Waiting(d)
    BY DEF SpreadInv
  <1> DEFINE Turning == picks \in Seq(Replicas) /\ \E base \in Nat : Turns(base)
  <1>1. ASSUME UNCHANGED <<healthy, counter, picks>> PROVE Turning'
    BY <1>1 DEF SpreadInv, Turns, Rotation, Entry
  <1>2. ASSUME UNCHANGED <<healthy, version>>, NEW d \in Conns, conn'[d] = conn[d]
        PROVE  Waiting(d)'
    BY <1>0, <1>2 DEF Waiting, Entry
  <1>3. ASSUME NEW u, NEW s, ChangeUpstream(u, s) PROVE SpreadInv'
    BY <1>1, <1>2, <1>3 DEF ChangeUpstream, SpreadInv
  <1>4. ASSUME NEW s, ChangeEntry(s) PROVE SpreadInv'
    <2>1. /\ picks' = <<>> /\ version' = version + 1 /\ UNCHANGED <<counter, conn>>
          /\ version \in Nat /\ counter \in Nat
      BY <1>4 DEF ChangeEntry, Base, World
    <2>2. ASSUME NEW d \in Conns PROVE Waiting(d)'
      BY <1>0, <2>1 DEF Waiting
    <2>3. Turns(counter)' /\ picks' \in Seq(Replicas)
      BY <2>1 DEF Turns
    <2> QED BY <2>1, <2>2, <2>3 DEF SpreadInv
  <1>5. ASSUME NEW p, NEW valid, ChangePolicy(p, valid) PROVE SpreadInv'
    <2>1. UNCHANGED <<healthy, version, counter, picks>>
      BY <1>5 DEF ChangePolicy
    <2>2. ASSUME NEW d \in Conns PROVE Waiting(d)'
      <3>1. \E permits : conn'[d] = [conn[d] EXCEPT !.permits = permits]
        BY <1>5 DEF ChangePolicy, Permitted
      <3>2. DOMAIN conn[d] = Fields
        BY DEF Base, Records
      <3>3. /\ conn'[d].seen = conn[d].seen /\ conn'[d].pc = conn[d].pc
            /\ conn'[d].candidates = conn[d].candidates
        BY <3>1, <3>2, FieldNames
      <3> QED BY <1>0, <2>1, <3>3 DEF Waiting, Entry
    <2> QED BY <1>1, <2>1, <2>2 DEF SpreadInv
  <1>6. ASSUME NEW c \in Conns, NEW fields, Set(c, fields), Waiting(c)',
               UNCHANGED <<healthy, version>>
        PROVE  \A d \in Conns : Waiting(d)'
    <2>1. ASSUME NEW d \in Conns, d # c PROVE Waiting(d)'
      <3>1. conn'[d] = conn[d]
        BY <1>6, <2>1, SetEffect DEF Base
      <3> QED BY <1>2, <1>6, <3>1
    <2> QED BY <1>6, <2>1
  <1>7. ASSUME NEW c \in Conns, ClientLeaves(c) PROVE SpreadInv'
    <2>1. UNCHANGED <<healthy, version, counter, picks>> /\ Set(c, [client |-> FALSE])
      BY <1>7 DEF ClientLeaves, world
    <2>2. Waiting(c)'
      BY <1>0, <2>1, Elsewhere
    <2> QED BY <1>1, <1>6, <2>1, <2>2 DEF SpreadInv
  <1>8. ASSUME NEW c \in Conns, Step(c) PROVE SpreadInv'
    <2>1. UNCHANGED <<healthy, version>>
      BY <1>8, StepSets DEF world
    <2>2. Waiting(c)'
      BY <1>0, <1>8, WaitingStep
    <2>3. PickReplica(c) \/ UNCHANGED <<counter, picks>>
      BY <1>8 DEF Step, ReadHead, ResolveSource, CheckInternal, CheckExternal, ReadEntry,
                  Connect, ReadReply, CloseUpstream, GiveUp, EndPipe, Record
    <2>4. Turning'
      BY <1>1, <2>1, <2>3, PickTurns
    <2> QED BY <1>6, <1>8, <2>1, <2>2, <2>4, StepSets DEF SpreadInv
  <1>9. ASSUME NEW c \in scenario.conns, NEW k, NEW t, Accept(c, k, t) PROVE SpreadInv'
    <2>0. c \in Conns
      BY ScenarioType DEF Base, World
    <2>1. UNCHANGED <<healthy, version, counter, picks>>
      BY <1>9 DEF Accept, world
    <2>2. Waiting(c)'
      BY <1>0, <1>9, <2>0, <2>1, Elsewhere DEF Accept
    <2> QED BY <1>1, <1>6, <1>9, <2>0, <2>1, <2>2 DEF SpreadInv, Accept
  <1>10. CASE UNCHANGED vars
    BY <1>1, <1>2, <1>10 DEF vars, world, SpreadInv
  <1> QED BY <1>3, <1>4, <1>5, <1>7, <1>8, <1>9, <1>10 DEF Next

\* EvenSpread: however the requests that take the counter overlap, as many
\* consecutive picks as there are replicas in rotation start at each of them
\* once.
THEOREM RoundRobin == Spec => []EvenSpread
  <1>1. ASSUME World, SpreadInv PROVE EvenSpread
    <2> DEFINE n == Rotation
    <2> SUFFICES ASSUME NEW i \in 1..Len(picks), i + n - 1 <= Len(picks)
                 PROVE  Cardinality({picks[j] : j \in i..i + n - 1}) = n
      BY DEF EvenSpread, Rotation
    <2>0. PICK base \in Nat : Turns(base)
      BY <1>1 DEF SpreadInv
    <2>1. healthy # {} /\ Len(picks) \in Nat
      BY <1>1, <2>0 DEF SpreadInv, Turns
    <2>2. n \in Nat \ {0}
      BY <1>1, <2>1, RotationDivides
    <2>3. /\ Len(Entry) = n
          /\ \A k, l \in 1..n : Entry[k] = Entry[l] => k = l
      BY <1>1, EntryLists DEF Rotation
    <2>4. \A j \in 1..Len(picks) : picks[j] = Entry[1 + ((base + j - 1) % n)]
      BY <2>0 DEF Turns
    <2> HIDE DEF n
    <2> DEFINE S == {picks[j] : j \in i..i + n - 1}
               f == [k \in 1..n |-> picks[i + k - 1]]
    <2>5. f \in [1..n -> S]
      BY <2>2
    <2>6. ASSUME NEW k \in 1..n, NEW l \in 1..n, k < l PROVE f[k] # f[l]
      <3> DEFINE a == base + (i + k - 1) - 1
                 d == l - k
      <3>1. a \in Nat /\ d \in 1..n - 1 /\ base + (i + l - 1) - 1 = a + d
        BY <2>2, <2>6
      <3>2. i + k - 1 \in 1..Len(picks) /\ i + l - 1 \in 1..Len(picks)
        BY <2>1, <2>2
      <3>3. f[k] = Entry[1 + (a % n)] /\ f[l] = Entry[1 + ((a + d) % n)]
        <4>1. /\ picks[i + k - 1] = Entry[1 + ((base + (i + k - 1) - 1) % n)]
              /\ picks[i + l - 1] = Entry[1 + ((base + (i + l - 1) - 1) % n)]
          BY <2>4, <3>2
        <4>2. f[k] = picks[i + k - 1] /\ f[l] = picks[i + l - 1]
          OBVIOUS
        <4>3. (base + (i + l - 1) - 1) % n = (a + d) % n
          BY <3>1
        <4> HIDE DEF f, d
        <4> QED BY <4>1, <4>2, <4>3
      <3> HIDE DEF a, d, f
      <3>4. a % n # (a + d) % n
        BY <2>2, <3>1, DistinctResidues
      <3>5. a % n \in 0..n - 1 /\ (a + d) % n \in 0..n - 1
        <4>1. a + d \in Nat
          BY <2>2, <3>1
        <4> QED BY <2>2, <3>1, <4>1, Residues
      <3>6. 1 + (a % n) # 1 + ((a + d) % n)
        BY <2>2, <3>4, <3>5
      <3>7. 1 + (a % n) \in 1..n /\ 1 + ((a + d) % n) \in 1..n
        BY <2>2, <3>5
      <3> QED BY <2>3, <3>3, <3>6, <3>7
    <2>7. \A k, l \in 1..n : f[k] = f[l] => k = l
      <3> HIDE DEF f
      <3>1. \A k, l \in 1..n : k < l \/ l < k \/ k = l
        BY <2>2
      <3> QED BY <2>6, <3>1
    <2>8. \A x \in S : \E k \in 1..n : f[k] = x
      <3> SUFFICES ASSUME NEW j \in i..i + n - 1 PROVE \E k \in 1..n : f[k] = picks[j]
        OBVIOUS
      <3>1. j - i + 1 \in 1..n /\ i + (j - i + 1) - 1 = j
        BY <2>2
      <3>2. f[j - i + 1] = picks[j]
        BY <3>1
      <3> QED BY <3>1, <3>2
    <2> HIDE DEF f, S
    <2>9. f \in Bijection(1..n, S)
      BY <2>5, <2>7, <2>8 DEF Bijection, Injection, Surjection, IsInjective
    <2>10. Cardinality(S) = n
      BY <2>2, <2>9, FS_CountingElements DEF ExistsBijection
    <2> QED BY <2>10 DEF S
  <1>2. Base => World
    BY DEF Base
  <1> QED BY <1>1, <1>2, BaseHolds, SpreadInit, SpreadNext, PTL DEF Spec

----------------------------------------------------------------------------
(* Sums.  FoldFunction adds up a function by a recursive function over the *)
(* subsets of its domain; what it gives for every input is shown by the    *)
(* subset that is least among those for which a claim fails.               *)

Chosen(s) == CHOOSE x \in s : TRUE

\* The chosen element is one of the set.
LEMMA ChosenIsIn == \A s : s # {} => Chosen(s) \in s
  BY DEF Chosen

\* A function that adds up f over each of the sets, as FoldFunction does.
AddsUp(it, f, sets) ==
    it = [s \in sets |-> IF s = {} THEN 0 ELSE f[Chosen(s)] + it[s \ {Chosen(s)}]]

Added(f) == CHOOSE it : AddsUp(it, f, SUBSET DOMAIN f)

\* Sum is the recursive function of MapThenFoldSet at the whole domain.
LEMMA SumIsAdded == ASSUME NEW f PROVE Metrics!Sum(f) = Added(f)[DOMAIN f]
  BY DEF Metrics!Sum, Metrics!FoldFunction, Metrics!FoldFunctionOnSet,
         Metrics!MapThenFoldSet, Added, AddsUp, Chosen

\* What holds of the empty set, and of a set whenever it holds of the set
\* without its chosen element, holds of all subsets of a finite set: one that
\* is least among those of which it does not hold would be neither.
LEMMA Subsets ==
    ASSUME NEW D, IsFiniteSet(D), NEW Good,
           {} \in Good,
           \A s \in SUBSET D : s # {} /\ s \ {Chosen(s)} \in Good => s \in Good
    PROVE  \A s \in SUBSET D : s \in Good
  <1> DEFINE Bad == {s \in SUBSET D : s \notin Good}
             R == StrictSubsetOrdering(D)
  <1> SUFFICES ASSUME Bad # {} PROVE FALSE
    OBVIOUS
  <1>1. IsWellFoundedOn(R, SUBSET D)
    BY FS_StrictSubsetOrderingWellFounded, FS_FiniteSubsetsOfFinite
  <1>2. PICK s \in Bad : \A t \in Bad : <<t, s>> \notin R
    <2>1. Bad \subseteq SUBSET D
      OBVIOUS
    <2> HIDE DEF R, Bad
    <2> QED BY <1>1, <2>1, WFMin
  <1>3. s # {} /\ Chosen(s) \in s
    BY <1>2, ChosenIsIn
  <1>4. s \ {Chosen(s)} \in Bad
    BY <1>3
  <1>5. <<s \ {Chosen(s)}, s>> \in R
    BY <1>2, <1>3 DEF StrictSubsetOrdering
  <1> QED BY <1>2, <1>4, <1>5

Upto(D, n) == {s \in SUBSET D : Cardinality(s) <= n}

\* On the sets of at most n elements there is a function that adds up.
LEMMA AddsUpTo ==
    ASSUME NEW f, IsFiniteSet(DOMAIN f), NEW S \in SUBSET DOMAIN f
    PROVE  \E it : AddsUp(it, f, Upto(DOMAIN f, Cardinality(S)))
  <1> DEFINE D == DOMAIN f
             Good == {s \in SUBSET D : \E it : AddsUp(it, f, Upto(D, Cardinality(s)))}
  <1>1. \A s \in SUBSET D : IsFiniteSet(s) /\ Cardinality(s) \in Nat
    BY FS_Subset, FS_CardinalityType
  <1>2. \A s \in SUBSET D : s # {} => /\ Chosen(s) \in s
                                      /\ s \ {Chosen(s)} \in SUBSET D
                                      /\ Cardinality(s \ {Chosen(s)}) = Cardinality(s) - 1
    <2> SUFFICES ASSUME NEW s \in SUBSET D, s # {}
                 PROVE  /\ Chosen(s) \in s
                        /\ Cardinality(s \ {Chosen(s)}) = Cardinality(s) - 1
      OBVIOUS
    <2>1. Chosen(s) \in s
      BY ChosenIsIn
    <2> QED BY <2>1, <1>1, FS_RemoveElement
  <1>3. {} \in Good
    <2>1. Cardinality({}) = 0
      BY FS_EmptySet
    <2>2. \A s \in SUBSET D : Cardinality(s) = 0 <=> s = {}
      BY <1>1, FS_EmptySet
    <2>3. Upto(D, 0) = {{}}
      BY <1>1, <2>1, <2>2 DEF Upto
    <2>4. AddsUp([s \in {{}} |-> 0], f, {{}})
      BY DEF AddsUp
    <2> QED BY <2>1, <2>3, <2>4
  <1>4. ASSUME NEW s \in SUBSET D, s # {}, s \ {Chosen(s)} \in Good PROVE s \in Good
    <2> DEFINE n == Cardinality(s \ {Chosen(s)})
    <2>1. n \in Nat /\ Cardinality(s) = n + 1
      BY <1>1, <1>2, <1>4
    <2>2. PICK it : AddsUp(it, f, Upto(D, n))
      BY <1>4
    <2> DEFINE more == [t \in Upto(D, n + 1) |->
                          IF t = {} THEN 0 ELSE f[Chosen(t)] + it[t \ {Chosen(t)}]]
    <2>3. ASSUME NEW t \in Upto(D, n + 1), t # {} PROVE t \ {Chosen(t)} \in Upto(D, n)
      <3> HIDE DEF n
      <3>1. t \in SUBSET D /\ Cardinality(t) <= n + 1
        BY <2>3 DEF Upto
      <3>2. Cardinality(t \ {Chosen(t)}) = Cardinality(t) - 1 /\ Cardinality(t) \in Nat
        BY <3>1, <1>1, <1>2, <2>3
      <3>3. Cardinality(t \ {Chosen(t)}) <= n
        BY <3>1, <3>2, <2>1
      <3> QED BY <3>1, <3>3 DEF Upto
    <2>4. \A t \in Upto(D, n) : t \in Upto(D, n + 1) /\ more[t] = it[t]
      <3>1. \A t \in Upto(D, n) : t \in Upto(D, n + 1)
        BY <1>1, <2>1 DEF Upto
      <3>2. \A t \in Upto(D, n) :
              it[t] = IF t = {} THEN 0 ELSE f[Chosen(t)] + it[t \ {Chosen(t)}]
        BY <2>2 DEF AddsUp
      <3> QED BY <3>1, <3>2
    <2>5. \A t \in Upto(D, n + 1) :
            more[t] = IF t = {} THEN 0 ELSE f[Chosen(t)] + more[t \ {Chosen(t)}]
      BY <2>3, <2>4
    <2>6. AddsUp(more, f, Upto(D, n + 1))
      <3> HIDE DEF D
      <3> QED BY <2>5 DEF AddsUp
    <2> QED BY <2>1, <2>6
  <1>5. \A s \in SUBSET D : s \in Good
    <2> HIDE DEF Good
    <2> QED BY <1>3, <1>4, Subsets
  <1> QED BY <1>5

\* So Added(f) adds up f, over every subset of its domain.
LEMMA AddedAddsUp ==
    ASSUME NEW f, IsFiniteSet(DOMAIN f)
    PROVE  AddsUp(Added(f), f, SUBSET DOMAIN f)
  <1> DEFINE D == DOMAIN f
  <1>1. PICK it : AddsUp(it, f, Upto(D, Cardinality(D)))
    BY AddsUpTo
  <1>2. Upto(D, Cardinality(D)) = SUBSET D
    BY FS_Subset DEF Upto
  <1>3. \E g : AddsUp(g, f, SUBSET D)
    BY <1>1, <1>2
  <1> QED BY <1>3 DEF Added

\* It is 0 for the empty set, and otherwise takes one element after the other.
LEMMA AddedStep ==
    ASSUME NEW f, IsFiniteSet(DOMAIN f)
    PROVE  /\ Added(f)[{}] = 0
           /\ \A s \in SUBSET DOMAIN f : s # {} =>
                 /\ Chosen(s) \in s
                 /\ s \ {Chosen(s)} \in SUBSET DOMAIN f
                 /\ Added(f)[s] = f[Chosen(s)] + Added(f)[s \ {Chosen(s)}]
  <1>1. PICK it : it = Added(f)
    OBVIOUS
  <1>2. PICK D : D = DOMAIN f
    OBVIOUS
  <1>3. it = [s \in SUBSET D |-> IF s = {} THEN 0 ELSE f[Chosen(s)] + it[s \ {Chosen(s)}]]
    BY <1>1, <1>2, AddedAddsUp DEF AddsUp
  <1>4. \A s \in SUBSET D :
          it[s] = IF s = {} THEN 0 ELSE f[Chosen(s)] + it[s \ {Chosen(s)}]
    BY <1>3
  <1> QED BY <1>1, <1>2, <1>4, ChosenIsIn

\* A sum of numbers is a number.
LEMMA SumType ==
    ASSUME NEW D, IsFiniteSet(D), NEW f \in [D -> Nat]
    PROVE  Metrics!Sum(f) \in Nat
  <1> DEFINE Good == {s \in SUBSET D : Added(f)[s] \in Nat}
  <1>1. {} \in Good
    BY AddedStep
  <1>2. \A s \in SUBSET D : s # {} /\ s \ {Chosen(s)} \in Good => s \in Good
    BY AddedStep
  <1>3. \A s \in SUBSET D : s \in Good
    <2> HIDE DEF Good
    <2> QED BY <1>1, <1>2, Subsets
  <1> QED BY <1>3, SumIsAdded

\* The sum of no more than zeros is zero.
LEMMA SumZero ==
    ASSUME NEW D, IsFiniteSet(D), NEW f \in [D -> {0}]
    PROVE  Metrics!Sum(f) = 0
  <1> DEFINE Good == {s \in SUBSET D : Added(f)[s] = 0}
  <1>1. {} \in Good
    BY AddedStep
  <1>2. ASSUME NEW s \in SUBSET D, s # {}, s \ {Chosen(s)} \in Good PROVE s \in Good
    <2>1. Chosen(s) \in s /\ Added(f)[s] = f[Chosen(s)] + Added(f)[s \ {Chosen(s)}]
      <3> HIDE DEF Good
      <3>1. DOMAIN f = D
        OBVIOUS
      <3> QED BY AddedStep, <1>2, <3>1
    <2>2. f[Chosen(s)] = 0 /\ Added(f)[s \ {Chosen(s)}] = 0
      BY <1>2, <2>1
    <2> QED BY <2>1, <2>2
  <1>3. \A s \in SUBSET D : s \in Good
    <2> HIDE DEF Good
    <2> QED BY <1>1, <1>2, Subsets
  <1> QED BY <1>3, SumIsAdded

\* The sum of a function that is 1 at one element and 0 elsewhere is 1.
LEMMA SumOne ==
    ASSUME NEW D, IsFiniteSet(D), NEW e \in D, NEW f,
           f = [x \in D |-> IF x = e THEN 1 ELSE 0]
    PROVE  Metrics!Sum(f) = 1
  <1> DEFINE Good == {s \in SUBSET D : Added(f)[s] = IF e \in s THEN 1 ELSE 0}
  <1>1. {} \in Good
    BY AddedStep
  <1>2. ASSUME NEW s \in SUBSET D, s # {}, s \ {Chosen(s)} \in Good PROVE s \in Good
    <2>1. Chosen(s) \in s /\ Added(f)[s] = f[Chosen(s)] + Added(f)[s \ {Chosen(s)}]
      <3> HIDE DEF Good
      <3>1. DOMAIN f = D
        OBVIOUS
      <3> QED BY AddedStep, <1>2, <3>1
    <2>2. Added(f)[s \ {Chosen(s)}] = IF e \in s \ {Chosen(s)} THEN 1 ELSE 0
      BY <1>2
    <2>3. CASE Chosen(s) = e
      BY <2>1, <2>2, <2>3
    <2>4. CASE Chosen(s) # e
      BY <2>1, <2>2, <2>4
    <2> QED BY <2>3, <2>4
  <1>3. \A s \in SUBSET D : s \in Good
    <2> HIDE DEF Good
    <2> QED BY <1>1, <1>2, Subsets
  <1> QED BY <1>3, SumIsAdded

\* The sum of sums is the sum of the two.
LEMMA SumPlus ==
    ASSUME NEW D, IsFiniteSet(D), NEW f \in [D -> Nat], NEW g \in [D -> Nat],
           NEW h, h = [x \in D |-> f[x] + g[x]]
    PROVE  Metrics!Sum(h) = Metrics!Sum(f) + Metrics!Sum(g)
  <1> DEFINE Good == {s \in SUBSET D : /\ Added(f)[s] \in Nat /\ Added(g)[s] \in Nat
                                       /\ Added(h)[s] = Added(f)[s] + Added(g)[s]}
  <1>1. {} \in Good
    BY AddedStep
  <1>2. ASSUME NEW s \in SUBSET D, s # {}, s \ {Chosen(s)} \in Good PROVE s \in Good
    <2> DEFINE c == Chosen(s)
               t == s \ {c}
    <2>1. c \in s /\ Added(f)[s] = f[c] + Added(f)[t]
      BY AddedStep, <1>2
    <2>2. Added(g)[s] = g[c] + Added(g)[t]
      BY AddedStep, <1>2
    <2>3. Added(h)[s] = h[c] + Added(h)[t]
      BY AddedStep, <1>2
    <2>4. h[c] = f[c] + g[c] /\ f[c] \in Nat /\ g[c] \in Nat
      BY <2>1
    <2>5. /\ Added(f)[t] \in Nat /\ Added(g)[t] \in Nat
          /\ Added(h)[t] = Added(f)[t] + Added(g)[t]
      BY <1>2
    <2> QED BY <2>1, <2>2, <2>3, <2>4, <2>5
  <1>3. \A s \in SUBSET D : s \in Good
    <2> HIDE DEF Good
    <2> QED BY <1>1, <1>2, Subsets
  <1> QED BY <1>3, SumIsAdded

\* The larger function has the larger sum.
LEMMA SumMonotone ==
    ASSUME NEW D, IsFiniteSet(D), NEW f \in [D -> Nat], NEW g \in [D -> Nat],
           \A x \in D : f[x] <= g[x]
    PROVE  Metrics!Sum(f) <= Metrics!Sum(g)
  <1> DEFINE d == [x \in D |-> g[x] - f[x]]
  <1>1. d \in [D -> Nat]
    OBVIOUS
  <1>2. g = [x \in D |-> f[x] + d[x]]
    OBVIOUS
  <1>3. Metrics!Sum(g) = Metrics!Sum(f) + Metrics!Sum(d)
    <2> HIDE DEF d
    <2> QED BY <1>1, <1>2, SumPlus
  <1>4. Metrics!Sum(f) \in Nat /\ Metrics!Sum(g) \in Nat /\ Metrics!Sum(d) \in Nat
    <2> HIDE DEF d
    <2> QED BY <1>1, SumType
  <1> HIDE DEF d
  <1> QED BY <1>3, <1>4

\* The sum of a single number is this number.
LEMMA SumSingle ==
    ASSUME NEW e, NEW f \in [{e} -> Nat]
    PROVE  Metrics!Sum(f) = f[e]
  <1>1. DOMAIN f = {e} /\ IsFiniteSet({e})
    BY FS_Singleton
  <1>2. Chosen({e}) = e
    BY ChosenIsIn
  <1>3. /\ Added(f)[{}] = 0
        /\ {e} \in SUBSET DOMAIN f
        /\ Added(f)[{e}] = f[Chosen({e})] + Added(f)[{e} \ {Chosen({e})}]
    BY <1>1, AddedStep
  <1>4. {e} \ {e} = {}
    OBVIOUS
  <1>5. Added(f)[{e}] = f[e] + 0
    BY <1>2, <1>3, <1>4
  <1> QED BY <1>1, <1>5, SumIsAdded

----------------------------------------------------------------------------
(* The counters of the proxy: what is invariant *)

\* The counts of one sink, a number under every key of every counter.
Counters(s, c) ==
    /\ c = [f \in Metrics!Fields(s) |-> c[f]]
    /\ \A f \in Metrics!Fields(s) : c[f] \in [Metrics!Keys(f) -> Nat]

\* What one sink counts belongs to the same requests.
Agree(s, c) ==
    /\ Metrics!Sum(c["status"]) = Metrics!Total(c)
    /\ s = "traffic" => Metrics!Sum(c["names"]) = Metrics!Total(c)
    /\ s = "metrics" =>
        /\ Metrics!Sum(c["ts_requests"]) = Metrics!Total(c)
        /\ Metrics!Sum(c["ts_status"]) = Metrics!Total(c)
        /\ c["ts_latency_count"] = c["ts_requests"]
        /\ c["service"] = c["rps"]
        /\ \A n \in Services :
              c["service"][n] = Metrics!Sum([b \in Buckets |-> c["ts_requests"][<<b, n>>]])
        /\ Metrics!Sum(c["ts_errors"]) =
           Metrics!Sum([x \in Statuses |-> IF x >= 500 THEN c["status"][x] ELSE 0])
        /\ \A b \in Buckets :
              Metrics!Sum([m \in Metrics!Names |-> c["ts_requests"][<<b, m>>]]) =
              Metrics!Sum([x \in Statuses |-> c["ts_status"][<<b, x>>]])

Sound(s, c) == Counters(s, c) /\ Agree(s, c)

\* The counts of every sink are sound, at each of the places they are kept.
Agreement ==
    /\ DOMAIN buffer = Metrics!Sinks /\ DOMAIN batch = Metrics!Sinks /\ DOMAIN stored = Metrics!Sinks
    /\ \A s \in Metrics!Sinks : Sound(s, buffer[s]) /\ Sound(s, batch[s]) /\ Sound(s, stored[s])

\* Every request is at one of these places, or lost.
Accounted ==
    /\ DOMAIN lost = Metrics!Sinks
    /\ \A s \in Metrics!Sinks :
          /\ lost[s] \in Nat
          /\ recorded = Metrics!Total(buffer[s]) + Metrics!Total(batch[s])
                        + Metrics!Total(stored[s]) + lost[s]

\* A batch is held only by a loop that executes, and by the last flush.
Held(s) == loop[s] = "executing" \/ (s = "metrics" /\ stopping = "flushing")

\* Losses have a cause, what is not held is empty, and the loop of the metrics
\* has ended before stop() goes on.
Flow ==
    /\ loop \in [Metrics!Sinks -> {"sleep", "executing", "dead", "ended", "cut"}]
    /\ faults \in Nat /\ load \in Loads
    /\ \A s \in Metrics!Sinks :
          /\ lost[s] > 0 => faults > 0 \/ loop[s] = "cut"
          /\ ~Held(s) => batch[s] = Metrics!Zero(s)
    /\ stopping \in {"cancelled metrics", "cancelled both", "flushing", "closed"} =>
          loop["metrics"] \in {"ended", "cut"}

CountsInv == Agreement /\ Accounted /\ Flow

\* What has been read is not above what Redis holds now.
Below(f, value) ==
    /\ value \in [Metrics!Keys(f) -> Nat]
    /\ \A k \in Metrics!Keys(f) : value[k] <= stored["metrics"][f][k]

\* Of two counters, the one read first is not above the one read later.
Ordered(seen) ==
    \A i, j \in DOMAIN seen : i < j =>
        LET v == seen[i].value
            w == seen[j].value
        IN /\ seen[i].field = "total" /\ seen[j].field = "status" =>
                 Metrics!Sum(v) <= Metrics!Sum(w)
           /\ seen[i].field = "ts_requests" /\ seen[j].field = "ts_latency_count" =>
                 \A k \in Metrics!Keys("ts_requests") : v[k] <= w[k]
           /\ seen[i].field = "ts_requests" /\ seen[j].field = "ts_status" =>
                 \A d \in Buckets :
                 Metrics!Sum([m \in Metrics!Names |-> v[<<d, m>>]]) <=
                 Metrics!Sum([x \in Statuses |-> w[<<d, x>>]])

\* A reader has gone some way along the order of its view.
Reading(order, n) ==
    /\ DOMAIN reader = {"left", "bucket", "seen"}
    /\ reader.bucket \in Buckets
    /\ reader.left = SubSeq(order, n + 1, 4)
    /\ Len(reader.seen) = n /\ reader.seen \in Seq({reader.seen[i] : i \in 1..n})
    /\ \A i \in 1..n : reader.seen[i].field = order[i] /\ Below(order[i], reader.seen[i].value)
    /\ Ordered(reader.seen)

ReaderInv ==
    \/ reader = Metrics!NoView
    \/ \E view \in {"metrics", "timeseries"}, n \in 0..4 : Reading(Metrics!ReadOrder(view), n)

----------------------------------------------------------------------------
(* The algebra of the counters: nothing, one request, and the sum of two *)

\* The counters and keys of both sinks, spelled out.
LEMMA FieldsAndKeys ==
    /\ Metrics!Sinks = {"metrics", "traffic"}
    /\ Metrics!Fields("metrics") =
       {"total", "service", "rps", "status", "failures", "ts_requests", "ts_status",
        "ts_latency_count", "ts_errors"}
    /\ Metrics!Fields("traffic") = {"total", "names", "status", "failures"}
    /\ Metrics!Keys("total") = {"all"} /\ Metrics!Keys("failures") = {"all"}
    /\ Metrics!Keys("service") = Services /\ Metrics!Keys("rps") = Services
    /\ Metrics!Keys("names") = Metrics!Names /\ Metrics!Keys("status") = Statuses
    /\ Metrics!Keys("ts_status") = Buckets \X Statuses
    /\ Metrics!Keys("ts_requests") = Buckets \X Metrics!Names
    /\ Metrics!Keys("ts_latency_count") = Buckets \X Metrics!Names
    /\ Metrics!Keys("ts_errors") = Buckets \X Metrics!Names
  BY DEF Metrics!Sinks, Metrics!Fields, Metrics!Keys

\* Every sink counts a total and the statuses; the keys are finitely many.
LEMMA FiniteKeys ==
    /\ IsFiniteSet(Services) /\ IsFiniteSet(Buckets) /\ IsFiniteSet(Statuses)
    /\ IsFiniteSet(Metrics!Names)
    /\ \A s \in Metrics!Sinks : \A f \in Metrics!Fields(s) : IsFiniteSet(Metrics!Keys(f))
    /\ \A s \in Metrics!Sinks : "total" \in Metrics!Fields(s) /\ "status" \in Metrics!Fields(s)
    /\ "names" \in Metrics!Fields("traffic")
  <1>1. IsFiniteSet(Services) /\ IsFiniteSet(Buckets)
    BY MetricsAssumed DEF Metrics!MetricsAssumption, Metrics!IsFiniteSet, IsFiniteSet
  <1>2. IsFiniteSet(Statuses)
    <2>1. IsFiniteSet(100..599)
      <3>1. 100 \in Int /\ 599 \in Int
        OBVIOUS
      <3> QED BY <3>1, FS_Interval
    <2> QED BY <2>1, FS_Subset, MetricsAssumed DEF Metrics!MetricsAssumption
  <1>3. IsFiniteSet(Metrics!Names)
    BY <1>1, FS_AddElement DEF Metrics!Names
  <1>4. IsFiniteSet(Buckets \X Statuses) /\ IsFiniteSet(Buckets \X Metrics!Names)
    BY <1>1, <1>2, <1>3, FS_Product
  <1>5. IsFiniteSet({"all"})
    BY FS_Singleton
  <1> QED BY <1>1, <1>2, <1>3, <1>4, <1>5, FieldsAndKeys

\* Of counters, what is under a field, and the total, is a number.
LEMMA CountersType ==
    ASSUME NEW s \in Metrics!Sinks, NEW c, Counters(s, c)
    PROVE  /\ Metrics!Total(c) \in Nat
           /\ DOMAIN c = Metrics!Fields(s)
           /\ \A f \in Metrics!Fields(s) : c[f] \in [Metrics!Keys(f) -> Nat]
  BY FieldsAndKeys, FiniteKeys DEF Counters, Metrics!Total

\* The keys of counters are counted under numbers, and added one by one.
LEMMA PlusCells ==
    ASSUME NEW s \in Metrics!Sinks, NEW c, NEW d, Counters(s, c), Counters(s, d),
           NEW p, p = Metrics!Plus(c, d), NEW f \in Metrics!Fields(s), NEW k \in Metrics!Keys(f)
    PROVE  c[f][k] \in Nat /\ d[f][k] \in Nat /\ p[f][k] = c[f][k] + d[f][k]
  <1>1. f \in DOMAIN c /\ k \in DOMAIN c[f]
    BY CountersType
  <1>2. c[f] \in [Metrics!Keys(f) -> Nat] /\ d[f] \in [Metrics!Keys(f) -> Nat]
    BY CountersType
  <1>3. p[f][k] = c[f][k] + d[f][k]
    BY <1>1 DEF Metrics!Plus
  <1> QED BY <1>2, <1>3

\* The sum of a column or a row of a table, under another table's added.
LEMMA SumOfParts ==
    ASSUME NEW D, IsFiniteSet(D), NEW f, NEW g, NEW h,
           \A x \in D : f[x] \in Nat /\ g[x] \in Nat /\ h[x] = f[x] + g[x],
           f = [x \in D |-> f[x]], g = [x \in D |-> g[x]], h = [x \in D |-> h[x]]
    PROVE  Metrics!Sum(h) = Metrics!Sum(f) + Metrics!Sum(g)
  <1>1. f \in [D -> Nat] /\ g \in [D -> Nat] /\ h = [x \in D |-> f[x] + g[x]]
    OBVIOUS
  <1> QED BY <1>1, SumPlus

\* Counters added to counters, counter by counter.
LEMMA PlusFields ==
    ASSUME NEW s \in Metrics!Sinks, NEW c, NEW d, Counters(s, c), Counters(s, d),
           NEW p, p = Metrics!Plus(c, d)
    PROVE  /\ Counters(s, p)
           /\ \A f \in Metrics!Fields(s) : p[f] = [k \in Metrics!Keys(f) |-> c[f][k] + d[f][k]]
           /\ \A f \in Metrics!Fields(s) :
                 Metrics!Sum(p[f]) = Metrics!Sum(c[f]) + Metrics!Sum(d[f])
           /\ Metrics!Total(p) = Metrics!Total(c) + Metrics!Total(d)
  <1>1. p = [f \in Metrics!Fields(s) |-> [k \in Metrics!Keys(f) |-> c[f][k] + d[f][k]]]
    <2>1. DOMAIN c = Metrics!Fields(s)
      BY CountersType
    <2>2. \A f \in Metrics!Fields(s) : DOMAIN c[f] = Metrics!Keys(f)
      BY CountersType
    <2> QED BY <2>1, <2>2 DEF Metrics!Plus
  <1>2. ASSUME NEW f \in Metrics!Fields(s)
        PROVE  /\ p[f] = [k \in Metrics!Keys(f) |-> c[f][k] + d[f][k]]
               /\ p[f] \in [Metrics!Keys(f) -> Nat]
               /\ Metrics!Sum(p[f]) = Metrics!Sum(c[f]) + Metrics!Sum(d[f])
    <2>1. p[f] = [k \in Metrics!Keys(f) |-> c[f][k] + d[f][k]]
      BY <1>1
    <2>2. c[f] \in [Metrics!Keys(f) -> Nat] /\ d[f] \in [Metrics!Keys(f) -> Nat]
      BY CountersType
    <2>3. p[f] \in [Metrics!Keys(f) -> Nat]
      BY <2>1, <2>2
    <2>4. IsFiniteSet(Metrics!Keys(f))
      BY FiniteKeys
    <2> QED BY <2>1, <2>2, <2>3, <2>4, SumPlus
  <1>3. Counters(s, p)
    BY <1>1, <1>2 DEF Counters
  <1>4. Metrics!Total(p) = Metrics!Total(c) + Metrics!Total(d)
    <2>1. "total" \in Metrics!Fields(s) /\ "all" \in Metrics!Keys("total")
      BY FiniteKeys, FieldsAndKeys
    <2> QED BY <2>1, PlusCells DEF Metrics!Total
  <1> QED BY <1>2, <1>3, <1>4

\* What agrees agrees when it is added.
LEMMA PlusAgrees ==
    ASSUME NEW s \in Metrics!Sinks, NEW c, NEW d, Counters(s, c), Counters(s, d),
           Agree(s, c), Agree(s, d), NEW p, p = Metrics!Plus(c, d)
    PROVE  Counters(s, p) /\ Agree(s, p)
  <1> DEFINE F == Metrics!Fields(s)
  <1>1. Counters(s, p)
    BY PlusFields
  <1>2. \A f \in F : Metrics!Sum(p[f]) = Metrics!Sum(c[f]) + Metrics!Sum(d[f])
    <2>1. \A f \in Metrics!Fields(s) :
            Metrics!Sum(p[f]) = Metrics!Sum(c[f]) + Metrics!Sum(d[f])
      <3> HIDE DEF F
      <3> QED BY PlusFields
    <2> QED BY <2>1
  <1>3. Metrics!Total(p) = Metrics!Total(c) + Metrics!Total(d)
    BY PlusFields
  <1>4. \A f \in F : p[f] = [k \in Metrics!Keys(f) |-> c[f][k] + d[f][k]]
    <2> HIDE DEF F
    <2> QED BY PlusFields DEF F
  <1>5. \A f \in F : \A k \in Metrics!Keys(f) :
          c[f][k] \in Nat /\ d[f][k] \in Nat /\ p[f][k] = c[f][k] + d[f][k]
    BY PlusCells
  <1>6. Metrics!Sum(p["status"]) = Metrics!Total(p)
    BY <1>2, <1>3, FiniteKeys DEF Agree
  <1>7. ASSUME s = "traffic" PROVE Metrics!Sum(p["names"]) = Metrics!Total(p)
    BY <1>2, <1>3, <1>7, FiniteKeys DEF Agree
  <1>8. ASSUME s = "metrics"
        PROVE  /\ Metrics!Sum(p["ts_requests"]) = Metrics!Total(p)
               /\ Metrics!Sum(p["ts_status"]) = Metrics!Total(p)
               /\ p["ts_latency_count"] = p["ts_requests"]
               /\ p["service"] = p["rps"]
    <2>1. /\ "ts_requests" \in F /\ "ts_status" \in F /\ "ts_latency_count" \in F
          /\ "service" \in F /\ "rps" \in F
      BY <1>8, FieldsAndKeys
    <2>2. /\ Metrics!Sum(p["ts_requests"]) = Metrics!Total(p)
          /\ Metrics!Sum(p["ts_status"]) = Metrics!Total(p)
      BY <1>2, <1>3, <1>8, <2>1 DEF Agree
    <2>3. /\ c["ts_latency_count"] = c["ts_requests"] /\ d["ts_latency_count"] = d["ts_requests"]
          /\ c["service"] = c["rps"] /\ d["service"] = d["rps"]
      BY <1>8 DEF Agree
    <2>4. p["ts_latency_count"] = p["ts_requests"]
      <3>1. Metrics!Keys("ts_latency_count") = Metrics!Keys("ts_requests")
        BY FieldsAndKeys
      <3> HIDE DEF F
      <3>2. p["ts_requests"] =
            [k \in Metrics!Keys("ts_requests") |-> c["ts_requests"][k] + d["ts_requests"][k]]
        BY <2>1, <1>4
      <3>3. p["ts_latency_count"] =
            [k \in Metrics!Keys("ts_latency_count") |-> c["ts_latency_count"][k] + d["ts_latency_count"][k]]
        BY <2>1, <1>4
      <3> QED BY <2>3, <3>1, <3>2, <3>3
    <2>5. p["service"] = p["rps"]
      <3>1. Metrics!Keys("service") = Metrics!Keys("rps")
        BY FieldsAndKeys
      <3> HIDE DEF F
      <3> QED BY <2>1, <2>3, <1>4, <3>1
    <2> QED BY <2>2, <2>4, <2>5
  <1>9. ASSUME s = "metrics", NEW n \in Services
        PROVE  p["service"][n] = Metrics!Sum([b \in Buckets |-> p["ts_requests"][<<b, n>>]])
    <2> DEFINE col(x) == [b \in Buckets |-> x["ts_requests"][<<b, n>>]]
    <2>1. "ts_requests" \in F /\ "service" \in F /\ n \in Metrics!Names
      BY <1>9, FieldsAndKeys DEF Metrics!Names
    <2>2. \A b \in Buckets : /\ c["ts_requests"][<<b, n>>] \in Nat
                             /\ d["ts_requests"][<<b, n>>] \in Nat
                             /\ p["ts_requests"][<<b, n>>] =
                                c["ts_requests"][<<b, n>>] + d["ts_requests"][<<b, n>>]
      <3>1. \A b \in Buckets : <<b, n>> \in Metrics!Keys("ts_requests")
        BY <2>1, FieldsAndKeys
      <3> HIDE DEF F
      <3> QED BY <2>1, <1>5, <3>1
    <2>3. Metrics!Sum(col(p)) = Metrics!Sum(col(c)) + Metrics!Sum(col(d))
      <3> DEFINE f == col(c)
                 g == col(d)
                 h == col(p)
      <3>1. \A b \in Buckets : f[b] \in Nat /\ g[b] \in Nat /\ h[b] = f[b] + g[b]
        BY <2>2
      <3>2. /\ f = [b \in Buckets |-> f[b]] /\ g = [b \in Buckets |-> g[b]]
            /\ h = [b \in Buckets |-> h[b]]
        OBVIOUS
      <3> HIDE DEF f, g, h
      <3>3. Metrics!Sum(h) = Metrics!Sum(f) + Metrics!Sum(g)
        BY <3>1, <3>2, FiniteKeys, SumOfParts
      <3> QED BY <3>3 DEF f, g, h
    <2>4. c["service"][n] = Metrics!Sum(col(c)) /\ d["service"][n] = Metrics!Sum(col(d))
      BY <1>9 DEF Agree
    <2>5. p["service"][n] = c["service"][n] + d["service"][n]
      <3>1. n \in Metrics!Keys("service")
        BY <1>9, FieldsAndKeys
      <3> HIDE DEF F
      <3> QED BY <2>1, <1>5, <3>1
    <2> HIDE DEF col
    <2>6. p["service"][n] = Metrics!Sum(col(p))
      BY <2>3, <2>4, <2>5
    <2> QED BY <2>6 DEF col
  <1>10. ASSUME s = "metrics"
         PROVE  Metrics!Sum(p["ts_errors"]) =
                Metrics!Sum([x \in Statuses |-> IF x >= 500 THEN p["status"][x] ELSE 0])
    <2> DEFINE bad(y) == [x \in Statuses |-> IF x >= 500 THEN y["status"][x] ELSE 0]
    <2>1. "ts_errors" \in F /\ "status" \in F
      BY <1>10, FieldsAndKeys
    <2>2. \A x \in Statuses : /\ c["status"][x] \in Nat /\ d["status"][x] \in Nat
                              /\ p["status"][x] = c["status"][x] + d["status"][x]
      <3>1. \A x \in Statuses : x \in Metrics!Keys("status")
        BY FieldsAndKeys
      <3> HIDE DEF F
      <3> QED BY <2>1, <1>5, <3>1
    <2>3. Metrics!Sum(bad(p)) = Metrics!Sum(bad(c)) + Metrics!Sum(bad(d))
      <3> DEFINE f == bad(c)
                 g == bad(d)
                 h == bad(p)
      <3>1. \A x \in Statuses : f[x] \in Nat /\ g[x] \in Nat /\ h[x] = f[x] + g[x]
        BY <2>2
      <3>2. /\ f = [x \in Statuses |-> f[x]] /\ g = [x \in Statuses |-> g[x]]
            /\ h = [x \in Statuses |-> h[x]]
        OBVIOUS
      <3> HIDE DEF f, g, h
      <3>3. Metrics!Sum(h) = Metrics!Sum(f) + Metrics!Sum(g)
        BY <3>1, <3>2, FiniteKeys, SumOfParts
      <3> QED BY <3>3 DEF f, g, h
    <2>4. /\ Metrics!Sum(c["ts_errors"]) = Metrics!Sum(bad(c))
          /\ Metrics!Sum(d["ts_errors"]) = Metrics!Sum(bad(d))
      BY <1>10 DEF Agree
    <2>5. Metrics!Sum(p["ts_errors"]) = Metrics!Sum(c["ts_errors"]) + Metrics!Sum(d["ts_errors"])
      BY <2>1, <1>2
    <2> HIDE DEF bad
    <2>6. Metrics!Sum(p["ts_errors"]) = Metrics!Sum(bad(p))
      BY <2>3, <2>4, <2>5
    <2> QED BY <2>6 DEF bad
  <1>11. ASSUME s = "metrics", NEW b \in Buckets
         PROVE  Metrics!Sum([m \in Metrics!Names |-> p["ts_requests"][<<b, m>>]]) =
                Metrics!Sum([x \in Statuses |-> p["ts_status"][<<b, x>>]])
    <2> DEFINE req(y) == [m \in Metrics!Names |-> y["ts_requests"][<<b, m>>]]
               sts(y) == [x \in Statuses |-> y["ts_status"][<<b, x>>]]
    <2>1. "ts_requests" \in F /\ "ts_status" \in F
      BY <1>11, FieldsAndKeys
    <2>2. \A m \in Metrics!Names :
             /\ c["ts_requests"][<<b, m>>] \in Nat /\ d["ts_requests"][<<b, m>>] \in Nat
             /\ p["ts_requests"][<<b, m>>] = c["ts_requests"][<<b, m>>] + d["ts_requests"][<<b, m>>]
      <3>1. \A m \in Metrics!Names : <<b, m>> \in Metrics!Keys("ts_requests")
        BY <1>11, FieldsAndKeys
      <3> HIDE DEF F
      <3> QED BY <2>1, <1>5, <3>1
    <2>3. \A x \in Statuses :
             /\ c["ts_status"][<<b, x>>] \in Nat /\ d["ts_status"][<<b, x>>] \in Nat
             /\ p["ts_status"][<<b, x>>] = c["ts_status"][<<b, x>>] + d["ts_status"][<<b, x>>]
      <3>1. \A x \in Statuses : <<b, x>> \in Metrics!Keys("ts_status")
        BY <1>11, FieldsAndKeys
      <3> HIDE DEF F
      <3> QED BY <2>1, <1>5, <3>1
    <2>4. Metrics!Sum(req(p)) = Metrics!Sum(req(c)) + Metrics!Sum(req(d))
      <3> DEFINE f == req(c)
                 g == req(d)
                 h == req(p)
      <3>1. \A m \in Metrics!Names : f[m] \in Nat /\ g[m] \in Nat /\ h[m] = f[m] + g[m]
        BY <2>2
      <3>2. /\ f = [m \in Metrics!Names |-> f[m]] /\ g = [m \in Metrics!Names |-> g[m]]
            /\ h = [m \in Metrics!Names |-> h[m]]
        OBVIOUS
      <3> HIDE DEF f, g, h
      <3>3. Metrics!Sum(h) = Metrics!Sum(f) + Metrics!Sum(g)
        BY <3>1, <3>2, FiniteKeys, SumOfParts
      <3> QED BY <3>3 DEF f, g, h
    <2>5. Metrics!Sum(sts(p)) = Metrics!Sum(sts(c)) + Metrics!Sum(sts(d))
      <3> DEFINE f == sts(c)
                 g == sts(d)
                 h == sts(p)
      <3>1. \A x \in Statuses : f[x] \in Nat /\ g[x] \in Nat /\ h[x] = f[x] + g[x]
        BY <2>3
      <3>2. /\ f = [x \in Statuses |-> f[x]] /\ g = [x \in Statuses |-> g[x]]
            /\ h = [x \in Statuses |-> h[x]]
        OBVIOUS
      <3> HIDE DEF f, g, h
      <3>3. Metrics!Sum(h) = Metrics!Sum(f) + Metrics!Sum(g)
        BY <3>1, <3>2, FiniteKeys, SumOfParts
      <3> QED BY <3>3 DEF f, g, h
    <2>6. Metrics!Sum(req(c)) = Metrics!Sum(sts(c)) /\ Metrics!Sum(req(d)) = Metrics!Sum(sts(d))
      BY <1>11 DEF Agree
    <2> HIDE DEF req, sts
    <2>7. Metrics!Sum(req(p)) = Metrics!Sum(sts(p))
      BY <2>4, <2>5, <2>6
    <2> QED BY <2>7 DEF req, sts
  <1> QED BY <1>1, <1>6, <1>7, <1>8, <1>9, <1>10, <1>11 DEF Agree

\* Counting nothing agrees.
LEMMA ZeroAgrees ==
    ASSUME NEW s \in Metrics!Sinks
    PROVE  /\ Counters(s, Metrics!Zero(s)) /\ Agree(s, Metrics!Zero(s))
           /\ Metrics!Total(Metrics!Zero(s)) = 0
  <1>1. PICK z : z = Metrics!Zero(s)
    OBVIOUS
  <1>2. z = [f \in Metrics!Fields(s) |-> [k \in Metrics!Keys(f) |-> 0]]
    BY <1>1 DEF Metrics!Zero
  <1>3. \A f \in Metrics!Fields(s) : z[f] = [k \in Metrics!Keys(f) |-> 0]
    BY <1>2
  <1>4. \A f \in Metrics!Fields(s) : \A k \in Metrics!Keys(f) : z[f][k] = 0
    BY <1>3
  <1>5. \A f \in Metrics!Fields(s) : Metrics!Sum(z[f]) = 0
    <2> SUFFICES ASSUME NEW f \in Metrics!Fields(s) PROVE Metrics!Sum(z[f]) = 0
      OBVIOUS
    <2>1. z[f] \in [Metrics!Keys(f) -> {0}]
      BY <1>3
    <2> QED BY <2>1, FiniteKeys, SumZero
  <1>6. Counters(s, z)
    <2>1. \A f \in Metrics!Fields(s) : z[f] \in [Metrics!Keys(f) -> Nat]
      <3> SUFFICES ASSUME NEW f \in Metrics!Fields(s) PROVE z[f] \in [Metrics!Keys(f) -> Nat]
        OBVIOUS
      <3>1. PICK g, K : g = z[f] /\ K = Metrics!Keys(f)
        OBVIOUS
      <3>2. z[f] = [k \in Metrics!Keys(f) |-> 0]
        BY <1>3
      <3>3. g = [k \in K |-> 0]
        BY <3>1, <3>2
      <3>4. g \in [K -> Nat]
        BY <3>3
      <3> QED BY <3>1, <3>4
    <2>2. z = [f \in Metrics!Fields(s) |-> z[f]]
      BY <1>2
    <2> QED BY <2>1, <2>2 DEF Counters
  <1>7. Metrics!Total(z) = 0
    BY <1>4, FiniteKeys, FieldsAndKeys DEF Metrics!Total
  <1>8. s = "traffic" => Metrics!Sum(z["names"]) = Metrics!Total(z)
    BY <1>5, <1>7, FiniteKeys
  <1>9. ASSUME s = "metrics"
        PROVE  /\ Metrics!Sum(z["ts_requests"]) = Metrics!Total(z)
               /\ Metrics!Sum(z["ts_status"]) = Metrics!Total(z)
               /\ z["ts_latency_count"] = z["ts_requests"]
               /\ z["service"] = z["rps"]
    <2>1. \A f \in {"ts_requests", "ts_status", "ts_latency_count", "service", "rps"} :
            f \in Metrics!Fields(s)
      BY <1>9, FieldsAndKeys
    <2> QED BY <2>1, <1>3, <1>5, <1>7, FieldsAndKeys
  <1>10. ASSUME s = "metrics", NEW n \in Services
         PROVE  z["service"][n] = Metrics!Sum([b \in Buckets |-> z["ts_requests"][<<b, n>>]])
    <2> DEFINE f == [b \in Buckets |-> z["ts_requests"][<<b, n>>]]
    <2>1. /\ "ts_requests" \in Metrics!Fields(s) /\ "service" \in Metrics!Fields(s)
          /\ n \in Metrics!Keys("service")
          /\ \A b \in Buckets : <<b, n>> \in Metrics!Keys("ts_requests")
      BY <1>10, FieldsAndKeys DEF Metrics!Names
    <2>2. z["service"][n] = 0 /\ f \in [Buckets -> {0}]
      BY <2>1, <1>4
    <2> HIDE DEF f
    <2>3. z["service"][n] = Metrics!Sum(f)
      BY <2>2, FiniteKeys, SumZero
    <2> QED BY <2>3 DEF f
  <1>11. ASSUME s = "metrics"
         PROVE  Metrics!Sum(z["ts_errors"]) =
                Metrics!Sum([x \in Statuses |-> IF x >= 500 THEN z["status"][x] ELSE 0])
    <2> DEFINE f == [x \in Statuses |-> IF x >= 500 THEN z["status"][x] ELSE 0]
    <2>1. /\ "ts_errors" \in Metrics!Fields(s) /\ "status" \in Metrics!Fields(s)
          /\ Metrics!Keys("status") = Statuses
      BY <1>11, FieldsAndKeys
    <2>2. f \in [Statuses -> {0}]
      BY <2>1, <1>4
    <2> HIDE DEF f
    <2>3. Metrics!Sum(z["ts_errors"]) = Metrics!Sum(f)
      BY <2>1, <2>2, <1>5, FiniteKeys, SumZero
    <2> QED BY <2>3 DEF f
  <1>12. ASSUME s = "metrics", NEW b \in Buckets
         PROVE  Metrics!Sum([m \in Metrics!Names |-> z["ts_requests"][<<b, m>>]]) =
                Metrics!Sum([x \in Statuses |-> z["ts_status"][<<b, x>>]])
    <2> DEFINE f == [m \in Metrics!Names |-> z["ts_requests"][<<b, m>>]]
               g == [x \in Statuses |-> z["ts_status"][<<b, x>>]]
    <2>1. /\ "ts_requests" \in Metrics!Fields(s) /\ "ts_status" \in Metrics!Fields(s)
          /\ \A m \in Metrics!Names : <<b, m>> \in Metrics!Keys("ts_requests")
          /\ \A x \in Statuses : <<b, x>> \in Metrics!Keys("ts_status")
      BY <1>12, FieldsAndKeys
    <2>2. f \in [Metrics!Names -> {0}] /\ g \in [Statuses -> {0}]
      BY <2>1, <1>4
    <2> HIDE DEF f, g
    <2>3. Metrics!Sum(f) = Metrics!Sum(g)
      BY <2>2, FiniteKeys, SumZero
    <2> QED BY <2>3 DEF f, g
  <1>13. Agree(s, z)
    BY <1>5, <1>7, <1>8, <1>9, <1>10, <1>11, <1>12, FiniteKeys DEF Agree
  <1> QED BY <1>1, <1>6, <1>7, <1>13

\* What one request counts.
One(s, r) ==
    [f \in Metrics!Fields(s) |->
        [k \in Metrics!Keys(f) |-> IF k \in Metrics!Counted(f, r) THEN 1 ELSE 0]]

\* The sum of what one request counts once, where it counts it.
LEMMA SumUnit ==
    ASSUME NEW D, IsFiniteSet(D), NEW e, NEW f, f = [x \in D |-> IF x = e THEN 1 ELSE 0]
    PROVE  Metrics!Sum(f) = IF e \in D THEN 1 ELSE 0
  <1>1. CASE e \in D
    BY <1>1, SumOne
  <1>2. CASE e \notin D
    <2>1. f \in [D -> {0}]
      BY <1>2
    <2> QED BY <1>2, <2>1, SumZero
  <1> QED BY <1>1, <1>2

\* Being the only key that is counted.
LEMMA OnlyKey ==
    ASSUME NEW f, NEW K, NEW C, f = [k \in K |-> IF k \in C THEN 1 ELSE 0], NEW e, C = {e}
    PROVE  f = [k \in K |-> IF k = e THEN 1 ELSE 0]
  OBVIOUS

\* One request is counted once, under counters that agree.
LEMMA OneAgrees ==
    ASSUME NEW s \in Metrics!Sinks, NEW r \in Metrics!Results
    PROVE  /\ Counters(s, One(s, r)) /\ Agree(s, One(s, r))
           /\ Metrics!Total(One(s, r)) = 1
  <1>1. PICK z : z = One(s, r)
    OBVIOUS
  <1>2. z = [f \in Metrics!Fields(s) |->
              [k \in Metrics!Keys(f) |-> IF k \in Metrics!Counted(f, r) THEN 1 ELSE 0]]
    BY <1>1 DEF One
  <1>3. \A f \in Metrics!Fields(s) :
          z[f] = [k \in Metrics!Keys(f) |-> IF k \in Metrics!Counted(f, r) THEN 1 ELSE 0]
    BY <1>2
  <1>4. PICK n, x, b : n = r.service /\ x = r.status /\ b = r.bucket
    OBVIOUS
  <1>5. n \in Metrics!Names /\ x \in Statuses /\ b \in Buckets
    BY <1>4 DEF Metrics!Results
  <1>6. /\ Metrics!Counted("total", r) = {"all"} /\ Metrics!Counted("status", r) = {x}
        /\ Metrics!Counted("names", r) = {n} /\ Metrics!Counted("service", r) = {n} \cap Services
        /\ Metrics!Counted("rps", r) = {n} \cap Services
        /\ Metrics!Counted("ts_requests", r) = {<<b, n>>}
        /\ Metrics!Counted("ts_latency_count", r) = {<<b, n>>}
        /\ Metrics!Counted("ts_status", r) = {<<b, x>>}
        /\ Metrics!Counted("ts_errors", r) = IF x >= 500 THEN {<<b, n>>} ELSE {}
    BY <1>4 DEF Metrics!Counted
  <1>7. Counters(s, z)
    <2>1. \A f \in Metrics!Fields(s) : z[f] \in [Metrics!Keys(f) -> Nat]
      <3> SUFFICES ASSUME NEW f \in Metrics!Fields(s) PROVE z[f] \in [Metrics!Keys(f) -> Nat]
        OBVIOUS
      <3>1. PICK g, K : g = z[f] /\ K = Metrics!Keys(f)
        OBVIOUS
      <3>2. PICK C : C = Metrics!Counted(f, r)
        OBVIOUS
      <3>3. z[f] = [k \in Metrics!Keys(f) |-> IF k \in Metrics!Counted(f, r) THEN 1 ELSE 0]
        BY <1>3
      <3>4. g = [k \in K |-> IF k \in C THEN 1 ELSE 0]
        BY <3>1, <3>2, <3>3
      <3>5. g \in [K -> Nat]
        BY <3>4
      <3> QED BY <3>1, <3>5
    <2>2. z = [f \in Metrics!Fields(s) |-> z[f]]
      BY <1>2
    <2> QED BY <2>1, <2>2 DEF Counters
  <1>8. Metrics!Total(z) = 1
    <2>1. "total" \in Metrics!Fields(s) /\ "all" \in Metrics!Keys("total")
      BY FiniteKeys, FieldsAndKeys
    <2>2. "all" \in Metrics!Counted("total", r)
      BY <1>6
    <2>3. z["total"] =
          [k \in Metrics!Keys("total") |-> IF k \in Metrics!Counted("total", r) THEN 1 ELSE 0]
      BY <1>3, <2>1
    <2>4. z["total"]["all"] = 1
      BY <2>1, <2>2, <2>3
    <2> QED BY <2>4 DEF Metrics!Total
  <1>9. Metrics!Sum(z["status"]) = 1
    <2>1. z["status"] = [y \in Statuses |-> IF y = x THEN 1 ELSE 0]
      BY <1>3, <1>6, FiniteKeys, FieldsAndKeys
    <2> QED BY <2>1, <1>5, FiniteKeys, SumUnit
  <1>10. ASSUME s = "traffic" PROVE Metrics!Sum(z["names"]) = 1
    <2>1. z["names"] = [y \in Metrics!Names |-> IF y = n THEN 1 ELSE 0]
      BY <1>3, <1>6, <1>10, FiniteKeys, FieldsAndKeys
    <2> QED BY <2>1, <1>5, FiniteKeys, SumUnit
  <1>11. ASSUME s = "metrics"
         PROVE  /\ z["ts_requests"] = [k \in Buckets \X Metrics!Names |-> IF k = <<b, n>> THEN 1 ELSE 0]
                /\ z["ts_latency_count"] = z["ts_requests"]
                /\ z["ts_status"] = [k \in Buckets \X Statuses |-> IF k = <<b, x>> THEN 1 ELSE 0]
                /\ z["service"] = [m \in Services |-> IF m = n THEN 1 ELSE 0]
                /\ z["rps"] = z["service"]
                /\ z["ts_errors"] =
                   [k \in Buckets \X Metrics!Names |-> IF x >= 500 /\ k = <<b, n>> THEN 1 ELSE 0]
    <2>1. \A f \in {"ts_requests", "ts_status", "ts_latency_count", "service", "rps", "ts_errors"} :
            f \in Metrics!Fields(s)
      BY <1>11, FieldsAndKeys
    <2>2. z["ts_requests"] = [k \in Buckets \X Metrics!Names |-> IF k = <<b, n>> THEN 1 ELSE 0]
      <3>1. PICK K : K = Metrics!Keys("ts_requests")
        OBVIOUS
      <3>2. PICK C : C = Metrics!Counted("ts_requests", r)
        OBVIOUS
      <3>3. z["ts_requests"] = [k \in K |-> IF k \in C THEN 1 ELSE 0]
        BY <2>1, <3>1, <3>2, <1>3
      <3>4. PICK e : e = <<b, n>>
        OBVIOUS
      <3>5. z["ts_requests"] = [k \in K |-> IF k = e THEN 1 ELSE 0]
        BY <3>2, <3>3, <3>4, <1>6, OnlyKey
      <3> QED BY <3>1, <3>4, <3>5, FieldsAndKeys
    <2>3. z["ts_latency_count"] = [k \in Buckets \X Metrics!Names |-> IF k = <<b, n>> THEN 1 ELSE 0]
      <3>1. PICK K : K = Metrics!Keys("ts_latency_count")
        OBVIOUS
      <3>2. PICK C : C = Metrics!Counted("ts_latency_count", r)
        OBVIOUS
      <3>3. z["ts_latency_count"] = [k \in K |-> IF k \in C THEN 1 ELSE 0]
        BY <2>1, <3>1, <3>2, <1>3
      <3>4. PICK e : e = <<b, n>>
        OBVIOUS
      <3>5. z["ts_latency_count"] = [k \in K |-> IF k = e THEN 1 ELSE 0]
        BY <3>2, <3>3, <3>4, <1>6, OnlyKey
      <3> QED BY <3>1, <3>4, <3>5, FieldsAndKeys
    <2>4. z["ts_status"] = [k \in Buckets \X Statuses |-> IF k = <<b, x>> THEN 1 ELSE 0]
      <3>1. PICK K : K = Metrics!Keys("ts_status")
        OBVIOUS
      <3>2. PICK C : C = Metrics!Counted("ts_status", r)
        OBVIOUS
      <3>3. z["ts_status"] = [k \in K |-> IF k \in C THEN 1 ELSE 0]
        BY <2>1, <3>1, <3>2, <1>3
      <3>4. PICK e : e = <<b, x>>
        OBVIOUS
      <3>5. z["ts_status"] = [k \in K |-> IF k = e THEN 1 ELSE 0]
        BY <3>2, <3>3, <3>4, <1>6, OnlyKey
      <3> QED BY <3>1, <3>4, <3>5, FieldsAndKeys
    <2>5. z["service"] = [m \in Services |-> IF m = n THEN 1 ELSE 0]
      BY <2>1, <1>3, <1>6, FieldsAndKeys
    <2>6. z["rps"] = [m \in Services |-> IF m = n THEN 1 ELSE 0]
      BY <2>1, <1>3, <1>6, FieldsAndKeys
    <2>7. z["ts_errors"] =
          [k \in Buckets \X Metrics!Names |-> IF x >= 500 /\ k = <<b, n>> THEN 1 ELSE 0]
      BY <2>1, <1>3, <1>6, FieldsAndKeys
    <2> QED BY <2>2, <2>3, <2>4, <2>5, <2>6, <2>7
  <1>12. IsFiniteSet(Buckets \X Statuses) /\ IsFiniteSet(Buckets \X Metrics!Names)
    BY FiniteKeys, FS_Product
  <1>13. ASSUME s = "metrics"
         PROVE  Metrics!Sum(z["ts_requests"]) = 1 /\ Metrics!Sum(z["ts_status"]) = 1
    <2>1. <<b, n>> \in Buckets \X Metrics!Names /\ <<b, x>> \in Buckets \X Statuses
      BY <1>5
    <2>2. Metrics!Sum(z["ts_requests"]) = 1
      BY <1>11, <1>12, <1>13, <2>1, SumUnit
    <2>3. Metrics!Sum(z["ts_status"]) = 1
      BY <1>11, <1>12, <1>13, <2>1, SumUnit
    <2> QED BY <2>2, <2>3
  <1>14. ASSUME s = "metrics", NEW m \in Services
         PROVE  z["service"][m] = Metrics!Sum([d \in Buckets |-> z["ts_requests"][<<d, m>>]])
    <2> DEFINE f == [d \in Buckets |-> z["ts_requests"][<<d, m>>]]
    <2>1. m \in Metrics!Names
      BY DEF Metrics!Names
    <2>2. \A d \in Buckets : z["ts_requests"][<<d, m>>] = IF d = b /\ m = n THEN 1 ELSE 0
      BY <1>11, <1>14, <2>1
    <2>3. CASE m = n
      <3>1. f = [d \in Buckets |-> IF d = b THEN 1 ELSE 0]
        BY <2>2, <2>3
      <3> HIDE DEF f
      <3>2. Metrics!Sum(f) = 1
        BY <3>1, <1>5, FiniteKeys, SumUnit
      <3>3. z["service"][m] = 1
        BY <1>11, <1>14, <2>3
      <3> QED BY <3>2, <3>3 DEF f
    <2>4. CASE m # n
      <3>1. f \in [Buckets -> {0}]
        BY <2>2, <2>4
      <3> HIDE DEF f
      <3>2. Metrics!Sum(f) = 0
        BY <3>1, FiniteKeys, SumZero
      <3>3. z["service"][m] = 0
        BY <1>11, <1>14, <2>4
      <3> QED BY <3>2, <3>3 DEF f
    <2> QED BY <2>3, <2>4
  <1>15. ASSUME s = "metrics"
         PROVE  Metrics!Sum(z["ts_errors"]) =
                Metrics!Sum([y \in Statuses |-> IF y >= 500 THEN z["status"][y] ELSE 0])
    <2> DEFINE f == [y \in Statuses |-> IF y >= 500 THEN z["status"][y] ELSE 0]
    <2>1. z["status"] = [y \in Statuses |-> IF y = x THEN 1 ELSE 0]
      BY <1>3, <1>6, FiniteKeys, FieldsAndKeys
    <2>2. <<b, n>> \in Buckets \X Metrics!Names
      BY <1>5
    <2>3. CASE x >= 500
      <3>1. f = [y \in Statuses |-> IF y = x THEN 1 ELSE 0]
        BY <2>1, <2>3
      <3>2. z["ts_errors"] = [k \in Buckets \X Metrics!Names |-> IF k = <<b, n>> THEN 1 ELSE 0]
        BY <1>11, <1>15, <2>3
      <3> HIDE DEF f
      <3>3. Metrics!Sum(f) = 1
        BY <3>1, <1>5, FiniteKeys, SumUnit
      <3>4. Metrics!Sum(z["ts_errors"]) = 1
        BY <3>2, <2>2, <1>12, SumUnit
      <3> QED BY <3>3, <3>4 DEF f
    <2>4. CASE ~(x >= 500)
      <3>1. f \in [Statuses -> {0}]
        BY <2>1, <2>4
      <3>2. z["ts_errors"] \in [Buckets \X Metrics!Names -> {0}]
        BY <1>11, <1>15, <2>4
      <3> HIDE DEF f
      <3>3. Metrics!Sum(f) = 0
        BY <3>1, FiniteKeys, SumZero
      <3>4. Metrics!Sum(z["ts_errors"]) = 0
        BY <3>2, <1>12, SumZero
      <3> QED BY <3>3, <3>4 DEF f
    <2> QED BY <2>3, <2>4
  <1>16. ASSUME s = "metrics", NEW d \in Buckets
         PROVE  Metrics!Sum([m \in Metrics!Names |-> z["ts_requests"][<<d, m>>]]) =
                Metrics!Sum([y \in Statuses |-> z["ts_status"][<<d, y>>]])
    <2> DEFINE f == [m \in Metrics!Names |-> z["ts_requests"][<<d, m>>]]
               g == [y \in Statuses |-> z["ts_status"][<<d, y>>]]
    <2>1. /\ \A m \in Metrics!Names :
                z["ts_requests"][<<d, m>>] = IF d = b /\ m = n THEN 1 ELSE 0
          /\ \A y \in Statuses : z["ts_status"][<<d, y>>] = IF d = b /\ y = x THEN 1 ELSE 0
      BY <1>11, <1>16
    <2>2. CASE d = b
      <3>1. /\ f = [m \in Metrics!Names |-> IF m = n THEN 1 ELSE 0]
            /\ g = [y \in Statuses |-> IF y = x THEN 1 ELSE 0]
        BY <2>1, <2>2
      <3> HIDE DEF f, g
      <3>2. Metrics!Sum(f) = 1
        BY <3>1, <1>5, FiniteKeys, SumUnit
      <3>3. Metrics!Sum(g) = 1
        BY <3>1, <1>5, FiniteKeys, SumUnit
      <3> QED BY <3>2, <3>3 DEF f, g
    <2>3. CASE d # b
      <3>1. f \in [Metrics!Names -> {0}] /\ g \in [Statuses -> {0}]
        BY <2>1, <2>3
      <3> HIDE DEF f, g
      <3>2. Metrics!Sum(f) = 0 /\ Metrics!Sum(g) = 0
        BY <3>1, FiniteKeys, SumZero
      <3> QED BY <3>2 DEF f, g
    <2> QED BY <2>2, <2>3
  <1>17. Agree(s, z)
    BY <1>8, <1>9, <1>10, <1>11, <1>13, <1>14, <1>15, <1>16 DEF Agree
  <1> QED BY <1>1, <1>7, <1>8, <1>17

\* Recording a request adds what it counts.
LEMMA AddIsPlusOne ==
    ASSUME NEW s \in Metrics!Sinks, NEW c, Counters(s, c), NEW r \in Metrics!Results
    PROVE  Metrics!Add(c, r) = Metrics!Plus(c, One(s, r))
  <1>1. DOMAIN c = Metrics!Fields(s) /\ \A f \in Metrics!Fields(s) : DOMAIN c[f] = Metrics!Keys(f)
    BY CountersType
  <1>2. \A f \in DOMAIN c : \A k \in DOMAIN c[f] :
          One(s, r)[f][k] = IF k \in Metrics!Counted(f, r) THEN 1 ELSE 0
    BY <1>1 DEF One
  <1> QED BY <1>2 DEF Metrics!Add, Metrics!Plus

\* So what agrees still does when a request is recorded, and one more is counted.
LEMMA AddAgrees ==
    ASSUME NEW s \in Metrics!Sinks, NEW c, Counters(s, c), Agree(s, c), NEW r \in Metrics!Results
    PROVE  /\ Counters(s, Metrics!Add(c, r)) /\ Agree(s, Metrics!Add(c, r))
           /\ Metrics!Total(Metrics!Add(c, r)) = Metrics!Total(c) + 1
  <1>1. /\ Counters(s, One(s, r)) /\ Agree(s, One(s, r))
        /\ Metrics!Total(One(s, r)) = 1
    BY OneAgrees
  <1>2. PICK p : p = Metrics!Plus(c, One(s, r))
    OBVIOUS
  <1>3. Counters(s, p) /\ Agree(s, p)
    BY <1>1, <1>2, PlusAgrees
  <1>4. Metrics!Total(p) = Metrics!Total(c) + 1
    BY <1>1, <1>2, PlusFields
  <1> QED BY <1>2, <1>3, <1>4, AddIsPlusOne

----------------------------------------------------------------------------
(* The steps of the counters *)

\* Nothing has been counted at the start.
LEMMA CountsInit == PartInit => CountsInv
  <1> SUFFICES ASSUME PartInit PROVE CountsInv
    OBVIOUS
  <1>1. Metrics!Init
    BY DEF PartInit
  <1>2. Agreement
    <2>1. /\ DOMAIN buffer = Metrics!Sinks /\ DOMAIN batch = Metrics!Sinks
          /\ DOMAIN stored = Metrics!Sinks
          /\ \A s \in Metrics!Sinks : /\ buffer[s] = Metrics!Zero(s) /\ batch[s] = Metrics!Zero(s)
                                      /\ stored[s] = Metrics!Zero(s)
      BY <1>1 DEF Metrics!Init
    <2>2. \A s \in Metrics!Sinks : Sound(s, Metrics!Zero(s))
      BY ZeroAgrees DEF Sound
    <2> QED BY <2>1, <2>2 DEF Agreement
  <1>3. Accounted
    <2>1. \A s \in Metrics!Sinks : Metrics!Total(Metrics!Zero(s)) = 0
      BY ZeroAgrees
    <2> QED BY <1>1, <2>1 DEF Metrics!Init, Accounted
  <1>4. Flow
    BY <1>1 DEF Metrics!Init, Flow
  <1> QED BY <1>2, <1>3, <1>4 DEF CountsInv

\* What is stored never shrinks.
Grows ==
    \A f \in Metrics!Fields("metrics") : \A k \in Metrics!Keys(f) :
        stored["metrics"][f][k] <= stored'["metrics"][f][k]

\* ... and stays when a step leaves it alone.
LEMMA StoredStays ==
    ASSUME Agreement, stored' = stored
    PROVE  Grows
  <1>1. "metrics" \in Metrics!Sinks
    BY FieldsAndKeys
  <1>2. \A f \in Metrics!Fields("metrics") : stored["metrics"][f] \in [Metrics!Keys(f) -> Nat]
    BY <1>1, CountersType DEF Agreement, Sound
  <1>3. \A f \in Metrics!Fields("metrics") : \A k \in Metrics!Keys(f) :
          stored["metrics"][f][k] \in Nat
    BY <1>2
  <1> QED BY <1>3 DEF Grows

\* What a flush takes is still counted, in the batch.
LEMMA TakeKeeps ==
    ASSUME CountsInv, NEW s \in Metrics!Sinks, ~Held(s), NEW next, Metrics!Take(s, next),
           UNCHANGED <<stored, recorded, lost>>
    PROVE  /\ Agreement' /\ Accounted' /\ Grows
           /\ loop' = [t \in Metrics!Sinks |-> loop'[t]] /\ loop'[s] = next
           /\ \A t \in Metrics!Sinks : t # s => batch'[t] = batch[t] /\ loop'[t] = loop[t]
  <1>1. /\ DOMAIN buffer = Metrics!Sinks /\ DOMAIN batch = Metrics!Sinks
        /\ DOMAIN loop = Metrics!Sinks
    BY DEF CountsInv, Agreement, Flow
  <1>2. /\ DOMAIN buffer' = Metrics!Sinks /\ DOMAIN batch' = Metrics!Sinks
        /\ loop' = [t \in Metrics!Sinks |-> loop'[t]]
        /\ buffer'[s] = Metrics!Zero(s) /\ batch'[s] = buffer[s] /\ loop'[s] = next
        /\ \A t \in Metrics!Sinks : t # s =>
              batch'[t] = batch[t] /\ loop'[t] = loop[t] /\ buffer'[t] = buffer[t]
    BY <1>1 DEF Metrics!Take, Metrics!Cleared, Metrics!Taken
  <1>3. Sound(s, Metrics!Zero(s)) /\ Metrics!Total(Metrics!Zero(s)) = 0
    BY ZeroAgrees DEF Sound
  <1>4. Agreement'
    <2>1. DOMAIN stored' = Metrics!Sinks
      BY DEF CountsInv, Agreement
    <2>2. \A t \in Metrics!Sinks :
            Sound(t, buffer'[t]) /\ Sound(t, batch'[t]) /\ Sound(t, stored'[t])
      BY <1>2, <1>3 DEF CountsInv, Agreement
    <2> QED BY <1>2, <2>1, <2>2 DEF Agreement, Sound, Counters, Agree
  <1>5. Accounted'
    <2>1. batch[s] = Metrics!Zero(s)
      BY DEF CountsInv, Flow
    <2>2. Metrics!Total(buffer[s]) \in Nat
      BY CountersType DEF CountsInv, Agreement, Sound
    <2>3. ASSUME NEW t \in Metrics!Sinks
          PROVE  /\ lost'[t] \in Nat
                 /\ recorded' = Metrics!Total(buffer'[t]) + Metrics!Total(batch'[t])
                                + Metrics!Total(stored'[t]) + lost'[t]
      <3>1. CASE t = s
        BY <3>1, <1>2, <1>3, <2>1, <2>2 DEF CountsInv, Accounted
      <3>2. CASE t # s
        BY <3>2, <1>2 DEF CountsInv, Accounted
      <3> QED BY <3>1, <3>2
    <2> QED BY <2>3 DEF CountsInv, Accounted, Metrics!Total
  <1>6. Grows
    BY StoredStays DEF CountsInv
  <1> QED BY <1>2, <1>4, <1>5, <1>6

\* What becomes of a batch: it has arrived, or it is lost; nothing else changes.
LEMMA SettleKeeps ==
    ASSUME CountsInv, NEW s \in Metrics!Sinks, NEW applied \in BOOLEAN, NEW next,
           Metrics!Settle(s, applied, next), UNCHANGED <<buffer, recorded>>
    PROVE  /\ Agreement' /\ Accounted' /\ Grows
           /\ loop' = [t \in Metrics!Sinks |-> loop'[t]] /\ loop'[s] = next /\ batch'[s] = Metrics!Zero(s)
           /\ applied => lost' = lost
           /\ \A t \in Metrics!Sinks : t # s =>
                 batch'[t] = batch[t] /\ loop'[t] = loop[t] /\ lost'[t] = lost[t]
  <1>1. /\ DOMAIN stored = Metrics!Sinks /\ DOMAIN batch = Metrics!Sinks
        /\ DOMAIN loop = Metrics!Sinks /\ DOMAIN lost = Metrics!Sinks
    BY DEF CountsInv, Agreement, Flow, Accounted
  <1>2. /\ DOMAIN stored' = Metrics!Sinks /\ DOMAIN batch' = Metrics!Sinks
        /\ loop' = [t \in Metrics!Sinks |-> loop'[t]] /\ DOMAIN lost' = Metrics!Sinks
        /\ batch'[s] = Metrics!Zero(s) /\ loop'[s] = next
        /\ applied => stored'[s] = Metrics!Plus(stored[s], batch[s]) /\ lost' = lost
        /\ ~applied => stored' = stored /\ lost'[s] = lost[s] + Metrics!Total(batch[s])
        /\ \A t \in Metrics!Sinks : t # s =>
              /\ batch'[t] = batch[t] /\ loop'[t] = loop[t] /\ lost'[t] = lost[t]
              /\ stored'[t] = stored[t]
    BY <1>1 DEF Metrics!Settle
  <1>3. Sound(s, Metrics!Zero(s)) /\ Metrics!Total(Metrics!Zero(s)) = 0
    BY ZeroAgrees DEF Sound
  <1>4. PICK p : p = Metrics!Plus(stored[s], batch[s])
    OBVIOUS
  <1>5. Counters(s, stored[s]) /\ Agree(s, stored[s]) /\ Counters(s, batch[s]) /\ Agree(s, batch[s])
    BY DEF CountsInv, Agreement, Sound
  <1>6. Sound(s, p)
    BY <1>4, <1>5, PlusAgrees DEF Sound
  <1>7. Metrics!Total(p) = Metrics!Total(stored[s]) + Metrics!Total(batch[s])
    BY <1>4, <1>5, PlusFields
  <1>8. Agreement'
    <2>1. DOMAIN buffer' = Metrics!Sinks
      BY DEF CountsInv, Agreement
    <2>2. ASSUME NEW t \in Metrics!Sinks
          PROVE  Sound(t, buffer'[t]) /\ Sound(t, batch'[t]) /\ Sound(t, stored'[t])
      BY <1>2, <1>3, <1>4, <1>6 DEF CountsInv, Agreement
    <2> QED BY <1>2, <2>1, <2>2 DEF Agreement, Sound, Counters, Agree
  <1>9. Accounted'
    <2>1. /\ Metrics!Total(stored[s]) \in Nat /\ Metrics!Total(batch[s]) \in Nat
          /\ Metrics!Total(buffer[s]) \in Nat
      BY CountersType DEF CountsInv, Agreement, Sound
    <2>2. ASSUME NEW t \in Metrics!Sinks
          PROVE  /\ lost'[t] \in Nat
                 /\ recorded' = Metrics!Total(buffer'[t]) + Metrics!Total(batch'[t])
                                + Metrics!Total(stored'[t]) + lost'[t]
      <3>1. CASE t = s
        <4>1. /\ recorded = Metrics!Total(buffer[s]) + Metrics!Total(batch[s])
                            + Metrics!Total(stored[s]) + lost[s]
              /\ lost[s] \in Nat
          BY DEF CountsInv, Accounted
        <4>2. CASE applied
          BY <4>1, <4>2, <3>1, <1>2, <1>3, <1>4, <1>7, <2>1
        <4>3. CASE ~applied
          BY <4>1, <4>3, <3>1, <1>2, <1>3, <2>1
        <4> QED BY <4>2, <4>3
      <3>2. CASE t # s
        BY <3>2, <1>2 DEF CountsInv, Accounted
      <3> QED BY <3>1, <3>2
    <2> QED BY <1>2, <2>2 DEF Accounted, Metrics!Total
  <1>10. Grows
    <2>1. CASE s = "metrics" /\ applied
      <3>1. ASSUME NEW f \in Metrics!Fields(s), NEW k \in Metrics!Keys(f)
            PROVE  stored[s][f][k] <= p[f][k]
        <4>1. /\ stored[s][f][k] \in Nat /\ batch[s][f][k] \in Nat
              /\ p[f][k] = stored[s][f][k] + batch[s][f][k]
          BY <1>4, <1>5, PlusCells
        <4> QED BY <4>1
      <3> QED BY <2>1, <3>1, <1>2, <1>4 DEF Grows
    <2>2. CASE s # "metrics" /\ applied
      <3>1. stored'["metrics"] = stored["metrics"] /\ "metrics" \in Metrics!Sinks
        BY <2>2, <1>2, FieldsAndKeys
      <3>2. \A f \in Metrics!Fields("metrics") : stored["metrics"][f] \in [Metrics!Keys(f) -> Nat]
        BY <3>1, CountersType DEF CountsInv, Agreement, Sound
      <3>3. \A f \in Metrics!Fields("metrics") : \A k \in Metrics!Keys(f) :
              stored["metrics"][f][k] \in Nat
        BY <3>2
      <3> QED BY <3>1, <3>3 DEF Grows
    <2>3. CASE ~applied
      BY <2>3, <1>2, StoredStays DEF CountsInv
    <2> QED BY <2>1, <2>2, <2>3
  <1> QED BY <1>2, <1>8, <1>9, <1>10

\* A request is recorded by both sinks.
LEMMA RecordKeeps ==
    ASSUME CountsInv, NEW r \in Metrics!Results, Metrics!Record(r), load' = load
    PROVE  CountsInv' /\ Grows
  <1>1. /\ DOMAIN buffer' = Metrics!Sinks
        /\ \A s \in Metrics!Sinks : buffer'[s] = Metrics!Add(buffer[s], r)
    BY DEF Metrics!Record
  <1>2. UNCHANGED <<batch, loop, stored, stopping, lost, faults>> /\ recorded' = recorded + 1
    BY DEF Metrics!Record
  <1>3. \A s \in Metrics!Sinks : /\ Sound(s, buffer'[s])
                                 /\ Metrics!Total(buffer'[s]) = Metrics!Total(buffer[s]) + 1
                                 /\ Metrics!Total(buffer[s]) \in Nat
                                 /\ Metrics!Total(batch[s]) \in Nat
                                 /\ Metrics!Total(stored[s]) \in Nat
    <2> SUFFICES ASSUME NEW s \in Metrics!Sinks
                 PROVE  /\ Sound(s, buffer'[s])
                        /\ Metrics!Total(buffer'[s]) = Metrics!Total(buffer[s]) + 1
                        /\ Metrics!Total(buffer[s]) \in Nat
                        /\ Metrics!Total(batch[s]) \in Nat
                        /\ Metrics!Total(stored[s]) \in Nat
      OBVIOUS
    <2>1. Counters(s, buffer[s]) /\ Agree(s, buffer[s]) /\ Counters(s, batch[s]) /\ Counters(s, stored[s])
      BY DEF CountsInv, Agreement, Sound
    <2> QED BY <2>1, <1>1, AddAgrees, CountersType DEF Sound
  <1>4. Agreement'
    <2>1. \A s \in Metrics!Sinks :
            Sound(s, buffer'[s]) /\ Sound(s, batch'[s]) /\ Sound(s, stored'[s])
      BY <1>2, <1>3 DEF CountsInv, Agreement
    <2> QED BY <1>1, <1>2, <2>1 DEF CountsInv, Agreement, Sound, Counters, Agree
  <1>5. Accounted'
    <2>1. \A s \in Metrics!Sinks :
            /\ lost'[s] \in Nat
            /\ recorded' = Metrics!Total(buffer'[s]) + Metrics!Total(batch'[s])
                           + Metrics!Total(stored'[s]) + lost'[s]
      BY <1>2, <1>3 DEF CountsInv, Accounted
    <2> QED BY <1>2, <2>1 DEF CountsInv, Accounted, Metrics!Total
  <1>7. Flow'
    BY <1>2 DEF CountsInv, Flow, Held, Metrics!Zero
  <1>8. Grows
    BY <1>2, StoredStays DEF CountsInv
  <1> QED BY <1>4, <1>5, <1>7, <1>8 DEF CountsInv

\* The flow of the counts is as before when only one sink has moved, what it
\* held is empty or held, and losses are excused.
LEMMA FlowKept ==
    ASSUME CountsInv, NEW s \in Metrics!Sinks, load' = load, faults' \in Nat,
           faults > 0 => faults' > 0, loop' = [t \in Metrics!Sinks |-> loop'[t]],
           loop'[s] \in {"sleep", "executing", "dead", "ended", "cut"},
           \A t \in Metrics!Sinks : t # s =>
              /\ batch'[t] = batch[t] /\ loop'[t] = loop[t] /\ lost'[t] = lost[t]
              /\ Held(t) => Held(t)',
           lost'[s] > 0 => faults' > 0 \/ loop'[s] = "cut",
           Held(s)' \/ batch'[s] = Metrics!Zero(s),
           stopping' \in {"cancelled metrics", "cancelled both", "flushing", "closed"} =>
              loop'["metrics"] \in {"ended", "cut"}
    PROVE  Flow'
  <1>1. Flow
    BY DEF CountsInv
  <1>2. ASSUME NEW t \in Metrics!Sinks
        PROVE  /\ lost'[t] > 0 => faults' > 0 \/ loop'[t] = "cut"
               /\ ~Held(t)' => batch'[t] = Metrics!Zero(t)
    <2>1. CASE t = s
      BY <2>1
    <2>2. CASE t # s
      BY <1>1, <2>2 DEF Flow
    <2> QED BY <2>1, <2>2
  <1>3. loop' \in [Metrics!Sinks -> {"sleep", "executing", "dead", "ended", "cut"}]
    <2>1. \A t \in Metrics!Sinks : loop'[t] \in {"sleep", "executing", "dead", "ended", "cut"}
      BY <1>1 DEF Flow
    <2> QED BY <2>1
  <1>4. load' \in Loads
    BY <1>1 DEF Flow
  <1> QED BY <1>2, <1>3, <1>4 DEF Flow, Metrics!Zero, Held

\* The loop of a sink takes what is buffered.
LEMMA FlushKeeps ==
    ASSUME CountsInv, NEW s \in Metrics!Sinks, Metrics!Flush(s), load' = load
    PROVE  CountsInv' /\ Grows
  <1>1. /\ loop[s] = "sleep" /\ Metrics!Take(s, "executing")
        /\ UNCHANGED <<stored, stopping, recorded, lost, faults>>
    BY DEF Metrics!Flush
  <1>2. Flow /\ ~Held(s)
    BY <1>1 DEF CountsInv, Flow, Held
  <1>3. /\ Agreement' /\ Accounted' /\ Grows
        /\ loop' = [t \in Metrics!Sinks |-> loop'[t]] /\ loop'[s] = "executing"
        /\ \A t \in Metrics!Sinks : t # s => batch'[t] = batch[t] /\ loop'[t] = loop[t]
    BY <1>1, <1>2, TakeKeeps
  <1>4. Flow'
    <2>1. "metrics" \in Metrics!Sinks
      BY FieldsAndKeys
    <2>2. stopping' \in {"cancelled metrics", "cancelled both", "flushing", "closed"} =>
             loop'["metrics"] \in {"ended", "cut"}
      BY <1>1, <1>2, <1>3, <2>1 DEF Flow
    <2>3. Held(s)'
      BY <1>3 DEF Held
    <2>4. lost'[s] > 0 => faults' > 0 \/ loop'[s] = "cut"
      BY <1>1, <1>2 DEF Flow
    <2>5. \A t \in Metrics!Sinks : t # s => (Held(t) => Held(t)')
      BY <1>1, <1>3 DEF Held
    <2>6. faults' \in Nat /\ (faults > 0 => faults' > 0)
      BY <1>1, <1>2 DEF Flow
    <2> QED BY <1>1, <1>3, <2>2, <2>3, <2>4, <2>5, <2>6, FlowKept
  <1> QED BY <1>3, <1>4 DEF CountsInv

\* A loop's batch is settled, with a fault, or cut short, or with its arrival.
LEMMA LoopSettleKeeps ==
    ASSUME CountsInv, NEW s \in Metrics!Sinks, NEW applied \in BOOLEAN, NEW next,
           Metrics!Settle(s, applied, next), UNCHANGED <<buffer, recorded>>, load' = load,
           next \in {"sleep", "dead", "cut"}, loop[s] = "executing", faults' \in Nat, faults > 0 => faults' > 0,
           applied \/ faults' > 0 \/ next = "cut",
           stopping' = stopping \/ (next = "cut" /\ stopping # "flushing"),
           stopping' \in {"cancelled metrics", "cancelled both", "flushing", "closed"} =>
              \/ s = "metrics" /\ next = "cut"
              \/ stopping \in {"cancelled metrics", "cancelled both", "flushing", "closed"}
    PROVE  CountsInv' /\ Grows
  <1>1. /\ Agreement' /\ Accounted' /\ Grows
        /\ loop' = [t \in Metrics!Sinks |-> loop'[t]] /\ loop'[s] = next /\ batch'[s] = Metrics!Zero(s)
        /\ applied => lost' = lost
        /\ \A t \in Metrics!Sinks : t # s =>
              batch'[t] = batch[t] /\ loop'[t] = loop[t] /\ lost'[t] = lost[t]
    BY SettleKeeps
  <1>2. Flow
    BY DEF CountsInv
  <1>3. "metrics" \in Metrics!Sinks
    BY FieldsAndKeys
  <1>4. lost'[s] > 0 => faults' > 0 \/ loop'[s] = "cut"
    BY <1>1, <1>2 DEF Flow
  <1>5. \A t \in Metrics!Sinks : t # s => (Held(t) => Held(t)')
    BY <1>1 DEF Held
  <1>6. stopping' \in {"cancelled metrics", "cancelled both", "flushing", "closed"} =>
           loop'["metrics"] \in {"ended", "cut"}
    BY <1>1, <1>2, <1>3 DEF Flow
  <1>7. Flow'
    BY <1>1, <1>4, <1>5, <1>6, FlowKept
  <1> QED BY <1>1, <1>7 DEF CountsInv

\* What a loop had taken arrives.
LEMMA ExecutedKeeps ==
    ASSUME CountsInv, NEW s \in Metrics!Sinks, Metrics!Executed(s), load' = load
    PROVE  CountsInv' /\ Grows
  <1>1. /\ loop[s] = "executing" /\ Metrics!Settle(s, TRUE, "sleep")
        /\ UNCHANGED <<buffer, stopping, recorded, faults>>
    BY DEF Metrics!Executed
  <1>2. faults' \in Nat /\ (faults > 0 => faults' > 0)
    BY <1>1 DEF CountsInv, Flow
  <1> QED BY <1>1, <1>2, LoopSettleKeeps

\* Redis refuses it, or its answer is lost, and the loop ends.
LEMMA RedisFailsKeeps ==
    ASSUME CountsInv, NEW s \in Metrics!Sinks, NEW applied \in BOOLEAN,
           Metrics!RedisFails(s, applied), load' = load
    PROVE  CountsInv' /\ Grows
  <1>1. /\ loop[s] = "executing" /\ Metrics!Settle(s, applied, "dead")
        /\ faults' = faults + 1 /\ UNCHANGED <<buffer, stopping, recorded>>
    BY DEF Metrics!RedisFails, Metrics!Failed
  <1>2. faults \in Nat
    BY DEF CountsInv, Flow
  <1>3. faults' \in Nat /\ faults' > 0 /\ (faults > 0 => faults' > 0)
    BY <1>1, <1>2
  <1> QED BY <1>1, <1>3, LoopSettleKeeps

\* stop() cancels the loops, the one of the metrics first.
LEMMA CancelLoopKeeps ==
    ASSUME CountsInv, NEW s \in Metrics!Sinks, NEW applied \in BOOLEAN,
           Metrics!CancelLoop(s, applied), load' = load
    PROVE  CountsInv' /\ Grows
  <1>1. /\ stopping = IF s = "metrics" THEN "no" ELSE "cancelled metrics"
        /\ stopping' = IF loop[s] = "dead" THEN "raised"
                       ELSE IF s = "metrics" THEN "cancelled metrics" ELSE "cancelled both"
        /\ UNCHANGED <<buffer, recorded, faults>>
    BY DEF Metrics!CancelLoop
  <1>2. s \in {"metrics", "traffic"} /\ Flow
    BY FieldsAndKeys DEF CountsInv
  <1>3. CASE loop[s] = "executing"
    <2>1. Metrics!Settle(s, applied, "cut")
      BY <1>3 DEF Metrics!CancelLoop
    <2>2. stopping' = IF s = "metrics" THEN "cancelled metrics" ELSE "cancelled both"
      BY <1>1, <1>3
    <2>3. faults' \in Nat /\ (faults > 0 => faults' > 0)
      BY <1>1, <1>2 DEF Flow
    <2> QED BY <1>1, <1>2, <1>3, <2>1, <2>2, <2>3, LoopSettleKeeps
  <1>4. CASE loop[s] # "executing"
    <2>1. /\ loop' = [loop EXCEPT ![s] = IF @ = "sleep" THEN "ended" ELSE @]
          /\ UNCHANGED <<stored, lost, batch>>
      BY <1>4 DEF Metrics!CancelLoop
    <2>2. Agreement'
      BY <1>1, <2>1 DEF CountsInv, Agreement
    <2>3. Accounted'
      BY <1>1, <2>1 DEF CountsInv, Accounted, Metrics!Total
    <2>4. Grows
      BY <2>1, StoredStays DEF CountsInv
    <2>5. Flow'
      <3>1. /\ loop' = [t \in Metrics!Sinks |-> loop'[t]]
            /\ loop'[s] = IF loop[s] = "sleep" THEN "ended" ELSE loop[s]
            /\ \A t \in Metrics!Sinks : t # s => loop'[t] = loop[t]
        BY <1>2, <2>1 DEF Flow
      <3>2. batch'[s] = Metrics!Zero(s)
        <4>1. ~Held(s)
          BY <1>1, <1>2, <1>4 DEF Held
        <4> QED BY <4>1, <1>2, <2>1 DEF Flow
      <3>3. \A t \in Metrics!Sinks : t # s => (Held(t) => Held(t)')
        BY <1>1, <1>2, <3>1 DEF Held
      <3>4. lost'[s] > 0 => faults' > 0 \/ loop'[s] = "cut"
        BY <1>1, <1>2, <2>1, <3>1 DEF Flow
      <3>5. stopping' \in {"cancelled metrics", "cancelled both", "flushing", "closed"} =>
               loop'["metrics"] \in {"ended", "cut"}
        <4>1. CASE s = "metrics"
          <5>1. stopping' # "raised" => loop[s] # "dead"
            BY <1>1
          <5>2. loop[s] \in {"sleep", "executing", "dead", "ended", "cut"}
            BY <4>1, <1>2 DEF Flow
          <5> QED BY <5>1, <5>2, <4>1, <1>1, <1>4, <3>1
        <4>2. CASE s # "metrics"
          BY <4>2, <1>1, <1>2, <3>1, FieldsAndKeys DEF Flow
        <4> QED BY <4>1, <4>2
      <3>6. faults' \in Nat /\ (faults > 0 => faults' > 0)
        BY <1>1, <1>2 DEF Flow
      <3>7. loop'[s] \in {"sleep", "executing", "dead", "ended", "cut"}
        BY <1>2, <3>1 DEF Flow
      <3>8. \A t \in Metrics!Sinks : t # s =>
              /\ batch'[t] = batch[t] /\ loop'[t] = loop[t] /\ lost'[t] = lost[t]
              /\ Held(t) => Held(t)'
        BY <2>1, <3>1, <3>3
      <3> QED BY <3>1, <3>2, <3>4, <3>5, <3>6, <3>7, <3>8, FlowKept
    <2> QED BY <2>2, <2>3, <2>4, <2>5 DEF CountsInv
  <1> QED BY <1>3, <1>4

\* The last flush takes what the metrics still hold.
LEMMA FinalFlushKeeps ==
    ASSUME CountsInv, Metrics!FinalFlush, load' = load
    PROVE  CountsInv' /\ Grows
  <1>1. /\ stopping = "cancelled both" /\ stopping' = "flushing"
        /\ Metrics!Take("metrics", loop["metrics"])
        /\ UNCHANGED <<stored, recorded, lost, faults>>
    BY DEF Metrics!FinalFlush
  <1>2. Flow /\ "metrics" \in Metrics!Sinks
    BY FieldsAndKeys DEF CountsInv
  <1>3. ~Held("metrics")
    BY <1>1, <1>2 DEF Flow, Held
  <1>4. /\ Agreement' /\ Accounted' /\ Grows
        /\ loop' = [t \in Metrics!Sinks |-> loop'[t]] /\ loop'["metrics"] = loop["metrics"]
        /\ \A t \in Metrics!Sinks : t # "metrics" => batch'[t] = batch[t] /\ loop'[t] = loop[t]
    BY <1>1, <1>2, <1>3, TakeKeeps DEF Flow
  <1>5. Flow'
    <2>1. Held("metrics")'
      BY <1>1 DEF Held
    <2>2. \A t \in Metrics!Sinks : t # "metrics" => (Held(t) => Held(t)')
      BY <1>4 DEF Held
    <2>3. /\ lost'["metrics"] > 0 => faults' > 0 \/ loop'["metrics"] = "cut"
          /\ loop'["metrics"] \in {"ended", "cut"}
      BY <1>1, <1>2, <1>4 DEF Flow
    <2>4. faults' \in Nat /\ (faults > 0 => faults' > 0)
      BY <1>1, <1>2 DEF Flow
    <2> QED BY <1>1, <1>2, <1>4, <2>1, <2>2, <2>3, <2>4, FlowKept
  <1> QED BY <1>4, <1>5 DEF CountsInv

\* The last flush arrives, or stop() raises.
LEMMA FinalSettleKeeps ==
    ASSUME CountsInv, NEW applied \in BOOLEAN, Metrics!Settle("metrics", applied, loop["metrics"]),
           UNCHANGED <<buffer, recorded>>, load' = load,
           stopping = "flushing", faults' \in Nat, faults > 0 => faults' > 0,
           applied \/ faults' > 0
    PROVE  CountsInv' /\ Grows
  <1>1. Flow /\ "metrics" \in Metrics!Sinks
    BY FieldsAndKeys DEF CountsInv
  <1>2. /\ Agreement' /\ Accounted' /\ Grows
        /\ loop' = [t \in Metrics!Sinks |-> loop'[t]] /\ loop'["metrics"] = loop["metrics"]
        /\ batch'["metrics"] = Metrics!Zero("metrics")
        /\ applied => lost' = lost
        /\ \A t \in Metrics!Sinks : t # "metrics" =>
              batch'[t] = batch[t] /\ loop'[t] = loop[t] /\ lost'[t] = lost[t]
    BY <1>1, SettleKeeps
  <1>3. Flow'
    <2>1. \A t \in Metrics!Sinks : t # "metrics" => (Held(t) => Held(t)')
      BY <1>2 DEF Held
    <2>2. loop'["metrics"] \in {"ended", "cut"}
      BY <1>1, <1>2 DEF Flow
    <2>3. lost'["metrics"] > 0 => faults' > 0 \/ loop'["metrics"] = "cut"
      BY <1>1, <1>2 DEF Flow
    <2> QED BY <1>1, <1>2, <2>1, <2>2, <2>3, FlowKept
  <1> QED BY <1>2, <1>3 DEF CountsInv

\* Every step of the counters keeps the invariant, and Redis only gains.
LEMMA CountsStep ==
    ASSUME CountsInv, Metrics!Next
    PROVE  CountsInv' /\ Grows
  <1>1. load' = load /\ Metrics!Act
    BY DEF Metrics!Next
  <1>2. ASSUME NEW r \in Metrics!Results, Metrics!Record(r) PROVE CountsInv' /\ Grows
    BY <1>1, <1>2, RecordKeeps
  <1>3. ASSUME NEW s \in Metrics!Sinks, Metrics!Flush(s) PROVE CountsInv' /\ Grows
    BY <1>1, <1>3, FlushKeeps
  <1>4. ASSUME NEW s \in Metrics!Sinks, Metrics!Executed(s) PROVE CountsInv' /\ Grows
    BY <1>1, <1>4, ExecutedKeeps
  <1>5. ASSUME NEW s \in Metrics!Sinks, NEW applied \in BOOLEAN, Metrics!RedisFails(s, applied)
        PROVE  CountsInv' /\ Grows
    BY <1>1, <1>5, RedisFailsKeeps
  <1>6. ASSUME NEW s \in Metrics!Sinks, NEW applied \in BOOLEAN, Metrics!CancelLoop(s, applied)
        PROVE  CountsInv' /\ Grows
    BY <1>1, <1>6, CancelLoopKeeps
  <1>7. CASE Metrics!FinalFlush
    BY <1>1, <1>7, FinalFlushKeeps
  <1>8. CASE Metrics!FinalExecuted
    <2>1. /\ stopping = "flushing" /\ Metrics!Settle("metrics", TRUE, loop["metrics"])
          /\ UNCHANGED <<buffer, recorded, faults>>
      BY <1>8 DEF Metrics!FinalExecuted
    <2>2. faults' \in Nat /\ (faults > 0 => faults' > 0)
      BY <2>1 DEF CountsInv, Flow
    <2> QED BY <1>1, <2>1, <2>2, FinalSettleKeeps
  <1>9. ASSUME NEW applied \in BOOLEAN, Metrics!FinalFails(applied) PROVE CountsInv' /\ Grows
    <2>1. /\ stopping = "flushing" /\ Metrics!Settle("metrics", applied, loop["metrics"])
          /\ UNCHANGED <<buffer, recorded>> /\ faults' = faults + 1
      BY <1>9 DEF Metrics!FinalFails
    <2>2. faults' \in Nat /\ faults' > 0
      BY <2>1 DEF CountsInv, Flow
    <2> QED BY <1>1, <2>1, <2>2, FinalSettleKeeps
  <1>10. ASSUME UNCHANGED <<buffer, batch, loop, stopping, stored, recorded, lost, faults>>
         PROVE  CountsInv' /\ Grows
    <2>1. Agreement'
      BY <1>10 DEF CountsInv, Agreement
    <2>2. Accounted'
      BY <1>10 DEF CountsInv, Accounted, Metrics!Total
    <2>3. Flow'
      BY <1>1, <1>10 DEF CountsInv, Flow, Held, Metrics!Zero
    <2>4. Grows
      BY <1>10, StoredStays DEF CountsInv
    <2> QED BY <2>1, <2>2, <2>3, <2>4 DEF CountsInv
  <1>11. CASE Metrics!Tick
    BY <1>10, <1>11 DEF Metrics!Tick, Metrics!proxy
  <1>12. ASSUME NEW view \in load.views, NEW b \in Buckets, Metrics!BeginRead(view, b)
         PROVE  CountsInv' /\ Grows
    BY <1>10, <1>12 DEF Metrics!BeginRead, Metrics!proxy
  <1>13. CASE Metrics!ReadKey
    BY <1>10, <1>13 DEF Metrics!ReadKey, Metrics!proxy
  <1> QED BY <1>1, <1>2, <1>3, <1>4, <1>5, <1>6, <1>7, <1>8, <1>9, <1>11, <1>12, <1>13
          DEF Metrics!Act

----------------------------------------------------------------------------
(* The reader *)

\* Four elements in a row.
LEMMA FourSeq ==
    ASSUME NEW S, NEW a \in S, NEW b \in S, NEW c \in S, NEW d \in S
    PROVE  <<a, b, c, d>> \in Seq(S)
  OBVIOUS

\* The order of a view, one counter after the other.
LEMMA Orders ==
    /\ Metrics!ReadOrder("metrics") = <<"total", "service", "status", "failures">>
    /\ Metrics!ReadOrder("timeseries") =
       <<"ts_requests", "ts_errors", "ts_status", "ts_latency_count">>
    /\ \A view \in {"metrics", "timeseries"} :
          /\ Len(Metrics!ReadOrder(view)) = 4
          /\ Metrics!ReadOrder(view) \in Seq(Metrics!Fields("metrics"))
          /\ \A i \in 1..4 : Metrics!ReadOrder(view)[i] \in Metrics!Fields("metrics")
  <1>1. /\ Metrics!ReadOrder("metrics") = <<"total", "service", "status", "failures">>
        /\ Metrics!ReadOrder("timeseries") =
           <<"ts_requests", "ts_errors", "ts_status", "ts_latency_count">>
    BY DEF Metrics!ReadOrder
  <1>2. ASSUME NEW view \in {"metrics", "timeseries"}
        PROVE  /\ Len(Metrics!ReadOrder(view)) = 4
               /\ Metrics!ReadOrder(view) \in Seq(Metrics!Fields("metrics"))
               /\ \A i \in 1..4 : Metrics!ReadOrder(view)[i] \in Metrics!Fields("metrics")
    <2>1. PICK order : order = Metrics!ReadOrder(view)
      OBVIOUS
    <2>2. CASE view = "metrics"
      <3>1. order = <<"total", "service", "status", "failures">>
        BY <1>1, <2>1, <2>2
      <3>2. /\ Len(order) = 4
            /\ order[1] = "total" /\ order[2] = "service" /\ order[3] = "status"
            /\ order[4] = "failures"
        BY <3>1
      <3>3. order \in Seq(Metrics!Fields("metrics"))
        BY <3>1, FourSeq, FieldsAndKeys
      <3> QED BY <2>1, <3>2, <3>3, FieldsAndKeys
    <2>3. CASE view = "timeseries"
      <3>1. order = <<"ts_requests", "ts_errors", "ts_status", "ts_latency_count">>
        BY <1>1, <2>1, <2>3
      <3>2. /\ Len(order) = 4
            /\ order[1] = "ts_requests" /\ order[2] = "ts_errors" /\ order[3] = "ts_status"
            /\ order[4] = "ts_latency_count"
        BY <3>1
      <3>3. order \in Seq(Metrics!Fields("metrics"))
        BY <3>1, FourSeq, FieldsAndKeys
      <3> QED BY <2>1, <3>2, <3>3, FieldsAndKeys
    <2> QED BY <2>2, <2>3
  <1> QED BY <1>1, <1>2

\* Nothing is read at the start.
LEMMA ReaderInit == PartInit => ReaderInv
  BY DEF PartInit, Metrics!Init, ReaderInv

\* What was read stays below what is stored, as that only grows.
LEMMA ReaderStays ==
    ASSUME CountsInv, CountsInv', ReaderInv, Grows, reader' = reader
    PROVE  ReaderInv'
  <1>1. CASE reader = Metrics!NoView
    BY <1>1 DEF ReaderInv, Metrics!NoView
  <1>2. CASE reader # Metrics!NoView
    <2>1. PICK view \in {"metrics", "timeseries"}, n \in 0..4 :
            Reading(Metrics!ReadOrder(view), n)
      BY <1>2 DEF ReaderInv
    <2> DEFINE order == Metrics!ReadOrder(view)
    <2>2. ASSUME NEW i \in 1..n PROVE Below(order[i], reader.seen[i].value)'
      <3>1. PICK f, v : f = order[i] /\ v = reader.seen[i].value
        OBVIOUS
      <3>2. f \in Metrics!Fields("metrics")
        BY <3>1, Orders
      <3>3. v \in [Metrics!Keys(f) -> Nat] /\ \A k \in Metrics!Keys(f) : v[k] <= stored["metrics"][f][k]
        BY <2>1, <3>1 DEF Reading, Below
      <3>4. /\ stored["metrics"][f] \in [Metrics!Keys(f) -> Nat]
            /\ stored'["metrics"][f] \in [Metrics!Keys(f) -> Nat]
        BY <3>2, FieldsAndKeys, CountersType DEF CountsInv, Agreement, Sound
      <3>5. \A k \in Metrics!Keys(f) : v[k] <= stored'["metrics"][f][k]
        BY <3>2, <3>3, <3>4 DEF Grows
      <3> QED BY <3>1, <3>3, <3>5 DEF Below, Metrics!Keys, Metrics!ReadOrder, Metrics!Names
    <2>3. Reading(order, n)'
      <3> HIDE DEF order
      <3> QED BY <2>1, <2>2 DEF Reading, order
    <2> QED BY <2>3 DEF ReaderInv
  <1> QED BY <1>1, <1>2

\* One more key is read: what was read before is below it, with its sums.
LEMMA OneMoreRead ==
    ASSUME CountsInv, NEW seen, NEW n \in 0..3, DOMAIN seen = 1..n,
           NEW order, \A i \in 1..4 : order[i] \in Metrics!Fields("metrics"),
           \A i \in 1..n : seen[i].field = order[i] /\ Below(order[i], seen[i].value),
           Ordered(seen),
           NEW more, DOMAIN more = 1..(n + 1), \A i \in 1..n : more[i] = seen[i],
           more[n + 1].field = order[n + 1],
           more[n + 1].value = stored["metrics"][order[n + 1]]
    PROVE  /\ \A i \in 1..(n + 1) : more[i].field = order[i] /\ Below(order[i], more[i].value)
           /\ Ordered(more)
  <1> DEFINE m == stored["metrics"]
  <1>1. Counters("metrics", m) /\ Agree("metrics", m) /\ "metrics" \in Metrics!Sinks
    BY FieldsAndKeys DEF CountsInv, Agreement, Sound
  <1>2. \A f \in Metrics!Fields("metrics") : m[f] \in [Metrics!Keys(f) -> Nat]
    BY <1>1, CountersType
  <1>3. \A i \in 1..4 : order[i] \in Metrics!Fields("metrics")
    OBVIOUS
  <1>4. Below(order[n + 1], m[order[n + 1]])
    <2>1. PICK f : f = order[n + 1]
      OBVIOUS
    <2>2. f \in Metrics!Fields("metrics") /\ m[f] \in [Metrics!Keys(f) -> Nat]
      BY <1>2, <1>3, <2>1
    <2>3. \A k \in Metrics!Keys(f) : m[f][k] <= m[f][k]
      BY <2>2
    <2> QED BY <2>1, <2>2, <2>3 DEF Below
  <1>5. \A i \in 1..(n + 1) : more[i].field = order[i] /\ Below(order[i], more[i].value)
    BY <1>4
  <1> HIDE DEF m
  <1>6. Ordered(more)
    <2>1. ASSUME NEW i \in 1..n, NEW v, v = more[i].value, NEW w, w = more[n + 1].value
          PROVE  /\ order[i] = "total" /\ order[n + 1] = "status" =>
                       Metrics!Sum(v) <= Metrics!Sum(w)
                 /\ order[i] = "ts_requests" /\ order[n + 1] = "ts_latency_count" =>
                       \A k \in Metrics!Keys("ts_requests") : v[k] <= w[k]
                 /\ order[i] = "ts_requests" /\ order[n + 1] = "ts_status" =>
                       \A d \in Buckets :
                       Metrics!Sum([x \in Metrics!Names |-> v[<<d, x>>]]) <=
                       Metrics!Sum([x \in Statuses |-> w[<<d, x>>]])
      <3>1. Below(order[i], v) /\ w = m[order[n + 1]]
        BY <2>1, <1>5 DEF m
      <3>2. ASSUME order[i] = "total", order[n + 1] = "status"
            PROVE  Metrics!Sum(v) <= Metrics!Sum(w)
        <4>1. /\ v \in [{"all"} -> Nat] /\ v["all"] <= m["total"]["all"]
              /\ m["total"] \in [{"all"} -> Nat]
          BY <3>1, <3>2, <1>2, FieldsAndKeys DEF Below, m
        <4>2. Metrics!Sum(v) <= Metrics!Sum(m["total"])
          BY <4>1, FS_Singleton, SumMonotone
        <4>3. Metrics!Sum(m["total"]) = m["total"]["all"]
          BY <4>1, SumSingle
        <4>4. Metrics!Sum(m["status"]) = m["total"]["all"]
          BY <1>1 DEF Agree, Metrics!Total, m
        <4> QED BY <4>2, <4>3, <4>4, <3>1, <3>2
      <3>3. ASSUME order[i] = "ts_requests", order[n + 1] = "ts_latency_count"
            PROVE  \A k \in Metrics!Keys("ts_requests") : v[k] <= w[k]
        <4>1. m["ts_latency_count"] = m["ts_requests"]
          BY <1>1 DEF Agree, m
        <4>2. \A k \in Metrics!Keys("ts_requests") : v[k] <= m["ts_requests"][k]
          BY <3>1, <3>3 DEF Below, m
        <4> QED BY <3>1, <3>3, <4>1, <4>2
      <3>4. ASSUME order[i] = "ts_requests", order[n + 1] = "ts_status", NEW d \in Buckets
            PROVE  Metrics!Sum([x \in Metrics!Names |-> v[<<d, x>>]]) <=
                   Metrics!Sum([x \in Statuses |-> w[<<d, x>>]])
        <4> DEFINE a == [x \in Metrics!Names |-> v[<<d, x>>]]
                   b == [x \in Metrics!Names |-> m["ts_requests"][<<d, x>>]]
                   e == [x \in Statuses |-> m["ts_status"][<<d, x>>]]
        <4>1. /\ v \in [Metrics!Keys("ts_requests") -> Nat]
              /\ \A k \in Metrics!Keys("ts_requests") : v[k] <= m["ts_requests"][k]
              /\ m["ts_requests"] \in [Metrics!Keys("ts_requests") -> Nat]
          BY <3>1, <3>4, <1>2, FieldsAndKeys DEF Below, m
        <4>2. \A x \in Metrics!Names : <<d, x>> \in Metrics!Keys("ts_requests")
          BY FieldsAndKeys
        <4>3. \A x \in Metrics!Names : /\ v[<<d, x>>] \in Nat
                                       /\ m["ts_requests"][<<d, x>>] \in Nat
                                       /\ v[<<d, x>>] <= m["ts_requests"][<<d, x>>]
          BY <4>1, <4>2
        <4>4. /\ a \in [Metrics!Names -> Nat] /\ b \in [Metrics!Names -> Nat]
              /\ \A x \in Metrics!Names : a[x] <= b[x]
          BY <4>3
        <4>5. Metrics!Sum(b) = Metrics!Sum(e)
          BY <1>1 DEF Agree, m
        <4>6. e = [x \in Statuses |-> w[<<d, x>>]]
          BY <3>1, <3>4
        <4> HIDE DEF a, b, e
        <4>7. Metrics!Sum(a) <= Metrics!Sum(b)
          BY <4>4, FiniteKeys, SumMonotone
        <4>8. Metrics!Sum(a) <= Metrics!Sum(e)
          BY <4>5, <4>7
        <4> QED BY <4>6, <4>8 DEF a
      <3> QED BY <3>2, <3>3, <3>4
    <2>2. ASSUME NEW i \in 1..(n + 1), NEW j \in 1..(n + 1), i < j
          PROVE  LET v == more[i].value
                     w == more[j].value
                 IN /\ more[i].field = "total" /\ more[j].field = "status" =>
                          Metrics!Sum(v) <= Metrics!Sum(w)
                    /\ more[i].field = "ts_requests" /\ more[j].field = "ts_latency_count" =>
                          \A k \in Metrics!Keys("ts_requests") : v[k] <= w[k]
                    /\ more[i].field = "ts_requests" /\ more[j].field = "ts_status" =>
                          \A d \in Buckets :
                          Metrics!Sum([x \in Metrics!Names |-> v[<<d, x>>]]) <=
                          Metrics!Sum([x \in Statuses |-> w[<<d, x>>]])
      <3>1. CASE j = n + 1
        <4>1. i \in 1..n
          BY <2>2, <3>1
        <4> QED BY <4>1, <3>1, <1>5, <2>1
      <3>2. CASE j # n + 1
        <4>1. i \in DOMAIN seen /\ j \in DOMAIN seen /\ more[i] = seen[i] /\ more[j] = seen[j]
          BY <2>2, <3>2
        <4> QED BY <4>1, <2>2 DEF Ordered
      <3> QED BY <3>1, <3>2
    <2> QED BY <2>2 DEF Ordered
  <1> QED BY <1>5, <1>6

\* The reader begins, and reads one key after the other.
LEMMA BeginReadKeeps ==
    ASSUME ReaderInv, NEW view \in {"metrics", "timeseries"}, NEW b \in Buckets,
           Metrics!BeginRead(view, b)
    PROVE  ReaderInv'
  <1>1. reader' = [left |-> Metrics!ReadOrder(view), bucket |-> b, seen |-> <<>>]
    BY DEF Metrics!BeginRead
  <1>2. PICK order : order = Metrics!ReadOrder(view)
    OBVIOUS
  <1>3. SubSeq(order, 1, 4) = order
    BY <1>2, Orders, SubSeqFull
  <1>4. Reading(order, 0)'
    <2>1. /\ DOMAIN reader' = {"left", "bucket", "seen"} /\ reader'.bucket \in Buckets
          /\ reader'.left = SubSeq(order, 0 + 1, 4) /\ reader'.seen = <<>>
      BY <1>1, <1>2, <1>3
    <2>2. Len(reader'.seen) = 0 /\ reader'.seen \in Seq({reader'.seen[i] : i \in 1..0})
      BY <2>1
    <2>3. Ordered(reader'.seen)
      BY <2>1 DEF Ordered
    <2>4. \A i \in 1..0 : reader'.seen[i].field = order[i] /\ Below(order[i], reader.seen[i].value)'
      OBVIOUS
    <2> QED BY <2>1, <2>2, <2>3, <2>4 DEF Reading
  <1> QED BY <1>2, <1>4 DEF ReaderInv

\* The key read next is the next of the order, with the value it has now.
LEMMA ReadKeyKeeps ==
    ASSUME CountsInv, ReaderInv, Metrics!ReadKey
    PROVE  ReaderInv'
  <1>1. reader.left # <<>> /\ stored' = stored
    BY DEF Metrics!ReadKey
  <1>2. PICK view \in {"metrics", "timeseries"}, n \in 0..4 : Reading(Metrics!ReadOrder(view), n)
    BY <1>1 DEF ReaderInv, Metrics!NoView
  <1>3. PICK order : order = Metrics!ReadOrder(view)
    OBVIOUS
  <1>4. Reading(order, n)
    BY <1>2, <1>3
  <1>5. /\ order \in Seq(Metrics!Fields("metrics")) /\ Len(order) = 4
        /\ \A i \in 1..4 : order[i] \in Metrics!Fields("metrics")
    BY <1>3, Orders
  <1>6. n \in 0..3 /\ Head(reader.left) = order[n + 1] /\ Tail(reader.left) = SubSeq(order, n + 2, 4)
    <2>1. n # 4
      <3>1. SubSeq(order, 5, 4) = <<>>
        BY <1>5, SubSeqEmpty
      <3> QED BY <1>1, <1>4, <3>1 DEF Reading
    <2>2. n \in 0..3
      BY <2>1
    <2>3. n + 1 \in 1..4 /\ 4 \in (n + 1)..Len(order) /\ n + 1 \in 1..Len(order)
      BY <2>2, <1>5
    <2>4. /\ Head(SubSeq(order, n + 1, 4)) = order[n + 1]
          /\ Tail(SubSeq(order, n + 1, 4)) = SubSeq(order, n + 1 + 1, 4)
      BY <1>5, <2>3, HeadTailOfSubSeq
    <2>5. n + 1 + 1 = n + 2 /\ reader.left = SubSeq(order, n + 1, 4)
      BY <2>2, <1>4 DEF Reading
    <2> QED BY <2>2, <2>4, <2>5
  <1>7. PICK e : e = [field |-> order[n + 1], value |-> stored["metrics"][order[n + 1]]]
    OBVIOUS
  <1>8. reader' = [reader EXCEPT !.left = SubSeq(order, n + 2, 4), !.seen = Append(reader.seen, e)]
    BY <1>6, <1>7 DEF Metrics!ReadKey
  <1>9. PICK seen : seen = reader.seen
    OBVIOUS
  <1>10. PICK more : more = Append(seen, e)
    OBVIOUS
  <1>11. /\ Len(more) = n + 1 /\ DOMAIN seen = 1..n /\ DOMAIN more = 1..(n + 1)
         /\ \A i \in 1..n : more[i] = seen[i]
         /\ more[n + 1] = e
    <2>1. Len(seen) = n /\ seen \in Seq({seen[i] : i \in 1..n})
      BY <1>4, <1>9 DEF Reading
    <2> QED BY <2>1, <1>10
  <1>12. /\ \A i \in 1..(n + 1) : more[i].field = order[i] /\ Below(order[i], more[i].value)
         /\ Ordered(more)
    <2>1. \A i \in 1..n : seen[i].field = order[i] /\ Below(order[i], seen[i].value)
      BY <1>4, <1>9 DEF Reading
    <2>2. Ordered(seen)
      BY <1>4, <1>9 DEF Reading
    <2>3. more[n + 1].field = order[n + 1] /\ more[n + 1].value = stored["metrics"][order[n + 1]]
      BY <1>7, <1>11
    <2>4. n \in 0..3 /\ DOMAIN seen = 1..n /\ DOMAIN more = 1..(n + 1)
      BY <1>6, <1>11
    <2>5. \A i \in 1..4 : order[i] \in Metrics!Fields("metrics")
      BY <1>5
    <2>6. \A i \in 1..n : more[i] = seen[i]
      BY <1>11
    <2> QED BY <2>1, <2>2, <2>3, <2>4, <2>5, <2>6, OneMoreRead
  <1>13. Reading(order, n + 1)'
    <2>1. /\ DOMAIN reader' = {"left", "bucket", "seen"} /\ reader'.bucket \in Buckets
          /\ reader'.left = SubSeq(order, n + 2, 4) /\ reader'.seen = more
      BY <1>4, <1>8, <1>9, <1>10 DEF Reading
    <2>2. Len(more) = n + 1 /\ more \in Seq({more[i] : i \in 1..(n + 1)})
      <3>1. PICK S : S = {seen[i] : i \in 1..n} \cup {e}
        OBVIOUS
      <3>2. seen \in Seq(S)
        <4>1. seen \in Seq({seen[i] : i \in 1..n})
          BY <1>4, <1>9 DEF Reading
        <4>2. {seen[i] : i \in 1..n} \subseteq S
          BY <3>1
        <4> QED BY <4>1, <4>2, SeqMonotonic
      <3>3. more \in Seq(S)
        BY <1>10, <3>1, <3>2
      <3>4. PICK M : M = {more[i] : i \in 1..(n + 1)}
        OBVIOUS
      <3>5. S \subseteq M
        <4>1. \A i \in 1..n : seen[i] \in M
          <5>1. \A i \in 1..n : i \in 1..(n + 1) /\ more[i] = seen[i]
            BY <1>6, <1>11
          <5> QED BY <5>1, <3>4
        <4>2. e \in M
          <5>1. n + 1 \in 1..(n + 1)
            BY <1>6
          <5> QED BY <5>1, <1>11, <3>4
        <4> QED BY <4>1, <4>2, <3>1
      <3> QED BY <1>11, <3>3, <3>4, <3>5, SeqMonotonic
    <2>3. \A i \in 1..(n + 1) : Below(order[i], more[i].value)'
      BY <1>1, <1>12, <1>6 DEF Below, Metrics!Keys, Metrics!Names
    <2>4. n + 1 + 1 = n + 2
      BY <1>6
    <2> QED BY <2>1, <2>2, <2>3, <2>4, <1>12 DEF Reading
  <1> QED BY <1>3, <1>6, <1>13 DEF ReaderInv

\* Every step keeps the reader's invariant.
LEMMA ReaderStep ==
    ASSUME CountsInv, ReaderInv, Metrics!Next
    PROVE  ReaderInv'
  <1>1. CountsInv' /\ Grows
    BY CountsStep
  <1>2. ASSUME reader' = reader PROVE ReaderInv'
    BY <1>1, <1>2, ReaderStays
  <1>3. ASSUME NEW view \in load.views, NEW b \in Buckets, Metrics!BeginRead(view, b)
        PROVE  ReaderInv'
    <2>1. view \in {"metrics", "timeseries"}
      BY MetricsAssumed DEF Metrics!MetricsAssumption, Metrics!Load, CountsInv, Flow
    <2> QED BY <2>1, <1>3, BeginReadKeeps
  <1>4. CASE Metrics!ReadKey
    BY <1>4, ReadKeyKeeps
  <1>5. CASE \/ \E r \in Metrics!Results : Metrics!Record(r)
             \/ \E s \in Metrics!Sinks : Metrics!Flush(s) \/ Metrics!Executed(s)
             \/ \E s \in Metrics!Sinks, applied \in BOOLEAN :
                   Metrics!RedisFails(s, applied) \/ Metrics!CancelLoop(s, applied)
             \/ \E applied \in BOOLEAN : Metrics!FinalFails(applied)
             \/ Metrics!FinalFlush \/ Metrics!FinalExecuted \/ Metrics!Tick
    <2>1. reader' = reader
      BY <1>5 DEF Metrics!Record, Metrics!Flush, Metrics!Executed, Metrics!RedisFails,
                  Metrics!CancelLoop, Metrics!FinalFails, Metrics!FinalFlush,
                  Metrics!FinalExecuted, Metrics!Tick
    <2> QED BY <2>1, <1>2
  <1> QED BY <1>3, <1>4, <1>5 DEF Metrics!Next, Metrics!Act

\* The counts stay sound and the reader's view ordered, whichever part runs.
LEMMA CountsHold == PartSpec => [](CountsInv /\ ReaderInv)
  <1>1. PartInit => CountsInv /\ ReaderInv
    BY CountsInit, ReaderInit
  <1>2. CountsInv /\ ReaderInv /\ [PartNext]_all => (CountsInv /\ ReaderInv)'
    <2> SUFFICES ASSUME CountsInv, ReaderInv, [PartNext]_all PROVE (CountsInv /\ ReaderInv)'
      OBVIOUS
    <2>1. CASE Metrics!Next
      BY <2>1, CountsStep, ReaderStep
    <2>2. CASE UNCHANGED counters
      <3>1. Agreement'
        BY <2>2 DEF CountsInv, Agreement, counters
      <3>2. Accounted'
        BY <2>2 DEF CountsInv, Accounted, counters, Metrics!Total
      <3>3. Flow'
        BY <2>2 DEF CountsInv, Flow, Held, Metrics!Zero, counters
      <3>4. Grows
        BY <2>2, StoredStays DEF CountsInv, counters
      <3>5. CountsInv'
        BY <3>1, <3>2, <3>3 DEF CountsInv
      <3> QED BY <2>2, <3>4, <3>5, ReaderStays DEF counters
    <2> QED BY <2>1, <2>2 DEF PartNext, all
  <1> QED BY <1>1, <1>2, PTL DEF PartSpec

\* Each request is counted once by each sink, under counters that agree, in
\* whatever order requests, flushes, failures and the stop come
\* (proxy/proxy_server.py: _ProxyMetrics.flush_to, ProxyServer.stop).
THEOREM EachCountedOnce == PartSpec => []CountedOnce
  <1>1. CountsInv => CountedOnce
    <2> SUFFICES ASSUME CountsInv PROVE CountedOnce
      OBVIOUS
    <2>1. Metrics!NothingTwice
      BY DEF CountsInv, Accounted, Flow, Metrics!NothingTwice
    <2>2. Agree("metrics", stored["metrics"]) /\ Agree("traffic", stored["traffic"])
      BY FieldsAndKeys DEF CountsInv, Agreement, Sound
    <2>3. Metrics!CountersAgree
      BY <2>2 DEF Agree, Metrics!CountersAgree
    <2> QED BY <2>1, <2>3 DEF CountedOnce
  <1> QED BY <1>1, CountsHold, PTL

\* What the platform API reads key after key fits together, whatever arrives
\* in between (api/platform.py: get_platform_metrics, get_platform_timeseries).
THEOREM ViewsFit == PartSpec => []ViewsOrdered
  <1>1. CountsInv /\ ReaderInv => ViewsOrdered
    <2> SUFFICES ASSUME CountsInv, ReaderInv, reader.left = <<>>, reader.seen # <<>>
                 PROVE  Metrics!ViewsOrdered
      BY DEF ViewsOrdered, Metrics!ViewsOrdered
    <2>1. PICK view \in {"metrics", "timeseries"}, n \in 0..4 : Reading(Metrics!ReadOrder(view), n)
      BY DEF ReaderInv, Metrics!NoView
    <2>2. PICK order : order = Metrics!ReadOrder(view)
      OBVIOUS
    <2>3. PICK seen : seen = reader.seen
      OBVIOUS
    <2>4. n = 4
      <3>1. /\ SubSeq(order, n + 1, 4) = <<>> /\ order \in Seq(Metrics!Fields("metrics"))
            /\ Len(order) = 4
        BY <2>1, <2>2, Orders DEF Reading
      <3>2. Len(SubSeq(order, n + 1, 4)) = IF n + 1 <= 4 THEN 4 - (n + 1) + 1 ELSE 0
        <4>1. n + 1 \in 1..(4 + 1) /\ 4 \in 0..Len(order)
          BY <3>1
        <4> QED BY <3>1, <4>1, SubSeqProperties
      <3>3. Len(<<>>) = 0
        OBVIOUS
      <3>4. Len(SubSeq(order, n + 1, 4)) = 0
        BY <3>1, <3>3
      <3>5. 0 = IF n + 1 <= 4 THEN 4 - (n + 1) + 1 ELSE 0
        BY <3>2, <3>4
      <3> QED BY <3>5
    <2>5. /\ DOMAIN seen = 1..4 /\ Ordered(seen)
          /\ \A i \in 1..4 : seen[i].field = order[i]
      BY <2>1, <2>2, <2>3, <2>4 DEF Reading
    <2>6. ASSUME NEW i \in 1..4, \A j \in 1..4 : order[j] = order[i] => j = i
          PROVE  Metrics!Value(order[i]) = seen[i].value
      <3>1. \A j \in DOMAIN reader.seen : reader.seen[j].field = order[i] <=> j = i
        BY <2>3, <2>5, <2>6
      <3> QED BY <2>3, <2>5, <3>1 DEF Metrics!Value
    <2>7. CASE view = "metrics"
      <3>1. order = <<"total", "service", "status", "failures">>
        BY <2>2, <2>7, Orders
      <3>2. order[1] = "total" /\ order[2] = "service" /\ order[3] = "status" /\ order[4] = "failures"
        BY <3>1
      <3>3. Metrics!Value("total") = seen[1].value /\ Metrics!Value("status") = seen[3].value
        BY <2>6, <3>2
      <3>4. Metrics!Sum(seen[1].value) <= Metrics!Sum(seen[3].value)
        BY <2>5, <3>2 DEF Ordered
      <3>5. \E i \in DOMAIN reader.seen : reader.seen[i].field = "total"
        BY <2>3, <2>5, <3>2
      <3> QED BY <3>3, <3>4, <3>5 DEF Metrics!ViewsOrdered
    <2>8. CASE view = "timeseries"
      <3>1. order = <<"ts_requests", "ts_errors", "ts_status", "ts_latency_count">>
        BY <2>2, <2>8, Orders
      <3>2. /\ order[1] = "ts_requests" /\ order[2] = "ts_errors" /\ order[3] = "ts_status"
            /\ order[4] = "ts_latency_count"
        BY <3>1
      <3>3. PICK v, w, l : /\ v = seen[1].value /\ w = seen[3].value /\ l = seen[4].value
        OBVIOUS
      <3>4. /\ Metrics!Value("ts_requests") = v /\ Metrics!Value("ts_status") = w
            /\ Metrics!Value("ts_latency_count") = l
        BY <2>6, <3>2, <3>3
      <3>5. /\ \A k \in Metrics!Keys("ts_requests") : v[k] <= l[k]
            /\ \A d \in Buckets :
                  Metrics!Sum([m \in Metrics!Names |-> v[<<d, m>>]]) <=
                  Metrics!Sum([x \in Statuses |-> w[<<d, x>>]])
        BY <2>5, <3>2, <3>3 DEF Ordered
      <3>6. reader.bucket \in Buckets
        BY <2>1 DEF Reading
      <3>7. \A m \in Metrics!Names : <<reader.bucket, m>> \in Metrics!Keys("ts_requests")
        BY <3>6, FieldsAndKeys
      <3>8. ~\E i \in DOMAIN reader.seen : reader.seen[i].field = "total"
        BY <2>3, <2>5, <3>2
      <3> QED BY <3>4, <3>5, <3>6, <3>7, <3>8 DEF Metrics!ViewsOrdered
    <2> QED BY <2>7, <2>8
  <1> QED BY <1>1, CountsHold, PTL

\* A behaviour of the two machines is one of each, so that what is shown of the
\* request path alone holds beside the counters.
THEOREM EachMachineRuns == PartSpec => Spec /\ Metrics!Spec
  <1>1. PartInit => Init /\ Metrics!Init
    BY DEF PartInit
  <1>2. [PartNext]_all => [Next]_vars /\ [Metrics!Next]_(Metrics!vars)
    BY DEF PartNext, all, counters, Metrics!vars, Metrics!proxy
  <1> QED BY <1>1, <1>2, PTL DEF PartSpec, Spec, Metrics!Spec
=============================================================================
