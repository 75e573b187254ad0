-------------------------- MODULE EventFeedProofs --------------------------
(***************************************************************************)
(* That an event feed is the stream from its subscription on, for any      *)
(* number of clients and any lengths of the stream, queues and reads.      *)
(***************************************************************************)
EXTENDS EventFeed, Integers, SequenceTheorems, TLAPS

----------------------------------------------------------------------------
(* Sequences of events *)

Ascends(s) == \A i, j \in DOMAIN s : i < j => s[i] < s[j]
Within(s, low, high) == \A i \in DOMAIN s : low < s[i] /\ s[i] <= high

\* What a read finds is listed in order, from its first to its last event.
LEMMA ListedEvents ==
    ASSUME NEW from \in Nat \ {0}, NEW to \in Nat, from <= to + 1
    PROVE  /\ Listed(from, to) \in Seq(Nat)
           /\ Len(Listed(from, to)) = (to + 1) - from
           /\ \A i \in 1..((to + 1) - from) : Listed(from, to)[i] = (from + i) - 1
  <1> DEFINE n == (to + 1) - from
  <1>1. n \in Nat
    OBVIOUS
  <1>2. \A i \in 1..n : (from + i) - 1 \in Nat
    OBVIOUS
  <1>3. Listed(from, to) = [i \in 1..n |-> (from + i) - 1]
    BY DEF Listed
  <1> HIDE DEF n
  <1>4. Listed(from, to) \in [1..n -> Nat]
    BY <1>2, <1>3
  <1>5. Listed(from, to) \in Seq(Nat) /\ Len(Listed(from, to)) = n
    BY <1>1, <1>4
  <1> QED BY <1>3, <1>5 DEF n

\* The events of an interval, listed in order, are all of them and ascend.
LEMMA ListedOn ==
    ASSUME NEW from \in Nat \ {0}, NEW to \in Nat, from <= to + 1
    PROVE  /\ Ascends(Listed(from, to)) /\ Within(Listed(from, to), from - 1, to)
           /\ \A e \in from..to : On(Listed(from, to), e)
  <1> DEFINE l == Listed(from, to)
             n == (to + 1) - from
  <1>1. l \in Seq(Nat) /\ Len(l) = n /\ \A i \in 1..n : l[i] = (from + i) - 1
    BY ListedEvents
  <1>2. DOMAIN l = 1..n
    BY <1>1
  <1>3. Ascends(l)
    <2> HIDE DEF l
    <2> QED BY <1>1, <1>2 DEF Ascends
  <1>4. Within(l, from - 1, to)
    <2> HIDE DEF l
    <2> QED BY <1>1, <1>2 DEF Within
  <1>5. ASSUME NEW e \in from..to PROVE On(l, e)
    <2>1. (e - from) + 1 \in 1..n
      OBVIOUS
    <2>2. l[(e - from) + 1] = e
      <3> HIDE DEF l
      <3> QED BY <1>1, <2>1
    <2> HIDE DEF l
    <2> QED BY <1>2, <2>1, <2>2 DEF On
  <1> QED BY <1>3, <1>4, <1>5

\* Two ascending sequences, the second past the first, make one.
LEMMA JoinedEvents ==
    ASSUME NEW s \in Seq(Nat), NEW t \in Seq(Nat), NEW low \in Nat, NEW mid \in Nat, NEW high \in Nat,
           low <= mid, mid <= high,
           Ascends(s), Within(s, low, mid), Ascends(t), Within(t, mid, high)
    PROVE  /\ s \o t \in Seq(Nat) /\ Ascends(s \o t) /\ Within(s \o t, low, high)
           /\ \A e \in Nat : On(s, e) \/ On(t, e) => On(s \o t, e)
  <1> DEFINE u == s \o t
             m == Len(s)
             n == Len(t)
  <1>1. /\ u \in Seq(Nat) /\ Len(u) = m + n
        /\ \A i \in 1..(m + n) : u[i] = IF i <= m THEN s[i] ELSE t[i - m]
    BY ConcatProperties
  <1>2. m \in Nat /\ n \in Nat /\ DOMAIN s = 1..m /\ DOMAIN t = 1..n /\ DOMAIN u = 1..(m + n)
    BY <1>1, LenProperties
  <1>3. (\A i \in 1..m : s[i] \in Nat) /\ (\A i \in 1..n : t[i] \in Nat)
    BY ElementOfSeq
  <1> HIDE DEF u, m, n
  <1>4. /\ \A i \in 1..m : u[i] = s[i]
        /\ \A i \in (m + 1)..(m + n) : u[i] = t[i - m] /\ i - m \in 1..n
    BY <1>1, <1>2
  <1>5. /\ \A i \in 1..m : low < u[i] /\ u[i] <= mid /\ u[i] \in Nat
        /\ \A i \in (m + 1)..(m + n) : mid < u[i] /\ u[i] <= high /\ u[i] \in Nat
    BY <1>2, <1>3, <1>4 DEF Within
  <1>6. Within(u, low, high)
    <2> SUFFICES ASSUME NEW i \in 1..(m + n) PROVE low < u[i] /\ u[i] <= high
      BY <1>2 DEF Within
    <2>1. i \in 1..m \/ i \in (m + 1)..(m + n)
      BY <1>2
    <2> QED BY <1>5, <2>1
  <1>7. Ascends(u)
    <2> SUFFICES ASSUME NEW i \in 1..(m + n), NEW j \in 1..(m + n), i < j PROVE u[i] < u[j]
      BY <1>2 DEF Ascends
    <2>1. CASE j <= m
      <3>1. i \in 1..m /\ j \in 1..m
        BY <1>2, <2>1
      <3> QED BY <1>2, <1>4, <3>1 DEF Ascends
    <2>2. CASE i <= m /\ m < j
      <3>1. i \in 1..m /\ j \in (m + 1)..(m + n)
        BY <1>2, <2>2
      <3> QED BY <1>5, <3>1
    <2>3. CASE m < i
      <3>1. i \in (m + 1)..(m + n) /\ j \in (m + 1)..(m + n)
        BY <1>2, <2>3
      <3>2. i - m \in 1..n /\ j - m \in 1..n /\ i - m < j - m
        BY <1>2, <3>1
      <3>3. t[i - m] < t[j - m]
        BY <1>2, <3>2 DEF Ascends
      <3> QED BY <1>4, <3>1, <3>3
    <2> QED BY <1>2, <2>1, <2>2, <2>3
  <1>8. ASSUME NEW e \in Nat, On(s, e) PROVE On(u, e)
    <2>1. PICK i \in 1..m : s[i] = e
      BY <1>2, <1>8 DEF On
    <2>2. i \in 1..(m + n)
      BY <1>2
    <2> QED BY <1>2, <1>4, <2>1, <2>2 DEF On
  <1>9. ASSUME NEW e \in Nat, On(t, e) PROVE On(u, e)
    <2>1. PICK i \in 1..n : t[i] = e
      BY <1>2, <1>9 DEF On
    <2>2. i + m \in (m + 1)..(m + n) /\ (i + m) - m = i /\ i + m \in 1..(m + n)
      BY <1>2
    <2>3. u[i + m] = e
      BY <1>4, <2>1, <2>2
    <2> QED BY <1>2, <2>2, <2>3 DEF On
  <1>10. \A e \in Nat : On(s, e) \/ On(t, e) => On(u, e)
    BY <1>8, <1>9
  <1>11. u \in Seq(Nat) /\ Ascends(u) /\ Within(u, low, high)
    BY <1>1, <1>6, <1>7
  <1> QED BY <1>10, <1>11 DEF u

\* A sequence is its first event and the others.
LEMMA FirstAndOthers ==
    ASSUME NEW s \in Seq(Nat), s # <<>>
    PROVE  s = <<Head(s)>> \o Tail(s)
  <1> DEFINE first == <<Head(s)>>
             others == Tail(s)
             n == Len(s)
  <1>1. /\ n \in Nat \ {0} /\ others \in Seq(Nat) /\ Len(others) = n - 1
        /\ \A i \in 1..(n - 1) : others[i] = s[i + 1]
    BY EmptySeq, HeadTailProperties
  <1>2. first \in Seq(Nat) /\ Len(first) = 1 /\ first[1] = s[1]
    BY HeadTailProperties
  <1> HIDE DEF first, others, n
  <1>3. /\ first \o others \in Seq(Nat) /\ Len(first \o others) = n
        /\ \A i \in 1..n : (first \o others)[i] = IF i <= 1 THEN first[i] ELSE others[i - 1]
    <2>1. /\ first \o others \in Seq(Nat) /\ Len(first \o others) = Len(first) + Len(others)
          /\ \A i \in 1..(Len(first) + Len(others)) :
                 (first \o others)[i] = IF i <= Len(first) THEN first[i] ELSE others[i - Len(first)]
      BY <1>1, <1>2, ConcatProperties
    <2>2. Len(first) = 1 /\ Len(first) + Len(others) = n
      BY <1>1, <1>2
    <2> QED BY <2>1, <2>2
  <1>4. \A i \in 1..n : (first \o others)[i] = s[i]
    <2> SUFFICES ASSUME NEW i \in 1..n PROVE (first \o others)[i] = s[i]
      OBVIOUS
    <2>1. CASE i = 1
      BY <1>2, <1>3, <2>1
    <2>2. CASE i # 1
      <3>1. i - 1 \in 1..(n - 1) /\ (i - 1) + 1 = i /\ ~(i <= 1)
        BY <1>1, <2>2
      <3> QED BY <1>1, <1>3, <3>1
    <2> QED BY <2>1, <2>2
  <1>5. Len(s) = Len(first \o others) /\ \A i \in 1..Len(s) : s[i] = (first \o others)[i]
    BY <1>3, <1>4 DEF n
  <1>6. s = first \o others
    BY <1>3, <1>5, SeqEqual
  <1> QED BY <1>6 DEF first, others

----------------------------------------------------------------------------
(* The invariant *)

\* What is on its way to a client: sent, taken from the queue, and in it.
Whole(f) == f.sent \o f.taken \o f.queue

\* A feed has its fields, and nothing is in one that has not subscribed.
Shape(f) ==
    /\ DOMAIN f = DOMAIN Closed
    /\ f.sent \in Seq(Nat) /\ f.taken \in Seq(Nat) /\ f.queue \in Seq(Nat)
    /\ Len(f.queue) <= scenario.queueSize
    /\ f.seen \in Nat /\ f.start \in Nat /\ f.place \in Nat /\ f.start <= f.place /\ f.place <= newest
    /\ f.reader # "off" => f.at = "live"
    /\ f.at # "live" => /\ f.sent = <<>> /\ f.taken = <<>> /\ f.queue = <<>>
                        /\ f.start = 0 /\ f.place = 0

\* What is on its way goes in order from the place where the reader began to the
\* one where it is, and what it passed is there, or was dropped or trimmed.
Kept(f) ==
    /\ Ascends(Whole(f)) /\ Within(Whole(f), f.start, f.place)
    /\ \A e \in (f.start + 1)..f.place : On(Whole(f), e) \/ e \in f.dropped \cup f.trimmed

\* The snapshot ends before the reader begins, as long as nothing failed.
Recalled(f) ==
    /\ f.snapshot \subseteq Nat
    /\ faults = 0 => \A e \in f.snapshot : e <= newest /\ (f.at = "live" => e <= f.start)

Numbers ==
    /\ scenario \in Scenarios
    /\ oldest \in Nat \ {0} /\ newest \in Nat /\ faults \in Nat
    /\ feed = [c \in Clients |-> feed[c]]

Good(f) == Shape(f) /\ Kept(f) /\ Recalled(f)
FeedInv == Numbers /\ \A c \in Clients : Good(feed[c])

\* The sizes of a scenario are positive.
LEMMA ScenarioLengths ==
    ASSUME scenario \in Scenarios
    PROVE  /\ scenario.queueSize \in Nat \ {0} /\ scenario.batchSize \in Nat \ {0}
           /\ scenario.streamLength \in Nat \ {0} /\ scenario.clients \subseteq Clients
           /\ scenario.maxEvents \in Nat
  BY EventFeedAssumption DEF Scenario

\* The state of a closed feed, field by field.
LEMMA ClosedFields ==
    /\ DOMAIN Closed = {"at", "queue", "taken", "reader", "place", "seen", "start", "snapshot", "sent", "dropped", "trimmed"}
    /\ Closed.at = "closed" /\ Closed.queue = <<>> /\ Closed.taken = <<>> /\ Closed.sent = <<>>
    /\ Closed.reader = "off" /\ Closed.place = 0 /\ Closed.start = 0 /\ Closed.seen = 0
    /\ Closed.snapshot = {} /\ Closed.dropped = {} /\ Closed.trimmed = {}
  BY DEF Closed

\* A feed through which nothing goes yet.
LEMMA NothingYet ==
    ASSUME NEW f, f.sent = <<>>, f.taken = <<>>, f.queue = <<>>,
           f.start \in Nat, f.place = f.start
    PROVE  Kept(f)
  <1>1. Whole(f) = <<>>
    <2>1. <<>> \o <<>> = <<>>
      BY EmptySeq, ConcatEmptySeq
    <2> QED BY <2>1 DEF Whole
  <1>2. DOMAIN Whole(f) = {}
    BY <1>1
  <1>3. (f.start + 1)..f.place = {}
    OBVIOUS
  <1> QED BY <1>2, <1>3 DEF Kept, Ascends, Within

\* A closed feed is a good one.
LEMMA NewFeed == Numbers => Good(Closed)
  <1> SUFFICES ASSUME Numbers PROVE Good(Closed)
    OBVIOUS
  <1>1. Kept(Closed)
    BY ClosedFields, NothingYet
  <1>2. Shape(Closed)
    <2>1. <<>> \in Seq(Nat) /\ Len(<<>>) = 0
      BY EmptySeq
    <2>2. scenario.queueSize \in Nat /\ newest \in Nat
      BY ScenarioLengths DEF Numbers
    <2>3. 0 <= scenario.queueSize /\ 0 <= newest /\ 0 \in Nat /\ 0 <= 0
      BY <2>2
    <2> QED BY ClosedFields, <2>1, <2>3 DEF Shape
  <1>3. Recalled(Closed)
    BY ClosedFields DEF Recalled
  <1> QED BY <1>1, <1>2, <1>3 DEF Good

LEMMA FeedInit == Init => FeedInv
  <1> SUFFICES ASSUME Init PROVE FeedInv
    OBVIOUS
  <1>1. Numbers
    BY DEF Init, Numbers
  <1>2. \A c \in Clients : feed[c] = Closed
    BY DEF Init
  <1> QED BY <1>1, <1>2, NewFeed DEF FeedInv

\* A feed that a step leaves alone stays good when events are added or faults.
LEMMA LeftAlone ==
    ASSUME NEW f, Good(f), newest \in Nat, newest' \in Nat, newest <= newest', faults \in Nat, faults' \in Nat,
           faults <= faults', scenario' = scenario
    PROVE  Good(f)'
  <1>1. Shape(f)'
    BY DEF Good, Shape
  <1>2. Kept(f)'
    BY DEF Good, Kept, Whole
  <1>3. Recalled(f)'
    <2>1. faults' = 0 => faults = 0
      OBVIOUS
    <2>2. f.snapshot \subseteq Nat
      BY DEF Good, Recalled
    <2>3. ASSUME faults' = 0, NEW e \in f.snapshot PROVE e <= newest' /\ (f.at = "live" => e <= f.start)
      BY <2>1, <2>2, <2>3 DEF Good, Recalled
    <2> QED BY <2>2, <2>3 DEF Recalled
  <1> QED BY <1>1, <1>2, <1>3 DEF Good
----------------------------------------------------------------------------
(* The steps of one client *)

Fields == {"at", "queue", "taken", "reader", "place", "seen", "start", "snapshot", "sent", "dropped", "trimmed"}

\* A step of one client takes its feed from f to g, where only some fields change.
Changes(c, f, g, fields) ==
    /\ feed[c] = f /\ feed' = [feed EXCEPT ![c] = g]
    /\ DOMAIN g = Fields
    /\ \A x \in Fields \ fields : g[x] = f[x]

Steady == stream' = stream /\ scenario' = scenario /\ faults' \in Nat /\ faults <= faults'

\* A step of one feed keeps the others.
LEMMA OneFeed ==
    ASSUME FeedInv, NEW c \in Clients, NEW g, feed' = [feed EXCEPT ![c] = g], Steady, Good(g)'
    PROVE  FeedInv'
  <1>1. Numbers'
    BY DEF FeedInv, Numbers, Steady, stream
  <1>2. ASSUME NEW d \in Clients, d # c PROVE Good(feed[d])'
    <2>1. PICK f : f = feed[d]
      OBVIOUS
    <2>2. feed'[d] = f /\ Good(f)
      BY <1>2, <2>1 DEF FeedInv, Numbers
    <2>3. newest \in Nat /\ newest' = newest /\ faults \in Nat
      BY DEF FeedInv, Numbers, Steady, stream
    <2>4. newest' \in Nat /\ newest <= newest'
      BY <2>3
    <2>5. Good(f)'
      BY <2>2, <2>3, <2>4, LeftAlone DEF Steady
    <2> QED BY <2>2, <2>5
  <1>3. Good(feed[c])'
    <2>1. feed'[c] = g
      BY DEF FeedInv, Numbers
    <2> QED BY <2>1
  <1> QED BY <1>1, <1>2, <1>3 DEF FeedInv

\* The history of a feed only depends on what was sent to it and passed.
LEMMA SameKept ==
    ASSUME NEW f, NEW g, Kept(f), g.sent = f.sent, g.taken = f.taken, g.queue = f.queue,
           g.start = f.start, g.place = f.place, g.dropped = f.dropped, g.trimmed = f.trimmed
    PROVE  Kept(g)
  BY DEF Kept, Whole

\* The fields of a good feed.
LEMMA GoodFields == ASSUME NEW f, Good(f) PROVE DOMAIN f = Fields
  BY ClosedFields DEF Good, Shape, Fields

\* A feed without events and with no snapshot is good after any step.
LEMMA FreshFeed ==
    ASSUME FeedInv, Steady, NEW g, DOMAIN g = Fields, g.sent = <<>>, g.taken = <<>>, g.queue = <<>>,
           g.start = 0, g.place = 0, g.seen = 0, g.reader = "off", g.snapshot = {}
    PROVE  Good(g)'
  <1>1. Kept(g)
    BY NothingYet
  <1>2. Kept(g)'
    BY <1>1 DEF Kept, Whole
  <1>3. Recalled(g)'
    BY DEF Recalled
  <1>4. <<>> \in Seq(Nat) /\ Len(<<>>) = 0
    BY EmptySeq
  <1>5. scenario.queueSize \in Nat /\ newest \in Nat
    BY ScenarioLengths DEF FeedInv, Numbers
  <1>6. 0 <= scenario'.queueSize /\ 0 <= newest' /\ 0 \in Nat /\ 0 <= 0
    BY <1>5 DEF Steady, stream
  <1>7. DOMAIN g = DOMAIN Closed
    BY ClosedFields DEF Fields
  <1>8. Shape(g)'
    BY <1>4, <1>6, <1>7 DEF Shape
  <1> QED BY <1>2, <1>3, <1>8 DEF Good

\* A connection begins or ends with an empty feed.
LEMMA FeedReset ==
    ASSUME FeedInv, NEW c \in Clients, Connect(c) \/ Disconnect(c), UNCHANGED scenario
    PROVE  FeedInv'
  <1>1. Steady
    BY DEF FeedInv, Numbers, Steady, Connect, Disconnect
  <1>2. PICK g : /\ feed' = [feed EXCEPT ![c] = g]
                 /\ g = Closed \/ g = [Closed EXCEPT !.at = "snapshot"]
    BY DEF Connect, Disconnect
  <1>3. /\ DOMAIN g = Fields /\ g.sent = <<>> /\ g.taken = <<>> /\ g.queue = <<>>
        /\ g.start = 0 /\ g.place = 0 /\ g.seen = 0 /\ g.reader = "off" /\ g.snapshot = {}
    BY <1>2, ClosedFields DEF Fields
  <1> QED BY <1>1, <1>2, <1>3, FreshFeed, OneFeed

\* The snapshot and what comes before the subscription.
LEMMA FeedGreets ==
    ASSUME FeedInv, NEW c \in Clients, TakeSnapshot(c) \/ Greet(c), UNCHANGED scenario
    PROVE  FeedInv'
  <1>1. Steady
    BY DEF FeedInv, Numbers, Steady, TakeSnapshot, Greet, Fault
  <1>2. PICK f : f = feed[c]
    OBVIOUS
  <1>3. Good(f) /\ DOMAIN f = Fields
    BY <1>2, GoodFields DEF FeedInv
  <1>4. PICK g : /\ Changes(c, f, g, {"at", "seen", "snapshot"}) /\ g.seen \in Nat
                 /\ g.at \in {"greet", "subscribe"} /\ f.at # "live"
                 /\ g.snapshot = f.snapshot \/ g.snapshot = Recent
    <2>0. f.seen \in Nat /\ newest \in Nat
      BY <1>3 DEF Good, Shape, FeedInv, Numbers
    <2>1. CASE TakeSnapshot(c) /\ feed' = [feed EXCEPT ![c].at = "greet", ![c].seen = newest, ![c].snapshot = Recent]
      <3>1. PICK g : g = [f EXCEPT !.at = "greet", !.seen = newest, !.snapshot = Recent]
        OBVIOUS
      <3>2. feed' = [feed EXCEPT ![c] = g] /\ f.at = "snapshot"
        BY <1>2, <2>1, <3>1 DEF TakeSnapshot, FeedInv, Numbers
      <3>3. /\ DOMAIN g = Fields /\ g.at = "greet" /\ g.snapshot = Recent /\ g.seen = newest
            /\ \A x \in Fields \ {"at", "seen", "snapshot"} : g[x] = f[x]
        BY <1>3, <3>1 DEF Fields
      <3> QED BY <1>2, <2>0, <3>2, <3>3 DEF Changes
    <2>2. CASE TakeSnapshot(c) /\ feed' = [feed EXCEPT ![c].at = "greet", ![c].seen = newest]
      <3>1. PICK g : g = [f EXCEPT !.at = "greet", !.seen = newest]
        OBVIOUS
      <3>2. feed' = [feed EXCEPT ![c] = g] /\ f.at = "snapshot"
        BY <1>2, <2>2, <3>1 DEF TakeSnapshot, FeedInv, Numbers
      <3>3. /\ DOMAIN g = Fields /\ g.at = "greet" /\ g.snapshot = f.snapshot /\ g.seen = newest
            /\ \A x \in Fields \ {"at", "seen", "snapshot"} : g[x] = f[x]
        BY <1>3, <3>1 DEF Fields
      <3> QED BY <1>2, <2>0, <3>2, <3>3 DEF Changes
    <2>3. CASE Greet(c)
      <3>1. PICK g : g = [f EXCEPT !.at = "subscribe"]
        OBVIOUS
      <3>2. feed' = [feed EXCEPT ![c] = g] /\ f.at = "greet"
        BY <1>2, <2>3, <3>1 DEF Greet, FeedInv, Numbers
      <3>3. /\ DOMAIN g = Fields /\ g.at = "subscribe" /\ g.snapshot = f.snapshot /\ g.seen = f.seen
            /\ \A x \in Fields \ {"at", "seen", "snapshot"} : g[x] = f[x]
        BY <1>3, <3>1 DEF Fields
      <3> QED BY <1>2, <2>0, <3>2, <3>3 DEF Changes
    <2> QED BY <2>1, <2>2, <2>3 DEF TakeSnapshot
  <1>5. /\ DOMAIN g = Fields /\ g.sent = f.sent /\ g.taken = f.taken /\ g.queue = f.queue
        /\ g.start = f.start /\ g.place = f.place /\ g.reader = f.reader
        /\ g.dropped = f.dropped /\ g.trimmed = f.trimmed
    BY <1>4 DEF Changes, Fields
  <1>6. Kept(g)'
    <2>1. Kept(g)
      BY <1>3, <1>5, SameKept DEF Good
    <2> QED BY <2>1 DEF Kept, Whole
  <1>7. Shape(g)'
    <2>1. newest' = newest /\ scenario' = scenario
      BY <1>1 DEF Steady, stream
    <2>2. f.reader = "off" /\ f.sent = <<>> /\ f.taken = <<>> /\ f.queue = <<>> /\ f.start = 0 /\ f.place = 0
      BY <1>3, <1>4 DEF Good, Shape
    <2> QED BY <1>3, <1>4, <1>5, <2>1, <2>2 DEF Good, Shape
  <1>8. Recalled(g)'
    <2>1. Recent \subseteq Nat /\ \A e \in Recent : e <= newest
      BY DEF Recent, FeedInv, Numbers
    <2>2. newest' = newest /\ (faults' = 0 => faults = 0)
      BY <1>1 DEF Steady, stream, FeedInv, Numbers
    <2>3. f.snapshot \subseteq Nat /\ (faults = 0 => \A e \in f.snapshot : e <= newest)
      BY <1>3 DEF Good, Recalled
    <2>4. g.at # "live"
      BY <1>4
    <2> QED BY <1>4, <2>1, <2>2, <2>3, <2>4 DEF Recalled
  <1>9. Good(g)'
    BY <1>6, <1>7, <1>8 DEF Good
  <1> QED BY <1>1, <1>4, <1>9, OneFeed DEF Changes

\* The reader begins at a place; at the newest event unless Redis failed.
LEMMA FeedSubscribes ==
    ASSUME FeedInv, NEW c \in Clients, Subscribe(c), UNCHANGED scenario
    PROVE  FeedInv'
  <1>1. Steady
    BY DEF FeedInv, Numbers, Steady, Subscribe, Fault
  <1>2. PICK f : f = feed[c]
    OBVIOUS
  <1>3. Good(f) /\ DOMAIN f = Fields
    BY <1>2, GoodFields DEF FeedInv
  <1>4. PICK place : From(c, place) /\ (place = newest \/ (place = 0 /\ faults' = faults + 1))
    BY DEF Subscribe, Fault
  <1>5. PICK g : g = [f EXCEPT !.at = "live", !.reader = "read", !.place = place, !.start = place]
    OBVIOUS
  <1>6. /\ feed' = [feed EXCEPT ![c] = g] /\ f.at = "subscribe"
        /\ DOMAIN g = Fields /\ g.sent = f.sent /\ g.taken = f.taken /\ g.queue = f.queue
        /\ g.at = "live" /\ g.start = place /\ g.place = place /\ g.reader = "read"
        /\ g.snapshot = f.snapshot /\ g.seen = f.seen
    <2>1. feed' = [feed EXCEPT ![c] = g] /\ f.at = "subscribe"
      BY <1>2, <1>4, <1>5 DEF From, Subscribe, FeedInv, Numbers
    <2>2. /\ DOMAIN g = Fields /\ g.sent = f.sent /\ g.taken = f.taken /\ g.queue = f.queue
          /\ g.at = "live" /\ g.start = place /\ g.place = place /\ g.reader = "read"
          /\ g.snapshot = f.snapshot /\ g.seen = f.seen
      BY <1>3, <1>5 DEF Fields
    <2> QED BY <2>1, <2>2
  <1>7. place \in Nat /\ place <= newest' /\ newest' = newest
    BY <1>1, <1>4 DEF Steady, stream, FeedInv, Numbers
  <1>8. f.sent = <<>> /\ f.taken = <<>> /\ f.queue = <<>>
    BY <1>3, <1>6 DEF Good, Shape
  <1>9. Kept(g)'
    <2>1. Kept(g)
      BY <1>6, <1>7, <1>8, NothingYet
    <2> QED BY <2>1 DEF Kept, Whole
  <1>10. Shape(g)'
    <2>1. scenario' = scenario /\ DOMAIN g = DOMAIN Closed /\ place <= place
      BY <1>1, <1>6, <1>7, ClosedFields DEF Steady, Fields
    <2> QED BY <1>3, <1>6, <1>7, <2>1 DEF Good, Shape
  <1>11. Recalled(g)'
    <2>1. faults' = 0 => faults = 0 /\ place = newest
      BY <1>1, <1>4 DEF Steady, FeedInv, Numbers
    <2> QED BY <1>3, <1>6, <1>7, <2>1 DEF Good, Recalled
  <1>12. Good(g)'
    BY <1>9, <1>10, <1>11 DEF Good
  <1> QED BY <1>1, <1>6, <1>12, OneFeed

\* The endpoint takes an event from the queue and sends it: the events on their
\* way stay the same.
LEMMA FeedServes ==
    ASSUME FeedInv, NEW c \in Clients, Take(c) \/ Send(c), UNCHANGED scenario
    PROVE  FeedInv'
  <1>1. Steady
    <2>1. UNCHANGED <<stream, faults>>
      BY DEF Take, Send
    <2> QED BY <2>1 DEF FeedInv, Numbers, Steady
  <1>2. PICK f : f = feed[c]
    OBVIOUS
  <1>3. Good(f) /\ DOMAIN f = Fields
    BY <1>2, GoodFields DEF FeedInv
  <1>4. f.sent \in Seq(Nat) /\ f.taken \in Seq(Nat) /\ f.queue \in Seq(Nat) /\ Len(f.queue) <= scenario.queueSize
    BY <1>3 DEF Good, Shape
  <1>5. PICK g : /\ Changes(c, f, g, {"sent", "taken", "queue"}) /\ f.at = "live"
                 /\ g.sent \in Seq(Nat) /\ g.taken \in Seq(Nat) /\ g.queue \in Seq(Nat)
                 /\ Len(g.queue) <= scenario.queueSize
                 /\ Whole(g) = Whole(f)
    <2>1. CASE Take(c)
      <3>1. PICK g : g = [f EXCEPT !.taken = <<Head(f.queue)>>, !.queue = Tail(f.queue)]
        OBVIOUS
      <3>2. feed' = [feed EXCEPT ![c] = g] /\ f.at = "live" /\ f.taken = <<>> /\ f.queue # <<>>
        BY <1>2, <2>1, <3>1 DEF Take, FeedInv, Numbers
      <3>3. /\ DOMAIN g = Fields /\ g.taken = <<Head(f.queue)>> /\ g.queue = Tail(f.queue) /\ g.sent = f.sent
            /\ \A x \in Fields \ {"sent", "taken", "queue"} : g[x] = f[x]
        BY <1>3, <3>1 DEF Fields
      <3>4. /\ Head(f.queue) \in Nat /\ Tail(f.queue) \in Seq(Nat)
            /\ Len(Tail(f.queue)) = Len(f.queue) - 1 /\ Len(f.queue) \in Nat
        BY <1>4, <3>2, HeadTailProperties, LenProperties
      <3>5. f.queue = <<Head(f.queue)>> \o Tail(f.queue)
        BY <1>4, <3>2, FirstAndOthers
      <3>6. (f.sent \o <<Head(f.queue)>>) \o Tail(f.queue) = f.sent \o (<<Head(f.queue)>> \o Tail(f.queue))
        <4> DEFINE first == <<Head(f.queue)>>
                   others == Tail(f.queue)
                   before == f.sent
        <4>1. first \in Seq(Nat) /\ others \in Seq(Nat) /\ before \in Seq(Nat)
          BY <1>4, <3>4
        <4> HIDE DEF first, others, before
        <4>2. (before \o first) \o others = before \o (first \o others)
          BY <4>1, ConcatAssociative
        <4> QED BY <4>2 DEF first, others, before
      <3>7. f.sent \o <<>> = f.sent
        BY <1>4, ConcatEmptySeq
      <3>8. Whole(g) = Whole(f)
        BY <3>2, <3>3, <3>5, <3>6, <3>7 DEF Whole
      <3>9. Len(g.queue) <= scenario.queueSize
        BY <1>4, <3>3, <3>4, ScenarioLengths DEF FeedInv, Numbers
      <3>10. g.taken \in Seq(Nat)
        BY <3>3, <3>4
      <3> QED BY <1>2, <1>4, <3>2, <3>3, <3>4, <3>8, <3>9, <3>10 DEF Changes
    <2>2. CASE Send(c)
      <3>1. PICK g : g = [f EXCEPT !.sent = f.sent \o f.taken, !.taken = <<>>]
        OBVIOUS
      <3>2. feed' = [feed EXCEPT ![c] = g] /\ f.at = "live"
        BY <1>2, <2>2, <3>1 DEF Send, FeedInv, Numbers
      <3>3. /\ DOMAIN g = Fields /\ g.taken = <<>> /\ g.queue = f.queue /\ g.sent = f.sent \o f.taken
            /\ \A x \in Fields \ {"sent", "taken", "queue"} : g[x] = f[x]
        BY <1>3, <3>1 DEF Fields
      <3>4. f.sent \o f.taken \in Seq(Nat) /\ <<>> \in Seq(Nat)
        BY <1>4, ConcatProperties, EmptySeq
      <3>5. (f.sent \o f.taken) \o <<>> = f.sent \o f.taken
        BY <3>4, ConcatEmptySeq
      <3>6. Whole(g) = Whole(f)
        BY <3>3, <3>5 DEF Whole
      <3> QED BY <1>2, <1>4, <3>2, <3>3, <3>4, <3>6 DEF Changes
    <2> QED BY <2>1, <2>2
  <1>6. /\ DOMAIN g = Fields /\ g.at = f.at /\ g.start = f.start /\ g.place = f.place /\ g.reader = f.reader
        /\ g.dropped = f.dropped /\ g.trimmed = f.trimmed /\ g.snapshot = f.snapshot /\ g.seen = f.seen
    BY <1>5 DEF Changes, Fields
  <1>7. Kept(g)'
    <2>1. Kept(g)
      BY <1>3, <1>5, <1>6 DEF Good, Kept
    <2> QED BY <2>1 DEF Kept, Whole
  <1>8. newest' = newest /\ scenario' = scenario
    BY <1>1 DEF Steady, stream
  <1>9. Shape(g)'
    BY <1>3, <1>5, <1>6, <1>8 DEF Good, Shape
  <1>10. Recalled(g)'
    <2>1. faults' = 0 => faults = 0
      BY <1>1 DEF Steady, FeedInv, Numbers
    <2> QED BY <1>3, <1>6, <1>8, <2>1 DEF Good, Recalled
  <1>11. Good(g)'
    BY <1>7, <1>9, <1>10 DEF Good
  <1> QED BY <1>1, <1>5, <1>11, OneFeed DEF Changes

\* A read that fails, and the reader that goes on.
LEMMA FeedRetries ==
    ASSUME FeedInv, NEW c \in Clients, ReadFails(c) \/ Retry(c), UNCHANGED scenario
    PROVE  FeedInv'
  <1>1. Steady
    BY DEF FeedInv, Numbers, Steady, ReadFails, Retry, Fault
  <1>2. PICK f : f = feed[c]
    OBVIOUS
  <1>3. Good(f) /\ DOMAIN f = Fields
    BY <1>2, GoodFields DEF FeedInv
  <1>4. f.reader # "off"
    BY <1>2 DEF ReadFails, Retry
  <1>5. PICK state : feed' = [feed EXCEPT ![c].reader = state]
    BY DEF ReadFails, Retry
  <1>6. PICK g : g = [f EXCEPT !.reader = state]
    OBVIOUS
  <1>7. feed' = [feed EXCEPT ![c] = g]
    BY <1>2, <1>5, <1>6 DEF FeedInv, Numbers
  <1>8. /\ DOMAIN g = Fields /\ g.at = f.at /\ g.start = f.start /\ g.place = f.place
        /\ g.sent = f.sent /\ g.taken = f.taken /\ g.queue = f.queue
        /\ g.dropped = f.dropped /\ g.trimmed = f.trimmed /\ g.snapshot = f.snapshot /\ g.seen = f.seen
    BY <1>3, <1>6 DEF Fields
  <1>9. f.at = "live"
    BY <1>3, <1>4 DEF Good, Shape
  <1>10. Kept(g)'
    <2>1. Kept(g)
      BY <1>3, <1>8, SameKept DEF Good
    <2> QED BY <2>1 DEF Kept, Whole
  <1>11. newest' = newest /\ scenario' = scenario
    BY <1>1 DEF Steady, stream
  <1>12. Shape(g)'
    BY <1>3, <1>8, <1>9, <1>11 DEF Good, Shape
  <1>13. Recalled(g)'
    <2>1. faults' = 0 => faults = 0
      BY <1>1 DEF Steady, FeedInv, Numbers
    <2> QED BY <1>3, <1>8, <1>11, <2>1 DEF Good, Recalled
  <1>14. Good(g)'
    BY <1>10, <1>12, <1>13 DEF Good
  <1> QED BY <1>1, <1>7, <1>14, OneFeed

\* A read takes the events from the reader's place on: those that get into the
\* queue follow those on their way, the others of the batch are dropped, and
\* those before the stream's oldest were trimmed.
LEMMA FeedReads ==
    ASSUME FeedInv, NEW c \in Clients, ReadBatch(c), UNCHANGED scenario
    PROVE  FeedInv'
  <1>1. UNCHANGED <<stream, faults>>
    BY DEF ReadBatch, Read
  <1>2. Steady
    BY <1>1 DEF FeedInv, Numbers, Steady
  <1>3. PICK f : f = feed[c]
    OBVIOUS
  <1>4. Good(f) /\ DOMAIN f = Fields
    BY <1>3, GoodFields DEF FeedInv
  <1>5. PICK first, last, queued, old :
            first = First(c) /\ last = LastOfBatch(c) /\ queued = LastQueued(c) /\ old = oldest
    OBVIOUS
  <1>6. /\ first \in Nat /\ last \in Nat /\ queued \in Nat /\ old \in Nat
        /\ old <= first /\ f.place < first /\ (first = old \/ first = f.place + 1)
        /\ first <= last /\ last <= newest
        /\ first <= queued + 1 /\ queued <= last
        /\ (queued + 1) - first <= scenario.queueSize - Len(f.queue)
    <2> DEFINE size == scenario.queueSize
               length == Len(f.queue)
               batch == scenario.batchSize
    <2>1. /\ old \in Nat \ {0} /\ newest \in Nat /\ size \in Nat /\ batch \in Nat \ {0}
          /\ length \in Nat /\ length <= size /\ f.place \in Nat
      BY <1>4, <1>5, ScenarioLengths, LenProperties DEF FeedInv, Numbers, Good, Shape
    <2>2. first = IF old > f.place + 1 THEN old ELSE f.place + 1
      BY <1>3, <1>5 DEF First, Larger
    <2>3. first \in Nat \ {0} /\ old <= first /\ f.place < first /\ (first = old \/ first = f.place + 1)
      BY <2>1, <2>2
    <2>4. first <= newest
      BY <1>5, <2>1, <2>3 DEF ReadBatch, Read, Unread
    <2>5. last = IF newest > (first + batch) - 1 THEN (first + batch) - 1 ELSE newest
      BY <1>5 DEF LastOfBatch, Smaller
    <2>6. queued = IF last > (first + (size - length)) - 1 THEN (first + (size - length)) - 1 ELSE last
      BY <1>3, <1>5 DEF LastQueued, Room, Smaller
    <2> HIDE DEF size, length, batch
    <2>7. last \in Nat /\ first <= last /\ last <= newest
      BY <2>1, <2>3, <2>4, <2>5
    <2>8. /\ queued \in Nat /\ first <= queued + 1 /\ queued <= last
          /\ (queued + 1) - first <= size - length
      BY <2>1, <2>3, <2>6, <2>7
    <2> QED BY <2>1, <2>3, <2>7, <2>8 DEF size, length
  <1> DEFINE new == Listed(first, queued)
  <1>7. PICK g : g = [f EXCEPT !.queue = f.queue \o new,
                               !.place = last,
                               !.dropped = @ \cup ((queued + 1)..last),
                               !.trimmed = @ \cup ((f.place + 1)..(old - 1))]
    OBVIOUS
  <1>8. feed' = [feed EXCEPT ![c] = g] /\ f.reader = "read"
    BY <1>3, <1>5, <1>7 DEF ReadBatch, Read, FeedInv, Numbers
  <1>9. /\ DOMAIN g = Fields /\ g.sent = f.sent /\ g.taken = f.taken /\ g.queue = f.queue \o new
         /\ g.at = f.at /\ g.start = f.start /\ g.place = last /\ g.reader = f.reader
         /\ g.dropped = f.dropped \cup ((queued + 1)..last)
         /\ g.trimmed = f.trimmed \cup ((f.place + 1)..(old - 1)) /\ g.snapshot = f.snapshot /\ g.seen = f.seen
    BY <1>4, <1>7 DEF Fields
  <1>10. /\ f.sent \in Seq(Nat) /\ f.taken \in Seq(Nat) /\ f.queue \in Seq(Nat)
         /\ f.start \in Nat /\ f.place \in Nat /\ f.start <= f.place /\ f.at = "live"
    BY <1>4, <1>8 DEF Good, Shape
  <1>11. /\ new \in Seq(Nat) /\ Len(new) = (queued + 1) - first
         /\ Ascends(new) /\ Within(new, first - 1, queued)
         /\ \A e \in first..queued : On(new, e)
    <2>1. first \in Nat \ {0}
      BY <1>6, <1>10
    <2> QED BY <1>6, <2>1, ListedEvents, ListedOn
  <1> HIDE DEF new
  <1>12. Whole(g) = Whole(f) \o new
    <2>1. f.sent \o f.taken \in Seq(Nat)
      BY <1>10, ConcatProperties
    <2>2. (f.sent \o f.taken) \o (f.queue \o new) = ((f.sent \o f.taken) \o f.queue) \o new
      <3> DEFINE before == f.sent \o f.taken
                 queue == f.queue
      <3>1. before \in Seq(Nat) /\ queue \in Seq(Nat)
        BY <1>10, <2>1
      <3> HIDE DEF before, queue
      <3>2. before \o (queue \o new) = (before \o queue) \o new
        BY <1>11, <3>1, ConcatAssociative
      <3> QED BY <3>2 DEF before, queue
    <2> QED BY <1>9, <2>2 DEF Whole
  <1>13. Whole(f) \in Seq(Nat) /\ Ascends(Whole(f)) /\ Within(Whole(f), f.start, f.place)
    <2>1. f.sent \o f.taken \in Seq(Nat)
      BY <1>10, ConcatProperties
    <2>2. (f.sent \o f.taken) \o f.queue \in Seq(Nat)
      BY <1>10, <2>1, ConcatProperties
    <2> QED BY <1>4, <2>2 DEF Whole, Good, Kept
  <1>14. Within(new, f.place, last)
    <2>1. \A i \in DOMAIN new : new[i] \in Nat
      BY <1>11, ElementOfSeq, LenProperties
    <2> QED BY <1>6, <1>10, <1>11, <2>1 DEF Within
  <1>15. /\ Ascends(Whole(g)) /\ Within(Whole(g), f.start, last)
         /\ \A e \in Nat : On(Whole(f), e) \/ On(new, e) => On(Whole(g), e)
    <2> DEFINE way == Whole(f)
               start == f.start
               place == f.place
    <2>1. /\ start \in Nat /\ place \in Nat /\ last \in Nat /\ start <= place /\ place <= last
          /\ way \in Seq(Nat) /\ Ascends(way) /\ Within(way, start, place) /\ Within(new, place, last)
      BY <1>6, <1>10, <1>13, <1>14
    <2> HIDE DEF way, start, place
    <2>2. /\ Ascends(way \o new) /\ Within(way \o new, start, last)
          /\ \A e \in Nat : On(way, e) \/ On(new, e) => On(way \o new, e)
      BY <1>11, <2>1, JoinedEvents
    <2> QED BY <1>12, <2>2 DEF way, start, place
  <1>16. ASSUME NEW e \in (g.start + 1)..g.place
         PROVE  On(Whole(g), e) \/ e \in g.dropped \cup g.trimmed
    <2>1. e \in Nat /\ f.start < e /\ e <= last
      BY <1>9, <1>10
    <2>2. CASE e <= f.place
      <3>1. e \in (f.start + 1)..f.place
        BY <1>10, <2>1, <2>2
      <3>2. On(Whole(f), e) \/ e \in f.dropped \cup f.trimmed
        BY <1>4, <3>1 DEF Good, Kept
      <3> QED BY <1>9, <1>15, <2>1, <3>2
    <2>3. CASE f.place < e /\ e < first
      <3>1. e \in (f.place + 1)..(old - 1)
        BY <1>6, <1>10, <2>1, <2>3
      <3> QED BY <1>9, <3>1
    <2>4. CASE first <= e /\ e <= queued
      BY <1>11, <1>15, <2>1, <2>4
    <2>5. CASE queued < e
      <3>1. e \in (queued + 1)..last
        BY <1>6, <2>1, <2>5
      <3> QED BY <1>9, <3>1
    <2> QED BY <1>6, <1>10, <2>1, <2>2, <2>3, <2>4, <2>5
  <1>17. Kept(g)'
    <2>1. Kept(g)
      BY <1>9, <1>15, <1>16 DEF Kept
    <2> QED BY <2>1 DEF Kept, Whole
  <1>18. newest' = newest /\ scenario' = scenario
    BY <1>1 DEF stream
  <1>19. Shape(g)'
    <2>1. f.queue \o new \in Seq(Nat) /\ Len(f.queue \o new) <= scenario.queueSize
      <3>1. /\ f.queue \o new \in Seq(Nat) /\ Len(f.queue \o new) = Len(f.queue) + Len(new)
            /\ Len(f.queue) \in Nat
        BY <1>10, <1>11, ConcatProperties, LenProperties
      <3>2. scenario.queueSize \in Nat
        BY ScenarioLengths DEF FeedInv, Numbers
      <3>3. Len(f.queue) + Len(new) <= scenario.queueSize
        <4> DEFINE a == Len(f.queue)
                   b == Len(new)
                   n == scenario.queueSize
        <4>1. a \in Nat /\ n \in Nat /\ b <= n - a /\ b \in Nat
          BY <1>6, <1>11, <3>1, <3>2, LenProperties
        <4> HIDE DEF a, b, n
        <4>2. a + b <= n
          BY <4>1
        <4> QED BY <4>2 DEF a, b, n
      <3> QED BY <3>1, <3>3
    <2>2. f.start <= last
      BY <1>6, <1>10
    <2> QED BY <1>4, <1>6, <1>9, <1>10, <1>18, <2>1, <2>2 DEF Good, Shape
  <1>20. Recalled(g)'
    BY <1>1, <1>4, <1>9, <1>10, <1>18 DEF Good, Recalled
  <1>21. Good(g)'
    BY <1>17, <1>19, <1>20 DEF Good
  <1> QED BY <1>2, <1>8, <1>21, OneFeed

----------------------------------------------------------------------------
(* The theorems *)

\* The stream grows at its end and is trimmed or lost from its beginning.
LEMMA FeedStream ==
    ASSUME FeedInv, Publish \/ StreamLost, UNCHANGED scenario
    PROVE  FeedInv'
  <1>1. /\ newest \in Nat /\ newest' \in Nat /\ newest <= newest' /\ oldest' \in Nat \ {0}
        /\ faults \in Nat /\ faults' \in Nat /\ faults <= faults' /\ feed' = feed
    <2>1. CASE Publish
      <3> DEFINE high == Larger(oldest, (newest' + 1) - scenario.streamLength)
      <3>1. oldest' \in oldest..high
        BY <2>1 DEF Publish
      <3>2. oldest \in Nat \ {0} /\ newest \in Nat /\ newest' = newest + 1 /\ scenario.streamLength \in Nat
        BY <2>1, ScenarioLengths DEF Publish, FeedInv, Numbers
      <3>3. high \in Int
        BY <3>2 DEF Larger
      <3> HIDE DEF high
      <3>4. oldest' \in Nat \ {0}
        BY <3>1, <3>2, <3>3
      <3> QED BY <2>1, <3>2, <3>4 DEF Publish, FeedInv, Numbers
    <2>2. CASE StreamLost
      BY <2>2 DEF StreamLost, Fault, FeedInv, Numbers
    <2> QED BY <2>1, <2>2
  <1>2. Numbers'
    BY <1>1 DEF FeedInv, Numbers
  <1>3. ASSUME NEW c \in Clients PROVE Good(feed[c])'
    <2>1. PICK f : f = feed[c]
      OBVIOUS
    <2>2. Good(f)'
      BY <1>1, <2>1, LeftAlone DEF FeedInv
    <2> QED BY <1>1, <2>1, <2>2
  <1> QED BY <1>2, <1>3 DEF FeedInv

\* A stutter keeps the invariant.
LEMMA FeedStutters ==
    ASSUME FeedInv, UNCHANGED vars
    PROVE  FeedInv'
  BY DEF FeedInv, Numbers, Good, Shape, Kept, Recalled, Whole, vars, stream

LEMMA FeedNext == FeedInv /\ [Next]_vars => FeedInv'
  <1> SUFFICES ASSUME FeedInv, [Next]_vars PROVE FeedInv'
    OBVIOUS
  <1>1. CASE UNCHANGED vars
    BY <1>1, FeedStutters
  <1>2. CASE Next
    <2>1. UNCHANGED scenario /\ Act
      BY <1>2 DEF Next
    <2>2. CASE Publish \/ StreamLost
      BY <2>1, <2>2, FeedStream
    <2>3. ASSUME NEW c \in scenario.clients,
                 \/ Connect(c) \/ TakeSnapshot(c) \/ Greet(c) \/ Subscribe(c) \/ Take(c) \/ Send(c)
                 \/ Disconnect(c) \/ ReadBatch(c) \/ ReadFails(c) \/ Retry(c)
          PROVE  FeedInv'
      <3>1. c \in Clients
        BY ScenarioLengths DEF FeedInv, Numbers
      <3> QED BY <2>1, <2>3, <3>1, FeedReset, FeedGreets, FeedSubscribes, FeedServes, FeedReads, FeedRetries
    <2> QED BY <2>1, <2>2, <2>3 DEF Act
  <1> QED BY <1>1, <1>2

\* Each feed always holds, in order, what its reader has passed.
THEOREM FeedAlways == Spec => []FeedInv
  <1> QED BY FeedInit, FeedNext, PTL DEF Spec

\* What a client gets is the stream from its subscription on, as far as it got,
\* over failed reads, a full queue, a trimmed stream and a lost one: every event
\* once and in order, and none that the snapshot had shown.  Of the events since
\* the snapshot was read it misses those dropped or trimmed, and those published
\* between the snapshot and the subscription, which no one keeps for it.
THEOREM FaithfulFeed == Spec => []Faithful
  <1>1. FeedInv => Faithful
    <2> SUFFICES ASSUME FeedInv PROVE Faithful
      OBVIOUS
    <2>1. \A c \in Clients : Way(c) = Whole(feed[c]) /\ Shape(feed[c]) /\ Kept(feed[c]) /\ Recalled(feed[c])
      BY DEF FeedInv, Good, Way, Whole
    <2>2. InOrder
      BY <2>1 DEF InOrder, Kept, Ascends
    <2>3. Accounted
      <3> SUFFICES ASSUME NEW c \in Clients, NEW e \in 1..feed[c].place,
                          feed[c].seen < e \/ feed[c].start < e
                   PROVE  On(Way(c), e) \/ e \in feed[c].dropped \cup feed[c].trimmed \cup Gap(c)
        BY DEF Accounted
      <3>1. feed[c].seen \in Nat /\ feed[c].start \in Nat /\ feed[c].place \in Nat
        BY <2>1 DEF Shape
      <3>2. CASE feed[c].start < e
        <4>1. e \in (feed[c].start + 1)..feed[c].place
          BY <3>1, <3>2
        <4> QED BY <2>1, <4>1 DEF Kept
      <3>3. CASE feed[c].seen < e /\ e <= feed[c].start
        <4>1. e \in Gap(c)
          BY <3>1, <3>3 DEF Gap
        <4> QED BY <4>1
      <3> QED BY <3>1, <3>2, <3>3
    <2>4. NotTwice
      <3> SUFFICES ASSUME faults = 0, NEW c \in Clients, NEW e \in feed[c].snapshot, On(Way(c), e) PROVE FALSE
        BY DEF NotTwice
      <3>1. PICK f : f = feed[c]
        OBVIOUS
      <3>2. Shape(f) /\ Kept(f) /\ Recalled(f) /\ On(Whole(f), e) /\ e \in f.snapshot
        BY <2>1, <3>1
      <3>3. PICK i \in DOMAIN Whole(f) : Whole(f)[i] = e
        BY <3>2 DEF On
      <3>4. f.start < e /\ f.start \in Nat /\ e \in Nat
        BY <3>2, <3>3 DEF Kept, Within, Shape, Recalled
      <3>5. CASE f.at = "live"
        BY <3>2, <3>4, <3>5 DEF Recalled
      <3>6. CASE f.at # "live"
        <4>1. f.start = 0 /\ f.place = 0
          BY <3>2, <3>6 DEF Shape
        <4>2. e <= 0
          BY <3>2, <3>3, <4>1 DEF Kept, Within
        <4> QED BY <3>4, <4>1, <4>2
      <3> QED BY <3>5, <3>6
    <2> QED BY <2>2, <2>3, <2>4 DEF Faithful
  <1> QED BY <1>1, FeedAlways, PTL
=============================================================================
