------------------------------ MODULE EventFeed ------------------------------
(***************************************************************************)
(* The event stream in Redis (events/redis_event_bus.py) and the WebSocket *)
(* feeds the control plane makes of it (api/websocket.py): a snapshot with *)
(* the recent events, then a queue that a reader task fills from the       *)
(* stream and the endpoint empties into the socket.                        *)
(*                                                                         *)
(* Events are numbered as they are appended; the stream holds those from   *)
(* oldest to newest.  An entry is read and queued without an await, so     *)
(* reading a batch is one action.                                          *)
(***************************************************************************)
EXTENDS Naturals, Sequences

CONSTANTS Clients, Scenarios

\* The lengths: of the stream (_STREAM_MAXLEN), of the recent events shown
\* (_RECENT_EVENT_COUNT), of a subscriber's queue and of one xread; and bounds.
Scenario ==
    [clients : SUBSET Clients, streamLength : Nat \ {0}, recentCount : Nat \ {0},
     queueSize : Nat \ {0}, batchSize : Nat \ {0},
     maxEvents : Nat, maxConnects : Nat, maxFaults : Nat]

Events == UNION {1..w.maxEvents : w \in Scenarios}

ASSUME EventFeedAssumption == Scenarios \subseteq Scenario

VARIABLES
    oldest, newest,  \* the stream
    feed,            \* of each client: its endpoint, its queue and its reader
    connects, faults,
    scenario         \* the one this behaviour follows

stream == <<oldest, newest>>
vars == <<stream, feed, connects, faults, scenario>>

\* seen, start, snapshot, sent, dropped and trimmed are history: the newest event
\* when the snapshot was read, where the reader began, what the client was sent,
\* and what it was not.
Closed == [at |-> "closed", queue |-> <<>>, taken |-> <<>>, reader |-> "off", place |-> 0,
           seen |-> 0, start |-> 0, snapshot |-> {}, sent |-> <<>>, dropped |-> {}, trimmed |-> {}]

Init ==
    /\ oldest = 1 /\ newest = 0
    /\ feed = [c \in Clients |-> Closed]
    /\ connects = 0 /\ faults = 0
    /\ scenario \in Scenarios

Fault == faults < scenario.maxFaults /\ faults' = faults + 1
Larger(a, b) == IF a > b THEN a ELSE b
Smaller(a, b) == IF a > b THEN b ELSE a

\* The stream is trimmed approximately: it may stay longer than it need be.
Publish ==
    /\ newest < scenario.maxEvents /\ newest' = newest + 1
    /\ oldest' \in oldest..Larger(oldest, (newest' + 1) - scenario.streamLength)
    /\ UNCHANGED <<feed, connects, faults>>

----------------------------------------------------------------------------
(* The endpoint *)

\* The stores are read before the events, which is all that matters of them.
Connect(c) ==
    /\ feed[c].at = "closed"
    /\ connects < scenario.maxConnects /\ connects' = connects + 1
    /\ feed' = [feed EXCEPT ![c] = [Closed EXCEPT !.at = "snapshot"]]
    /\ UNCHANGED <<stream, faults>>

Recent == {e \in oldest..newest : e + scenario.recentCount > newest}

\* Events that cannot be read are none.
TakeSnapshot(c) ==
    /\ feed[c].at = "snapshot"
    /\ \/ feed' = [feed EXCEPT ![c].at = "greet", ![c].seen = newest, ![c].snapshot = Recent] /\ UNCHANGED faults
       \/ feed' = [feed EXCEPT ![c].at = "greet", ![c].seen = newest] /\ Fault
    /\ UNCHANGED <<stream, connects>>

Greet(c) ==
    /\ feed[c].at = "greet"
    /\ feed' = [feed EXCEPT ![c].at = "subscribe"]
    /\ UNCHANGED <<stream, connects, faults>>

From(c, place) ==
    feed' = [feed EXCEPT ![c].at = "live", ![c].reader = "read", ![c].place = place, ![c].start = place]

\* subscribe: the reader starts after the newest event, or at the first one if
\* Redis does not answer.  It does not start where the snapshot ended.
Subscribe(c) ==
    /\ feed[c].at = "subscribe"
    /\ \/ From(c, newest) /\ UNCHANGED faults
       \/ From(c, 0) /\ Fault
    /\ UNCHANGED <<stream, connects>>

Take(c) ==
    /\ feed[c].at = "live" /\ feed[c].taken = <<>> /\ feed[c].queue # <<>>
    /\ feed' = [feed EXCEPT ![c].taken = <<Head(feed[c].queue)>>, ![c].queue = Tail(@)]
    /\ UNCHANGED <<stream, connects, faults>>

Send(c) ==
    /\ feed[c].at = "live" /\ feed[c].taken # <<>>
    /\ feed' = [feed EXCEPT ![c].sent = @ \o feed[c].taken, ![c].taken = <<>>]
    /\ UNCHANGED <<stream, connects, faults>>

\* The client is gone when something is sent: the endpoint ends and its reader
\* is cancelled, whatever it awaits.
Disconnect(c) ==
    /\ feed[c].at # "closed"
    /\ feed' = [feed EXCEPT ![c] = Closed]
    /\ UNCHANGED <<stream, connects, faults>>

----------------------------------------------------------------------------
(* The reader *)

\* The entries a read finds: the first and the last one, and the last that gets
\* into the queue; those after it are dropped.
First(c) == Larger(oldest, feed[c].place + 1)
Unread(c) == First(c)..newest
Room(c) == scenario.queueSize - Len(feed[c].queue)
LastOfBatch(c) == Smaller(newest, (First(c) + scenario.batchSize) - 1)
LastQueued(c) == Smaller(LastOfBatch(c), (First(c) + Room(c)) - 1)

\* The events from one to another, as a sequence.
Listed(from, to) == [i \in 1..((to + 1) - from) |-> (from + i) - 1]

Read(c, place) ==
    /\ feed[c].reader = "read" /\ Unread(c) # {}
    /\ feed' = [feed EXCEPT
           ![c].queue = @ \o Listed(First(c), LastQueued(c)),
           ![c].place = place,
           ![c].dropped = @ \cup ((LastQueued(c) + 1)..LastOfBatch(c)),
           ![c].trimmed = @ \cup ((feed[c].place + 1)..(oldest - 1))]
    /\ UNCHANGED <<stream, connects, faults>>

\* Mutant of ReadBatch: a full queue ends the batch before the place is stored.
ReadBatch_KeepsPlace(c) ==
    Read(c, IF LastQueued(c) = LastOfBatch(c) THEN LastOfBatch(c) ELSE feed[c].place)

ReadBatch(c) == Read(c, LastOfBatch(c))

\* Mutant of ReadFails: the reader ends.
ReadFails_Ends(c) ==
    /\ feed[c].reader = "read" /\ Fault
    /\ feed' = [feed EXCEPT ![c].reader = "off"]
    /\ UNCHANGED <<stream, connects>>

ReadFails(c) ==
    /\ feed[c].reader = "read" /\ Fault
    /\ feed' = [feed EXCEPT ![c].reader = "sleep"]
    /\ UNCHANGED <<stream, connects>>

Retry(c) ==
    /\ feed[c].reader = "sleep"
    /\ feed' = [feed EXCEPT ![c].reader = "read"]
    /\ UNCHANGED <<stream, connects, faults>>

----------------------------------------------------------------------------

\* Redis comes back without the stream; the numbers of new events go on.
StreamLost ==
    /\ Fault
    /\ oldest' = newest + 1
    /\ UNCHANGED <<newest, feed, connects>>

Act ==
    \/ Publish \/ StreamLost
    \/ \E c \in scenario.clients : \/ Connect(c) \/ TakeSnapshot(c) \/ Greet(c) \/ Subscribe(c) \/ Take(c) \/ Send(c)
                          \/ Disconnect(c) \/ ReadBatch(c) \/ ReadFails(c) \/ Retry(c)

Next == Act /\ UNCHANGED scenario

Spec == Init /\ [][Next]_vars

\* The reader goes on, and so does the endpoint once it has subscribed.
Fairness ==
    \A c \in Clients : /\ WF_vars(ReadBatch(c) /\ UNCHANGED scenario)
                       /\ WF_vars(Retry(c) /\ UNCHANGED scenario)
                       /\ WF_vars(Take(c) /\ UNCHANGED scenario)
                       /\ WF_vars(Send(c) /\ UNCHANGED scenario)

FairSpec == Spec /\ Fairness

----------------------------------------------------------------------------
(* Properties *)

Way(c) == feed[c].sent \o feed[c].taken \o feed[c].queue
On(events, e) == \E i \in DOMAIN events : events[i] = e

TypeOK ==
    /\ oldest \in 1..scenario.maxEvents + 1 /\ newest \in 0..scenario.maxEvents
    /\ \A c \in Clients :
           /\ Len(feed[c].queue) <= scenario.queueSize /\ Len(feed[c].taken) <= 1
           /\ feed[c].place \in 0..newest
           /\ feed[c].reader \in {"off", "read", "sleep"} /\ (feed[c].reader # "off" <=> feed[c].at = "live")

\* A feed gets each event once and in the order of the stream, over failed
\* reads, a full queue and a trimmed stream.
InOrder == \A c \in Clients : \A i, j \in DOMAIN Way(c) : i < j => Way(c)[i] < Way(c)[j]

\* What is published after the snapshot was read and before the reader begins:
\* neither has it (the endpoint reads its snapshot first and subscribes when it
\* has sent it, websocket.py:32-44).
Gap(c) == (feed[c].seen + 1)..feed[c].start

\* Of the events since the snapshot that the reader has passed none is missing
\* but those of the gap before the subscription, those for which there was no
\* room and those that had left the stream before they were read.
Accounted ==
    \A c \in Clients : \A e \in 1..feed[c].place :
        (feed[c].seen < e \/ feed[c].start < e) =>
            On(Way(c), e) \/ e \in feed[c].dropped \cup feed[c].trimmed \cup Gap(c)

\* What the snapshot showed does not come again, as long as Redis answered.
NotTwice == faults = 0 => \A c \in Clients : \A e \in feed[c].snapshot : ~On(Way(c), e)

\* What a client gets is the stream from its subscription on, as far as it got:
\* each event once, in order, apart from the snapshot, and what it misses since
\* the snapshot was published in the gap, dropped or trimmed.
Faithful == InOrder /\ Accounted /\ NotTwice

\* An event that is published to a feed that has subscribed gets to its client, unless
\* it is dropped, or leaves the stream before it is read, or the client leaves.
Delivered ==
    \A c \in Clients, e \in Events :
        (feed[c].at = "live" /\ feed[c].start < e /\ e <= newest)
            ~> \/ On(feed[c].sent, e) \/ e \in feed[c].dropped \cup feed[c].trimmed
               \/ feed[c].place < e /\ e < oldest
               \/ feed[c].at = "closed"
=============================================================================
