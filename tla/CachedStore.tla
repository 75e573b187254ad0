---------------------------- MODULE CachedStore ----------------------------
(***************************************************************************)
(* TTLStoreCache (store/cached_store.py) in front of a row store           *)
(* (store/postgres_store.py; store/json_store.py keeps the same contract), *)
(* as the proxy uses it for services and secrets while other processes     *)
(* write the store directly.                                               *)
(*                                                                         *)
(* Each method of the cache awaits the store once.  The store executes the *)
(* call at one instant, its caller goes on later, and between the two any  *)
(* other call may run.  Time is relative: `left` is what remains of an     *)
(* entry's time to live and `age` how long ago a key held an item, so no   *)
(* clock grows.                                                            *)
(***************************************************************************)
EXTENDS Naturals, Sequences, SequencesExt

CONSTANTS
    Keys, Values,
    NoItem,      \* None
    Callers,     \* coroutines of the process that owns the cache
    NoAnswer,
    TTL,         \* ttl_seconds, in ticks
    MaxEntries,  \* max_entries
    MaxLatency   \* ticks between an execution by the store and its caller's resumption

ASSUME CacheAssumption ==
    /\ TTL \in Nat \ {0}        \* __init__ refuses anything else
    /\ MaxEntries \in Nat \ {0}
    /\ MaxLatency \in Nat
    /\ NoItem \notin Values

Items == Values \cup {NoItem}
Window == TTL + MaxLatency

VARIABLES
    store,   \* the rows: an item under each key
    age,     \* history: how long ago each key last held each item
    cache,   \* _entries: item and time left under each key
    order,   \* _entries: the keys that have an entry, least recently used first
    call,    \* what each coroutine is awaiting
    answer   \* the last result each coroutine got from get or exists

vars == <<store, age, cache, order, call, answer>>

NoEntry == [item |-> NoItem, left |-> 0]
Idle == [phase |-> "idle"]
Asked(op, k, i) == [phase |-> "asked", op |-> op, key |-> k, item |-> i]
Executed(op, k, i) == [phase |-> "executed", op |-> op, key |-> k, item |-> i, waited |-> 0]

Init ==
    /\ store \in [Keys -> Items]
    /\ age = [k \in Keys |-> [i \in Items |-> IF i = store[k] THEN 0 ELSE Window]]
    /\ cache = [k \in Keys |-> NoEntry]
    /\ order = <<>>
    /\ call = [p \in Callers |-> Idle]
    /\ answer = [p \in Callers |-> NoAnswer]

\* _fresh_entry: an entry is stale from the tick its time is up.
Fresh(k) == cache[k].left > 0

\* The keys in their order, without k if it is there.
Without(k) ==
    IF \E n \in DOMAIN order : order[n] = k
    THEN RemoveAt(order, CHOOSE n \in DOMAIN order : order[n] = k) ELSE order

\* Mutant of Hit: an entry that is used lives on for a whole TTL.
Hit_Sliding(k) ==
    /\ order' = Append(Without(k), k)
    /\ cache' = [cache EXCEPT ![k].left = TTL]

\* A fresh entry is moved to the end; its time to live goes on running.
Hit(k) ==
    /\ order' = Append(Without(k), k)
    /\ UNCHANGED cache

Drop(k) ==
    /\ order' = Without(k)
    /\ cache' = [cache EXCEPT ![k] = NoEntry]

\* Mutant of Remember: nothing makes room.
Remember_Unbounded(k, i) ==
    /\ order' = Append(Without(k), k)
    /\ cache' = [cache EXCEPT ![k] = [item |-> i, left |-> TTL]]

\* _remember: the oldest entries make room.
Remember(k, i) ==
    LET queue == Append(Without(k), k)
        kept == SubSeq(queue, IF Len(queue) > MaxEntries THEN Len(queue) - MaxEntries + 1 ELSE 1,
                       Len(queue))
    IN /\ order' = kept
       /\ cache' = [x \in Keys |-> IF x = k THEN [item |-> i, left |-> TTL]
                                   ELSE IF \E n \in DOMAIN kept : kept[n] = x THEN cache[x]
                                   ELSE NoEntry]

Result(op, i) == IF op = "exists" THEN i # NoItem ELSE i
Answer(p, op, k, i) ==
    answer' = [answer EXCEPT ![p] = [op |-> op, key |-> k, result |-> Result(op, i)]]

\* get and exists: a fresh entry is the answer, any other is dropped and
\* the store is asked.
Read(p, op, k) ==
    /\ call[p] = Idle
    /\ \/ /\ Fresh(k)
          /\ Hit(k)
          /\ Answer(p, op, k, cache[k].item)
          /\ UNCHANGED call
       \/ /\ ~Fresh(k)
          /\ Drop(k)
          /\ call' = [call EXCEPT ![p] = Asked(op, k, NoItem)]
          /\ answer' = [answer EXCEPT ![p] = NoAnswer]
    /\ UNCHANGED <<store, age>>

\* put and delete go to the store first.
Update(p, op, k, i) ==
    /\ call[p] = Idle
    /\ call' = [call EXCEPT ![p] = Asked(op, k, i)]
    /\ answer' = [answer EXCEPT ![p] = NoAnswer]
    /\ UNCHANGED <<store, age, cache, order>>

SetRow(k, i) ==
    /\ store' = [store EXCEPT ![k] = i]
    /\ age' = [age EXCEPT ![k][i] = 0]

\* The store executes the statement.
Execute(p) ==
    LET c == call[p] IN
    /\ c.phase = "asked"
    /\ IF c.op \in {"put", "delete"}
       THEN /\ SetRow(c.key, c.item)
            /\ call' = [call EXCEPT ![p] = Executed(c.op, c.key, c.item)]
       ELSE /\ call' = [call EXCEPT ![p] = Executed(c.op, c.key, store[c.key])]
            /\ UNCHANGED <<store, age>>
    /\ UNCHANGED <<cache, order, answer>>

\* Mutant of Return: that there is no such item is remembered as well.
Return_NegativeCached(p) ==
    LET c == call[p] IN
    /\ c.phase = "executed"
    /\ IF c.op = "delete" THEN Drop(c.key)
       ELSE IF c.op # "exists" THEN Remember(c.key, c.item) ELSE UNCHANGED <<cache, order>>
    /\ IF c.op \in {"get", "exists"} THEN Answer(p, c.op, c.key, c.item) ELSE UNCHANGED answer
    /\ call' = [call EXCEPT ![p] = Idle]
    /\ UNCHANGED <<store, age>>

\* The await is over.  What get found is remembered from now on, whatever
\* has become of the row and of the entry in the meantime.
Return(p) ==
    LET c == call[p] IN
    /\ c.phase = "executed"
    /\ IF c.op = "delete" THEN Drop(c.key)
       ELSE IF c.op # "exists" /\ c.item # NoItem THEN Remember(c.key, c.item)
       ELSE UNCHANGED <<cache, order>>
    /\ IF c.op \in {"get", "exists"} THEN Answer(p, c.op, c.key, c.item) ELSE UNCHANGED answer
    /\ call' = [call EXCEPT ![p] = Idle]
    /\ UNCHANGED <<store, age>>

\* The store raises, before or after it has executed: nothing is remembered.
Fail(p) ==
    /\ call[p] # Idle
    /\ call' = [call EXCEPT ![p] = Idle]
    /\ UNCHANGED <<store, age, cache, order, answer>>

\* Another process writes the row.
WriteElsewhere(k, i) ==
    /\ SetRow(k, i)
    /\ UNCHANGED <<cache, order, call, answer>>

Less1(n) == IF n > 0 THEN n - 1 ELSE 0

\* Time passes, but no caller waits longer than MaxLatency for its answer.
Tick ==
    /\ \A p \in Callers : call[p].phase = "executed" => call[p].waited < MaxLatency
    /\ call' = [p \in Callers |-> IF call[p].phase = "executed"
                                  THEN [call[p] EXCEPT !.waited = @ + 1] ELSE call[p]]
    /\ cache' = [k \in Keys |-> [item |-> cache[k].item, left |-> Less1(cache[k].left)]]
    /\ age' = [k \in Keys |-> [i \in Items |->
                  IF i = store[k] \/ age[k][i] = Window THEN age[k][i] ELSE age[k][i] + 1]]
    /\ UNCHANGED <<store, order, answer>>

Next ==
    \/ \E p \in Callers, op \in {"get", "exists"}, k \in Keys : Read(p, op, k)
    \/ \E p \in Callers, k \in Keys, i \in Values : Update(p, "put", k, i)
    \/ \E p \in Callers, k \in Keys : Update(p, "delete", k, NoItem)
    \/ \E p \in Callers : Execute(p) \/ Return(p) \/ Fail(p)
    \/ \E k \in Keys, i \in Items : WriteElsewhere(k, i)
    \/ Tick

Spec == Init /\ [][Next]_vars

\* Timers run, whoever is waiting is resumed.
FairSpec == Spec /\ WF_vars(Tick) /\ \A p \in Callers : WF_vars(Execute(p)) /\ WF_vars(Return(p))

----------------------------------------------------------------------------
(* Properties *)

\* Also the ordered dictionary: exactly the keys that have an entry, once each
\* and never more than max_entries, expired ones included.
TypeOK ==
    /\ order \in Seq(Keys) /\ Len(order) <= MaxEntries /\ IsInjective(order)
    /\ \A k \in Keys : cache[k] # NoEntry <=> \E n \in DOMAIN order : order[n] = k
    /\ store \in [Keys -> Items]
    /\ age \in [Keys -> [Items -> 0..Window]]
    /\ cache \in [Keys -> [item : Items, left : 0..TTL]]
    /\ call \in [Callers -> {Idle}
            \cup [phase : {"asked"}, op : {"get", "exists", "put", "delete"}, key : Keys, item : Items]
            \cup [phase : {"executed"}, op : {"get", "exists", "put", "delete"}, key : Keys,
                  item : Items, waited : 0..MaxLatency]]

\* However reads, writes, deletes and the writes of other processes overlap,
\* an entry that is still served was the row of its key recently enough: what
\* is left of its time plus the time since the row had it stays in the window.
EntriesYoung ==
    \A k \in Keys : Fresh(k) =>
        /\ cache[k].item # NoItem
        /\ age[k][cache[k].item] + cache[k].left <= Window

Abstract == INSTANCE StaleStore WITH MissWindow <- MaxLatency

\* The cache is a store with bounded staleness: get and exists answer with an
\* item the store held less than TTL plus one round trip ago, and with None
\* only if there was none during the last round trip.
ImplementsStaleStore == Abstract!Spec

\* When nobody writes a key any more, the answers from the cache end up being
\* the row: no entry, however often it is used, keeps an old item alive.
CatchesUp ==
    \A k \in Keys, i \in Items :
        <>[](store[k] = i) => <>[](Fresh(k) => cache[k].item = i)
=============================================================================
