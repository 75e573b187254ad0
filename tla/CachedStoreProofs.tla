------------------------- MODULE CachedStoreProofs -------------------------
(***************************************************************************)
(* Proofs about the cached store: however many callers and keys there are, *)
(* and however long calls and entries last, what is served is young enough *)
(* (EntriesYoung), so that the cache implements StaleStore.                *)
(***************************************************************************)
EXTENDS CachedStore, SequenceTheorems, TLAPS

AllOps == {"get", "exists", "put", "delete"}

CallType ==
    {Idle}
    \cup [phase : {"asked"}, op : AllOps, key : Keys, item : Items]
    \cup [phase : {"executed"}, op : AllOps, key : Keys, item : Items, waited : 0..MaxLatency]

\* The part of TypeOK that the proof needs: nothing about the order of entries.
Types ==
    /\ store \in [Keys -> Items]
    /\ age \in [Keys -> [Items -> 0..Window]]
    /\ cache \in [Keys -> [item : Items, left : 0..TTL]]
    /\ call \in [Callers -> CallType]

\* What a key holds now it held no time ago.
RowsYoung == \A k \in Keys : age[k][store[k]] = 0

\* What a call has brought was the row when the store executed it.
CallsYoung ==
    \A p \in Callers : call[p].phase = "executed" =>
        age[call[p].key][call[p].item] <= call[p].waited

YoungInv == Types /\ RowsYoung /\ CallsYoung /\ EntriesYoung

\* The constants of the store are numbers.
LEMMA Constants == /\ TTL \in Nat /\ TTL > 0 /\ MaxLatency \in Nat /\ Window = TTL + MaxLatency
                   /\ Window \in Nat /\ NoItem \in Items
BY CacheAssumption DEF Window, Items

LEMMA YoungInit == Init => YoungInv
<1> SUFFICES ASSUME Init PROVE YoungInv
  OBVIOUS
<1>1. Types
  BY Constants DEF Init, Types, CallType, NoEntry
<1>2. RowsYoung /\ CallsYoung /\ EntriesYoung
  BY Constants DEF Init, RowsYoung, CallsYoung, EntriesYoung, Fresh, NoEntry, Idle
<1> QED BY <1>1, <1>2 DEF YoungInv

\* A row is written: its key holds the new item, the others go on.
LEMMA SetRowYoung ==
    ASSUME YoungInv, NEW k \in Keys, NEW i \in Items, SetRow(k, i)
    PROVE  /\ store' \in [Keys -> Items] /\ age' \in [Keys -> [Items -> 0..Window]]
           /\ RowsYoung'
           /\ \A x \in Keys, j \in Items : age'[x][j] <= age[x][j]
           /\ age'[k][i] = 0
<1> USE DEF YoungInv, Types
<1>1. age' = [age EXCEPT ![k] = [age[k] EXCEPT ![i] = 0]] /\ store' = [store EXCEPT ![k] = i]
  BY DEF SetRow
<1>2. age[k] \in [Items -> 0..Window] /\ 0 \in 0..Window
  BY Constants
<1>3. [age[k] EXCEPT ![i] = 0] \in [Items -> 0..Window]
  BY <1>2
<1>4. store' \in [Keys -> Items] /\ age' \in [Keys -> [Items -> 0..Window]]
  BY <1>1, <1>3
<1>5. \A x \in Keys, j \in Items : age'[x][j] = IF x = k /\ j = i THEN 0 ELSE age[x][j]
  BY <1>1, <1>2
<1>6. \A x \in Keys, j \in Items : age[x][j] \in Nat
  BY Constants
<1>7. RowsYoung'
  BY <1>1, <1>4, <1>5 DEF RowsYoung
<1> QED BY <1>4, <1>5, <1>6, <1>7

\* No age grows and no entry changes: entries stay young.
LEMMA EntriesStayYoung ==
    ASSUME YoungInv, age' \in [Keys -> [Items -> 0..Window]], UNCHANGED cache,
           \A x \in Keys, j \in Items : age'[x][j] <= age[x][j]
    PROVE  EntriesYoung'
<1> SUFFICES ASSUME NEW k \in Keys, Fresh(k)'
             PROVE  cache'[k].item # NoItem /\ age'[k][cache'[k].item] + cache'[k].left <= Window
  BY DEF EntriesYoung
<1>1. cache'[k] = cache[k] /\ Fresh(k) /\ cache[k].item \in Items /\ cache[k].left \in 0..TTL
  BY DEF Fresh, YoungInv, Types
<1>2. cache[k].item # NoItem /\ age[k][cache[k].item] + cache[k].left <= Window
  BY <1>1 DEF YoungInv, EntriesYoung
<1>3. age'[k][cache[k].item] <= age[k][cache[k].item]
  BY <1>1
<1>4. age'[k][cache[k].item] \in Nat /\ age[k][cache[k].item] \in Nat /\ cache[k].left \in Nat
  BY <1>1, Constants DEF YoungInv, Types
<1> QED BY <1>1, <1>2, <1>3, <1>4, Constants

\* Entries that are dropped take nothing from the others.
LEMMA DropYoung ==
    ASSUME YoungInv, NEW k \in Keys, Drop(k), UNCHANGED age
    PROVE  cache' \in [Keys -> [item : Items, left : 0..TTL]] /\ EntriesYoung'
BY Constants DEF YoungInv, Types, Drop, NoEntry, EntriesYoung, Fresh

\* An item that was the row at most MaxLatency ago may live for a whole TTL.
LEMMA RememberYoung ==
    ASSUME YoungInv, NEW k \in Keys, NEW i \in Items \ {NoItem}, age[k][i] <= MaxLatency,
           Remember(k, i), UNCHANGED age
    PROVE  cache' \in [Keys -> [item : Items, left : 0..TTL]] /\ EntriesYoung'
<1>1. /\ \A x \in Keys : cache'[x] \in {[item |-> i, left |-> TTL], cache[x], NoEntry}
      /\ \A x \in Keys \ {k} : cache'[x] \in {cache[x], NoEntry}
      /\ cache'[k] = [item |-> i, left |-> TTL]
      /\ cache' = [x \in Keys |-> cache'[x]]
  BY DEF Remember
<1>2. cache' \in [Keys -> [item : Items, left : 0..TTL]]
  BY <1>1, Constants DEF YoungInv, Types, NoEntry
<1>3. ASSUME NEW x \in Keys, Fresh(x)'
      PROVE  cache'[x].item # NoItem /\ age'[x][cache'[x].item] + cache'[x].left <= Window
  <2>1. CASE x = k
    <3>1. age[k][i] \in Nat
      BY Constants DEF YoungInv, Types
    <3> QED BY <2>1, <1>1, <3>1, Constants
  <2>2. CASE x # k
    <3>1. cache'[x] = cache[x]
      BY <1>1, <1>3, <2>2 DEF Fresh, NoEntry
    <3> QED BY <3>1, <1>3 DEF YoungInv, EntriesYoung, Fresh
  <2> QED BY <2>1, <2>2
<1> QED BY <1>2, <1>3 DEF EntriesYoung

----------------------------------------------------------------------------
(* The steps *)

\* What is known of a call whose answer has come.
LEMMA CallKnown ==
    ASSUME YoungInv, NEW p \in Callers, call[p].phase = "executed"
    PROVE  /\ call[p] \in [phase : {"executed"}, op : AllOps, key : Keys, item : Items, waited : 0..MaxLatency]
           /\ age[call[p].key][call[p].item] \in Nat
           /\ age[call[p].key][call[p].item] <= MaxLatency
<1>1. call[p] \in [phase : {"executed"}, op : AllOps, key : Keys, item : Items, waited : 0..MaxLatency]
  BY DEF YoungInv, Types, CallType, Idle
<1>2. age[call[p].key][call[p].item] \in Nat
  BY <1>1, Constants DEF YoungInv, Types
<1>3. age[call[p].key][call[p].item] <= call[p].waited
  BY DEF YoungInv, CallsYoung
<1> QED BY <1>1, <1>2, <1>3, Constants

LEMMA ReadStep ==
    ASSUME YoungInv, NEW p \in Callers, NEW op \in {"get", "exists"}, NEW k \in Keys, Read(p, op, k)
    PROVE  YoungInv'
<1>1. UNCHANGED <<store, age>>
  BY DEF Read
<1>2. CASE Fresh(k) /\ Hit(k) /\ UNCHANGED call
  BY <1>1, <1>2 DEF YoungInv, Types, RowsYoung, CallsYoung, EntriesYoung, Fresh, Hit
<1>3. CASE Drop(k) /\ call' = [call EXCEPT ![p] = Asked(op, k, NoItem)]
  <2>1. Asked(op, k, NoItem) \in CallType /\ Asked(op, k, NoItem).phase = "asked"
    BY Constants DEF Asked, CallType, AllOps
  <2>2. cache' \in [Keys -> [item : Items, left : 0..TTL]] /\ EntriesYoung'
    BY <1>1, <1>3, DropYoung
  <2>3. call' \in [Callers -> CallType] /\ CallsYoung'
    BY <1>1, <1>3, <2>1 DEF YoungInv, Types, CallsYoung
  <2> QED BY <1>1, <2>2, <2>3 DEF YoungInv, Types, RowsYoung
<1> QED BY <1>2, <1>3 DEF Read

LEMMA UpdateStep ==
    ASSUME YoungInv, NEW p \in Callers, NEW op \in {"put", "delete"}, NEW k \in Keys, NEW i \in Items,
           Update(p, op, k, i)
    PROVE  YoungInv'
<1>1. Asked(op, k, i) \in CallType /\ Asked(op, k, i).phase = "asked"
  BY DEF Asked, CallType, AllOps
<1>2. call' \in [Callers -> CallType] /\ CallsYoung'
  BY <1>1 DEF Update, YoungInv, Types, CallsYoung
<1> QED BY <1>2 DEF Update, YoungInv, Types, RowsYoung, EntriesYoung, Fresh

LEMMA ExecuteStep ==
    ASSUME YoungInv, NEW p \in Callers, Execute(p)
    PROVE  YoungInv'
<1> DEFINE c == call[p]
<1>1. c \in [phase : {"asked"}, op : AllOps, key : Keys, item : Items] /\ UNCHANGED cache
  BY DEF Execute, YoungInv, Types, CallType, Idle
<1>2. CASE SetRow(c.key, c.item) /\ call' = [call EXCEPT ![p] = Executed(c.op, c.key, c.item)]
  <2>1. /\ store' \in [Keys -> Items] /\ age' \in [Keys -> [Items -> 0..Window]]
        /\ RowsYoung'
        /\ \A x \in Keys, j \in Items : age'[x][j] <= age[x][j]
        /\ age'[c.key][c.item] = 0
    BY <1>1, <1>2, SetRowYoung
  <2>2. EntriesYoung'
    BY <1>1, <2>1, EntriesStayYoung
  <2>3. Executed(c.op, c.key, c.item) \in CallType
    BY <1>1, Constants DEF Executed, CallType
  <2>4. call' \in [Callers -> CallType]
    BY <1>2, <2>3 DEF YoungInv, Types
  <2>5. CallsYoung'
    <3> SUFFICES ASSUME NEW q \in Callers, call'[q].phase = "executed"
                 PROVE  age'[call'[q].key][call'[q].item] <= call'[q].waited
      BY DEF CallsYoung
    <3>1. CASE q = p
      BY <1>2, <2>1, <3>1 DEF Executed, YoungInv, Types
    <3>2. CASE q # p
      <4>1. call'[q] = call[q]
        BY <1>2, <3>2 DEF YoungInv, Types
      <4>2. call[q] \in [phase : {"executed"}, op : AllOps, key : Keys, item : Items, waited : 0..MaxLatency]
        BY <4>1, CallKnown
      <4>3. age[call[q].key][call[q].item] <= call[q].waited
        BY <4>1 DEF YoungInv, CallsYoung
      <4>4. age'[call[q].key][call[q].item] <= age[call[q].key][call[q].item]
        BY <2>1, <4>2
      <4>5. /\ age'[call[q].key][call[q].item] \in Nat /\ age[call[q].key][call[q].item] \in Nat
            /\ call[q].waited \in Nat
        BY <2>1, <4>2, Constants DEF YoungInv, Types
      <4> QED BY <4>1, <4>3, <4>4, <4>5
    <3> QED BY <3>1, <3>2
  <2> QED BY <1>1, <2>1, <2>2, <2>4, <2>5 DEF YoungInv, Types
<1>3. CASE UNCHANGED <<store, age>> /\ call' = [call EXCEPT ![p] = Executed(c.op, c.key, store[c.key])]
  <2>1. store[c.key] \in Items /\ age[c.key][store[c.key]] = 0
    BY <1>1 DEF YoungInv, Types, RowsYoung
  <2>2. Executed(c.op, c.key, store[c.key]) \in CallType
    BY <1>1, <2>1, Constants DEF Executed, CallType
  <2>3. call' \in [Callers -> CallType] /\ CallsYoung'
    BY <1>3, <2>1, <2>2 DEF YoungInv, Types, CallsYoung, Executed
  <2> QED BY <1>1, <1>3, <2>3 DEF YoungInv, Types, RowsYoung, EntriesYoung, Fresh
<1> QED BY <1>2, <1>3 DEF Execute

LEMMA ReturnStep ==
    ASSUME YoungInv, NEW p \in Callers, Return(p)
    PROVE  YoungInv'
<1> DEFINE c == call[p]
<1>1. /\ c \in [phase : {"executed"}, op : AllOps, key : Keys, item : Items, waited : 0..MaxLatency]
      /\ age[c.key][c.item] <= MaxLatency
  BY CallKnown DEF Return
<1>2. UNCHANGED <<store, age>> /\ call' = [call EXCEPT ![p] = Idle]
  BY DEF Return
<1>3. cache' \in [Keys -> [item : Items, left : 0..TTL]] /\ EntriesYoung'
  <2>1. CASE Drop(c.key)
    BY <1>1, <1>2, <2>1, DropYoung
  <2>2. CASE c.item # NoItem /\ Remember(c.key, c.item)
    <3>1. c.key \in Keys /\ c.item \in Items \ {NoItem}
      BY <1>1, <2>2
    <3> QED BY <1>1, <1>2, <2>2, <3>1, RememberYoung
  <2>3. CASE UNCHANGED cache
    BY <1>2, <2>3 DEF YoungInv, Types, EntriesYoung, Fresh
  <2> QED BY <2>1, <2>2, <2>3 DEF Return
<1>4. call' \in [Callers -> CallType] /\ CallsYoung'
  BY <1>2 DEF YoungInv, Types, CallsYoung, CallType, Idle
<1> QED BY <1>2, <1>3, <1>4 DEF YoungInv, Types, RowsYoung

LEMMA FailStep ==
    ASSUME YoungInv, NEW p \in Callers, Fail(p)
    PROVE  YoungInv'
<1>1. call' \in [Callers -> CallType] /\ CallsYoung'
  BY DEF Fail, YoungInv, Types, CallsYoung, CallType, Idle
<1> QED BY <1>1 DEF Fail, YoungInv, Types, RowsYoung, EntriesYoung, Fresh

LEMMA WriteStep ==
    ASSUME YoungInv, NEW k \in Keys, NEW i \in Items, WriteElsewhere(k, i)
    PROVE  YoungInv'
<1>1. /\ store' \in [Keys -> Items] /\ age' \in [Keys -> [Items -> 0..Window]]
      /\ RowsYoung'
      /\ \A x \in Keys, j \in Items : age'[x][j] <= age[x][j]
  BY SetRowYoung DEF WriteElsewhere
<1>2. UNCHANGED <<cache, call>>
  BY DEF WriteElsewhere
<1>3. EntriesYoung'
  BY <1>1, <1>2, EntriesStayYoung
<1>4. CallsYoung'
  <2> SUFFICES ASSUME NEW q \in Callers, call[q].phase = "executed"
               PROVE  age'[call[q].key][call[q].item] <= call[q].waited
    BY <1>2 DEF CallsYoung
  <2>1. call[q] \in [phase : {"executed"}, op : AllOps, key : Keys, item : Items, waited : 0..MaxLatency]
    BY CallKnown
  <2>2. /\ age[call[q].key][call[q].item] <= call[q].waited
        /\ age'[call[q].key][call[q].item] <= age[call[q].key][call[q].item]
    BY <1>1, <2>1 DEF YoungInv, CallsYoung
  <2>3. /\ age'[call[q].key][call[q].item] \in Nat /\ age[call[q].key][call[q].item] \in Nat
        /\ call[q].waited \in Nat
    BY <1>1, <2>1, Constants DEF YoungInv, Types
  <2> QED BY <2>2, <2>3
<1> QED BY <1>1, <1>2, <1>3, <1>4 DEF YoungInv, Types

\* Entries lose a tick of their time as the items in them get older by one.
LEMMA TickStep == YoungInv /\ Tick => YoungInv'
<1> SUFFICES ASSUME YoungInv, Tick PROVE YoungInv'
  OBVIOUS
<1> DEFINE Older(x, j) == IF j = store[x] \/ age[x][j] = Window THEN age[x][j] ELSE age[x][j] + 1
<1>a. \A x \in Keys, j \in Items : age[x][j] \in 0..Window
  BY DEF YoungInv, Types
<1>b. \A x \in Keys, j \in Items :
          /\ age[x][j] \in Nat /\ Older(x, j) \in 0..Window /\ Older(x, j) <= age[x][j] + 1
          /\ j = store[x] => Older(x, j) = age[x][j]
  <2> SUFFICES ASSUME NEW x \in Keys, NEW j \in Items
               PROVE  /\ age[x][j] \in Nat /\ Older(x, j) \in 0..Window
                      /\ Older(x, j) <= age[x][j] + 1
                      /\ j = store[x] => Older(x, j) = age[x][j]
    OBVIOUS
  <2>1. age[x][j] \in 0..Window /\ Window \in Nat
    BY <1>a, Constants
  <2>2. CASE j = store[x] \/ age[x][j] = Window
    BY <2>1, <2>2
  <2>3. CASE ~(j = store[x] \/ age[x][j] = Window)
    BY <2>1, <2>3
  <2> QED BY <2>2, <2>3
<1>c. age' = [x \in Keys |-> [j \in Items |-> Older(x, j)]] /\ store' = store
  BY DEF Tick
<1> HIDE DEF Older
<1>1. age' \in [Keys -> [Items -> 0..Window]] /\ store' = store
  BY <1>b, <1>c
<1>2. \A x \in Keys, j \in Items : /\ age[x][j] \in Nat /\ age'[x][j] \in Nat
                                   /\ age'[x][j] <= age[x][j] + 1
                                   /\ j = store[x] => age'[x][j] = age[x][j]
  <2> SUFFICES ASSUME NEW x \in Keys, NEW j \in Items
               PROVE  /\ age[x][j] \in Nat /\ age'[x][j] \in Nat
                      /\ age'[x][j] <= age[x][j] + 1
                      /\ j = store[x] => age'[x][j] = age[x][j]
    OBVIOUS
  <2>1. age'[x][j] = Older(x, j)
    BY <1>c
  <2> QED BY <1>b, <2>1, Constants
<1>3. RowsYoung'
  BY <1>1, <1>2 DEF RowsYoung, YoungInv, Types
<1>4. \A x \in Keys : /\ cache[x].left \in 0..TTL /\ cache[x].item \in Items
                      /\ cache'[x] = [item |-> cache[x].item, left |-> Less1(cache[x].left)]
  BY DEF Tick, YoungInv, Types
<1>5. cache' \in [Keys -> [item : Items, left : 0..TTL]]
  BY <1>4, Constants DEF Tick, Less1
<1>6. ASSUME NEW x \in Keys, Fresh(x)'
      PROVE  cache'[x].item # NoItem /\ age'[x][cache'[x].item] + cache'[x].left <= Window
  <2>a. /\ cache[x].left \in 0..TTL /\ cache[x].item \in Items
        /\ cache'[x] = [item |-> cache[x].item, left |-> Less1(cache[x].left)]
    BY <1>4
  <2>b. cache'[x].left > 0
    BY <1>6 DEF Fresh
  <2>0. cache[x].left \in Nat /\ cache'[x].left = Less1(cache[x].left) /\ cache'[x].left > 0
    BY <2>a, <2>b, Constants
  <2>1. cache[x].left \in Nat /\ cache[x].left > 0 /\ cache'[x].left = cache[x].left - 1
    BY <2>0 DEF Less1
  <2>2. cache[x].item # NoItem /\ age[x][cache[x].item] + cache[x].left <= Window
    BY <2>1 DEF EntriesYoung, Fresh, YoungInv
  <2>3. cache'[x].item = cache[x].item /\ cache[x].item \in Items
    BY <2>a
  <2>4. /\ age'[x][cache[x].item] <= age[x][cache[x].item] + 1
        /\ age'[x][cache[x].item] \in Nat /\ age[x][cache[x].item] \in Nat
    BY <1>2, <2>3
  <2> QED BY <2>1, <2>2, <2>3, <2>4, Constants
<1>7. \A q \in Callers :
          IF call[q].phase = "executed"
          THEN /\ call'[q] = [call[q] EXCEPT !.waited = @ + 1]
               /\ call[q].waited < MaxLatency
               /\ call[q] \in [phase : {"executed"}, op : AllOps, key : Keys, item : Items, waited : 0..MaxLatency]
          ELSE call'[q] = call[q]
  BY CallKnown DEF Tick, YoungInv, Types
<1>8. ASSUME NEW q \in Callers PROVE call'[q] \in CallType
  <2>1. CASE call[q].phase = "executed"
    <3>1. /\ call[q] \in [phase : {"executed"}, op : AllOps, key : Keys, item : Items, waited : 0..MaxLatency]
          /\ call[q].waited < MaxLatency
          /\ call'[q] = [call[q] EXCEPT !.waited = @ + 1]
      BY <1>7, <2>1
    <3>2. call[q].waited + 1 \in 0..MaxLatency
      BY <3>1, Constants
    <3>3. call'[q] \in [phase : {"executed"}, op : AllOps, key : Keys, item : Items, waited : 0..MaxLatency]
      BY <3>1, <3>2
    <3> QED BY <3>3 DEF CallType
  <2>2. CASE call[q].phase # "executed"
    BY <1>7, <2>2 DEF YoungInv, Types
  <2> QED BY <2>1, <2>2
<1>9. call' \in [Callers -> CallType]
  BY <1>8 DEF Tick
<1>10. CallsYoung'
  <2> SUFFICES ASSUME NEW q \in Callers, call'[q].phase = "executed"
               PROVE  age'[call'[q].key][call'[q].item] <= call'[q].waited
    BY DEF CallsYoung
  <2>1. /\ call[q].phase = "executed" /\ call[q].key \in Keys /\ call[q].item \in Items
        /\ call[q].waited \in Nat
        /\ call'[q].key = call[q].key /\ call'[q].item = call[q].item
        /\ call'[q].waited = call[q].waited + 1
    <3>1. call[q].phase = "executed"
      BY <1>7
    <3>2. /\ call[q] \in [phase : {"executed"}, op : AllOps, key : Keys, item : Items, waited : 0..MaxLatency]
          /\ call'[q] = [call[q] EXCEPT !.waited = @ + 1]
      BY <1>7, <3>1
    <3>3. call[q].waited \in Nat
      BY <3>2, Constants
    <3> QED BY <3>1, <3>2, <3>3
  <2>2. age[call[q].key][call[q].item] <= call[q].waited
    BY <2>1 DEF CallsYoung, YoungInv
  <2> QED BY <1>2, <2>1, <2>2
<1> QED BY <1>1, <1>3, <1>5, <1>6, <1>9, <1>10 DEF EntriesYoung, YoungInv, Types

LEMMA YoungStep == YoungInv /\ [Next]_vars => YoungInv'
<1> SUFFICES ASSUME YoungInv, [Next]_vars PROVE YoungInv'
  OBVIOUS
<1>1. ASSUME NEW p \in Callers, NEW op \in {"get", "exists"}, NEW k \in Keys, Read(p, op, k) PROVE YoungInv'
  BY <1>1, ReadStep
<1>2. ASSUME NEW p \in Callers, NEW k \in Keys, NEW i \in Values, Update(p, "put", k, i) PROVE YoungInv'
  BY <1>2, UpdateStep DEF Items
<1>3. ASSUME NEW p \in Callers, NEW k \in Keys, Update(p, "delete", k, NoItem) PROVE YoungInv'
  BY <1>3, UpdateStep, Constants
<1>4. ASSUME NEW p \in Callers, Execute(p) \/ Return(p) \/ Fail(p) PROVE YoungInv'
  BY <1>4, ExecuteStep, ReturnStep, FailStep
<1>5. ASSUME NEW k \in Keys, NEW i \in Items, WriteElsewhere(k, i) PROVE YoungInv'
  BY <1>5, WriteStep
<1>6. CASE Tick
  BY <1>6, TickStep
<1>7. CASE UNCHANGED vars
  BY <1>7 DEF vars, YoungInv, Types, RowsYoung, CallsYoung, EntriesYoung, Fresh
<1> QED BY <1>1, <1>2, <1>3, <1>4, <1>5, <1>6, <1>7 DEF Next

\* Rows, calls under way and entries are as young as they are said to be, in
\* every interleaving of callers, evictions and writes of other processes.
THEOREM YoungHolds == Spec => []YoungInv
BY YoungInit, YoungStep, PTL DEF Spec

\* Whatever overlaps (any number of callers, keys and values, any bounds): an
\* entry of TTLStoreCache that is still served was the row of its key no longer
\* ago than the window allows.
THEOREM EntriesYoungHolds == Spec => []EntriesYoung
<1>1. YoungInv => EntriesYoung
  BY DEF YoungInv
<1> QED BY <1>1, YoungHolds, PTL

----------------------------------------------------------------------------
(* The cache implements the store with bounded staleness *)

\* A read that hits is a read of the abstract store.
LEMMA RefineRead ==
    ASSUME YoungInv, NEW p \in Callers, NEW op \in {"get", "exists"}, NEW k \in Keys, Read(p, op, k)
    PROVE  Abstract!Next
<1>1. UNCHANGED <<store, age>>
  BY DEF Read
<1>2. CASE Fresh(k) /\ Answer(p, op, k, cache[k].item)
  <2> DEFINE i == cache[k].item
  <2>1. i \in Items /\ i # NoItem /\ cache[k].left \in Nat /\ age[k][i] \in Nat
    BY <1>2, Constants DEF YoungInv, Types, EntriesYoung
  <2>2. age[k][i] + cache[k].left <= Window /\ cache[k].left > 0
    BY <1>2 DEF YoungInv, EntriesYoung, Fresh
  <2>3. Abstract!Recent(k, i)
    BY <2>1, <2>2, Constants DEF Abstract!Recent
  <2>4. Abstract!Answer(p, op, k, i)
    BY <1>1, <1>2, <2>3 DEF Abstract!Answer, Answer, Abstract!Result, Result
  <2> QED BY <2>1, <2>4 DEF Abstract!Next
<1>3. CASE answer' = [answer EXCEPT ![p] = NoAnswer]
  BY <1>1, <1>3 DEF Abstract!Next, Abstract!Forget
<1> QED BY <1>2, <1>3 DEF Read

\* A call to the database is a step of the abstract store or a stutter.
LEMMA RefineExecute ==
    ASSUME YoungInv, NEW p \in Callers, Execute(p)
    PROVE  Abstract!Next \/ UNCHANGED Abstract!vars
<1>1. call[p].key \in Keys /\ call[p].item \in Items
  BY DEF Execute, YoungInv, Types, CallType, Idle
<1>2. CASE SetRow(call[p].key, call[p].item)
  <2>1. Abstract!Write(call[p].key, call[p].item)
    BY <1>2 DEF Execute, SetRow, Abstract!Write
  <2> QED BY <1>1, <2>1 DEF Abstract!Next
<1>3. CASE UNCHANGED <<store, age>>
  BY <1>3 DEF Execute, Abstract!vars
<1> QED BY <1>2, <1>3 DEF Execute

\* A call that ends is a step of the abstract store or a stutter.
LEMMA RefineReturn ==
    ASSUME YoungInv, NEW p \in Callers, Return(p)
    PROVE  Abstract!Next \/ UNCHANGED Abstract!vars
<1> DEFINE c == call[p]
<1>1. UNCHANGED <<store, age>>
  BY DEF Return
<1>2. CASE c.op \in {"get", "exists"} /\ Answer(p, c.op, c.key, c.item)
  <2>1. /\ c.key \in Keys /\ c.item \in Items
        /\ age[c.key][c.item] \in Nat /\ age[c.key][c.item] <= MaxLatency
    BY CallKnown DEF Return
  <2>2. Abstract!Recent(c.key, c.item)
    BY <2>1, Constants DEF Abstract!Recent
  <2>3. Abstract!Answer(p, c.op, c.key, c.item)
    BY <1>1, <1>2, <2>2 DEF Abstract!Answer, Answer, Abstract!Result, Result
  <2> QED BY <1>2, <2>1, <2>3 DEF Abstract!Next
<1>3. CASE UNCHANGED answer
  BY <1>1, <1>3 DEF Abstract!vars
<1> QED BY <1>2, <1>3 DEF Return

\* Every step of the cached store is a step of the stale store or a stutter.
LEMMA RefineNext == YoungInv /\ [Next]_vars => [Abstract!Next]_(Abstract!vars)
<1> SUFFICES ASSUME YoungInv, [Next]_vars PROVE Abstract!Next \/ UNCHANGED Abstract!vars
  OBVIOUS
<1>1. ASSUME NEW p \in Callers, NEW op \in {"get", "exists"}, NEW k \in Keys, Read(p, op, k)
      PROVE  Abstract!Next
  BY <1>1, RefineRead
<1>2. ASSUME NEW p \in Callers, NEW op, NEW k, NEW i, Update(p, op, k, i)
      PROVE  Abstract!Next
  <2>1. Abstract!Forget(p)
    BY <1>2 DEF Update, Abstract!Forget
  <2> QED BY <2>1 DEF Abstract!Next
<1>3. ASSUME NEW p \in Callers, Execute(p) \/ Return(p)
      PROVE  Abstract!Next \/ UNCHANGED Abstract!vars
  BY <1>3, RefineExecute, RefineReturn
<1>4. ASSUME NEW p \in Callers, Fail(p) PROVE UNCHANGED Abstract!vars
  BY <1>4 DEF Fail, Abstract!vars
<1>5. ASSUME NEW k \in Keys, NEW i \in Items, WriteElsewhere(k, i) PROVE Abstract!Next
  <2>1. Abstract!Write(k, i)
    BY <1>5 DEF WriteElsewhere, SetRow, Abstract!Write
  <2> QED BY <2>1 DEF Abstract!Next
<1>6. ASSUME Tick PROVE Abstract!Next
  <2>1. Abstract!Tick
    BY <1>6 DEF Tick, Abstract!Tick
  <2> QED BY <2>1 DEF Abstract!Next
<1>7. CASE UNCHANGED vars
  BY <1>7 DEF vars, Abstract!vars
<1> QED BY <1>1, <1>2, <1>3, <1>4, <1>5, <1>6, <1>7 DEF Next

\* The proxy's cache keeps what StaleStore promises: an item is answered only if
\* the store held it less than TTL and one round trip ago, and None only if
\* there was none during the last round trip.
THEOREM StalenessBounded == Spec => ImplementsStaleStore
<1>1. Init => Abstract!Init
  BY DEF Init, Abstract!Init
<1> QED BY <1>1, YoungHolds, RefineNext, PTL DEF Spec, ImplementsStaleStore, Abstract!Spec

----------------------------------------------------------------------------
(* The order of the entries *)

In(seq, k) == \E n \in DOMAIN seq : seq[n] = k

\* The ordered dictionary: the keys that have an entry, once each, no more than
\* there may be, and each with an item.
Ordered ==
    /\ order \in Seq(Keys) /\ Len(order) <= MaxEntries /\ IsInjective(order)
    /\ \A k \in Keys : /\ cache[k] # NoEntry <=> In(order, k)
                       /\ cache[k] # NoEntry => cache[k].item # NoItem

\* A key is taken out of the order, and only that.
LEMMA WithoutKey ==
    ASSUME order \in Seq(Keys), IsInjective(order), NEW k \in Keys
    PROVE  /\ Without(k) \in Seq(Keys) /\ IsInjective(Without(k)) /\ ~In(Without(k), k)
           /\ Len(Without(k)) <= Len(order)
           /\ In(order, k) => Len(Without(k)) < Len(order)
           /\ \A x \in Keys \ {k} : In(Without(k), x) <=> In(order, x)
<1>1. CASE ~In(order, k)
  BY <1>1 DEF Without, In
<1>2. CASE In(order, k)
  <2> DEFINE n == CHOOSE n \in DOMAIN order : order[n] = k
  <2>1. n \in 1..Len(order) /\ Without(k) = RemoveAt(order, n) /\ order[n] = k
    <3>1. \E m \in DOMAIN order : order[m] = k
      BY <1>2 DEF In
    <3>2. n \in DOMAIN order /\ order[n] = k
      BY <3>1
    <3> QED BY <3>1, <3>2 DEF Without
  <2> HIDE DEF n
  <2> DEFINE s == SubSeq(order, 1, n - 1) \o SubSeq(order, n + 1, Len(order))
  <2>2. /\ SubSeq(order, 1, n - 1) \in Seq(Keys) /\ Len(SubSeq(order, 1, n - 1)) = n - 1
        /\ SubSeq(order, n + 1, Len(order)) \in Seq(Keys)
        /\ Len(SubSeq(order, n + 1, Len(order))) = Len(order) - n
        /\ \A m \in 1..n - 1 : SubSeq(order, 1, n - 1)[m] = order[m]
        /\ \A m \in 1..Len(order) - n : SubSeq(order, n + 1, Len(order))[m] = order[n + m]
    <3>1. \A m \in 1..n - 1 : order[m] \in Keys
      BY <2>1
    <3>2. \A m \in n + 1..Len(order) : order[m] \in Keys
      BY <2>1
    <3>3. n \in Int /\ n - 1 \in Int /\ n + 1 \in Int /\ Len(order) \in Int /\ 1 \in Int
      BY <2>1
    <3> QED BY <2>1, <3>1, <3>2, <3>3, SubSeqProperties
  <2>5. Without(k) = s
    BY <2>1 DEF RemoveAt
  <2>3. /\ s \in Seq(Keys) /\ Len(s) = (n - 1) + (Len(order) - n)
        /\ \A m \in 1..(n - 1) + (Len(order) - n) :
               s[m] = IF m <= n - 1 THEN SubSeq(order, 1, n - 1)[m]
                      ELSE SubSeq(order, n + 1, Len(order))[m - (n - 1)]
    BY <2>2, ConcatProperties
  <2> HIDE DEF s
  <2>n. Len(order) \in Nat /\ n \in Nat /\ n >= 1 /\ n <= Len(order)
    BY <2>1
  <2>0. Len(s) = Len(order) - 1
    BY <2>3, <2>n
  <2>4. ASSUME NEW m \in 1..Len(order) - 1
        PROVE  s[m] = IF m < n THEN order[m] ELSE order[m + 1]
    <3>1. CASE m < n
      BY <2>1, <2>2, <2>3, <3>1
    <3>2. CASE m >= n
      <4>1. s[m] = SubSeq(order, n + 1, Len(order))[m - (n - 1)] /\ m - (n - 1) \in 1..Len(order) - n
        BY <2>n, <2>3, <3>2
      <4>2. n + (m - (n - 1)) = m + 1
        BY <2>1
      <4>3. SubSeq(order, n + 1, Len(order))[m - (n - 1)] = order[n + (m - (n - 1))]
        BY <2>2, <4>1
      <4> QED BY <2>n, <3>2, <4>1, <4>2, <4>3
    <3> QED BY <2>n, <3>1, <3>2
  <2>6. \A a, b \in 1..Len(order) : order[a] = order[b] => a = b
    BY DEF IsInjective
  <2>7. IsInjective(s)
    <3> SUFFICES ASSUME NEW a \in 1..Len(order) - 1, NEW b \in 1..Len(order) - 1, s[a] = s[b]
                 PROVE  a = b
      BY <2>3, <2>0 DEF IsInjective
    <3> DEFINE at(m) == IF m < n THEN m ELSE m + 1
    <3>1. \A m \in 1..Len(order) - 1 : at(m) \in 1..Len(order) /\ s[m] = order[at(m)]
      BY <2>n, <2>4
    <3>2. at(a) = at(b)
      <4> HIDE DEF at
      <4> QED BY <2>6, <3>1
    <3> QED BY <2>n, <3>2
  <2>8. ~In(s, k)
    BY <2>1, <2>3, <2>0, <2>4, <2>6 DEF In
  <2>9. ASSUME NEW x \in Keys \ {k}, In(order, x) PROVE In(s, x)
    <3>1. PICK m \in 1..Len(order) : order[m] = x
      BY <2>9 DEF In
    <3>2. CASE m < n
      BY <2>n, <2>3, <2>0, <2>4, <3>1, <3>2 DEF In
    <3>3. CASE m > n
      <4>1. m - 1 \in 1..Len(order) - 1 /\ s[m - 1] = order[m]
        BY <2>n, <2>4, <3>1, <3>3
      <4> QED BY <2>3, <2>0, <3>1, <4>1 DEF In
    <3> QED BY <2>1, <3>1, <3>2, <3>3
  <2>10. ASSUME NEW x \in Keys \ {k}, In(s, x) PROVE In(order, x)
    BY <2>3, <2>0, <2>4, <2>10 DEF In
  <2> QED BY <2>3, <2>0, <2>5, <2>7, <2>8, <2>9, <2>10
<1> QED BY <1>1, <1>2

\* A key that was not in the order is put at its end.
LEMMA AppendKey ==
    ASSUME NEW s \in Seq(Keys), IsInjective(s), NEW k \in Keys, ~In(s, k)
    PROVE  /\ Append(s, k) \in Seq(Keys) /\ IsInjective(Append(s, k))
           /\ Len(Append(s, k)) = Len(s) + 1 /\ Append(s, k)[Len(s) + 1] = k
           /\ \A x \in Keys : In(Append(s, k), x) <=> x = k \/ In(s, x)
<1> DEFINE q == Append(s, k)
<1>1. /\ q \in Seq(Keys) /\ Len(q) = Len(s) + 1 /\ q[Len(s) + 1] = k
      /\ \A n \in 1..Len(s) : q[n] = s[n]
  OBVIOUS
<1> HIDE DEF q
<1>2. IsInjective(q)
  <2> SUFFICES ASSUME NEW a \in 1..Len(s) + 1, NEW b \in 1..Len(s) + 1, q[a] = q[b] PROVE a = b
    BY <1>1 DEF IsInjective
  <2>1. CASE a = Len(s) + 1 \/ b = Len(s) + 1
    BY <1>1, <2>1 DEF In
  <2>2. CASE a \in 1..Len(s) /\ b \in 1..Len(s)
    BY <1>1, <2>2 DEF IsInjective
  <2> QED BY <2>1, <2>2
<1>3. ASSUME NEW x \in Keys PROVE In(q, x) <=> x = k \/ In(s, x)
  BY <1>1 DEF In
<1> QED BY <1>1, <1>2, <1>3 DEF q

\* A hit moves its key to the recent end.
LEMMA HitOrder ==
    ASSUME Ordered, NEW k \in Keys, Fresh(k), Hit(k)
    PROVE  Ordered'
<1>1. In(order, k)
  BY DEF Fresh, Ordered, NoEntry
<1>2. /\ Without(k) \in Seq(Keys) /\ IsInjective(Without(k)) /\ ~In(Without(k), k)
      /\ Len(Without(k)) < Len(order) /\ \A x \in Keys \ {k} : In(Without(k), x) <=> In(order, x)
  BY <1>1, WithoutKey DEF Ordered
<1>3. /\ order' \in Seq(Keys) /\ IsInjective(order') /\ Len(order') = Len(Without(k)) + 1
      /\ \A x \in Keys : In(order', x) <=> x = k \/ In(Without(k), x)
  BY <1>2, AppendKey DEF Hit
<1>4. Len(order') <= MaxEntries
  BY <1>2, <1>3, CacheAssumption DEF Ordered
<1> QED BY <1>1, <1>2, <1>3, <1>4 DEF Hit, Ordered

\* An entry that is dropped leaves the order of the others.
LEMMA DropOrder ==
    ASSUME Ordered, Types, NEW k \in Keys, Drop(k)
    PROVE  Ordered'
<1>1. /\ order' \in Seq(Keys) /\ IsInjective(order') /\ ~In(order', k)
      /\ Len(order') <= Len(order) /\ \A x \in Keys \ {k} : In(order', x) <=> In(order, x)
  BY WithoutKey DEF Ordered, Drop
<1>2. \A x \in Keys : cache'[x] = IF x = k THEN NoEntry ELSE cache[x]
  BY DEF Drop, Types
<1>3. Len(order') <= MaxEntries
  BY <1>1, CacheAssumption DEF Ordered
<1> QED BY <1>1, <1>2, <1>3 DEF Ordered

\* The oldest make room, the newest stays.
LEMMA RememberOrder ==
    ASSUME Ordered, NEW k \in Keys, NEW i \in Items \ {NoItem}, Remember(k, i)
    PROVE  Ordered'
<1> DEFINE q == Append(Without(k), k)
           first == IF Len(q) > MaxEntries THEN Len(q) - MaxEntries + 1 ELSE 1
<1>1. /\ Without(k) \in Seq(Keys) /\ IsInjective(Without(k)) /\ ~In(Without(k), k)
      /\ \A x \in Keys \ {k} : In(Without(k), x) <=> In(order, x)
  BY WithoutKey DEF Ordered
<1>2. /\ q \in Seq(Keys) /\ IsInjective(q) /\ Len(q) \in Nat \ {0} /\ q[Len(q)] = k
      /\ \A x \in Keys : In(q, x) <=> x = k \/ In(Without(k), x)
  BY <1>1, AppendKey
<1>3. order' = SubSeq(q, first, Len(q))
  BY DEF Remember
<1>4. cache' = [x \in Keys |-> IF x = k THEN [item |-> i, left |-> TTL]
                               ELSE IF In(order', x) THEN cache[x] ELSE NoEntry]
  BY <1>3 DEF Remember, In
<1> HIDE DEF q
<1>5. first \in 1..Len(q) /\ Len(q) - first + 1 <= MaxEntries
  BY <1>2, CacheAssumption
<1> HIDE DEF first
<1>6. /\ order' \in Seq(Keys) /\ Len(order') = Len(q) - first + 1
      /\ \A n \in 1..Len(order') : order'[n] = q[first + n - 1] /\ first + n - 1 \in 1..Len(q)
  BY <1>2, <1>3, <1>5
<1>7. IsInjective(order')
  <2> SUFFICES ASSUME NEW a \in 1..Len(order'), NEW b \in 1..Len(order'), order'[a] = order'[b]
               PROVE  a = b
    BY <1>6 DEF IsInjective
  <2>1. /\ first + a - 1 \in 1..Len(q) /\ first + b - 1 \in 1..Len(q)
        /\ q[first + a - 1] = q[first + b - 1]
    BY <1>6
  <2>2. \A m, n \in 1..Len(q) : q[m] = q[n] => m = n
    BY <1>2 DEF IsInjective
  <2>3. first + a - 1 = first + b - 1
    BY <2>1, <2>2
  <2> QED BY <1>2, <1>5, <1>6, <2>3
<1>8. In(order', k)
  <2>1. Len(order') \in 1..Len(order') /\ first + Len(order') - 1 = Len(q)
    BY <1>2, <1>5, <1>6
  <2> QED BY <1>2, <1>6, <2>1 DEF In
<1>9. \A x \in Keys : In(order', x) => In(q, x)
  BY <1>2, <1>6 DEF In
<1>10. ASSUME NEW x \in Keys
       PROVE  /\ cache'[x] # NoEntry <=> In(order', x)
              /\ cache'[x] # NoEntry => cache'[x].item # NoItem
  <2>1. CASE x = k
    BY <1>4, <1>8, <2>1 DEF NoEntry
  <2>2. CASE x # k
    <3>1. In(order', x) => In(order, x)
      BY <1>1, <1>2, <1>9, <2>2
    <3> QED BY <1>4, <2>2, <3>1 DEF Ordered
  <2> QED BY <2>1, <2>2
<1> QED BY <1>5, <1>6, <1>7, <1>10 DEF Ordered

\* Time that passes leaves the order.
LEMMA TickOrder ==
    ASSUME Ordered, Types, Tick
    PROVE  Ordered'
<1>1. \A x \in Keys : /\ cache[x] \in [item : Items, left : 0..TTL]
                      /\ cache'[x] = [item |-> cache[x].item, left |-> Less1(cache[x].left)]
  BY DEF Tick, Types
<1>2. ASSUME NEW x \in Keys
      PROVE  /\ cache'[x] # NoEntry <=> cache[x] # NoEntry
             /\ cache'[x].item = cache[x].item
  <2>1. CASE cache[x] = NoEntry
    BY <1>1, <2>1 DEF NoEntry, Less1
  <2>2. CASE cache[x] # NoEntry
    <3>1. cache[x].item # NoItem
      BY <2>2 DEF Ordered
    <3>a. cache'[x] = [item |-> cache[x].item, left |-> Less1(cache[x].left)]
      BY <1>1
    <3>b. cache'[x].item = cache[x].item
      BY <3>a
    <3>2. cache'[x].item = cache[x].item /\ NoEntry.item = NoItem
      BY <3>b DEF NoEntry
    <3>3. cache'[x] # NoEntry
      BY <3>1, <3>2
    <3> QED BY <2>2, <3>2, <3>3
  <2> QED BY <2>1, <2>2
<1> QED BY <1>2 DEF Tick, Ordered

LEMMA OrderInit == Init => Ordered
BY CacheAssumption DEF Init, Ordered, In, NoEntry, IsInjective

LEMMA OrderNext == YoungInv /\ Ordered /\ [Next]_vars => Ordered'
<1> SUFFICES ASSUME YoungInv, Ordered, [Next]_vars PROVE Ordered'
  OBVIOUS
<1>0. Types
  BY DEF YoungInv
<1>1. ASSUME UNCHANGED <<order, cache>> PROVE Ordered'
  BY <1>1 DEF Ordered
<1>2. ASSUME NEW p \in Callers, NEW op \in {"get", "exists"}, NEW k \in Keys, Read(p, op, k)
      PROVE  Ordered'
  BY <1>0, <1>2, HitOrder, DropOrder DEF Read
<1>3. ASSUME NEW p \in Callers, Return(p) PROVE Ordered'
  <2>1. call[p].key \in Keys /\ call[p].item \in Items
    BY <1>3, CallKnown DEF Return
  <2> QED BY <1>0, <1>1, <1>3, <2>1, DropOrder, RememberOrder DEF Return
<1>4. ASSUME NEW p \in Callers, NEW op, NEW k, NEW i, Update(p, op, k, i) PROVE Ordered'
  BY <1>1, <1>4 DEF Update
<1>5. ASSUME NEW p \in Callers, Execute(p) \/ Fail(p) PROVE Ordered'
  BY <1>1, <1>5 DEF Execute, Fail
<1>6. ASSUME NEW k, NEW i, WriteElsewhere(k, i) PROVE Ordered'
  BY <1>1, <1>6 DEF WriteElsewhere
<1>7. CASE UNCHANGED vars
  BY <1>1, <1>7 DEF vars
<1> QED BY <1>0, <1>2, <1>3, <1>4, <1>5, <1>6, <1>7, TickOrder DEF Next

\* TypeOK: whatever calls overlap, the dictionary holds each key once, in an
\* order of exactly the keys that have an entry, and never more than max_entries.
THEOREM EntriesBounded == Spec => []TypeOK
<1>1. YoungInv /\ Ordered => TypeOK
  BY DEF YoungInv, Types, CallType, AllOps, Ordered, In, TypeOK
<1>2. Init => YoungInv
  BY YoungInit
<1> QED BY <1>1, <1>2, OrderInit, OrderNext, YoungStep, PTL DEF Spec
=============================================================================
