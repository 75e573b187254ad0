----------------------------- MODULE StaleStore -----------------------------
(***************************************************************************)
(* What a reader of the proxy's cached store may rely on: a store whose    *)
(* answers may be old, but only by a bounded time.  An item is answered    *)
(* only if the store held it less than Window ago; that there is none,     *)
(* only if there was none at most MissWindow ago.                          *)
(***************************************************************************)
EXTENDS Naturals

CONSTANTS Keys, Items, NoItem, Callers, NoAnswer, Window, MissWindow

VARIABLES
    store,  \* the item under each key, NoItem where there is none
    age,    \* how long ago each key last held each item, at most Window
    answer  \* the last answer each caller got

vars == <<store, age, answer>>

Init ==
    /\ store \in [Keys -> Items]
    /\ age = [k \in Keys |-> [i \in Items |-> IF i = store[k] THEN 0 ELSE Window]]
    /\ answer = [p \in Callers |-> NoAnswer]

Recent(k, i) == IF i = NoItem THEN age[k][i] <= MissWindow ELSE age[k][i] < Window

Result(op, i) == IF op = "exists" THEN i # NoItem ELSE i

Write(k, i) ==
    /\ store' = [store EXCEPT ![k] = i]
    /\ age' = [age EXCEPT ![k][i] = 0]
    /\ UNCHANGED answer

Answer(p, op, k, i) ==
    /\ Recent(k, i)
    /\ answer' = [answer EXCEPT ![p] = [op |-> op, key |-> k, result |-> Result(op, i)]]
    /\ UNCHANGED <<store, age>>

Forget(p) ==
    /\ answer' = [answer EXCEPT ![p] = NoAnswer]
    /\ UNCHANGED <<store, age>>

Tick ==
    /\ age' = [k \in Keys |-> [i \in Items |->
                  IF i = store[k] \/ age[k][i] = Window THEN age[k][i] ELSE age[k][i] + 1]]
    /\ UNCHANGED <<store, answer>>

Next ==
    \/ \E k \in Keys, i \in Items : Write(k, i)
    \/ \E p \in Callers, op \in {"get", "exists"}, k \in Keys, i \in Items :
           Answer(p, op, k, i)
    \/ \E p \in Callers : Forget(p)
    \/ Tick

Spec == Init /\ [][Next]_vars
=============================================================================
