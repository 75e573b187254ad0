-------------------------- MODULE ClientDataProofs --------------------------
(***************************************************************************)
(* That a secret stays and that answers are true, for any number of        *)
(* clients, any manifests, requests and replicas that start; and that what *)
(* is answered of an object stands, for any buckets and keys.              *)
(***************************************************************************)
EXTENDS ClientData, FiniteSetTheorems, SequenceTheorems, TLAPS

Fields == {"op", "docs", "answers", "partial", "at", "todo"}

\* A request that is under way, and where it handles a secret.
Active(r) == r.at \notin {"idle", "done", "failed"}
OfSecret == {"create", "delete", "recreate"}

\* The document and the item that a request is at.
DocOf(r) == r.docs[Len(r.answers) + 1]
ItemOf(r) == Items(DocOf(r))[Len(r.partial) + 1]

Words == {"created", "updated", "unchanged", "deleted", "not found", "conflict", "error"}
Results == Seq(Words)

\* A request under way is at an item of a document that a client may send.
Placed(r) ==
    /\ r.docs \in scenario.manifests
    /\ r.answers \in Seq(Results) /\ Len(r.answers) < Len(r.docs)
    /\ r.partial \in Results /\ Len(r.partial) < Len(Items(DocOf(r)))
    /\ r.at \in OfSecret => ItemOf(r).kind = "Secret"

Good(r) == DOMAIN r = Fields /\ (Active(r) => Placed(r))

Numbers ==
    /\ scenario \in Scenarios
    /\ DOMAIN request = Clients /\ DOMAIN store = Things
    /\ faults \in Nat
    /\ \A s \in wanted : <<"Secret", s>> \in Things

Requests == Numbers /\ \A c \in Clients : Good(request[c])
ManifestInv == Requests /\ SecretsKept

\* The state of an idle client, field by field.
LEMMA IdleFields ==
    /\ DOMAIN Idle = Fields /\ Idle.at = "idle" /\ Idle.answers = <<>> /\ Idle.partial = <<>> /\ ~Active(Idle)
  BY DEF Idle, Fields, Active

\* The items of a document that a client may send: there is one, each is a
\* thing that is stored, and is not what stands for nothing.
LEMMA ItemsStored ==
    ASSUME NEW w \in Scenarios, NEW docs \in w.manifests, NEW n \in 1..Len(docs)
    PROVE  /\ Items(docs[n]) # <<>> /\ Len(Items(docs[n])) \in Nat \ {0}
           /\ \A i \in 1..Len(Items(docs[n])) :
                  /\ Items(docs[n])[i] # Absent
                  /\ Thing(Items(docs[n])[i]) \in Things
  <1> DEFINE doc == docs[n]
             items == Items(doc)
  <1>1. Listed(docs) /\ \A d \in Range(docs) : Bundle(d)
    BY ManifestsAssumption DEF Scenario
  <1>2. docs \in Seq(Range(docs)) /\ DOMAIN docs = 1..Len(docs)
    BY <1>1, LenProperties DEF Listed
  <1>3. doc \in Range(docs) /\ doc # Absent
    BY <1>1, <1>2 DEF Range, Listed
  <1>4. doc \in Documents
    BY <1>3 DEF Documents
  <1>5. items # <<>> /\ items \in Seq(Range(items)) /\ Absent \notin Range(items)
    <2>1. CASE doc.kind = "Secrets"
      BY <1>1, <1>3, <2>1 DEF Bundle, Listed, Items
    <2>2. CASE doc.kind # "Secrets"
      <3>1. items = <<doc>>
        BY <2>2 DEF Items
      <3> HIDE DEF doc, items
      <3>2. Range(items) = {doc}
        BY <3>1 DEF Range
      <3>3. items \in Seq(Range(items)) /\ items # <<>>
        BY <3>1, <3>2
      <3> QED BY <1>3, <3>2, <3>3
    <2> QED BY <2>1, <2>2
  <1>6. Len(items) \in Nat \ {0} /\ DOMAIN items = 1..Len(items)
    <2> HIDE DEF items
    <2> QED BY <1>5, EmptySeq, LenProperties
  <1>7. ASSUME NEW i \in 1..Len(items) PROVE items[i] # Absent /\ Thing(items[i]) \in Things
    <2>1. items[i] \in Range(items)
      <3> HIDE DEF items
      <3> QED BY <1>6 DEF Range
    <2> QED BY <1>4, <1>5, <2>1 DEF Things
  <1> QED BY <1>5, <1>6, <1>7

\* The item that a request is at names something that may be stored.
LEMMA ItemStored ==
    ASSUME Numbers, NEW r, Good(r), Active(r)
    PROVE  Thing(ItemOf(r)) \in Things /\ ItemOf(r) # Absent
  <1> DEFINE n == Len(r.answers) + 1
             i == Len(r.partial) + 1
  <1>1. /\ scenario \in Scenarios /\ r.docs \in scenario.manifests
        /\ r.answers \in Seq(Results) /\ Len(r.answers) < Len(r.docs)
        /\ r.partial \in Results /\ Len(r.partial) < Len(Items(DocOf(r)))
    BY DEF Numbers, Good, Placed
  <1>2. Listed(r.docs)
    BY <1>1, ManifestsAssumption DEF Scenario
  <1>3. Len(r.docs) \in Nat /\ n \in 1..Len(r.docs)
    BY <1>1, <1>2, LenProperties DEF Listed
  <1>4. /\ Len(Items(r.docs[n])) \in Nat
        /\ \A j \in 1..Len(Items(r.docs[n])) : Items(r.docs[n])[j] # Absent /\ Thing(Items(r.docs[n])[j]) \in Things
    <2> HIDE DEF n
    <2> QED BY <1>1, <1>3, ItemsStored
  <1>5. i \in 1..Len(Items(r.docs[n]))
    BY <1>1, <1>4, LenProperties DEF DocOf, Results
  <1> QED BY <1>4, <1>5 DEF ItemOf, DocOf

----------------------------------------------------------------------------
(* How a request goes on *)

\* A step of one client takes its request to g.
LEMMA OneRequest ==
    ASSUME Requests, NEW c \in Clients, NEW g, request' = [request EXCEPT ![c] = g], Good(g),
           UNCHANGED scenario, DOMAIN store' = Things, faults' \in Nat,
           \A s \in wanted' : <<"Secret", s>> \in Things
    PROVE  Requests'
  <1>1. Numbers'
    BY DEF Requests, Numbers
  <1>2. ASSUME NEW d \in Clients PROVE Good(request[d])'
    <2>1. PICK r : r = request'[d]
      OBVIOUS
    <2>2. Good(r)
      BY <2>1 DEF Requests, Numbers
    <2>3. Good(r)'
      BY <2>2 DEF Good, Active, Placed, DocOf, ItemOf, Items
    <2> QED BY <2>1, <2>3
  <1> QED BY <1>1, <1>2 DEF Requests

\* A request that only goes on to another await is at the same item.
LEMMA Onward ==
    ASSUME NEW r, Good(r), Active(r), NEW g, DOMAIN g = Fields,
           g.docs = r.docs, g.answers = r.answers, g.partial = r.partial,
           g.at \in OfSecret => ItemOf(r).kind = "Secret"
    PROVE  Good(g) /\ ItemOf(g) = ItemOf(r)
  BY DEF Good, Placed, ItemOf, DocOf

\* A document is done and the next one, if there is one, has an item.
LEMMA Finished ==
    ASSUME Numbers, NEW r, Good(r), Active(r), NEW results \in Results,
           NEW g, DOMAIN g = Fields, g.docs = r.docs, g.answers = Append(r.answers, results),
           g.partial = <<>>, g.at = IF Len(g.answers) = Len(g.docs) THEN "done" ELSE "next"
    PROVE  Good(g)
  <1> SUFFICES ASSUME Active(g) PROVE Placed(g)
    BY DEF Good
  <1>1. g.at = "next" /\ Len(g.answers) # Len(g.docs)
    BY DEF Active
  <1>2. /\ scenario \in Scenarios /\ r.docs \in scenario.manifests
        /\ r.answers \in Seq(Results) /\ Len(r.answers) < Len(r.docs)
    BY DEF Numbers, Good, Placed
  <1>3. Len(r.docs) \in Nat
    BY <1>2, ManifestsAssumption, LenProperties DEF Scenario, Listed
  <1>4. g.answers \in Seq(Results) /\ Len(g.answers) = Len(r.answers) + 1 /\ Len(r.answers) \in Nat
    BY <1>2, LenProperties
  <1>5. Len(g.answers) < Len(g.docs) /\ Len(g.answers) + 1 \in 1..Len(g.docs)
    BY <1>1, <1>2, <1>3, <1>4
  <1>6. PICK n : n = Len(g.answers) + 1
    OBVIOUS
  <1>7. Len(Items(g.docs[n])) \in Nat \ {0}
    BY <1>2, <1>5, <1>6, ItemsStored
  <1>8. g.partial \in Results /\ Len(g.partial) = 0
    BY EmptySeq DEF Results
  <1>9. Len(g.partial) < Len(Items(DocOf(g)))
    BY <1>6, <1>7, <1>8 DEF DocOf
  <1>10. g.at \notin OfSecret
    BY <1>1 DEF OfSecret
  <1> QED BY <1>2, <1>4, <1>5, <1>8, <1>9, <1>10 DEF Placed

\* A request that finishes is a good one.
LEMMA Fulfilled ==
    ASSUME Requests, NEW c \in Clients, Active(request[c]), NEW results \in Results, Finish(c, results)
    PROVE  \E g : request' = [request EXCEPT ![c] = g] /\ Good(g)
  <1>1. PICK r : r = request[c]
    OBVIOUS
  <1>2. Good(r) /\ Active(r) /\ DOMAIN r = Fields
    BY <1>1 DEF Requests, Good
  <1>3. PICK g : g = [r EXCEPT !.answers = Append(r.answers, results), !.partial = <<>>,
                               !.at = IF Len(Append(r.answers, results)) = Len(r.docs) THEN "done" ELSE "next"]
    OBVIOUS
  <1>4. request' = [request EXCEPT ![c] = g]
    BY <1>1, <1>3 DEF Finish, Requests, Numbers
  <1>5. /\ DOMAIN g = Fields /\ g.docs = r.docs /\ g.answers = Append(r.answers, results) /\ g.partial = <<>>
        /\ g.at = IF Len(g.answers) = Len(g.docs) THEN "done" ELSE "next"
    BY <1>2, <1>3 DEF Fields
  <1>6. Good(g)
    BY <1>2, <1>5, Finished DEF Requests
  <1> QED BY <1>4, <1>6

\* An item is done: the next one of its document follows, or the next document.
LEMMA Answered ==
    ASSUME Requests, NEW c \in Clients, Active(request[c]), NEW result \in Words, Answer(c, result)
    PROVE  \E g : request' = [request EXCEPT ![c] = g] /\ Good(g)
  <1>1. PICK r : r = request[c]
    OBVIOUS
  <1>2. Good(r) /\ Active(r) /\ DOMAIN r = Fields
    BY <1>1 DEF Requests, Good
  <1>3. PICK results : results = Append(r.partial, result)
    OBVIOUS
  <1>4. results \in Results
    BY <1>2, <1>3 DEF Good, Placed, Results
  <1>5. CASE Finish(c, results)
    BY <1>4, <1>5, Fulfilled
  <1>6. CASE /\ Len(results) < Len(Items(DocOf(r)))
             /\ request' = [request EXCEPT ![c].partial = results, ![c].at = "next"]
    <2>1. PICK g : g = [r EXCEPT !.partial = results, !.at = "next"]
      OBVIOUS
    <2>2. request' = [request EXCEPT ![c] = g]
      BY <1>1, <1>6, <2>1 DEF Requests, Numbers
    <2>3. DOMAIN g = Fields /\ g.docs = r.docs /\ g.answers = r.answers /\ g.partial = results /\ g.at = "next"
      BY <1>2, <2>1 DEF Fields
    <2>4. DocOf(g) = DocOf(r)
      BY <2>3 DEF DocOf
    <2>5. Good(g)
      BY <1>2, <1>4, <1>6, <2>3, <2>4 DEF Good, Placed, OfSecret
    <2> QED BY <2>2, <2>5
  <1> QED BY <1>1, <1>3, <1>5, <1>6 DEF Answer, Document, DocOf

\* A request that goes to another await.
LEMMA Gone ==
    ASSUME Requests, NEW c \in Clients, Active(request[c]), NEW step, Goto(c, step),
           step \in OfSecret => Item(c).kind = "Secret"
    PROVE  \E g : /\ request' = [request EXCEPT ![c] = g] /\ Good(g)
                  /\ g.at = step /\ ItemOf(g) = Item(c)
  <1>1. PICK r : r = request[c]
    OBVIOUS
  <1>2. Good(r) /\ Active(r) /\ DOMAIN r = Fields /\ ItemOf(r) = Item(c)
    BY <1>1 DEF Requests, Good, ItemOf, DocOf, Item, Document
  <1>3. PICK g : g = [r EXCEPT !.at = step]
    OBVIOUS
  <1>4. request' = [request EXCEPT ![c] = g]
    BY <1>1, <1>3 DEF Goto, Requests, Numbers
  <1>5. DOMAIN g = Fields /\ g.docs = r.docs /\ g.answers = r.answers /\ g.partial = r.partial /\ g.at = step
    BY <1>2, <1>3 DEF Fields
  <1>6. Good(g) /\ ItemOf(g) = ItemOf(r)
    BY <1>2, <1>5, Onward
  <1> QED BY <1>2, <1>4, <1>5, <1>6

\* What a step of one client's request comes to.
Moved(c) == \E g : request' = [request EXCEPT ![c] = g] /\ Good(g)

\* The item that a request is at, as the actions read it.
LEMMA ItemKnown ==
    ASSUME Requests, NEW c \in Clients, Active(request[c])
    PROVE  /\ Thing(Item(c)) \in Things /\ Item(c) # Absent
           /\ request[c].at \in OfSecret => Item(c).kind = "Secret"
           /\ Item(c).kind = "Secret" => Thing(Item(c)) = <<"Secret", Item(c).name>>
  <1>1. PICK r : r = request[c]
    OBVIOUS
  <1>2. Good(r) /\ Active(r) /\ ItemOf(r) = Item(c)
    BY <1>1 DEF Requests, ItemOf, DocOf, Item, Document
  <1>3. Numbers
    BY DEF Requests
  <1> QED BY <1>1, <1>2, <1>3, ItemStored DEF Thing, Good, Placed

\* A service's references are looked up.
LEMMA ServiceMoves ==
    ASSUME Requests, NEW c \in Clients, ValidateService(c) \/ CheckBinding(c)
    PROVE  Moved(c)
  <1>1. Active(request[c])
    BY DEF Active, ValidateService, CheckBinding, At
  <1>2. CASE Fail(c)
    <2>1. <<"error">> \in Results
      BY DEF Results, Words
    <2> QED BY <1>1, <1>2, <2>1, Fulfilled DEF Fail, Moved
  <1>3. CASE ~Fail(c)
    <2>1. PICK r : r = request[c]
      OBVIOUS
    <2>2. Good(r) /\ Active(r) /\ DOMAIN r = Fields
      BY <1>1, <2>1 DEF Requests, Good
    <2>3. PICK todo : \/ request' = [request EXCEPT ![c].at = "validate", ![c].todo = todo]
                      \/ request' = [request EXCEPT ![c].todo = todo] /\ r.at = "validate"
      <3>1. CASE ValidateService(c)
        BY <1>3, <3>1 DEF ValidateService
      <3>2. CASE CheckBinding(c)
        <4>1. request' = [request EXCEPT ![c].todo = Tail(request[c].todo)] /\ r.at = "validate"
          BY <1>3, <2>1, <3>2 DEF CheckBinding, At
        <4> QED BY <4>1
      <3> QED BY <3>1, <3>2
    <2>5. PICK h : /\ request' = [request EXCEPT ![c] = h]
                   /\ DOMAIN h = Fields /\ h.docs = r.docs /\ h.answers = r.answers /\ h.partial = r.partial
                   /\ h.at = "validate"
      <3>1. CASE request' = [request EXCEPT ![c].at = "validate", ![c].todo = todo]
        <4>1. PICK h : h = [r EXCEPT !.at = "validate", !.todo = todo]
          OBVIOUS
        <4>2. request' = [request EXCEPT ![c] = h]
          BY <2>1, <3>1, <4>1 DEF Requests, Numbers
        <4>3. DOMAIN h = Fields /\ h.docs = r.docs /\ h.answers = r.answers /\ h.partial = r.partial /\ h.at = "validate"
          BY <2>2, <4>1 DEF Fields
        <4> QED BY <4>2, <4>3
      <3>2. CASE request' = [request EXCEPT ![c].todo = todo] /\ r.at = "validate"
        <4>1. PICK h : h = [r EXCEPT !.todo = todo]
          OBVIOUS
        <4>2. request' = [request EXCEPT ![c] = h]
          BY <2>1, <3>2, <4>1 DEF Requests, Numbers
        <4>3. DOMAIN h = Fields /\ h.docs = r.docs /\ h.answers = r.answers /\ h.partial = r.partial /\ h.at = "validate"
          BY <2>2, <3>2, <4>1 DEF Fields
        <4> QED BY <4>2, <4>3
      <3> QED BY <2>3, <3>1, <3>2
    <2>6. Good(h)
      BY <2>2, <2>5, Onward DEF OfSecret
    <2> QED BY <2>5, <2>6 DEF Moved
  <1> QED BY <1>2, <1>3

\* Every step of a request leaves it at an item of its documents, or at its end.
LEMMA HandleMoves ==
    ASSUME Requests, NEW c \in Clients, Handle(c) \/ Refused(c)
    PROVE  Moved(c)
  <1>1. \A result \in Words : Active(request[c]) /\ Answer(c, result) => Moved(c)
    BY Answered DEF Moved
  <1>2. \A step : Active(request[c]) /\ Goto(c, step) /\ (step \in OfSecret => Item(c).kind = "Secret") => Moved(c)
    BY Gone DEF Moved
  <1>3. CASE ApplyBucket(c)
    <2>1. Active(request[c])
      BY <1>3 DEF ApplyBucket, At, Active
    <2>2. Answer(c, "unchanged") \/ Goto(c, "emit")
      BY <1>3 DEF ApplyBucket
    <2> QED BY <1>1, <1>2, <2>1, <2>2 DEF OfSecret, Words
  <1>4. CASE ValidateService(c) \/ CheckBinding(c)
    BY <1>4, ServiceMoves
  <1>5. CASE ReadRow(c)
    <2>1. \E step \in {"update", "create row"} : Goto(c, step)
      BY <1>5 DEF ReadRow
    <2>2. Active(request[c])
      BY <1>5 DEF ReadRow, At, Active
    <2> QED BY <1>2, <2>1, <2>2 DEF OfSecret, Words
  <1>6. CASE WriteRow(c)
    <2>1. Active(request[c])
      BY <1>6 DEF WriteRow, Active
    <2>2. Answer(c, "updated") \/ Answer(c, "created")
      BY <1>6 DEF WriteRow
    <2> QED BY <1>1, <2>1, <2>2 DEF Words
  <1>7. CASE LookupSecret(c)
    <2>1. Active(request[c])
      BY <1>7 DEF LookupSecret, At, Active
    <2>2. Item(c).kind = "Secret" /\ (Answer(c, "conflict") \/ Goto(c, "create") \/ Goto(c, "delete"))
      BY <1>7 DEF LookupSecret
    <2> QED BY <1>1, <1>2, <2>1, <2>2 DEF Words
  <1>8. CASE DropSecret(c)
    <2>1. Active(request[c]) /\ Goto(c, "recreate") /\ request[c].at \in OfSecret
      BY <1>8 DEF DropSecret, At, Active, OfSecret
    <2> QED BY <1>2, <2>1, ItemKnown
  <1>9. CASE CreateSecret(c)
    <2>1. Active(request[c])
      BY <1>9 DEF CreateSecret, Active
    <2>2. Answer(c, "updated") \/ Answer(c, "created") \/ Goto(c, "emit")
      BY <1>9 DEF CreateSecret
    <2> QED BY <1>1, <1>2, <2>1, <2>2 DEF OfSecret, Words
  <1>10. CASE Emit(c)
    <2>1. Active(request[c])
      BY <1>10 DEF Emit, Active
    <2>2. Answer(c, "created")
      BY <1>10 DEF Emit
    <2> QED BY <1>1, <2>1, <2>2 DEF Words
  <1>11. CASE LookupToDestroy(c)
    <2>1. Active(request[c])
      BY <1>11 DEF LookupToDestroy, At, Active
    <2>2. Answer(c, "not found") \/ Answer(c, "deleted") \/ Goto(c, "destroy")
      BY <1>11 DEF LookupToDestroy, Unstore
    <2> QED BY <1>1, <1>2, <2>1, <2>2 DEF OfSecret, Words
  <1>12. CASE Destroy(c)
    <2>1. Active(request[c])
      BY <1>12 DEF Destroy, At, Active
    <2>2. Answer(c, "deleted")
      BY <1>12 DEF Destroy, Unstore
    <2> QED BY <1>1, <2>1, <2>2 DEF Words
  <1>13. CASE Diff(c)
    <2>1. CASE Goto(c, "failed")
      BY <1>2, <1>13, <2>1 DEF Diff, At, Active, OfSecret
    <2>2. CASE ~Goto(c, "failed")
      <3>1. PICK r : r = request[c]
        OBVIOUS
      <3>2. DOMAIN r = Fields
        BY <3>1 DEF Requests, Good
      <3>3. PICK g : g = [r EXCEPT !.at = "done", !.answers = [i \in DOMAIN r.docs |-> <<"create">>]]
        OBVIOUS
      <3>4. request' = [request EXCEPT ![c] = g]
        BY <1>13, <2>2, <3>1, <3>3 DEF Diff, Requests, Numbers
      <3>5. DOMAIN g = Fields /\ g.at = "done"
        BY <3>2, <3>3 DEF Fields
      <3>6. Good(g)
        BY <3>5 DEF Good, Active
      <3> QED BY <3>4, <3>6 DEF Moved
    <2> QED BY <2>1, <2>2
  <1>14. CASE Refused(c)
    <2>1. Active(request[c])
      BY <1>14 DEF Refused, Active
    <2>2. <<"error">> \in Results
      BY DEF Results, Words
    <2> QED BY <1>14, <2>1, <2>2, Fulfilled DEF Refused, Fail, Moved
  <1> QED BY <1>3, <1>4, <1>5, <1>6, <1>7, <1>8, <1>9, <1>10, <1>11, <1>12, <1>13, <1>14 DEF Handle

----------------------------------------------------------------------------
(* The secrets *)

\* A step of a client that is not between its delete and its create, and after
\* which the secrets there were are there.
LEMMA StillKept ==
    ASSUME ManifestInv, NEW c \in Clients, NEW g, request' = [request EXCEPT ![c] = g],
           request[c].at # "recreate", faults' \in Nat, faults <= faults', wanted' \subseteq wanted,
           \A s \in wanted' : Exists(<<"Secret", s>>) => Exists(<<"Secret", s>>)'
    PROVE  SecretsKept'
  <1> SUFFICES ASSUME NEW s \in wanted'
               PROVE  \/ Exists(<<"Secret", s>>)'
                      \/ faults' > 0
                      \/ \E d \in Clients : request'[d].at = "recreate" /\ Item(d)'.name = s
    BY DEF SecretsKept
  <1>1. /\ faults \in Nat
        /\ Exists(<<"Secret", s>>) \/ faults > 0 \/ \E d \in Clients : request[d].at = "recreate" /\ Item(d).name = s
    BY DEF ManifestInv, Requests, Numbers, SecretsKept
  <1>2. CASE Exists(<<"Secret", s>>)
    BY <1>2
  <1>3. CASE faults > 0
    BY <1>1, <1>3
  <1>4. CASE \E d \in Clients : request[d].at = "recreate" /\ Item(d).name = s
    <2>1. PICK d \in Clients : request[d].at = "recreate" /\ Item(d).name = s
      BY <1>4
    <2>2. request'[d] = request[d]
      BY <2>1 DEF ManifestInv, Requests, Numbers
    <2>3. Item(d)' = Item(d)
      BY <2>2 DEF Item, Document, Items
    <2> QED BY <2>1, <2>2, <2>3
  <1> QED BY <1>1, <1>2, <1>3, <1>4

\* What a client asks for begins at the first item of its first document.
LEMMA SubmitStep ==
    ASSUME ManifestInv, NEW c \in scenario.clients, NEW op, NEW docs \in scenario.manifests,
           Submit(c, op, docs), UNCHANGED scenario
    PROVE  ManifestInv'
  <1>1. c \in Clients /\ scenario \in Scenarios
    BY ManifestsAssumption DEF ManifestInv, Requests, Numbers, Scenario
  <1>2. PICK g : g = [Idle EXCEPT !.op = op, !.docs = docs, !.at = "next"]
    OBVIOUS
  <1>3. request' = [request EXCEPT ![c] = g] /\ request[c].at # "recreate" /\ UNCHANGED <<store, wanted, faults>>
    BY <1>2 DEF Submit
  <1>4. DOMAIN g = Fields /\ g.docs = docs /\ g.answers = <<>> /\ g.partial = <<>> /\ g.at = "next"
    BY <1>2, IdleFields DEF Fields
  <1>5. Placed(g)
    <2>1. Listed(docs)
      BY <1>1, ManifestsAssumption DEF Scenario
    <2>2. Len(docs) \in Nat \ {0}
      BY <2>1, EmptySeq DEF Listed
    <2>3. Len(Items(docs[1])) \in Nat \ {0}
      BY <1>1, <2>2, ItemsStored
    <2>4. <<>> \in Seq(Results) /\ <<>> \in Results /\ Len(<<>>) = 0
      BY EmptySeq DEF Results
    <2>5. Len(g.answers) < Len(g.docs) /\ DocOf(g) = docs[1]
      BY <1>4, <2>2, <2>4 DEF DocOf
    <2> QED BY <1>4, <2>3, <2>4, <2>5 DEF Placed, OfSecret
  <1>6. Good(g)
    BY <1>4, <1>5 DEF Good
  <1>7. Requests'
    BY <1>1, <1>3, <1>6, OneRequest DEF ManifestInv, Requests, Numbers
  <1>8. SecretsKept'
    <2>1. \A s \in wanted' : Exists(<<"Secret", s>>) => Exists(<<"Secret", s>>)'
      BY <1>3 DEF Exists
    <2>2. faults' \in Nat /\ faults <= faults' /\ wanted' \subseteq wanted
      BY <1>3 DEF ManifestInv, Requests, Numbers
    <2> QED BY <1>1, <1>3, <2>1, <2>2, StillKept
  <1> QED BY <1>7, <1>8 DEF ManifestInv

\* The stores after a step of a request.
LEMMA HandleStores ==
    ASSUME ManifestInv, NEW c \in Clients, Handle(c) \/ Refused(c)
    PROVE  /\ DOMAIN store' = Things /\ faults' \in Nat /\ faults <= faults'
           /\ \A s \in wanted' : <<"Secret", s>> \in Things
  <1>1. UNCHANGED store \/ \E t, v : store' = [store EXCEPT ![t] = v]
    BY DEF Handle, ApplyBucket, ValidateService, CheckBinding, ReadRow, WriteRow, LookupSecret, DropSecret,
           CreateSecret, Emit, LookupToDestroy, Destroy, Unstore, Diff, Refused
  <1>2. DOMAIN store' = Things
    BY <1>1 DEF ManifestInv, Requests, Numbers
  <1>3. faults' = faults \/ faults' = faults + 1
    BY DEF Handle, ApplyBucket, ValidateService, CheckBinding, ReadRow, WriteRow, LookupSecret, DropSecret,
           CreateSecret, Emit, LookupToDestroy, Destroy, Unstore, Diff, Refused
  <1>4. wanted' \subseteq wanted \/ CreateSecret(c)
    BY DEF Handle, ApplyBucket, ValidateService, CheckBinding, ReadRow, WriteRow, LookupSecret, DropSecret,
           Emit, LookupToDestroy, Destroy, Unstore, Diff, Refused
  <1>5. ASSUME CreateSecret(c) PROVE \A s \in wanted' : <<"Secret", s>> \in Things
    <2>1. Active(request[c]) /\ request[c].at \in OfSecret
      BY <1>5 DEF CreateSecret, Active, OfSecret
    <2>2. <<"Secret", Item(c).name>> \in Things
      BY <2>1, ItemKnown DEF ManifestInv
    <2>3. wanted' = wanted \cup {Item(c).name}
      BY <1>5 DEF CreateSecret
    <2> QED BY <2>2, <2>3 DEF ManifestInv, Requests, Numbers
  <1> QED BY <1>2, <1>3, <1>4, <1>5 DEF ManifestInv, Requests, Numbers

LEMMA HandleStep ==
    ASSUME ManifestInv, NEW c \in Clients, Handle(c) \/ Refused(c), UNCHANGED scenario
    PROVE  ManifestInv'
  <1>1. PICK g : request' = [request EXCEPT ![c] = g] /\ Good(g)
    BY HandleMoves DEF ManifestInv, Moved
  <1>2. Requests'
    BY <1>1, HandleStores, OneRequest DEF ManifestInv
  <1> SUFFICES SecretsKept'
    BY <1>2 DEF ManifestInv
  <1>3. faults \in Nat /\ faults' \in Nat /\ faults <= faults' /\ DOMAIN store = Things
    BY HandleStores DEF ManifestInv, Requests, Numbers
  <1>4. ASSUME request[c].at # "recreate", wanted' \subseteq wanted,
               \A s \in wanted' : Exists(<<"Secret", s>>) => Exists(<<"Secret", s>>)'
        PROVE  SecretsKept'
    BY <1>1, <1>3, <1>4, StillKept
  <1>5. ASSUME UNCHANGED <<store, wanted>>, request[c].at # "recreate" PROVE SecretsKept'
    BY <1>4, <1>5 DEF Exists
  <1>6. ASSUME UNCHANGED wanted, request[c].at # "recreate", Active(request[c]),
               store' = [store EXCEPT ![Thing(Item(c))] = Item(c)]
        PROVE  SecretsKept'
    <2>1. Thing(Item(c)) \in Things /\ Item(c) # Absent
      BY <1>6, ItemKnown DEF ManifestInv
    <2>2. \A t : Exists(t) => Exists(t)'
      BY <1>3, <1>6, <2>1 DEF Exists
    <2> QED BY <1>4, <1>6, <2>2
  <1>7. ASSUME Unstore(c), request[c].at # "recreate", Active(request[c]) PROVE SecretsKept'
    <2>1. Thing(Item(c)) = <<Item(c).kind, Item(c).name>>
      BY DEF Thing
    <2>2. wanted' \subseteq wanted /\ (Item(c).kind = "Secret" => Item(c).name \notin wanted')
      BY <1>7 DEF Unstore
    <2>3. ASSUME NEW s \in wanted', Exists(<<"Secret", s>>) PROVE Exists(<<"Secret", s>>)'
      <3>1. <<"Secret", s>> # Thing(Item(c))
        BY <2>1, <2>2
      <3>2. store' = [store EXCEPT ![Thing(Item(c))] = Absent]
        BY <1>7 DEF Unstore
      <3> QED BY <2>3, <3>1, <3>2 DEF Exists
    <2> QED BY <1>4, <1>7, <2>2, <2>3
  <1>8. CASE ApplyBucket(c)
    BY <1>6, <1>8 DEF ApplyBucket, At, Active
  <1>9. CASE ValidateService(c) \/ CheckBinding(c) \/ ReadRow(c) \/ LookupSecret(c) \/ Emit(c) \/ Diff(c)
    BY <1>5, <1>9 DEF ValidateService, CheckBinding, ReadRow, LookupSecret, Emit, Diff, At
  <1>10. CASE WriteRow(c)
    BY <1>6, <1>10 DEF WriteRow, Active
  <1>11. CASE LookupToDestroy(c) \/ Destroy(c)
    BY <1>5, <1>7, <1>11 DEF LookupToDestroy, Destroy, At, Active
  <1>12. CASE Refused(c)
    <2>1. faults' > 0
      BY <1>3, <1>12 DEF Refused
    <2> QED BY <2>1 DEF SecretsKept
  <1>13. CASE DropSecret(c)
    <2>1. Active(request[c]) /\ request[c].at = "delete"
      BY <1>13 DEF DropSecret, At, Active
    <2>2. Thing(Item(c)) = <<"Secret", Item(c).name>>
      BY <2>1, ItemKnown DEF ManifestInv, OfSecret
    <2>3. PICK h : request' = [request EXCEPT ![c] = h] /\ h.at = "recreate" /\ ItemOf(h) = Item(c)
      BY <1>13, <2>1, <2>2, Gone, ItemKnown DEF ManifestInv, DropSecret, OfSecret
    <2>4. request'[c] = h /\ Item(c)' = ItemOf(h)
      <3>1. request'[c] = h
        BY <2>3 DEF ManifestInv, Requests, Numbers
      <3> QED BY <3>1 DEF Item, ItemOf, Document, DocOf
    <2>5. ASSUME NEW s \in wanted'
          PROVE  \/ Exists(<<"Secret", s>>)'
                 \/ faults' > 0
                 \/ \E d \in Clients : request'[d].at = "recreate" /\ Item(d)'.name = s
      <3>1. CASE s = Item(c).name
        BY <2>3, <2>4, <3>1
      <3>2. CASE s # Item(c).name
        <4>1. /\ s \in wanted /\ store'[<<"Secret", s>>] = store[<<"Secret", s>>]
              /\ faults' = faults
          BY <1>13, <2>2, <3>2 DEF DropSecret
        <4>2. CASE \E d \in Clients : request[d].at = "recreate" /\ Item(d).name = s
          <5>1. PICK d \in Clients : request[d].at = "recreate" /\ Item(d).name = s
            BY <4>2
          <5>2. request'[d] = request[d]
            BY <2>1, <2>3, <5>1 DEF ManifestInv, Requests, Numbers
          <5>3. Item(d)' = Item(d)
            BY <5>2 DEF Item, Document, Items
          <5> QED BY <5>1, <5>2, <5>3
        <4> QED BY <4>1, <4>2 DEF ManifestInv, SecretsKept, Exists
      <3> QED BY <3>1, <3>2
    <2> QED BY <2>5 DEF SecretsKept
  <1>14. CASE CreateSecret(c)
    <2>1. Active(request[c]) /\ request[c].at \in OfSecret
      BY <1>14 DEF CreateSecret, Active, OfSecret
    <2>2. Thing(Item(c)) = <<"Secret", Item(c).name>> /\ Thing(Item(c)) \in Things /\ Item(c) # Absent
      BY <2>1, ItemKnown DEF ManifestInv
    <2>3. /\ store' = [store EXCEPT ![Thing(Item(c))] = Item(c)] /\ faults' = faults
          /\ wanted' = wanted \cup {Item(c).name}
      BY <1>14 DEF CreateSecret
    <2>4. ASSUME NEW s \in wanted'
          PROVE  \/ Exists(<<"Secret", s>>)'
                 \/ faults' > 0
                 \/ \E d \in Clients : request'[d].at = "recreate" /\ Item(d)'.name = s
      <3>1. CASE s = Item(c).name
        BY <1>3, <2>2, <2>3, <3>1 DEF Exists
      <3>2. CASE s # Item(c).name
        <4>1. s \in wanted /\ store'[<<"Secret", s>>] = store[<<"Secret", s>>]
          BY <2>2, <2>3, <3>2
        <4>2. CASE \E d \in Clients : request[d].at = "recreate" /\ Item(d).name = s
          <5>1. PICK d \in Clients : request[d].at = "recreate" /\ Item(d).name = s
            BY <4>2
          <5>2. request'[d] = request[d]
            BY <1>1, <3>2, <5>1 DEF ManifestInv, Requests, Numbers
          <5>3. Item(d)' = Item(d)
            BY <5>2 DEF Item, Document, Items
          <5> QED BY <5>1, <5>2, <5>3
        <4> QED BY <2>3, <4>1, <4>2 DEF ManifestInv, SecretsKept, Exists
      <3> QED BY <3>1, <3>2
    <2> QED BY <2>4 DEF SecretsKept
  <1> QED BY <1>8, <1>9, <1>10, <1>11, <1>12, <1>13, <1>14 DEF Handle

\* A crash is a fault; replicas only read.
LEMMA OtherSteps ==
    ASSUME ManifestInv, UNCHANGED scenario,
           Crash \/ (\E doc \in Documents : StartReplica(doc)) \/ InjectSecret
    PROVE  ManifestInv'
  <1>1. CASE Crash
    <2>1. /\ request' = [c \in Clients |-> Idle] /\ UNCHANGED <<store, wanted>>
          /\ faults' \in Nat /\ faults' > 0
      BY <1>1 DEF Crash, ManifestInv, Requests, Numbers
    <2>2. Good(Idle)'
      BY IdleFields DEF Good, Active, Idle
    <2>3. Requests'
      <3>1. Numbers'
        BY <2>1 DEF ManifestInv, Requests, Numbers
      <3>2. \A c \in Clients : request'[c] = Idle
        BY <2>1
      <3>3. \A c \in Clients : Good(request[c])'
        BY <3>2, IdleFields DEF Good, Active
      <3> QED BY <3>1, <3>3 DEF Requests
    <2> QED BY <2>1, <2>3 DEF ManifestInv, SecretsKept
  <1>2. CASE (\E doc \in Documents : StartReplica(doc)) \/ InjectSecret
    <2>1. UNCHANGED <<store, request, wanted, faults>>
      BY <1>2 DEF StartReplica, InjectSecret
    <2> QED BY <2>1 DEF ManifestInv, Requests, Numbers, Good, Active, Placed, DocOf, ItemOf, SecretsKept,
                        Exists, Item, Document, Items
  <1> QED BY <1>1, <1>2

LEMMA ManifestInit == Init => ManifestInv
  <1> SUFFICES ASSUME Init PROVE ManifestInv
    OBVIOUS
  <1>1. Numbers
    BY DEF Init, Numbers
  <1>2. \A c \in Clients : request[c] = Idle
    BY DEF Init
  <1>3. \A c \in Clients : Good(request[c])
    BY <1>2, IdleFields DEF Good
  <1>4. SecretsKept
    BY DEF Init, SecretsKept
  <1> QED BY <1>1, <1>3, <1>4 DEF ManifestInv, Requests

LEMMA ManifestNext == ManifestInv /\ [Next]_vars => ManifestInv'
  <1> SUFFICES ASSUME ManifestInv, [Next]_vars PROVE ManifestInv'
    OBVIOUS
  <1>1. CASE UNCHANGED vars
    BY <1>1 DEF vars, ManifestInv, Requests, Numbers, Good, Active, Placed, DocOf, ItemOf, SecretsKept,
                Exists, Item, Document, Items
  <1>2. CASE Next
    <2>1. Act /\ UNCHANGED scenario
      BY <1>2 DEF Next
    <2>2. ASSUME NEW c \in scenario.clients, NEW op \in scenario.ops, NEW docs \in scenario.manifests,
                 Submit(c, op, docs)
          PROVE  ManifestInv'
      BY <2>1, <2>2, SubmitStep
    <2>3. ASSUME NEW c \in Clients, Handle(c) \/ Refused(c) PROVE ManifestInv'
      BY <2>1, <2>3, HandleStep
    <2>4. CASE Crash \/ (\E doc \in Documents : StartReplica(doc)) \/ InjectSecret
      BY <2>1, <2>4, OtherSteps
    <2> QED BY <2>1, <2>2, <2>3, <2>4 DEF Act
  <1> QED BY <1>1, <1>2

\* Whatever clients apply, create and destroy at the same time, a secret that was
\* created and not destroyed since is stored, unless some request is between its
\* delete and its create or something has failed.
THEOREM SecretsStay == Spec => []SecretsKept
  <1>1. ManifestInv => SecretsKept
    BY DEF ManifestInv
  <1> QED BY <1>1, ManifestInit, ManifestNext, PTL DEF Spec

----------------------------------------------------------------------------
(* The answers, with one request at a time *)

\* An item of a request that is done: of a document without an error, or of the
\* one that the request is at.
Done(r, i, n) ==
    /\ i \in 1..Len(r.docs) /\ n \in 1..Len(Items(r.docs[i]))
    /\ \/ i <= Len(r.answers) /\ r.answers[i] # <<"error">>
       \/ i = Len(r.answers) + 1 /\ n <= Len(r.partial)

\* What was done is as it was asked for.
Truthful(r) ==
    r.op \in {"apply", "destroy"} =>
        \A i \in 1..Len(r.docs) : \A n \in 1..Len(Items(r.docs[i])) : Done(r, i, n) =>
            LET item == Items(r.docs[i])[n] IN
            Repeated(r.docs, i, n) \/ store[Thing(item)] = IF r.op = "apply" THEN item ELSE Absent

\* A document that is not handled yet, or that failed.
Pending(r, j) == j > Len(r.answers) \/ r.answers[j] = <<"error">>
Declares(r, j, t) == j \in 1..Len(r.docs) /\ r.docs[j].kind # "Secrets" /\ Thing(r.docs[j]) = t

\* What was applied is there, and what it refers to is or is still to come.
Backed(r) ==
    r.op = "apply" =>
        \A i \in 1..Len(r.answers) : ~Pending(r, i) =>
            /\ r.docs[i].kind \notin {"Secret", "Secrets"} => Exists(Thing(r.docs[i]))
            /\ \A t \in Bound(r.docs[i]) : Exists(t) \/ \E j \in 1..Len(r.docs) : Declares(r, j, t) /\ Pending(r, j)

\* What a service refers to and its request does not declare is looked up
\* before the service is written.
Missing(r) == {t \in Bound(ItemOf(r)) : \A j \in 1..Len(r.docs) : ~Declares(r, j, t)}
LookedUp(r) ==
    /\ r.at = "validate" =>
           /\ ItemOf(r).kind = "Service" /\ r.todo \in Seq(Bound(ItemOf(r)))
           /\ \A t \in Missing(r) : Exists(t) \/ t \in Range(r.todo)
    /\ r.at \in {"update", "create row"} /\ ItemOf(r).kind = "Service" => \A t \in Missing(r) : Exists(t)
    /\ r.at = "emit" => ItemOf(r).kind # "Service" /\ store[Thing(ItemOf(r))] = ItemOf(r)

\* What a request may be at, by what it asks for, and what it has when it ends.
Fits(r) ==
    /\ r.at \in {"validate", "update", "create row", "delete", "recreate"} => r.op = "apply"
    /\ r.at \in {"create", "emit"} => r.op \in {"apply", "post"}
    /\ r.at = "destroy" => r.op = "destroy"
    /\ r.at = "failed" => r.op = "diff"
    /\ r.at = "idle" => r.op = "none"
    /\ r.at = "done" /\ r.op \in {"apply", "destroy"} =>
           r.docs \in scenario.manifests /\ Len(r.answers) = Len(r.docs)

Honest(r) == Truthful(r) /\ Backed(r) /\ LookedUp(r)
HonestInv ==
    /\ \A c \in Clients : Fits(request[c]) /\ (c \notin scenario.clients => request[c].op = "none" /\ request[c].at = "idle")
    /\ OneAtATime => \A c \in Clients : Honest(request[c])

\* A finite set as a sequence.
LEMMA ListOfSet == ASSUME NEW S, IsFiniteSet(S) PROVE SetToSeq(S) \in Seq(S) /\ Range(SetToSeq(S)) = S
  <1>1. Cardinality(S) \in Nat /\ ExistsBijection(1..Cardinality(S), S)
    BY FS_CardinalityType
  <1>2. PICK f \in Bijection(1..Cardinality(S), S) : TRUE
    BY <1>1 DEF ExistsBijection
  <1>3. f \in [1..Cardinality(S) -> S] /\ IsInjective(f)
    BY <1>2 DEF Bijection, Injection, IsInjective
  <1>4. PICK s : s = SetToSeq(S)
    OBVIOUS
  <1>5. s \in [1..Cardinality(S) -> S] /\ IsInjective(s)
    BY <1>3, <1>4 DEF SetToSeq
  <1>6. s \in Seq(S)
    BY <1>1, <1>5
  <1>7. s \in Injection(1..Cardinality(S), S)
    BY <1>5 DEF Injection, IsInjective
  <1>8. Cardinality(1..Cardinality(S)) = Cardinality(S)
    BY <1>1, FS_Interval
  <1>9. s \in Surjection(1..Cardinality(S), S)
    BY <1>7, <1>8, FS_Injection
  <1>10. \A x \in S : \E i \in DOMAIN s : s[i] = x
    BY <1>5, <1>9 DEF Surjection
  <1>11. Range(s) = S
    BY <1>5, <1>10 DEF Range
  <1> QED BY <1>4, <1>6, <1>11

\* The place of a request that is under way, in numbers.
LEMMA PlaceOf ==
    ASSUME Numbers, NEW r, Good(r), Active(r)
    PROVE  /\ r.docs \in scenario.manifests /\ scenario \in Scenarios
           /\ Len(r.answers) \in Nat /\ Len(r.answers) + 1 \in 1..Len(r.docs)
           /\ Len(r.partial) \in Nat /\ Len(r.partial) + 1 \in 1..Len(Items(DocOf(r)))
           /\ r.answers \in Seq(Results) /\ r.partial \in Seq(Words)
  <1>1. /\ scenario \in Scenarios /\ r.docs \in scenario.manifests
        /\ r.answers \in Seq(Results) /\ Len(r.answers) < Len(r.docs)
        /\ r.partial \in Seq(Words) /\ Len(r.partial) < Len(Items(DocOf(r)))
    BY DEF Numbers, Good, Placed, Results
  <1>2. Listed(r.docs)
    BY <1>1, ManifestsAssumption DEF Scenario
  <1>3. Len(r.docs) \in Nat
    BY <1>2, LenProperties DEF Listed
  <1>4. Len(r.answers) \in Nat /\ Len(r.partial) \in Nat
    BY <1>1, LenProperties
  <1>5. PICK n : n = Len(r.answers) + 1
    OBVIOUS
  <1>6. n \in 1..Len(r.docs)
    BY <1>1, <1>3, <1>4, <1>5
  <1>7. Len(Items(r.docs[n])) \in Nat
    BY <1>1, <1>6, ItemsStored
  <1> QED BY <1>1, <1>3, <1>4, <1>5, <1>6, <1>7 DEF DocOf

\* The documents that a client may send, and their items, are sequences.
LEMMA Sequences ==
    ASSUME NEW w \in Scenarios, NEW docs \in w.manifests
    PROVE  /\ DOMAIN docs = 1..Len(docs) /\ Len(docs) \in Nat
           /\ \A i \in 1..Len(docs) : /\ DOMAIN Items(docs[i]) = 1..Len(Items(docs[i]))
                                      /\ Len(Items(docs[i])) \in Nat
                                      /\ docs[i].kind # "Secrets" => Items(docs[i]) = <<docs[i]>>
                                      /\ docs[i].kind = "Service" => IsFiniteSet(docs[i].databases) /\ IsFiniteSet(docs[i].callers)
                                      /\ docs[i].kind = "Secrets" =>
                                             \A n \in 1..Len(Items(docs[i])) : Items(docs[i])[n].kind = "Secret"
  <1>1. Listed(docs) /\ \A d \in Range(docs) : Bundle(d) /\ Finite(d)
    BY ManifestsAssumption DEF Scenario
  <1>2. DOMAIN docs = 1..Len(docs) /\ Len(docs) \in Nat
    BY <1>1, LenProperties DEF Listed
  <1>3. ASSUME NEW i \in 1..Len(docs)
        PROVE  /\ DOMAIN Items(docs[i]) = 1..Len(Items(docs[i]))
               /\ Len(Items(docs[i])) \in Nat
               /\ docs[i].kind # "Secrets" => Items(docs[i]) = <<docs[i]>>
               /\ docs[i].kind = "Service" => IsFiniteSet(docs[i].databases) /\ IsFiniteSet(docs[i].callers)
               /\ docs[i].kind = "Secrets" =>
                      \A n \in 1..Len(Items(docs[i])) : Items(docs[i])[n].kind = "Secret"
    <2>1. PICK doc : doc = docs[i]
      OBVIOUS
    <2>2. doc \in Range(docs)
      BY <1>2, <2>1 DEF Range
    <2>3. CASE doc.kind = "Secrets"
      <3>1. PICK items : items = doc.secrets
        OBVIOUS
      <3>2. items \in Seq(Range(items)) /\ \A item \in Range(items) : item.kind = "Secret"
        BY <1>1, <2>2, <2>3, <3>1 DEF Bundle, Listed
      <3>3. DOMAIN items = 1..Len(items) /\ Len(items) \in Nat
        BY <3>2, LenProperties
      <3>4. \A n \in 1..Len(items) : items[n].kind = "Secret"
        BY <3>2, <3>3 DEF Range
      <3>5. Items(docs[i]) = items /\ docs[i].kind = "Secrets"
        BY <2>1, <2>3, <3>1 DEF Items
      <3> QED BY <3>3, <3>4, <3>5
    <2>4. CASE doc.kind # "Secrets"
      <3>1. Items(docs[i]) = <<docs[i]>> /\ docs[i].kind # "Secrets"
        BY <2>1, <2>4 DEF Items
      <3>2. docs[i].kind = "Service" => IsFiniteSet(docs[i].databases) /\ IsFiniteSet(docs[i].callers)
        BY <1>1, <2>1, <2>2 DEF Finite
      <3> QED BY <3>1, <3>2
    <2> QED BY <2>3, <2>4
  <1> QED BY <1>2, <1>3

----------------------------------------------------------------------------
(* What the steps of a request do to it *)

Kept(r, g) == DOMAIN g = Fields /\ g.op = r.op /\ g.docs = r.docs
GoesOn(r, g) == Kept(r, g) /\ g.answers = r.answers /\ g.partial = r.partial
NextItem(r, g, result) ==
    /\ Kept(r, g) /\ g.at = "next" /\ g.answers = r.answers
    /\ g.partial = Append(r.partial, result) /\ Len(g.partial) < Len(Items(DocOf(r)))
NextDocument(r, g, results) ==
    /\ Kept(r, g) /\ g.answers = Append(r.answers, results) /\ g.partial = <<>>
    /\ g.at = IF Len(g.answers) = Len(g.docs) THEN "done" ELSE "next"
LastItem(r) == Len(r.partial) + 1 = Len(Items(DocOf(r)))

LEMMA WhenFinished ==
    ASSUME Requests, NEW c \in Clients, NEW results, Finish(c, results)
    PROVE  \E g : request' = [request EXCEPT ![c] = g] /\ NextDocument(request[c], g, results)
  <1>1. PICK r : r = request[c]
    OBVIOUS
  <1>2. DOMAIN r = Fields
    BY <1>1 DEF Requests, Good
  <1>3. PICK g : g = [r EXCEPT !.answers = Append(r.answers, results), !.partial = <<>>,
                               !.at = IF Len(Append(r.answers, results)) = Len(r.docs) THEN "done" ELSE "next"]
    OBVIOUS
  <1>4. request' = [request EXCEPT ![c] = g]
    BY <1>1, <1>3 DEF Finish, Requests, Numbers
  <1>5. NextDocument(r, g, results)
    BY <1>2, <1>3 DEF Fields, NextDocument, Kept
  <1> QED BY <1>1, <1>4, <1>5

LEMMA WhenAnswered ==
    ASSUME Requests, NEW c \in Clients, Active(request[c]), NEW result \in Words, Answer(c, result)
    PROVE  \E g : /\ request' = [request EXCEPT ![c] = g]
                  /\ \/ NextItem(request[c], g, result)
                     \/ NextDocument(request[c], g, Append(request[c].partial, result)) /\ LastItem(request[c])
  <1>1. PICK r : r = request[c]
    OBVIOUS
  <1>2. DOMAIN r = Fields /\ Good(r) /\ Active(r) /\ Numbers
    BY <1>1 DEF Requests, Good
  <1>3. PICK results : results = Append(r.partial, result)
    OBVIOUS
  <1>4. CASE Len(results) < Len(Items(DocOf(r)))
    <2>1. PICK g : g = [r EXCEPT !.partial = results, !.at = "next"]
      OBVIOUS
    <2>2. request' = [request EXCEPT ![c] = g]
      BY <1>1, <1>3, <1>4, <2>1 DEF Answer, Document, DocOf, Requests, Numbers
    <2>3. NextItem(r, g, result)
      BY <1>2, <1>3, <1>4, <2>1 DEF Fields, NextItem, Kept
    <2> QED BY <1>1, <2>2, <2>3
  <1>5. CASE ~(Len(results) < Len(Items(DocOf(r))))
    <2>1. Finish(c, results)
      BY <1>1, <1>3, <1>5 DEF Answer, Document, DocOf
    <2>2. Len(results) = Len(r.partial) + 1
      BY <1>2, <1>3, PlaceOf, LenProperties
    <2>3. LastItem(r)
      BY <1>2, <1>5, <2>2, PlaceOf DEF LastItem
    <2> QED BY <1>1, <1>3, <2>1, <2>3, WhenFinished
  <1> QED BY <1>4, <1>5

LEMMA WhenGoing ==
    ASSUME Requests, NEW c \in Clients, NEW step, Goto(c, step)
    PROVE  \E g : /\ request' = [request EXCEPT ![c] = g] /\ GoesOn(request[c], g)
                  /\ g.at = step /\ g.todo = request[c].todo
  <1>1. PICK r : r = request[c]
    OBVIOUS
  <1>2. DOMAIN r = Fields
    BY <1>1 DEF Requests, Good
  <1>3. PICK g : g = [r EXCEPT !.at = step]
    OBVIOUS
  <1>4. request' = [request EXCEPT ![c] = g]
    BY <1>1, <1>3 DEF Goto, Requests, Numbers
  <1>5. GoesOn(r, g) /\ g.at = step /\ g.todo = r.todo
    BY <1>2, <1>3 DEF Fields, GoesOn, Kept
  <1> QED BY <1>1, <1>4, <1>5

\* What is done after a step was done before it, or is the item it was at.
LEMMA DoneGoing == ASSUME NEW r, NEW g, GoesOn(r, g) PROVE \A i, n : Done(g, i, n) => Done(r, i, n)
  BY DEF GoesOn, Kept, Done

LEMMA DoneAnswered ==
    ASSUME Numbers, NEW r, Good(r), Active(r), NEW g, NEW result \in Words,
           \/ NextItem(r, g, result)
           \/ NextDocument(r, g, Append(r.partial, result)) /\ LastItem(r)
    PROVE  \A i, n : Done(g, i, n) => Done(r, i, n) \/ (i = Len(r.answers) + 1 /\ n = Len(r.partial) + 1)
  <1> SUFFICES ASSUME NEW i, NEW n, Done(g, i, n)
               PROVE  Done(r, i, n) \/ (i = Len(r.answers) + 1 /\ n = Len(r.partial) + 1)
    OBVIOUS
  <1>1. /\ Len(r.answers) \in Nat /\ Len(r.partial) \in Nat /\ r.answers \in Seq(Results) /\ r.partial \in Seq(Words)
        /\ Len(Items(DocOf(r))) \in Nat /\ Len(r.docs) \in Nat
    BY PlaceOf
  <1>2. /\ i \in 1..Len(r.docs) /\ n \in 1..Len(Items(r.docs[i])) /\ g.docs = r.docs
    BY DEF Done, NextItem, NextDocument, Kept
  <1>3. CASE NextItem(r, g, result)
    <2>1. g.answers = r.answers /\ Len(g.partial) = Len(r.partial) + 1
      BY <1>1, <1>3, LenProperties DEF NextItem
    <2> QED BY <1>1, <1>2, <2>1 DEF Done
  <1>4. CASE NextDocument(r, g, Append(r.partial, result)) /\ LastItem(r)
    <2>1. PICK results : results = Append(r.partial, result)
      OBVIOUS
    <2>2. results \in Results /\ g.answers = Append(r.answers, results) /\ g.partial = <<>>
      BY <1>1, <1>4, <2>1 DEF Results, NextDocument
    <2>3. /\ Len(g.answers) = Len(r.answers) + 1 /\ Len(g.partial) = 0
          /\ \A j \in 1..Len(r.answers) : g.answers[j] = r.answers[j]
      BY <1>1, <2>2
    <2>4. CASE i <= Len(r.answers)
      BY <1>1, <1>2, <2>3, <2>4 DEF Done
    <2>5. CASE i = Len(r.answers) + 1
      BY <1>1, <1>2, <1>4, <2>5 DEF Done, LastItem, DocOf
    <2>6. i <= Len(r.answers) + 1
      BY <1>1, <1>2, <2>3 DEF Done
    <2> QED BY <1>1, <1>2, <2>4, <2>5, <2>6
  <1> QED BY <1>3, <1>4

LEMMA DoneFailed ==
    ASSUME Numbers, NEW r, Good(r), Active(r), NEW g, NextDocument(r, g, <<"error">>)
    PROVE  \A i, n : Done(g, i, n) => Done(r, i, n)
  <1> SUFFICES ASSUME NEW i, NEW n, Done(g, i, n) PROVE Done(r, i, n)
    OBVIOUS
  <1>1. /\ Len(r.answers) \in Nat /\ r.answers \in Seq(Results) /\ Len(r.docs) \in Nat
    BY PlaceOf
  <1>2. /\ i \in 1..Len(r.docs) /\ n \in 1..Len(Items(r.docs[i])) /\ g.docs = r.docs
    BY DEF Done, NextDocument, Kept
  <1>3. <<"error">> \in Results /\ g.answers = Append(r.answers, <<"error">>) /\ g.partial = <<>>
    BY DEF Results, Words, NextDocument
  <1>4. /\ Len(g.answers) = Len(r.answers) + 1 /\ Len(g.partial) = 0
        /\ \A j \in 1..Len(r.answers) : g.answers[j] = r.answers[j]
        /\ g.answers[Len(r.answers) + 1] = <<"error">>
    BY <1>1, <1>3
  <1>5. n \in Int /\ n >= 1
    BY <1>2
  <1>6. i <= Len(g.answers) /\ g.answers[i] # <<"error">>
    BY <1>1, <1>2, <1>4, <1>5 DEF Done
  <1>7. i <= Len(r.answers) /\ g.answers[i] = r.answers[i]
    BY <1>1, <1>2, <1>4, <1>6
  <1> QED BY <1>2, <1>6, <1>7 DEF Done

----------------------------------------------------------------------------
(* That the answers stay true *)

\* Only the thing that the request is at is written, and an item that was done
\* before is not about it or is repeated by it.
LEMMA StillTruthful ==
    ASSUME Numbers, NEW r, Good(r), Active(r), Truthful(r), NEW g, g.op = r.op, g.docs = r.docs,
           UNCHANGED store \/ \E v : store' = [store EXCEPT ![Thing(ItemOf(r))] = v],
           \A i, n : Done(g, i, n) =>
               \/ Done(r, i, n)
               \/ /\ i = Len(r.answers) + 1 /\ n = Len(r.partial) + 1
                  /\ r.op \in {"apply", "destroy"} =>
                         store'[Thing(ItemOf(r))] = IF r.op = "apply" THEN ItemOf(r) ELSE Absent
    PROVE  Truthful(g)'
  <1> SUFFICES ASSUME g.op \in {"apply", "destroy"},
                      NEW i \in 1..Len(g.docs), NEW n \in 1..Len(Items(g.docs[i])), Done(g, i, n),
                      ~Repeated(g.docs, i, n)
               PROVE  store'[Thing(Items(g.docs[i])[n])] = IF g.op = "apply" THEN Items(g.docs[i])[n] ELSE Absent
    BY DEF Truthful
  <1> PICK m : m = Len(r.answers) + 1
    OBVIOUS
  <1> PICK l : l = Len(r.partial) + 1
    OBVIOUS
  <1>1. /\ m \in 1..Len(r.docs) /\ l \in 1..Len(Items(r.docs[m])) /\ DocOf(r) = r.docs[m]
        /\ ItemOf(r) = Items(r.docs[m])[l] /\ Len(r.answers) \in Nat /\ Len(r.partial) \in Nat
    BY PlaceOf DEF DocOf, ItemOf
  <1>2. CASE i = m /\ n = l /\ store'[Thing(ItemOf(r))] = IF r.op = "apply" THEN ItemOf(r) ELSE Absent
    BY <1>1, <1>2
  <1>3. CASE Done(r, i, n)
    <2>1. store[Thing(Items(r.docs[i])[n])] = IF r.op = "apply" THEN Items(r.docs[i])[n] ELSE Absent
      BY <1>3 DEF Truthful
    <2>2. i < m \/ (i = m /\ n < l)
      BY <1>1, <1>3 DEF Done
    <2>3. Thing(Items(r.docs[m])[l]) # Thing(Items(r.docs[i])[n])
      <3>1. DOMAIN r.docs = 1..Len(r.docs) /\ DOMAIN Items(r.docs[m]) = 1..Len(Items(r.docs[m]))
        BY <1>1, PlaceOf, Sequences
      <3>2. m \in DOMAIN r.docs /\ l \in DOMAIN Items(r.docs[m])
        BY <1>1, <3>1
      <3>3. ~Repeated(r.docs, i, n)
        OBVIOUS
      <3>4. i \in Nat /\ n \in Nat /\ m \in Nat /\ l \in Nat
        BY <1>1
      <3> QED BY <2>2, <3>2, <3>3, <3>4 DEF Repeated
    <2>4. Thing(Items(r.docs[i])[n]) # Thing(ItemOf(r))
      BY <1>1, <2>3
    <2>5. Thing(Items(r.docs[i])[n]) \in DOMAIN store
      BY PlaceOf, ItemsStored DEF Numbers
    <2>6. store'[Thing(Items(r.docs[i])[n])] = store[Thing(Items(r.docs[i])[n])]
      BY <2>4, <2>5
    <2> QED BY <2>1, <2>6
  <1> QED BY <1>2, <1>3

\* The things that a service refers to are of three kinds.
LEMMA BoundKinds ==
    ASSUME NEW doc, NEW t \in Bound(doc)
    PROVE  t[1] \in {"Bucket", "Database", "Service"} /\ doc.kind = "Service"
  BY DEF Bound

\* No step of an apply takes away what an accepted service refers to.
StaysThere == \A t \in Things : t[1] # "Secret" /\ Exists(t) => Exists(t)'

LEMMA BoundStored ==
    ASSUME NEW w \in Scenarios, NEW docs \in w.manifests, NEW i \in 1..Len(docs)
    PROVE  Bound(docs[i]) \subseteq Things /\ (docs[i].kind # "Secrets" => Thing(docs[i]) \in Things)
  <1>1. PICK doc : doc = docs[i]
    OBVIOUS
  <1>2. doc \in Range(docs)
    BY <1>1, Sequences DEF Range
  <1>3. doc \in Documents
    BY <1>2 DEF Documents
  <1>4. Bound(doc) \subseteq Things
    BY <1>3 DEF Things
  <1>5. doc.kind # "Secrets" => Thing(doc) \in Things
    <2> SUFFICES ASSUME doc.kind # "Secrets" PROVE Thing(doc) \in Things
      OBVIOUS
    <2>1. Items(doc) = <<doc>>
      BY DEF Items
    <2>2. doc \in Range(Items(doc))
      BY <2>1 DEF Range
    <2> QED BY <1>3, <2>2 DEF Things
  <1> QED BY <1>1, <1>4, <1>5

LEMMA StillBacked ==
    ASSUME Numbers, NEW r, Good(r), Active(r), Backed(r), NEW g, g.op = r.op, g.docs = r.docs,
           r.op = "apply" => StaysThere,
           \/ g.answers = r.answers
           \/ \E results \in Results :
                /\ g.answers = Append(r.answers, results)
                /\ r.op = "apply" /\ results # <<"error">> =>
                       /\ DocOf(r).kind # "Secrets" => Exists(Thing(DocOf(r)))'
                       /\ DocOf(r).kind = "Service" => \A t \in Missing(r) : Exists(t)'
                       /\ DocOf(r).kind # "Secrets" => ItemOf(r) = DocOf(r)
    PROVE  Backed(g)'
  <1> SUFFICES ASSUME r.op = "apply" PROVE Backed(g)'
    BY DEF Backed
  <1> PICK m : m = Len(r.answers) + 1
    OBVIOUS
  <1>1. /\ m \in 1..Len(r.docs) /\ DocOf(r) = r.docs[m] /\ Len(r.answers) \in Nat /\ Len(r.docs) \in Nat
        /\ r.answers \in Seq(Results) /\ r.docs \in scenario.manifests /\ scenario \in Scenarios
    BY PlaceOf, Sequences DEF DocOf
  <1>2. \A i \in 1..Len(r.docs) :
            Bound(r.docs[i]) \subseteq Things /\ (r.docs[i].kind # "Secrets" => Thing(r.docs[i]) \in Things)
    BY <1>1, BoundStored
  <1>3. ASSUME NEW i \in 1..Len(g.answers), ~Pending(g, i), i # m
        PROVE  i \in 1..Len(r.answers) /\ ~Pending(r, i) /\ i \in 1..Len(r.docs)
    BY <1>1, <1>3 DEF Pending
  <1>4. ASSUME NEW i \in 1..Len(r.docs), NEW t \in Bound(r.docs[i]), Exists(t) PROVE Exists(t)'
    BY <1>2, <1>4, BoundKinds DEF StaysThere
  <1>5. ASSUME NEW i \in 1..Len(r.docs), r.docs[i].kind \notin {"Secret", "Secrets"}, Exists(Thing(r.docs[i]))
        PROVE  Exists(Thing(r.docs[i]))'
    <2>1. Thing(r.docs[i])[1] # "Secret"
      BY <1>5 DEF Thing
    <2> QED BY <1>2, <1>5, <2>1 DEF StaysThere
  <1>6. ASSUME NEW j \in 1..Len(r.docs), NEW t, Declares(r, j, t), Pending(r, j), t[1] # "Secret"
        PROVE  Exists(t)' \/ (Declares(g, j, t) /\ Pending(g, j))
    <2>1. Declares(g, j, t) /\ r.docs[j].kind # "Secrets" /\ Thing(r.docs[j]) = t
      BY <1>6 DEF Declares
    <2>2. CASE g.answers = r.answers
      BY <1>6, <2>1, <2>2 DEF Pending
    <2>3. ASSUME NEW results \in Results, g.answers = Append(r.answers, results),
                 results # <<"error">> => (DocOf(r).kind # "Secrets" => Exists(Thing(DocOf(r)))')
          PROVE  Exists(t)' \/ (Declares(g, j, t) /\ Pending(g, j))
      <3>1. /\ Len(g.answers) = m /\ g.answers[m] = results
            /\ \A k \in 1..Len(r.answers) : g.answers[k] = r.answers[k]
        BY <1>1, <2>3
      <3>2. CASE j # m
        BY <1>1, <1>6, <2>1, <3>1, <3>2 DEF Pending
      <3>3. CASE j = m
        BY <1>1, <2>1, <2>3, <3>1, <3>3 DEF Pending
      <3> QED BY <3>2, <3>3
    <2> QED BY <2>2, <2>3
  <1>7. ASSUME NEW i \in 1..Len(g.answers), ~Pending(g, i), i # m
        PROVE  /\ g.docs[i].kind \notin {"Secret", "Secrets"} => Exists(Thing(g.docs[i]))'
               /\ \A t \in Bound(g.docs[i]) :
                      Exists(t)' \/ \E j \in 1..Len(g.docs) : Declares(g, j, t) /\ Pending(g, j)
    <2>1. i \in 1..Len(r.answers) /\ ~Pending(r, i) /\ i \in 1..Len(r.docs)
      BY <1>3, <1>7
    <2>2. /\ r.docs[i].kind \notin {"Secret", "Secrets"} => Exists(Thing(r.docs[i]))
          /\ \A t \in Bound(r.docs[i]) :
                 Exists(t) \/ \E j \in 1..Len(r.docs) : Declares(r, j, t) /\ Pending(r, j)
      BY <2>1 DEF Backed
    <2>3. ASSUME NEW t \in Bound(r.docs[i])
          PROVE  Exists(t)' \/ \E j \in 1..Len(r.docs) : Declares(g, j, t) /\ Pending(g, j)
      <3>1. t[1] # "Secret"
        BY BoundKinds
      <3> QED BY <1>4, <1>6, <2>1, <2>2, <3>1
    <2> QED BY <1>5, <2>1, <2>2, <2>3
  <1>8. ASSUME NEW i \in 1..Len(g.answers), ~Pending(g, i), i = m
        PROVE  /\ g.docs[i].kind \notin {"Secret", "Secrets"} => Exists(Thing(g.docs[i]))'
               /\ \A t \in Bound(g.docs[i]) :
                      Exists(t)' \/ \E j \in 1..Len(g.docs) : Declares(g, j, t) /\ Pending(g, j)
    <2>1. PICK results \in Results :
              /\ g.answers = Append(r.answers, results)
              /\ results # <<"error">> =>
                     /\ DocOf(r).kind # "Secrets" => Exists(Thing(DocOf(r)))'
                     /\ DocOf(r).kind = "Service" => \A t \in Missing(r) : Exists(t)'
                     /\ DocOf(r).kind # "Secrets" => ItemOf(r) = DocOf(r)
      BY <1>1, <1>8
    <2>2. results # <<"error">>
      BY <1>1, <1>8, <2>1 DEF Pending
    <2>3. /\ r.docs[m].kind # "Secrets" => Exists(Thing(r.docs[m]))'
          /\ r.docs[m].kind = "Service" => (\A t \in Missing(r) : Exists(t)') /\ ItemOf(r) = r.docs[m]
      BY <1>1, <2>1, <2>2
    <2>4. ASSUME NEW t \in Bound(r.docs[m])
          PROVE  Exists(t)' \/ \E j \in 1..Len(r.docs) : Declares(g, j, t) /\ Pending(g, j)
      <3>1. t[1] # "Secret" /\ r.docs[m].kind = "Service"
        BY BoundKinds
      <3>2. CASE t \in Missing(r)
        BY <2>3, <3>1, <3>2
      <3>3. CASE t \notin Missing(r)
        <4>1. PICK j \in 1..Len(r.docs) : Declares(r, j, t)
          BY <2>3, <3>1, <3>3 DEF Missing
        <4>2. CASE Pending(r, j)
          BY <1>6, <3>1, <4>1, <4>2
        <4>3. CASE ~Pending(r, j)
          <5>1. j \in 1..Len(r.answers)
            BY <1>1, <4>3 DEF Pending
          <5>2. r.docs[j].kind \notin {"Secret", "Secrets"} /\ Thing(r.docs[j]) = t
            BY <3>1, <4>1 DEF Declares, Thing
          <5>3. Exists(t)
            BY <4>3, <5>1, <5>2 DEF Backed
          <5> QED BY <1>4, <1>1, <5>3
        <4> QED BY <4>2, <4>3
      <3> QED BY <3>2, <3>3
    <2> QED BY <1>8, <2>3, <2>4
  <1>9. \A i \in 1..Len(g.answers) : ~Pending(g, i) =>
            /\ g.docs[i].kind \notin {"Secret", "Secrets"} => Exists(Thing(g.docs[i]))'
            /\ \A t \in Bound(g.docs[i]) :
                   Exists(t)' \/ \E j \in 1..Len(g.docs) : Declares(g, j, t) /\ Pending(g, j)
    BY <1>7, <1>8
  <1> QED BY <1>9 DEF Backed, Pending, Declares, Thing, Bound

\* A step of one client's request, after which it is as honest as it was.
Advanced(c) ==
    \E g : /\ request' = [request EXCEPT ![c] = g] /\ Fits(g)
           /\ Honest(request[c]) => Honest(g)'

\* The request that the actions read, and its item.
LEMMA ReadItem ==
    ASSUME NEW c \in Clients
    PROVE  Item(c) = ItemOf(request[c]) /\ Document(c) = DocOf(request[c])
  BY DEF Item, ItemOf, Document, DocOf

\* A step to another await of the same item.
LEMMA StepOn ==
    ASSUME Requests, NEW c \in Clients, Active(request[c]), NEW g, request' = [request EXCEPT ![c] = g],
           GoesOn(request[c], g), Fits(g),
           UNCHANGED store \/ \E v : store' = [store EXCEPT ![Thing(Item(c))] = v],
           request[c].op = "apply" => StaysThere,
           Honest(request[c]) => LookedUp(g)'
    PROVE  Advanced(c)
  <1> PICK r : r = request[c]
    OBVIOUS
  <1>1. Numbers /\ Good(r) /\ Active(r) /\ GoesOn(r, g) /\ Item(c) = ItemOf(r)
    BY ReadItem DEF Requests
  <1> SUFFICES ASSUME Honest(r) PROVE Honest(g)'
    BY DEF Advanced
  <1>2. g.op = r.op /\ g.docs = r.docs /\ g.answers = r.answers
    BY <1>1 DEF GoesOn, Kept
  <1>3. Truthful(g)'
    BY <1>1, <1>2, DoneGoing, StillTruthful DEF Honest
  <1>4. Backed(g)'
    BY <1>1, <1>2, StillBacked DEF Honest
  <1> QED BY <1>3, <1>4 DEF Honest

\* An item that is answered is stored as it should be, and so is all that the
\* service refers to.
LEMMA StepAnswered ==
    ASSUME Requests, NEW c \in Clients, Active(request[c]), NEW result \in Words, Answer(c, result),
           UNCHANGED store \/ \E v : store' = [store EXCEPT ![Thing(Item(c))] = v],
           Honest(request[c]) /\ request[c].op \in {"apply", "destroy"} =>
               store'[Thing(Item(c))] = IF request[c].op = "apply" THEN Item(c) ELSE Absent,
           Honest(request[c]) /\ request[c].op = "apply" /\ Item(c).kind = "Service" =>
               \A t \in Missing(request[c]) : Exists(t)
    PROVE  Advanced(c)
  <1> PICK r : r = request[c]
    OBVIOUS
  <1>1. Numbers /\ Good(r) /\ Active(r) /\ Item(c) = ItemOf(r)
    BY ReadItem DEF Requests
  <1>2. PICK g : /\ request' = [request EXCEPT ![c] = g]
                 /\ \/ NextItem(r, g, result)
                    \/ NextDocument(r, g, Append(r.partial, result)) /\ LastItem(r)
    BY WhenAnswered
  <1>3. g.op = r.op /\ g.docs = r.docs /\ g.at \in {"next", "done"}
    BY <1>2 DEF NextItem, NextDocument, Kept
  <1>4. g.at = "done" => Len(g.answers) = Len(g.docs)
    BY <1>2 DEF NextItem, NextDocument
  <1>5. Fits(g)
    BY <1>1, <1>3, <1>4, PlaceOf DEF Fits
  <1> SUFFICES ASSUME Honest(r) PROVE Honest(g)'
    BY <1>2, <1>5 DEF Advanced
  <1>6. Truthful(g)'
    BY <1>1, <1>2, <1>3, DoneAnswered, StillTruthful DEF Honest
  <1>7. LookedUp(g)'
    BY <1>3 DEF LookedUp
  <1>8. r.op = "apply" => StaysThere
    <2>1. r.op = "apply" => store'[Thing(ItemOf(r))] = ItemOf(r) /\ ItemOf(r) # Absent
      BY <1>1, ItemStored
    <2> QED BY <1>1, <2>1 DEF StaysThere, Exists, Numbers
  <1>9. Backed(g)'
    <2>1. CASE NextItem(r, g, result)
      <3>1. g.answers = r.answers
        BY <2>1 DEF NextItem
      <3> QED BY <1>1, <1>3, <1>8, <3>1, StillBacked DEF Honest
    <2>2. CASE NextDocument(r, g, Append(r.partial, result)) /\ LastItem(r)
      <3>1. PICK results : results = Append(r.partial, result)
        OBVIOUS
      <3>2. results \in Results /\ g.answers = Append(r.answers, results)
        BY <1>1, <2>2, <3>1, PlaceOf DEF NextDocument, Results
      <3>3. DocOf(r).kind # "Secrets" => ItemOf(r) = DocOf(r)
        <4>1. PICK m : m = Len(r.answers) + 1
          OBVIOUS
        <4>2. m \in 1..Len(r.docs) /\ DocOf(r) = r.docs[m]
          BY <1>1, <4>1, PlaceOf DEF DocOf
        <4>3. DocOf(r).kind # "Secrets" => Items(DocOf(r)) = <<DocOf(r)>>
          BY <1>1, <4>2, PlaceOf, Sequences
        <4>4. Len(r.partial) \in Nat /\ Len(r.partial) + 1 \in 1..Len(Items(DocOf(r)))
          BY <1>1, PlaceOf
        <4> QED BY <4>3, <4>4 DEF ItemOf
      <3>4. r.op = "apply" => /\ DocOf(r).kind # "Secrets" => Exists(Thing(DocOf(r)))'
                              /\ DocOf(r).kind = "Service" => \A t \in Missing(r) : Exists(t)'
        <4> SUFFICES ASSUME r.op = "apply"
                     PROVE  /\ DocOf(r).kind # "Secrets" => Exists(Thing(DocOf(r)))'
                            /\ DocOf(r).kind = "Service" => \A t \in Missing(r) : Exists(t)'
          OBVIOUS
        <4>1. store'[Thing(ItemOf(r))] = ItemOf(r) /\ ItemOf(r) # Absent
          BY <1>1, ItemStored
        <4>2. DocOf(r).kind # "Secrets" => Exists(Thing(DocOf(r)))'
          BY <3>3, <4>1 DEF Exists
        <4>3. ASSUME DocOf(r).kind = "Service", NEW t \in Missing(r) PROVE Exists(t)'
          <5>1. Exists(t)
            BY <1>1, <3>3, <4>3
          <5>2. t \in Bound(ItemOf(r))
            BY DEF Missing
          <5>3. t \in Things
            <6>1. PICK m : m = Len(r.answers) + 1
              OBVIOUS
            <6>2. m \in 1..Len(r.docs) /\ DocOf(r) = r.docs[m]
              BY <1>1, <6>1, PlaceOf DEF DocOf
            <6> QED BY <1>1, <3>3, <4>3, <5>2, <6>2, PlaceOf, BoundStored
          <5> QED BY <1>8, <5>1, <5>2, <5>3, BoundKinds DEF StaysThere
        <4> QED BY <4>2, <4>3
      <3> QED BY <1>1, <1>3, <1>8, <3>2, <3>3, <3>4, StillBacked DEF Honest
    <2> QED BY <1>2, <2>1, <2>2
  <1> QED BY <1>6, <1>7, <1>9 DEF Honest

\* A document that fails promises nothing.
LEMMA StepFailed ==
    ASSUME Requests, NEW c \in Clients, Active(request[c]), Fail(c), UNCHANGED store
    PROVE  Advanced(c)
  <1> PICK r : r = request[c]
    OBVIOUS
  <1>1. Numbers /\ Good(r) /\ Active(r)
    BY DEF Requests
  <1>2. PICK g : request' = [request EXCEPT ![c] = g] /\ NextDocument(r, g, <<"error">>)
    BY WhenFinished DEF Fail
  <1>3. /\ g.op = r.op /\ g.docs = r.docs /\ g.at \in {"next", "done"}
        /\ g.at = "done" => Len(g.answers) = Len(g.docs)
        /\ g.answers = Append(r.answers, <<"error">>) /\ <<"error">> \in Results
    BY <1>2 DEF NextDocument, Kept, Results, Words
  <1>4. Fits(g)
    BY <1>1, <1>3, PlaceOf DEF Fits
  <1> SUFFICES ASSUME Honest(r) PROVE Honest(g)'
    BY <1>2, <1>4 DEF Advanced
  <1>5. Truthful(g)'
    BY <1>1, <1>2, <1>3, DoneFailed, StillTruthful DEF Honest
  <1>6. StaysThere
    BY DEF StaysThere, Exists
  <1>7. Backed(g)'
    BY <1>1, <1>3, <1>6, StillBacked DEF Honest
  <1>8. LookedUp(g)'
    BY <1>3 DEF LookedUp
  <1> QED BY <1>5, <1>7, <1>8 DEF Honest

\* The item that a step of a request is at can be stored, and writing it takes
\* nothing away.
LEMMA AtItem ==
    ASSUME Requests, NEW c \in Clients, Active(request[c])
    PROVE  /\ Thing(Item(c)) \in DOMAIN store /\ Thing(Item(c))[1] = Item(c).kind
           /\ store' = [store EXCEPT ![Thing(Item(c))] = Item(c)] => StaysThere
           /\ UNCHANGED store => StaysThere
  <1>1. Thing(Item(c)) \in DOMAIN store /\ Item(c) # Absent
    BY ItemKnown DEF Requests, Numbers
  <1>2. Thing(Item(c))[1] = Item(c).kind
    BY DEF Thing
  <1>3. ASSUME store' = [store EXCEPT ![Thing(Item(c))] = Item(c)] PROVE StaysThere
    <2> SUFFICES ASSUME NEW t \in Things, Exists(t) PROVE Exists(t)'
      BY DEF StaysThere
    <2>1. CASE t = Thing(Item(c))
      BY <1>1, <1>3, <2>1 DEF Exists
    <2>2. CASE t # Thing(Item(c))
      BY <1>3, <2>2 DEF Exists, Requests, Numbers
    <2> QED BY <2>1, <2>2
  <1>4. UNCHANGED store => StaysThere
    BY DEF StaysThere, Exists
  <1> QED BY <1>1, <1>2, <1>3, <1>4

\* A step to an await that does not depend on what is stored.
LEMMA StepGoes ==
    ASSUME Requests, NEW c \in Clients, Active(request[c]), NEW step, Goto(c, step), Fits(request[c]),
           step \in {"create", "delete", "recreate", "destroy"},
           request[c].op \in (CASE step = "create" -> {"apply", "post"} [] step = "destroy" -> {"destroy"}
                                [] OTHER -> {"apply"}),
           UNCHANGED store \/ \E v : store' = [store EXCEPT ![Thing(Item(c))] = v],
           request[c].op = "apply" => StaysThere
    PROVE  Advanced(c)
  <1>1. PICK g : request' = [request EXCEPT ![c] = g] /\ GoesOn(request[c], g) /\ g.at = step
    BY WhenGoing
  <1>2. g.op = request[c].op
    BY <1>1 DEF GoesOn, Kept
  <1>3. Fits(g) /\ LookedUp(g)'
    BY <1>1, <1>2 DEF Fits, LookedUp
  <1> QED BY <1>1, <1>3, StepOn

LEMMA BucketAdvances ==
    ASSUME Requests, NEW c \in Clients, Fits(request[c]), ApplyBucket(c) PROVE Advanced(c)
  <1>1. /\ Active(request[c]) /\ request[c].op = "apply" /\ Item(c).kind = "Bucket"
        /\ store' = [store EXCEPT ![Thing(Item(c))] = Item(c)]
        /\ Answer(c, "unchanged") \/ Goto(c, "emit")
    BY DEF ApplyBucket, At, Active
  <1>2. StaysThere /\ store'[Thing(Item(c))] = Item(c)
    BY <1>1, AtItem
  <1>3. CASE Answer(c, "unchanged")
    <2>1. "unchanged" \in Words
      BY DEF Words
    <2> QED BY <1>1, <1>2, <1>3, <2>1, StepAnswered
  <1>4. CASE Goto(c, "emit")
    <2>1. PICK g : request' = [request EXCEPT ![c] = g] /\ GoesOn(request[c], g) /\ g.at = "emit"
      BY <1>4, WhenGoing
    <2>2. g.op = request[c].op /\ ItemOf(g) = Item(c)
      BY <2>1, ReadItem DEF GoesOn, Kept, ItemOf, DocOf
    <2>3. Fits(g)
      BY <1>1, <2>1, <2>2 DEF Fits
    <2>4. LookedUp(g)'
      BY <1>1, <1>2, <2>1, <2>2 DEF LookedUp
    <2> QED BY <1>1, <1>2, <2>1, <2>3, <2>4, StepOn
  <1> QED BY <1>1, <1>3, <1>4

\* What a service refers to, by kind.
LEMMA BoundFinite ==
    ASSUME NEW doc, doc.kind = "Service", IsFiniteSet(doc.databases), IsFiniteSet(doc.callers), NEW T \in SUBSET Bound(doc)
    PROVE  /\ SetToSeq({t \in T : t[1] = "Database"}) \in Seq(Bound(doc))
           /\ Range(SetToSeq({t \in T : t[1] = "Database"})) = {t \in T : t[1] = "Database"}
           /\ SetToSeq({t \in T : t[1] = "Service"}) \in Seq(Bound(doc))
           /\ Range(SetToSeq({t \in T : t[1] = "Service"})) = {t \in T : t[1] = "Service"}
  <1> DEFINE D == {t \in T : t[1] = "Database"}
             S == {t \in T : t[1] = "Service"}
             Ds == {<<"Database", d>> : d \in doc.databases}
             Ss == {<<"Service", s>> : s \in doc.callers}
  <1>1. Bound(doc) = {<<"Bucket", b>> : b \in doc.buckets} \cup Ds \cup Ss
    BY DEF Bound
  <1>2. D \subseteq Ds /\ S \subseteq Ss
    BY <1>1
  <1>3. IsFiniteSet(Ds)
    <2> DEFINE f == [d \in doc.databases |-> <<"Database", d>>]
    <2>1. f \in Surjection(doc.databases, Ds)
      BY DEF Surjection
    <2> HIDE DEF f, Ds
    <2> QED BY <2>1, FS_Surjection
  <1>4. IsFiniteSet(Ss)
    <2> DEFINE f == [s \in doc.callers |-> <<"Service", s>>]
    <2>1. f \in Surjection(doc.callers, Ss)
      BY DEF Surjection
    <2> HIDE DEF f, Ss
    <2> QED BY <2>1, FS_Surjection
  <1>5. IsFiniteSet(D) /\ IsFiniteSet(S)
    <2> HIDE DEF D, S, Ds, Ss
    <2> QED BY <1>2, <1>3, <1>4, FS_Subset
  <1>6. D \subseteq Bound(doc) /\ S \subseteq Bound(doc)
    OBVIOUS
  <1>7. /\ SetToSeq(D) \in Seq(D) /\ Range(SetToSeq(D)) = D
        /\ SetToSeq(S) \in Seq(S) /\ Range(SetToSeq(S)) = S
    <2> HIDE DEF D, S
    <2> QED BY <1>5, ListOfSet
  <1>8. SetToSeq(D) \in Seq(Bound(doc)) /\ SetToSeq(S) \in Seq(Bound(doc))
    <2> HIDE DEF D, S
    <2> QED BY <1>6, <1>7
  <1> QED BY <1>7, <1>8

\* The elements of sequences put together, and of one without its head.
LEMMA RangeOfParts ==
    ASSUME NEW S
    PROVE  /\ \A s, t \in Seq(S) : s \o t \in Seq(S) /\ Range(s \o t) = Range(s) \cup Range(t)
           /\ \A s \in Seq(S) : s # <<>> => Tail(s) \in Seq(S) /\ Range(s) \subseteq Range(Tail(s)) \cup {Head(s)}
  <1>1. ASSUME NEW s \in Seq(S), NEW t \in Seq(S)
        PROVE  s \o t \in Seq(S) /\ Range(s \o t) = Range(s) \cup Range(t)
    <2>1. /\ s \o t \in Seq(S) /\ Len(s \o t) = Len(s) + Len(t) /\ Len(s) \in Nat /\ Len(t) \in Nat
          /\ \A i \in 1..Len(s) + Len(t) : (s \o t)[i] = IF i <= Len(s) THEN s[i] ELSE t[i - Len(s)]
      BY ConcatProperties, LenProperties
    <2>2. /\ DOMAIN (s \o t) = 1..Len(s) + Len(t) /\ DOMAIN s = 1..Len(s) /\ DOMAIN t = 1..Len(t)
      BY <2>1, LenProperties
    <2>3. Range(s \o t) \subseteq Range(s) \cup Range(t)
      <3> SUFFICES ASSUME NEW i \in 1..Len(s) + Len(t) PROVE (s \o t)[i] \in Range(s) \cup Range(t)
        BY <2>2 DEF Range
      <3>1. CASE i <= Len(s)
        BY <2>1, <2>2, <3>1 DEF Range
      <3>2. CASE i > Len(s)
        <4>1. i - Len(s) \in 1..Len(t) /\ (s \o t)[i] = t[i - Len(s)]
          BY <2>1, <3>2
        <4> QED BY <2>2, <4>1 DEF Range
      <3> QED BY <2>1, <3>1, <3>2
    <2>4. Range(s) \subseteq Range(s \o t)
      <3> SUFFICES ASSUME NEW i \in 1..Len(s) PROVE s[i] \in Range(s \o t)
        BY <2>2 DEF Range
      <3>1. i \in 1..Len(s) + Len(t) /\ (s \o t)[i] = s[i]
        BY <2>1
      <3> QED BY <2>2, <3>1 DEF Range
    <2>5. Range(t) \subseteq Range(s \o t)
      <3> SUFFICES ASSUME NEW i \in 1..Len(t) PROVE t[i] \in Range(s \o t)
        BY <2>2 DEF Range
      <3>1. PICK j : j = Len(s) + i
        OBVIOUS
      <3>2. j \in 1..Len(s) + Len(t) /\ (s \o t)[j] = t[i]
        BY <2>1, <3>1
      <3> QED BY <2>2, <3>2 DEF Range
    <2> QED BY <2>1, <2>3, <2>4, <2>5
  <1>2. ASSUME NEW s \in Seq(S), s # <<>>
        PROVE  Tail(s) \in Seq(S) /\ Range(s) \subseteq Range(Tail(s)) \cup {Head(s)}
    <2>1. /\ Tail(s) \in Seq(S) /\ Len(Tail(s)) = Len(s) - 1 /\ Head(s) = s[1] /\ Len(s) \in Nat \ {0}
          /\ \A i \in 1..Len(Tail(s)) : Tail(s)[i] = s[i + 1]
      BY <1>2, HeadTailProperties, EmptySeq, LenProperties
    <2>2. DOMAIN s = 1..Len(s) /\ DOMAIN Tail(s) = 1..Len(s) - 1
      BY <2>1, LenProperties
    <2> SUFFICES ASSUME NEW i \in 1..Len(s) PROVE s[i] \in Range(Tail(s)) \cup {Head(s)}
      BY <2>1, <2>2 DEF Range
    <2>3. CASE i = 1
      BY <2>1, <2>3
    <2>4. CASE i # 1
      <3>1. PICK j : j = i - 1
        OBVIOUS
      <3>2. j \in 1..Len(s) - 1 /\ Tail(s)[j] = s[i]
        BY <2>1, <2>4, <3>1
      <3> QED BY <2>2, <3>2 DEF Range
    <2> QED BY <2>3, <2>4
  <1> QED BY <1>1, <1>2

\* Checking what a service refers to: the buckets at once, the others in turn.
LEMMA ValidateAdvances ==
    ASSUME Requests, NEW c \in Clients, Fits(request[c]), ValidateService(c) PROVE Advanced(c)
  <1> PICK r : r = request[c]
    OBVIOUS
  <1>1. /\ Numbers /\ Good(r) /\ Active(r) /\ Item(c) = ItemOf(r) /\ DOMAIN r = Fields
        /\ r.op = "apply" /\ ItemOf(r).kind = "Service" /\ UNCHANGED store
    BY ReadItem DEF ValidateService, At, Active, Requests, Good
  <1>2. CASE Fail(c)
    BY <1>1, <1>2, StepFailed
  <1>3. CASE ~Fail(c)
    <2> DEFINE databases == {t \in Unresolved(c) : t[1] = "Database"}
               callers == {t \in Unresolved(c) : t[1] = "Service"}
    <2>1. /\ \A t \in Unresolved(c) : t[1] = "Bucket" => Exists(t)
          /\ request' = [request EXCEPT ![c].at = "validate", ![c].todo = SetToSeq(databases) \o SetToSeq(callers)]
      BY <1>3 DEF ValidateService
    <2>2. PICK todo : todo = SetToSeq(databases) \o SetToSeq(callers)
      OBVIOUS
    <2>3. PICK m : m = Len(r.answers) + 1
      OBVIOUS
    <2>4. m \in 1..Len(r.docs) /\ DocOf(r) = r.docs[m] /\ r.docs \in scenario.manifests /\ scenario \in Scenarios
      BY <1>1, <2>3, PlaceOf DEF DocOf
    <2>5. ItemOf(r) = DocOf(r) /\ IsFiniteSet(ItemOf(r).databases) /\ IsFiniteSet(ItemOf(r).callers)
      <3>1. DocOf(r).kind # "Secrets"
        <4>1. Len(r.partial) + 1 \in 1..Len(Items(DocOf(r)))
          BY <1>1, PlaceOf
        <4> QED BY <1>1, <2>4, <4>1, Sequences DEF ItemOf
      <3>2. Items(DocOf(r)) = <<DocOf(r)>>
        BY <2>4, <3>1, Sequences
      <3>3. ItemOf(r) = DocOf(r)
        <4>1. Len(r.partial) \in Nat /\ Len(r.partial) + 1 \in 1..Len(Items(DocOf(r)))
          BY <1>1, PlaceOf
        <4> QED BY <3>2, <4>1 DEF ItemOf
      <3> QED BY <1>1, <2>4, <3>3, Sequences
    <2>6. Unresolved(c) \in SUBSET Bound(ItemOf(r))
      BY <1>1 DEF Unresolved
    <2>7. /\ SetToSeq(databases) \in Seq(Bound(ItemOf(r))) /\ Range(SetToSeq(databases)) = databases
          /\ SetToSeq(callers) \in Seq(Bound(ItemOf(r))) /\ Range(SetToSeq(callers)) = callers
      BY <1>1, <2>5, <2>6, BoundFinite
    <2>8. todo \in Seq(Bound(ItemOf(r))) /\ Range(todo) = databases \cup callers
      <3> HIDE DEF databases, callers
      <3> QED BY <2>2, <2>7, RangeOfParts
    <2>9. Missing(r) \subseteq Unresolved(c)
      <3> SUFFICES ASSUME NEW t \in Missing(r) PROVE t \in Unresolved(c)
        OBVIOUS
      <3>1. t \in Bound(Item(c)) /\ \A j \in 1..Len(r.docs) : ~Declares(r, j, t)
        BY <1>1 DEF Missing
      <3>2. \A d \in Range(r.docs) : d.kind # "Secrets" => Thing(d) # t
        <4>1. DOMAIN r.docs = 1..Len(r.docs)
          BY <2>4, Sequences
        <4> QED BY <3>1, <4>1 DEF Range, Declares
      <3> QED BY <3>1, <3>2 DEF Unresolved
    <2>10. \A t \in Missing(r) : Exists(t) \/ t \in Range(todo)
      BY <2>1, <2>6, <2>8, <2>9, BoundKinds
    <2>11. PICK g : g = [r EXCEPT !.at = "validate", !.todo = todo]
      OBVIOUS
    <2>12. request' = [request EXCEPT ![c] = g]
      BY <2>1, <2>2, <2>11 DEF Requests, Numbers
    <2>13. GoesOn(r, g) /\ g.at = "validate" /\ g.todo = todo
      BY <1>1, <2>11 DEF GoesOn, Kept, Fields
    <2>14. ItemOf(g) = ItemOf(r) /\ Missing(g) = Missing(r) /\ g.op = "apply"
      BY <1>1, <2>13 DEF GoesOn, Kept, ItemOf, DocOf, Missing, Declares
    <2>15. Fits(g)
      BY <2>13, <2>14 DEF Fits
    <2>16. LookedUp(g)'
      <3>1. \A t \in Missing(g) : Exists(t)' \/ t \in Range(todo)
        BY <1>1, <2>10, <2>14 DEF Exists
      <3>2. g.todo \in Seq(Bound(ItemOf(g))) /\ ItemOf(g).kind = "Service"
        BY <1>1, <2>8, <2>13, <2>14
      <3> QED BY <2>13, <3>1, <3>2 DEF LookedUp
    <2> QED BY <1>1, <2>12, <2>13, <2>15, <2>16, StepOn, AtItem
  <1> QED BY <1>2, <1>3

LEMMA BindingAdvances ==
    ASSUME Requests, NEW c \in Clients, Fits(request[c]), CheckBinding(c) PROVE Advanced(c)
  <1> PICK r : r = request[c]
    OBVIOUS
  <1>1. /\ Numbers /\ Good(r) /\ Active(r) /\ Item(c) = ItemOf(r) /\ DOMAIN r = Fields
        /\ r.op = "apply" /\ r.at = "validate" /\ r.todo # <<>> /\ UNCHANGED store
    BY ReadItem DEF CheckBinding, At, Active, Requests, Good
  <1>2. CASE Fail(c)
    BY <1>1, <1>2, StepFailed
  <1>3. CASE Exists(Head(r.todo)) /\ request' = [request EXCEPT ![c].todo = Tail(@)]
    <2>1. PICK g : g = [r EXCEPT !.todo = Tail(r.todo)]
      OBVIOUS
    <2>2. request' = [request EXCEPT ![c] = g]
      BY <1>3, <2>1 DEF Requests, Numbers
    <2>3. GoesOn(r, g) /\ g.at = "validate" /\ g.todo = Tail(r.todo)
      BY <1>1, <2>1 DEF GoesOn, Kept, Fields
    <2>4. ItemOf(g) = ItemOf(r) /\ Missing(g) = Missing(r) /\ g.op = "apply"
      BY <1>1, <2>3 DEF GoesOn, Kept, ItemOf, DocOf, Missing, Declares
    <2>5. Fits(g)
      BY <2>3, <2>4 DEF Fits
    <2>6. ASSUME Honest(r) PROVE LookedUp(g)'
      <3>1. /\ ItemOf(r).kind = "Service" /\ r.todo \in Seq(Bound(ItemOf(r)))
            /\ \A t \in Missing(r) : Exists(t) \/ t \in Range(r.todo)
        BY <1>1, <2>6 DEF Honest, LookedUp
      <3>2. g.todo \in Seq(Bound(ItemOf(r))) /\ Range(r.todo) \subseteq Range(g.todo) \cup {Head(r.todo)}
        BY <1>1, <2>3, <3>1, RangeOfParts
      <3>3. \A t \in Missing(g) : Exists(t)' \/ t \in Range(g.todo)
        BY <1>1, <1>3, <2>4, <3>1, <3>2 DEF Exists
      <3> QED BY <2>3, <2>4, <3>1, <3>2, <3>3 DEF LookedUp
    <2> QED BY <1>1, <2>2, <2>3, <2>5, <2>6, StepOn, AtItem
  <1> QED BY <1>2, <1>3 DEF CheckBinding

LEMMA RowAdvances ==
    ASSUME Requests, NEW c \in Clients, Fits(request[c]), ReadRow(c) \/ WriteRow(c) PROVE Advanced(c)
  <1> PICK r : r = request[c]
    OBVIOUS
  <1>1. /\ Numbers /\ Good(r) /\ Active(r) /\ Item(c) = ItemOf(r) /\ r.op = "apply"
    BY ReadItem DEF ReadRow, WriteRow, At, Active, Requests, Fits
  <1>2. CASE ReadRow(c)
    <2>1. UNCHANGED store /\ (Goto(c, "update") \/ Goto(c, "create row"))
      BY <1>2 DEF ReadRow
    <2>2. PICK g : request' = [request EXCEPT ![c] = g] /\ GoesOn(r, g) /\ g.at \in {"update", "create row"}
      <3>1. CASE Goto(c, "update")
        <4>1. \E g : request' = [request EXCEPT ![c] = g] /\ GoesOn(request[c], g) /\ g.at = "update"
          BY <3>1, WhenGoing
        <4> QED BY <4>1
      <3>2. CASE Goto(c, "create row")
        <4>1. \E g : request' = [request EXCEPT ![c] = g] /\ GoesOn(request[c], g) /\ g.at = "create row"
          BY <3>2, WhenGoing
        <4> QED BY <4>1
      <3> QED BY <2>1, <3>1, <3>2
    <2>3. ItemOf(g) = ItemOf(r) /\ Missing(g) = Missing(r) /\ g.op = "apply"
      BY <1>1, <2>2 DEF GoesOn, Kept, ItemOf, DocOf, Missing, Declares
    <2>4. Fits(g)
      BY <2>2, <2>3 DEF Fits
    <2>5. ASSUME Honest(r) PROVE LookedUp(g)'
      <3>1. CASE r.at = "next" /\ ItemOf(r).kind = "Database"
        BY <2>2, <2>3, <3>1 DEF LookedUp
      <3>2. CASE r.at = "validate" /\ r.todo = <<>>
        <4>1. \A t \in Missing(r) : Exists(t) \/ t \in Range(r.todo)
          BY <2>5, <3>2 DEF Honest, LookedUp
        <4>2. Range(r.todo) = {}
          <5>1. Range(<<>>) = {}
            BY DEF Range
          <5> QED BY <3>2, <5>1
        <4>3. \A t \in Missing(g) : Exists(t)'
          BY <2>1, <2>3, <4>1, <4>2 DEF Exists
        <4> QED BY <2>2, <4>3 DEF LookedUp
      <3> QED BY <1>1, <1>2, <3>1, <3>2 DEF ReadRow, At
    <2> QED BY <1>1, <2>1, <2>2, <2>4, <2>5, StepOn, AtItem
  <1>3. CASE WriteRow(c)
    <2>1. /\ r.at \in {"update", "create row"} /\ store' = [store EXCEPT ![Thing(Item(c))] = Item(c)]
          /\ \E result \in Words : Answer(c, result)
      BY <1>3 DEF WriteRow, Words
    <2>2. store'[Thing(Item(c))] = Item(c)
      BY <1>1, <2>1, AtItem
    <2>3. Honest(r) /\ Item(c).kind = "Service" => \A t \in Missing(r) : Exists(t)
      BY <1>1, <2>1 DEF Honest, LookedUp
    <2> QED BY <1>1, <2>1, <2>2, <2>3, StepAnswered
  <1> QED BY <1>2, <1>3

LEMMA SecretAdvances ==
    ASSUME Requests, NEW c \in Clients, Fits(request[c]),
           LookupSecret(c) \/ DropSecret(c) \/ CreateSecret(c) \/ Emit(c)
    PROVE  Advanced(c)
  <1> PICK r : r = request[c]
    OBVIOUS
  <1>1. /\ Active(r) /\ Fits(r) /\ r.op \in {"apply", "post"} /\ Item(c) = ItemOf(r)
        /\ {"conflict", "created", "updated"} \subseteq Words
    BY ReadItem DEF LookupSecret, DropSecret, CreateSecret, Emit, At, Active, Fits, Words
  <1>2. CASE LookupSecret(c)
    <2>1. UNCHANGED store /\ Item(c).kind = "Secret" /\ (r.op = "apply" => StaysThere)
      BY <1>1, <1>2, AtItem DEF LookupSecret
    <2>2. CASE Goto(c, "create")
      BY <1>1, <2>1, <2>2, StepGoes
    <2>3. CASE Goto(c, "delete") /\ r.op # "post"
      BY <1>1, <2>1, <2>3, StepGoes
    <2>4. CASE Answer(c, "conflict") /\ r.op = "post"
      BY <1>1, <2>1, <2>4, StepAnswered
    <2> QED BY <1>2, <2>2, <2>3, <2>4 DEF LookupSecret
  <1>3. CASE DropSecret(c)
    <2>1. /\ store' = [store EXCEPT ![Thing(Item(c))] = Absent] /\ Goto(c, "recreate") /\ r.at = "delete"
          /\ r.op = "apply"
      BY <1>3 DEF DropSecret, At
    <2>2. Thing(Item(c))[1] = "Secret"
      BY <1>1, <2>1, AtItem, ItemKnown DEF OfSecret
    <2>3. StaysThere
      BY <2>1, <2>2 DEF StaysThere, Exists
    <2> QED BY <1>1, <2>1, <2>3, StepGoes
  <1>4. CASE CreateSecret(c)
    <2>1. /\ store' = [store EXCEPT ![Thing(Item(c))] = Item(c)] /\ r.at \in {"create", "recreate"}
          /\ \/ r.at = "recreate" /\ Answer(c, "updated")
             \/ r.op = "post" /\ Answer(c, "created")
             \/ r.at = "create" /\ r.op # "post" /\ Goto(c, "emit")
      BY <1>4 DEF CreateSecret
    <2>2. StaysThere /\ store'[Thing(Item(c))] = Item(c) /\ Item(c).kind = "Secret"
      BY <1>1, <2>1, AtItem, ItemKnown DEF OfSecret
    <2>3. CASE r.at = "recreate" /\ Answer(c, "updated")
      <3>1. r.op = "apply"
        BY <1>1, <2>3 DEF Fits
      <3> QED BY <1>1, <2>1, <2>2, <2>3, <3>1, StepAnswered
    <2>4. CASE r.op = "post" /\ Answer(c, "created")
      BY <1>1, <2>1, <2>2, <2>4, StepAnswered
    <2>5. CASE r.op # "post" /\ Goto(c, "emit")
      <3>1. PICK g : request' = [request EXCEPT ![c] = g] /\ GoesOn(r, g) /\ g.at = "emit"
        BY <2>5, WhenGoing
      <3>2. g.op = r.op /\ ItemOf(g) = Item(c)
        BY <1>1, <3>1 DEF GoesOn, Kept, ItemOf, DocOf
      <3>3. Fits(g)
        BY <1>1, <3>1, <3>2 DEF Fits
      <3>4. LookedUp(g)'
        BY <2>2, <3>1, <3>2 DEF LookedUp
      <3> QED BY <1>1, <2>1, <2>2, <3>1, <3>3, <3>4, StepOn
    <2> QED BY <2>1, <2>3, <2>4, <2>5
  <1>5. CASE Emit(c)
    <2>1. UNCHANGED store /\ r.at = "emit" /\ Answer(c, "created")
      BY <1>5 DEF Emit
    <2>2. Honest(r) => ItemOf(r).kind # "Service" /\ store'[Thing(ItemOf(r))] = ItemOf(r)
      BY <2>1 DEF Honest, LookedUp
    <2>3. r.op # "destroy"
      BY <1>1
    <2> QED BY <1>1, <2>1, <2>2, <2>3, StepAnswered
  <1> QED BY <1>2, <1>3, <1>4, <1>5

LEMMA DestroyAdvances ==
    ASSUME Requests, NEW c \in Clients, Fits(request[c]), LookupToDestroy(c) \/ Destroy(c)
    PROVE  Advanced(c)
  <1> PICK r : r = request[c]
    OBVIOUS
  <1>1. Active(r) /\ Fits(r) /\ r.op = "destroy" /\ {"not found", "deleted"} \subseteq Words
    BY DEF LookupToDestroy, Destroy, At, Active, Words
  <1>2. CASE Answer(c, "not found") /\ UNCHANGED store /\ ~Exists(Thing(Item(c)))
    <2>1. store'[Thing(Item(c))] = Absent
      BY <1>2 DEF Exists
    <2> QED BY <1>1, <1>2, <2>1, StepAnswered
  <1>3. CASE Unstore(c)
    <2>1. store' = [store EXCEPT ![Thing(Item(c))] = Absent] /\ Answer(c, "deleted")
      BY <1>3 DEF Unstore
    <2>2. store'[Thing(Item(c))] = Absent
      BY <1>1, <2>1, AtItem
    <2> QED BY <1>1, <2>1, <2>2, StepAnswered
  <1>4. CASE Goto(c, "destroy") /\ UNCHANGED store
    BY <1>1, <1>4, StepGoes
  <1> QED BY <1>2, <1>3, <1>4 DEF LookupToDestroy, Destroy

LEMMA DiffAdvances ==
    ASSUME Requests, NEW c \in Clients, Fits(request[c]), Diff(c) PROVE Advanced(c)
  <1> PICK r : r = request[c]
    OBVIOUS
  <1>1. r.op = "diff" /\ DOMAIN r = Fields /\ Fits(r)
    BY DEF Diff, At, Requests, Good
  <1>2. PICK g : request' = [request EXCEPT ![c] = g] /\ g.op = "diff" /\ g.at \in {"failed", "done"}
    <2>1. CASE Goto(c, "failed")
      <3>1. PICK g : request' = [request EXCEPT ![c] = g] /\ GoesOn(r, g) /\ g.at = "failed"
        BY <2>1, WhenGoing
      <3> QED BY <1>1, <3>1 DEF GoesOn, Kept
    <2>2. CASE request' = [request EXCEPT ![c].at = "done",
                             ![c].answers = [i \in DOMAIN request[c].docs |-> <<"create">>]]
      <3>1. PICK g : g = [r EXCEPT !.at = "done", !.answers = [i \in DOMAIN r.docs |-> <<"create">>]]
        OBVIOUS
      <3>2. request' = [request EXCEPT ![c] = g]
        BY <2>2, <3>1 DEF Requests, Numbers
      <3>3. g.op = "diff" /\ g.at = "done"
        BY <1>1, <3>1 DEF Fields
      <3> QED BY <3>2, <3>3
    <2> QED BY <2>1, <2>2 DEF Diff
  <1>3. Fits(g) /\ Truthful(g)' /\ Backed(g)' /\ LookedUp(g)'
    BY <1>2 DEF Fits, Truthful, Backed, LookedUp
  <1> QED BY <1>2, <1>3 DEF Advanced, Honest

\* Every step of a request under way leaves it as honest as it was.
LEMMA HandleAdvances ==
    ASSUME Requests, NEW c \in Clients, Fits(request[c]), Handle(c) \/ Refused(c)
    PROVE  Advanced(c)
  <1>1. CASE Handle(c)
    BY <1>1, BucketAdvances, ValidateAdvances, BindingAdvances, RowAdvances, SecretAdvances, DestroyAdvances,
       DiffAdvances DEF Handle
  <1>2. CASE Refused(c)
    <2>1. Active(request[c]) /\ Fail(c) /\ UNCHANGED store
      BY <1>2 DEF Refused, Active
    <2> QED BY <2>1, StepFailed
  <1> QED BY <1>1, <1>2

\* The step of one request, and the rest, of which there is none under way.
LEMMA OneHonest ==
    ASSUME Requests, HonestInv, NEW c \in scenario.clients, NEW g, request' = [request EXCEPT ![c] = g], Fits(g),
           Honest(request[c]) => Honest(g)', UNCHANGED scenario
    PROVE  HonestInv'
  <1>1. scenario.clients \subseteq Clients /\ scenario'.clients = scenario.clients
    BY ManifestsAssumption DEF Requests, Numbers, Scenario
  <1>2. request'[c] = g /\ \A d \in Clients \ {c} : request'[d] = request[d]
    BY <1>1 DEF Requests, Numbers
  <1>3. ASSUME NEW d \in Clients
        PROVE  (Fits(request[d]) /\ (d \notin scenario.clients => request[d].op = "none" /\ request[d].at = "idle"))'
    <2>1. CASE d = c
      BY <1>1, <1>2, <2>1 DEF Fits
    <2>2. CASE d # c
      BY <1>1, <1>2, <2>2 DEF HonestInv, Fits
    <2> QED BY <2>1, <2>2
  <1>4. ASSUME OneAtATime', NEW d \in Clients PROVE Honest(request[d])'
    <2>1. \A e \in scenario.clients : e = c
      BY <1>1, <1>4 DEF OneAtATime
    <2>2. CASE d = c
      <3>1. Honest(request[c])
        BY <1>1, <2>1 DEF HonestInv, OneAtATime
      <3>2. Honest(g)'
        BY <3>1
      <3>3. PICK h : h = request'[d]
        OBVIOUS
      <3>4. Honest(h)'
        BY <1>2, <2>2, <3>2, <3>3
      <3> QED BY <3>3, <3>4
    <2>3. CASE d # c
      <3>1. request'[d].op = "none" /\ request'[d].at = "idle"
        BY <1>1, <1>2, <2>1, <2>3 DEF HonestInv
      <3> QED BY <3>1 DEF Honest, Truthful, Backed, LookedUp
    <2> QED BY <2>2, <2>3
  <1> QED BY <1>3, <1>4 DEF HonestInv

\* A request that is asked for has done nothing.
LEMMA SubmitHonest ==
    ASSUME Requests, HonestInv, NEW c \in scenario.clients, NEW op \in scenario.ops, NEW docs \in scenario.manifests,
           Submit(c, op, docs), UNCHANGED scenario
    PROVE  HonestInv'
  <1>1. PICK g : g = [Idle EXCEPT !.op = op, !.docs = docs, !.at = "next"]
    OBVIOUS
  <1>2. request' = [request EXCEPT ![c] = g]
    BY <1>1 DEF Submit
  <1>3. g.docs = docs /\ g.answers = <<>> /\ g.partial = <<>> /\ g.at = "next"
    BY <1>1, IdleFields DEF Fields
  <1>4. Len(g.answers) = 0 /\ Len(g.partial) = 0
    BY <1>3, EmptySeq
  <1>5. Len(docs) \in Nat /\ \A i \in 1..Len(docs) : Len(Items(docs[i])) \in Nat
    BY Sequences DEF Requests, Numbers
  <1>6. \A i, n : ~Done(g, i, n)
    BY <1>3, <1>4, <1>5 DEF Done
  <1>7. Truthful(g)'
    BY <1>6 DEF Truthful
  <1>8. Backed(g)' /\ LookedUp(g)'
    BY <1>3, <1>4 DEF Backed, LookedUp
  <1>9. Fits(g)
    BY <1>3 DEF Fits
  <1> QED BY <1>2, <1>7, <1>8, <1>9, OneHonest DEF Honest

\* A handler that runs is that of a client of the scenario.
LEMMA HandlerHonest ==
    ASSUME Requests, HonestInv, NEW c \in Clients, Handle(c) \/ Refused(c), UNCHANGED scenario
    PROVE  HonestInv'
  <1>1. request[c].at # "idle"
    BY DEF Handle, Refused, ApplyBucket, ValidateService, CheckBinding, ReadRow, WriteRow, LookupSecret, DropSecret,
           CreateSecret, Emit, LookupToDestroy, Destroy, Diff, At
  <1>2. c \in scenario.clients /\ Fits(request[c])
    BY <1>1 DEF HonestInv
  <1>3. Advanced(c)
    BY <1>2, HandleAdvances
  <1> QED BY <1>2, <1>3, OneHonest DEF Advanced

LEMMA HonestInit == Init => HonestInv
  <1> SUFFICES ASSUME Init PROVE HonestInv
    OBVIOUS
  <1>1. \A c \in Clients : request[c].op = "none" /\ request[c].at = "idle"
    BY DEF Init, Idle
  <1>2. \A c \in Clients : Fits(request[c]) /\ Honest(request[c])
    BY <1>1 DEF Fits, Honest, Truthful, Backed, LookedUp
  <1> QED BY <1>1, <1>2 DEF HonestInv

LEMMA HonestNext == ManifestInv /\ HonestInv /\ [Next]_vars => HonestInv'
  <1> SUFFICES ASSUME ManifestInv, HonestInv, [Next]_vars PROVE HonestInv'
    OBVIOUS
  <1>1. Requests
    BY DEF ManifestInv
  <1>2. ASSUME UNCHANGED <<store, request, scenario>> PROVE HonestInv'
    <2>1. ASSUME NEW c \in Clients, Honest(request[c]) PROVE Honest(request[c])'
      <3> PICK r : r = request[c]
        OBVIOUS
      <3>1. Truthful(r)'
        BY <1>2, <2>1 DEF Honest, Truthful
      <3>2. Backed(r)'
        BY <1>2, <2>1 DEF Honest, Backed, Exists
      <3>3. LookedUp(r)'
        BY <1>2, <2>1 DEF Honest, LookedUp, Exists
      <3>4. Honest(r)'
        BY <3>1, <3>2, <3>3 DEF Honest
      <3>5. r = request'[c]
        BY <1>2
      <3> QED BY <3>4, <3>5
    <2>2. \A c \in Clients :
              (Fits(request[c]) /\ (c \notin scenario.clients => request[c].op = "none" /\ request[c].at = "idle"))'
      BY <1>2 DEF HonestInv, Fits
    <2>3. OneAtATime' => OneAtATime
      BY <1>2 DEF OneAtATime
    <2> QED BY <2>1, <2>2, <2>3 DEF HonestInv
  <1>3. CASE UNCHANGED vars
    BY <1>2, <1>3 DEF vars
  <1>4. CASE Next
    <2>1. Act /\ UNCHANGED scenario
      BY <1>4 DEF Next
    <2>2. ASSUME NEW c \in scenario.clients, NEW op \in scenario.ops, NEW docs \in scenario.manifests,
                 Submit(c, op, docs)
          PROVE  HonestInv'
      BY <1>1, <2>1, <2>2, SubmitHonest
    <2>3. ASSUME NEW c \in Clients, Handle(c) \/ Refused(c) PROVE HonestInv'
      BY <1>1, <2>1, <2>3, HandlerHonest
    <2>4. CASE Crash
      <3>1. \A c \in Clients : request'[c] = Idle
        BY <2>4 DEF Crash
      <3>2. \A c \in Clients : request'[c].op = "none" /\ request'[c].at = "idle"
        BY <3>1 DEF Idle
      <3>3. \A c \in Clients : Fits(request[c])' /\ Honest(request[c])'
        BY <3>2 DEF Fits, Honest, Truthful, Backed, LookedUp
      <3> QED BY <3>2, <3>3 DEF HonestInv
    <2>5. CASE (\E doc \in Documents : StartReplica(doc)) \/ InjectSecret
      <3>1. UNCHANGED <<store, request>>
        BY <2>5 DEF StartReplica, InjectSecret
      <3> QED BY <1>2, <2>1, <3>1
    <2> QED BY <2>1, <2>2, <2>3, <2>4, <2>5 DEF Act
  <1> QED BY <1>3, <1>4

\* What an honest request that has ended has told.
LEMMA HonestEnd == ManifestInv /\ HonestInv => AnswersTrue /\ BindingsBacked
  <1> SUFFICES ASSUME ManifestInv, HonestInv, OneAtATime, NEW c \in Clients, Ended(c),
                      request[c].op \in {"apply", "destroy"}, NEW i \in DOMAIN request[c].docs,
                      request[c].answers[i] # <<"error">>
               PROVE  /\ \A n \in DOMAIN Items(request[c].docs[i]) :
                             \/ Repeated(request[c].docs, i, n)
                             \/ store[Thing(Items(request[c].docs[i])[n])] =
                                    IF request[c].op = "apply" THEN Items(request[c].docs[i])[n] ELSE Absent
                      /\ request[c].op = "apply" =>
                             \A t \in Bound(request[c].docs[i]) :
                                 \/ Exists(t)
                                 \/ \E j \in DOMAIN request[c].docs : /\ request[c].docs[j].kind # "Secrets"
                                                                     /\ Thing(request[c].docs[j]) = t
                                                                     /\ request[c].answers[j] = <<"error">>
    BY DEF AnswersTrue, BindingsBacked
  <1> PICK r : r = request[c]
    OBVIOUS
  <1>1. Fits(r) /\ Truthful(r) /\ Backed(r)
    BY DEF HonestInv, Honest
  <1>2. r.docs \in scenario.manifests /\ Len(r.answers) = Len(r.docs) /\ scenario \in Scenarios
    BY <1>1 DEF Ended, Fits, ManifestInv, Requests, Numbers
  <1>3. /\ DOMAIN r.docs = 1..Len(r.docs) /\ i \in 1..Len(r.docs) /\ Len(r.docs) \in Nat
        /\ DOMAIN Items(r.docs[i]) = 1..Len(Items(r.docs[i]))
    BY <1>2, Sequences
  <1>4. \A n \in 1..Len(Items(r.docs[i])) :
            \/ Repeated(r.docs, i, n)
            \/ store[Thing(Items(r.docs[i])[n])] = IF r.op = "apply" THEN Items(r.docs[i])[n] ELSE Absent
    BY <1>1, <1>2, <1>3 DEF Truthful, Done
  <1>5. r.op = "apply" => \A t \in Bound(r.docs[i]) :
            Exists(t) \/ \E j \in 1..Len(r.docs) : Declares(r, j, t) /\ Pending(r, j)
    <2>1. i \in 1..Len(r.answers) /\ ~Pending(r, i)
      BY <1>2, <1>3 DEF Pending
    <2> QED BY <1>1, <2>1 DEF Backed
  <1>6. \A j \in 1..Len(r.docs) : \A t : Declares(r, j, t) /\ Pending(r, j) =>
            r.docs[j].kind # "Secrets" /\ Thing(r.docs[j]) = t /\ r.answers[j] = <<"error">>
    BY <1>2, <1>3 DEF Declares, Pending
  <1> QED BY <1>3, <1>4, <1>5, <1>6

\* With one request at a time an answer is the truth: what was applied is stored
\* as the last document that names it says, what was destroyed is gone, and what
\* an accepted service refers to exists, or its own document reports an error.
THEOREM AnswersAreHonest == PartSpec => []AnswersHonest
  <1>1. PartInit => ManifestInv /\ HonestInv
    BY ManifestInit, HonestInit DEF PartInit
  <1>2. ManifestInv /\ HonestInv /\ [PartNext]_<<vars, objects, part>> => ManifestInv' /\ HonestInv'
    <2>1. [PartNext]_<<vars, objects, part>> => [Next]_vars
      BY DEF PartNext
    <2> QED BY <2>1, ManifestNext, HonestNext
  <1>3. ManifestInv /\ HonestInv => AnswersHonest
    BY HonestEnd DEF AnswersHonest
  <1> QED BY <1>1, <1>2, <1>3, PTL DEF PartSpec

----------------------------------------------------------------------------
(* The objects *)

\* Facts about the constants.
LEMMA StorageConstants ==
    /\ Nobody \notin Clients /\ <<>> \notin Keys /\ <<>> \notin Buckets
    /\ Values \cap {"", "none", "?"} = {}
    /\ Lifetime \in Nat
    /\ \A w \in Storages : /\ w.buckets \subseteq Buckets /\ w.keys \subseteq Keys /\ w.values \subseteq Values
                           /\ w.kinds \subseteq {"user", "workload", "link"}
                           /\ w.ops \subseteq {"put", "delete", "get", "list", "create", "drop", "presign"}
  BY StorageAssumed DEF Objects!StorageAssumption, Objects!Scenario, Objects!Writes, Objects!Reads

\* A path that a name leads to, and the directories on its way.
NamedPath(path) ==
    /\ path.at \in Paths /\ path.at \in Objects!FileNames
    /\ path.through \subseteq Paths /\ path.through \subseteq Objects!DirectoryNames
    /\ Objects!Closed(path)

LEMMA PathsNamed ==
    /\ \A p \in Paths : Above[p] \subseteq Paths
    /\ \A b \in Buckets : /\ NamedPath(JsonPath[b]) /\ JsonPath[b].through \subseteq Made[b]
                          /\ BucketPath[b].at \in Paths
                          /\ Made[b] \subseteq Paths /\ Made[b] \subseteq Objects!DirectoryNames
                          /\ \A p \in Made[b] : Above[p] \subseteq Made[b]
    /\ \A x \in Objects!Object : /\ NamedPath(ObjectPath[x]) /\ NamedPath(MetaPath[x])
                                 /\ ObjectPath[x].at # MetaPath[x].at
  <1>1. Objects!PathsAssumption
    BY StorageAssumed DEF Objects!StorageAssumption
  <1>2. ASSUME NEW b \in Buckets
        PROVE  /\ NamedPath(JsonPath[b]) /\ JsonPath[b].through \subseteq Made[b]
               /\ BucketPath[b].at \in Paths
               /\ Made[b] \subseteq Paths /\ Made[b] \subseteq Objects!DirectoryNames
               /\ \A p \in Made[b] : Above[p] \subseteq Made[b]
    <2>1. /\ JsonPath[b] \in Objects!Path /\ BucketPath[b] \in Objects!Path /\ Made[b] \subseteq Paths
          /\ Objects!Closed(JsonPath[b]) /\ JsonPath[b].through \subseteq Made[b]
          /\ \A p \in Made[b] : Above[p] \subseteq Made[b]
      BY <1>1 DEF Objects!PathsAssumption
    <2>2. JsonPath[b].at \in Objects!FileNames
      BY DEF Objects!FileNames
    <2>3. Made[b] \subseteq Objects!DirectoryNames
      BY DEF Objects!DirectoryNames
    <2> QED BY <2>1, <2>2, <2>3 DEF NamedPath, Objects!Path
  <1>3. ASSUME NEW x \in Objects!Object
        PROVE  /\ NamedPath(ObjectPath[x]) /\ NamedPath(MetaPath[x])
               /\ ObjectPath[x].at # MetaPath[x].at
    <2>1. /\ ObjectPath[x] \in Objects!Path /\ MetaPath[x] \in Objects!Path
          /\ Objects!Closed(ObjectPath[x]) /\ Objects!Closed(MetaPath[x]) /\ ObjectPath[x].at # MetaPath[x].at
      BY <1>1 DEF Objects!PathsAssumption
    <2>2. ObjectPath[x].at \in Objects!FileNames /\ MetaPath[x].at \in Objects!FileNames
      BY DEF Objects!FileNames
    <2>3. ObjectPath[x].through \subseteq Objects!DirectoryNames /\ MetaPath[x].through \subseteq Objects!DirectoryNames
      BY DEF Objects!DirectoryNames
    <2> QED BY <2>1, <2>2, <2>3 DEF NamedPath, Objects!Path
  <1>4. \A p \in Paths : Above[p] \subseteq Paths
    BY <1>1 DEF Objects!PathsAssumption
  <1> QED BY <1>2, <1>3, <1>4

\* What is on the disk lies in directories, and has the name of what it is.
DiskInv ==
    /\ disk \in [Paths -> Objects!Contents]
    /\ \A p \in Paths, q \in Paths : disk[p].is # "none" /\ q \in Above[p] => disk[q].is = "dir"
    /\ \A p \in Paths : /\ disk[p].is \notin {"none", "dir"} => p \in Objects!FileNames
                        /\ disk[p].is = "dir" => p \in Objects!DirectoryNames

\* What is at a path stays, or a directory comes to where nothing is.
Grows(p) == disk'[p] = disk[p] \/ (disk[p].is \in {"none", "dir"} /\ disk'[p].is = "dir")

LEMMA MakingDirectories ==
    ASSUME DiskInv, NEW paths, paths \subseteq Paths, paths \subseteq Objects!DirectoryNames,
           \A p \in paths : disk[p].is \in {"none", "dir"},
           \A p \in paths, q \in Paths : q \in Above[p] => disk[q].is = "dir" \/ q \in paths,
           disk' = Objects!WithDirectories(paths)
    PROVE  /\ DiskInv' /\ \A p \in Paths : Grows(p)
           /\ \A p \in paths : disk'[p].is = "dir"
           /\ \A p \in Paths \ paths : disk'[p] = disk[p]
  <1>1. Objects!Directory \in Objects!Contents /\ Objects!Directory.is = "dir"
    BY DEF Objects!Directory, Objects!Entry, Objects!Contents
  <1>2. /\ disk' \in [Paths -> Objects!Contents]
        /\ \A p \in paths : disk'[p] = Objects!Directory
        /\ \A p \in Paths \ paths : disk'[p] = disk[p]
    BY <1>1 DEF Objects!WithDirectories, DiskInv
  <1>3. \A p \in Paths, q \in Paths : disk'[p].is # "none" /\ q \in Above[p] => disk'[q].is = "dir"
    BY <1>1, <1>2 DEF DiskInv
  <1>4. \A p \in Paths : /\ disk'[p].is \notin {"none", "dir"} => p \in Objects!FileNames
                         /\ disk'[p].is = "dir" => p \in Objects!DirectoryNames
    BY <1>1, <1>2 DEF DiskInv
  <1>5. \A p \in Paths : Grows(p)
    BY <1>1, <1>2 DEF Grows
  <1>6. DiskInv'
    BY <1>2, <1>3, <1>4 DEF DiskInv
  <1> QED BY <1>1, <1>2, <1>5, <1>6

LEMMA MakingSome ==
    ASSUME DiskInv, NEW paths, paths \subseteq Paths, paths \subseteq Objects!DirectoryNames, Objects!MakeSome(paths)
    PROVE  DiskInv' /\ \A p \in Paths : Grows(p)
  <1> PICK made \in SUBSET {p \in paths : disk[p].is = "none"} :
          /\ \A p \in made, q \in Paths : q \in Above[p] => disk[q].is = "dir" \/ q \in made
          /\ disk' = Objects!WithDirectories(made)
    BY DEF Objects!MakeSome, Objects!IsDirectory
  <1> QED BY MakingDirectories

\* Writing a file.
Contained(entry) == entry \in Objects!Contents /\ entry.is \notin {"none", "dir"}

LEMMA WritingFile ==
    ASSUME DiskInv, NEW path, NamedPath(path), ~Objects!Blocked(path), NEW entry, Contained(entry),
           Objects!Write(path, entry)
    PROVE  /\ DiskInv' /\ disk'[path.at] = entry
           /\ \A p \in Paths \ {path.at} : Grows(p)
  <1> DEFINE at == path.at
  <1>1. at \in Paths /\ path.through \subseteq Paths /\ at \notin path.through
    BY DEF NamedPath, Objects!Blocked
  <1>2. /\ \A p \in path.through : disk[p].is \in {"none", "dir"}
        /\ disk[at].is # "dir"
    BY <1>1 DEF Objects!Blocked, Objects!IsFile, Objects!IsDirectory
  <1>3. Objects!Directory \in Objects!Contents /\ Objects!Directory.is = "dir"
    BY DEF Objects!Directory, Objects!Entry, Objects!Contents
  <1>4. /\ disk' \in [Paths -> Objects!Contents] /\ disk'[at] = entry
        /\ \A p \in path.through : disk'[p] = Objects!Directory
        /\ \A p \in Paths : p # at /\ p \notin path.through => disk'[p] = disk[p]
    BY <1>1, <1>3 DEF Objects!Write, Objects!WithDirectories, DiskInv, Contained
  <1>5. \A p \in Paths \ {at} : Grows(p)
    BY <1>2, <1>3, <1>4 DEF Grows
  <1>6. ASSUME NEW p \in Paths, NEW q \in Paths, disk'[p].is # "none", q \in Above[p] PROVE disk'[q].is = "dir"
    <2>1. CASE p = at \/ p \in path.through
      BY <1>3, <1>4, <1>6, <2>1 DEF NamedPath, Objects!Closed
    <2>2. CASE p # at /\ p \notin path.through
      <3>1. disk[q].is = "dir"
        BY <1>4, <1>6, <2>2 DEF DiskInv
      <3> QED BY <1>2, <1>3, <1>4, <3>1
    <2> QED BY <2>1, <2>2
  <1>7. \A p \in Paths : /\ disk'[p].is \notin {"none", "dir"} => p \in Objects!FileNames
                         /\ disk'[p].is = "dir" => p \in Objects!DirectoryNames
    BY <1>3, <1>4 DEF DiskInv, NamedPath, Contained
  <1>8. DiskInv'
    BY <1>4, <1>6, <1>7 DEF DiskInv
  <1> QED BY <1>4, <1>5, <1>8

\* Removing what has nothing below it, as no file has.
LEMMA Removing ==
    ASSUME DiskInv, NEW path \in Paths, disk' = [disk EXCEPT ![path] = Objects!Nothing],
           \/ disk[path].is # "dir"
           \/ \A p \in Paths : path \in Above[p] => disk[p].is = "none" \/ p = path
    PROVE  /\ DiskInv' /\ disk'[path].is = "none" /\ \A p \in Paths \ {path} : disk'[p] = disk[p]
  <1>1. Objects!Nothing \in Objects!Contents /\ Objects!Nothing.is = "none"
    BY DEF Objects!Nothing, Objects!Entry, Objects!Contents
  <1>2. /\ disk' \in [Paths -> Objects!Contents] /\ disk'[path].is = "none"
        /\ \A p \in Paths \ {path} : disk'[p] = disk[p]
    BY <1>1 DEF DiskInv
  <1>3. \A p \in Paths, q \in Paths : disk'[p].is # "none" /\ q \in Above[p] => disk'[q].is = "dir"
    BY <1>2 DEF DiskInv
  <1>4. \A p \in Paths : /\ disk'[p].is \notin {"none", "dir"} => p \in Objects!FileNames
                         /\ disk'[p].is = "dir" => p \in Objects!DirectoryNames
    BY <1>2 DEF DiskInv
  <1> QED BY <1>2, <1>3, <1>4 DEF DiskInv

----------------------------------------------------------------------------

CallFields == {"kind", "op", "bucket", "key", "value", "service", "at", "answer", "time"}
IsCall(r) ==
    /\ DOMAIN r = CallFields
    /\ r.kind \in {"user", "workload", "link"}
    /\ r.op \in {"none", "put", "delete", "get", "list", "create", "drop", "presign"}
    /\ r.bucket \in Buckets \cup {<<>>} /\ r.key \in Keys \cup {<<>>} /\ r.value \in Values \cup {""}
    /\ r.service \in Services \cup {""} /\ r.time \in Nat
    /\ r.at \in {"done", "access", "body", "run", "meta", "json", "rmtree"}
    /\ r.answer \in {"", "ok", "not found", "error", "conflict", "forbidden"}

\* A call that is not done asks for a bucket, and for a key where it needs one.
Sensible(r) ==
    /\ r.at # "done" =>
        /\ r.answer = ""
        /\ r.op \in {"put", "delete", "get", "presign"} => r.key \in Keys
        /\ r.op = "put" => r.value \in Values
        /\ r.op # "none"
        /\ r.at = "access" => r.kind = "workload"
        /\ r.kind = "workload" => r.op \in {"put", "delete", "get", "list"} /\ r.service \in Services
    /\ r.at # "done" \/ r.answer # "" => r.bucket \in Buckets

StorageTyped ==
    /\ using \in Storages
    /\ DOMAIN call = Clients /\ \A c \in Clients : IsCall(call[c]) /\ Sensible(call[c])
    /\ DOMAIN bindings = Services /\ DOMAIN allowed = Clients
    /\ DOMAIN answered = Objects!Object
    /\ now \in Nat
    /\ busy = Nobody \/ (busy \in Clients /\ call[busy].at \in {"meta", "json", "rmtree"})

\* What was answered of an object stands, also in the middle of a handler: what
\* it touches is open until it ends.
Stands(x) ==
    answered[x] # "?" /\ Objects!Straight(x) =>
        /\ answered[x] = "none" => /\ disk[ObjectPath[x].at].is \in {"none", "dir"}
                                   /\ disk[MetaPath[x].at].is \in {"none", "dir"}
        /\ answered[x] # "none" => /\ disk[ObjectPath[x].at] = Objects!Entry("data", answered[x])
                                   /\ disk[MetaPath[x].at] = Objects!Entry("meta", answered[x])
                                   /\ disk[JsonPath[x[1]].at].is # "none"
Standing == \A x \in Objects!Object : Stands(x)

\* What the handler that is at its file operations has done so far.
AskedOf(r) == <<r.bucket, r.key>>
Underway ==
    busy # Nobody =>
        LET r == call[busy] IN
        /\ r.at = "meta" => r.op \in {"put", "delete"} /\ answered[AskedOf(r)] = "?"
        /\ r.at = "meta" /\ r.op = "put" =>
               /\ disk[ObjectPath[AskedOf(r)].at] = Objects!Entry("data", r.value)
               /\ disk[JsonPath[r.bucket].at].is # "none"
        /\ r.at = "meta" /\ r.op = "delete" => disk[ObjectPath[AskedOf(r)].at].is = "none"
        /\ r.at = "rmtree" => /\ r.op = "drop"
                              /\ \A x \in Objects!Object :
                                     Objects!Relies(x) \cap Objects!Inside(r.bucket) # {} => answered[x] = "?"
        /\ r.at = "json" => r.op = "create"

\* What a call may do was granted at an instant of it.
Entitled(r, c) ==
    /\ r.kind = "workload" /\ r.at = "access" => bindings[r.service] \subseteq allowed[c]
    /\ r.kind = "workload" /\ (r.at \in {"body", "run", "meta", "json", "rmtree"} \/ r.answer = "ok") =>
           <<r.bucket, Objects!Access(r.op)>> \in allowed[c]
    /\ r.kind = "link" /\ (r.at # "done" \/ r.answer = "ok") =>
           \E l \in links : l.bucket = r.bucket /\ l.key = r.key /\ r.time <= l.expires

ObjectInv == StorageTyped /\ DiskInv /\ Standing /\ Underway /\ \A c \in Clients : Entitled(call[c], c)

LEMMA StorageInit == Objects!Init => ObjectInv
  <1> SUFFICES ASSUME Objects!Init PROVE ObjectInv
    OBVIOUS
  <1> USE DEF Objects!Init, Objects!Idle
  <1>1. StorageTyped
    <2>1. DOMAIN call = Clients /\ \A c \in Clients : IsCall(call[c])
      BY DEF IsCall, CallFields
    <2>2. \A c \in Clients : Sensible(call[c])
      BY DEF Sensible
    <2> QED BY <2>1, <2>2 DEF StorageTyped
  <1>2. DiskInv /\ \A p \in Paths : disk[p].is = "none"
    BY DEF DiskInv, Objects!Nothing, Objects!Entry, Objects!Contents
  <1>3. Standing
    <2> SUFFICES ASSUME NEW x \in Objects!Object PROVE Stands(x)
      BY DEF Standing
    <2>1. disk[ObjectPath[x].at].is = "none" /\ disk[MetaPath[x].at].is = "none"
      BY <1>2, PathsNamed DEF NamedPath
    <2> QED BY <2>1 DEF Stands
  <1>4. Underway
    BY DEF Underway
  <1>5. \A c \in Clients : Entitled(call[c], c)
    BY DEF Entitled
  <1> QED BY <1>1, <1>2, <1>3, <1>4, <1>5 DEF ObjectInv

\* What was answered stands where the files it relies on do, but for directories
\* that are made where nothing is.
LEMMA StandsOn ==
    ASSUME NEW x \in Objects!Object, Stands(x), answered'[x] = answered[x],
           \A p \in Objects!Relies(x) : Grows(p)
    PROVE  Stands(x)'
  <1>1. Grows(ObjectPath[x].at) /\ Grows(MetaPath[x].at) /\ Grows(JsonPath[x[1]].at)
    BY DEF Objects!Relies, Objects!Files
  <1>2. \A v : Objects!Entry("data", v).is = "data" /\ Objects!Entry("meta", v).is = "meta"
    BY DEF Objects!Entry
  <1>3. Objects!Straight(x)' = Objects!Straight(x)
    BY DEF Objects!Straight
  <1> QED BY <1>1, <1>2, <1>3 DEF Stands, Grows, Objects!Entry

\* The files that an object relies on are paths.
LEMMA ReliesOnPaths == \A x \in Objects!Object : Objects!Relies(x) \subseteq Paths /\ x[1] \in Buckets
  BY PathsNamed DEF NamedPath, Objects!Relies, Objects!Files, Objects!Object

\* What is open, and what is known, after a change of a path.
LEMMA OpenedAnswers ==
    ASSUME StorageTyped, Standing, NEW paths, answered' = Objects!Opened(paths),
           \A p \in Paths \ paths : Grows(p)
    PROVE  /\ DOMAIN answered' = Objects!Object /\ Standing'
           /\ \A x \in Objects!Object : answered'[x] \in {"?", answered[x]}
           /\ \A x \in Objects!Object : Objects!Relies(x) \cap paths # {} => answered'[x] = "?"
  <1>1. /\ DOMAIN answered' = Objects!Object
        /\ \A x \in Objects!Object :
               answered'[x] = IF Objects!Relies(x) \cap paths # {} THEN "?" ELSE answered[x]
    BY DEF Objects!Opened
  <1>2. ASSUME NEW x \in Objects!Object PROVE Stands(x)'
    <2>1. CASE Objects!Relies(x) \cap paths # {}
      BY <1>1, <2>1 DEF Stands
    <2>2. CASE Objects!Relies(x) \cap paths = {}
      <3>1. \A p \in Objects!Relies(x) : Grows(p)
        BY <2>2, ReliesOnPaths
      <3>2. answered'[x] = answered[x]
        BY <1>1, <2>2
      <3> QED BY <3>1, <3>2, StandsOn DEF Standing
    <2> QED BY <2>1, <2>2
  <1> QED BY <1>1, <1>2 DEF Standing

\* A step that changes the call of one client, and what it may be.
LEMMA OneCall ==
    ASSUME StorageTyped, NEW c \in Clients, NEW g, IsCall(g), Sensible(g), call' = [call EXCEPT ![c] = g],
           UNCHANGED using, DOMAIN bindings' = Services, DOMAIN allowed' = Clients,
           DOMAIN answered' = Objects!Object, now' \in Nat,
           busy' = Nobody \/ (busy' = c /\ g.at \in {"meta", "json", "rmtree"}) \/ (busy' = busy /\ busy # c)
    PROVE  StorageTyped' /\ call'[c] = g
  <1>1. DOMAIN call' = Clients /\ call'[c] = g /\ \A d \in Clients \ {c} : call'[d] = call[d]
    BY DEF StorageTyped
  <1>2. \A d \in Clients : IsCall(call'[d]) /\ Sensible(call'[d])
    BY <1>1 DEF StorageTyped
  <1>3. busy' = Nobody \/ (busy' \in Clients /\ call'[busy'].at \in {"meta", "json", "rmtree"})
    BY <1>1 DEF StorageTyped
  <1>4. \A d \in Clients : (IsCall(call[d]) /\ Sensible(call[d]))'
    BY <1>2 DEF Sensible, IsCall
  <1> QED BY <1>1, <1>3, <1>4 DEF StorageTyped

\* What the others may do stays granted.
LEMMA OneEntitled ==
    ASSUME ObjectInv, NEW c \in Clients, NEW g, call' = [call EXCEPT ![c] = g], Entitled(g, c)',
           UNCHANGED <<bindings>>, \A d \in Clients \ {c} : allowed'[d] = allowed[d], links \subseteq links'
    PROVE  \A d \in Clients : Entitled(call[d], d)'
  <1>1. ASSUME NEW d \in Clients PROVE Entitled(call[d], d)'
    <2>1. CASE d = c
      BY <2>1 DEF ObjectInv, StorageTyped, Entitled
    <2>2. CASE d # c
      BY <2>2 DEF ObjectInv, StorageTyped, Entitled, Objects!Access
    <2> QED BY <2>1, <2>2
  <1> QED BY <1>1

Handling == {"meta", "json", "rmtree"}

\* A step takes the call of one client to another of its places.
Turned(c, at) ==
    \E g : /\ call' = [call EXCEPT ![c] = g]
           /\ IsCall(g) /\ Sensible(g) /\ Entitled(g, c)
           /\ g.at = at /\ g.bucket = call[c].bucket /\ g.key = call[c].key
           /\ g.op = call[c].op /\ g.value = call[c].value

\* A call that only waits for something else, or is answered before its handler
\* has changed anything.
LEMMA OnlyCall ==
    ASSUME ObjectInv, NEW c \in Clients, NEW at \in {"done", "access", "body", "run"}, Turned(c, at),
           call[c].at \notin Handling,
           UNCHANGED <<disk, busy, bindings, allowed, links, now, answered, using>>
    PROVE  ObjectInv'
  <1> PICK g : call' = [call EXCEPT ![c] = g] /\ IsCall(g) /\ Sensible(g) /\ Entitled(g, c) /\ g.at = at
    BY DEF Turned
  <1>1. busy # c
    BY StorageConstants DEF ObjectInv, StorageTyped, Handling
  <1>2. StorageTyped' /\ call'[c] = g
    BY <1>1, OneCall DEF ObjectInv, StorageTyped
  <1>3. \A d \in Clients : Entitled(call[d], d)'
    BY <1>2, OneEntitled DEF ObjectInv, Entitled, Objects!Access
  <1>4. DiskInv' /\ Standing'
    BY DEF ObjectInv, DiskInv, Standing, Stands, Objects!Straight
  <1>5. Underway'
    <2>1. busy # Nobody => call'[busy] = call[busy]
      BY <1>1 DEF ObjectInv, StorageTyped
    <2> QED BY <2>1 DEF ObjectInv, Underway, AskedOf
  <1> QED BY <1>2, <1>3, <1>4, <1>5 DEF ObjectInv

\* What remains of a call when its step or its answer changes.
LEMMA CallEnds ==
    ASSUME ObjectInv, NEW c \in Clients, NEW answer \in {"ok", "not found", "error", "conflict", "forbidden"},
           Objects!Finish(c, answer), call[c].at # "done", call[c].at = "access" => answer # "ok"
    PROVE  Turned(c, "done")
  <1>1. PICK r : r = call[c] /\ IsCall(r) /\ Sensible(r)
    BY DEF ObjectInv, StorageTyped
  <1>2. PICK g : g = [r EXCEPT !.at = "done", !.answer = answer]
    OBVIOUS
  <1>3. call' = [call EXCEPT ![c] = g]
    BY <1>1, <1>2 DEF Objects!Finish, ObjectInv, StorageTyped
  <1>4. DOMAIN r = CallFields
    BY <1>1 DEF IsCall
  <1>5. /\ DOMAIN g = CallFields /\ g.at = "done" /\ g.answer = answer
        /\ g.kind = r.kind /\ g.bucket = r.bucket /\ g.op = r.op /\ g.key = r.key /\ g.time = r.time
        /\ g.service = r.service /\ g.value = r.value
    BY <1>2, <1>4 DEF CallFields
  <1>6. IsCall(g) /\ Sensible(g)
    BY <1>1, <1>5 DEF IsCall, Sensible
  <1>7. Entitled(r, c)
    BY <1>1 DEF ObjectInv
  <1>8. r.at \in {"access", "body", "run", "meta", "json", "rmtree"}
    BY <1>1 DEF IsCall, CallFields
  <1>9. Entitled(g, c)
    BY <1>1, <1>5, <1>7, <1>8 DEF Entitled, Objects!Access
  <1> QED BY <1>1, <1>3, <1>5, <1>6, <1>9 DEF Turned

LEMMA CallGoesOn ==
    ASSUME ObjectInv, NEW c \in Clients, NEW step \in {"body", "run", "meta", "json", "rmtree"},
           Objects!Goto(c, step), call[c].at # "done",
           call[c].at = "access" => <<call[c].bucket, Objects!Access(call[c].op)>> \in allowed[c]
    PROVE  Turned(c, step)
  <1>1. PICK r : r = call[c] /\ IsCall(r)
    BY DEF ObjectInv, StorageTyped
  <1>2. PICK g : g = [r EXCEPT !.at = step]
    OBVIOUS
  <1>3. call' = [call EXCEPT ![c] = g]
    BY <1>1, <1>2 DEF Objects!Goto, ObjectInv, StorageTyped
  <1>4. DOMAIN r = CallFields
    BY <1>1 DEF IsCall
  <1>5. /\ DOMAIN g = CallFields /\ g.at = step /\ g.answer = r.answer
        /\ g.kind = r.kind /\ g.bucket = r.bucket /\ g.op = r.op /\ g.key = r.key /\ g.time = r.time
        /\ g.service = r.service /\ g.value = r.value
    BY <1>2, <1>4 DEF CallFields
  <1>6. IsCall(g) /\ Sensible(g)
    BY <1>1, <1>5 DEF IsCall, Sensible, ObjectInv, StorageTyped
  <1>7. Entitled(r, c)
    BY <1>1 DEF ObjectInv
  <1>8. r.at \in {"access", "body", "run", "meta", "json", "rmtree"}
    BY <1>1 DEF IsCall, CallFields
  <1>9. Entitled(g, c)
    BY <1>1, <1>5, <1>7, <1>8 DEF Entitled, Objects!Access
  <1> QED BY <1>1, <1>3, <1>5, <1>6, <1>9 DEF Turned

LEMMA CheckAccessStep == ASSUME ObjectInv, NEW c \in Clients, Objects!CheckAccess(c), UNCHANGED using PROVE ObjectInv'
  <1> DEFINE granted == <<call[c].bucket, Objects!Access(call[c].op)>> \in bindings[call[c].service]
  <1>1. /\ call[c].at = "access" /\ call[c].kind = "workload"
        /\ UNCHANGED <<disk, busy, bindings, allowed, links, now, answered, using>>
    BY DEF Objects!CheckAccess, Objects!auth, Objects!counts, ObjectInv, StorageTyped, Sensible
  <1>2. CASE granted
    <2>1. \E step \in {"body", "run"} : Objects!Goto(c, step)
      BY <1>2 DEF Objects!CheckAccess
    <2>2. <<call[c].bucket, Objects!Access(call[c].op)>> \in allowed[c]
      BY <1>1, <1>2 DEF ObjectInv, Entitled
    <2>3. \E step \in {"body", "run"} : Turned(c, step)
      BY <1>1, <2>1, <2>2, CallGoesOn
    <2> QED BY <1>1, <2>3, OnlyCall DEF Handling
  <1>3. CASE ~granted
    <2>1. Objects!Finish(c, "forbidden")
      BY <1>3 DEF Objects!CheckAccess
    <2>2. Turned(c, "done")
      BY <1>1, <2>1, CallEnds
    <2> QED BY <1>1, <2>2, OnlyCall DEF Handling
  <1> QED BY <1>2, <1>3

LEMMA ReceiveBodyStep == ASSUME ObjectInv, NEW c \in Clients, Objects!ReceiveBody(c), UNCHANGED using PROVE ObjectInv'
  <1>1. /\ call[c].at = "body" /\ Objects!Goto(c, "run")
        /\ UNCHANGED <<disk, busy, bindings, allowed, links, now, answered, using>>
    BY DEF Objects!ReceiveBody, Objects!auth, Objects!counts
  <1>2. Turned(c, "run")
    <2>1. call[c].at # "done" /\ call[c].at # "access"
      BY <1>1
    <2> QED BY <1>1, <2>1, CallGoesOn
  <1> QED BY <1>1, <1>2, OnlyCall DEF Handling

\* A handler that answers at once.
LEMMA AnsweredAtOnce ==
    ASSUME ObjectInv, NEW c \in Clients, call[c].at = "run",
           NEW answer \in {"ok", "not found", "error", "conflict"}, Objects!Finish(c, answer),
           UNCHANGED <<disk, busy, bindings, allowed, links, now, answered, using>>
    PROVE  ObjectInv'
  <1>1. Turned(c, "done")
    BY CallEnds
  <1> QED BY <1>1, OnlyCall DEF Handling

\* Reading changes nothing.
LEMMA ReadStep == ASSUME ObjectInv, NEW c \in Clients, Objects!Get(c) \/ Objects!List(c), UNCHANGED using PROVE ObjectInv'
  <1>1. call[c].at = "run" /\ UNCHANGED <<disk, busy, bindings, allowed, links, now, answered, using>>
    BY DEF Objects!Get, Objects!List, Objects!Runs, Objects!auth, Objects!counts
  <1>2. \E answer \in {"ok", "not found", "error", "conflict"} : Objects!Finish(c, answer)
    <2>1. CASE Objects!Get(c)
      BY <2>1 DEF Objects!Get
    <2>2. CASE Objects!List(c)
      BY <2>2 DEF Objects!List
    <2> QED BY <2>1, <2>2
  <1> QED BY <1>1, <1>2, AnsweredAtOnce

\* A step of a handler, which nothing but a crash interrupts.
LEMMA HandlerStep ==
    ASSUME ObjectInv, NEW c \in Clients, NEW at \in {"done", "meta", "json", "rmtree"}, Turned(c, at),
           UNCHANGED <<bindings, allowed, now, using>>, links \subseteq links',
           DiskInv', DOMAIN answered' = Objects!Object,
           busy' = IF at = "done" THEN Nobody ELSE c,
           Standing', Underway'
    PROVE  ObjectInv'
  <1> PICK g : call' = [call EXCEPT ![c] = g] /\ IsCall(g) /\ Sensible(g) /\ Entitled(g, c) /\ g.at = at
    BY DEF Turned
  <1>1. StorageTyped'
    BY OneCall DEF ObjectInv, StorageTyped
  <1>2. Entitled(g, c)'
    BY DEF Entitled, Objects!Access
  <1>3. \A d \in Clients : Entitled(call[d], d)'
    BY <1>2, OneEntitled
  <1> QED BY <1>1, <1>3 DEF ObjectInv

\* A step after which everything that was answered before stands, and that ends
\* the handler.
LEMMA HandlerEnds ==
    ASSUME ObjectInv, NEW c \in Clients, Turned(c, "done"), busy' = Nobody,
           UNCHANGED <<bindings, allowed, now, using, answered>>, links \subseteq links',
           DiskInv', \A p \in Paths : Grows(p)
    PROVE  ObjectInv'
  <1>1. \A x \in Objects!Object : Stands(x)'
    BY ReliesOnPaths, StandsOn DEF ObjectInv, Standing
  <1>2. DOMAIN answered' = Objects!Object
    BY DEF ObjectInv, StorageTyped
  <1>3. Standing' /\ Underway'
    BY <1>1 DEF Standing, Underway
  <1> QED BY <1>2, <1>3, HandlerStep

\* The object that a request is about.
LEMMA AskedObject ==
    ASSUME ObjectInv, NEW c \in Clients, call[c].at # "done", call[c].op \in {"put", "delete", "get", "presign"}
    PROVE  /\ AskedOf(call[c]) \in Objects!Object /\ Objects!Asked(c) = AskedOf(call[c])
           /\ AskedOf(call[c])[1] = call[c].bucket /\ call[c].bucket \in Buckets
  <1>1. call[c].bucket \in Buckets /\ call[c].key \in Keys
    BY DEF ObjectInv, StorageTyped, Sensible
  <1> QED BY <1>1 DEF AskedOf, Objects!Asked, Objects!Object

\* Where a handler's client is, and the bucket it is about.
LEMMA AtItsFiles ==
    ASSUME ObjectInv, NEW c \in Clients, NEW op, NEW step \in Handling, Objects!Continues(c, op, step)
    PROVE  /\ busy = c /\ busy # Nobody /\ call[c].at = step /\ call[c].op = op
           /\ call[c].bucket \in Buckets
  BY StorageConstants DEF Objects!Continues, ObjectInv, StorageTyped, Sensible, Handling

\* The entries that are written are those of files.
LEMMA EntriesOfFiles ==
    /\ \A v \in Values : Contained(Objects!Entry("data", v)) /\ Contained(Objects!Entry("meta", v))
    /\ Contained(Objects!Entry("json", "")) /\ Contained(Objects!Torn)
    /\ \A v : Objects!Entry("data", v).is = "data" /\ Objects!Entry("meta", v).is = "meta"
  BY DEF Contained, Objects!Entry, Objects!Torn, Objects!Contents

LEMMA PutDataStep == ASSUME ObjectInv, NEW c \in Clients, Objects!PutData(c), UNCHANGED using PROVE ObjectInv'
  <1> DEFINE x == AskedOf(call[c])
             data == ObjectPath[x]
  <1>1. /\ call[c].at = "run" /\ call[c].op = "put" /\ busy = Nobody
        /\ UNCHANGED <<bindings, allowed, links, now>>
    BY DEF Objects!PutData, Objects!Runs, Objects!auth, Objects!counts
  <1>2. /\ x \in Objects!Object /\ Objects!Asked(c) = x /\ x[1] = call[c].bucket /\ call[c].bucket \in Buckets
        /\ call[c].value \in Values /\ NamedPath(data)
    <2>1. x \in Objects!Object /\ Objects!Asked(c) = x /\ x[1] = call[c].bucket /\ call[c].bucket \in Buckets
      BY <1>1, AskedObject
    <2>2. call[c].value \in Values
      BY <1>1 DEF ObjectInv, StorageTyped, Sensible
    <2> QED BY <2>1, <2>2, PathsNamed
  <1>3. CASE Objects!Finish(c, "not found") /\ UNCHANGED <<disk, busy, answered>>
    BY <1>1, <1>3, AnsweredAtOnce
  <1>4. CASE Objects!MakeSome(data.through) /\ Objects!Finish(c, "error") /\ UNCHANGED <<busy, answered>>
    <2>1. DiskInv' /\ \A p \in Paths : Grows(p)
      BY <1>2, <1>4, MakingSome DEF ObjectInv, NamedPath
    <2>2. Turned(c, "done")
      BY <1>1, <1>4, CallEnds
    <2> QED BY <1>1, <1>4, <2>1, <2>2, HandlerEnds
  <1>5. CASE /\ Objects!BucketExists(call[c].bucket) /\ ~Objects!Blocked(data)
             /\ Objects!Write(data, Objects!Entry("data", call[c].value))
             /\ busy' = c /\ Objects!Goto(c, "meta") /\ answered' = Objects!Opened({data.at})
    <2>1. Turned(c, "meta")
      BY <1>1, <1>5, CallGoesOn
    <2> PICK g : /\ call' = [call EXCEPT ![c] = g] /\ g.at = "meta" /\ g.bucket = call[c].bucket
                 /\ g.key = call[c].key /\ g.op = "put" /\ g.value = call[c].value
      BY <1>1, <2>1 DEF Turned
    <2>2. call'[c] = g /\ AskedOf(g) = x
      BY DEF ObjectInv, StorageTyped, AskedOf
    <2>3. /\ DiskInv' /\ disk'[data.at] = Objects!Entry("data", call[c].value)
          /\ \A p \in Paths \ {data.at} : Grows(p)
      BY <1>2, <1>5, EntriesOfFiles, WritingFile DEF ObjectInv
    <2>4. /\ DOMAIN answered' = Objects!Object /\ Standing'
          /\ \A y \in Objects!Object : Objects!Relies(y) \cap {data.at} # {} => answered'[y] = "?"
      BY <1>5, <2>3, OpenedAnswers DEF ObjectInv
    <2>5. answered'[x] = "?"
      BY <1>2, <2>4 DEF Objects!Relies, Objects!Files
    <2>6. disk'[JsonPath[call[c].bucket].at].is # "none"
      <3>1. JsonPath[call[c].bucket].at \in Paths /\ disk[JsonPath[call[c].bucket].at].is # "none"
        BY <1>2, <1>5, PathsNamed DEF Objects!BucketExists, Objects!Exists, NamedPath
      <3> QED BY <2>3, <3>1, EntriesOfFiles DEF Grows
    <2>7. Underway'
      BY <1>2, <1>5, <2>2, <2>3, <2>5, <2>6 DEF Underway
    <2> QED BY <1>1, <1>5, <2>1, <2>3, <2>4, <2>7, StorageConstants, HandlerStep
  <1> QED BY <1>2, <1>3, <1>4, <1>5 DEF Objects!PutData

LEMMA PutMetaStep == ASSUME ObjectInv, NEW c \in Clients, Objects!PutMeta(c), UNCHANGED using PROVE ObjectInv'
  <1> DEFINE x == AskedOf(call[c])
             meta == MetaPath[x]
             data == ObjectPath[x]
             json == JsonPath[call[c].bucket]
  <1>1. /\ call[c].at = "meta" /\ call[c].op = "put" /\ busy = c /\ busy # Nobody /\ busy' = Nobody
        /\ UNCHANGED <<bindings, allowed, links, now>>
    BY AtItsFiles DEF Objects!PutMeta, Objects!auth, Objects!counts, Handling
  <1>2. /\ x \in Objects!Object /\ Objects!Asked(c) = x /\ x[1] = call[c].bucket /\ call[c].bucket \in Buckets
        /\ call[c].value \in Values
    <2>1. x \in Objects!Object /\ Objects!Asked(c) = x /\ x[1] = call[c].bucket /\ call[c].bucket \in Buckets
      BY <1>1, AskedObject
    <2>2. call[c].value \in Values
      BY <1>1 DEF ObjectInv, StorageTyped, Sensible
    <2> QED BY <2>1, <2>2
  <1>3. NamedPath(meta) /\ data.at \in Paths /\ json.at \in Paths /\ meta.at # data.at
    BY <1>2, PathsNamed DEF NamedPath
  <1>4. /\ answered[x] = "?" /\ disk[data.at] = Objects!Entry("data", call[c].value)
        /\ disk[json.at].is # "none"
    BY <1>1 DEF ObjectInv, Underway
  <1>5. Turned(c, "done")
    <2>1. \E answer \in {"error", "ok"} : Objects!Finish(c, answer)
      BY DEF Objects!PutMeta
    <2> QED BY <1>1, <2>1, CallEnds
  <1>6. CASE Objects!MakeSome(meta.through) /\ UNCHANGED answered
    <2>1. DiskInv' /\ \A p \in Paths : Grows(p)
      BY <1>3, <1>6, MakingSome DEF ObjectInv, NamedPath
    <2> QED BY <1>1, <1>5, <1>6, <2>1, HandlerEnds
  <1>7. CASE /\ ~Objects!Blocked(meta) /\ Objects!Write(meta, Objects!Entry("meta", call[c].value))
             /\ answered' = [Objects!Opened({meta.at}) EXCEPT ![x] = call[c].value]
    <2>1. /\ DiskInv' /\ disk'[meta.at] = Objects!Entry("meta", call[c].value)
          /\ \A p \in Paths \ {meta.at} : Grows(p)
      BY <1>2, <1>3, <1>7, EntriesOfFiles, WritingFile DEF ObjectInv
    <2>2. /\ DOMAIN answered' = Objects!Object /\ answered'[x] = call[c].value
          /\ \A y \in Objects!Object \ {x} :
                 answered'[y] = IF Objects!Relies(y) \cap {meta.at} # {} THEN "?" ELSE answered[y]
      BY <1>2, <1>7 DEF Objects!Opened
    <2>3. disk'[data.at] = Objects!Entry("data", call[c].value)
      <3>1. disk[data.at].is = "data"
        BY <1>4, EntriesOfFiles
      <3> QED BY <1>3, <1>4, <2>1, <3>1 DEF Grows
    <2>4. disk'[json.at].is # "none"
      BY <1>3, <1>4, <2>1, EntriesOfFiles DEF Grows
    <2>5. ASSUME NEW y \in Objects!Object PROVE Stands(y)'
      <3>1. CASE y = x
        BY <1>2, <2>1, <2>2, <2>3, <2>4, <3>1, StorageConstants DEF Stands
      <3>2. CASE y # x /\ Objects!Relies(y) \cap {meta.at} # {}
        BY <2>2, <3>2 DEF Stands
      <3>3. CASE y # x /\ Objects!Relies(y) \cap {meta.at} = {}
        <4>1. answered'[y] = answered[y] /\ \A p \in Objects!Relies(y) : Grows(p)
          BY <2>1, <2>2, <3>3, ReliesOnPaths
        <4> QED BY <4>1, StandsOn DEF ObjectInv, Standing
      <3> QED BY <3>1, <3>2, <3>3
    <2>6. Standing' /\ Underway'
      BY <1>1, <2>5 DEF Standing, Underway
    <2> QED BY <1>1, <1>5, <2>1, <2>2, <2>6, HandlerStep
  <1> QED BY <1>2, <1>6, <1>7 DEF Objects!PutMeta

LEMMA DeleteDataStep == ASSUME ObjectInv, NEW c \in Clients, Objects!DeleteData(c), UNCHANGED using PROVE ObjectInv'
  <1> DEFINE x == AskedOf(call[c])
             data == ObjectPath[x]
  <1>1. /\ call[c].at = "run" /\ call[c].op = "delete" /\ busy = Nobody
        /\ UNCHANGED <<bindings, allowed, links, now>>
    BY DEF Objects!DeleteData, Objects!Runs, Objects!auth, Objects!counts
  <1>2. x \in Objects!Object /\ Objects!Asked(c) = x /\ data.at \in Paths
    <2>1. x \in Objects!Object /\ Objects!Asked(c) = x
      BY <1>1, AskedObject
    <2> QED BY <2>1, PathsNamed DEF NamedPath
  <1>3. CASE (\E answer \in {"error", "not found"} : Objects!Finish(c, answer)) /\ UNCHANGED <<disk, busy, answered>>
    BY <1>1, <1>3, AnsweredAtOnce
  <1>4. CASE /\ ~Objects!IsDirectory(data.at) /\ disk' = [disk EXCEPT ![data.at] = Objects!Nothing]
             /\ busy' = c /\ Objects!Goto(c, "meta") /\ answered' = Objects!Opened({data.at})
    <2>1. Turned(c, "meta")
      BY <1>1, <1>4, CallGoesOn
    <2> PICK g : /\ call' = [call EXCEPT ![c] = g] /\ g.at = "meta" /\ g.bucket = call[c].bucket
                 /\ g.key = call[c].key /\ g.op = "delete"
      BY <1>1, <2>1 DEF Turned
    <2>2. call'[c] = g /\ AskedOf(g) = x
      BY DEF ObjectInv, StorageTyped, AskedOf
    <2>3. DiskInv' /\ disk'[data.at].is = "none" /\ \A p \in Paths \ {data.at} : Grows(p)
      BY <1>2, <1>4, Removing DEF ObjectInv, Objects!IsDirectory, Grows
    <2>4. /\ DOMAIN answered' = Objects!Object /\ Standing'
          /\ \A y \in Objects!Object : Objects!Relies(y) \cap {data.at} # {} => answered'[y] = "?"
      BY <1>4, <2>3, OpenedAnswers DEF ObjectInv
    <2>5. answered'[x] = "?"
      BY <1>2, <2>4 DEF Objects!Relies, Objects!Files
    <2>6. Underway'
      BY <1>2, <1>4, <2>2, <2>3, <2>5 DEF Underway
    <2> QED BY <1>1, <1>4, <2>1, <2>3, <2>4, <2>6, StorageConstants, HandlerStep
  <1> QED BY <1>2, <1>3, <1>4 DEF Objects!DeleteData

LEMMA DeleteMetaStep == ASSUME ObjectInv, NEW c \in Clients, Objects!DeleteMeta(c), UNCHANGED using PROVE ObjectInv'
  <1> DEFINE x == AskedOf(call[c])
             meta == MetaPath[x]
             data == ObjectPath[x]
  <1>1. /\ call[c].at = "meta" /\ call[c].op = "delete" /\ busy = c /\ busy # Nobody /\ busy' = Nobody
        /\ UNCHANGED <<bindings, allowed, links, now>>
    BY AtItsFiles DEF Objects!DeleteMeta, Objects!auth, Objects!counts, Handling
  <1>2. x \in Objects!Object /\ Objects!Asked(c) = x
    BY <1>1, AskedObject
  <1>3. NamedPath(meta) /\ data.at \in Paths /\ meta.at # data.at
    BY <1>2, PathsNamed DEF NamedPath
  <1>4. answered[x] = "?" /\ disk[data.at].is = "none"
    BY <1>1 DEF ObjectInv, Underway
  <1>5. Turned(c, "done")
    <2>1. \E answer \in {"error", "ok"} : Objects!Finish(c, answer)
      BY DEF Objects!DeleteMeta
    <2> QED BY <1>1, <2>1, CallEnds
  <1>6. CASE UNCHANGED <<disk, answered>>
    <2>1. DiskInv' /\ \A p \in Paths : Grows(p)
      BY <1>6 DEF ObjectInv, DiskInv, Grows
    <2> QED BY <1>1, <1>5, <1>6, <2>1, HandlerEnds
  <1>7. CASE /\ ~(Objects!Exists(meta) /\ Objects!IsDirectory(meta.at))
             /\ disk' = IF Objects!Exists(meta) THEN [disk EXCEPT ![meta.at] = Objects!Nothing] ELSE disk
             /\ answered' = [Objects!Opened({meta.at}) EXCEPT ![x] = "none"]
    <2>1. DiskInv' /\ \A p \in Paths \ {meta.at} : Grows(p)
      <3>1. CASE Objects!Exists(meta)
        BY <1>3, <1>7, <3>1, Removing DEF ObjectInv, NamedPath, Objects!IsDirectory, Grows
      <3>2. CASE ~Objects!Exists(meta)
        BY <1>7, <3>2 DEF ObjectInv, DiskInv, Grows
      <3> QED BY <3>1, <3>2
    \* What lies in directories is found by a name that leads through no other.
    <2>2. Objects!Straight(x) => disk'[meta.at].is \in {"none", "dir"}
      <3> SUFFICES ASSUME Objects!Straight(x) PROVE disk'[meta.at].is \in {"none", "dir"}
        OBVIOUS
      <3>1. CASE Objects!Exists(meta)
        BY <1>3, <1>7, <3>1, Removing DEF ObjectInv, NamedPath, Objects!IsDirectory
      <3>2. CASE ~Objects!Exists(meta)
        <4>1. meta.through \subseteq Above[meta.at] /\ meta.at \in Paths /\ meta.through \subseteq Paths
          BY <1>3 DEF Objects!Straight, NamedPath
        <4>2. disk[meta.at].is # "none" => \A p \in meta.through : disk[p].is = "dir"
          BY <4>1 DEF ObjectInv, DiskInv
        <4>3. disk[meta.at].is = "none"
          BY <3>2, <4>2 DEF Objects!Exists, Objects!Reachable, Objects!IsDirectory
        <4> QED BY <1>7, <3>2, <4>3
      <3> QED BY <3>1, <3>2
    <2>3. disk'[data.at].is \in {"none", "dir"}
      BY <1>3, <1>4, <2>1 DEF Grows
    <2>4. /\ DOMAIN answered' = Objects!Object /\ answered'[x] = "none"
          /\ \A y \in Objects!Object \ {x} :
                 answered'[y] = IF Objects!Relies(y) \cap {meta.at} # {} THEN "?" ELSE answered[y]
      BY <1>2, <1>7 DEF Objects!Opened
    <2>5. ASSUME NEW y \in Objects!Object PROVE Stands(y)'
      <3>1. CASE y = x
        <4>1. Objects!Straight(y)' = Objects!Straight(y)
          BY DEF Objects!Straight
        <4> QED BY <2>2, <2>3, <2>4, <3>1, <4>1 DEF Stands
      <3>2. CASE y # x /\ Objects!Relies(y) \cap {meta.at} # {}
        BY <2>4, <3>2 DEF Stands
      <3>3. CASE y # x /\ Objects!Relies(y) \cap {meta.at} = {}
        <4>1. answered'[y] = answered[y] /\ \A p \in Objects!Relies(y) : Grows(p)
          BY <2>1, <2>4, <3>3, ReliesOnPaths
        <4> QED BY <4>1, StandsOn DEF ObjectInv, Standing
      <3> QED BY <3>1, <3>2, <3>3
    <2>6. Standing' /\ Underway'
      BY <1>1, <2>5 DEF Standing, Underway
    <2> QED BY <1>1, <1>5, <2>1, <2>4, <2>6, HandlerStep
  <1> QED BY <1>2, <1>6, <1>7 DEF Objects!DeleteMeta

LEMMA MakeDirectoriesStep ==
    ASSUME ObjectInv, NEW c \in Clients, Objects!MakeDirectories(c), UNCHANGED using PROVE ObjectInv'
  <1> DEFINE b == call[c].bucket
  <1>1. /\ call[c].at = "run" /\ call[c].op = "create" /\ busy = Nobody
        /\ UNCHANGED <<bindings, allowed, links, now, answered>> /\ b \in Buckets
    BY DEF Objects!MakeDirectories, Objects!Runs, Objects!auth, Objects!counts, ObjectInv, StorageTyped, Sensible
  <1>2. /\ Made[b] \subseteq Paths /\ Made[b] \subseteq Objects!DirectoryNames
        /\ \A p \in Made[b] : Above[p] \subseteq Made[b]
    BY <1>1, PathsNamed
  <1>3. CASE Objects!Finish(c, "conflict") /\ UNCHANGED <<disk, busy>>
    BY <1>1, <1>3, AnsweredAtOnce
  <1>4. CASE Objects!MakeSome(Made[b]) /\ Objects!Finish(c, "error") /\ UNCHANGED busy
    <2>1. DiskInv' /\ \A p \in Paths : Grows(p)
      BY <1>2, <1>4, MakingSome DEF ObjectInv
    <2>2. Turned(c, "done")
      BY <1>1, <1>4, CallEnds
    <2> QED BY <1>1, <1>4, <2>1, <2>2, HandlerEnds
  <1>5. CASE /\ ~\E p \in Made[b] : Objects!IsFile(p)
             /\ disk' = Objects!WithDirectories(Made[b]) /\ busy' = c /\ Objects!Goto(c, "json")
    <2>1. Turned(c, "json")
      BY <1>1, <1>5, CallGoesOn
    <2> PICK g : call' = [call EXCEPT ![c] = g] /\ g.at = "json" /\ g.bucket = b /\ g.op = "create"
      BY <1>1, <2>1 DEF Turned
    <2>2. call'[c] = g
      BY DEF ObjectInv, StorageTyped
    <2>3. DiskInv' /\ \A p \in Paths : Grows(p)
      <3>1. \A p \in Made[b] : disk[p].is \in {"none", "dir"}
        BY <1>5 DEF Objects!IsFile
      <3> QED BY <1>2, <1>5, <3>1, MakingDirectories DEF ObjectInv
    <2>4. \A x \in Objects!Object : Stands(x)'
      BY <1>1, <2>3, ReliesOnPaths, StandsOn DEF ObjectInv, Standing
    <2>5. Standing'
      BY <2>4 DEF Standing
    <2>6. Underway'
      BY <1>5, <2>2 DEF Underway
    <2>7. DOMAIN answered' = Objects!Object
      BY <1>1 DEF ObjectInv, StorageTyped
    <2> QED BY <1>1, <1>5, <2>1, <2>3, <2>5, <2>6, <2>7, HandlerStep
  <1> QED BY <1>3, <1>4, <1>5 DEF Objects!MakeDirectories

\* The bucket.json that is written may be that of other buckets too, and the
\* file of a key.
LEMMA BucketJsonWritten ==
    ASSUME ObjectInv, NEW b \in Buckets, ~Objects!Blocked(JsonPath[b]), NEW entry, Contained(entry),
           Objects!Write(JsonPath[b], entry), answered' = Objects!OpenedBy(JsonPath[b])
    PROVE  DiskInv' /\ DOMAIN answered' = Objects!Object /\ Standing'
  <1> DEFINE json == JsonPath[b]
  <1>1. NamedPath(json) /\ json.at \in Paths
    BY PathsNamed DEF NamedPath
  <1>2. DiskInv' /\ disk'[json.at] = entry /\ \A p \in Paths \ {json.at} : Grows(p)
    BY <1>1, WritingFile DEF ObjectInv
  <1>3. /\ DOMAIN answered' = Objects!Object
        /\ \A x \in Objects!Object : answered'[x] = IF json.at \in Objects!Files(x) THEN "?" ELSE answered[x]
    BY DEF Objects!OpenedBy
  <1>4. ASSUME NEW x \in Objects!Object PROVE Stands(x)'
    <2>1. CASE json.at \in Objects!Files(x)
      BY <1>3, <2>1 DEF Stands
    <2>2. CASE json.at \notin Objects!Files(x)
      <3>1. answered'[x] = answered[x] /\ Objects!Straight(x)' = Objects!Straight(x) /\ Stands(x)
        BY <1>3, <2>2 DEF ObjectInv, Standing, Objects!Straight
      <3>2. Grows(ObjectPath[x].at) /\ Grows(MetaPath[x].at)
        BY <1>2, <2>2, ReliesOnPaths DEF Objects!Relies, Objects!Files
      <3>3. disk[JsonPath[x[1]].at].is # "none" => disk'[JsonPath[x[1]].at].is # "none"
        BY <1>2, ReliesOnPaths DEF Objects!Relies, Grows, Contained
      <3> QED BY <3>1, <3>2, <3>3, EntriesOfFiles DEF Stands, Grows
    <2> QED BY <2>1, <2>2
  <1> QED BY <1>2, <1>3, <1>4 DEF Standing

LEMMA WriteBucketJsonStep ==
    ASSUME ObjectInv, NEW c \in Clients, Objects!WriteBucketJson(c), UNCHANGED using PROVE ObjectInv'
  <1> DEFINE json == JsonPath[call[c].bucket]
  <1>1. /\ busy = c /\ busy # Nobody /\ call[c].at = "json" /\ call[c].bucket \in Buckets /\ busy' = Nobody
        /\ UNCHANGED <<bindings, allowed, links, now>>
    BY AtItsFiles DEF Objects!WriteBucketJson, Objects!auth, Objects!counts, Handling
  <1>2. Turned(c, "done")
    <2>1. \E answer \in {"error", "ok"} : Objects!Finish(c, answer)
      BY DEF Objects!WriteBucketJson
    <2> QED BY <1>1, <2>1, CallEnds
  <1>3. CASE UNCHANGED <<disk, answered>>
    <2>1. DiskInv' /\ \A p \in Paths : Grows(p)
      BY <1>3 DEF ObjectInv, DiskInv, Grows
    <2> QED BY <1>1, <1>2, <1>3, <2>1, HandlerEnds
  <1>4. CASE /\ ~Objects!Blocked(json) /\ Objects!Write(json, Objects!Entry("json", ""))
             /\ answered' = Objects!OpenedBy(json)
    <2>1. DiskInv' /\ DOMAIN answered' = Objects!Object /\ Standing'
      BY <1>1, <1>4, BucketJsonWritten, EntriesOfFiles
    <2>2. Underway'
      BY <1>1 DEF Underway
    <2> QED BY <1>1, <1>2, <2>1, <2>2, HandlerStep
  <1> QED BY <1>3, <1>4 DEF Objects!WriteBucketJson

LEMMA BeginDropStep == ASSUME ObjectInv, NEW c \in Clients, Objects!BeginDrop(c), UNCHANGED using PROVE ObjectInv'
  <1> DEFINE b == call[c].bucket
  <1>1. /\ call[c].at = "run" /\ call[c].op = "drop" /\ busy = Nobody
        /\ UNCHANGED <<disk, bindings, allowed, links, now>> /\ b \in Buckets
    BY DEF Objects!BeginDrop, Objects!Runs, Objects!auth, Objects!counts, ObjectInv, StorageTyped, Sensible
  <1>2. CASE (\E answer \in {"error", "not found"} : Objects!Finish(c, answer)) /\ UNCHANGED <<busy, answered>>
    BY <1>1, <1>2, AnsweredAtOnce
  <1>3. CASE busy' = c /\ Objects!Goto(c, "rmtree") /\ answered' = Objects!Opened(Objects!Inside(b))
    <2>1. Turned(c, "rmtree")
      BY <1>1, <1>3, CallGoesOn
    <2> PICK g : call' = [call EXCEPT ![c] = g] /\ g.at = "rmtree" /\ g.bucket = b /\ g.op = "drop"
      BY <1>1, <2>1 DEF Turned
    <2>2. call'[c] = g
      BY DEF ObjectInv, StorageTyped
    <2>3. DiskInv' /\ \A p \in Paths : Grows(p)
      BY <1>1 DEF ObjectInv, DiskInv, Grows
    <2>4. /\ DOMAIN answered' = Objects!Object /\ Standing'
          /\ \A x \in Objects!Object : Objects!Relies(x) \cap Objects!Inside(b) # {} => answered'[x] = "?"
      BY <1>3, <2>3, OpenedAnswers DEF ObjectInv
    <2>5. Underway'
      BY <1>3, <2>2, <2>4 DEF Underway
    <2> QED BY <1>1, <1>3, <2>1, <2>3, <2>4, <2>5, StorageConstants, HandlerStep
  <1> QED BY <1>2, <1>3 DEF Objects!BeginDrop

\* Removing an entry of a bucket that is being dropped.
LEMMA DropRemoves ==
    ASSUME ObjectInv, NEW b \in Buckets, NEW path \in Objects!Inside(b),
           \A q \in Paths : path \in Above[q] => disk[q].is = "none" \/ q = path,
           disk' = [disk EXCEPT ![path] = Objects!Nothing]
    PROVE  /\ DiskInv' /\ disk'[path].is = "none" /\ \A p \in Paths \ {path} : disk'[p] = disk[p]
           /\ \A x \in Objects!Object : Objects!Relies(x) \cap Objects!Inside(b) = {} =>
                  \A p \in Objects!Relies(x) : Grows(p)
  <1>1. path \in Paths
    BY DEF Objects!Inside
  <1>2. DiskInv' /\ disk'[path].is = "none" /\ \A p \in Paths \ {path} : disk'[p] = disk[p]
    BY <1>1, Removing DEF ObjectInv
  <1> QED BY <1>2, ReliesOnPaths DEF Grows

LEMMA RemoveEntryStep ==
    ASSUME ObjectInv, NEW c \in Clients, Objects!RemoveEntry(c), UNCHANGED using PROVE ObjectInv'
  <1> DEFINE b == call[c].bucket
  <1>1. /\ busy = c /\ busy # Nobody /\ call[c].at = "rmtree" /\ b \in Buckets
        /\ UNCHANGED <<call, busy, bindings, allowed, links, now, answered>>
    BY AtItsFiles DEF Objects!RemoveEntry, Objects!auth, Objects!counts, Handling
  <1>2. \A x \in Objects!Object : Objects!Relies(x) \cap Objects!Inside(b) # {} => answered[x] = "?"
    BY <1>1 DEF ObjectInv, Underway
  <1>3. PICK path \in Objects!Inside(b) :
            /\ \A q \in Paths : path \in Above[q] => disk[q].is = "none"
            /\ disk' = [disk EXCEPT ![path] = Objects!Nothing]
    BY DEF Objects!RemoveEntry
  <1>4. /\ DiskInv'
        /\ \A x \in Objects!Object : Objects!Relies(x) \cap Objects!Inside(b) = {} =>
               \A p \in Objects!Relies(x) : Grows(p)
    BY <1>1, <1>3, DropRemoves
  <1>5. ASSUME NEW x \in Objects!Object PROVE Stands(x)'
    <2>1. CASE Objects!Relies(x) \cap Objects!Inside(b) # {}
      BY <1>1, <1>2, <2>1 DEF Stands
    <2>2. CASE Objects!Relies(x) \cap Objects!Inside(b) = {}
      BY <1>1, <1>4, <2>2, StandsOn DEF ObjectInv, Standing
    <2> QED BY <2>1, <2>2
  <1>6. StorageTyped'
    BY <1>1 DEF ObjectInv, StorageTyped, Sensible, IsCall
  <1>7. Underway'
    BY <1>1, <1>2 DEF ObjectInv, Underway
  <1>8. \A d \in Clients : Entitled(call[d], d)'
    BY <1>1 DEF ObjectInv, Entitled, Objects!Access
  <1> QED BY <1>4, <1>5, <1>6, <1>7, <1>8 DEF ObjectInv, Standing

LEMMA EndDropStep == ASSUME ObjectInv, NEW c \in Clients, Objects!EndDrop(c), UNCHANGED using PROVE ObjectInv'
  <1> DEFINE b == call[c].bucket
             directory == BucketPath[b].at
  <1>1. /\ busy = c /\ busy # Nobody /\ call[c].at = "rmtree" /\ b \in Buckets /\ busy' = Nobody
        /\ UNCHANGED <<bindings, allowed, links, now>> /\ Objects!Finish(c, "ok")
        /\ \A p \in Objects!Inside(b) \ {directory} : disk[p].is = "none"
        /\ disk' = [disk EXCEPT ![directory] = Objects!Nothing]
        /\ answered' = [x \in Objects!Object |-> IF Objects!Files(x) \subseteq Objects!Inside(b) THEN "none" ELSE answered[x]]
    BY AtItsFiles DEF Objects!EndDrop, Objects!auth, Objects!counts, Handling
  <1>2. Turned(c, "done")
    BY <1>1, CallEnds
  <1>3. directory \in Objects!Inside(b)
    BY <1>1, PathsNamed DEF Objects!Inside
  <1>4. \A q \in Paths : directory \in Above[q] => disk[q].is = "none" \/ q = directory
    BY <1>1 DEF Objects!Inside
  <1>5. /\ DiskInv' /\ disk'[directory].is = "none" /\ \A p \in Paths \ {directory} : disk'[p] = disk[p]
        /\ \A x \in Objects!Object : Objects!Relies(x) \cap Objects!Inside(b) = {} =>
               \A p \in Objects!Relies(x) : Grows(p)
    BY <1>1, <1>3, <1>4, DropRemoves
  <1>6. \A x \in Objects!Object : Objects!Relies(x) \cap Objects!Inside(b) # {} => answered[x] = "?"
    BY <1>1 DEF ObjectInv, Underway
  <1>7. ASSUME NEW x \in Objects!Object PROVE Stands(x)'
    <2>1. CASE Objects!Files(x) \subseteq Objects!Inside(b)
      <3>1. answered'[x] = "none"
        BY <1>1, <2>1
      <3>2. \A p \in Objects!Files(x) : disk'[p].is = "none"
        <4>1. \A p \in Objects!Inside(b) : p \in Paths
          BY DEF Objects!Inside
        <4> QED BY <1>1, <1>5, <2>1, <4>1
      <3> QED BY <3>1, <3>2 DEF Stands, Objects!Files
    <2>2. CASE ~(Objects!Files(x) \subseteq Objects!Inside(b)) /\ Objects!Relies(x) \cap Objects!Inside(b) # {}
      BY <1>1, <1>6, <2>2 DEF Stands
    <2>3. CASE Objects!Relies(x) \cap Objects!Inside(b) = {}
      <3>1. answered'[x] = answered[x]
        BY <1>1, <2>3 DEF Objects!Relies, Objects!Files
      <3> QED BY <1>5, <2>3, <3>1, StandsOn DEF ObjectInv, Standing
    <2> QED BY <2>1, <2>2, <2>3
  <1>8. DOMAIN answered' = Objects!Object /\ Standing' /\ Underway'
    BY <1>1, <1>7 DEF Standing, Underway
  <1> QED BY <1>1, <1>2, <1>5, <1>8, HandlerStep

LEMMA PresignStep == ASSUME ObjectInv, NEW c \in Clients, Objects!Presign(c), UNCHANGED using PROVE ObjectInv'
  <1>1. /\ call[c].at = "run" /\ busy = Nobody
        /\ UNCHANGED <<disk, busy, bindings, allowed, now, answered>>
        /\ links \subseteq links'
        /\ \E answer \in {"ok", "not found"} : Objects!Finish(c, answer)
    BY DEF Objects!Presign, Objects!Runs, Objects!auth, Objects!counts
  <1>2. Turned(c, "done")
    BY <1>1, CallEnds
  <1>3. DiskInv' /\ \A p \in Paths : Grows(p)
    BY <1>1 DEF ObjectInv, DiskInv, Grows
  <1> QED BY <1>1, <1>2, <1>3, HandlerEnds

\* A call that may be asked for starts with what it may do granted.
LEMMA AskedSensibly ==
    ASSUME ObjectInv, NEW c \in Clients, NEW r \in Objects!Requests, Objects!Begin(c, r), UNCHANGED using
    PROVE  \E g : /\ call' = [call EXCEPT ![c] = g] /\ IsCall(g) /\ Sensible(g) /\ Entitled(g, c)'
                  /\ g.at \in {"access", "body", "run"}
  <1>1. /\ DOMAIN r = CallFields /\ r.kind \in using.kinds /\ r.op \in using.ops /\ r.bucket \in using.buckets
        /\ r.key \in using.keys \cup {<<>>} /\ r.value \in using.values \cup {""} /\ r.service \in Services \cup {""}
        /\ r.key = <<>> <=> r.op \in {"create", "drop", "list"}
        /\ r.value = "" <=> r.op # "put"
        /\ r.service = "" <=> r.kind # "workload"
    BY DEF Objects!Requests, CallFields
  <1>2. /\ using.buckets \subseteq Buckets /\ using.keys \subseteq Keys /\ using.values \subseteq Values
        /\ using.kinds \subseteq {"user", "workload", "link"}
        /\ using.ops \subseteq {"put", "delete", "get", "list", "create", "drop", "presign"}
    BY StorageConstants DEF ObjectInv, StorageTyped
  <1>3. /\ r.kind = "workload" => r.op \in {"put", "delete", "get", "list"}
        /\ r.kind = "link" => \E l \in links : l.bucket = r.bucket /\ l.key = r.key /\ now <= l.expires
    BY <1>1, <1>2 DEF Objects!Begin, Objects!MayAsk, Objects!Writes, Objects!Reads
  <1> DEFINE at == IF r.kind = "workload" THEN "access" ELSE IF r.op = "put" THEN "body" ELSE "run"
             time == IF r.kind = "link" THEN now ELSE 0
  <1>4. PICK g : g = [r EXCEPT !.time = time, !.answer = "", !.at = at]
    OBVIOUS
  <1>5. call' = [call EXCEPT ![c] = g]
    BY <1>4 DEF Objects!Begin
  <1>6. /\ DOMAIN g = CallFields /\ g.time = time /\ g.answer = "" /\ g.at = at
        /\ g.kind = r.kind /\ g.op = r.op /\ g.bucket = r.bucket /\ g.key = r.key /\ g.value = r.value
        /\ g.service = r.service
    BY <1>1, <1>4 DEF CallFields
  <1>7. time \in Nat /\ at \in {"access", "body", "run"}
    BY DEF ObjectInv, StorageTyped
  <1>8. IsCall(g)
    BY <1>1, <1>2, <1>6, <1>7 DEF IsCall
  <1>9. Sensible(g)
    BY <1>1, <1>2, <1>3, <1>6 DEF Sensible
  <1>10. Entitled(g, c)'
    <2>1. CASE g.kind = "workload"
      <3>1. allowed'[c] = bindings[r.service] /\ UNCHANGED bindings
        BY <1>6, <2>1 DEF Objects!Begin, ObjectInv, StorageTyped
      <3> QED BY <1>6, <2>1, <3>1 DEF Entitled
    <2>2. CASE g.kind = "link"
      BY <1>3, <1>6, <2>2 DEF Entitled, Objects!Begin
    <2>3. CASE g.kind \notin {"workload", "link"}
      BY <2>3 DEF Entitled
    <2> QED BY <2>1, <2>2, <2>3
  <1> QED BY <1>5, <1>6, <1>7, <1>8, <1>9, <1>10

LEMMA BeginStep ==
    ASSUME ObjectInv, NEW c \in Clients, NEW r \in Objects!Requests, Objects!Begin(c, r), UNCHANGED using
    PROVE  ObjectInv'
  <1>1. /\ call[c].at = "done" /\ UNCHANGED <<disk, busy, bindings, links, now, answered>>
        /\ DOMAIN allowed' = Clients /\ \A d \in Clients \ {c} : allowed'[d] = allowed[d]
    BY DEF Objects!Begin, ObjectInv, StorageTyped
  <1> PICK g : /\ call' = [call EXCEPT ![c] = g] /\ IsCall(g) /\ Sensible(g) /\ Entitled(g, c)'
               /\ g.at \in {"access", "body", "run"}
    BY AskedSensibly
  <1>2. busy # c
    BY <1>1, StorageConstants DEF ObjectInv, StorageTyped
  <1>3. StorageTyped' /\ call'[c] = g
    BY <1>1, <1>2, OneCall DEF ObjectInv, StorageTyped
  <1>4. \A d \in Clients : Entitled(call[d], d)'
    BY <1>1, OneEntitled
  <1>5. DiskInv' /\ Standing'
    BY <1>1 DEF ObjectInv, DiskInv, Standing, Stands, Objects!Straight
  <1>6. Underway'
    <2>1. busy # Nobody => call'[busy] = call[busy]
      BY <1>2 DEF ObjectInv, StorageTyped
    <2> QED BY <1>1, <2>1 DEF ObjectInv, Underway, AskedOf
  <1> QED BY <1>3, <1>4, <1>5, <1>6 DEF ObjectInv

LEMMA ChangeBindingStep ==
    ASSUME ObjectInv, NEW s \in Services, NEW binding, Objects!ChangeBinding(s, binding), UNCHANGED using
    PROVE  ObjectInv'
  <1>1. UNCHANGED <<disk, call, busy, links, now, answered>>
    BY DEF Objects!ChangeBinding
  <1>2. /\ DOMAIN bindings' = Services /\ \A u \in Services \ {s} : bindings'[u] = bindings[u]
        /\ DOMAIN allowed' = Clients
        /\ \A c \in Clients : allowed'[c] = IF call[c].service = s THEN allowed[c] \cup bindings'[s] ELSE allowed[c]
    BY DEF Objects!ChangeBinding, ObjectInv, StorageTyped
  <1>3. StorageTyped'
    BY <1>1, <1>2 DEF ObjectInv, StorageTyped, Sensible, IsCall
  <1>4. DiskInv' /\ Standing' /\ Underway'
    BY <1>1 DEF ObjectInv, DiskInv, Standing, Stands, Objects!Straight, Underway, AskedOf
  <1>5. \A c \in Clients : Entitled(call[c], c)'
    <2> SUFFICES ASSUME NEW c \in Clients PROVE Entitled(call[c], c)'
      OBVIOUS
    <2>1. allowed[c] \subseteq allowed'[c]
      BY <1>2
    <2>2. call[c].kind = "workload" /\ call[c].at = "access" =>
              call[c].service \in Services /\ bindings[call[c].service] \subseteq allowed[c]
      BY DEF ObjectInv, StorageTyped, Sensible, Entitled
    <2>3. call[c].kind = "workload" /\ call[c].at = "access" => bindings'[call[c].service] \subseteq allowed'[c]
      BY <1>2, <2>1, <2>2
    <2> QED BY <1>1, <2>1, <2>3 DEF ObjectInv, Entitled, Objects!Access
  <1> QED BY <1>3, <1>4, <1>5 DEF ObjectInv

LEMMA TickStep == ASSUME ObjectInv, Objects!Tick, UNCHANGED using PROVE ObjectInv'
  <1>1. UNCHANGED <<disk, call, busy, bindings, allowed, links, answered>> /\ now' = now + 1
    BY DEF Objects!Tick, Objects!auth
  <1>2. now' \in Nat
    BY <1>1 DEF ObjectInv, StorageTyped
  <1>3. StorageTyped'
    BY <1>1, <1>2 DEF ObjectInv, StorageTyped, Sensible, IsCall
  <1>4. DiskInv' /\ Standing' /\ Underway'
    BY <1>1 DEF ObjectInv, DiskInv, Standing, Stands, Objects!Straight, Underway, AskedOf
  <1>5. \A c \in Clients : Entitled(call[c], c)'
    BY <1>1 DEF ObjectInv, Entitled, Objects!Access
  <1> QED BY <1>5, <1>3, <1>4 DEF ObjectInv

\* What a crash leaves on the disk is open, or was there before.
LEMMA CutOffStep ==
    ASSUME ObjectInv, NEW c \in Clients, Objects!CutOff(c)
    PROVE  DiskInv' /\ DOMAIN answered' = Objects!Object /\ Standing'
  <1> DEFINE b == call[c].bucket
             x == AskedOf(call[c])
             data == ObjectPath[x]
             meta == MetaPath[x]
  <1>1. ASSUME NEW paths, paths \subseteq Paths, paths \subseteq Objects!DirectoryNames, Objects!MakeSome(paths),
               UNCHANGED answered
        PROVE  DiskInv' /\ DOMAIN answered' = Objects!Object /\ Standing'
    <2>1. DiskInv' /\ \A p \in Paths : Grows(p)
      BY <1>1, MakingSome DEF ObjectInv
    <2>2. \A y \in Objects!Object : Stands(y)'
      BY <1>1, <2>1, ReliesOnPaths, StandsOn DEF ObjectInv, Standing
    <2> QED BY <1>1, <2>1, <2>2 DEF ObjectInv, StorageTyped, Standing
  <1>2. ASSUME NEW path, NamedPath(path), ~Objects!Blocked(path), Objects!Write(path, Objects!Torn),
               answered' = Objects!Opened({path.at})
        PROVE  DiskInv' /\ DOMAIN answered' = Objects!Object /\ Standing'
    <2>1. DiskInv' /\ \A p \in Paths \ {path.at} : Grows(p)
      BY <1>2, EntriesOfFiles, WritingFile DEF ObjectInv
    <2> QED BY <1>2, <2>1, OpenedAnswers DEF ObjectInv
  <1>3. ASSUME call[c].op = "put", call[c].at \in {"run", "meta"}
        PROVE  NamedPath(data) /\ NamedPath(meta) /\ Objects!Asked(c) = x
    <2>1. x \in Objects!Object /\ Objects!Asked(c) = x
      BY <1>3, AskedObject
    <2> QED BY <2>1, PathsNamed
  <1>4. CASE /\ Objects!Runs(c, "put")
             /\ \/ Objects!MakeSome(ObjectPath[Objects!Asked(c)].through) /\ UNCHANGED answered
                \/ /\ ~Objects!Blocked(ObjectPath[Objects!Asked(c)])
                   /\ Objects!Write(ObjectPath[Objects!Asked(c)], Objects!Torn)
                   /\ answered' = Objects!Opened({ObjectPath[Objects!Asked(c)].at})
    <2>1. NamedPath(data) /\ Objects!Asked(c) = x
      BY <1>3, <1>4 DEF Objects!Runs
    <2> QED BY <1>1, <1>2, <1>4, <2>1 DEF NamedPath
  <1>5. CASE /\ Objects!Continues(c, "put", "meta")
             /\ \/ Objects!MakeSome(MetaPath[Objects!Asked(c)].through) /\ UNCHANGED answered
                \/ /\ ~Objects!Blocked(MetaPath[Objects!Asked(c)])
                   /\ Objects!Write(MetaPath[Objects!Asked(c)], Objects!Torn)
                   /\ answered' = Objects!Opened({MetaPath[Objects!Asked(c)].at})
    <2>1. NamedPath(meta) /\ Objects!Asked(c) = x
      BY <1>3, <1>5 DEF Objects!Continues
    <2> QED BY <1>1, <1>2, <1>5, <2>1 DEF NamedPath
  <1>6. CASE Objects!Runs(c, "create") /\ Objects!MakeSome(Made[b]) /\ UNCHANGED answered
    <2>1. b \in Buckets
      BY <1>6 DEF Objects!Runs, ObjectInv, StorageTyped, Sensible
    <2> QED BY <1>1, <1>6, <2>1, PathsNamed
  <1>7. CASE /\ Objects!Continues(c, "create", "json") /\ ~Objects!Blocked(JsonPath[b])
             /\ Objects!Write(JsonPath[b], Objects!Torn) /\ answered' = Objects!OpenedBy(JsonPath[b])
    <2>1. b \in Buckets
      BY <1>7, AtItsFiles DEF Handling
    <2> QED BY <1>7, <2>1, BucketJsonWritten, EntriesOfFiles
  <1> QED BY <1>4, <1>5, <1>6, <1>7 DEF Objects!CutOff

LEMMA CrashStep == ASSUME ObjectInv, Objects!Crash, UNCHANGED using PROVE ObjectInv'
  <1>1. /\ UNCHANGED <<bindings, allowed, links, now>> /\ busy' = Nobody
        /\ call' = [c \in Clients |-> Objects!Idle]
    BY DEF Objects!Crash, Objects!auth
  <1>2. DiskInv' /\ DOMAIN answered' = Objects!Object /\ Standing'
    <2>1. CASE UNCHANGED <<disk, answered>>
      BY <2>1 DEF ObjectInv, StorageTyped, DiskInv, Standing, Stands, Objects!Straight
    <2>2. CASE \E c \in Clients : Objects!CutOff(c)
      BY <2>2, CutOffStep
    <2> QED BY <2>1, <2>2 DEF Objects!Crash
  <1>3. IsCall(Objects!Idle) /\ Sensible(Objects!Idle)
    BY DEF Objects!Idle, IsCall, CallFields, Sensible
  <1>4. DOMAIN call' = Clients /\ \A c \in Clients : call'[c] = Objects!Idle
    BY <1>1
  <1>5. \A c \in Clients : (IsCall(call[c]) /\ Sensible(call[c]))'
    BY <1>3, <1>4 DEF IsCall, Sensible
  <1>6. StorageTyped'
    BY <1>1, <1>2, <1>4, <1>5 DEF ObjectInv, StorageTyped
  <1>7. Underway'
    BY <1>1 DEF Underway
  <1>8. \A c \in Clients : Entitled(call[c], c)'
    <2>1. Objects!Idle.kind = "user"
      BY DEF Objects!Idle
    <2> QED BY <1>4, <2>1 DEF Entitled
  <1> QED BY <1>2, <1>6, <1>7, <1>8 DEF ObjectInv

LEMMA StorageStep == ASSUME ObjectInv, Objects!Next PROVE ObjectInv'
  <1>1. UNCHANGED using
    BY DEF Objects!Next
  <1>2. ASSUME NEW c \in Clients, NEW r \in Objects!Requests, Objects!Begin(c, r) PROVE ObjectInv'
    BY <1>1, <1>2, BeginStep
  <1>3. ASSUME NEW c \in Clients,
               Objects!CheckAccess(c) \/ Objects!ReceiveBody(c) \/ Objects!Presign(c)
               \/ Objects!Get(c) \/ Objects!List(c)
        PROVE  ObjectInv'
    BY <1>1, <1>3, CheckAccessStep, ReceiveBodyStep, ReadStep, PresignStep
  <1>4. ASSUME NEW c \in Clients,
               Objects!PutData(c) \/ Objects!PutMeta(c) \/ Objects!DeleteData(c) \/ Objects!DeleteMeta(c)
        PROVE  ObjectInv'
    BY <1>1, <1>4, PutDataStep, PutMetaStep, DeleteDataStep, DeleteMetaStep
  <1>5. ASSUME NEW c \in Clients,
               \/ Objects!MakeDirectories(c) \/ Objects!WriteBucketJson(c)
               \/ Objects!BeginDrop(c) \/ Objects!RemoveEntry(c) \/ Objects!EndDrop(c)
        PROVE  ObjectInv'
    BY <1>1, <1>5, MakeDirectoriesStep, WriteBucketJsonStep, BeginDropStep, RemoveEntryStep, EndDropStep
  <1>6. ASSUME NEW s \in Services, NEW binding, Objects!ChangeBinding(s, binding) PROVE ObjectInv'
    BY <1>1, <1>6, ChangeBindingStep
  <1>7. Objects!Tick \/ Objects!Crash => ObjectInv'
    BY <1>1, TickStep, CrashStep
  <1> QED BY <1>2, <1>3, <1>4, <1>5, <1>6, <1>7 DEF Objects!Next, Objects!Act

\* The machine of the objects, and the other one, which leaves them alone.
LEMMA ObjectsOfPart == PartSpec => []ObjectInv
  <1>1. PartInit => ObjectInv
    BY StorageInit DEF PartInit
  <1>2. ObjectInv /\ [PartNext]_<<vars, objects, part>> => ObjectInv'
    <2> SUFFICES ASSUME ObjectInv, [PartNext]_<<vars, objects, part>> PROVE ObjectInv'
      OBVIOUS
    <2>1. CASE UNCHANGED objects
      <3>1. UNCHANGED <<disk, call, busy, bindings, links, now, answered, allowed, using>>
        BY <2>1 DEF objects
      <3>2. StorageTyped'
        BY <3>1 DEF ObjectInv, StorageTyped, Sensible, IsCall
      <3>3. DiskInv' /\ Standing' /\ Underway'
        BY <3>1 DEF ObjectInv, DiskInv, Standing, Stands, Objects!Straight, Underway, AskedOf
      <3>4. \A c \in Clients : Entitled(call[c], c)'
        BY <3>1 DEF ObjectInv, Entitled, Objects!Access
      <3> QED BY <3>2, <3>3, <3>4 DEF ObjectInv
    <2>2. CASE Objects!Next
      BY <2>2, StorageStep
    <2> QED BY <2>1, <2>2 DEF PartNext
  <1> QED BY <1>1, <1>2, PTL DEF PartSpec

\* What was answered of an object stands, until another request writes or removes
\* one of its files, by whatever name; and each access to a file of a bucket, by
\* a key that stays in the bucket, was granted at some instant of its request, by
\* the row of the service whose token it is, or by the link.
THEOREM WhatWasAnsweredStands == PartSpec => []ObjectsStand
  <1>1. ObjectInv => ObjectsStand
    <2> SUFFICES ASSUME ObjectInv PROVE ObjectsStand
      OBVIOUS
    <2>1. Objects!AnswersStand
      BY DEF ObjectInv, Standing, Stands, Objects!AnswersStand
    <2>2. Objects!Justified
      <3> SUFFICES ASSUME NEW c \in Clients, call[c].answer = "ok" \/ busy = c
                   PROVE  /\ call[c].kind = "workload" /\ Objects!Stays(call[c]) =>
                                 \A p \in Objects!Touched(call[c]) :
                                     \E b \in Buckets : /\ p \in Objects!Inside(b)
                                                        /\ <<b, Objects!Access(call[c].op)>> \in allowed[c]
                          /\ call[c].kind = "link" =>
                                 \E l \in links : /\ l.bucket = call[c].bucket /\ l.key = call[c].key
                                                  /\ call[c].time <= l.expires
        BY DEF Objects!Justified
      <3>1. busy = c => call[c].at \in {"meta", "json", "rmtree"}
        BY StorageConstants DEF ObjectInv, StorageTyped
      <3>2. call[c].bucket \in Buckets
        BY <3>1 DEF ObjectInv, StorageTyped, Sensible
      <3>3. call[c].kind = "workload" => <<call[c].bucket, Objects!Access(call[c].op)>> \in allowed[c]
        BY <3>1 DEF ObjectInv, Entitled
      <3>4. call[c].kind = "link" =>
                \E l \in links : /\ l.bucket = call[c].bucket /\ l.key = call[c].key
                                 /\ call[c].time <= l.expires
        BY <3>1 DEF ObjectInv, Entitled
      <3> QED BY <3>2, <3>3, <3>4 DEF Objects!Stays
    <2> QED BY <2>1, <2>2 DEF ObjectsStand
  <1> QED BY <1>1, ObjectsOfPart, PTL

\* A step that ends the create of a bucket, other than a crash, is that of its
\* own handler, which found the bucket, has just written its bucket.json, or was
\* stopped by what another name leads to.
LEMMA CreateEnds ==
    ASSUME ObjectInv, crashes \in Nat, Objects!Next, NEW c \in Clients, call[c].op = "create", call[c].at # "done",
           call'[c].at = "done", crashes' = crashes
    PROVE  \/ disk'[JsonPath[call[c].bucket].at].is # "none"
           \/ call'[c].answer = "error" /\ Objects!Crossed(call[c].bucket)
  <1> DEFINE b == call[c].bucket
  <1>1. b \in Buckets /\ call[c].at # "access"
    BY DEF ObjectInv, StorageTyped, Sensible
  <1>2. ASSUME NEW d \in Clients, NEW g, call' = [call EXCEPT ![d] = g] PROVE d = c /\ g.at = "done"
    BY <1>2 DEF ObjectInv, StorageTyped
  <1>3. ASSUME NEW d \in Clients, NEW step \in {"body", "run", "meta", "json", "rmtree"}, Objects!Goto(d, step)
        PROVE  FALSE
    <2>1. DOMAIN call[d] = CallFields
      BY DEF ObjectInv, StorageTyped, IsCall
    <2>2. /\ d # c => call'[c] = call[c]
          /\ d = c => call'[c].at = step
      BY <1>3, <2>1 DEF Objects!Goto, ObjectInv, StorageTyped, CallFields
    <2> QED BY <2>2
  <1>4. ASSUME NEW d \in Clients, NEW answer, Objects!Finish(d, answer) PROVE d = c
    BY <1>4 DEF Objects!Finish, ObjectInv, StorageTyped
  <1>5. call' # call
    OBVIOUS
  <1>6. ~Objects!Tick /\ ~\E s \in Services, b1 \in using.buckets, a \in Objects!Accesses : Objects!ChangeBinding(s, <<b1, a>>)
    BY <1>5 DEF Objects!Tick, Objects!ChangeBinding
  <1>7. ~Objects!Crash
    BY DEF Objects!Crash
  <1>8. ~\E d \in Clients, r \in Objects!Requests : Objects!Begin(d, r)
    <2> SUFFICES ASSUME NEW d \in Clients, NEW r \in Objects!Requests, Objects!Begin(d, r) PROVE FALSE
      OBVIOUS
    <2>1. call[d].at = "done" /\ \E g : call' = [call EXCEPT ![d] = g]
      BY DEF Objects!Begin
    <2> QED BY <1>2, <2>1
  <1>9. ~\E d \in Clients : \/ Objects!CheckAccess(d) \/ Objects!ReceiveBody(d) \/ Objects!Get(d) \/ Objects!List(d) \/ Objects!Presign(d)
                            \/ Objects!PutData(d) \/ Objects!PutMeta(d) \/ Objects!DeleteData(d) \/ Objects!DeleteMeta(d)
                            \/ Objects!BeginDrop(d) \/ Objects!RemoveEntry(d) \/ Objects!EndDrop(d)
    <2> SUFFICES ASSUME NEW d \in Clients
                 PROVE  /\ ~Objects!CheckAccess(d) /\ ~Objects!ReceiveBody(d) /\ ~Objects!Get(d) /\ ~Objects!List(d) /\ ~Objects!Presign(d)
                        /\ ~Objects!PutData(d) /\ ~Objects!PutMeta(d)
                        /\ ~Objects!DeleteData(d) /\ ~Objects!DeleteMeta(d)
                        /\ ~Objects!BeginDrop(d) /\ ~Objects!RemoveEntry(d) /\ ~Objects!EndDrop(d)
      OBVIOUS
    <2>1. ~Objects!CheckAccess(d)
      BY <1>1, <1>3, <1>4 DEF Objects!CheckAccess
    <2>2. ~Objects!ReceiveBody(d)
      BY <1>3 DEF Objects!ReceiveBody
    <2>3. ~Objects!Get(d) /\ ~Objects!List(d) /\ ~Objects!Presign(d)
      BY <1>4 DEF Objects!Get, Objects!List, Objects!Presign, Objects!Runs
    <2>4. ~Objects!PutData(d) /\ ~Objects!DeleteData(d) /\ ~Objects!BeginDrop(d)
      BY <1>3, <1>4 DEF Objects!PutData, Objects!DeleteData, Objects!BeginDrop, Objects!Runs
    <2>5. ~Objects!PutMeta(d) /\ ~Objects!DeleteMeta(d) /\ ~Objects!EndDrop(d)
      BY <1>4 DEF Objects!PutMeta, Objects!DeleteMeta, Objects!EndDrop, Objects!Continues
    <2>6. ~Objects!RemoveEntry(d)
      BY <1>5 DEF Objects!RemoveEntry
    <2> QED BY <2>1, <2>2, <2>3, <2>4, <2>5, <2>6
  <1> DEFINE json == JsonPath[b]
             MayEnd == \/ disk'[json.at].is # "none"
                       \/ call'[c].answer = "error" /\ Objects!Crossed(b)
  <1>10. ASSUME NEW d \in Clients, NEW answer, Objects!Finish(d, answer) PROVE d = c /\ call'[c].answer = answer
    <2>1. d = c
      BY <1>4, <1>10
    <2>2. DOMAIN call[c] = CallFields
      BY DEF ObjectInv, StorageTyped, IsCall
    <2> QED BY <1>10, <2>1, <2>2 DEF Objects!Finish, ObjectInv, StorageTyped, CallFields
  <1>11. \A p \in Paths : Objects!IsFile(p) /\ p \in Made[b] => Objects!Crossed(b)
    BY DEF ObjectInv, DiskInv, Objects!IsFile, Objects!Crossed
  <1>12. /\ json.at \in Paths /\ Made[b] \subseteq Paths /\ json.through \subseteq Made[b]
         /\ Made[b] \subseteq Objects!DirectoryNames
    BY <1>1, PathsNamed DEF NamedPath
  <1>13. ASSUME NEW d \in Clients, Objects!MakeDirectories(d) PROVE MayEnd
    <2>1. CASE Objects!BucketExists(call[d].bucket) /\ Objects!Finish(d, "conflict") /\ UNCHANGED disk
      BY <1>10, <2>1 DEF Objects!BucketExists, Objects!Exists
    <2>2. CASE (\E p \in Made[call[d].bucket] : Objects!IsFile(p)) /\ Objects!Finish(d, "error")
      BY <1>10, <1>11, <1>12, <2>2
    <2> QED BY <1>3, <1>13, <2>1, <2>2 DEF Objects!MakeDirectories
  <1>14. ASSUME NEW d \in Clients, Objects!WriteBucketJson(d) PROVE MayEnd
    <2>1. CASE Objects!Blocked(JsonPath[call[d].bucket]) /\ Objects!Finish(d, "error")
      <3>1. d = c /\ call'[c].answer = "error" /\ Objects!Blocked(json)
        BY <1>10, <2>1
      <3>2. disk[json.at].is = "dir" => json.at \in Objects!DirectoryNames
        BY <1>12 DEF ObjectInv, DiskInv
      <3>3. Objects!Crossed(b)
        BY <1>11, <1>12, <3>1, <3>2 DEF Objects!Blocked, Objects!IsDirectory, Objects!Crossed
      <3> QED BY <3>1, <3>3
    <2>2. CASE /\ ~Objects!Blocked(JsonPath[call[d].bucket]) /\ Objects!Finish(d, "ok")
               /\ Objects!Write(JsonPath[call[d].bucket], Objects!Entry("json", ""))
      <3>1. d = c
        BY <1>10, <2>2
      <3>2. disk'[json.at] = Objects!Entry("json", "")
        BY <1>1, <2>2, <3>1, PathsNamed, EntriesOfFiles, WritingFile DEF ObjectInv
      <3> QED BY <3>2, EntriesOfFiles DEF Contained
    <2> QED BY <1>14, <2>1, <2>2 DEF Objects!WriteBucketJson
  <1> QED BY <1>6, <1>7, <1>8, <1>9, <1>13, <1>14 DEF Objects!Next, Objects!Act

\* A create that was cut off can be repeated: a create that is answered leaves
\* the bucket there, whatever crashes have left on the disk, unless another name
\* leads to one of the bucket's own paths.
THEOREM CreateCanBeRepeated == PartSpec => CreateWorks
  <1> DEFINE Counted == crashes \in Nat
  <1>1. PartInit => Counted
    BY DEF PartInit, Objects!Init
  <1>2. Counted /\ [PartNext]_<<vars, objects, part>> => Counted'
    <2> SUFFICES ASSUME Counted, [PartNext]_<<vars, objects, part>> PROVE Counted'
      OBVIOUS
    <2>1. CASE UNCHANGED objects
      BY <2>1 DEF objects
    <2>2. CASE Objects!Next
      <3>1. ASSUME NEW c \in Clients,
                   \/ \E r \in Objects!Requests : Objects!Begin(c, r)
                   \/ Objects!CheckAccess(c) \/ Objects!ReceiveBody(c) \/ Objects!Presign(c)
                   \/ Objects!Get(c) \/ Objects!List(c)
            PROVE  UNCHANGED crashes
        BY <3>1 DEF Objects!Begin, Objects!CheckAccess, Objects!ReceiveBody, Objects!Get, Objects!List,
            Objects!Presign, Objects!counts
      <3>2. ASSUME NEW c \in Clients,
                   \/ Objects!PutData(c) \/ Objects!PutMeta(c) \/ Objects!DeleteData(c) \/ Objects!DeleteMeta(c)
            PROVE  UNCHANGED crashes
        BY <3>2 DEF Objects!PutData, Objects!PutMeta, Objects!DeleteData, Objects!DeleteMeta, Objects!counts
      <3>3. ASSUME NEW c \in Clients,
                   \/ Objects!MakeDirectories(c) \/ Objects!WriteBucketJson(c)
                   \/ Objects!BeginDrop(c) \/ Objects!RemoveEntry(c) \/ Objects!EndDrop(c)
            PROVE  UNCHANGED crashes
        BY <3>3 DEF Objects!MakeDirectories, Objects!WriteBucketJson, Objects!BeginDrop, Objects!RemoveEntry,
            Objects!EndDrop, Objects!counts
      <3>4. ASSUME \/ \E s \in Services, b1 \in using.buckets, a \in Objects!Accesses : Objects!ChangeBinding(s, <<b1, a>>)
                   \/ Objects!Tick \/ Objects!Crash
            PROVE  UNCHANGED crashes \/ crashes' = crashes + 1
        BY <3>4 DEF Objects!ChangeBinding, Objects!Tick, Objects!Crash, Objects!counts
      <3> QED BY <2>2, <3>1, <3>2, <3>3, <3>4 DEF Objects!Next, Objects!Act
    <2> QED BY <2>1, <2>2 DEF PartNext
  <1>3. ObjectInv /\ Counted /\ [PartNext]_<<vars, objects, part>> =>
            [\A c \in Clients :
                call[c].op = "create" /\ call[c].at # "done" /\ call'[c].at = "done" /\ crashes' = crashes =>
                    \/ disk'[JsonPath[call[c].bucket].at].is # "none"
                    \/ call'[c].answer = "error" /\ Objects!Crossed(call[c].bucket)]_(Objects!vars)
    <2> SUFFICES ASSUME ObjectInv, Counted, [PartNext]_<<vars, objects, part>>, ~UNCHANGED Objects!vars,
                        NEW c \in Clients, call[c].op = "create", call[c].at # "done", call'[c].at = "done",
                        crashes' = crashes
                 PROVE  \/ disk'[JsonPath[call[c].bucket].at].is # "none"
                        \/ call'[c].answer = "error" /\ Objects!Crossed(call[c].bucket)
      OBVIOUS
    <2>1. CASE UNCHANGED objects
      BY <2>1 DEF objects, Objects!vars, Objects!auth, Objects!counts
    <2>2. CASE Objects!Next
      BY <2>2, CreateEnds
    <2> QED BY <2>1, <2>2 DEF PartNext
  <1> QED BY <1>1, <1>2, <1>3, ObjectsOfPart, PTL DEF PartSpec, CreateWorks, Objects!CreateWorks

\* A behaviour of the two machines is one of each.
THEOREM EachPartRuns == PartSpec => Spec /\ Objects!Spec
  <1>1. PartInit => Init /\ Objects!Init
    BY DEF PartInit
  <1>2. [PartNext]_<<vars, objects, part>> => [Next]_vars /\ [Objects!Next]_(Objects!vars)
    BY DEF PartNext, objects, Objects!vars, Objects!auth, Objects!counts
  <1> QED BY <1>1, <1>2, PTL DEF PartSpec, Spec, Objects!Spec
=============================================================================
