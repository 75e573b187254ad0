------------------------------ MODULE Manifests ------------------------------
(***************************************************************************)
(* Manifests (iac/, api/iac.py) and secrets (secrets/, api/secrets.py) in  *)
(* the control plane: a request carries a list of documents, which are     *)
(* applied, destroyed or compared one after the other.  Each read and      *)
(* write of a store is awaited, buckets alone are handled at once; other   *)
(* requests, and replicas that start and read their secrets, come in       *)
(* between.                                                                *)
(*                                                                         *)
(* What is stored is a function from things, <<kind, name>>, to the        *)
(* document last written for them.  A row's observed part is the matter of *)
(* the module Platform.                                                    *)
(***************************************************************************)
EXTENDS Naturals, Sequences, FiniteSets, SequencesExt

CONSTANTS
    Clients,
    Absent,
    Scenarios  \* who asks for what, and what goes wrong

\* Kinds of documents: a bundle of secrets has no name, a Service says what it
\* refers to, a Secret has a value.
Items(doc) == IF doc.kind = "Secrets" THEN doc.secrets ELSE <<doc>>
Documents == UNION {UNION {Range(docs) : docs \in w.manifests} : w \in Scenarios}
Thing(item) == <<item.kind, item.name>>
Bound(doc) ==
    IF doc.kind # "Service" THEN {}
    ELSE {<<"Bucket", b>> : b \in doc.buckets} \cup {<<"Database", d>> : d \in doc.databases}
             \cup {<<"Service", s>> : s \in doc.callers}
Things == UNION {{Thing(item) : item \in Range(Items(doc))} \cup Bound(doc)
                     \cup (IF doc.kind = "Service" THEN {<<"Secret", s>> : s \in Range(doc.secretRefs)} ELSE {})
                 : doc \in Documents}

\* A bundle without secrets, of which there is nothing to apply, is left out.
Listed(items) == items # <<>> /\ items \in Seq(Range(items)) /\ Absent \notin Range(items)
Bundle(doc) == doc.kind = "Secrets" => Listed(doc.secrets) /\ \A item \in Range(doc.secrets) : item.kind = "Secret"
Finite(doc) == doc.kind = "Service" => IsFiniteSet(doc.databases) /\ IsFiniteSet(doc.callers)

\* The lists of documents that clients send; "post" creates one secret;
\* "refused": a store or the event bus raises; whether replicas start meanwhile.
Scenario(w) ==
    /\ w.clients \subseteq Clients
    /\ \A docs \in w.manifests : Listed(docs) /\ \A doc \in Range(docs) : Bundle(doc) /\ Finite(doc)
    /\ w.ops \subseteq {"apply", "destroy", "diff", "post"}
    /\ w.faults \subseteq {"refused", "crash"}
    /\ w.replicate \in BOOLEAN
    /\ w.maxRequests \in Nat /\ w.maxFaults \in Nat

ASSUME ManifestsAssumption == \A w \in Scenarios : Scenario(w)

VARIABLES
    store,     \* what is stored of each thing
    request,   \* of each client: what it asked and how far it is
    replica,   \* a replica that starts: the secrets to read and those found
    wanted,    \* history: the secrets created and not destroyed since
    requests, faults,
    scenario   \* the one this behaviour follows

vars == <<store, request, replica, wanted, requests, faults, scenario>>

Idle == [op |-> "none", docs |-> <<>>, answers |-> <<>>, partial |-> <<>>,
         at |-> "idle", todo |-> <<>>]
NoReplica == [refs |-> <<>>, found |-> {}, due |-> {}]

Init ==
    /\ store = [t \in Things |-> Absent]
    /\ request = [c \in Clients |-> Idle]
    /\ replica = NoReplica
    /\ wanted = {}
    /\ requests = 0 /\ faults = 0
    /\ scenario \in Scenarios

Exists(t) == store[t] # Absent

\* parse_manifests has accepted the documents: an invalid one rejects them all.
Submit(c, op, docs) ==
    /\ request[c].at \in {"idle", "done", "failed"} /\ requests < scenario.maxRequests
    /\ op = "post" => Len(docs) = 1 /\ docs[1].kind = "Secret"
    /\ requests' = requests + 1
    /\ request' = [request EXCEPT ![c] = [Idle EXCEPT !.op = op, !.docs = docs, !.at = "next"]]
    /\ UNCHANGED <<store, replica, wanted, faults>>

Document(c) == request[c].docs[Len(request[c].answers) + 1]
Item(c) == Items(Document(c))[Len(request[c].partial) + 1]
At(c, op, step) == request[c].op \in op /\ request[c].at = step

Goto(c, step) == request' = [request EXCEPT ![c].at = step]

\* The results of a document are there; the next one follows.
Finish(c, results) ==
    LET answers == Append(request[c].answers, results) IN
    request' = [request EXCEPT ![c].answers = answers, ![c].partial = <<>>,
        ![c].at = IF Len(answers) = Len(request[c].docs) THEN "done" ELSE "next"]

\* A bundle goes on with its next secret.
Answer(c, result) ==
    LET results == Append(request[c].partial, result) IN
    IF Len(results) < Len(Items(Document(c)))
    THEN request' = [request EXCEPT ![c].partial = results, ![c].at = "next"]
    ELSE Finish(c, results)

\* An exception: one error for the whole document, whatever was done of it.
Fail(c) == Finish(c, <<"error">>)

ApplyBucket(c) ==
    /\ At(c, {"apply"}, "next") /\ Item(c).kind = "Bucket"
    /\ store' = [store EXCEPT ![Thing(Item(c))] = Item(c)]
    /\ IF Exists(Thing(Item(c))) THEN Answer(c, "unchanged") ELSE Goto(c, "emit")
    /\ UNCHANGED <<replica, wanted, requests, faults>>

\* What a service refers to and the documents of its request do not declare.
Unresolved(c) == Bound(Item(c)) \ {Thing(d) : d \in {e \in Range(request[c].docs) : e.kind # "Secrets"}}

\* Mutant of ValidateService: what is to be looked up is only the databases.
ValidateService_Databases(c) ==
    /\ At(c, {"apply"}, "next") /\ Item(c).kind = "Service"
    /\ request' = [request EXCEPT ![c].at = "validate",
           ![c].todo = SetToSeq({t \in Unresolved(c) : t[1] = "Database"})]
    /\ UNCHANGED <<store, replica, wanted, requests, faults>>

\* _validate_service_bindings: the buckets at once, then the databases and the
\* callers one by one.
ValidateService(c) ==
    /\ At(c, {"apply"}, "next") /\ Item(c).kind = "Service"
    /\ IF \E t \in Unresolved(c) : t[1] = "Bucket" /\ ~Exists(t) THEN Fail(c)
       ELSE request' = [request EXCEPT ![c].at = "validate",
                ![c].todo = SetToSeq({t \in Unresolved(c) : t[1] = "Database"}) \o
                            SetToSeq({t \in Unresolved(c) : t[1] = "Service"})]
    /\ UNCHANGED <<store, replica, wanted, requests, faults>>

CheckBinding(c) ==
    /\ At(c, {"apply"}, "validate") /\ request[c].todo # <<>>
    /\ IF Exists(Head(request[c].todo)) THEN request' = [request EXCEPT ![c].todo = Tail(@)]
       ELSE Fail(c)
    /\ UNCHANGED <<store, replica, wanted, requests, faults>>

\* What is stored decides only between created and updated.
ReadRow(c) ==
    /\ \/ At(c, {"apply"}, "next") /\ Item(c).kind = "Database"
       \/ At(c, {"apply"}, "validate") /\ request[c].todo = <<>>
    /\ Goto(c, IF Exists(Thing(Item(c))) THEN "update" ELSE "create row")
    /\ UNCHANGED <<store, replica, wanted, requests, faults>>

WriteRow(c) ==
    /\ request[c].at \in {"update", "create row"}
    /\ store' = [store EXCEPT ![Thing(Item(c))] = Item(c)]
    /\ Answer(c, IF request[c].at = "update" THEN "updated" ELSE "created")
    /\ UNCHANGED <<replica, wanted, requests, faults>>

\* _apply_secret, and create_secret of the API, which refuses what exists.
LookupSecret(c) ==
    /\ At(c, {"apply", "post"}, "next") /\ Item(c).kind = "Secret"
    /\ IF ~Exists(Thing(Item(c))) THEN Goto(c, "create")
       ELSE IF request[c].op = "post" THEN Answer(c, "conflict") ELSE Goto(c, "delete")
    /\ UNCHANGED <<store, replica, wanted, requests, faults>>

DropSecret(c) ==
    /\ At(c, {"apply"}, "delete")
    /\ store' = [store EXCEPT ![Thing(Item(c))] = Absent]
    /\ Goto(c, "recreate")
    /\ UNCHANGED <<replica, wanted, requests, faults>>

\* Mutant of CreateSecret: an update stops after the delete.
CreateSecret_NotAgain(c) ==
    /\ request[c].at \in {"create", "recreate"}
    /\ IF request[c].at = "create" THEN store' = [store EXCEPT ![Thing(Item(c))] = Item(c)] ELSE UNCHANGED store
    /\ wanted' = wanted \cup {Item(c).name}
    /\ IF request[c].at = "recreate" THEN Answer(c, "updated")
       ELSE IF request[c].op = "post" THEN Answer(c, "created") ELSE Goto(c, "emit")
    /\ UNCHANGED <<replica, requests, faults>>

CreateSecret(c) ==
    /\ request[c].at \in {"create", "recreate"}
    /\ store' = [store EXCEPT ![Thing(Item(c))] = Item(c)]
    /\ wanted' = wanted \cup {Item(c).name}
    /\ IF request[c].at = "recreate" THEN Answer(c, "updated")
       ELSE IF request[c].op = "post" THEN Answer(c, "created") ELSE Goto(c, "emit")
    /\ UNCHANGED <<replica, requests, faults>>

\* The event of a new bucket or secret has been published.
Emit(c) ==
    /\ request[c].at = "emit"
    /\ Answer(c, "created")
    /\ UNCHANGED <<store, replica, wanted, requests, faults>>

Unstore(c) ==
    /\ store' = [store EXCEPT ![Thing(Item(c))] = Absent]
    /\ wanted' = IF Item(c).kind = "Secret" THEN wanted \ {Item(c).name} ELSE wanted
    /\ Answer(c, "deleted")

\* _destroy_one, and delete_secret of the API.  Buckets are removed at once, anything else in two steps.
LookupToDestroy(c) ==
    /\ At(c, {"destroy"}, "next")
    /\ IF ~Exists(Thing(Item(c))) THEN Answer(c, "not found") /\ UNCHANGED <<store, wanted>>
       ELSE IF Item(c).kind = "Bucket" THEN Unstore(c)
       ELSE Goto(c, "destroy") /\ UNCHANGED <<store, wanted>>
    /\ UNCHANGED <<replica, requests, faults>>

Destroy(c) ==
    /\ At(c, {"destroy"}, "destroy")
    /\ Unstore(c)
    /\ UNCHANGED <<replica, requests, faults>>

\* _fetch_current always answers None, so a difference is a creation; a bundle
\* has no metadata, which raises outside any try and fails the request.
Diff(c) ==
    /\ At(c, {"diff"}, "next")
    /\ IF \E d \in Range(request[c].docs) : d.kind = "Secrets" THEN Goto(c, "failed")
       ELSE request' = [request EXCEPT ![c].at = "done",
                ![c].answers = [i \in DOMAIN request[c].docs |-> <<"create">>]]
    /\ UNCHANGED <<store, replica, wanted, requests, faults>>

\* The store or the event bus raises; nothing is changed by the call.
Refused(c) ==
    /\ "refused" \in scenario.faults /\ faults < scenario.maxFaults
    /\ request[c].op \in {"apply", "destroy", "post"} /\ request[c].at \notin {"idle", "done", "failed"}
    /\ request[c].at = "next" => Item(c).kind # "Bucket"
    /\ At(c, {"apply"}, "next") => Item(c).kind # "Service"
    /\ faults' = faults + 1
    /\ Fail(c)
    /\ UNCHANGED <<store, replica, wanted, requests>>

Crash ==
    /\ "crash" \in scenario.faults /\ faults < scenario.maxFaults
    /\ faults' = faults + 1
    /\ request' = [c \in Clients |-> Idle]
    /\ UNCHANGED <<store, replica, wanted, requests>>

\* The orchestrator starts a replica: inject_into_env, one secret at a time.
StartReplica(doc) ==
    /\ scenario.replicate /\ replica = NoReplica
    /\ doc.kind = "Service" /\ store[Thing(doc)] = doc
    /\ replica' = [refs |-> doc.secretRefs, found |-> {}, due |-> Range(doc.secretRefs) \cap wanted]
    /\ UNCHANGED <<store, request, wanted, requests, faults>>

InjectSecret ==
    /\ replica.refs # <<>>
    /\ LET s == Head(replica.refs) IN
       replica' = [replica EXCEPT !.refs = Tail(@),
                                  !.found = IF Exists(<<"Secret", s>>) THEN @ \cup {s} ELSE @]
    /\ UNCHANGED <<store, request, wanted, requests, faults>>

Handle(c) ==
    \/ ApplyBucket(c) \/ ValidateService(c) \/ CheckBinding(c) \/ ReadRow(c) \/ WriteRow(c)
    \/ LookupSecret(c) \/ DropSecret(c) \/ CreateSecret(c) \/ Emit(c)
    \/ LookupToDestroy(c) \/ Destroy(c) \/ Diff(c)

Act ==
    \/ \E c \in scenario.clients, op \in scenario.ops, docs \in scenario.manifests : Submit(c, op, docs)
    \/ \E c \in Clients : Handle(c) \/ Refused(c)
    \/ Crash
    \/ \E doc \in Documents : StartReplica(doc)
    \/ InjectSecret

Next == Act /\ UNCHANGED scenario

Spec == Init /\ [][Next]_vars

----------------------------------------------------------------------------
(* Properties *)

TypeOK ==
    /\ store \in [Things -> UNION {Range(Items(d)) : d \in Documents} \cup {Absent}]
    /\ \A t \in Things : Exists(t) => Thing(store[t]) = t
    /\ \A c \in Clients :
        /\ request[c].op \in scenario.ops \cup {"none"}
        /\ request[c].at \in {"idle", "next", "validate", "update", "create row", "create", "delete",
                              "recreate", "emit", "destroy", "done", "failed"}
        /\ Len(request[c].answers) <= Len(request[c].docs)

\* One client sends its requests one after the other.
OneAtATime == \A c, d \in scenario.clients : c = d

Ended(c) == request[c].at \in {"done", "failed"}

\* Whatever is raised on the way, a request that ends has answered every one
\* of its documents, a bundle with a result per secret or with one error.
EveryDocumentAnswered ==
    \A c \in Clients : request[c].at = "done" =>
        /\ Len(request[c].answers) = Len(request[c].docs)
        /\ \A i \in DOMAIN request[c].docs :
               \/ request[c].answers[i] = <<"error">>
               \/ Len(request[c].answers[i]) = Len(Items(request[c].docs[i]))

\* A secret that was created is there until it is destroyed, save while some
\* request is between its delete and its create, whatever other requests do
\* to the same secret: only a fault may lose one.
SecretsKept ==
    \A s \in wanted :
        \/ Exists(<<"Secret", s>>)
        \/ faults > 0
        \/ \E c \in Clients : request[c].at = "recreate" /\ Item(c).name = s

\* A later item of the same request is about the same thing.
Repeated(docs, i, n) ==
    \E j \in DOMAIN docs : \E m \in DOMAIN Items(docs[j]) :
        /\ i < j \/ (i = j /\ n < m)
        /\ Thing(Items(docs[j])[m]) = Thing(Items(docs[i])[n])

\* With one request at a time an answer is the truth: what was applied is
\* stored as the last document that names it says, what was destroyed is gone.
AnswersTrue ==
    OneAtATime => \A c \in Clients : Ended(c) /\ request[c].op \in {"apply", "destroy"} =>
        \A i \in DOMAIN request[c].docs : request[c].answers[i] # <<"error">> =>
            \A n \in DOMAIN Items(request[c].docs[i]) :
                LET item == Items(request[c].docs[i])[n] IN
                \/ Repeated(request[c].docs, i, n)
                \/ store[Thing(item)] = IF request[c].op = "apply" THEN item ELSE Absent

\* With one request at a time, everything an accepted service refers to
\* exists when the request ends, unless the request reports an error for the
\* very document that was to create it.
BindingsBacked ==
    OneAtATime => \A c \in Clients : Ended(c) /\ request[c].op = "apply" =>
        \A i \in DOMAIN request[c].docs : request[c].answers[i] # <<"error">> =>
            \A t \in Bound(request[c].docs[i]) :
                \/ Exists(t)
                \/ \E j \in DOMAIN request[c].docs : /\ request[c].docs[j].kind # "Secrets"
                                                    /\ Thing(request[c].docs[j]) = t
                                                    /\ request[c].answers[j] = <<"error">>

\* "secretRefs: platform secrets injected as env vars" (docs/manifests.md): a
\* replica has the secrets of its service that were there when it started and
\* that nobody has destroyed since.
SecretsInjected ==
    replica.refs = <<>> => replica.due \cap wanted \subseteq replica.found

\* "aws-light diff examples/combined-stack.yaml" (docs/operations.md): a diff
\* of documents that can be applied is answered for each of them.
DiffAnswered == \A c \in Clients : request[c].at # "failed"
=============================================================================
