---------------------------- MODULE ObjectStorage ----------------------------
(***************************************************************************)
(* Buckets and objects (storage/, api/storage.py): an object is two files, *)
(* its data and its metadata, written and removed one after the other; a   *)
(* bucket is a directory that counts once its bucket.json is there.        *)
(*                                                                         *)
(* Keys are joined to paths as they come (StoragePaths).  So a key may lie *)
(* below another one's file, two keys may name one file, and a key may     *)
(* lead out of its bucket, into another one: every name stands for the     *)
(* file that the file system finds under it.                               *)
(*                                                                         *)
(* The file operations of a handler have no await between them, so nothing *)
(* but a crash comes in between: busy is the client whose handler runs.    *)
(* Before them a handler awaits the service row that grants access and the *)
(* body.                                                                   *)
(***************************************************************************)
EXTENDS Naturals, FiniteSets

CONSTANTS
    Clients, Nobody, Services, Values, Buckets, Keys,
    Paths, Above,         \* of files and directories, and the directories each lies in
    BucketPath, JsonPath, \* what the names of each bucket lead to, and through
    ObjectPath, MetaPath, \* and those of each key in it
    Made, ListedPaths,         \* the directories of a bucket; what a listing reads
    Lifetime,
    Scenarios             \* who asks for what

Writes == {"put", "delete"}
Reads == {"get", "list"}

Scenario ==
    [clients : SUBSET Clients, buckets : SUBSET Buckets, keys : SUBSET Keys, values : SUBSET Values,
     kinds : SUBSET {"user", "workload", "link"}, ops : SUBSET (Writes \cup Reads \cup {"create", "drop", "presign"}),
     maxTime : Nat, maxRequests : Nat, maxCrashes : Nat]

Object == Buckets \X Keys
Inside(b) == {p \in Paths : p = BucketPath[b].at \/ BucketPath[b].at \in Above[p]}
FileNames ==
    {JsonPath[b].at : b \in Buckets} \cup {ObjectPath[x].at : x \in Object} \cup {MetaPath[x].at : x \in Object}
DirectoryNames ==
    UNION ({Made[b] : b \in Buckets} \cup {ObjectPath[x].through : x \in Object} \cup {MetaPath[x].through : x \in Object})

\* A name leads through every directory above what it leads to or through; the
\* metadata of a key is not its data; a bucket is not the storage root.
Path == [at : Paths, through : SUBSET Paths]
Closed(path) == \A p \in path.through \cup {path.at} : Above[p] \subseteq path.through
PathsAssumption ==
    /\ Above \in [Paths -> SUBSET Paths]
    /\ BucketPath \in [Buckets -> Path] /\ JsonPath \in [Buckets -> Path]
    /\ ObjectPath \in [Object -> Path] /\ MetaPath \in [Object -> Path]
    /\ Made \in [Buckets -> SUBSET Paths] /\ ListedPaths \in [Buckets -> SUBSET Paths]
    /\ \A b \in Buckets : /\ Closed(BucketPath[b]) /\ Closed(JsonPath[b])
                           /\ JsonPath[b].through \cup {BucketPath[b].at} \subseteq Made[b]
                           /\ \A p \in Made[b] : Above[p] \subseteq Made[b]
    /\ \A x \in Object : /\ Closed(ObjectPath[x]) /\ Closed(MetaPath[x])
                          /\ ObjectPath[x].at # MetaPath[x].at

\* Of the constants; the module that gives them their values assumes it.
StorageAssumption ==
    /\ Nobody \notin Clients /\ <<>> \notin Keys /\ <<>> \notin Buckets
    /\ Values \cap {"", "none", "?"} = {}
    /\ Lifetime \in Nat /\ Scenarios \subseteq Scenario
    /\ PathsAssumption

VARIABLES
    disk,      \* what is at each path
    request,   \* of each client
    busy,      \* the client whose handler is at its file operations, if any
    bindings,  \* of each service: <<bucket, access>> of its row
    links,     \* the presigned links given out
    now,
    answered,  \* history: what the last answer said of an object, "?" when it is open
    allowed,   \* history: the bindings a request could have been checked against
    requests, crashes,
    scenario   \* the one this behaviour follows

auth == <<bindings, allowed>>
counts == <<requests, crashes>>
vars == <<disk, request, busy, auth, links, now, answered, counts, scenario>>

Entry(what, value) == [is |-> what, value |-> value]
Nothing == Entry("none", "")
Directory == Entry("dir", "")
Torn == Entry("torn", "")

Idle == [kind |-> "user", op |-> "none", bucket |-> <<>>, key |-> <<>>, value |-> "", service |-> "",
         at |-> "done", answer |-> "", time |-> 0]
Accesses == {"read", "write"}

Init ==
    /\ disk = [p \in Paths |-> Nothing]
    /\ request = [c \in Clients |-> Idle]
    /\ busy = Nobody
    /\ bindings = [s \in Services |-> {}]
    /\ links = {} /\ now = 0
    /\ answered = [x \in Object |-> "none"]
    /\ allowed = [c \in Clients |-> {}]
    /\ requests = 0 /\ crashes = 0
    /\ scenario \in Scenarios

----------------------------------------------------------------------------
(* Up to the file operations *)

Access(op) == IF op \in Writes THEN "write" ELSE "read"

\* Users are authenticated, and a link is good for one object until it expires.
MayAsk(r) ==
    CASE r.kind = "user" -> r.op \in scenario.ops
      [] r.kind = "workload" -> r.op \in (Writes \cup Reads) \cap scenario.ops
      [] OTHER -> /\ r.op = "get"
                  /\ \E l \in links : l.bucket = r.bucket /\ l.key = r.key /\ now <= l.expires

Begin(c, r) ==
    /\ request[c].at = "done" /\ requests < scenario.maxRequests
    /\ c \in scenario.clients /\ MayAsk(r)
    /\ requests' = requests + 1
    /\ request' = [request EXCEPT ![c] = [r EXCEPT !.time = IF r.kind = "link" THEN now ELSE 0, !.answer = "", !.at =
           IF r.kind = "workload" THEN "access" ELSE IF r.op = "put" THEN "body" ELSE "run"]]
    /\ allowed' = [allowed EXCEPT ![c] = IF r.kind = "workload" THEN bindings[r.service] ELSE {}]
    /\ UNCHANGED <<disk, busy, bindings, links, now, answered, crashes>>

Finish(c, answer) == request' = [request EXCEPT ![c].at = "done", ![c].answer = answer]
Goto(c, step) == request' = [request EXCEPT ![c].at = step]

\* _require_bucket_access: the row of the service whose token it is is there,
\* and names the bucket as the request does.
CheckAccess(c) ==
    /\ request[c].at = "access"
    /\ IF <<request[c].bucket, Access(request[c].op)>> \in bindings[request[c].service]
       THEN Goto(c, IF request[c].op = "put" THEN "body" ELSE "run")
       ELSE Finish(c, "forbidden")
    /\ UNCHANGED <<disk, busy, auth, links, now, answered, counts>>

ReceiveBody(c) ==
    /\ request[c].at = "body"
    /\ Goto(c, "run")
    /\ UNCHANGED <<disk, busy, auth, links, now, answered, counts>>

----------------------------------------------------------------------------
(* The file system *)

IsDirectory(p) == disk[p].is = "dir"
IsFile(p) == disk[p].is \notin {"none", "dir"}
Reachable(path) == \A p \in path.through : IsDirectory(p)
Exists(path) == Reachable(path) /\ disk[path.at].is # "none"
BucketExists(b) == Exists(JsonPath[b])

\* Making directories fails at a file that is in the way, and writing a file at
\* a directory.
Blocked(path) ==
    (\E p \in path.through : IsFile(p)) \/ IsDirectory(path.at) \/ path.at \in path.through

WithDirectories(paths) == [p \in Paths |-> IF p \in paths THEN Directory ELSE disk[p]]
Write(path, entry) == disk' = [WithDirectories(path.through) EXCEPT ![path.at] = entry]

\* Cut off, or after a failure, some of the directories have been made.
MakeSome(paths) ==
    \E made \in SUBSET {p \in paths : disk[p].is = "none"} :
        /\ \A p \in made, q \in Paths : q \in Above[p] => IsDirectory(q) \/ q \in made
        /\ disk' = WithDirectories(made)

----------------------------------------------------------------------------
(* The file operations *)

Runs(c, op) == busy = Nobody /\ request[c].at = "run" /\ request[c].op = op
Continues(c, op, step) == busy = c /\ request[c].at = step /\ request[c].op = op
Asked(c) == <<request[c].bucket, request[c].key>>

\* What was answered of the objects that have none of these files stays known.
Files(x) == {ObjectPath[x].at, MetaPath[x].at}
Relies(x) == Files(x) \cup {JsonPath[x[1]].at}
Opened(paths) == [x \in Object |-> IF Relies(x) \cap paths # {} THEN "?" ELSE answered[x]]

PutData(c) ==
    LET data == ObjectPath[Asked(c)] IN
    /\ Runs(c, "put")
    /\ IF ~BucketExists(request[c].bucket) THEN Finish(c, "not found") /\ UNCHANGED <<disk, busy, answered>>
       ELSE IF Blocked(data)
       THEN MakeSome(data.through) /\ Finish(c, "error") /\ UNCHANGED <<busy, answered>>
       ELSE /\ Write(data, Entry("data", request[c].value))
            /\ busy' = c /\ Goto(c, "meta") /\ answered' = Opened({data.at})
    /\ UNCHANGED <<auth, links, now, counts>>

\* Data that has been written stays when its metadata cannot be.
PutMeta(c) ==
    LET meta == MetaPath[Asked(c)] IN
    /\ Continues(c, "put", "meta")
    /\ busy' = Nobody
    /\ IF Blocked(meta) THEN MakeSome(meta.through) /\ Finish(c, "error") /\ UNCHANGED answered
       ELSE /\ Write(meta, Entry("meta", request[c].value)) /\ Finish(c, "ok")
            /\ answered' = [Opened({meta.at}) EXCEPT ![Asked(c)] = request[c].value]
    /\ UNCHANGED <<auth, links, now, counts>>

DeleteData(c) ==
    LET data == ObjectPath[Asked(c)] IN
    /\ Runs(c, "delete")
    /\ IF ~BucketExists(request[c].bucket) \/ ~Exists(data)
       THEN Finish(c, "not found") /\ UNCHANGED <<disk, busy, answered>>
       ELSE IF IsDirectory(data.at) THEN Finish(c, "error") /\ UNCHANGED <<disk, busy, answered>>
       ELSE /\ disk' = [disk EXCEPT ![data.at] = Nothing]
            /\ busy' = c /\ Goto(c, "meta") /\ answered' = Opened({data.at})
    /\ UNCHANGED <<auth, links, now, counts>>

\* Mutant of DeleteMeta: the metadata is left.
DeleteMeta_Left(c) ==
    /\ Continues(c, "delete", "meta")
    /\ busy' = Nobody /\ Finish(c, "ok") /\ answered' = [answered EXCEPT ![Asked(c)] = "none"]
    /\ UNCHANGED <<disk, auth, links, now, counts>>

DeleteMeta(c) ==
    LET meta == MetaPath[Asked(c)] IN
    /\ Continues(c, "delete", "meta")
    /\ busy' = Nobody
    /\ IF Exists(meta) /\ IsDirectory(meta.at) THEN Finish(c, "error") /\ UNCHANGED <<disk, answered>>
       ELSE /\ disk' = IF Exists(meta) THEN [disk EXCEPT ![meta.at] = Nothing] ELSE disk
            /\ Finish(c, "ok") /\ answered' = [Opened({meta.at}) EXCEPT ![Asked(c)] = "none"]
    /\ UNCHANGED <<auth, links, now, counts>>

Get(c) ==
    LET data == ObjectPath[Asked(c)] IN
    /\ Runs(c, "get")
    /\ Finish(c, IF ~BucketExists(request[c].bucket) \/ ~Exists(data) THEN "not found"
                 ELSE IF IsDirectory(data.at) THEN "error" ELSE "ok")
    /\ UNCHANGED <<disk, busy, auth, links, now, answered, counts>>

\* A listing reads all that it finds as metadata: it fails on what is torn and on
\* a directory, and, unless it happens to read as metadata, on another file.
List(c) ==
    LET found == {disk[p].is : p \in ListedPaths[request[c].bucket]} IN
    /\ Runs(c, "list")
    /\ IF ~BucketExists(request[c].bucket) THEN Finish(c, "not found")
       ELSE \/ found \cap {"torn", "dir", "json"} = {} /\ Finish(c, "ok")
            \/ found \cap {"torn", "dir", "json", "data"} # {} /\ Finish(c, "error")
    /\ UNCHANGED <<disk, busy, auth, links, now, answered, counts>>

\* Mutant of MakeDirectories: a directory that is there is taken for a bucket.
MakeDirectories_Exists(c) ==
    LET b == request[c].bucket IN
    /\ Runs(c, "create")
    /\ IF Exists(BucketPath[b]) THEN Finish(c, "conflict") /\ UNCHANGED <<disk, busy>>
       ELSE /\ disk' = WithDirectories(Made[b])
            /\ busy' = c /\ Goto(c, "json")
    /\ UNCHANGED <<auth, links, now, answered, counts>>

MakeDirectories(c) ==
    LET b == request[c].bucket IN
    /\ Runs(c, "create")
    /\ IF BucketExists(b) THEN Finish(c, "conflict") /\ UNCHANGED <<disk, busy>>
       ELSE IF \E p \in Made[b] : IsFile(p)
       THEN MakeSome(Made[b]) /\ Finish(c, "error") /\ UNCHANGED busy
       ELSE /\ disk' = WithDirectories(Made[b])
            /\ busy' = c /\ Goto(c, "json")
    /\ UNCHANGED <<auth, links, now, answered, counts>>

\* A key may name the bucket.json.
OpenedBy(json) == [x \in Object |-> IF json.at \in Files(x) THEN "?" ELSE answered[x]]

\* A bucket.json that is torn counts as there: a create that finds it is a
\* conflict, and a listing of the buckets fails.
WriteBucketJson(c) ==
    LET json == JsonPath[request[c].bucket] IN
    /\ Continues(c, "create", "json")
    /\ busy' = Nobody
    /\ IF Blocked(json) THEN Finish(c, "error") /\ UNCHANGED <<disk, answered>>
       ELSE Write(json, Entry("json", "")) /\ Finish(c, "ok") /\ answered' = OpenedBy(json)
    /\ UNCHANGED <<auth, links, now, counts>>

BeginDrop(c) ==
    LET b == request[c].bucket IN
    /\ Runs(c, "drop")
    /\ IF ~Exists(BucketPath[b]) THEN Finish(c, "not found") /\ UNCHANGED <<busy, answered>>
       ELSE IF ~IsDirectory(BucketPath[b].at) THEN Finish(c, "error") /\ UNCHANGED <<busy, answered>>
       ELSE busy' = c /\ Goto(c, "rmtree") /\ answered' = Opened(Inside(b))
    /\ UNCHANGED <<disk, auth, links, now, counts>>

\* rmtree removes one entry after the other, in the order of the directory, and
\* a directory once nothing is below it.
RemoveEntry(c) ==
    LET b == request[c].bucket IN
    /\ Continues(c, "drop", "rmtree")
    /\ \E p \in Inside(b) \ {BucketPath[b].at} :
           /\ disk[p].is # "none" /\ \A q \in Paths : p \in Above[q] => disk[q].is = "none"
           /\ disk' = [disk EXCEPT ![p] = Nothing]
    /\ UNCHANGED <<request, busy, auth, links, now, answered, counts>>

EndDrop(c) ==
    LET b == request[c].bucket IN
    /\ Continues(c, "drop", "rmtree")
    /\ \A p \in Inside(b) \ {BucketPath[b].at} : disk[p].is = "none"
    /\ disk' = [disk EXCEPT ![BucketPath[b].at] = Nothing]
    /\ busy' = Nobody /\ Finish(c, "ok")
    /\ answered' = [x \in Object |-> IF Files(x) \subseteq Inside(b) THEN "none" ELSE answered[x]]
    /\ UNCHANGED <<auth, links, now, counts>>

Presign(c) ==
    /\ Runs(c, "presign")
    /\ IF ~BucketExists(request[c].bucket) \/ ~Exists(ObjectPath[Asked(c)])
       THEN Finish(c, "not found") /\ UNCHANGED links
       ELSE /\ Finish(c, "ok")
            /\ links' = links \cup {[bucket |-> request[c].bucket, key |-> request[c].key, expires |-> now + Lifetime]}
    /\ UNCHANGED <<disk, busy, auth, now, answered, counts>>

----------------------------------------------------------------------------

\* The services' rows change by other requests.
ChangeBinding(s, binding) ==
    /\ "workload" \in scenario.kinds
    /\ bindings' = [bindings EXCEPT ![s] = IF binding \in @ THEN @ \ {binding} ELSE @ \cup {binding}]
    /\ allowed' = [c \in Clients |-> IF request[c].service = s THEN allowed[c] \cup bindings'[s] ELSE allowed[c]]
    /\ UNCHANGED <<disk, request, busy, links, now, answered, counts>>

Tick ==
    /\ now < scenario.maxTime /\ now' = now + 1
    /\ UNCHANGED <<disk, request, busy, auth, links, answered, counts>>

\* The process dies among the directories that a handler makes, or in the
\* middle of a write: the file is there and its content is not.
CutOff(c) ==
    LET data == ObjectPath[Asked(c)]  meta == MetaPath[Asked(c)]  b == request[c].bucket IN
    \/ /\ Runs(c, "put") /\ BucketExists(b)
       /\ \/ MakeSome(data.through) /\ UNCHANGED answered
          \/ ~Blocked(data) /\ Write(data, Torn) /\ answered' = Opened({data.at})
    \/ /\ Continues(c, "put", "meta")
       /\ \/ MakeSome(meta.through) /\ UNCHANGED answered
          \/ ~Blocked(meta) /\ Write(meta, Torn) /\ answered' = Opened({meta.at})
    \/ Runs(c, "create") /\ ~BucketExists(b) /\ MakeSome(Made[b]) /\ UNCHANGED answered
    \/ Continues(c, "create", "json") /\ ~Blocked(JsonPath[b]) /\ Write(JsonPath[b], Torn) /\ answered' = OpenedBy(JsonPath[b])

Crash ==
    /\ crashes < scenario.maxCrashes /\ crashes' = crashes + 1
    /\ \/ UNCHANGED <<disk, answered>>
       \/ \E c \in Clients : CutOff(c)
    /\ request' = [c \in Clients |-> Idle]
    /\ busy' = Nobody
    /\ UNCHANGED <<auth, links, now, requests>>

\* What may be asked; the fields that an operation does not use are empty.
Requests ==
    {r \in [kind : scenario.kinds, op : scenario.ops, bucket : scenario.buckets, key : scenario.keys \cup {<<>>},
            value : scenario.values \cup {""}, service : Services \cup {""}, at : {"done"}, answer : {""}, time : {0}] :
        /\ (r.key = <<>>) <=> r.op \in {"create", "drop", "list"}
        /\ (r.value = "") <=> r.op # "put"
        /\ (r.service = "") <=> r.kind # "workload"}

Act ==
    \/ \E c \in Clients : \/ \E r \in Requests : Begin(c, r)
                          \/ CheckAccess(c) \/ ReceiveBody(c)
                          \/ PutData(c) \/ PutMeta(c) \/ DeleteData(c) \/ DeleteMeta(c) \/ Get(c) \/ List(c)
                          \/ MakeDirectories(c) \/ WriteBucketJson(c)
                          \/ BeginDrop(c) \/ RemoveEntry(c) \/ EndDrop(c) \/ Presign(c)
    \/ \E s \in Services, b \in scenario.buckets, a \in Accesses : ChangeBinding(s, <<b, a>>)
    \/ Tick \/ Crash

Next == Act /\ UNCHANGED scenario

Spec == Init /\ [][Next]_vars

----------------------------------------------------------------------------
(* Properties *)

Contents == [is : {"none", "dir", "torn", "data", "meta", "json"}, value : Values \cup {""}]

TypeOK ==
    /\ disk \in [Paths -> Contents]
    /\ \A p \in Paths, q \in Paths : disk[p].is # "none" /\ q \in Above[p] => IsDirectory(q)
    /\ request \in [Clients -> [kind : {"user", "workload", "link"}, op : scenario.ops \cup {"none"},
           bucket : Buckets \cup {<<>>}, key : Keys \cup {<<>>}, value : Values \cup {""}, service : Services \cup {""},
           time : 0..scenario.maxTime, at : {"done", "access", "body", "run", "meta", "json", "rmtree"},
           answer : {"", "ok", "not found", "error", "conflict", "forbidden"}]]
    /\ answered \in [Object -> Values \cup {"none", "?"}]
    /\ busy = Nobody \/ request[busy].at \in {"meta", "json", "rmtree"}

\* A key whose names lead through no directory but those its files are in, not
\* out of one and into another as x/../a does.
Straight(x) ==
    ObjectPath[x].through \subseteq Above[ObjectPath[x].at] /\ MetaPath[x].through \subseteq Above[MetaPath[x].at]

\* What was answered of an object stands: one that was put is there with its
\* metadata, in a bucket that is there; one that was deleted is not, nor its
\* metadata; whatever other keys, failing writes, dropped buckets and crashes
\* do, until the next request that writes or removes one of its files, by this
\* key or by another name of the file.  Keys with a detour are left out: the
\* deletion of one may leave the metadata.
AnswersStand ==
    busy = Nobody => \A x \in Object : answered[x] # "?" /\ Straight(x) =>
        LET data == disk[ObjectPath[x].at]  meta == disk[MetaPath[x].at] IN
        IF answered[x] = "none" THEN data.is \in {"none", "dir"} /\ meta.is \in {"none", "dir"}
        ELSE data = Entry("data", answered[x]) /\ meta = Entry("meta", answered[x]) /\ disk[JsonPath[x[1]].at].is # "none"

\* The files that a request reads or writes, and whether they are those of the
\* bucket that it names: a key may lead out of it, which nothing prevents.
Touched(r) ==
    IF r.op = "list" THEN ListedPaths[r.bucket] ELSE Files(<<r.bucket, r.key>>)
Stays(r) == Touched(r) \subseteq Inside(r.bucket)

\* A workload whose key stays in its bucket reads or writes no file but in a
\* bucket that its row granted at some instant of the request, with the verb of
\* the request; and nothing is read through a link but the object it was made
\* for, before it expires.
Justified ==
    \A c \in Clients : request[c].answer = "ok" \/ busy = c =>
        CASE request[c].kind = "workload" -> Stays(request[c]) =>
                 \A p \in Touched(request[c]) :
                     \E b \in Buckets : p \in Inside(b) /\ <<b, Access(request[c].op)>> \in allowed[c]
          [] request[c].kind = "link" ->
                 \E l \in links : /\ l.bucket = request[c].bucket /\ l.key = request[c].key
                                  /\ request[c].time <= l.expires
          [] OTHER -> TRUE

\* A key, or another bucket, may name one of a bucket's own paths.
Crossed(b) ==
    \/ \E p \in Made[b] : p \in FileNames
    \/ JsonPath[b].at \in DirectoryNames

\* A create that was cut off can be repeated: whatever a crash in a create or in
\* the middle of a removal left on the disk, a create that is answered leaves the
\* bucket there, its own or the one it found.  It may fail only where another
\* name leads to one of the bucket's own paths.
CreateWorks ==
    [][\A c \in Clients :
        request[c].op = "create" /\ request[c].at # "done" /\ request'[c].at = "done" /\ crashes' = crashes =>
            \/ disk'[JsonPath[request[c].bucket].at].is # "none"
            \/ request'[c].answer = "error" /\ Crossed(request[c].bucket)]_vars
=============================================================================
