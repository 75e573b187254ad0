----------------------------- MODULE StoragePaths -----------------------------
(***************************************************************************)
(* The paths of buckets and objects (storage/storage_service.py): names    *)
(* and keys are joined as they come, and the file system walks them.       *)
(*                                                                         *)
(* A name or a key is the sequence of what stands between its slashes, a   *)
(* path the sequence of directories from the storage root.  The storage    *)
(* stands for the whole file system, so that .. leads nowhere from its     *)
(* root: what lies outside of it is nothing to the storage.                *)
(***************************************************************************)
EXTENDS Naturals, Sequences

CONSTANTS Buckets, Keys

\* What names lead to, one after the other, and the directories they lead through.
Walk(names) ==
    LET walked[n \in 0..Len(names)] ==
            IF n = 0 THEN [at |-> <<>>, through |-> {}]
            ELSE LET w == walked[n - 1] IN
                 IF names[n] \in {"", "."} THEN w
                 ELSE [at |-> IF names[n] = ".." THEN SubSeq(w.at, 1, Len(w.at) - 1) ELSE Append(w.at, names[n]),
                       through |-> w.through \cup ({w.at} \ {<<>>})]
    IN walked[Len(names)]

\* An absolute key, whose first name is "/", begins anew.
Join(directory, key) == IF Head(key) = "/" THEN Tail(key) ELSE directory \o key
WithSuffix(key) == [key EXCEPT ![Len(key)] = @ \o ".json"]
EndsInJson(path) ==
    LET name == path[Len(path)] IN Len(name) >= 5 /\ SubSeq(name, Len(name) - 4, Len(name)) = ".json"

BucketPath == [b \in Buckets |-> Walk(b)]
JsonPath == [b \in Buckets |-> Walk(b \o <<"bucket.json">>)]
ObjectPath == [x \in Buckets \X Keys |-> Walk(Join(x[1] \o <<"objects">>, x[2]))]
MetaPath == [x \in Buckets \X Keys |-> Walk(Join(x[1] \o <<"meta">>, WithSuffix(x[2])))]

\* The directories that a bucket is made of.
Made == [b \in Buckets |-> JsonPath[b].through \cup {Walk(b \o <<"objects">>).at, Walk(b \o <<"meta">>).at}]

Paths ==
    LET Named == {BucketPath[b] : b \in Buckets} \cup {JsonPath[b] : b \in Buckets}
                 \cup {ObjectPath[x] : x \in Buckets \X Keys} \cup {MetaPath[x] : x \in Buckets \X Keys}
    IN UNION ({{n.at} \cup n.through : n \in Named} \cup {Made[b] : b \in Buckets})

\* The directories that a path lies in.
Above == [p \in Paths |-> {SubSeq(p, 1, n) : n \in 1..(Len(p) - 1)}]

\* What a listing of a bucket finds, if it is there: all that lies in the
\* directory meta and has a name that ends in .json.
ListedPaths == [b \in Buckets |-> {p \in Paths : Walk(b \o <<"meta">>).at \in Above[p] /\ EndsInJson(p)}]
=============================================================================
