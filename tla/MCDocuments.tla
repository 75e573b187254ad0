---------------------------- MODULE MCDocuments ----------------------------
(***************************************************************************)
(* The instances of what clients keep in the control plane.                *)
(***************************************************************************)
EXTENDS ClientData

CONSTANTS s1, s2, b1, d1, k1, k2, v1, v2, c1, c2

Service(name, buckets, databases, callers, refs) ==
    [kind |-> "Service", name |-> name, buckets |-> buckets, databases |-> databases,
     callers |-> callers, secretRefs |-> refs]
Secret(name, value) == [kind |-> "Secret", name |-> name, value |-> value]
BundleOf(secrets) == [kind |-> "Secrets", secrets |-> secrets]
Bucket(name) == [kind |-> "Bucket", name |-> name]
Database(name) == [kind |-> "Database", name |-> name]

\* A stack of every kind, the caller after the service it may call; parts of
\* it; and another value for what the service is.
Stacks ==
    { << Service(s1, {}, {d1}, {s2}, <<>>), Service(s2, {b1}, {}, {}, <<k1>>),
         Database(d1), Bucket(b1) >>,
      << Service(s1, {}, {d1}, {s2}, <<>>), Service(s2, {b1}, {}, {}, <<k1>>) >>,
      << BundleOf(<<Secret(k1, v1), Secret(k2, v1)>>), Bucket(b1), Secret(k1, v2) >>,
      << Service(s2, {}, {}, {}, <<>>), Secret(k1, v2), Database(d1) >> }

\* Two values of the secrets of a service.
SecretStacks ==
    { << BundleOf(<<Secret(k1, v1), Secret(k2, v1)>>), Service(s1, {}, {}, {}, <<k1, k2>>) >>,
      << Secret(k1, v2) >> }

\* One client and stacks of all kinds.
Alone == [clients |-> {c1}, manifests |-> Stacks, ops |-> {"apply", "destroy", "diff"},
          faults |-> {"refused", "crash"}, replicate |-> FALSE, maxRequests |-> 4, maxFaults |-> 2]

\* Two clients and the same secrets, read by a replica that starts.
Together == [clients |-> {c1, c2}, manifests |-> SecretStacks,
             ops |-> {"apply", "destroy", "post"}, faults |-> {"refused", "crash"},
             replicate |-> TRUE, maxRequests |-> 3, maxFaults |-> 1]

\* Applied again while a replica starts; compared with what is there.
AppliedAgain == [clients |-> {c1}, manifests |-> SecretStacks, ops |-> {"apply"}, faults |-> {},
                 replicate |-> TRUE, maxRequests |-> 2, maxFaults |-> 0]
Compared == [AppliedAgain EXCEPT !.ops = {"apply", "diff"}, !.replicate = FALSE]

ManifestScenarios == {Alone, Together}
AgainOnly == {AppliedAgain}
ComparedOnly == {Compared}

\* Buckets and keys, split at the slashes.
B1 == <<"b1">>
B2 == <<"b2">>
A == <<"a">>
StorageBuckets == {B1, B2}

\* Keys below other keys: the data of a/b is below the file of a, and the
\* metadata of a.json/b, in a.json/b.json, below that of a, in a.json.
Files == [clients |-> {c1}, buckets |-> {B1}, keys |-> {A, <<"a", "b">>, <<"a.json", "b">>}, values |-> {"v1"},
          kinds |-> {"user"}, ops |-> {"create", "drop", "put", "delete"},
          maxTime |-> 0, maxRequests |-> 5, maxCrashes |-> 1]

\* Keys that name the files of a: ./a both of them, a/ its data, and x/../a both
\* of them by way of another directory.
Names == [Files EXCEPT !.clients = {c1, c2}, !.keys = {A, <<".", "a">>, <<"a", "">>, <<"x", "..", "a">>},
                       !.values = {"v1", "v2"}, !.maxRequests = 4]

\* A key that leads from one bucket into another one.
Outside == <<"..", "..", "b2", "objects", "a">>
TwoBuckets == [Files EXCEPT !.buckets = {B1, B2}, !.keys = {A, Outside}, !.values = {"v1", "v2"}, !.maxRequests = 4]

\* Users, a workload whose bindings change, and holders of links.
Granted == [clients |-> {c1, c2}, buckets |-> {B1}, keys |-> {A}, values |-> {"v1"},
            kinds |-> {"user", "workload", "link"},
            ops |-> {"create", "put", "get", "list", "delete", "presign"},
            maxTime |-> 1, maxRequests |-> 4, maxCrashes |-> 0]

\* A workload whose key leads out of the bucket that it may use.
LedOutside == [Files EXCEPT !.kinds = {"user", "workload"}, !.keys = {Outside}, !.ops = {"create", "put", "get", "delete"}]

StorageKeys == Files.keys \cup Names.keys \cup TwoBuckets.keys
StorageScenarios == {Files, Names, TwoBuckets, LedOutside, Granted}
=============================================================================
