----------------------------- MODULE ClientData -----------------------------
(***************************************************************************)
(* What clients keep in the control plane: manifests and secrets, and the  *)
(* objects of the buckets.  Each behaviour runs one of the two machines    *)
(* while the other rests: a bucket of a manifest is the directory of       *)
(* ObjectStorage, and neither looks at more of the other.                  *)
(***************************************************************************)
EXTENDS Manifests, StoragePaths

CONSTANTS
    Nobody, Services, Values, Lifetime,
    Storages  \* the scenarios of the object storage

VARIABLES
    part,  \* the machine this behaviour runs, "manifests" or "objects"
    disk, call, busy, bindings, links, now, answered, allowed, calls, crashes, using

Objects == INSTANCE ObjectStorage WITH
    Scenarios <- Storages, scenario <- using, request <- call, requests <- calls

ASSUME StorageAssumed == Objects!StorageAssumption

objects == <<disk, call, busy, bindings, links, now, answered, allowed, calls, crashes, using>>

PartInit ==
    /\ Init /\ Objects!Init
    /\ part \in {"manifests", "objects"}
    /\ part = "manifests" => using = CHOOSE w \in Storages : TRUE
    /\ part = "objects" => scenario = CHOOSE w \in Scenarios : TRUE

PartNext ==
    /\ \/ part = "manifests" /\ Next /\ UNCHANGED objects
       \/ part = "objects" /\ Objects!Next /\ UNCHANGED vars
    /\ UNCHANGED part

PartSpec == PartInit /\ [][PartNext]_<<vars, objects, part>>

----------------------------------------------------------------------------
(* Properties *)

\* A request that ends has told the truth: what was applied is stored, what
\* was destroyed is gone, and what an accepted service refers to is there.
AnswersHonest == AnswersTrue /\ BindingsBacked

\* What was answered of an object stands, and each access to a file of a bucket,
\* by a key that stays in the bucket, was granted at some instant of its request.
ObjectsStand == Objects!AnswersStand /\ Objects!Justified

\* A create of a bucket that was cut off can be repeated.
CreateWorks == Objects!CreateWorks
=============================================================================
