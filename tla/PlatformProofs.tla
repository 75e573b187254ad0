--------------------------- MODULE PlatformProofs ---------------------------
(***************************************************************************)
(* Theorems about the ledger and the scheduler, for every number of nodes, *)
(* every capacity and both policies, and about the orchestrator and the    *)
(* writers of a service's row, for every number of nodes, tasks, clients,  *)
(* operations and faults.                                                  *)
(***************************************************************************)
EXTENDS PlatformProperties, FiniteSetTheorems, WellFoundedInduction, TLAPS

-----------------------------------------------------------------------------
(* The ledger and the scheduler *)

\* A finite nonempty set has an element with the least integer value: the
\* sets of elements below an element have a smallest one for inclusion.
LEMMA LeastValue ==
    ASSUME NEW S, IsFiniteSet(S), S # {}, NEW f, \A x \in S : f[x] \in Int
    PROVE  \E x \in S : \A y \in S : f[x] <= f[y]
<1> DEFINE Below(x) == {y \in S : f[y] < f[x]}
           All == {Below(x) : x \in S}
<1>1. All \subseteq FiniteSubsetsOf(S) /\ All # {}
  <2>1. \A x \in S : Below(x) \in SUBSET S /\ IsFiniteSet(Below(x))
    <3> TAKE x \in S
    <3>1. Below(x) \in SUBSET S
      OBVIOUS
    <3> HIDE DEF Below
    <3> QED BY <3>1, FS_Subset
  <2> QED BY <2>1 DEF FiniteSubsetsOf
<1>2. PICK b \in All : \A c \in All : <<c, b>> \notin StrictSubsetOrdering(S)
  <2> HIDE DEF All
  <2> QED BY <1>1, FS_StrictSubsetOrderingWellFounded, WFMin
<1>3. PICK x \in S : b = Below(x)
  OBVIOUS
<1>4. ASSUME NEW y \in S, f[y] < f[x] PROVE FALSE
  <2>1. /\ Below(y) \subseteq Below(x)
        /\ y \in Below(x)
        /\ y \notin Below(y)
    <3>1. \A z \in S : f[z] < f[y] => f[z] < f[x]
      BY <1>4
    <3>2. ~(f[y] < f[y])
      BY <1>4
    <3> QED BY <3>1, <3>2, <1>4
  <2>2. <<Below(y), Below(x)>> \in StrictSubsetOrdering(S)
    BY <2>1, <1>1 DEF StrictSubsetOrdering
  <2> QED BY <2>2, <1>2, <1>3
<1> QED BY <1>4

\* Keys of three integers and a distinct last one have a first element.
LEMMA LeastKey ==
    ASSUME NEW S, IsFiniteSet(S), S # {}, NEW key,
           \A x \in S : /\ key[x] \in Int \X Int \X Int \X Int
                        /\ \A y \in S : key[x][4] = key[y][4] => x = y
    PROVE  \E x \in S : \A y \in S \ {x} : Precedes(key[x], key[y])
<1> DEFINE Least(T, i) == {x \in T : \A y \in T : key[x][i] <= key[y][i]}
<1>1. ASSUME NEW T, T \subseteq S, T # {}, NEW i \in 1..4
      PROVE  Least(T, i) # {} /\ Least(T, i) \subseteq T
  <2> DEFINE f == [x \in T |-> key[x][i]]
  <2>1. IsFiniteSet(T) /\ \A x \in T : f[x] \in Int
    BY <1>1, FS_Subset
  <2>2. PICK x \in T : \A y \in T : f[x] <= f[y]
    <3> HIDE DEF f
    <3> QED BY <2>1, <1>1, LeastValue
  <2> QED BY <2>2
<1> DEFINE A == Least(S, 1)
           B == Least(A, 2)
           C == Least(B, 3)
           D == Least(C, 4)
<1>2. A # {} /\ A \subseteq S
  <2> HIDE DEF Least
  <2> QED BY <1>1
<1>3. B # {} /\ B \subseteq A
  <2> HIDE DEF Least
  <2> QED BY <1>1, <1>2
<1>4. C # {} /\ C \subseteq B
  <2> HIDE DEF Least
  <2> QED BY <1>1, <1>2, <1>3
<1>5. D # {} /\ D \subseteq C
  <2> HIDE DEF Least
  <2> QED BY <1>1, <1>2, <1>3, <1>4
<1>6. PICK x \in D : TRUE
  BY <1>5
\* What the first in a component are to the others, and to each other.
<1>7. ASSUME NEW T, T \subseteq S, NEW i \in 1..4, x \in Least(T, i), NEW y \in T
      PROVE  /\ y \in Least(T, i) => key[x][i] = key[y][i]
             /\ y \notin Least(T, i) => key[x][i] < key[y][i]
  <2>1. \A z \in S : key[z][i] \in Int
    OBVIOUS
  <2> QED BY <2>1, <1>7
<1>8. ASSUME NEW y \in S \ {x} PROVE Precedes(key[x], key[y])
  <2> HIDE DEF Least
  <2>1. /\ y \in A => key[x][1] = key[y][1]
        /\ y \notin A => key[x][1] < key[y][1]
    BY <1>7, <1>2, <1>3, <1>4, <1>5
  <2>2. y \in A => /\ y \in B => key[x][2] = key[y][2]
                   /\ y \notin B => key[x][2] < key[y][2]
    BY <1>7, <1>2, <1>3, <1>4, <1>5
  <2>3. y \in B => /\ y \in C => key[x][3] = key[y][3]
                   /\ y \notin C => key[x][3] < key[y][3]
    BY <1>7, <1>2, <1>3, <1>4, <1>5
  <2>4. y \in C => key[x][4] < key[y][4]
    <3>1. y \in C => /\ y \in D => key[x][4] = key[y][4]
                     /\ y \notin D => key[x][4] < key[y][4]
      BY <1>7, <1>2, <1>3, <1>4, <1>5
    <3>2. x \in S /\ key[x][4] # key[y][4]
      BY <1>2, <1>3, <1>4, <1>5
    <3> QED BY <3>1, <3>2
  <2> HIDE DEF A, B, C, D
  <2> QED BY <2>1, <2>2, <2>3, <2>4, <1>3, <1>4 DEF Precedes
<1> QED BY <1>2, <1>3, <1>4, <1>5, <1>6, <1>8

-----------------------------------------------------------------------------
\* The scheduler (select_node) always returns a node on which the request
\* fits, when there is one, and the order it picks by leaves no tie.
THEOREM PlacementFits ==
    ASSUME NEW replicas, NEW ledger \in LedgerType(replicas),
           \A n \in Nodes : IsFiniteSet(ledger[n].replicas),
           NEW request \in [cpu : Nat, memory : Nat],
           Candidates(ledger, request) # {}
    PROVE  LET chosen == SelectNode(ledger, request)
           IN  /\ chosen \in Nodes
               /\ ledger[chosen].cpu + request.cpu <= CpuCapacity
               /\ ledger[chosen].memory + request.memory <= MemoryCapacity
<1> DEFINE C == Candidates(ledger, request)
           key == [n \in C |-> PlacementKey(ledger, n)]
           chosen == SelectNode(ledger, request)
<1>1. IsFiniteSet(C) /\ C \subseteq Nodes
  <2>1. IsFiniteSet(Nodes)
    BY FS_Interval, NodeAssumption DEF Nodes
  <2> QED BY <2>1, FS_Subset DEF Candidates
<1>2. \A n \in C : /\ key[n] \in Int \X Int \X Int \X Int
                   /\ key[n][4] = n
  <2> TAKE n \in C
  <2>1. /\ ledger[n].cpu \in Nat /\ ledger[n].memory \in Nat
        /\ n \in Int
    BY <1>1, NodeAssumption DEF LedgerType, Nodes
  <2>2. Cardinality(ledger[n].replicas) \in Nat
    BY <1>1, FS_CardinalityType
  <2> QED BY <2>1, <2>2, NodeAssumption
          DEF PlacementKey, AvailableCpu, AvailableMemory
<1>3. \E n \in C : \A m \in C \ {n} : Precedes(key[n], key[m])
  <2> HIDE DEF C, key
  <2> QED BY <1>1, <1>2, LeastKey DEF C
<1>4. chosen \in C
  BY <1>3 DEF SelectNode
<1> QED BY <1>4, <1>1, NodeAssumption
        DEF Candidates, AvailableCpu, AvailableMemory, LedgerType, Nodes

\* allocate keeps the ledger a ledger.
LEMMA AllocateType ==
    ASSUME NEW replicas, NEW ledger \in LedgerType(replicas),
           NEW n \in Nodes, NEW r \in replicas,
           NEW request \in [cpu : Nat, memory : Nat]
    PROVE  Allocate(ledger, n, r, request) \in LedgerType(replicas)
BY DEF Allocate, LedgerType

\* deallocate keeps it one as well: what is used never becomes negative,
\* whoever gives back a replica that was not charged.
LEMMA DeallocateType ==
    ASSUME NEW replicas, NEW ledger \in LedgerType(replicas),
           NEW n \in Nodes, NEW r,
           NEW request \in [cpu : Nat, memory : Nat]
    PROVE  Deallocate(ledger, n, r, request) \in LedgerType(replicas)
<1>1. \A m \in Nodes : \A d \in Nat :
        Less(ledger[m].cpu, d) \in Nat /\ Less(ledger[m].memory, d) \in Nat
  BY DEF Less, LedgerType
<1> QED BY <1>1 DEF Deallocate, LedgerType

\* What allocate charges for a replica, deallocate gives back exactly, as
\* long as both are told the same request.
THEOREM DeallocateUndoesAllocate ==
    ASSUME NEW replicas, NEW ledger \in LedgerType(replicas),
           NEW n \in Nodes, NEW r \in replicas, r \notin ledger[n].replicas,
           NEW request \in [cpu : Nat, memory : Nat]
    PROVE  Deallocate(Allocate(ledger, n, r, request), n, r, request) = ledger
<1> DEFINE charged == Allocate(ledger, n, r, request)
<1>1. charged = [ledger EXCEPT ![n] =
                   [cpu |-> ledger[n].cpu + request.cpu,
                    memory |-> ledger[n].memory + request.memory,
                    replicas |-> ledger[n].replicas \cup {r}]]
  BY DEF Allocate
<1>2. /\ Less(ledger[n].cpu + request.cpu, request.cpu) = ledger[n].cpu
      /\ Less(ledger[n].memory + request.memory, request.memory)
           = ledger[n].memory
  BY DEF Less, LedgerType
<1>3. (ledger[n].replicas \cup {r}) \ {r} = ledger[n].replicas
  OBVIOUS
<1>4. ledger[n] = [cpu |-> ledger[n].cpu, memory |-> ledger[n].memory,
                 replicas |-> ledger[n].replicas]
  BY DEF LedgerType
<1>5. ledger = [ledger EXCEPT ![n] = ledger[n]]
  BY DEF LedgerType
<1>6. charged[n] = [cpu |-> ledger[n].cpu + request.cpu,
                    memory |-> ledger[n].memory + request.memory,
                    replicas |-> ledger[n].replicas \cup {r}]
  BY <1>1 DEF LedgerType
<1>7. Deallocate(charged, n, r, request) = [charged EXCEPT ![n] = ledger[n]]
  <2> DEFINE back == [cpu |-> Less(charged[n].cpu, request.cpu),
                      memory |-> Less(charged[n].memory, request.memory),
                      replicas |-> charged[n].replicas \ {r}]
  <2>1. Deallocate(charged, n, r, request) = [charged EXCEPT ![n] = back]
    BY DEF Deallocate
  <2>2. back = ledger[n]
    <3>1. /\ charged[n].cpu = ledger[n].cpu + request.cpu
          /\ charged[n].memory = ledger[n].memory + request.memory
          /\ charged[n].replicas = ledger[n].replicas \cup {r}
      <4> HIDE DEF charged
      <4> QED BY <1>6
    <3>2. /\ Less(charged[n].cpu, request.cpu) = ledger[n].cpu
          /\ Less(charged[n].memory, request.memory) = ledger[n].memory
          /\ charged[n].replicas \ {r} = ledger[n].replicas
      <4> HIDE DEF charged
      <4> QED BY <3>1, <1>2, <1>3
    <3> HIDE DEF charged
    <3> QED BY <3>2, <1>4
  <2> QED BY <2>1, <2>2
<1> HIDE DEF charged
<1> QED BY <1>7, <1>1, <1>5 DEF LedgerType

-----------------------------------------------------------------------------
(* The types of the orchestrator and of the writers *)

Removing == {"rm_stop", "rm_read", "rm_put", "rm_route"}

\* Where a task holds a row it is about to write or has just written.
HoldsRow ==
    {"rm_put", "rm_route", "refresh", "ref_put", "cr_put", "cr_route", "ob_put",
     "switch", "surge_put", "shrink_put", "final_put"}

\* Where the reconcile pass holds the service of its listing.
HoldsPass ==
    {"refresh", "ref_put", "ref_route", "reread", "create", "cr_read",
     "cr_put", "cr_route"}

\* The locals a task is about to use are there.
Prepared ==
    /\ \A t \in Tasks :
          /\ pc[t] \in Removing \cup {"refresh"} => job[t].todo # {}
          /\ pc[t] \in HoldsRow => job[t].current # NoService
    /\ pc[Reconcile] \in HoldsPass => pass.service # NoService
    /\ pc[Reconcile] \in Removing /\ job[Reconcile].after = "reread" =>
          pass.service # NoService
    /\ pc[Reconcile] \in {"cr_read", "cr_put", "cr_route"} => pass.fresh # 0
    /\ \A c \in Clients :
          api[c].op \in {"patch", "delete", "scale_put"} =>
             api[c].base # NoService

TypeInv == TypeOK /\ Prepared

-----------------------------------------------------------------------------
(* Services and sets of replicas.                                          *)

\* The types of the fields of a service row.
LEMMA ServiceFields ==
    ASSUME NEW R, NEW s \in ServiceOf(R)
    PROVE  /\ s.image \in Images /\ s.desired \in Int
           /\ s.request \in Requests /\ s.status \in ServiceStatus
           /\ s.replicas \in SUBSET R /\ s.addressed \in SUBSET R
BY DEF ServiceOf

\* A row stays a row when one of its fields is replaced by a value of its type.
LEMMA ServiceUpdates ==
    ASSUME NEW R, NEW s \in ServiceOf(R)
    PROVE  /\ \A r \in R : \A b \in BOOLEAN :
                 WithReplica(s, r, b) \in ServiceOf(R)
           /\ \A r \in R : WithoutReplica(s, r) \in ServiceOf(R)
           /\ \A i \in Images : [s EXCEPT !.image = i] \in ServiceOf(R)
           /\ \A n \in Int : [s EXCEPT !.desired = n] \in ServiceOf(R)
           /\ \A u \in ServiceStatus : [s EXCEPT !.status = u] \in ServiceOf(R)
BY DEF ServiceOf, WithReplica, WithoutReplica

\* A row names replicas of 1..MaxMade, so it is not the value of no row.
LEMMA RowIsService ==
    ASSUME TypeOK
    PROVE  /\ Created \subseteq Replicas
           /\ \A s \in MaybeService : s # NoService <=> s \in ServiceOf(Created)
<1>1. Created \subseteq Replicas
  BY OrchestratorAssumption DEF TypeOK, Created, Replicas
<1>2. ServiceOf(Created) \subseteq Service
  BY <1>1 DEF ServiceOf, Service
<1> QED BY <1>1, <1>2, NoServiceAssumption DEF MaybeService

\* Sets of created replicas are finite, so their sizes are numbers.
LEMMA CreatedIsFinite ==
    ASSUME TypeOK, NEW S, S \subseteq Created
    PROVE  IsFiniteSet(S) /\ Cardinality(S) \in Nat
<1>1. IsFiniteSet(Created)
  <2>1. Len(made) \in Int
    BY OrchestratorAssumption DEF TypeOK
  <2> QED BY <2>1, FS_Interval DEF Created
<1> QED BY <1>1, FS_Subset, FS_CardinalityType

\* The types of a task's locals.
LEMMA JobFields ==
    ASSUME TypeOK, NEW t \in Tasks
    PROVE  /\ job[t].current \in MaybeService
           /\ job[t].todo \in SUBSET Created
           /\ job[t].request \in Requests
           /\ job[t].after \in AfterRemoval
BY DEF TypeOK, Job

\* The head of a list of removals is in the list.
LEMMA NextReplicaType ==
    ASSUME TypeOK, NEW t \in Tasks, job[t].todo # {}
    PROVE  NextReplica(t) \in job[t].todo /\ NextReplica(t) \in Created
<1> DEFINE S == job[t].todo
           f == [r \in S |-> r]
<1>1. S \subseteq Created /\ Created \subseteq Int
  BY JobFields DEF Created
<1>2. IsFiniteSet(S)
  BY <1>1, CreatedIsFinite
<1>3. \E r \in S : \A s \in S : r <= s
  <2>1. \A r \in S : f[r] \in Int
    BY <1>1
  <2>2. PICK r \in S : \A s \in S : f[r] <= f[s]
    <3> HIDE DEF f
    <3> QED BY <1>2, <2>1, LeastValue
  <2> QED BY <2>2
<1> QED BY <1>1, <1>3 DEF NextReplica

\* The values that stand for "none" are of the right type.
LEMMA Typical ==
    /\ NoRequest \in Requests
    /\ Requests \subseteq [cpu : Nat, memory : Nat]
    /\ NoSpec \in [image : Images, desired : Nat, request : Requests]
    /\ (CHOOSE i \in Images : TRUE) \in Images
    /\ Reconcile \in Tasks
    /\ Rollouts \subseteq Tasks
    /\ Reconcile \notin Rollouts
<1>1. NoSpec \in Specs
  BY PlatformAssumption DEF NoSpec
<1>2. NoSpec \in [image : Images, desired : Nat, request : Requests]
  BY <1>1, PlatformAssumption
<1>3. Images # {}
  BY <1>2
<1> QED BY <1>2, <1>3, OrchestratorAssumption DEF NoRequest, Tasks

\* Idle tasks hold nothing.
LEMMA NothingHeld ==
    ASSUME Len(made) \in Nat
    PROVE  /\ NoService \in MaybeService
           /\ Idle \in Job
           /\ NoPass \in Pass
           /\ NoBatches \in Batches
           /\ NoCall \in Call
<1>1. NoService \in MaybeService
  BY DEF MaybeService
<1>2. NoSpec \in [image : Images, desired : Int, request : Requests]
  BY Typical
<1> QED BY <1>1, <1>2, Typical, OrchestratorAssumption
        DEF Idle, NoPass, NoBatches, NoCall, AfterRemoval, Job, Pass, Batches,
            Call

\* A fault is counted, and noted if it interrupts a task.
LEMMA FaultCounted ==
    ASSUME faults \in Faulted, NEW kind, Fault(kind)
    PROVE  faults' \in Faulted
<1>1. faults.count \in 0..MaxFaults /\ faults.count < MaxFaults /\ faults.interrupted \in BOOLEAN
  BY DEF Fault, Faulted
<1>2. faults.count + 1 \in 0..MaxFaults
  BY <1>1, OrchestratorAssumption
<1>3. (faults.interrupted \/ kind \in {"crash", "error"}) \in BOOLEAN
  BY <1>1
<1> QED BY <1>2, <1>3 DEF Fault, Faulted

\* The initial states, an empty store and no process running, are well typed.
THEOREM TypeInit == Init => TypeInv
<1> SUFFICES ASSUME Init PROVE TypeInv
  OBVIOUS
<1> USE DEF Init, InitOrchestrator
<1>1. Created = {} /\ Len(made) = 0 /\ made \in Seq([image : Images, node : Nodes])
  BY DEF Created
<1>2. nodes \in LedgerType(Created)
  BY DEF LedgerType, FreshNodes
<1>3. /\ row \in MaybeService
      /\ job \in [Tasks -> Job]
      /\ pass \in Pass
      /\ batches \in [Rollouts -> Batches]
      /\ api \in [Clients -> Call]
  BY <1>1, NothingHeld
<1>4. rollout \in [Rollouts -> Deployment]
  BY Typical DEF Deployment
<1>5. pc \in [Tasks -> Labels]
  BY DEF Labels
<1>6. /\ Len(made) \in 0..MaxMade
      /\ faults \in Faulted
      /\ ops \in 0..MaxOps
      /\ asked \in Int
  BY <1>1, OrchestratorAssumption, PlatformAssumption DEF Faulted
<1>7. /\ overwrote \in BOOLEAN
      /\ routing \subseteq Created
      /\ up \subseteq Created
      /\ pending \subseteq Rollouts
  OBVIOUS
<1>8. Prepared
  BY DEF Prepared, Removing, HoldsRow, HoldsPass, Tasks, NoCall
<1> HIDE DEF Init, InitOrchestrator
<1> QED BY <1>1, <1>2, <1>3, <1>4, <1>5, <1>6, <1>7, <1>8 DEF TypeInv, TypeOK

-----------------------------------------------------------------------------
(* Every step keeps the types.                                             *)

\* What a task may do to its locals.
LEMMA JobUpdates ==
    ASSUME TypeOK, NEW t \in Tasks
    PROVE  /\ job[t] \in Job
           /\ \A j \in Job : [job EXCEPT ![t] = j] \in [Tasks -> Job]
           /\ \A s \in MaybeService :
                 [job EXCEPT ![t].current = s] \in [Tasks -> Job]
           /\ \A todo \in SUBSET Created :
                 [job EXCEPT ![t].todo = todo] \in [Tasks -> Job]
           /\ \A s \in MaybeService : \A todo \in SUBSET Created :
                 [job EXCEPT ![t].todo = todo, ![t].current = s]
                   \in [Tasks -> Job]
BY DEF TypeOK, Job

\* The types change with made only.
LEMMA SameMade ==
    ASSUME made' = made
    PROVE  /\ Created' = Created
           /\ MaybeService' = MaybeService
           /\ Job' = Job
           /\ Pass' = Pass
           /\ Batches' = Batches
           /\ Call' = Call
BY DEF Created, MaybeService, Job, Pass, Batches, Call

\* What the platform knows of a created container.
LEMMA MadeType ==
    ASSUME TypeOK, NEW r \in Created
    PROVE  made[r].image \in Images /\ made[r].node \in Nodes
<1> DEFINE R == [image : Images, node : Nodes]
<1>1. made \in Seq(R) /\ r \in 1..Len(made)
  BY DEF TypeOK, Created
<1>2. made[r] \in R
  <2> HIDE DEF R
  <2> QED BY <1>1
<1> QED BY <1>2

\* What the reconcile pass may do to the service of its listing.
LEMMA PassUpdates ==
    ASSUME TypeOK
    PROVE  /\ pass \in Pass
           /\ NoPass \in Pass
           /\ \A s \in MaybeService :
                 /\ [pass EXCEPT !.service = s] \in Pass
                 /\ [NoPass EXCEPT !.service = s] \in Pass
           /\ \A i \in Int : [pass EXCEPT !.want = i] \in Pass
           /\ \A s \in MaybeService : \A n \in Nat :
                 [NoPass EXCEPT !.service = s, !.missing = n] \in Pass
           /\ pass.missing > 1 =>
                 [pass EXCEPT !.missing = @ - 1, !.fresh = 0,
                              !.addressed = FALSE] \in Pass
<1>1. pass \in Pass
  BY DEF TypeOK
<1>2. Len(made) \in Nat
  BY OrchestratorAssumption DEF TypeOK
<1>3. NoPass \in Pass
  BY <1>2, NothingHeld
<1>4. /\ \A s \in MaybeService :
            /\ [pass EXCEPT !.service = s] \in Pass
            /\ [NoPass EXCEPT !.service = s] \in Pass
      /\ \A i \in Int : [pass EXCEPT !.want = i] \in Pass
      /\ \A s \in MaybeService : \A n \in Nat :
            [NoPass EXCEPT !.service = s, !.missing = n] \in Pass
  BY <1>1, <1>3 DEF Pass
<1>5. ASSUME pass.missing > 1
      PROVE  [pass EXCEPT !.missing = @ - 1, !.fresh = 0,
                          !.addressed = FALSE] \in Pass
  <2>1. pass.missing - 1 \in Nat /\ 0 \in 0..Len(made)
    BY <1>1, <1>2, <1>5 DEF Pass
  <2> QED BY <1>1, <2>1 DEF Pass
<1> QED BY <1>1, <1>3, <1>4, <1>5

\* The types of the locals of a reconcile pass.
LEMMA PassFields ==
    ASSUME TypeOK
    PROVE  /\ pass.service \in MaybeService
           /\ pass.want \in Int
           /\ pass.missing \in Nat
           /\ pass.fresh \in 0..Len(made)
           /\ pass.addressed \in BOOLEAN
BY DEF TypeOK, Pass

\* _remove_replica keeps the types, whichever task calls it.
LEMMA RemovalTypes ==
    ASSUME TypeInv, NEW t \in Tasks, RemoveReplica(t), UNCHANGED apiVars
    PROVE  TypeInv'
<1> USE DEF TypeInv, storeVars, hostVars, apiVars, Goto
<1> DEFINE r == NextReplica(t)
           rest == job[t].todo \ {r}
           next == RemovalLabel(rest, job[t].after)
<1>1. made' = made
  BY DEF RemoveReplica, StopReplica, ReadForRemoval, PutRemoval, RouteRemoval
<1>2. pc[t] \in Removing /\ job[t].todo # {} /\ r \in job[t].todo /\ r \in Created
  <2>1. pc[t] \in Removing
    BY DEF RemoveReplica, StopReplica, ReadForRemoval, PutRemoval, RouteRemoval,
           NextRemoval, Removing
  <2>2. job[t].todo # {}
    BY <2>1 DEF Prepared
  <2> QED BY <2>1, <2>2, NextReplicaType
<1>3. /\ rest \in SUBSET Created
      /\ next \in AfterRemoval \cup {"rm_stop"}
      /\ next = "rm_stop" => rest # {}
      /\ next # "rm_stop" => next = job[t].after
  BY JobFields DEF RemovalLabel, AfterRemoval
<1>4. CASE StopReplica(t)
  <2>1. nodes' \in LedgerType(Created)
    <3>1. /\ made[r].node \in Nodes
          /\ job[t].request \in [cpu : Nat, memory : Nat]
      BY <1>2, MadeType, JobFields, Typical
    <3>2. nodes \in LedgerType(Created)
      BY DEF TypeOK
    <3> QED BY <1>4, <3>1, <3>2, DeallocateType DEF StopReplica
  <2>2. pc' \in [Tasks -> Labels]
    BY <1>4 DEF StopReplica, TypeOK, Labels
  <2>3. TypeOK'
    BY <1>1, <1>4, <2>1, <2>2, SameMade DEF StopReplica, TypeOK
  <2>4. Prepared'
    BY <1>2, <1>4 DEF StopReplica, TypeOK, Prepared, Removing, HoldsRow, HoldsPass
  <2> QED BY <2>3, <2>4
<1>5. CASE ReadForRemoval(t) /\ row # NoService
  <2>1. /\ pc[t] = "rm_read"
        /\ pc' = [pc EXCEPT ![t] = "rm_put"]
        /\ job' = [job EXCEPT ![t].current = row]
        /\ UNCHANGED <<row, rollout, overwrote, up, made, nodes, routing,
                       pass, batches, pending, faults, api, ops, asked>>
    BY <1>5 DEF ReadForRemoval
  <2>2. pc' \in [Tasks -> Labels] /\ job' \in [Tasks -> Job]
    BY <2>1, JobUpdates DEF TypeOK, Labels
  <2>3. TypeOK'
    BY <2>1, <2>2, SameMade DEF TypeOK
  <2>4. Prepared'
    BY <1>2, <1>5, <2>1 DEF TypeOK, Prepared, Removing, HoldsRow, HoldsPass
  <2> QED BY <2>3, <2>4
<1>6. CASE ReadForRemoval(t) /\ row = NoService
  <2>1. /\ pc[t] = "rm_read"
        /\ pc' = [pc EXCEPT ![t] = next]
        /\ job' = [job EXCEPT ![t].todo = rest]
        /\ UNCHANGED <<row, rollout, overwrote, up, made, nodes, routing,
                       pass, batches, pending, faults, api, ops, asked>>
    BY <1>6 DEF ReadForRemoval, NextRemoval
  <2> HIDE DEF rest, next
  <2>2. pc' \in [Tasks -> Labels] /\ job' \in [Tasks -> Job]
    BY <1>3, <2>1, JobUpdates DEF TypeOK, Labels, AfterRemoval
  <2>3. TypeOK'
    BY <2>1, <2>2, SameMade DEF TypeOK
  <2>4. Prepared'
    BY <1>2, <1>3, <2>1 DEF TypeOK, Prepared, Removing, HoldsRow, HoldsPass,
                            AfterRemoval
  <2> QED BY <2>3, <2>4
<1>7. CASE PutRemoval(t)
  <2> DEFINE without == WithoutReplica(job[t].current, r)
  <2>1. without \in ServiceOf(Created)
    <3>1. job[t].current \in ServiceOf(Created)
      BY <1>7, RowIsService, JobFields DEF PutRemoval, Prepared, HoldsRow
    <3> QED BY <3>1, <1>2, ServiceUpdates
  <2>2. without \in MaybeService /\ without # NoService
    BY <2>1, RowIsService DEF MaybeService
  <2>3. /\ row' = without
        /\ overwrote' = (overwrote \/ row # job[t].current)
        /\ pc[t] = "rm_put"
        /\ pc' = [pc EXCEPT ![t] = "rm_route"]
        /\ job' = [job EXCEPT ![t].current = without]
        /\ UNCHANGED <<rollout, up, made, nodes, routing, pass, batches,
                       pending, faults, api, ops, asked>>
    BY <1>7 DEF PutRemoval, Write
  <2>4. overwrote' \in BOOLEAN
    BY <2>3, Zenon
  <2> HIDE DEF without
  <2>5. pc' \in [Tasks -> Labels] /\ job' \in [Tasks -> Job]
    BY <2>2, <2>3, JobUpdates DEF TypeOK, Labels
  <2>6. TypeOK'
    BY <2>2, <2>3, <2>4, <2>5, SameMade DEF TypeOK
  <2>7. Prepared'
    BY <1>2, <2>2, <2>3 DEF TypeOK, Prepared, Removing, HoldsRow, HoldsPass
  <2> QED BY <2>6, <2>7
<1>8. CASE RouteRemoval(t)
  <2>1. /\ pc[t] = "rm_route"
        /\ pc' = [pc EXCEPT ![t] = next]
        /\ routing' = job[t].current.addressed
        /\ job' = [job EXCEPT ![t].todo = rest, ![t].current = NoService]
        /\ UNCHANGED <<row, rollout, overwrote, up, made, nodes, pass, batches,
                       pending, faults, api, ops, asked>>
    BY <1>8 DEF RouteRemoval
  <2>2. routing' \subseteq Created
    <3>1. job[t].current \in ServiceOf(Created)
      BY <2>1, RowIsService, JobFields DEF Prepared, HoldsRow
    <3> QED BY <3>1, <2>1, ServiceFields
  <2> HIDE DEF rest, next
  <2>3. pc' \in [Tasks -> Labels]
    BY <1>3, <2>1 DEF TypeOK, Labels, AfterRemoval
  <2>4. job' \in [Tasks -> Job]
    BY <1>3, <2>1, JobUpdates DEF MaybeService
  <2>5. TypeOK'
    BY <2>1, <2>2, <2>3, <2>4, SameMade DEF TypeOK
  <2>6. /\ job'[t].todo = rest /\ job'[t].after = job[t].after
        /\ \A u \in Tasks \ {t} : job'[u] = job[u]
    BY <2>1 DEF TypeOK, Job
  <2>7. /\ pc'[t] = next
        /\ \A u \in Tasks \ {t} : pc'[u] = pc[u]
    BY <2>1 DEF TypeOK
  <2>8. Prepared'
    BY <1>2, <1>3, <2>1, <2>6, <2>7, Typical
       DEF Prepared, Removing, HoldsRow, HoldsPass, AfterRemoval
  <2> QED BY <2>5, <2>8
<1> QED BY <1>4, <1>5, <1>6, <1>7, <1>8 DEF RemoveReplica

\* So does taking a service from the listing ...
LEMMA ListingTypes ==
    ASSUME TypeInv, ListServices, row # NoService, UNCHANGED apiVars
    PROVE  TypeInv'
<1> USE DEF TypeInv, storeVars, hostVars, apiVars, Goto
<1> DEFINE deleting == row.status = "deleting"
           next == IF deleting THEN RemovalLabel(row.replicas, "td_delete")
                   ELSE RefreshLabel(row, row, row.replicas)
           local == [current |-> IF deleting THEN NoService ELSE row,
                     todo |-> row.replicas, request |-> row.request,
                     after |-> IF deleting THEN "td_delete" ELSE "idle"]
<1>1. /\ pc[Reconcile] = "idle"
      /\ pc' = [pc EXCEPT ![Reconcile] = next]
      /\ job' = [job EXCEPT ![Reconcile] = local]
      /\ pass' = [NoPass EXCEPT !.service = IF deleting THEN NoService ELSE row]
      /\ UNCHANGED <<row, rollout, overwrote, up, made, nodes, routing,
                     batches, pending, faults, api, ops, asked>>
  BY DEF ListServices
<1>2. /\ row \in MaybeService
      /\ row.replicas \in SUBSET Created
      /\ row.request \in Requests
  BY RowIsService, ServiceFields DEF TypeOK
<1>3. local \in Job
  BY <1>2, NothingHeld DEF Job, AfterRemoval, MaybeService
<1>4. IF deleting
      THEN \/ next = "rm_stop" /\ local.todo # {}
           \/ next = "td_delete"
      ELSE \/ next = "refresh" /\ local.todo # {} /\ local.current # NoService
           \/ next = "ref_route"
  BY DEF RemovalLabel, RefreshLabel
<1>5. deleting \/ pass'.service # NoService
  BY <1>1 DEF NoPass
<1>6. deleting => local.after # "reread"
  OBVIOUS
<1> HIDE DEF next, local, deleting
<1>7. pc' \in [Tasks -> Labels]
  BY <1>1, <1>4 DEF TypeOK, Labels
<1>8. job' \in [Tasks -> Job] /\ pass' \in Pass
  BY <1>1, <1>2, <1>3, JobUpdates, PassUpdates, Typical DEF MaybeService
<1>9. TypeOK'
  BY <1>1, <1>2, <1>7, <1>8, SameMade DEF TypeOK
<1>10. Prepared'
  BY <1>1, <1>4, <1>5, <1>6, Typical
     DEF TypeOK, Prepared, Removing, HoldsRow, HoldsPass
<1> QED BY <1>9, <1>10

\* ... and looking at its replicas and writing the outcome back.
LEMMA ObservationTypes ==
    ASSUME TypeInv, ObserveReplica \/ PutObserved, UNCHANGED apiVars
    PROVE  TypeInv'
<1> USE DEF TypeInv, storeVars, hostVars, apiVars, Goto
<1>1. /\ pass.service \in ServiceOf(Created)
      /\ job[Reconcile].current \in ServiceOf(Created)
  BY RowIsService, JobFields, PassFields, Typical
     DEF ObserveReplica, PutObserved, Prepared, HoldsRow, HoldsPass
<1>2. CASE ObserveReplica
  <2> DEFINE r == NextReplica(Reconcile)
             rest == job[Reconcile].todo \ {r}
             seen == IF Running(r) THEN WithReplica(pass.service, r, TRUE)
                     ELSE WithoutReplica(pass.service, r)
             next == RefreshLabel(seen, job[Reconcile].current, rest)
  <2>1. /\ pc[Reconcile] = "refresh"
        /\ pc' = [pc EXCEPT ![Reconcile] = next]
        /\ job' = [job EXCEPT ![Reconcile].todo = rest]
        /\ pass' = [pass EXCEPT !.service = seen]
        /\ nodes' = IF Running(r)
                    THEN Allocate(nodes, made[r].node, r, pass.service.request)
                    ELSE Deallocate(nodes, made[r].node, r, pass.service.request)
        /\ UNCHANGED <<row, rollout, overwrote, routing, up, made, batches,
                       pending, faults, api, ops, asked>>
    BY <1>2 DEF ObserveReplica, service_state, current_service
  <2>2. job[Reconcile].todo # {} /\ r \in Created
    BY <2>1, NextReplicaType, Typical DEF Prepared
  <2>3. rest \in SUBSET Created
    BY JobFields, Typical
  <2>4. seen \in ServiceOf(Created)
    <3>1. WithReplica(pass.service, r, TRUE) \in ServiceOf(Created)
      <4>1. TRUE \in BOOLEAN
        OBVIOUS
      <4> QED BY <1>1, <2>2, <4>1, ServiceUpdates, Zenon
    <3>2. WithoutReplica(pass.service, r) \in ServiceOf(Created)
      BY <1>1, <2>2, ServiceUpdates
    <3> QED BY <3>1, <3>2
  <2>5. seen \in MaybeService /\ seen # NoService
    BY <2>4, RowIsService DEF MaybeService
  <2>6. \/ next = "refresh" /\ rest # {}
        \/ next \in {"ref_route", "ref_put"}
    BY DEF RefreshLabel
  <2>7. nodes' \in LedgerType(Created)
    <3>1. /\ made[r].node \in Nodes
          /\ pass.service.request \in [cpu : Nat, memory : Nat]
          /\ nodes \in LedgerType(Created)
      BY <1>1, <2>2, MadeType, ServiceFields, Typical DEF TypeOK
    <3> QED BY <2>1, <2>2, <3>1, AllocateType, DeallocateType
  <2> HIDE DEF r, rest, seen, next
  <2>8. /\ pc' \in [Tasks -> Labels]
        /\ job' \in [Tasks -> Job]
        /\ pass' \in Pass
    BY <2>1, <2>3, <2>5, <2>6, JobUpdates, PassUpdates, Typical
       DEF TypeOK, Labels
  <2>9. TypeOK'
    BY <2>1, <2>7, <2>8, SameMade DEF TypeOK
  <2>10. pass'.service # NoService
    BY <2>1, <2>5, PassUpdates DEF Pass
  <2>11. /\ pc'[Reconcile] = next
         /\ job'[Reconcile].todo = rest
         /\ job'[Reconcile].current = job[Reconcile].current
         /\ \A u \in Tasks \ {Reconcile} : pc'[u] = pc[u] /\ job'[u] = job[u]
    BY <2>1, Typical DEF TypeOK, Job
  <2>12. Prepared'
    BY <2>1, <2>6, <2>10, <2>11, Typical
       DEF Prepared, Removing, HoldsRow, HoldsPass
  <2> QED BY <2>9, <2>12
<1>3. CASE PutObserved
  <2>1. /\ pc[Reconcile] = "ref_put"
        /\ pc' = [pc EXCEPT ![Reconcile] = "ref_route"]
        /\ row' = pass.service
        /\ overwrote' = (overwrote \/ row # job[Reconcile].current)
        /\ job' = [job EXCEPT ![Reconcile].current = NoService]
        /\ UNCHANGED <<rollout, routing, up, made, nodes, pass, batches,
                       pending, faults, api, ops, asked>>
    BY <1>3 DEF PutObserved, Write, service_state, current_service
  <2>2. overwrote' \in BOOLEAN
    BY <2>1, Zenon
  <2>3. /\ pc' \in [Tasks -> Labels]
        /\ job' \in [Tasks -> Job]
        /\ row' \in MaybeService
    BY <2>1, <1>1, JobUpdates, Typical DEF TypeOK, Labels, MaybeService
  <2>4. TypeOK'
    BY <2>1, <2>2, <2>3, SameMade DEF TypeOK
  <2>5. Prepared'
    BY <2>1, Typical DEF TypeOK, Prepared, Removing, HoldsRow, HoldsPass
  <2> QED BY <2>4, <2>5
<1> QED BY <1>2, <1>3

\* Comparing with the desired count leaves the pass able to go on.
LEMMA ScaleTypes ==
    ASSUME TypeInv, NEW from, NEW service \in ServiceOf(Created),
           NEW want \in Int, Scale(from, service, want)
    PROVE  \E next \in Labels, local \in Job, then \in Pass :
              /\ pc[Reconcile] = from
              /\ pc' = [pc EXCEPT ![Reconcile] = next]
              /\ job' = [job EXCEPT ![Reconcile] = local]
              /\ pass' = then
              /\ \/ next = "rm_stop" /\ local.todo # {}
                 \/ next = "create" /\ then.service # NoService
                 \/ next = "observe"
              /\ local.after = "observe"
<1> USE DEF TypeInv
<1> DEFINE have == Cardinality(service.replicas)
           excess == IF have > want THEN Beyond(service.replicas, want) ELSE {}
           next == IF have < want THEN "create"
                   ELSE RemovalLabel(excess, "observe")
           local == [current |-> NoService, todo |-> excess,
                     request |-> service.request, after |-> "observe"]
           then == IF have < want
                   THEN [NoPass EXCEPT !.service = service,
                                       !.missing = want - have]
                   ELSE NoPass
<1>1. /\ service.replicas \in SUBSET Created
      /\ service.request \in Requests
      /\ service \in MaybeService /\ service # NoService
  BY ServiceFields, RowIsService DEF MaybeService
<1>2. have \in Nat
  BY <1>1, CreatedIsFinite
<1>3. excess \in SUBSET Created
  BY <1>1 DEF Beyond
<1>4. local \in Job
  BY <1>1, <1>3 DEF Job, MaybeService, AfterRemoval
<1>5. then \in Pass
  <2>1. have < want => want - have \in Nat
    BY <1>2
  <2> HIDE DEF have
  <2> QED BY <1>1, <2>1, PassUpdates
<1>6. next \in Labels
  BY DEF RemovalLabel, Labels
<1>7. \/ next = "rm_stop" /\ local.todo # {}
      \/ next = "create" /\ then.service # NoService
      \/ next = "observe"
  BY <1>1 DEF RemovalLabel, NoPass
<1>8. /\ pc[Reconcile] = from
      /\ pc' = [pc EXCEPT ![Reconcile] = next]
      /\ job' = [job EXCEPT ![Reconcile] = local]
      /\ pass' = then
  BY DEF Scale, Goto
<1>9. local.after = "observe"
  OBVIOUS
<1> HIDE DEF next, local, then
<1> QED BY <1>4, <1>5, <1>6, <1>7, <1>8, <1>9

\* Comparing the replicas with the desired count keeps the types.
LEMMA ScalingTypes ==
    ASSUME TypeInv, RouteObserved \/ ReadAgain, UNCHANGED apiVars
    PROVE  TypeInv'
<1> USE DEF TypeInv, storeVars, hostVars, apiVars, Goto
<1>1. /\ pass.service \in ServiceOf(Created)
      /\ pass.service # NoService
      /\ pass.want \in Int
      /\ pass.service.desired \in Int
      /\ pass.service.addressed \in SUBSET Created
  BY RowIsService, ServiceFields, PassFields, Typical
     DEF RouteObserved, ReadAgain, Scale, Prepared, HoldsPass
\* Every way of going on is one of these.
<1>2. ASSUME NEW next \in Labels, NEW local \in Job, NEW then \in Pass,
             pc[Reconcile] \in {"ref_route", "reread"},
             pc' = [pc EXCEPT ![Reconcile] = next],
             job' = [job EXCEPT ![Reconcile] = local],
             pass' = then,
             \/ next = "rm_stop" /\ local.todo # {}
             \/ next = "create" /\ then.service # NoService
             \/ next = "observe",
             local.after = "observe" \/ then.service # NoService,
             routing' \subseteq Created,
             UNCHANGED <<row, rollout, overwrote, up, made, nodes, batches,
                         pending, faults, api, ops, asked>>
      PROVE  TypeInv'
  <2>1. pc' \in [Tasks -> Labels] /\ job' \in [Tasks -> Job] /\ pass' \in Pass
    BY <1>2, JobUpdates, Typical DEF TypeOK
  <2>2. TypeOK'
    BY <1>2, <2>1, SameMade DEF TypeOK
  <2>3. /\ pc'[Reconcile] = next
        /\ job'[Reconcile] = local
        /\ \A u \in Tasks \ {Reconcile} : pc'[u] = pc[u] /\ job'[u] = job[u]
    BY <1>2, Typical DEF TypeOK
  <2>4. Prepared'
    BY <1>2, <2>3, Typical DEF Prepared, Removing, HoldsRow, HoldsPass
  <2> QED BY <2>2, <2>4
<1>3. CASE RouteObserved
  <2>1. routing' \subseteq Created
    BY <1>1, <1>3 DEF RouteObserved, service_state
  <2>2. CASE Scale("ref_route", pass.service, pass.service.desired)
    BY <1>1, <1>2, <1>3, <2>1, <2>2, ScaleTypes DEF RouteObserved
  <2>3. CASE StaleReplicas(pass.service) # {} /\ Goto(Reconcile, "ref_route", "rm_stop")
    <3> DEFINE stale == StaleReplicas(pass.service)
               local == [current |-> NoService, todo |-> stale,
                         request |-> pass.service.request, after |-> "reread"]
               then == [pass EXCEPT !.want = pass.service.desired]
    <3>1. stale \in SUBSET Created /\ stale # {}
      BY <1>1, <2>3, ServiceFields DEF StaleReplicas
    <3>2. local \in Job
      BY <1>1, <3>1, ServiceFields DEF Job, MaybeService, AfterRemoval
    <3>3. then \in Pass /\ then.service # NoService
      BY <1>1, PassUpdates DEF Pass
    <3>4. /\ job' = [job EXCEPT ![Reconcile] = local]
          /\ pass' = then
          /\ local.todo # {}
      BY <1>3, <2>3, <3>1 DEF RouteObserved, Scale, service_state
    <3> HIDE DEF local, then
    <3>5. "rm_stop" \in Labels
      BY DEF Labels
    <3> QED BY <1>2, <1>3, <2>1, <2>3, <3>2, <3>3, <3>4, <3>5 DEF RouteObserved
  <2> QED BY <1>3, <2>2, <2>3 DEF RouteObserved, service_state
<1>4. CASE ReadAgain
  <2> DEFINE base == IF row = NoService THEN pass.service ELSE row
  <2>1. base \in ServiceOf(Created)
    BY <1>1, RowIsService DEF TypeOK
  <2>2. Scale("reread", base, pass.want)
    BY <1>4 DEF ReadAgain, service_state
  <2>3. routing' \subseteq Created
    BY <1>4 DEF ReadAgain, TypeOK
  <2> HIDE DEF base
  <2> QED BY <1>1, <1>2, <1>4, <2>1, <2>2, <2>3, ScaleTypes DEF ReadAgain
<1> QED BY <1>3, <1>4

\* One replica is dealt with, and the pass goes on with the next, if any.
LEMMA NextCreationTypes ==
    ASSUME TypeInv, NEW from \in HoldsPass, NextCreation(from)
    PROVE  \E next \in {"create", "observe"} :
              /\ pc[Reconcile] = from
              /\ pc' = [pc EXCEPT ![Reconcile] = next]
              /\ pass' \in Pass
              /\ next = "create" => pass'.service # NoService
<1> USE DEF TypeInv
<1>1. CASE pass.missing > 1
  <2>1. pass'.service = pass.service /\ pass.service # NoService
    BY <1>1, PassUpdates DEF NextCreation, Pass, Prepared, Goto
  <2>2. pass' \in Pass
    BY <1>1, PassUpdates DEF NextCreation
  <2> QED BY <1>1, <2>1, <2>2 DEF NextCreation, Goto
<1>2. CASE ~(pass.missing > 1)
  BY <1>2, PassUpdates DEF NextCreation, Goto
<1> QED BY <1>1, <1>2

\* With one more container made, everything named before is still of its
\* type.
LEMMA MadeGrows ==
    ASSUME TypeOK, Len(made) + 1 <= MaxMade,
           NEW entry \in [image : Images, node : Nodes],
           made' = Append(made, entry)
    PROVE  /\ made' \in Seq([image : Images, node : Nodes])
           /\ Len(made') = Len(made) + 1
           /\ Len(made') \in 0..MaxMade
           /\ Created' = Created \cup {Len(made) + 1}
           /\ MaybeService \subseteq MaybeService'
           /\ Job \subseteq Job'
           /\ Batches \subseteq Batches'
           /\ Call \subseteq Call'
           /\ nodes \in LedgerType(Created')
           /\ \A local \in Pass : \A r \in 0..Len(made') : \A b \in BOOLEAN :
                 [local EXCEPT !.fresh = r, !.addressed = b] \in Pass'
<1> DEFINE R == [image : Images, node : Nodes]
<1>1. made \in Seq(R) /\ Len(made) \in Nat /\ entry \in R
  BY OrchestratorAssumption DEF TypeOK
<1>2. made' \in Seq(R) /\ Len(made') = Len(made) + 1
  <2> HIDE DEF R
  <2> QED BY <1>1
<1>3. Len(made') \in 0..MaxMade
  BY <1>1, <1>2, OrchestratorAssumption
<1>4. Created' = Created \cup {Len(made) + 1} /\ Created \subseteq Created'
  BY <1>1, <1>2 DEF Created
<1>5. MaybeService \subseteq MaybeService'
  BY <1>4 DEF MaybeService, ServiceOf
<1>6. Job \subseteq Job'
  BY <1>4, <1>5 DEF Job
<1>7. Batches \subseteq Batches'
  BY <1>4 DEF Batches
<1>8. Call \subseteq Call'
  BY <1>5 DEF Call
<1>9. nodes \in LedgerType(Created')
  BY <1>4 DEF TypeOK, LedgerType
<1>10. ASSUME NEW local \in Pass, NEW r \in 0..Len(made'), NEW b \in BOOLEAN
       PROVE  [local EXCEPT !.fresh = r, !.addressed = b] \in Pass'
  BY <1>5, <1>10 DEF Pass
<1> QED BY <1>2, <1>3, <1>4, <1>5, <1>6, <1>7, <1>8, <1>9, <1>10

\* Giving up a replica no node has room for keeps the types.
LEMMA SkipTypes ==
    ASSUME TypeInv, SkipReplica, UNCHANGED apiVars
    PROVE  TypeInv'
<1> USE DEF TypeInv, storeVars, hostVars, apiVars
<1>1. PICK next \in {"create", "observe"} :
         /\ pc[Reconcile] = "create"
         /\ pc' = [pc EXCEPT ![Reconcile] = next]
         /\ pass' \in Pass
         /\ next = "create" => pass'.service # NoService
  BY NextCreationTypes DEF SkipReplica, HoldsPass
<1>2. UNCHANGED <<row, rollout, overwrote, up, made, nodes, routing, job,
                  batches, pending, api, ops, asked>>
  BY DEF SkipReplica
<1>3. faults' \in Faulted
  BY FaultCounted DEF SkipReplica, TypeOK
<1>4. pc' \in [Tasks -> Labels]
  BY <1>1 DEF TypeOK, Labels
<1>5. TypeOK'
  BY <1>1, <1>2, <1>3, <1>4, SameMade DEF TypeOK
<1>6. Prepared'
  BY <1>1, <1>2, Typical DEF TypeOK, Prepared, Removing, HoldsRow, HoldsPass
<1> QED BY <1>5, <1>6

\* Starting a container keeps the types, with one more replica created.
LEMMA CreationTypes ==
    ASSUME TypeInv, CreateContainer, UNCHANGED apiVars
    PROVE  TypeInv'
<1> USE DEF TypeInv, storeVars, hostVars, apiVars
<1> DEFINE fresh == Len(made) + 1
           entry == [image |-> pass.service.image,
                     node |-> SelectNode(nodes, pass.service.request)]
<1>1. /\ pc[Reconcile] = "create"
      /\ pc' = [pc EXCEPT ![Reconcile] = "cr_read"]
      /\ fresh <= MaxMade
      /\ Candidates(nodes, pass.service.request) # {}
      /\ made' = Append(made, entry)
      /\ up' = up \cup {fresh}
      /\ UNCHANGED <<row, rollout, overwrote, nodes, routing, job, batches,
                     pending, api, ops, asked>>
  BY DEF CreateContainer, Goto, service_state
<1>2. /\ pass.service \in ServiceOf(Created)
      /\ pass.service # NoService
  BY <1>1, RowIsService, PassFields DEF Prepared, HoldsPass
<1>3. entry \in [image : Images, node : Nodes]
  <2>1. pass.service.request \in [cpu : Nat, memory : Nat]
    BY <1>2, ServiceFields, Typical
  <2>2. nodes \in LedgerType(Created)
    BY DEF TypeOK
  <2>3. \A n \in Nodes : IsFiniteSet(nodes[n].replicas)
    BY <2>2, CreatedIsFinite DEF LedgerType
  <2>4. SelectNode(nodes, pass.service.request) \in Nodes
    BY <1>1, <2>1, <2>2, <2>3, PlacementFits
  <2> QED BY <1>2, <2>4, ServiceFields
<1> HIDE DEF entry
<1>4. fresh \in 0..Len(made') /\ fresh # 0
  <2>1. Len(made) \in Nat
    BY OrchestratorAssumption DEF TypeOK
  <2>2. Len(made') = Len(made) + 1
    BY <1>1, <1>3, MadeGrows
  <2> QED BY <2>1, <2>2
<1>5. /\ faults' \in Faulted
      /\ \/ pass' = [pass EXCEPT !.fresh = fresh, !.addressed = TRUE]
         \/ pass' = [pass EXCEPT !.fresh = fresh]
  BY FaultCounted DEF CreateContainer, TypeOK
<1>6. pass' \in Pass'
  <2>1. CASE pass' = [pass EXCEPT !.fresh = fresh, !.addressed = TRUE]
    BY <1>1, <1>3, <1>4, <2>1, MadeGrows, PassUpdates, Zenon
  <2>2. CASE pass' = [pass EXCEPT !.fresh = fresh]
    <3>1. pass' = [pass EXCEPT !.fresh = fresh, !.addressed = pass.addressed]
      BY <2>2, PassUpdates DEF Pass
    <3> QED BY <1>1, <1>3, <1>4, <3>1, MadeGrows, PassUpdates, PassFields
  <2> QED BY <1>5, <2>1, <2>2
<1>7. /\ row' \in MaybeService'
      /\ job' \in [Tasks -> Job']
      /\ batches' \in [Rollouts -> Batches']
      /\ api' \in [Clients -> Call']
      /\ nodes' \in LedgerType(Created')
      /\ up' \subseteq Created'
      /\ routing' \subseteq Created'
      /\ made' \in Seq([image : Images, node : Nodes])
      /\ Len(made') \in 0..MaxMade
  BY <1>1, <1>3, MadeGrows DEF TypeOK
<1>8. pc' \in [Tasks -> Labels]
  BY <1>1 DEF TypeOK, Labels
<1>9. TypeOK'
  BY <1>1, <1>5, <1>6, <1>7, <1>8 DEF TypeOK
<1>10. pass'.fresh # 0 /\ pass'.service # NoService
  BY <1>2, <1>4, <1>5, PassUpdates DEF Pass
<1>11. Prepared'
  BY <1>1, <1>10, Typical DEF TypeOK, Prepared, Removing, HoldsRow, HoldsPass
<1> QED BY <1>9, <1>11

\* Recording the new replica in the ledger, the row and the routing keeps them.
LEMMA RecordingTypes ==
    ASSUME TypeInv, AllocateReplica \/ PutReplica \/ RouteReplica,
           UNCHANGED apiVars
    PROVE  TypeInv'
<1> USE DEF TypeInv, storeVars, hostVars, apiVars
<1>1. /\ pass.service \in ServiceOf(Created)
      /\ pass.fresh \in Created
  BY RowIsService, PassFields
     DEF AllocateReplica, PutReplica, RouteReplica, NextCreation, Goto, Prepared,
         HoldsPass, Created
<1>2. CASE AllocateReplica
  <2>1. nodes' \in LedgerType(Created)
    <3>1. /\ made[pass.fresh].node \in Nodes
          /\ pass.service.request \in [cpu : Nat, memory : Nat]
          /\ nodes \in LedgerType(Created)
      BY <1>1, MadeType, ServiceFields, Typical DEF TypeOK
    <3> QED BY <1>1, <1>2, <3>1, AllocateType DEF AllocateReplica, service_state
  <2>2. CASE row # NoService
    <3>1. /\ pc[Reconcile] = "cr_read"
          /\ pc' = [pc EXCEPT ![Reconcile] = "cr_put"]
          /\ job' = [job EXCEPT ![Reconcile].current = row]
          /\ UNCHANGED <<row, rollout, overwrote, routing, up, made, pass,
                         batches, pending, faults, api, ops, asked>>
      BY <1>2, <2>2 DEF AllocateReplica, Goto
    <3>2. pc' \in [Tasks -> Labels] /\ job' \in [Tasks -> Job]
      BY <3>1, JobUpdates, Typical DEF TypeOK, Labels
    <3>3. TypeOK'
      BY <2>1, <3>1, <3>2, SameMade DEF TypeOK
    <3>4. Prepared'
      BY <2>2, <3>1, Typical
         DEF TypeOK, Prepared, Removing, HoldsRow, HoldsPass
    <3> QED BY <3>3, <3>4
  <2>3. CASE row = NoService
    <3>1. UNCHANGED <<row, rollout, overwrote, routing, up, made, job, batches,
                      pending, faults, api, ops, asked>>
      BY <1>2, <2>3 DEF AllocateReplica
    <3>2. PICK next \in {"create", "observe"} :
             /\ pc[Reconcile] = "cr_read"
             /\ pc' = [pc EXCEPT ![Reconcile] = next]
             /\ pass' \in Pass
             /\ next = "create" => pass'.service # NoService
      BY <1>2, <2>3, NextCreationTypes DEF AllocateReplica, HoldsPass
    <3>3. pc' \in [Tasks -> Labels]
      BY <3>2 DEF TypeOK, Labels
    <3>4. TypeOK'
      BY <2>1, <3>1, <3>2, <3>3, SameMade DEF TypeOK
    <3>5. Prepared'
      BY <3>1, <3>2, Typical DEF TypeOK, Prepared, Removing, HoldsRow, HoldsPass
    <3> QED BY <3>4, <3>5
  <2> QED BY <2>2, <2>3
<1>3. CASE PutReplica
  <2> DEFINE recorded ==
               WithReplica(job[Reconcile].current, pass.fresh, pass.addressed)
  <2>1. job[Reconcile].current \in ServiceOf(Created)
    BY <1>3, RowIsService, JobFields, Typical
       DEF PutReplica, Goto, Prepared, HoldsRow
  <2>2. recorded \in ServiceOf(Created)
    BY <1>1, <2>1, PassFields, ServiceUpdates, Zenon
  <2>3. recorded \in MaybeService /\ recorded # NoService
    BY <2>2, RowIsService DEF MaybeService
  <2>4. /\ pc[Reconcile] = "cr_put"
        /\ pc' = [pc EXCEPT ![Reconcile] = "cr_route"]
        /\ row' = recorded
        /\ overwrote' = (overwrote \/ row # job[Reconcile].current)
        /\ job' = [job EXCEPT ![Reconcile].current = recorded]
        /\ UNCHANGED <<rollout, routing, up, made, nodes, pass, batches,
                       pending, faults, api, ops, asked>>
    BY <1>3 DEF PutReplica, Goto, Write, current_service
  <2>5. overwrote' \in BOOLEAN
    BY <2>4, Zenon
  <2> HIDE DEF recorded
  <2>6. pc' \in [Tasks -> Labels] /\ job' \in [Tasks -> Job]
    BY <2>3, <2>4, JobUpdates, Typical DEF TypeOK, Labels
  <2>7. TypeOK'
    BY <2>3, <2>4, <2>5, <2>6, SameMade DEF TypeOK
  <2>8. Prepared'
    BY <2>3, <2>4, Typical DEF TypeOK, Prepared, Removing, HoldsRow, HoldsPass
  <2> QED BY <2>7, <2>8
<1>4. CASE RouteReplica
  <2>1. /\ routing' = job[Reconcile].current.addressed
        /\ job' = [job EXCEPT ![Reconcile].current = NoService]
        /\ UNCHANGED <<row, rollout, overwrote, up, made, nodes, batches,
                       pending, faults, api, ops, asked>>
    BY <1>4 DEF RouteReplica, current_service
  <2>2. PICK next \in {"create", "observe"} :
           /\ pc[Reconcile] = "cr_route"
           /\ pc' = [pc EXCEPT ![Reconcile] = next]
           /\ pass' \in Pass
           /\ next = "create" => pass'.service # NoService
    BY <1>4, NextCreationTypes DEF RouteReplica, HoldsPass
  <2>3. job[Reconcile].current.addressed \in SUBSET Created
    BY <2>2, RowIsService, JobFields, ServiceFields, Typical DEF Prepared, HoldsRow
  <2>4. pc' \in [Tasks -> Labels] /\ job' \in [Tasks -> Job]
    BY <2>1, <2>2, JobUpdates, Typical DEF TypeOK, Labels, MaybeService
  <2>5. TypeOK'
    BY <2>1, <2>2, <2>3, <2>4, SameMade DEF TypeOK
  <2>6. Prepared'
    BY <2>1, <2>2, Typical DEF TypeOK, Prepared, Removing, HoldsRow, HoldsPass
  <2> QED BY <2>5, <2>6
<1> QED BY <1>2, <1>3, <1>4

\* A task that goes to a label that needs nothing, with idle locals or its
\* own, and writes at most the row and the routing entry.
LEMMA RestingTypes ==
    ASSUME TypeInv, NEW t \in Tasks, NEW next \in Labels,
           next \notin Removing \cup HoldsRow \cup HoldsPass,
           pc' = [pc EXCEPT ![t] = next],
           job' = job \/ job' = [job EXCEPT ![t] = Idle],
           pass' = pass \/ (t = Reconcile /\ pass' = NoPass),
           row' \in MaybeService,
           rollout' \in [Rollouts -> Deployment],
           overwrote' \in BOOLEAN,
           routing' \subseteq Created,
           batches' \in [Rollouts -> Batches],
           faults' \in Faulted,
           UNCHANGED <<up, made, nodes, pending, api, ops, asked>>
    PROVE  TypeInv'
<1> USE DEF TypeInv
<1>1. Len(made) \in Nat
  BY OrchestratorAssumption DEF TypeOK
<1>2. pc' \in [Tasks -> Labels] /\ job' \in [Tasks -> Job] /\ pass' \in Pass
  BY <1>1, NothingHeld, JobUpdates DEF TypeOK
<1>3. TypeOK'
  BY <1>2, SameMade DEF TypeOK
<1>4. /\ pc'[t] = next
      /\ \A u \in Tasks \ {t} : pc'[u] = pc[u] /\ job'[u] = job[u]
  BY DEF TypeOK
<1>5. Prepared'
  BY <1>4, Typical DEF Prepared, Removing, HoldsRow, HoldsPass
<1> QED BY <1>3, <1>5

\* A task that has read the row it is about to replace.
LEMMA ReadingTypes ==
    ASSUME TypeInv, NEW t \in Tasks, row # NoService,
           NEW next \in HoldsRow \ (Removing \cup HoldsPass),
           NEW local \in Job, local.current = row,
           pc' = [pc EXCEPT ![t] = next],
           job' = [job EXCEPT ![t] = local],
           pass' = pass \/ (t = Reconcile /\ pass' = NoPass),
           batches' \in [Rollouts -> Batches],
           UNCHANGED <<row, rollout, overwrote, routing, up, made, nodes,
                       pending, faults, api, ops, asked>>
    PROVE  TypeInv'
<1> USE DEF TypeInv
<1>1. Len(made) \in Nat
  BY OrchestratorAssumption DEF TypeOK
<1>2. pc' \in [Tasks -> Labels] /\ job' \in [Tasks -> Job] /\ pass' \in Pass
  BY <1>1, NothingHeld, JobUpdates DEF TypeOK, Labels, HoldsRow
<1>3. TypeOK'
  BY <1>2, SameMade DEF TypeOK
<1>4. /\ pc'[t] = next /\ job'[t] = local
      /\ \A u \in Tasks \ {t} : pc'[u] = pc[u] /\ job'[u] = job[u]
  BY DEF TypeOK
<1>5. Prepared'
  BY <1>4, Typical DEF Prepared, Removing, HoldsRow, HoldsPass
<1> QED BY <1>3, <1>5

\* Reading the row into the locals of a task.
LEMMA LocalRow ==
    ASSUME TypeOK, NEW t \in Tasks, NEW local \in {Idle, job[t]}
    PROVE  /\ [local EXCEPT !.current = row] \in Job
           /\ [local EXCEPT !.current = row].current = row
           /\ [job EXCEPT ![t].current = row] =
                [job EXCEPT ![t] = [job[t] EXCEPT !.current = row]]
<1>1. Len(made) \in Nat
  BY OrchestratorAssumption DEF TypeOK
<1>2. Idle \in Job /\ job[t] \in Job /\ row \in MaybeService
  BY <1>1, NothingHeld, JobUpdates DEF TypeOK
<1>3. local \in Job
  BY <1>2
<1>4. /\ [local EXCEPT !.current = row] \in Job
      /\ [local EXCEPT !.current = row].current = row
  BY <1>2, <1>3 DEF Job
<1> QED BY <1>4

\* The end of a pass, or of a teardown, keeps the types.
LEMMA StatusTypes ==
    ASSUME TypeInv, ReadStatus \/ PutStatus \/ DeleteRow \/ RemoveRoute,
           UNCHANGED apiVars
    PROVE  TypeInv'
<1> USE DEF TypeInv, storeVars, hostVars, apiVars, Goto
<1>1. /\ row \in MaybeService
      /\ rollout \in [Rollouts -> Deployment]
      /\ overwrote \in BOOLEAN
      /\ routing \subseteq Created
      /\ batches \in [Rollouts -> Batches]
      /\ faults \in Faulted
      /\ NoService \in MaybeService
  BY DEF TypeOK, MaybeService
<1>2. \A next \in {"idle", "td_route"} :
        next \in Labels /\ next \notin Removing \cup HoldsRow \cup HoldsPass
  BY DEF Labels, Removing, HoldsRow, HoldsPass
<1>3. CASE ReadStatus
  <2>1. CASE StatusDiffers
    <3>1. "ob_put" \in HoldsRow \ (Removing \cup HoldsPass)
      BY DEF Removing, HoldsRow, HoldsPass
    <3>2. row # NoService
      BY <2>1 DEF StatusDiffers
    <3>3. /\ pc' = [pc EXCEPT ![Reconcile] = "ob_put"]
          /\ job' = [job EXCEPT ![Reconcile] = [Idle EXCEPT !.current = row]]
          /\ pass' = NoPass
          /\ UNCHANGED <<row, rollout, overwrote, routing, up, made, nodes,
                         batches, pending, faults, api, ops, asked>>
      BY <1>3, <2>1 DEF ReadStatus
    <3> DEFINE local == [Idle EXCEPT !.current = row]
    <3>4. local \in Job /\ local.current = row
      BY LocalRow, Typical
    <3>5. batches' \in [Rollouts -> Batches]
      BY <1>1, <3>3
    <3>6. job' = [job EXCEPT ![Reconcile] = local]
      BY <3>3
    <3> HIDE DEF local
    <3> QED BY <3>1, <3>2, <3>3, <3>4, <3>5, <3>6, Typical, ReadingTypes
  <2>2. CASE ~StatusDiffers
    <3>1. /\ pc' = [pc EXCEPT ![Reconcile] = "idle"]
          /\ job' = [job EXCEPT ![Reconcile] = Idle]
          /\ pass' = NoPass
          /\ UNCHANGED <<row, rollout, overwrote, routing, up, made, nodes,
                         batches, pending, faults, api, ops, asked>>
      BY <1>3, <2>2 DEF ReadStatus
    <3> QED BY <1>1, <1>2, <3>1, Typical, RestingTypes
  <2> QED BY <2>1, <2>2
<1>4. CASE PutStatus
  <2> DEFINE base == job[Reconcile].current
             observed == [base EXCEPT !.status = ObservedStatus(base)]
  <2>1. observed \in MaybeService
    <3>1. base \in ServiceOf(Created)
      BY <1>4, RowIsService, JobFields, Typical DEF PutStatus, Prepared, HoldsRow
    <3>2. ObservedStatus(base) \in ServiceStatus
      BY DEF ObservedStatus, ServiceStatus
    <3> QED BY <3>1, <3>2, ServiceUpdates DEF MaybeService
  <2>2. /\ pc' = [pc EXCEPT ![Reconcile] = "idle"]
        /\ row' = observed
        /\ overwrote' = (overwrote \/ row # base)
        /\ job' = [job EXCEPT ![Reconcile] = Idle]
        /\ UNCHANGED <<rollout, routing, up, made, nodes, pass, batches,
                       pending, faults, api, ops, asked>>
    BY <1>4 DEF PutStatus, Write, current_service
  <2>3. overwrote' \in BOOLEAN
    BY <2>2, Zenon
  <2> HIDE DEF observed
  <2> QED BY <1>1, <1>2, <2>1, <2>2, <2>3, Typical, RestingTypes
<1>5. CASE DeleteRow
  <2>1. /\ pc' = [pc EXCEPT ![Reconcile] = "td_route"]
        /\ row' = NoService
        /\ overwrote' = (overwrote \/ (row # NoService /\ row.status # "deleting"))
        /\ job' = [job EXCEPT ![Reconcile] = Idle]
        /\ UNCHANGED <<rollout, routing, up, made, nodes, pass, batches,
                       pending, faults, api, ops, asked>>
    BY <1>5 DEF DeleteRow
  <2>2. overwrote' \in BOOLEAN
    BY <2>1, Zenon
  <2> QED BY <1>1, <1>2, <2>1, <2>2, Typical, RestingTypes
<1>6. CASE RemoveRoute
  <2>1. /\ pc' = [pc EXCEPT ![Reconcile] = "idle"]
        /\ routing' = {}
        /\ UNCHANGED <<row, rollout, overwrote, up, made, nodes, job, pass,
                       batches, pending, faults, api, ops, asked>>
    BY <1>6 DEF RemoveRoute
  <2> QED BY <1>1, <1>2, <2>1, Typical, RestingTypes
<1> QED BY <1>3, <1>4, <1>5, <1>6

\* Every step of ReconciliationLoop keeps the types and what they say of its
\* locals: a step that uses a row it read earlier does hold one.
THEOREM ReconcileTypes ==
    ASSUME TypeInv, ReconcilePass, UNCHANGED apiVars
    PROVE  TypeInv'
<1>1. CASE ListServices /\ row = NoService
  BY <1>1, SameMade
     DEF ListServices, orchVars, apiVars, TypeInv, TypeOK, Prepared
<1>2. CASE ListServices /\ row # NoService
  BY <1>2, ListingTypes
<1>3. CASE ObserveReplica \/ PutObserved
  BY <1>3, ObservationTypes
<1>4. CASE RouteObserved \/ ReadAgain
  BY <1>4, ScalingTypes
<1>5. CASE SkipReplica
  BY <1>5, SkipTypes
<1>6. CASE CreateContainer
  BY <1>6, CreationTypes
<1>7. CASE AllocateReplica \/ PutReplica \/ RouteReplica
  BY <1>7, RecordingTypes
<1>8. CASE ReadStatus \/ PutStatus \/ DeleteRow \/ RemoveRoute
  BY <1>8, StatusTypes
<1>9. CASE RemoveReplica(Reconcile)
  BY <1>9, RemovalTypes, Typical
<1> QED BY <1>1, <1>2, <1>3, <1>4, <1>5, <1>6, <1>7, <1>8, <1>9
        DEF ReconcilePass

-----------------------------------------------------------------------------
(* Rollouts.                                                               *)

\* A rollout reads the row on its way, or leaves when there is none.
LEMMA ReadRowTypes ==
    ASSUME TypeInv, NEW d \in Rollouts, NEW from,
           NEW to \in HoldsRow \ (Removing \cup HoldsPass),
           NEW gone \in {"off", "complete"},
           ReadRow(d, from, to, gone),
           batches' \in [Rollouts -> Batches],
           UNCHANGED <<row, rollout, overwrote, routing, up, made, nodes, pass,
                       pending, faults, api, ops, asked>>
    PROVE  TypeInv'
<1> USE DEF Goto
<1>1. d \in Tasks
  BY Typical
<1>2. CASE row # NoService
  <2> DEFINE local == [job[d] EXCEPT !.current = row]
  <2>1. local \in Job /\ local.current = row
    BY <1>1, LocalRow DEF TypeInv
  <2>2. /\ pc' = [pc EXCEPT ![d] = to]
        /\ job' = [job EXCEPT ![d] = local]
    BY <1>1, <1>2, LocalRow DEF TypeInv, ReadRow
  <2> HIDE DEF local
  <2> QED BY <1>1, <1>2, <2>1, <2>2, ReadingTypes
<1>3. CASE row = NoService
  <2>1. /\ pc' = [pc EXCEPT ![d] = gone]
        /\ job' = [job EXCEPT ![d] = Idle]
    BY <1>3 DEF ReadRow
  <2>2. gone \in Labels /\ gone \notin Removing \cup HoldsRow \cup HoldsPass
    BY DEF Labels, Removing, HoldsRow, HoldsPass
  <2>3. /\ row' \in MaybeService
        /\ rollout' \in [Rollouts -> Deployment]
        /\ overwrote' \in BOOLEAN
        /\ routing' \subseteq Created
        /\ faults' \in Faulted
    BY DEF TypeInv, TypeOK
  <2> QED BY <1>1, <2>1, <2>2, <2>3, RestingTypes
<1> QED BY <1>2, <1>3

\* A rollout writes a row made from the one it has read, and rests.
LEMMA WriteRowTypes ==
    ASSUME TypeInv, NEW d \in Rollouts, NEW written \in ServiceOf(Created),
           NEW next \in {"complete", "surge_read", "wait", "off"},
           pc' = [pc EXCEPT ![d] = next],
           Write(job[d].current, written),
           job' = [job EXCEPT ![d] = Idle],
           UNCHANGED <<rollout, routing, up, made, nodes, pass, batches, pending,
                       faults, api, ops, asked>>
    PROVE  TypeInv'
<1>1. overwrote' \in BOOLEAN
  BY Zenon DEF Write
<1>2. next \in Labels /\ next \notin Removing \cup HoldsRow \cup HoldsPass
  BY DEF Labels, Removing, HoldsRow, HoldsPass
<1>3. /\ row' \in MaybeService
      /\ rollout' \in [Rollouts -> Deployment]
      /\ routing' \subseteq Created
      /\ batches' \in [Rollouts -> Batches]
      /\ faults' \in Faulted
      /\ d \in Tasks
  BY Typical DEF TypeInv, TypeOK, Write, MaybeService
<1> QED BY <1>1, <1>2, <1>3, RestingTypes

\* The types of a rollout's locals.
LEMMA BatchFields ==
    ASSUME TypeOK, NEW d \in Rollouts
    PROVE  /\ batches[d].old \in SUBSET Created
           /\ batches[d].batch \in SUBSET Created
           /\ batches[d].polls \in 0..MaxPolls
           /\ Cardinality(batches[d].batch) \in Nat
           /\ NoBatches \in Batches
<1>1. batches[d] \in Batches
  BY DEF TypeOK
<1>2. /\ batches[d].old \in SUBSET Created
      /\ batches[d].batch \in SUBSET Created
      /\ batches[d].polls \in 0..MaxPolls
  BY <1>1 DEF Batches
<1>3. NoBatches \in Batches
  BY OrchestratorAssumption DEF NoBatches, Batches
<1> QED BY <1>2, <1>3, CreatedIsFinite

\* Starting a rollout and switching the image keeps the types.
LEMMA BeginningTypes ==
    ASSUME TypeInv, NEW d \in Rollouts,
           BeginRollout(d) \/ ReadForRollout(d) \/ SwitchImage(d),
           UNCHANGED apiVars
    PROVE  TypeInv'
<1> USE DEF storeVars, hostVars, apiVars, Goto
<1>1. TypeOK /\ d \in Tasks
  BY Typical DEF TypeInv
<1>2. CASE BeginRollout(d)
  <2>1. /\ pc' = [pc EXCEPT ![d] = "read"]
        /\ rollout' = [rollout EXCEPT ![d].status = "updating"]
        /\ UNCHANGED <<row, overwrote, routing, up, made, nodes, job, pass,
                       batches, pending, faults, api, ops, asked>>
    BY <1>2 DEF BeginRollout
  <2>2. /\ "read" \in Labels
        /\ "read" \notin Removing \cup HoldsRow \cup HoldsPass
    BY DEF Labels, Removing, HoldsRow, HoldsPass
  <2>3. rollout' \in [Rollouts -> Deployment]
    BY <1>1, <2>1 DEF TypeOK, Deployment
  <2>4. /\ row' \in MaybeService
        /\ overwrote' \in BOOLEAN
        /\ routing' \subseteq Created
        /\ batches' \in [Rollouts -> Batches]
        /\ faults' \in Faulted
    BY <1>1, <2>1 DEF TypeOK
  <2> QED BY <1>1, <2>1, <2>2, <2>3, <2>4, RestingTypes
<1>3. CASE ReadForRollout(d)
  <2> DEFINE old == IF row = NoService THEN {} ELSE row.replicas
  <2>1. old \in SUBSET Created
    BY <1>1, RowIsService, ServiceFields DEF TypeOK
  <2>2. batches' = [batches EXCEPT ![d].old = old]
    BY <1>3 DEF ReadForRollout
  <2> HIDE DEF old
  <2>3. batches' \in [Rollouts -> Batches]
    BY <1>1, <2>1, <2>2 DEF TypeOK, Batches
  <2>4. "switch" \in HoldsRow \ (Removing \cup HoldsPass)
    BY DEF Removing, HoldsRow, HoldsPass
  <2> QED BY <1>3, <2>3, <2>4, ReadRowTypes DEF ReadForRollout
<1>4. CASE SwitchImage(d)
  <2> DEFINE base == job[d].current
             next == BatchLabel(batches[d].old)
             written == [base EXCEPT !.image = rollout[d].image,
                                     !.status = "updating"]
  <2>1. base \in ServiceOf(Created)
    BY <1>1, <1>4, RowIsService, JobFields
       DEF TypeInv, SwitchImage, Prepared, HoldsRow
  <2>2. rollout[d].image \in Images
    BY <1>1 DEF TypeOK, Deployment
  <2>3. written \in ServiceOf(Created)
    BY <2>1, <2>2 DEF ServiceOf, ServiceStatus
  <2>4. next \in {"complete", "surge_read"}
    BY DEF BatchLabel
  <2>5. /\ pc' = [pc EXCEPT ![d] = next]
        /\ Write(base, written)
        /\ job' = [job EXCEPT ![d] = Idle]
        /\ UNCHANGED <<rollout, routing, up, made, nodes, pass, batches,
                       pending, faults, api, ops, asked>>
    BY <1>4 DEF SwitchImage
  <2> HIDE DEF next, written
  <2> QED BY <2>3, <2>4, <2>5, WriteRowTypes
<1> QED BY <1>2, <1>3, <1>4

\* Raising the desired count and polling the new replicas keeps them.
LEMMA SurgeTypes ==
    ASSUME TypeInv, NEW d \in Rollouts,
           SurgeRead(d) \/ SurgePut(d) \/ PollReplicas(d), UNCHANGED apiVars
    PROVE  TypeInv'
<1> USE DEF storeVars, hostVars, apiVars, Goto
<1>1. TypeOK /\ d \in Tasks
  BY Typical DEF TypeInv
<1>2. CASE SurgeRead(d)
  <2> DEFINE batch == Oldest(batches[d].old, BatchSize)
             local == IF row = NoService THEN NoBatches
                      ELSE [old |-> batches[d].old \ batch, batch |-> batch,
                            polls |-> 0]
  <2>1. local \in Batches
    <3>1. batch \in SUBSET Created
      BY <1>1, BatchFields DEF Oldest
    <3>2. 0 \in 0..MaxPolls
      BY OrchestratorAssumption
    <3> HIDE DEF batch
    <3> QED BY <1>1, <3>1, <3>2, BatchFields DEF Batches
  <2>2. batches' = [batches EXCEPT ![d] = local]
    BY <1>2 DEF SurgeRead
  <2> HIDE DEF local
  <2>3. batches' \in [Rollouts -> Batches]
    BY <1>1, <2>1, <2>2 DEF TypeOK
  <2>4. "surge_put" \in HoldsRow \ (Removing \cup HoldsPass)
    BY DEF Removing, HoldsRow, HoldsPass
  <2> QED BY <1>2, <2>3, <2>4, ReadRowTypes DEF SurgeRead
<1>3. CASE SurgePut(d)
  <2> DEFINE base == job[d].current
             written == [base EXCEPT
                           !.desired = @ + Cardinality(batches[d].batch)]
  <2>1. base \in ServiceOf(Created)
    BY <1>1, <1>3, RowIsService, JobFields
       DEF TypeInv, SurgePut, Prepared, HoldsRow
  <2>2. written \in ServiceOf(Created)
    <3>1. base.desired + Cardinality(batches[d].batch) \in Int
      BY <1>1, <2>1, BatchFields, ServiceFields
    <3> QED BY <2>1, <3>1, ServiceUpdates
  <2>3. /\ pc' = [pc EXCEPT ![d] = "wait"]
        /\ Write(base, written)
        /\ job' = [job EXCEPT ![d] = Idle]
        /\ UNCHANGED <<rollout, routing, up, made, nodes, pass, batches,
                       pending, faults, api, ops, asked>>
    BY <1>3 DEF SurgePut
  <2> HIDE DEF written
  <2> QED BY <2>2, <2>3, WriteRowTypes
<1>4. CASE PollReplicas(d)
  <2> DEFINE last == batches[d].polls + 1 >= MaxPolls
             next == IF Replaced(d) \/ last THEN "shrink_read" ELSE "wait"
             polls == IF Replaced(d) \/ last THEN 0 ELSE batches[d].polls + 1
  <2>1. polls \in 0..MaxPolls
    BY <1>1, BatchFields, OrchestratorAssumption
  <2>2. next \in {"shrink_read", "wait"}
    OBVIOUS
  <2>3. /\ pc' = [pc EXCEPT ![d] = next]
        /\ batches' = [batches EXCEPT ![d].polls = polls]
        /\ UNCHANGED <<row, rollout, overwrote, routing, up, made, nodes, job,
                       pass, pending, faults, api, ops, asked>>
    BY <1>4 DEF PollReplicas
  <2> HIDE DEF next, polls
  <2>4. batches' \in [Rollouts -> Batches]
    BY <1>1, <2>1, <2>3 DEF TypeOK, Batches
  <2>5. next \in Labels /\ next \notin Removing \cup HoldsRow \cup HoldsPass
    BY <2>2 DEF Labels, Removing, HoldsRow, HoldsPass
  <2>6. /\ row' \in MaybeService
        /\ rollout' \in [Rollouts -> Deployment]
        /\ overwrote' \in BOOLEAN
        /\ routing' \subseteq Created
        /\ faults' \in Faulted
    BY <1>1, <2>3 DEF TypeOK
  <2> QED BY <1>1, <2>3, <2>4, <2>5, <2>6, RestingTypes
<1> QED BY <1>2, <1>3, <1>4

\* Lowering the desired count after a batch keeps them.
LEMMA ShrinkTypes ==
    ASSUME TypeInv, NEW d \in Rollouts, ShrinkRead(d) \/ ShrinkPut(d),
           UNCHANGED apiVars
    PROVE  TypeInv'
<1> USE DEF storeVars, hostVars, apiVars, Goto
<1>1. TypeOK /\ d \in Tasks /\ d # Reconcile
  BY Typical DEF TypeInv
<1>2. CASE ShrinkRead(d)
  <2>1. batches' \in [Rollouts -> Batches]
    <3>1. batches[d] \in Batches /\ batches \in [Rollouts -> Batches]
      BY <1>1 DEF TypeOK
    <3> QED BY <1>1, <1>2, <3>1, BatchFields DEF ShrinkRead
  <2>2. "shrink_put" \in HoldsRow \ (Removing \cup HoldsPass)
    BY DEF Removing, HoldsRow, HoldsPass
  <2> QED BY <1>2, <2>1, <2>2, ReadRowTypes DEF ShrinkRead
<1>3. CASE ShrinkPut(d)
  <2> DEFINE base == job[d].current
             batch == batches[d].batch
             shrunk == [base EXCEPT !.desired = @ - Cardinality(batch)]
             after == BatchLabel(batches[d].old)
             next == RemovalLabel(batch, after)
             local == [current |-> NoService, todo |-> batch,
                       request |-> shrunk.request, after |-> after]
  <2>1. base \in ServiceOf(Created)
    BY <1>1, <1>3, RowIsService, JobFields
       DEF TypeInv, ShrinkPut, Prepared, HoldsRow
  <2>2. shrunk \in ServiceOf(Created)
    <3>1. base.desired - Cardinality(batch) \in Int
      BY <1>1, <2>1, BatchFields, ServiceFields
    <3> QED BY <2>1, <3>1, ServiceUpdates
  <2>3. after \in {"complete", "surge_read"}
    BY DEF BatchLabel
  <2>4. local \in Job
    <3>1. batch \in SUBSET Created
      BY <1>1, BatchFields
    <3> HIDE DEF shrunk, after, batch
    <3>2. shrunk.request \in Requests
      BY <2>2, ServiceFields
    <3> QED BY <2>3, <3>1, <3>2 DEF Job, MaybeService, AfterRemoval
  <2>5. \/ next = "rm_stop" /\ local.todo # {}
        \/ next \in {"complete", "surge_read"}
    BY <2>3 DEF RemovalLabel
  <2>6. /\ pc' = [pc EXCEPT ![d] = next]
        /\ row' = shrunk
        /\ overwrote' = (overwrote \/ row # base)
        /\ job' = [job EXCEPT ![d] = local]
        /\ batches' = [batches EXCEPT ![d].batch = {}]
        /\ UNCHANGED <<rollout, routing, up, made, nodes, pass, pending,
                       faults, api, ops, asked>>
    BY <1>3 DEF ShrinkPut, Write
  <2>7. overwrote' \in BOOLEAN
    BY <2>6, Zenon
  <2> HIDE DEF shrunk, local, next
  <2>8. /\ row' \in MaybeService
        /\ pc' \in [Tasks -> Labels]
        /\ job' \in [Tasks -> Job]
        /\ batches' \in [Rollouts -> Batches]
    <3>1. row' \in MaybeService
      BY <2>2, <2>6 DEF MaybeService
    <3>2. pc' \in [Tasks -> Labels]
      BY <1>1, <2>5, <2>6 DEF TypeOK, Labels
    <3>3. job' \in [Tasks -> Job]
      BY <1>1, <2>4, <2>6, JobUpdates
    <3>4. batches' \in [Rollouts -> Batches]
      BY <1>1, <2>6 DEF TypeOK, Batches
    <3> QED BY <3>1, <3>2, <3>3, <3>4
  <2>9. TypeOK'
    BY <1>1, <2>6, <2>7, <2>8, SameMade DEF TypeOK
  <2>10. /\ pc'[d] = next /\ job'[d] = local
         /\ \A u \in Tasks \ {d} : pc'[u] = pc[u] /\ job'[u] = job[u]
    BY <1>1, <2>6 DEF TypeOK
  <2>11. Prepared'
    BY <1>1, <2>5, <2>6, <2>10, Typical
       DEF TypeInv, Prepared, Removing, HoldsRow, HoldsPass
  <2> QED BY <2>9, <2>11 DEF TypeInv
<1> QED BY <1>2, <1>3

\* The end of a rollout keeps them.
LEMMA EndingTypes ==
    ASSUME TypeInv, NEW d \in Rollouts,
           CompleteRollout(d) \/ FinalRead(d) \/ FinalPut(d), UNCHANGED apiVars
    PROVE  TypeInv'
<1> USE DEF storeVars, hostVars, apiVars, Goto
<1>1. TypeOK /\ d \in Tasks
  BY Typical DEF TypeInv
<1>2. CASE CompleteRollout(d)
  <2>1. /\ pc' = [pc EXCEPT ![d] = "final_read"]
        /\ rollout' = [rollout EXCEPT ![d].status = "running"]
        /\ job' = [job EXCEPT ![d] = Idle]
        /\ UNCHANGED <<row, overwrote, routing, up, made, nodes, pass, batches,
                       pending, faults, api, ops, asked>>
    BY <1>2 DEF CompleteRollout
  <2>2. /\ "final_read" \in Labels
        /\ "final_read" \notin Removing \cup HoldsRow \cup HoldsPass
    BY DEF Labels, Removing, HoldsRow, HoldsPass
  <2>3. rollout' \in [Rollouts -> Deployment]
    BY <1>1, <2>1 DEF TypeOK, Deployment
  <2>4. /\ row' \in MaybeService
        /\ overwrote' \in BOOLEAN
        /\ routing' \subseteq Created
        /\ batches' \in [Rollouts -> Batches]
        /\ faults' \in Faulted
    BY <1>1, <2>1 DEF TypeOK
  <2> QED BY <1>1, <2>1, <2>2, <2>3, <2>4, RestingTypes
<1>3. CASE FinalRead(d)
  <2>1. batches' \in [Rollouts -> Batches]
    BY <1>1, <1>3 DEF FinalRead, TypeOK
  <2>2. "final_put" \in HoldsRow \ (Removing \cup HoldsPass)
    BY DEF Removing, HoldsRow, HoldsPass
  <2> QED BY <1>3, <2>1, <2>2, ReadRowTypes DEF FinalRead
<1>4. CASE FinalPut(d)
  <2> DEFINE base == job[d].current
             written == [base EXCEPT !.status = "running"]
  <2>1. base \in ServiceOf(Created)
    BY <1>1, <1>4, RowIsService, JobFields
       DEF TypeInv, FinalPut, Prepared, HoldsRow
  <2>2. written \in ServiceOf(Created)
    BY <2>1, ServiceUpdates DEF ServiceStatus
  <2>3. /\ pc' = [pc EXCEPT ![d] = "off"]
        /\ Write(base, written)
        /\ job' = [job EXCEPT ![d] = Idle]
        /\ UNCHANGED <<rollout, routing, up, made, nodes, pass, batches,
                       pending, faults, api, ops, asked>>
    BY <1>4 DEF FinalPut
  <2> HIDE DEF written
  <2> QED BY <2>2, <2>3, WriteRowTypes
<1> QED BY <1>2, <1>3, <1>4

\* Every step of a deployment's task keeps the types and what they say of its
\* locals.
THEOREM RolloutTypes ==
    ASSUME TypeInv, NEW d \in Rollouts, RolloutTask(d), UNCHANGED apiVars
    PROVE  TypeInv'
<1>1. CASE BeginRollout(d) \/ ReadForRollout(d) \/ SwitchImage(d)
  BY <1>1, BeginningTypes
<1>2. CASE SurgeRead(d) \/ SurgePut(d) \/ PollReplicas(d)
  BY <1>2, SurgeTypes
<1>3. CASE ShrinkRead(d) \/ ShrinkPut(d)
  BY <1>3, ShrinkTypes
<1>4. CASE CompleteRollout(d) \/ FinalRead(d) \/ FinalPut(d)
  BY <1>4, EndingTypes
<1>5. CASE RemoveReplica(d)
  BY <1>5, RemovalTypes, Typical
<1> QED BY <1>1, <1>2, <1>3, <1>4, <1>5 DEF RolloutTask

-----------------------------------------------------------------------------
(* The rollout loop, start, faults and requests.                           *)

\* A step that leaves every task with what it was about to use.
LEMMA LoopTypes ==
    ASSUME TypeInv, RolloutLoop \/ DelayListing, faults' \in Faulted,
           UNCHANGED apiVars
    PROVE  TypeInv'
<1> USE DEF storeVars, hostVars, apiVars
<1>1. \/ \E listed : Dispatch(listed) /\ pending' \subseteq Rollouts
      \/ pc' = pc /\ pending' \subseteq Rollouts
  BY DEF RolloutLoop, DispatchRollouts, DispatchDelayed, DelayListing,
         PendingRollouts, TypeInv, TypeOK
<1>2. UNCHANGED <<row, rollout, overwrote, routing, up, made, nodes, job, pass,
                  batches, api, ops, asked>>
  BY DEF RolloutLoop, DispatchRollouts, DispatchDelayed, DelayListing
<1>3. /\ pc' \in [Tasks -> Labels]
      /\ \A t \in Tasks : pc'[t] = pc[t] \/ pc'[t] = "begin"
  BY <1>1 DEF Dispatch, TypeInv, TypeOK, Labels
<1>4. TypeOK'
  BY <1>1, <1>2, <1>3, SameMade DEF TypeInv, TypeOK
<1>5. Prepared'
  BY <1>2, <1>3, Typical DEF TypeInv, Prepared, Removing, HoldsRow, HoldsPass
<1> QED BY <1>4, <1>5 DEF TypeInv

\* Startup (listing, orphans) keeps the types.
LEMMA StartTypes ==
    ASSUME TypeInv, Start, UNCHANGED apiVars
    PROVE  TypeInv'
<1> USE DEF storeVars, hostVars, apiVars, Goto, TypeInv
<1>1. Len(made) \in Nat
  BY OrchestratorAssumption DEF TypeOK
<1>2. /\ \/ /\ pc' = [pc EXCEPT ![Reconcile] = "orphans"]
            /\ job' = [job EXCEPT ![Reconcile].current = row]
            /\ up' = up
         \/ /\ pc' = [pc EXCEPT ![Reconcile] = "idle"]
            /\ job' = [job EXCEPT ![Reconcile] = Idle]
            /\ up' \subseteq up
      /\ UNCHANGED <<row, rollout, overwrote, routing, made, nodes, pass,
                     batches, pending, faults, api, ops, asked>>
  BY DEF Start, ListKnown, RemoveOrphans
<1>3. pc' \in [Tasks -> Labels]
  BY <1>2 DEF TypeOK, Labels
<1>4. job' \in [Tasks -> Job]
  <2>1. row \in MaybeService
    BY DEF TypeOK
  <2>2. [job EXCEPT ![Reconcile].current = row] \in [Tasks -> Job]
    BY <2>1, JobUpdates, Typical
  <2>3. [job EXCEPT ![Reconcile] = Idle] \in [Tasks -> Job]
    BY <1>1, NothingHeld, JobUpdates, Typical
  <2> QED BY <1>2, <2>2, <2>3
<1>5. TypeOK'
  BY <1>2, <1>3, <1>4, SameMade DEF TypeOK
<1>6. /\ pc'[Reconcile] \in {"orphans", "idle"}
      /\ \A u \in Tasks \ {Reconcile} : pc'[u] = pc[u] /\ job'[u] = job[u]
  BY <1>2, Typical DEF TypeOK
<1>7. Prepared'
  BY <1>2, <1>6, Typical DEF Prepared, Removing, HoldsRow, HoldsPass
<1> QED BY <1>5, <1>7

\* Lost containers, crashes, abandoned calls and late listings keep them.
LEMMA FaultTypes ==
    ASSUME TypeInv, FaultStep, UNCHANGED apiVars
    PROVE  TypeInv'
<1> USE DEF storeVars, hostVars, taskVars, apiVars
<1>1. faults' \in Faulted
  BY FaultCounted DEF FaultStep, LoseContainer, Crash, Abandon, TypeInv, TypeOK
<1>2. Len(made) \in Nat
  BY OrchestratorAssumption DEF TypeInv, TypeOK
<1>3. CASE LoseContainer
  <2>1. /\ up' \subseteq up
        /\ UNCHANGED <<row, rollout, overwrote, routing, made, nodes, pc, job,
                       pass, batches, pending, api, ops, asked>>
    BY <1>3 DEF LoseContainer
  <2>2. TypeOK'
    BY <1>1, <2>1, SameMade DEF TypeInv, TypeOK
  <2>3. Prepared'
    BY <2>1 DEF TypeInv, Prepared
  <2> QED BY <2>2, <2>3 DEF TypeInv
<1>4. CASE Crash
  <2>1. /\ nodes' = FreshNodes
        /\ pc' = [t \in Tasks |-> IF t = Reconcile THEN "starting" ELSE "off"]
        /\ job' = [t \in Tasks |-> Idle]
        /\ pass' = NoPass
        /\ batches' = [d \in Rollouts |-> NoBatches]
        /\ pending' = {}
        /\ UNCHANGED <<row, rollout, overwrote, routing, up, made, api, ops,
                       asked>>
    BY <1>4 DEF Crash
  <2>2. /\ nodes' \in LedgerType(Created)
        /\ pc' \in [Tasks -> Labels]
        /\ job' \in [Tasks -> Job]
        /\ pass' \in Pass
        /\ batches' \in [Rollouts -> Batches]
        /\ pending' \subseteq Rollouts
    BY <1>2, <2>1, NothingHeld DEF LedgerType, FreshNodes, Labels
  <2>3. TypeOK'
    BY <1>1, <2>1, <2>2, SameMade DEF TypeInv, TypeOK
  <2>4. Prepared'
    BY <2>1, Typical DEF TypeInv, Prepared, Removing, HoldsRow, HoldsPass
  <2> QED BY <2>3, <2>4 DEF TypeInv
<1>5. ASSUME NEW t \in Tasks, Abandon(t) PROVE TypeInv'
  <2> DEFINE next == IF t = Reconcile THEN "idle" ELSE "off"
  <2>1. /\ pc' = [pc EXCEPT ![t] = next]
        /\ job' = [job EXCEPT ![t] = Idle]
        /\ pass' = pass \/ (t = Reconcile /\ pass' = NoPass)
        /\ UNCHANGED <<row, rollout, overwrote, routing, up, made, nodes,
                       pending, api, ops, asked>>
    BY <1>5 DEF Abandon
  <2>2. next \in Labels /\ next \notin Removing \cup HoldsRow \cup HoldsPass
    BY DEF Labels, Removing, HoldsRow, HoldsPass
  <2>3. batches' \in [Rollouts -> Batches]
    BY <1>2, <1>5, NothingHeld DEF Abandon, TypeInv, TypeOK
  <2>4. /\ row' \in MaybeService
        /\ rollout' \in [Rollouts -> Deployment]
        /\ overwrote' \in BOOLEAN
        /\ routing' \subseteq Created
    BY <2>1 DEF TypeInv, TypeOK
  <2> HIDE DEF next
  <2> QED BY <1>1, <2>1, <2>2, <2>3, <2>4, RestingTypes
<1>6. CASE Fault("listing") /\ DelayListing
  BY <1>1, <1>6, LoopTypes
<1> QED BY <1>3, <1>4, <1>5, <1>6 DEF FaultStep

\* A request in progress changes, and nothing of the orchestrator does.
LEMMA CallTypes ==
    ASSUME TypeInv, NEW c \in Clients, NEW call \in Call,
           call.op \in {"patch", "delete", "scale_put"} =>
              call.base # NoService,
           api' = [api EXCEPT ![c] = call],
           ops' \in 0..MaxOps,
           UNCHANGED <<row, rollout, overwrote, routing, up, made, nodes, pc,
                       job, pass, batches, pending, faults, asked>>
    PROVE  TypeInv'
<1>1. api' \in [Clients -> Call]
  BY DEF TypeInv, TypeOK
<1>2. TypeOK'
  BY <1>1, SameMade DEF TypeInv, TypeOK
<1>3. Prepared'
  BY DEF TypeInv, TypeOK, Prepared
<1> QED BY <1>2, <1>3 DEF TypeInv

\* A request that has read the row holds a row where its operation needs one.
LEMMA BeginTypes ==
    ASSUME TypeInv, NEW c \in Clients,
           NEW op \in {"create", "patch", "apply", "delete", "destroy", "scale"},
           NEW spec \in [image : Images, desired : Int, request : Requests],
           op \in {"patch", "delete"} => row # NoService,
           Begin(c, op, spec)
    PROVE  TypeInv'
<1> DEFINE call == [op |-> op, base |-> row, spec |-> spec]
<1>1. row \in MaybeService
  BY DEF TypeInv, TypeOK
<1>2. call \in Call
  BY <1>1 DEF Call
<1>3. ops' \in 0..MaxOps
  BY PlatformAssumption DEF Begin, Receive, TypeInv, TypeOK
<1>4. /\ api' = [api EXCEPT ![c] = call]
      /\ UNCHANGED <<row, rollout, overwrote, routing, up, made, nodes, pc,
                     job, pass, batches, pending, faults, asked>>
  BY DEF Begin, orchVars
<1>5. call.op \in {"patch", "delete", "scale_put"} => call.base # NoService
  OBVIOUS
<1> HIDE DEF call
<1> QED BY <1>2, <1>3, <1>4, <1>5, CallTypes

\* Every request of a client keeps the types.
LEMMA RequestTypes ==
    ASSUME TypeInv, NEW c \in Clients, ClientStep(c)
    PROVE  TypeInv'
<1>1. \A spec \in Specs :
         spec \in [image : Images, desired : Int, request : Requests]
  BY PlatformAssumption
<1>2. CASE CreateService(c)
  BY <1>1, <1>2, BeginTypes DEF CreateService
<1>3. CASE UpdateService(c)
  BY <1>1, <1>3, BeginTypes DEF UpdateService
<1>4. CASE ApplyService(c)
  BY <1>1, <1>4, BeginTypes DEF ApplyService
<1>5. NoSpec \in [image : Images, desired : Int, request : Requests]
  BY Typical
<1>6. CASE DeleteService(c)
  BY <1>5, <1>6, BeginTypes DEF DeleteService
<1>7. CASE DestroyService(c)
  BY <1>5, <1>7, BeginTypes DEF DestroyService
<1>8. CASE EvaluateService(c)
  <2>1. row.desired \in Int
    BY <1>8, RowIsService, ServiceFields DEF EvaluateService, TypeInv, TypeOK
  <2>2. \A n \in Int : [NoSpec EXCEPT !.desired = n] \in
           [image : Images, desired : Int, request : Requests]
    BY <1>5
  <2>3. \E n \in Int : Begin(c, "scale", [NoSpec EXCEPT !.desired = n])
    <3>1. row.desired + 1 \in Int /\ row.desired - 1 \in Int
      BY <2>1
    <3>2. \/ Begin(c, "scale", [NoSpec EXCEPT !.desired = row.desired + 1])
          \/ Begin(c, "scale", [NoSpec EXCEPT !.desired = row.desired - 1])
      BY <1>8 DEF EvaluateService
    <3> QED BY <3>1, <3>2, Zenon
  <2> QED BY <2>2, <2>3, BeginTypes
<1>9. CASE CreateDeployment(c)
  <2>1. ops' \in 0..MaxOps
    BY <1>9, PlatformAssumption DEF CreateDeployment, Receive, TypeInv, TypeOK
  <2>2. PICK d \in Rollouts, image \in NewImages :
           rollout' = [rollout EXCEPT ![d] =
                         [status |-> "pending", image |-> image]]
    BY <1>9 DEF CreateDeployment
  <2>3. rollout' \in [Rollouts -> Deployment]
    BY <2>2, PlatformAssumption DEF TypeInv, TypeOK, Deployment
  <2>4. UNCHANGED <<row, overwrote, routing, up, made, nodes, pc, job, pass,
                    batches, pending, faults, api, asked>>
    BY <1>9 DEF CreateDeployment, hostVars, taskVars
  <2>5. TypeOK'
    BY <2>1, <2>3, <2>4, SameMade DEF TypeInv, TypeOK
  <2>6. Prepared'
    BY <2>4 DEF TypeInv, Prepared
  <2> QED BY <2>5, <2>6 DEF TypeInv
<1> QED BY <1>2, <1>3, <1>4, <1>6, <1>7, <1>8, <1>9 DEF ClientStep

\* So does the autoscaler's second read ...
LEMMA RefreshTypes ==
    ASSUME TypeInv, NEW c \in Clients, RefreshForScale(c)
    PROVE  TypeInv'
<1> DEFINE call == IF row = NoService THEN NoCall
                   ELSE [api[c] EXCEPT !.op = "scale_put", !.base = row]
<1>1. call \in Call
  <2>1. Len(made) \in Nat
    BY OrchestratorAssumption DEF TypeInv, TypeOK
  <2>2. api[c] \in Call /\ row \in MaybeService
    BY DEF TypeInv, TypeOK
  <2> QED BY <2>1, <2>2, NothingHeld DEF Call
<1>2. call.op \in {"patch", "delete", "scale_put"} => call.base # NoService
  <2>1. api[c] \in Call
    BY DEF TypeInv, TypeOK
  <2> QED BY <2>1 DEF NoCall, Call
<1>3. /\ api' = [api EXCEPT ![c] = call]
      /\ UNCHANGED <<row, rollout, overwrote, routing, up, made, nodes, pc,
                     job, pass, batches, pending, faults, ops, asked>>
  BY DEF RefreshForScale, orchVars
<1>4. ops' \in 0..MaxOps
  BY <1>3 DEF TypeInv, TypeOK
<1> HIDE DEF call
<1> QED BY <1>1, <1>2, <1>3, <1>4, CallTypes

\* The row a request writes is a row.
LEMMA NewRowType ==
    ASSUME TypeInv, NEW c \in Clients, api[c].op \notin {"none", "scale"}
    PROVE  /\ NewRow(api[c]) \in MaybeService
           /\ api[c].op # "destroy" => NewRow(api[c]) \in ServiceOf(Created)
<1> DEFINE op == api[c].op
           base == api[c].base
           spec == api[c].spec
<1>1. /\ op \in {"create", "patch", "apply", "delete", "destroy", "scale_put"}
      /\ base \in MaybeService
      /\ spec \in [image : Images, desired : Int, request : Requests]
  BY DEF TypeInv, TypeOK, Call
<1>2. op \in {"patch", "delete", "scale_put"} => base \in ServiceOf(Created)
  BY <1>1, RowIsService DEF TypeInv, Prepared
<1>3. NewService(spec) \in ServiceOf(Created)
  BY <1>1 DEF NewService, ServiceOf, ServiceStatus
<1>4. ASSUME base \in ServiceOf(Created)
      PROVE  /\ WithSpec(base, spec) \in ServiceOf(Created)
             /\ [WithSpec(base, spec) EXCEPT !.status = "updating"]
                  \in ServiceOf(Created)
             /\ [base EXCEPT !.status = "deleting"] \in ServiceOf(Created)
             /\ [base EXCEPT !.desired = spec.desired] \in ServiceOf(Created)
  BY <1>1, <1>4 DEF WithSpec, ServiceOf, ServiceStatus
<1>5. \A s \in ServiceOf(Created) \cup {NoService} : s \in MaybeService
  BY DEF MaybeService
<1>6. base = NoService \/ base \in ServiceOf(Created)
  BY <1>1 DEF MaybeService
<1> QED BY <1>1, <1>2, <1>3, <1>4, <1>5, <1>6 DEF NewRow

\* ... and the write of a request.
LEMMA RespondTypes ==
    ASSUME TypeInv, NEW c \in Clients, Respond(c)
    PROVE  TypeInv'
<1> DEFINE written == NewRow(api[c])
<1>1. written \in MaybeService /\ (api[c].op # "destroy" => written \in ServiceOf(Created))
  BY NewRowType DEF Respond
<1>2. /\ row' = written
      /\ overwrote' = (overwrote \/ row # api[c].base)
      /\ asked' = IF api[c].op \in {"delete", "destroy"} THEN asked
                  ELSE written.desired
      /\ api' = [api EXCEPT ![c] = NoCall]
      /\ UNCHANGED <<rollout, routing, up, made, nodes, pc, job, pass, batches,
                     pending, faults, ops>>
  BY DEF Respond, Write, hostVars, taskVars
<1> HIDE DEF written
<1>3. overwrote' \in BOOLEAN
  BY <1>2, Zenon
<1>4. asked' \in Int
  BY <1>1, <1>2, ServiceFields DEF TypeInv, TypeOK
<1>5. NoCall \in Call
  BY NothingHeld, OrchestratorAssumption DEF TypeInv, TypeOK
<1>6. api' \in [Clients -> Call]
  BY <1>2, <1>5 DEF TypeInv, TypeOK
<1>7. TypeOK'
  BY <1>1, <1>2, <1>3, <1>4, <1>6, SameMade DEF TypeInv, TypeOK
<1>8. Prepared'
  BY <1>2 DEF TypeInv, TypeOK, Prepared, NoCall
<1> QED BY <1>7, <1>8 DEF TypeInv

\* Every step keeps the types and what they say of the locals.
THEOREM TypeStep == TypeInv /\ [Next]_vars => TypeInv'
<1> SUFFICES ASSUME TypeInv, [Next]_vars PROVE TypeInv'
  OBVIOUS
<1>1. CASE OrchestratorStep /\ UNCHANGED apiVars
  <2>1. CASE Start
    BY <1>1, <2>1, StartTypes
  <2>2. CASE ReconcilePass
    BY <1>1, <2>2, ReconcileTypes
  <2>3. CASE RolloutLoop
    <3>1. faults' \in Faulted
      BY <2>3 DEF RolloutLoop, DispatchRollouts, DispatchDelayed, TypeInv, TypeOK
    <3> QED BY <1>1, <2>3, <3>1, LoopTypes
  <2>4. CASE \E d \in Rollouts : RolloutTask(d)
    BY <1>1, <2>4, RolloutTypes
  <2> QED BY <1>1, <2>1, <2>2, <2>3, <2>4 DEF OrchestratorStep
<1>2. CASE FaultStep /\ UNCHANGED apiVars
  BY <1>2, FaultTypes
<1>3. ASSUME NEW c \in Clients,
             ClientStep(c) \/ RefreshForScale(c) \/ Respond(c)
      PROVE  TypeInv'
  BY <1>3, RequestTypes, RefreshTypes, RespondTypes
<1>4. CASE UNCHANGED vars
  BY <1>4, SameMade DEF vars, TypeInv, TypeOK, Prepared
<1> QED BY <1>1, <1>2, <1>3, <1>4 DEF Next

\* Type correctness: no step of the orchestrator, of a client or of a fault
\* leaves a variable outside its type, and no row, local, list, routing entry
\* or ledger entry ever names a replica that was not created.
THEOREM TypeCorrect == Spec => []TypeOK
<1>1. TypeInv => TypeOK
  BY DEF TypeInv
<1> QED BY TypeInit, TypeStep, <1>1, PTL DEF Spec

-----------------------------------------------------------------------------
(* The orchestrator forgets no container, whatever its tasks, the other    *)
(* writers of the row and crashes do, as long as nobody deletes the row    *)
(* behind its back (destroy), no call raises in the middle of a pass       *)
(* (error) and no row is overwritten by a stale one.                       *)
(*                                                                         *)
(* NoLeak alone is not inductive: a task removes a replica from the row,   *)
(* or the row from the store, long after it has looked at the container.   *)
(* Accounted says what the task knows in between.                          *)

\* The container the pass has created and not yet recorded.
Unrecorded ==
    IF pc[Reconcile] \in {"cr_read", "cr_put"} THEN {pass.fresh} ELSE {}

TearingDown ==
    \/ pc[Reconcile] = "td_delete"
    \/ pc[Reconcile] \in Removing /\ job[Reconcile].after = "td_delete"

\* Where the pass relies on the row being there.
KeepsRow ==
    \/ pc[Reconcile] \in HoldsPass
    \/ pc[Reconcile] \in Removing /\ job[Reconcile].after = "reread"

\* A container is stopped before its replica leaves the row ...
StoppedFirst ==
    \A t \in Tasks :
        pc[t] \in {"rm_read", "rm_put", "rm_route"} => NextReplica(t) \notin up

\* ... and everything else that is running is in the row, or in the copy of
\* the row that is going to replace it.
Accounted ==
    /\ Started => up \subseteq Recorded \cup Unrecorded
    /\ StoppedFirst
    /\ pc[Reconcile] \in {"refresh", "ref_put"} =>
          job[Reconcile].current.replicas \cap up \subseteq pass.service.replicas
    /\ TearingDown => Recorded \cap up \subseteq job[Reconcile].todo
    /\ pc[Reconcile] = "td_delete" => job[Reconcile].todo = {}
    /\ KeepsRow => row # NoService
    /\ pc[Reconcile] = "orphans" /\ job[Reconcile].current # NoService =>
          row # NoService /\ job[Reconcile].current.replicas \subseteq Recorded

\* No rollout runs while the process starts, nobody destroys a service, and
\* nobody creates one in place of another.
Quiet ==
    /\ ~Started => pending = {} /\ \A d \in Rollouts : pc[d] = "off"
    /\ \A c \in Clients :
          /\ api[c].op # "destroy"
          /\ api[c].op = "create" => api[c].base = NoService

LeakInv == Quiet /\ (~overwrote => Accounted)

\* Nothing runs in the initial states.
LEMMA LeakInit == Init => LeakInv
BY Typical
   DEF Init, InitOrchestrator, LeakInv, Quiet, Accounted, Started, StoppedFirst,
       TearingDown, KeepsRow, Removing, HoldsPass, NoCall, Tasks

\* Recorded replicas are created ones.
LEMMA RecordedIsCreated == TypeOK => Recorded \in SUBSET Created
BY RowIsService, ServiceFields DEF TypeOK, Recorded

-----------------------------------------------------------------------------
(* An overwritten row stays overwritten.                                   *)

\* A write that is not stale replaces the row it was computed from.
LEMMA WriteKept ==
    ASSUME NEW base, NEW written, Write(base, written), ~overwrote'
    PROVE  ~overwrote /\ row = base /\ row' = written
BY Zenon DEF Write

\* _remove_replica does not undo a stale write ...
LEMMA RemovalKept ==
    ASSUME NEW t \in Tasks, RemoveReplica(t), ~overwrote'
    PROVE  ~overwrote
<1>1. CASE StopReplica(t)
  BY <1>1 DEF StopReplica, storeVars
<1>2. CASE ReadForRemoval(t)
  BY <1>2 DEF ReadForRemoval, storeVars
<1>3. CASE PutRemoval(t)
  BY <1>3, WriteKept DEF PutRemoval
<1>4. CASE RouteRemoval(t)
  BY <1>4 DEF RouteRemoval, storeVars
<1> QED BY <1>1, <1>2, <1>3, <1>4 DEF RemoveReplica

\* ... nor does a pass ...
LEMMA PassKept ==
    ASSUME ReconcilePass, ~overwrote'
    PROVE  ~overwrote
<1>1. CASE ListServices
  BY <1>1 DEF ListServices, storeVars, orchVars
<1>2. CASE ObserveReplica \/ RouteObserved \/ ReadAgain
  BY <1>2 DEF ObserveReplica, RouteObserved, ReadAgain, storeVars
<1>3. CASE PutObserved
  BY <1>3, WriteKept DEF PutObserved
<1>4. CASE SkipReplica \/ CreateContainer \/ AllocateReplica \/ RouteReplica
  BY <1>4 DEF SkipReplica, CreateContainer, AllocateReplica, RouteReplica, storeVars
<1>5. CASE PutReplica
  BY <1>5, WriteKept DEF PutReplica
<1>6. CASE ReadStatus \/ RemoveRoute
  BY <1>6 DEF ReadStatus, RemoveRoute, storeVars
<1>7. CASE PutStatus
  BY <1>7, WriteKept DEF PutStatus
<1>8. CASE DeleteRow
  <2>1. overwrote' = (overwrote \/ (row # NoService /\ row.status # "deleting"))
    BY <1>8 DEF DeleteRow
  <2> QED BY <2>1, Zenon
<1>9. CASE RemoveReplica(Reconcile)
  BY <1>9, RemovalKept, Typical
<1> QED BY <1>1, <1>2, <1>3, <1>4, <1>5, <1>6, <1>7, <1>8, <1>9 DEF ReconcilePass

\* ... nor a rollout ...
LEMMA RolloutKept ==
    ASSUME NEW d \in Rollouts, RolloutTask(d), ~overwrote'
    PROVE  ~overwrote
<1>1. CASE \/ BeginRollout(d) \/ ReadForRollout(d) \/ SurgeRead(d)
           \/ PollReplicas(d) \/ ShrinkRead(d) \/ CompleteRollout(d)
           \/ FinalRead(d)
  BY <1>1 DEF BeginRollout, ReadForRollout, SurgeRead, PollReplicas, ShrinkRead,
              CompleteRollout, FinalRead, storeVars
<1>2. CASE SwitchImage(d)
  BY <1>2, WriteKept DEF SwitchImage
<1>3. CASE SurgePut(d)
  BY <1>3, WriteKept DEF SurgePut
<1>4. CASE ShrinkPut(d)
  BY <1>4, WriteKept DEF ShrinkPut
<1>5. CASE FinalPut(d)
  BY <1>5, WriteKept DEF FinalPut
<1>6. CASE RemoveReplica(d)
  BY <1>6, RemovalKept, Typical
<1> QED BY <1>1, <1>2, <1>3, <1>4, <1>5, <1>6 DEF RolloutTask

\* ... nor any step: what is not overwritten now never was.
LEMMA OverwroteStays ==
    ASSUME Next, ~overwrote'
    PROVE  ~overwrote
<1>1. CASE ReconcilePass
  BY <1>1, PassKept
<1>2. CASE \E d \in Rollouts : RolloutTask(d)
  BY <1>2, RolloutKept
<1>3. CASE Start \/ RolloutLoop
  BY <1>3 DEF Start, ListKnown, RemoveOrphans, RolloutLoop, DispatchRollouts,
              DispatchDelayed, storeVars
<1>4. CASE FaultStep
  BY <1>4 DEF FaultStep, LoseContainer, Crash, Abandon, DelayListing, storeVars
<1>5. CASE \E c \in Clients : ClientStep(c) \/ RefreshForScale(c)
  BY <1>5 DEF ClientStep, CreateService, UpdateService, ApplyService,
              DeleteService, DestroyService, EvaluateService, CreateDeployment,
              RefreshForScale, Begin, orchVars
<1>6. CASE \E c \in Clients : Respond(c)
  BY <1>6, WriteKept DEF Respond
<1> QED BY <1>1, <1>2, <1>3, <1>4, <1>5, <1>6 DEF Next, OrchestratorStep

-----------------------------------------------------------------------------
(* Steps that are not the reconcile pass's.                                *)

\* Such a step may stop containers and take stopped ones out of the row.
LEMMA OthersAccounted ==
    ASSUME TypeInv, Accounted,
           pc'[Reconcile] = pc[Reconcile], job'[Reconcile] = job[Reconcile],
           pass' = pass, up' \subseteq up,
           row # NoService => row' # NoService,
           Recorded' \subseteq Recorded,
           Recorded \cap up' \subseteq Recorded',
           ~Started => Recorded' = Recorded,
           \A t \in Tasks : pc'[t] \in {"rm_read", "rm_put", "rm_route"} =>
                               NextReplica(t)' \notin up'
    PROVE  Accounted'
<1>1. Started' = Started /\ Unrecorded' = Unrecorded
  BY DEF Started, Unrecorded
<1>2. Started' => up' \subseteq Recorded' \cup Unrecorded'
  BY <1>1 DEF Accounted
<1>3. StoppedFirst'
  BY DEF StoppedFirst
<1>4. pc'[Reconcile] \in {"refresh", "ref_put"} =>
        job'[Reconcile].current.replicas \cap up' \subseteq pass'.service.replicas
  BY DEF Accounted
<1>5. TearingDown' => Recorded' \cap up' \subseteq job'[Reconcile].todo
  BY DEF Accounted, TearingDown
<1>6. pc'[Reconcile] = "td_delete" => job'[Reconcile].todo = {}
  BY DEF Accounted
<1>7. KeepsRow' => row' # NoService
  BY DEF Accounted, KeepsRow
<1>8. pc'[Reconcile] = "orphans" /\ job'[Reconcile].current # NoService =>
        row' # NoService /\ job'[Reconcile].current.replicas \subseteq Recorded'
  BY DEF Accounted, Started
<1> QED BY <1>2, <1>3, <1>4, <1>5, <1>6, <1>7, <1>8 DEF Accounted

\* A write that is made from the row it replaces and keeps its replicas.
LEMMA FaithfulWrite ==
    ASSUME NEW base, NEW written, base # NoService, written # NoService,
           written.replicas = base.replicas, Write(base, written), ~overwrote'
    PROVE  /\ ~overwrote
           /\ row = base /\ row' = written
           /\ Recorded' = Recorded
BY DEF Write, Recorded

\* What a task has to remove changes with its todo only.
LEMMA SameTodo ==
    ASSUME NEW t \in Tasks, job'[t].todo = job[t].todo
    PROVE  NextReplica(t)' = NextReplica(t)
BY DEF NextReplica

\* A step of a rollout, or of a client, that stops nothing and writes only
\* what FaithfulWrite allows.
LEMMA WritersAccounted ==
    ASSUME TypeInv, Accounted, NEW d \in Rollouts,
           pc'[d] \notin {"rm_read", "rm_put", "rm_route"},
           \A t \in Tasks \ {d} : pc'[t] = pc[t] /\ job'[t] = job[t],
           pass' = pass, up' = up,
           row # NoService => row' # NoService,
           Recorded' = Recorded
    PROVE  Accounted'
<1>1. Reconcile \in Tasks \ {d}
  BY Typical
<1>2. \A t \in Tasks : pc'[t] \in {"rm_read", "rm_put", "rm_route"} =>
                          NextReplica(t)' \notin up'
  BY SameTodo DEF Accounted, StoppedFirst
<1> QED BY <1>1, <1>2, OthersAccounted

\* The removals of a rollout.
LEMMA RolloutRemoval ==
    ASSUME TypeInv, LeakInv, NEW d \in Rollouts, RemoveReplica(d),
           UNCHANGED apiVars, ~overwrote'
    PROVE  Accounted'
<1> DEFINE r == NextReplica(d)
<1>1. /\ d \in Tasks /\ d # Reconcile /\ Reconcile \in Tasks
      /\ TypeOK
  BY Typical DEF TypeInv
<1>2. ~overwrote /\ Accounted
  BY <1>1, RemovalKept DEF LeakInv
<1>3. /\ \A t \in Tasks \ {d} : pc'[t] = pc[t] /\ job'[t] = job[t]
      /\ pass' = pass
  <2> USE <1>1 DEF Goto, TypeOK
  <2>1. CASE StopReplica(d)
    BY <2>1 DEF StopReplica
  <2>2. CASE ReadForRemoval(d)
    BY <2>2 DEF ReadForRemoval, NextRemoval
  <2>3. CASE PutRemoval(d)
    BY <2>3 DEF PutRemoval
  <2>4. CASE RouteRemoval(d)
    BY <2>4 DEF RouteRemoval
  <2> QED BY <2>1, <2>2, <2>3, <2>4 DEF RemoveReplica
<1>4. pc[d] # "off" /\ Started
  <2>1. pc[d] # "off"
    BY DEF RemoveReplica, StopReplica, ReadForRemoval, PutRemoval, RouteRemoval,
           NextRemoval, Goto
  <2> QED BY <2>1 DEF LeakInv, Quiet
<1>5. \A t \in Tasks \ {d} : up' \subseteq up =>
         (pc'[t] \in {"rm_read", "rm_put", "rm_route"} =>
            NextReplica(t)' \notin up')
  BY <1>2, <1>3, SameTodo DEF Accounted, StoppedFirst
<1>6. CASE StopReplica(d)
  <2>1. /\ up' = up \ {r}
        /\ job' = job
        /\ row' = row
    BY <1>6 DEF StopReplica, storeVars
  <2>2. NextReplica(d)' \notin up'
    BY <1>1, <2>1, SameTodo
  <2>3. Recorded' = Recorded
    BY <2>1 DEF Recorded
  <2> QED BY <1>1, <1>2, <1>3, <1>5, <2>1, <2>2, <2>3, OthersAccounted
<1>7. CASE ReadForRemoval(d) \/ RouteRemoval(d)
  <2>1. up' = up /\ row' = row /\ Recorded' = Recorded
    BY <1>7 DEF ReadForRemoval, RouteRemoval, storeVars, hostVars, Recorded
  <2>2. pc'[d] \in {"rm_read", "rm_put", "rm_route"} =>
          NextReplica(d)' \notin up'
    <3>1. CASE RouteRemoval(d) \/ row = NoService
      <4>1. pc'[d] \in AfterRemoval \cup {"rm_stop"}
        BY <1>1, <1>7, <3>1, JobFields
           DEF RouteRemoval, ReadForRemoval, NextRemoval, Goto, RemovalLabel, TypeOK
      <4> QED BY <4>1 DEF AfterRemoval
    <3>2. CASE ReadForRemoval(d) /\ row # NoService
      <4>1. /\ pc[d] = "rm_read"
            /\ job' = [job EXCEPT ![d].current = row]
        BY <3>2 DEF ReadForRemoval, Goto
      <4>2. job'[d].todo = job[d].todo
        BY <1>1, <4>1 DEF TypeOK, Job
      <4> QED BY <1>1, <1>2, <2>1, <4>1, <4>2, SameTodo
              DEF Accounted, StoppedFirst
    <3> QED BY <1>7, <3>1, <3>2
  <2> QED BY <1>1, <1>2, <1>3, <1>5, <2>1, <2>2, OthersAccounted
<1>8. CASE PutRemoval(d)
  <2> DEFINE without == WithoutReplica(job[d].current, r)
  <2>1. /\ pc[d] = "rm_put"
        /\ row = job[d].current
        /\ row' = without
        /\ job' = [job EXCEPT ![d].current = without]
        /\ up' = up
    BY <1>2, <1>8 DEF PutRemoval, Write, Goto, hostVars
  <2>2. row \in ServiceOf(Created)
    BY <1>1, <2>1, RowIsService DEF TypeInv, TypeOK, Prepared, HoldsRow
  <2>3. r \in Created /\ r \notin up
    BY <1>1, <1>2, <2>1, NextReplicaType
       DEF TypeInv, Prepared, Removing, Accounted, StoppedFirst
  <2>4. without \in ServiceOf(Created) /\ without.replicas = row.replicas \ {r}
    BY <2>1, <2>2, <2>3, ServiceUpdates DEF WithoutReplica, ServiceOf
  <2>5. row # NoService /\ row' # NoService
    BY <1>1, <2>1, <2>2, <2>4, RowIsService DEF MaybeService
  <2>6. Recorded = row.replicas /\ Recorded' = row.replicas \ {r}
    BY <2>1, <2>4, <2>5 DEF Recorded
  <2>7. job'[d].todo = job[d].todo
    BY <1>1, <2>1 DEF TypeOK, Job
  <2>8. NextReplica(d)' \notin up'
    BY <1>1, <2>1, <2>3, <2>7, SameTodo
  <2> HIDE DEF r, without
  <2> QED BY <1>1, <1>2, <1>3, <1>4, <1>5, <2>1, <2>3, <2>5, <2>6, <2>8,
             OthersAccounted
<1> QED BY <1>6, <1>7, <1>8 DEF RemoveReplica

-----------------------------------------------------------------------------
(* Steps of the reconcile pass.                                            *)

\* Such a step leaves the other tasks alone; what it has to show is about
\* its own next label.
LEMMA PassAccounted ==
    ASSUME TypeInv, Accounted,
           \A t \in Tasks \ {Reconcile} : pc'[t] = pc[t] /\ job'[t] = job[t],
           up' \subseteq up,
           up' \subseteq Recorded' \cup Unrecorded',
           pc'[Reconcile] \in {"rm_read", "rm_put", "rm_route"} =>
              NextReplica(Reconcile)' \notin up',
           pc'[Reconcile] \in {"refresh", "ref_put"} =>
              job'[Reconcile].current.replicas \cap up'
                 \subseteq pass'.service.replicas,
           TearingDown' => Recorded' \cap up' \subseteq job'[Reconcile].todo,
           pc'[Reconcile] = "td_delete" => job'[Reconcile].todo = {},
           KeepsRow' => row' # NoService,
           pc'[Reconcile] # "orphans"
    PROVE  Accounted'
<1>1. ASSUME NEW t \in Tasks, pc'[t] \in {"rm_read", "rm_put", "rm_route"}
      PROVE  NextReplica(t)' \notin up'
  <2>1. CASE t = Reconcile
    BY <1>1, <2>1
  <2>2. CASE t # Reconcile
    BY <1>1, <2>2, SameTodo DEF Accounted, StoppedFirst
  <2> QED BY <2>1, <2>2
<1>2. StoppedFirst'
  BY <1>1 DEF StoppedFirst
<1> QED BY <1>2 DEF Accounted

\* A step that changes neither the row nor the containers, to a label where
\* the pass relies on the row only if it did before.
LEMMA QuietStepAccounted ==
    ASSUME TypeInv, Accounted, NEW next,
           next \in {"ref_route", "reread", "create", "cr_read", "cr_put",
                    "cr_route", "observe", "ob_put", "idle", "td_route"},
           Started, pc'[Reconcile] = next,
           \A t \in Tasks \ {Reconcile} : pc'[t] = pc[t] /\ job'[t] = job[t],
           up' = up, row' = row, Unrecorded \subseteq Unrecorded',
           next \in HoldsPass => KeepsRow
    PROVE  Accounted'
<1>1. Recorded' = Recorded
  BY DEF Recorded
<1>2. up' \subseteq Recorded' \cup Unrecorded'
  BY <1>1 DEF Accounted
<1>3. ~TearingDown'
  BY DEF TearingDown, Removing
<1>4. KeepsRow' => row' # NoService
  BY DEF KeepsRow, Removing, Accounted
<1> QED BY <1>2, <1>3, <1>4, PassAccounted

\* Listing a service, or a service to tear down, keeps Accounted.
LEMMA ListingAccounted ==
    ASSUME TypeInv, Accounted, ListServices
    PROVE  Accounted'
<1>1. CASE row = NoService
  <2>1. UNCHANGED orchVars
    BY <1>1 DEF ListServices
  <2> QED BY <2>1 DEF orchVars, Accounted, StoppedFirst, TearingDown, KeepsRow,
                      Started, Unrecorded, Recorded, NextReplica
<1>2. CASE row # NoService
  <2> DEFINE deleting == row.status = "deleting"
             next == IF deleting THEN RemovalLabel(row.replicas, "td_delete")
                     ELSE RefreshLabel(row, row, row.replicas)
             local == [current |-> IF deleting THEN NoService ELSE row,
                       todo |-> row.replicas, request |-> row.request,
                       after |-> IF deleting THEN "td_delete" ELSE "idle"]
  <2>1. /\ pc[Reconcile] = "idle"
        /\ pc' = [pc EXCEPT ![Reconcile] = next]
        /\ job' = [job EXCEPT ![Reconcile] = local]
        /\ pass' = [NoPass EXCEPT !.service = IF deleting THEN NoService
                                              ELSE row]
        /\ row' = row /\ up' = up
    BY <1>2 DEF ListServices, Goto, storeVars, hostVars
  <2>2. /\ local.current = IF deleting THEN NoService ELSE row
        /\ local.todo = row.replicas
        /\ local.after = IF deleting THEN "td_delete" ELSE "idle"
    OBVIOUS
  <2>3. IF deleting
        THEN \/ next = "rm_stop"
             \/ next = "td_delete" /\ row.replicas = {}
        ELSE next \in {"refresh", "ref_put", "ref_route"}
    BY DEF RemovalLabel, RefreshLabel
  <2>4. ~deleting => pass'.service = row
    BY <2>1 DEF NoPass
  <2> HIDE DEF local, next, deleting
  <2>5. /\ pc'[Reconcile] = next /\ job'[Reconcile] = local
        /\ \A t \in Tasks \ {Reconcile} : pc'[t] = pc[t] /\ job'[t] = job[t]
    BY <2>1, Typical DEF TypeInv, TypeOK
  <2>6. Recorded' = row.replicas
    BY <1>2, <2>1 DEF Recorded
  <2>7. up' \subseteq Recorded' \cup Unrecorded'
    BY <1>2, <2>1, <2>6 DEF Accounted, Started, Unrecorded, Recorded
  <2> QED BY <1>2, <2>1, <2>2, <2>3, <2>4, <2>5, <2>6, <2>7, PassAccounted
          DEF TearingDown, KeepsRow, Removing, HoldsPass
<1> QED BY <1>1, <1>2

\* A replica that is dropped from the copy of the row is not running.
LEMMA ObservationAccounted ==
    ASSUME TypeInv, Accounted, ObserveReplica
    PROVE  Accounted'
<1> DEFINE r == NextReplica(Reconcile)
           rest == job[Reconcile].todo \ {r}
           seen == IF Running(r) THEN WithReplica(pass.service, r, TRUE)
                   ELSE WithoutReplica(pass.service, r)
           next == RefreshLabel(seen, job[Reconcile].current, rest)
<1>1. /\ pc[Reconcile] = "refresh"
      /\ pc' = [pc EXCEPT ![Reconcile] = next]
      /\ job' = [job EXCEPT ![Reconcile].todo = rest]
      /\ pass' = [pass EXCEPT !.service = seen]
      /\ row' = row /\ up' = up
  BY DEF ObserveReplica, Goto, storeVars, service_state, current_service
<1>2. pass.service \in ServiceOf(Created)
  BY <1>1, RowIsService, PassFields DEF TypeInv, Prepared, HoldsPass
<1>3. pass.service.replicas \cap up \subseteq seen.replicas
  BY <1>2 DEF ServiceOf, WithReplica, WithoutReplica, Running
<1>4. next \in {"refresh", "ref_put", "ref_route"}
  BY DEF RefreshLabel
<1> HIDE DEF r, rest, seen, next
<1>5. pass'.service = seen
  BY <1>1 DEF TypeInv, TypeOK, Pass
<1>6. /\ pc'[Reconcile] = next
      /\ job'[Reconcile].current = job[Reconcile].current
      /\ \A t \in Tasks \ {Reconcile} : pc'[t] = pc[t] /\ job'[t] = job[t]
  BY <1>1, Typical DEF TypeInv, TypeOK, Job
<1>7. job'[Reconcile].current.replicas \cap up' \subseteq pass'.service.replicas
  BY <1>1, <1>3, <1>5, <1>6 DEF Accounted
<1>8. Recorded' = Recorded /\ up' \subseteq Recorded' \cup Unrecorded'
  BY <1>1, <1>4, <1>6 DEF Recorded, Accounted, Started, Unrecorded
<1>9. row' # NoService
  BY <1>1 DEF Accounted, KeepsRow, HoldsPass
<1> QED BY <1>1, <1>4, <1>6, <1>7, <1>8, <1>9, PassAccounted
        DEF TearingDown, Removing

\* The copy that replaces the row has every running replica.
LEMMA PutObservedAccounted ==
    ASSUME TypeInv, Accounted, PutObserved, ~overwrote'
    PROVE  Accounted'
<1>1. /\ pc[Reconcile] = "ref_put"
      /\ pc' = [pc EXCEPT ![Reconcile] = "ref_route"]
      /\ row = job[Reconcile].current
      /\ row' = pass.service
      /\ job' = [job EXCEPT ![Reconcile].current = NoService]
      /\ up' = up
  BY WriteKept DEF PutObserved, Goto, hostVars, service_state, current_service
<1>2. row # NoService /\ row' # NoService
  BY <1>1, Typical DEF TypeInv, Prepared, HoldsRow, HoldsPass
<1>3. Recorded \cap up \subseteq Recorded'
  BY <1>1, <1>2 DEF Accounted, Recorded
<1>4. /\ pc'[Reconcile] = "ref_route"
      /\ \A t \in Tasks \ {Reconcile} : pc'[t] = pc[t] /\ job'[t] = job[t]
  BY <1>1, Typical DEF TypeInv, TypeOK
<1>5. up' \subseteq Recorded' \cup Unrecorded'
  BY <1>1, <1>3 DEF Accounted, Started, Unrecorded
<1> QED BY <1>1, <1>2, <1>4, <1>5, PassAccounted DEF TearingDown, Removing

\* Going on to add or to remove replicas keeps Accounted.
LEMMA ScaleAccounted ==
    ASSUME TypeInv, Accounted, RouteObserved \/ ReadAgain
    PROVE  Accounted'
<1>1. /\ pc[Reconcile] \in {"ref_route", "reread"}
      /\ row' = row /\ up' = up
  BY DEF RouteObserved, ReadAgain, Scale, Goto, storeVars, hostVars
\* Every way of going on is one of these.
<1>2. ASSUME NEW next \in {"create", "observe", "rm_stop"}, NEW local,
             pc' = [pc EXCEPT ![Reconcile] = next],
             job' = [job EXCEPT ![Reconcile] = local],
             local.after \in {"observe", "reread"}
      PROVE  Accounted'
  <2>1. /\ pc'[Reconcile] = next /\ job'[Reconcile] = local
        /\ \A t \in Tasks \ {Reconcile} : pc'[t] = pc[t] /\ job'[t] = job[t]
    BY <1>2, Typical DEF TypeInv, TypeOK
  <2>2. row' # NoService
    BY <1>1 DEF Accounted, KeepsRow, HoldsPass
  <2>3. up' \subseteq Recorded' \cup Unrecorded'
    BY <1>1, <1>2, <2>1 DEF Accounted, Started, Unrecorded, Recorded
  <2> QED BY <1>1, <1>2, <2>1, <2>2, <2>3, PassAccounted DEF TearingDown
<1>3. ASSUME NEW from, NEW service, NEW want, Scale(from, service, want)
      PROVE  Accounted'
  <2> DEFINE excess == IF Cardinality(service.replicas) > want
                       THEN Beyond(service.replicas, want) ELSE {}
             next == IF Cardinality(service.replicas) < want THEN "create"
                     ELSE RemovalLabel(excess, "observe")
             local == [current |-> NoService, todo |-> excess,
                       request |-> service.request, after |-> "observe"]
  <2>1. /\ pc' = [pc EXCEPT ![Reconcile] = next]
        /\ job' = [job EXCEPT ![Reconcile] = local]
    BY <1>3 DEF Scale, Goto
  <2>2. next \in {"create", "observe", "rm_stop"} /\ local.after = "observe"
    BY DEF RemovalLabel
  <2> HIDE DEF next, local
  <2> QED BY <1>2, <2>1, <2>2
<1>4. CASE RouteObserved /\ Goto(Reconcile, "ref_route", "rm_stop")
           /\ StaleReplicas(service_state) # {}
  <2> DEFINE local == [current |-> NoService,
                       todo |-> StaleReplicas(service_state),
                       request |-> service_state.request, after |-> "reread"]
  <2>1. CASE Scale("ref_route", service_state, service_state.desired)
    BY <1>3, <2>1
  <2>2. CASE job' = [job EXCEPT ![Reconcile] = local]
    <3>1. local.after = "reread"
      OBVIOUS
    <3> HIDE DEF local
    <3> QED BY <1>2, <1>4, <2>2, <3>1 DEF Goto
  <2> QED BY <1>4, <2>1, <2>2 DEF RouteObserved
<1> QED BY <1>3, <1>4 DEF RouteObserved, ReadAgain

\* A new container is the fresh one until its replica is recorded.
LEMMA CreationAccounted ==
    ASSUME TypeInv, Accounted,
           SkipReplica \/ CreateContainer \/ AllocateReplica \/ RouteReplica
    PROVE  Accounted'
<1>1. ASSUME NEW from \in {"create", "cr_read", "cr_route"},
             NextCreation(from), row' = row, up' = up,
             \A t \in Tasks \ {Reconcile} : job'[t] = job[t],
             Unrecorded = {}
      PROVE  Accounted'
  <2> DEFINE next == IF pass.missing > 1 THEN "create" ELSE "observe"
  <2>1. pc[Reconcile] = from /\ pc' = [pc EXCEPT ![Reconcile] = next]
    BY <1>1 DEF NextCreation, Goto
  <2>2. next \in {"create", "observe"}
    OBVIOUS
  <2> HIDE DEF next
  <2>3. /\ pc'[Reconcile] = next
        /\ \A t \in Tasks \ {Reconcile} : pc'[t] = pc[t]
    BY <2>1, Typical DEF TypeInv, TypeOK
  <2>4. KeepsRow /\ Started
    BY <2>1 DEF KeepsRow, HoldsPass, Started
  <2> QED BY <1>1, <2>2, <2>3, <2>4, QuietStepAccounted
<1>2. CASE SkipReplica
  <2>1. /\ NextCreation("create") /\ row' = row /\ up' = up /\ job' = job
        /\ pc[Reconcile] = "create"
    BY <1>2 DEF SkipReplica, NextCreation, Goto, storeVars, hostVars
  <2> QED BY <1>1, <2>1 DEF Unrecorded
<1>3. CASE RouteReplica
  <2>1. /\ NextCreation("cr_route") /\ row' = row /\ up' = up
        /\ job' = [job EXCEPT ![Reconcile].current = NoService]
        /\ pc[Reconcile] = "cr_route"
    BY <1>3 DEF RouteReplica, NextCreation, Goto, storeVars, hostVars
  <2>2. \A t \in Tasks \ {Reconcile} : job'[t] = job[t]
    BY <2>1 DEF TypeInv, TypeOK
  <2> QED BY <1>1, <2>1, <2>2 DEF Unrecorded
<1>4. CASE AllocateReplica
  <2>1. pc[Reconcile] = "cr_read" /\ row # NoService
    BY <1>4 DEF AllocateReplica, Accounted, KeepsRow, HoldsPass
  <2>2. /\ pc' = [pc EXCEPT ![Reconcile] = "cr_put"]
        /\ job' = [job EXCEPT ![Reconcile].current = row]
        /\ row' = row /\ up' = up /\ pass' = pass
    BY <1>4, <2>1 DEF AllocateReplica, Goto, storeVars
  <2>3. /\ pc'[Reconcile] = "cr_put"
        /\ \A t \in Tasks \ {Reconcile} : pc'[t] = pc[t] /\ job'[t] = job[t]
    BY <2>2, Typical DEF TypeInv, TypeOK
  <2>4. Started /\ KeepsRow /\ Unrecorded' = Unrecorded
    BY <2>1, <2>2, <2>3 DEF Started, KeepsRow, HoldsPass, Unrecorded
  <2> QED BY <2>2, <2>3, <2>4, QuietStepAccounted
<1>5. CASE CreateContainer
  <2> DEFINE fresh == Len(made) + 1
  <2>1. /\ pc[Reconcile] = "create"
        /\ pc' = [pc EXCEPT ![Reconcile] = "cr_read"]
        /\ up' = up \cup {fresh}
        /\ row' = row /\ job' = job
        /\ \/ pass' = [pass EXCEPT !.fresh = fresh, !.addressed = TRUE]
           \/ pass' = [pass EXCEPT !.fresh = fresh]
    BY <1>5 DEF CreateContainer, Goto, storeVars
  <2>2. fresh \notin Created
    <3>1. Len(made) \in Nat
      BY OrchestratorAssumption DEF TypeInv, TypeOK
    <3> QED BY <3>1 DEF Created
  <2> HIDE DEF fresh
  <2>3. pass'.fresh = fresh
    BY <2>1 DEF TypeInv, TypeOK, Pass
  <2>4. /\ pc'[Reconcile] = "cr_read"
        /\ \A t \in Tasks \ {Reconcile} : pc'[t] = pc[t]
    BY <2>1, Typical DEF TypeInv, TypeOK
  <2>5. up \subseteq Recorded
    BY <2>1 DEF Accounted, Started, Unrecorded
  <2>6. Started' => up' \subseteq Recorded' \cup Unrecorded'
    BY <2>1, <2>3, <2>4, <2>5 DEF Recorded, Unrecorded
  <2>7. StoppedFirst'
    <3> SUFFICES ASSUME NEW t \in Tasks,
                        pc'[t] \in {"rm_read", "rm_put", "rm_route"}
                 PROVE  NextReplica(t)' \notin up'
      BY DEF StoppedFirst
    <3>1. t # Reconcile /\ pc[t] = pc'[t]
      BY <2>4
    <3>2. NextReplica(t)' = NextReplica(t)
      BY <2>1, SameTodo
    <3>3. NextReplica(t) \in Created
      BY <3>1, NextReplicaType DEF TypeInv, Prepared, Removing
    <3> QED BY <2>1, <2>2, <3>1, <3>2, <3>3 DEF Accounted, StoppedFirst
  <2>8. row' # NoService
    BY <2>1 DEF Accounted, KeepsRow, HoldsPass
  <2>9. ~TearingDown' /\ pc'[Reconcile] \notin {"refresh", "ref_put", "orphans",
                                              "td_delete"}
    BY <2>4 DEF TearingDown, Removing
  <2> QED BY <2>6, <2>7, <2>8, <2>9 DEF Accounted
<1> QED BY <1>2, <1>3, <1>4, <1>5

\* Recording the fresh replica accounts for its container.
LEMMA PutReplicaAccounted ==
    ASSUME TypeInv, Accounted, PutReplica, ~overwrote'
    PROVE  Accounted'
<1> DEFINE recorded ==
             WithReplica(job[Reconcile].current, pass.fresh, pass.addressed)
<1>1. /\ pc[Reconcile] = "cr_put"
      /\ pc' = [pc EXCEPT ![Reconcile] = "cr_route"]
      /\ row = job[Reconcile].current
      /\ row' = recorded
      /\ job' = [job EXCEPT ![Reconcile].current = recorded]
      /\ up' = up
  BY WriteKept DEF PutReplica, Goto, hostVars, current_service
<1>2. row \in ServiceOf(Created) /\ row # NoService
  BY <1>1, RowIsService, JobFields, Typical DEF TypeInv, Prepared, HoldsRow
<1>3. pass.fresh \in Created /\ pass.addressed \in BOOLEAN
  BY <1>1, PassFields DEF TypeInv, Prepared, Created
<1>4. recorded \in ServiceOf(Created)
  BY <1>1, <1>2, <1>3, ServiceUpdates, Zenon
<1>5. recorded.replicas = row.replicas \cup {pass.fresh}
  BY <1>1, <1>2 DEF ServiceOf, WithReplica
<1>6. recorded # NoService
  BY <1>4, RowIsService DEF MaybeService, TypeInv
<1> HIDE DEF recorded
<1>7. /\ pc'[Reconcile] = "cr_route"
      /\ \A t \in Tasks \ {Reconcile} : pc'[t] = pc[t] /\ job'[t] = job[t]
  BY <1>1, Typical DEF TypeInv, TypeOK
<1>8. up' \subseteq Recorded' \cup Unrecorded'
  BY <1>1, <1>2, <1>5, <1>6 DEF Accounted, Started, Unrecorded, Recorded
<1> QED BY <1>1, <1>6, <1>7, <1>8, PassAccounted DEF TearingDown, Removing

\* Writing the status, and dropping the route, keep Accounted.
LEMMA StatusAccounted ==
    ASSUME TypeInv, Accounted, ReadStatus \/ PutStatus \/ RemoveRoute, ~overwrote'
    PROVE  Accounted'
<1>1. CASE ReadStatus \/ RemoveRoute
  <2>1. PICK next \in {"idle", "ob_put"} :
           /\ pc[Reconcile] \in {"observe", "td_route"}
           /\ pc' = [pc EXCEPT ![Reconcile] = next]
           /\ row' = row /\ up' = up
    BY <1>1 DEF ReadStatus, RemoveRoute, Goto, storeVars, hostVars
  <2>2. \A t \in Tasks \ {Reconcile} : job'[t] = job[t]
    BY <1>1 DEF ReadStatus, RemoveRoute, TypeInv, TypeOK
  <2>3. /\ pc'[Reconcile] = next
        /\ \A t \in Tasks \ {Reconcile} : pc'[t] = pc[t]
    BY <2>1, Typical DEF TypeInv, TypeOK
  <2>4. Started /\ Unrecorded = {} /\ next \notin HoldsPass
    BY <2>1 DEF Started, Unrecorded, HoldsPass
  <2> QED BY <2>1, <2>2, <2>3, <2>4, QuietStepAccounted
<1>2. CASE PutStatus
  <2> DEFINE current == job[Reconcile].current
             written == [current EXCEPT !.status = ObservedStatus(current)]
  <2>1. /\ pc[Reconcile] = "ob_put"
        /\ pc' = [pc EXCEPT ![Reconcile] = "idle"]
        /\ row = current
        /\ row' = written
        /\ job' = [job EXCEPT ![Reconcile] = Idle]
        /\ up' = up
    BY <1>2, WriteKept DEF PutStatus, Goto, hostVars, current_service
  <2>2. row \in ServiceOf(Created) /\ row # NoService
    BY <2>1, RowIsService, JobFields, Typical DEF TypeInv, Prepared, HoldsRow
  <2>3. ObservedStatus(current) \in ServiceStatus
    BY DEF ObservedStatus, ServiceStatus
  <2>4. written \in ServiceOf(Created) /\ written.replicas = row.replicas
    BY <2>1, <2>2, <2>3 DEF ServiceOf
  <2>5. row' # NoService
    BY <2>1, <2>4, RowIsService DEF MaybeService, TypeInv
  <2>6. /\ pc'[Reconcile] = "idle"
        /\ \A t \in Tasks \ {Reconcile} : pc'[t] = pc[t] /\ job'[t] = job[t]
    BY <2>1, Typical DEF TypeInv, TypeOK
  <2> HIDE DEF current, written
  <2>7. up' \subseteq Recorded' \cup Unrecorded'
    BY <2>1, <2>2, <2>4, <2>5 DEF Accounted, Started, Unrecorded, Recorded
  <2> QED BY <2>1, <2>5, <2>6, <2>7, PassAccounted DEF TearingDown, Removing
<1> QED BY <1>1, <1>2

\* The row goes when nothing that it names is running any more.
LEMMA DeleteAccounted ==
    ASSUME TypeInv, Accounted, DeleteRow
    PROVE  Accounted'
<1>1. /\ pc[Reconcile] = "td_delete"
      /\ pc' = [pc EXCEPT ![Reconcile] = "td_route"]
      /\ row' = NoService
      /\ job' = [job EXCEPT ![Reconcile] = Idle]
      /\ up' = up
  BY DEF DeleteRow, Goto, hostVars
<1>2. up \subseteq Recorded /\ Recorded \cap up \subseteq {}
  BY <1>1 DEF Accounted, Started, Unrecorded, TearingDown
<1>3. /\ pc'[Reconcile] = "td_route"
      /\ \A t \in Tasks \ {Reconcile} : pc'[t] = pc[t] /\ job'[t] = job[t]
  BY <1>1, Typical DEF TypeInv, TypeOK
<1>4. ~TearingDown' /\ ~KeepsRow'
  BY <1>3 DEF TearingDown, KeepsRow, Removing, HoldsPass
<1> QED BY <1>1, <1>2, <1>3, <1>4, PassAccounted

\* The removals of the pass.
LEMMA PassRemoval ==
    ASSUME TypeInv, Accounted, RemoveReplica(Reconcile), ~overwrote'
    PROVE  Accounted'
<1> DEFINE r == NextReplica(Reconcile)
           todo == job[Reconcile].todo
           after == job[Reconcile].after
           rest == todo \ {r}
           next == RemovalLabel(rest, after)
<1>1. /\ pc[Reconcile] \in Removing /\ todo # {} /\ r \in todo /\ r \in Created
      /\ TypeOK /\ Reconcile \in Tasks
  <2>1. pc[Reconcile] \in Removing
    BY DEF RemoveReplica, StopReplica, ReadForRemoval, PutRemoval, RouteRemoval,
           NextRemoval, Goto, Removing
  <2> QED BY <2>1, Typical, NextReplicaType DEF TypeInv, Prepared
<1>2. up \subseteq Recorded
  BY <1>1 DEF Accounted, Started, Unrecorded, Removing
<1>3. after \in AfterRemoval
  BY <1>1, JobFields
<1>4. after = "td_delete" => Recorded \cap up \subseteq todo
  BY <1>1 DEF Accounted, TearingDown
<1>5. after = "reread" => row # NoService
  BY <1>1 DEF Accounted, KeepsRow
<1>6. \/ next = "rm_stop" /\ rest # {}
      \/ next = after /\ rest = {}
  BY DEF RemovalLabel
<1>7. CASE StopReplica(Reconcile)
  <2>1. /\ pc' = [pc EXCEPT ![Reconcile] = "rm_read"]
        /\ up' = up \ {r} /\ job' = job /\ row' = row
    BY <1>7 DEF StopReplica, Goto, storeVars
  <2>2. /\ pc'[Reconcile] = "rm_read"
        /\ \A t \in Tasks \ {Reconcile} : pc'[t] = pc[t] /\ job'[t] = job[t]
    BY <1>1, <2>1 DEF TypeOK
  <2>3. NextReplica(Reconcile)' = r /\ Recorded' = Recorded
    BY <1>1, <2>1, SameTodo DEF Recorded
  <2> HIDE DEF r
  <2> QED BY <1>2, <1>4, <1>5, <2>1, <2>2, <2>3, PassAccounted
          DEF TearingDown, KeepsRow, HoldsPass
<1>8. CASE ReadForRemoval(Reconcile) /\ row # NoService
  <2>1. /\ pc[Reconcile] = "rm_read"
        /\ pc' = [pc EXCEPT ![Reconcile] = "rm_put"]
        /\ job' = [job EXCEPT ![Reconcile].current = row]
        /\ up' = up /\ row' = row
    BY <1>8 DEF ReadForRemoval, Goto, storeVars, hostVars
  <2>2. /\ pc'[Reconcile] = "rm_put"
        /\ job'[Reconcile].todo = todo /\ job'[Reconcile].after = after
        /\ \A t \in Tasks \ {Reconcile} : pc'[t] = pc[t] /\ job'[t] = job[t]
    BY <1>1, <2>1 DEF TypeOK, Job
  <2>3. NextReplica(Reconcile)' = r /\ Recorded' = Recorded
    BY <1>1, <2>1, <2>2, SameTodo DEF Recorded
  <2>4. r \notin up
    BY <1>1, <2>1 DEF Accounted, StoppedFirst
  <2> HIDE DEF r
  <2> QED BY <1>2, <1>4, <1>8, <2>1, <2>2, <2>3, <2>4, PassAccounted
          DEF TearingDown, KeepsRow, HoldsPass
<1>9. CASE (ReadForRemoval(Reconcile) /\ row = NoService) \/ RouteRemoval(Reconcile)
  <2>1. /\ pc[Reconcile] \in {"rm_read", "rm_route"}
        /\ pc' = [pc EXCEPT ![Reconcile] = next]
        /\ \/ job' = [job EXCEPT ![Reconcile].todo = rest]
           \/ job' = [job EXCEPT ![Reconcile].todo = rest,
                                 ![Reconcile].current = NoService]
        /\ up' = up /\ row' = row
    BY <1>9 DEF ReadForRemoval, NextRemoval, RouteRemoval, Goto, storeVars, hostVars
  <2>2. r \notin up
    BY <1>1, <2>1 DEF Accounted, StoppedFirst
  <2> HIDE DEF r, rest, next
  <2>3. /\ pc'[Reconcile] = next
        /\ job'[Reconcile].todo = rest /\ job'[Reconcile].after = after
        /\ \A t \in Tasks \ {Reconcile} : pc'[t] = pc[t] /\ job'[t] = job[t]
    BY <1>1, <2>1 DEF TypeOK, Job
  <2>4. Recorded' = Recorded
    BY <2>1 DEF Recorded
  <2>5. TearingDown' => Recorded' \cap up' \subseteq rest
    <3>1. TearingDown' => after = "td_delete"
      BY <1>6, <2>3 DEF TearingDown, Removing
    <3> QED BY <1>4, <2>1, <2>2, <2>4, <3>1 DEF rest
  <2>6. KeepsRow' => row' # NoService
    BY <1>3, <1>5, <1>6, <2>1, <2>3 DEF KeepsRow, HoldsPass, Removing, AfterRemoval
  <2>7. next \notin {"rm_read", "rm_put", "rm_route", "refresh", "ref_put",
                    "orphans"}
    BY <1>3, <1>6 DEF AfterRemoval
  <2>8. next = "td_delete" => rest = {}
    BY <1>6
  <2> QED BY <1>2, <2>1, <2>3, <2>4, <2>5, <2>6, <2>7, <2>8, PassAccounted
<1>10. CASE PutRemoval(Reconcile)
  <2> DEFINE without == WithoutReplica(job[Reconcile].current, r)
  <2>1. /\ pc[Reconcile] = "rm_put"
        /\ pc' = [pc EXCEPT ![Reconcile] = "rm_route"]
        /\ row = job[Reconcile].current
        /\ row' = without
        /\ job' = [job EXCEPT ![Reconcile].current = without]
        /\ up' = up
    BY <1>10, WriteKept DEF PutRemoval, Goto, hostVars
  <2>2. row \in ServiceOf(Created) /\ row # NoService
    BY <1>1, <2>1, RowIsService, JobFields DEF TypeInv, Prepared, HoldsRow
  <2>3. r \notin up
    BY <1>1, <2>1 DEF Accounted, StoppedFirst
  <2>4. without \in ServiceOf(Created) /\ without.replicas = row.replicas \ {r}
    BY <1>1, <2>1, <2>2, ServiceUpdates DEF WithoutReplica, ServiceOf
  <2>5. row' # NoService
    BY <1>1, <2>1, <2>4, RowIsService DEF MaybeService
  <2>6. Recorded = row.replicas /\ Recorded' = row.replicas \ {r}
    BY <2>1, <2>2, <2>4, <2>5 DEF Recorded
  <2>7. /\ pc'[Reconcile] = "rm_route"
        /\ job'[Reconcile].todo = todo /\ job'[Reconcile].after = after
        /\ \A t \in Tasks \ {Reconcile} : pc'[t] = pc[t] /\ job'[t] = job[t]
    BY <1>1, <2>1 DEF TypeOK, Job
  <2>8. NextReplica(Reconcile)' = r
    BY <1>1, <2>7, SameTodo
  <2> HIDE DEF r, without
  <2> QED BY <1>2, <1>4, <2>1, <2>3, <2>5, <2>6, <2>7, <2>8, PassAccounted
          DEF TearingDown, KeepsRow, HoldsPass
<1> QED BY <1>7, <1>8, <1>9, <1>10 DEF RemoveReplica

\* Every step of the reconcile pass keeps the account.
LEMMA PassStep ==
    ASSUME TypeInv, Accounted, ReconcilePass, ~overwrote'
    PROVE  Accounted'
BY ListingAccounted, ObservationAccounted, PutObservedAccounted, ScaleAccounted,
   CreationAccounted, PutReplicaAccounted, StatusAccounted, DeleteAccounted,
   PassRemoval
   DEF ReconcilePass

-----------------------------------------------------------------------------
(* Steps of rollouts, clients, the start of the process, and faults.       *)

\* Every step of a deployment's task keeps Accounted.
LEMMA RolloutStep ==
    ASSUME TypeInv, Accounted, LeakInv, NEW d \in Rollouts, RolloutTask(d),
           UNCHANGED apiVars, ~overwrote'
    PROVE  Accounted'
<1> USE DEF Goto, storeVars, hostVars
<1> DEFINE Calm == pc'[d] \notin {"rm_read", "rm_put", "rm_route"}
           Apart == /\ \A t \in Tasks \ {d} : pc'[t] = pc[t] /\ job'[t] = job[t]
                    /\ pass' = pass /\ up' = up
<1>1. d \in Tasks /\ TypeOK
  BY Typical DEF TypeInv
<1>2. ASSUME row' = row, Calm, Apart
      PROVE  Accounted'
  BY <1>2, WritersAccounted DEF Recorded
<1>3. ASSUME NEW written, Write(job[d].current, written),
             pc[d] \in HoldsRow,
             job[d].current \in ServiceOf(Created) =>
                /\ written \in ServiceOf(Created)
                /\ written.replicas = job[d].current.replicas,
             Calm, Apart
      PROVE  Accounted'
  <2>1. job[d].current \in ServiceOf(Created) /\ job[d].current # NoService
    BY <1>1, <1>3, RowIsService, JobFields DEF TypeInv, Prepared
  <2>2. row = job[d].current /\ row' = written
    BY <1>3, WriteKept
  <2>3. written # NoService
    BY <1>1, <1>3, <2>1, RowIsService DEF MaybeService
  <2>4. row' # NoService /\ Recorded' = Recorded
    BY <1>3, <2>1, <2>2, <2>3 DEF Recorded
  <2> QED BY <1>3, <2>4, WritersAccounted
<1>4. CASE BeginRollout(d) \/ CompleteRollout(d) \/ PollReplicas(d)
  BY <1>1, <1>2, <1>4 DEF BeginRollout, CompleteRollout, PollReplicas, TypeOK
<1>5. CASE ReadForRollout(d) \/ SurgeRead(d) \/ ShrinkRead(d) \/ FinalRead(d)
  BY <1>1, <1>2, <1>5
     DEF ReadForRollout, SurgeRead, ShrinkRead, FinalRead, ReadRow, TypeOK
<1>6. CASE SwitchImage(d)
  <2> DEFINE written == [job[d].current EXCEPT !.image = rollout[d].image,
                                               !.status = "updating"]
  <2>1. /\ Write(job[d].current, written)
        /\ pc[d] \in HoldsRow
    BY <1>6 DEF SwitchImage, HoldsRow
  <2>2. Calm
    BY <1>1, <1>6 DEF SwitchImage, BatchLabel, TypeOK
  <2>3. Apart
    BY <1>1, <1>6 DEF SwitchImage, TypeOK
  <2>4. job[d].current \in ServiceOf(Created) =>
           /\ written \in ServiceOf(Created)
           /\ written.replicas = job[d].current.replicas
    <3>1. rollout[d].image \in Images
      BY <1>1 DEF TypeOK, Deployment
    <3> QED BY <3>1 DEF ServiceOf, ServiceStatus
  <2> HIDE DEF written, Calm, Apart
  <2> QED BY <1>3, <2>1, <2>2, <2>3, <2>4
<1>7. CASE SurgePut(d)
  <2> DEFINE written == [job[d].current EXCEPT
                           !.desired = @ + Cardinality(batches[d].batch)]
  <2>1. /\ Write(job[d].current, written)
        /\ pc[d] \in HoldsRow
    BY <1>7 DEF SurgePut, HoldsRow
  <2>2. Calm /\ Apart
    BY <1>1, <1>7 DEF SurgePut, TypeOK
  <2>3. job[d].current \in ServiceOf(Created) =>
           /\ written \in ServiceOf(Created)
           /\ written.replicas = job[d].current.replicas
    <3>1. Cardinality(batches[d].batch) \in Int
      BY <1>1, BatchFields, CreatedIsFinite
    <3> QED BY <3>1 DEF ServiceOf
  <2> HIDE DEF written, Calm, Apart
  <2> QED BY <1>3, <2>1, <2>2, <2>3
<1>8. CASE ShrinkPut(d)
  <2> DEFINE written == [job[d].current EXCEPT
                           !.desired = @ - Cardinality(batches[d].batch)]
  <2>1. /\ Write(job[d].current, written)
        /\ pc[d] \in HoldsRow
    BY <1>8 DEF ShrinkPut, HoldsRow
  <2>2. Calm
    BY <1>1, <1>8 DEF ShrinkPut, RemovalLabel, BatchLabel, TypeOK
  <2>3. Apart
    BY <1>1, <1>8 DEF ShrinkPut, TypeOK
  <2>4. job[d].current \in ServiceOf(Created) =>
           /\ written \in ServiceOf(Created)
           /\ written.replicas = job[d].current.replicas
    <3>1. Cardinality(batches[d].batch) \in Int
      BY <1>1, BatchFields, CreatedIsFinite
    <3> QED BY <3>1 DEF ServiceOf
  <2> HIDE DEF written, Calm, Apart
  <2> QED BY <1>3, <2>1, <2>2, <2>3, <2>4
<1>9. CASE FinalPut(d)
  <2> DEFINE written == [job[d].current EXCEPT !.status = "running"]
  <2>1. /\ Write(job[d].current, written)
        /\ pc[d] \in HoldsRow
    BY <1>9 DEF FinalPut, HoldsRow
  <2>2. Calm /\ Apart
    BY <1>1, <1>9 DEF FinalPut, TypeOK
  <2>3. job[d].current \in ServiceOf(Created) =>
           /\ written \in ServiceOf(Created)
           /\ written.replicas = job[d].current.replicas
    BY DEF ServiceOf, ServiceStatus
  <2> HIDE DEF written, Calm, Apart
  <2> QED BY <1>3, <2>1, <2>2, <2>3
<1>10. CASE RemoveReplica(d)
  BY <1>10, RolloutRemoval
<1> QED BY <1>4, <1>5, <1>6, <1>7, <1>8, <1>9, <1>10 DEF RolloutTask

\* A step that leaves the tasks where they are, or starts one, and changes
\* neither the containers nor the replicas of the row.
LEMMA OutsideAccounted ==
    ASSUME TypeInv, Accounted,
           \A t \in Tasks : pc'[t] = pc[t] \/ pc'[t] = "begin",
           pc'[Reconcile] = pc[Reconcile],
           job' = job, pass' = pass, up' \subseteq up,
           row # NoService => row' # NoService,
           Recorded' = Recorded
    PROVE  Accounted'
<1>1. ASSUME NEW t \in Tasks, pc'[t] \in {"rm_read", "rm_put", "rm_route"}
      PROVE  NextReplica(t)' \notin up'
  BY <1>1, SameTodo DEF Accounted, StoppedFirst
<1> QED BY <1>1, Typical, OthersAccounted

\* A request that reads does not touch the containers.
LEMMA RequestStep ==
    ASSUME TypeInv, Accounted, NEW c \in Clients,
           ClientStep(c) \/ RefreshForScale(c)
    PROVE  Accounted'
<1>1. /\ pc' = pc /\ job' = job /\ pass' = pass /\ up' = up /\ row' = row
  BY DEF ClientStep, CreateService, UpdateService, ApplyService, DeleteService,
         DestroyService, EvaluateService, CreateDeployment, RefreshForScale,
         Begin, orchVars, taskVars, hostVars
<1> QED BY <1>1, OutsideAccounted, Typical DEF Recorded

\* What a handler writes over the row it has read: a new service where there
\* was none, else the same replicas.
LEMMA Responds ==
    ASSUME TypeInv, Quiet, NEW c \in Clients, Respond(c), ~overwrote'
    PROVE  /\ row' # NoService
           /\ row = NoService => row'.replicas = {} /\ row'.addressed = {}
           /\ row # NoService => /\ row'.replicas = row.replicas
                                 /\ row'.addressed = row.addressed
<1> DEFINE base == api[c].base
           spec == api[c].spec
           written == NewRow(api[c])
<1>1. row = base /\ row' = written /\ api[c].op \notin {"none", "scale"}
  BY WriteKept DEF Respond
<1>2. /\ api[c] \in Call
      /\ TypeOK
  BY DEF TypeInv, TypeOK
<1>3. base \in MaybeService /\ spec \in [image : Images, desired : Int,
                                         request : Requests]
  BY <1>2 DEF Call
<1>4. NoService \notin ServiceOf(Created)
  BY <1>2, RowIsService DEF MaybeService
<1>5. CASE base = NoService
  <2>1. api[c].op \in {"create", "apply"}
    BY <1>1, <1>2, <1>5 DEF TypeInv, Prepared, Quiet, Call
  <2>2. written = NewService(spec)
    BY <1>5, <2>1 DEF NewRow
  <2>3. /\ NewService(spec) \in ServiceOf(Created)
        /\ NewService(spec).replicas = {} /\ NewService(spec).addressed = {}
    BY <1>3 DEF NewService, ServiceOf, ServiceStatus
  <2> HIDE DEF written, base, spec
  <2> QED BY <1>1, <1>4, <1>5, <2>2, <2>3
<1>6. CASE base # NoService
  <2>1. base \in ServiceOf(Created)
    BY <1>2, <1>3, <1>6, RowIsService
  <2>2. api[c].op \in {"patch", "apply", "delete", "scale_put"}
    BY <1>1, <1>2, <1>6 DEF Quiet, Call
  <2>3. /\ WithSpec(base, spec) \in ServiceOf(Created)
        /\ WithSpec(base, spec).replicas = base.replicas
        /\ WithSpec(base, spec).addressed = base.addressed
    BY <2>1, <1>3 DEF WithSpec, ServiceOf
  <2>4. /\ written \in ServiceOf(Created)
        /\ written.replicas = base.replicas
        /\ written.addressed = base.addressed
    <3>1. CASE api[c].op = "patch"
      BY <2>3, <3>1 DEF NewRow, ServiceOf, ServiceStatus
    <3>2. CASE api[c].op = "apply"
      BY <1>6, <2>3, <3>2 DEF NewRow
    <3>3. CASE api[c].op = "delete"
      BY <2>1, <3>3 DEF NewRow, ServiceOf, ServiceStatus
    <3>4. CASE api[c].op = "scale_put"
      BY <2>1, <1>3, <3>4 DEF NewRow, ServiceOf
    <3> QED BY <2>2, <3>1, <3>2, <3>3, <3>4
  <2> HIDE DEF written, base, spec
  <2> QED BY <1>1, <1>4, <1>6, <2>4
<1> QED BY <1>5, <1>6

\* A request that writes keeps the replicas of the row.
LEMMA RespondStep ==
    ASSUME TypeInv, Accounted, Quiet, NEW c \in Clients, Respond(c), ~overwrote'
    PROVE  Accounted'
<1>1. pc' = pc /\ job' = job /\ pass' = pass /\ up' = up
  BY DEF Respond, hostVars, taskVars
<1>2. Recorded' = Recorded
  BY Responds DEF Recorded
<1>3. row' # NoService
  BY Responds
<1> QED BY <1>1, <1>2, <1>3, OutsideAccounted, Typical

\* Orphans are removed before the first pass: after Start every running
\* container is in the row.
LEMMA StartStep ==
    ASSUME TypeInv, Accounted, Quiet, Start
    PROVE  Accounted'
<1> USE DEF Goto, storeVars, hostVars
<1>1. ASSUME NEW t \in Rollouts PROVE t \in Tasks /\ t # Reconcile
  BY Typical
<1>2. CASE ListKnown
  <2>1. /\ pc[Reconcile] = "starting"
        /\ pc' = [pc EXCEPT ![Reconcile] = "orphans"]
        /\ job' = [job EXCEPT ![Reconcile].current = row]
        /\ up' = up /\ row' = row
    BY <1>2 DEF ListKnown
  <2>2. /\ pc'[Reconcile] = "orphans" /\ job'[Reconcile].current = row
        /\ \A t \in Tasks \ {Reconcile} : pc'[t] = pc[t] /\ job'[t] = job[t]
    BY <2>1, Typical DEF TypeInv, TypeOK, Job
  <2>3. \A t \in Tasks \ {Reconcile} : pc'[t] = "off"
    BY <2>1, <2>2 DEF Quiet, Started, Tasks
  <2>4. StoppedFirst'
    BY <2>2, <2>3 DEF StoppedFirst
  <2>5. ~Started' /\ ~TearingDown' /\ ~KeepsRow'
    BY <2>2 DEF Started, TearingDown, KeepsRow, Removing, HoldsPass
  <2>6. row # NoService => row.replicas \subseteq Recorded'
    BY <2>1 DEF Recorded
  <2> QED BY <2>1, <2>2, <2>4, <2>5, <2>6 DEF Accounted
<1>3. CASE RemoveOrphans
  <2> DEFINE known == job[Reconcile].current
  <2>1. /\ pc[Reconcile] = "orphans"
        /\ pc' = [pc EXCEPT ![Reconcile] = "idle"]
        /\ job' = [job EXCEPT ![Reconcile] = Idle]
        /\ up' = IF known = NoService THEN {} ELSE up \cap known.replicas
        /\ row' = row
    BY <1>3 DEF RemoveOrphans, current_service
  <2>2. /\ pc'[Reconcile] = "idle"
        /\ \A t \in Tasks \ {Reconcile} : pc'[t] = pc[t] /\ job'[t] = job[t]
    BY <2>1, Typical DEF TypeInv, TypeOK
  <2>3. \A t \in Tasks \ {Reconcile} : pc'[t] = "off"
    BY <2>1, <2>2 DEF Quiet, Started, Tasks
  <2>4. StoppedFirst'
    BY <2>2, <2>3 DEF StoppedFirst
  <2>5. ~TearingDown' /\ ~KeepsRow'
    BY <2>2 DEF TearingDown, KeepsRow, Removing, HoldsPass
  <2>6. up' \subseteq Recorded'
    BY <2>1 DEF Accounted, Recorded
  <2> QED BY <2>1, <2>2, <2>4, <2>5, <2>6 DEF Accounted
<1> QED BY <1>2, <1>3 DEF Start

\* Dispatching rollouts keeps Accounted.
LEMMA LoopStep ==
    ASSUME TypeInv, Accounted, RolloutLoop
    PROVE  Accounted'
<1> DEFINE begun(listed) ==
             [t \in Tasks |-> IF t \in listed /\ pc[t] = "off" THEN "begin"
                             ELSE pc[t]]
<1>1. /\ job' = job /\ pass' = pass /\ up' = up /\ row' = row
      /\ \/ pc' = begun(PendingRollouts)
         \/ pc' = begun(pending)
  BY DEF RolloutLoop, DispatchRollouts, DispatchDelayed, Dispatch, storeVars,
         hostVars
<1>2. PendingRollouts \subseteq Rollouts /\ pending \subseteq Rollouts
  BY DEF PendingRollouts, TypeInv, TypeOK
<1>3. /\ \A t \in Tasks : pc'[t] = pc[t] \/ pc'[t] = "begin"
      /\ pc'[Reconcile] = pc[Reconcile]
  BY <1>1, <1>2, Typical
<1> QED BY <1>1, <1>3, OutsideAccounted DEF Recorded

\* Lost containers, crashes and late listings keep Accounted.
LEMMA FaultAccounted ==
    ASSUME TypeInv, Accounted, "error" \notin Faults, FaultStep
    PROVE  Accounted'
<1>1. CASE LoseContainer
  <2>1. /\ pc' = pc /\ job' = job /\ pass' = pass /\ row' = row
        /\ up' \subseteq up
    BY <1>1 DEF LoseContainer, storeVars, taskVars
  <2> QED BY <2>1, OutsideAccounted, Typical DEF Recorded
<1>2. CASE Crash
  <2>1. /\ pc'[Reconcile] = "starting"
        /\ \A t \in Tasks : pc'[t] \in {"starting", "off"}
    BY <1>2, Typical DEF Crash
  <2>2. StoppedFirst'
    BY <2>1 DEF StoppedFirst
  <2>3. ~Started' /\ ~TearingDown' /\ ~KeepsRow'
    BY <2>1 DEF Started, TearingDown, KeepsRow, Removing, HoldsPass
  <2> QED BY <2>1, <2>2, <2>3 DEF Accounted
<1>3. CASE DelayListing
  <2>1. pc' = pc /\ job' = job /\ pass' = pass /\ row' = row /\ up' = up
    BY <1>3 DEF DelayListing, storeVars, hostVars
  <2> QED BY <2>1, OutsideAccounted, Typical DEF Recorded
<1>4. ~(\E t \in Tasks : Abandon(t))
  BY DEF Abandon, Fault
<1> QED BY <1>1, <1>2, <1>3, <1>4 DEF FaultStep

-----------------------------------------------------------------------------
(* Quiet is kept whatever is overwritten.                                  *)

\* A task that is under way takes no other task with it, and does not start
\* the process again.
LEMMA RemovalLabels ==
    ASSUME TypeInv, NEW t \in Tasks, RemoveReplica(t)
    PROVE  \E next \in AfterRemoval \cup Removing :
              pc' = [pc EXCEPT ![t] = next] /\ pc[t] \in Removing
<1>1. \A todo : RemovalLabel(todo, job[t].after) \in AfterRemoval \cup {"rm_stop"}
  BY JobFields DEF RemovalLabel, TypeInv
<1>2. CASE StopReplica(t)
  BY <1>2 DEF StopReplica, Goto, Removing
<1>3. CASE ReadForRemoval(t)
  BY <1>1, <1>3 DEF ReadForRemoval, NextRemoval, Goto, Removing
<1>4. CASE PutRemoval(t)
  BY <1>4 DEF PutRemoval, Goto, Removing
<1>5. CASE RouteRemoval(t)
  BY <1>1, <1>5 DEF RouteRemoval, Goto, Removing
<1> QED BY <1>2, <1>3, <1>4, <1>5 DEF RemoveReplica

\* A started pass is not sent back to startup.
LEMMA PassQuiet ==
    ASSUME TypeInv, Quiet, ReconcilePass, UNCHANGED apiVars
    PROVE  Quiet'
<1> DEFINE Going == \E next : /\ pc' = [pc EXCEPT ![Reconcile] = next]
                              /\ next \notin {"starting", "orphans"}
<1> USE DEF Goto
<1>1. CASE ListServices /\ row = NoService
  BY <1>1 DEF ListServices, orchVars, apiVars, Quiet, Started
<1>2. CASE ListServices /\ row # NoService
  <2>1. Going
    BY <1>2 DEF ListServices, RemovalLabel, RefreshLabel
  <2> QED BY <2>1, Typical DEF TypeInv, TypeOK, Quiet, Started, apiVars
<1>3. CASE ~ListServices
  <2>1. Going
    <3>1. CASE ObserveReplica
      <4>1. \A seen, base, todo :
               RefreshLabel(seen, base, todo) \notin {"starting", "orphans"}
        BY DEF RefreshLabel
      <4>2. \E seen, rest :
               Goto(Reconcile, "refresh",
                    RefreshLabel(seen, current_service, rest))
        BY <3>1, Zenon DEF ObserveReplica
      <4> QED BY <4>1, <4>2
    <3>2. CASE RouteObserved \/ ReadAgain
      BY <3>2 DEF RouteObserved, ReadAgain, Scale, RemovalLabel
    <3>3. CASE SkipReplica \/ AllocateReplica \/ RouteReplica
      BY <3>3 DEF SkipReplica, AllocateReplica, RouteReplica, NextCreation
    <3>4. CASE PutObserved \/ CreateContainer \/ PutReplica
      BY <3>4 DEF PutObserved, CreateContainer, PutReplica
    <3>5. CASE ReadStatus \/ PutStatus \/ DeleteRow \/ RemoveRoute
      BY <3>5 DEF ReadStatus, PutStatus, DeleteRow, RemoveRoute
    <3>6. CASE RemoveReplica(Reconcile)
      BY <3>6, RemovalLabels, Typical DEF AfterRemoval, Removing
    <3> QED BY <1>3, <3>1, <3>2, <3>3, <3>4, <3>5, <3>6 DEF ReconcilePass
  <2> QED BY <2>1, Typical DEF TypeInv, TypeOK, Quiet, Started, apiVars
<1> QED BY <1>1, <1>2, <1>3

\* A rollout is only there after startup.
LEMMA RolloutQuiet ==
    ASSUME TypeInv, Quiet, NEW d \in Rollouts, RolloutTask(d), UNCHANGED apiVars
    PROVE  Quiet'
<1>1. /\ pc[d] # "off"
      /\ \E next : pc' = [pc EXCEPT ![d] = next]
  <2>1. CASE RemoveReplica(d)
    BY <2>1, RemovalLabels, Typical DEF Removing
  <2>2. CASE ~RemoveReplica(d)
    BY <2>2 DEF RolloutTask, BeginRollout, ReadForRollout, SwitchImage, SurgeRead,
                SurgePut, PollReplicas, ShrinkRead, ShrinkPut, CompleteRollout,
                FinalRead, FinalPut, ReadRow, Goto
  <2> QED BY <2>1, <2>2
<1>2. pc'[Reconcile] = pc[Reconcile]
  BY <1>1, Typical DEF TypeInv, TypeOK
<1> QED BY <1>1, <1>2 DEF Quiet, Started, apiVars

\* Quiet is an invariant.
LEMMA QuietKept ==
    ASSUME TypeInv, Quiet, "destroy" \notin Ops, Next
    PROVE  Quiet'
<1>1. CASE ReconcilePass /\ UNCHANGED apiVars
  BY <1>1, PassQuiet
<1>2. CASE (\E d \in Rollouts : RolloutTask(d)) /\ UNCHANGED apiVars
  BY <1>2, RolloutQuiet
<1>3. CASE Start /\ UNCHANGED apiVars
  <2>1. \A d \in Rollouts : d \in Tasks /\ d # Reconcile
    BY Typical
  <2> QED BY <1>3, <2>1, Typical
          DEF Start, ListKnown, RemoveOrphans, Goto, TypeInv, TypeOK, Quiet,
              Started, apiVars
<1>4. CASE RolloutLoop /\ UNCHANGED apiVars
  <2>1. Started
    BY <1>4 DEF RolloutLoop, DispatchRollouts, DispatchDelayed, Quiet
  <2>2. PendingRollouts \subseteq Rollouts /\ pending \subseteq Rollouts
    BY DEF PendingRollouts, TypeInv, TypeOK
  <2>3. pc'[Reconcile] = pc[Reconcile]
    BY <1>4, <2>2, Typical
       DEF RolloutLoop, DispatchRollouts, DispatchDelayed, Dispatch
  <2> QED BY <1>4, <2>1, <2>3 DEF Quiet, Started, apiVars
<1>5. CASE FaultStep /\ UNCHANGED apiVars
  <2>1. CASE LoseContainer
    BY <1>5, <2>1 DEF LoseContainer, taskVars, apiVars, Quiet, Started
  <2>2. CASE Crash
    BY <1>5, <2>2, Typical DEF Crash, apiVars, Quiet
  <2>3. CASE DelayListing
    BY <1>5, <2>3 DEF DelayListing, apiVars, Quiet, Started
  <2>4. CASE \E t \in Tasks : Abandon(t)
    BY <1>5, <2>4, Typical
       DEF Abandon, TypeInv, TypeOK, apiVars, Quiet, Started
  <2> QED BY <1>5, <2>1, <2>2, <2>3, <2>4 DEF FaultStep
<1>6. ASSUME NEW c \in Clients, ClientStep(c) \/ RefreshForScale(c) \/ Respond(c)
      PROVE  Quiet'
  <2>1. pc' = pc /\ pending' = pending
    BY <1>6 DEF ClientStep, CreateService, UpdateService, ApplyService,
                DeleteService, DestroyService, EvaluateService, CreateDeployment,
                Begin, orchVars, taskVars, RefreshForScale, Respond
  <2>2. api \in [Clients -> Call]
    BY DEF TypeInv, TypeOK
  <2> DEFINE Harmless(call) == /\ call.op # "destroy"
                               /\ call.op = "create" => call.base = NoService
             Kept == \/ api' = api
                     \/ \E call : /\ api' = [api EXCEPT ![c] = call]
                                  /\ Harmless(call)
  <2>3. ASSUME NEW op, NEW spec, Begin(c, op, spec), op # "destroy",
               op = "create" => row = NoService
        PROVE  Kept
    <3> DEFINE call == [op |-> op, base |-> row, spec |-> spec]
    <3>1. api' = [api EXCEPT ![c] = call]
      BY <2>3 DEF Begin
    <3>2. Harmless(call)
      BY <2>3
    <3> HIDE DEF call, Harmless
    <3> QED BY <3>1, <3>2
  <2>4. Harmless(NoCall)
    BY DEF NoCall
  <2>5. Kept
    <3>1. CASE CreateDeployment(c)
      BY <3>1 DEF CreateDeployment
    <3>2. CASE Respond(c)
      <4> HIDE DEF Harmless
      <4> QED BY <3>2, <2>4 DEF Respond
    <3>3. CASE RefreshForScale(c)
      <4> DEFINE call == [api[c] EXCEPT !.op = "scale_put", !.base = row]
      <4>1. Harmless(call)
        BY <2>2 DEF Call
      <4>2. api' = [api EXCEPT ![c] = IF row = NoService THEN NoCall ELSE call]
        BY <2>2, <3>3 DEF RefreshForScale
      <4> HIDE DEF call, Harmless
      <4> QED BY <2>4, <4>1, <4>2
    <3> HIDE DEF Kept
    <3>4. CASE CreateService(c)
      BY <2>3, <3>4 DEF CreateService
    <3>5. CASE UpdateService(c)
      BY <2>3, <3>5 DEF UpdateService
    <3>6. CASE ApplyService(c)
      BY <2>3, <3>6 DEF ApplyService
    <3>7. CASE DeleteService(c)
      BY <2>3, <3>7 DEF DeleteService
    <3>8. CASE EvaluateService(c)
      BY <2>3, <3>8 DEF EvaluateService
    <3>9. CASE DestroyService(c)
      BY <3>9, <1>6 DEF DestroyService, Begin, Receive
    <3> QED BY <1>6, <3>1, <3>2, <3>3, <3>4, <3>5, <3>6, <3>7, <3>8, <3>9
            DEF ClientStep
  <2> QED BY <2>1, <2>2, <2>5 DEF Quiet, Started
<1> QED BY <1>1, <1>2, <1>3, <1>4, <1>5, <1>6 DEF Next, OrchestratorStep

-----------------------------------------------------------------------------
\* LeakInv is inductive, together with the types.
THEOREM LeakStep ==
    ASSUME "destroy" \notin Ops, "error" \notin Faults
    PROVE  TypeInv /\ LeakInv /\ [Next]_vars => LeakInv'
<1> SUFFICES ASSUME TypeInv, LeakInv, [Next]_vars
             PROVE  LeakInv'
  OBVIOUS
<1>1. CASE UNCHANGED vars
  BY <1>1 DEF vars, LeakInv, Quiet, Accounted, StoppedFirst, TearingDown,
              KeepsRow, Started, Unrecorded, Recorded, NextReplica
<1>2. CASE Next
  <2>1. Quiet'
    BY <1>2, QuietKept DEF LeakInv
  <2>2. ASSUME ~overwrote' PROVE Accounted'
    <3>1. ~overwrote /\ Accounted /\ Quiet
      BY <1>2, <2>2, OverwroteStays DEF LeakInv
    <3> QED BY <1>2, <2>2, <3>1, PassStep, RolloutStep, LoopStep, StartStep,
               FaultAccounted, RequestStep, RespondStep
            DEF Next, OrchestratorStep
  <2> QED BY <2>1, <2>2 DEF LeakInv
<1> QED BY <1>1, <1>2

\* LeakInv says what NoLeak says.
LEMMA LeakInvImplies == TypeInv /\ LeakInv => NoLeak
<1> SUFFICES ASSUME TypeInv, LeakInv, Started, ~overwrote, NEW r \in up
             PROVE  \/ r = pass.fresh
                    \/ row # NoService /\ r \in row.replicas
  BY DEF NoLeak
<1> QED BY DEF LeakInv, Accounted, Unrecorded, Recorded

\* No running container is forgotten: not by a crash at any point, not by a
\* teardown or a rollout next to the pass, whatever containers die, as long
\* as services are deleted through the API, no call raises in the middle of
\* a pass, and no stale row has been written.
THEOREM NoLeakHolds ==
    ASSUME "destroy" \notin Ops, "error" \notin Faults
    PROVE  Spec => []NoLeak
<1>1. Init => TypeInv /\ LeakInv
  BY TypeInit, LeakInit
<1>2. TypeInv /\ LeakInv /\ [Next]_vars => (TypeInv /\ LeakInv)'
  BY TypeStep, LeakStep
<1>3. TypeInv /\ LeakInv => NoLeak
  BY LeakInvImplies
<1> QED BY <1>1, <1>2, <1>3, PTL DEF Spec

-----------------------------------------------------------------------------
(* What the steps of the pass do to its locals, to the row, to the routing *)
(* entry and to the ledger.                                                *)

\* A listing sets out to tear the service down, or to look at its replicas.
LEMMA ListsService ==
    ASSUME TypeOK, ListServices, row # NoService
    PROVE  /\ pc[Reconcile] = "idle"
           /\ row.status = "deleting" =>
                 /\ \/ pc'[Reconcile] = "rm_stop"
                    \/ pc'[Reconcile] = "td_delete" /\ row.replicas = {}
                 /\ job'[Reconcile].after = "td_delete"
           /\ row.status # "deleting" =>
                 /\ pc'[Reconcile] \in {"refresh", "ref_route"}
                 /\ job'[Reconcile].current = row
                 /\ pass'.service = row
           /\ job'[Reconcile].todo = row.replicas
           /\ row' = row /\ routing' = routing /\ nodes' = nodes /\ made' = made
<1> DEFINE deleting == row.status = "deleting"
           next == IF deleting THEN RemovalLabel(row.replicas, "td_delete")
                   ELSE RefreshLabel(row, row, row.replicas)
           local == [current |-> IF deleting THEN NoService ELSE row,
                     todo |-> row.replicas, request |-> row.request,
                     after |-> IF deleting THEN "td_delete" ELSE "idle"]
<1>1. /\ pc[Reconcile] = "idle"
      /\ pc' = [pc EXCEPT ![Reconcile] = next]
      /\ job' = [job EXCEPT ![Reconcile] = local]
      /\ pass' = [NoPass EXCEPT !.service = IF deleting THEN NoService ELSE row]
      /\ row' = row /\ routing' = routing /\ nodes' = nodes /\ made' = made
  BY DEF ListServices, Goto, storeVars, hostVars
<1>2. /\ local.current = IF deleting THEN NoService ELSE row
      /\ local.todo = row.replicas
      /\ local.after = IF deleting THEN "td_delete" ELSE "idle"
  OBVIOUS
<1>3. IF deleting
      THEN \/ next = "rm_stop"
           \/ next = "td_delete" /\ row.replicas = {}
      ELSE next \in {"refresh", "ref_route"}
  BY DEF RemovalLabel, RefreshLabel
<1>4. ~deleting => pass'.service = row
  BY <1>1 DEF NoPass
<1> HIDE DEF local, next
<1>5. pc'[Reconcile] = next /\ job'[Reconcile] = local
  BY <1>1, Typical DEF TypeOK
<1> QED BY <1>1, <1>2, <1>3, <1>4, <1>5

\* One replica of the listing is looked at.
LEMMA ObservesReplica ==
    ASSUME TypeInv, ObserveReplica
    PROVE  LET r == NextReplica(Reconcile)
               seen == IF Running(r) THEN WithReplica(pass.service, r, TRUE)
                       ELSE WithoutReplica(pass.service, r)
           IN  /\ pc[Reconcile] = "refresh"
               /\ r \in job[Reconcile].todo
               /\ pass.service \in ServiceOf(Created)
               /\ \/ pc'[Reconcile] = "refresh"
                  \/ /\ pc'[Reconcile] = "ref_route"
                     /\ seen = job[Reconcile].current
                  \/ pc'[Reconcile] = "ref_put"
               /\ job'[Reconcile].current = job[Reconcile].current
               /\ job'[Reconcile].todo = job[Reconcile].todo \ {r}
               /\ pass'.service = seen
               /\ row' = row /\ routing' = routing /\ made' = made
               /\ nodes' = IF Running(r)
                           THEN Allocate(nodes, made[r].node, r,
                                         pass.service.request)
                           ELSE Deallocate(nodes, made[r].node, r,
                                           pass.service.request)
<1> DEFINE r == NextReplica(Reconcile)
           rest == job[Reconcile].todo \ {r}
           seen == IF Running(r) THEN WithReplica(pass.service, r, TRUE)
                   ELSE WithoutReplica(pass.service, r)
           next == RefreshLabel(seen, job[Reconcile].current, rest)
<1>1. /\ pc[Reconcile] = "refresh"
      /\ pc' = [pc EXCEPT ![Reconcile] = next]
      /\ job' = [job EXCEPT ![Reconcile].todo = rest]
      /\ pass' = [pass EXCEPT !.service = seen]
      /\ row' = row /\ routing' = routing /\ made' = made
      /\ nodes' = IF Running(r)
                  THEN Allocate(nodes, made[r].node, r, pass.service.request)
                  ELSE Deallocate(nodes, made[r].node, r, pass.service.request)
  BY DEF ObserveReplica, Goto, storeVars, service_state, current_service
<1>2. pass.service \in ServiceOf(Created)
  BY <1>1, RowIsService, PassFields DEF TypeInv, Prepared, HoldsPass
<1>3. r \in job[Reconcile].todo
  BY <1>1, Typical, NextReplicaType DEF TypeInv, Prepared
<1>4. \/ next = "refresh"
      \/ next = "ref_route" /\ seen = job[Reconcile].current
      \/ next = "ref_put"
  BY DEF RefreshLabel
<1> HIDE DEF seen, next, rest, r
<1>5. /\ pc'[Reconcile] = next
      /\ job'[Reconcile].current = job[Reconcile].current
      /\ job'[Reconcile].todo = rest
      /\ pass'.service = seen
  BY <1>1, Typical DEF TypeInv, TypeOK, Job, Pass
<1> QED BY <1>1, <1>2, <1>3, <1>4, <1>5 DEF r, rest, seen

\* The copy with what was observed replaces the row it was made from.
LEMMA PutsObserved ==
    ASSUME TypeInv, PutObserved, ~overwrote'
    PROVE  /\ pc[Reconcile] = "ref_put" /\ pc'[Reconcile] = "ref_route"
           /\ row = job[Reconcile].current /\ row # NoService
           /\ row' = pass.service /\ row' # NoService
           /\ pass' = pass
           /\ job'[Reconcile].todo = job[Reconcile].todo
           /\ routing' = routing /\ nodes' = nodes /\ made' = made
<1>1. /\ pc[Reconcile] = "ref_put"
      /\ pc' = [pc EXCEPT ![Reconcile] = "ref_route"]
      /\ row = job[Reconcile].current
      /\ row' = pass.service
      /\ job' = [job EXCEPT ![Reconcile].current = NoService]
      /\ pass' = pass
      /\ routing' = routing /\ nodes' = nodes /\ made' = made
  BY WriteKept DEF PutObserved, Goto, hostVars, service_state, current_service
<1>2. row # NoService /\ row' # NoService
  BY <1>1, Typical DEF TypeInv, Prepared, HoldsRow, HoldsPass
<1>3. /\ pc'[Reconcile] = "ref_route"
      /\ job'[Reconcile].todo = job[Reconcile].todo
  BY <1>1, Typical DEF TypeInv, TypeOK, Job
<1> QED BY <1>1, <1>2, <1>3

\* Comparing with the desired count leads on, or to removals from the service.
LEMMA Scales ==
    ASSUME TypeOK, NEW from, NEW service, NEW want, Scale(from, service, want)
    PROVE  /\ pc[Reconcile] = from
           /\ \/ pc'[Reconcile] \in {"create", "observe"}
              \/ /\ pc'[Reconcile] = "rm_stop"
                 /\ job'[Reconcile].todo \subseteq service.replicas
                 /\ job'[Reconcile].after = "observe"
<1> DEFINE excess == IF Cardinality(service.replicas) > want
                     THEN Beyond(service.replicas, want) ELSE {}
           next == IF Cardinality(service.replicas) < want THEN "create"
                   ELSE RemovalLabel(excess, "observe")
           local == [current |-> NoService, todo |-> excess,
                     request |-> service.request, after |-> "observe"]
<1>1. /\ pc[Reconcile] = from
      /\ pc' = [pc EXCEPT ![Reconcile] = next]
      /\ job' = [job EXCEPT ![Reconcile] = local]
  BY DEF Scale, Goto
<1>2. /\ next \in {"create", "observe", "rm_stop"}
      /\ local.todo = excess /\ local.after = "observe"
  BY DEF RemovalLabel
<1>3. excess \subseteq service.replicas
  BY DEF Beyond
<1> HIDE DEF next, local, excess
<1>4. pc'[Reconcile] = next /\ job'[Reconcile] = local
  BY <1>1, Typical DEF TypeOK
<1> QED BY <1>1, <1>2, <1>3, <1>4

\* The routing entry is written, and the desired count compared with it.
LEMMA RoutesObserved ==
    ASSUME TypeOK, RouteObserved
    PROVE  /\ pc[Reconcile] = "ref_route"
           /\ \/ pc'[Reconcile] \in {"create", "observe"}
              \/ /\ pc'[Reconcile] = "rm_stop"
                 /\ job'[Reconcile].todo \subseteq pass.service.replicas
                 /\ job'[Reconcile].after \in {"observe", "reread"}
           /\ routing' = pass.service.addressed
           /\ row' = row /\ nodes' = nodes /\ made' = made
<1> DEFINE stale == StaleReplicas(pass.service)
           local == [current |-> NoService, todo |-> stale,
                     request |-> pass.service.request, after |-> "reread"]
<1>1. /\ pc[Reconcile] = "ref_route"
      /\ routing' = pass.service.addressed
      /\ row' = row /\ nodes' = nodes /\ made' = made
  BY DEF RouteObserved, storeVars, hostVars, service_state
<1>2. CASE Scale("ref_route", service_state, service_state.desired)
  BY <1>1, <1>2, Scales DEF service_state
<1>3. CASE /\ pc' = [pc EXCEPT ![Reconcile] = "rm_stop"]
           /\ job' = [job EXCEPT ![Reconcile] = local]
  <2>1. local.todo = stale /\ local.after = "reread"
    OBVIOUS
  <2>2. stale \subseteq pass.service.replicas
    BY DEF StaleReplicas
  <2> HIDE DEF local, stale
  <2>3. pc'[Reconcile] = "rm_stop" /\ job'[Reconcile] = local
    BY <1>3, Typical DEF TypeOK
  <2> QED BY <1>1, <2>1, <2>2, <2>3
<1> QED BY <1>2, <1>3 DEF RouteObserved, Goto, service_state

\* After the removal of stale replicas the row counts.
LEMMA ReadsAgain ==
    ASSUME TypeOK, ReadAgain, row # NoService
    PROVE  /\ pc[Reconcile] = "reread"
           /\ \/ pc'[Reconcile] \in {"create", "observe"}
              \/ /\ pc'[Reconcile] = "rm_stop"
                 /\ job'[Reconcile].todo \subseteq row.replicas
                 /\ job'[Reconcile].after = "observe"
           /\ row' = row /\ routing' = routing /\ nodes' = nodes /\ made' = made
<1>1. Scale("reread", row, pass.want)
  BY DEF ReadAgain
<1>2. row' = row /\ routing' = routing /\ nodes' = nodes /\ made' = made
  BY DEF ReadAgain, storeVars, hostVars
<1> QED BY <1>1, <1>2, Scales

\* A replica that cannot be placed or created changes nothing.
LEMMA SkipsReplica ==
    ASSUME TypeOK, SkipReplica
    PROVE  /\ pc[Reconcile] = "create"
           /\ pc'[Reconcile] \in {"create", "observe"}
           /\ row' = row /\ routing' = routing /\ nodes' = nodes /\ made' = made
BY Typical DEF SkipReplica, NextCreation, Goto, TypeOK, storeVars, hostVars

\* A container has the number after the last, and nothing names it yet.
LEMMA CreatesContainer ==
    ASSUME TypeOK, CreateContainer
    PROVE  /\ pc[Reconcile] = "create" /\ pc'[Reconcile] = "cr_read"
           /\ pass'.fresh \notin Created
           /\ \A r \in Created : made'[r] = made[r]
           /\ row' = row /\ routing' = routing /\ nodes' = nodes
<1> DEFINE fresh == Len(made) + 1
           container == [image |-> service_state.image,
                         node |-> SelectNode(nodes, service_state.request)]
<1>1. /\ pc[Reconcile] = "create"
      /\ pc' = [pc EXCEPT ![Reconcile] = "cr_read"]
      /\ made' = Append(made, container)
      /\ \/ pass' = [pass EXCEPT !.fresh = fresh, !.addressed = TRUE]
         \/ pass' = [pass EXCEPT !.fresh = fresh]
      /\ row' = row /\ routing' = routing /\ nodes' = nodes
  BY DEF CreateContainer, Goto, storeVars
<1> HIDE DEF container
<1>2. pc'[Reconcile] = "cr_read"
  BY <1>1, Typical DEF TypeOK
<1>3. pass'.fresh = Len(made) + 1
  BY <1>1 DEF TypeOK, Pass
<1>4. Len(made) \in Nat /\ made \in Seq([image : Images, node : Nodes])
  BY OrchestratorAssumption DEF TypeOK
<1>5. \A r \in Created : made'[r] = made[r]
  BY <1>1, <1>4 DEF Created
<1> QED BY <1>1, <1>2, <1>3, <1>4, <1>5 DEF Created

\* The node is charged and the row read that the replica will be added to.
LEMMA AllocatesReplica ==
    ASSUME TypeOK, AllocateReplica, row # NoService
    PROVE  /\ pc[Reconcile] = "cr_read" /\ pc'[Reconcile] = "cr_put"
           /\ pass' = pass
           /\ row' = row /\ routing' = routing /\ made' = made
           /\ nodes' = Allocate(nodes, made[pass.fresh].node, pass.fresh,
                                pass.service.request)
<1>1. /\ pc[Reconcile] = "cr_read"
      /\ pc' = [pc EXCEPT ![Reconcile] = "cr_put"]
      /\ pass' = pass
      /\ row' = row /\ routing' = routing /\ made' = made
      /\ nodes' = Allocate(nodes, made[pass.fresh].node, pass.fresh,
                           pass.service.request)
  BY DEF AllocateReplica, Goto, storeVars, service_state
<1> QED BY <1>1, Typical DEF TypeOK

\* The row gets the new replica.
LEMMA PutsReplica ==
    ASSUME TypeInv, PutReplica, ~overwrote'
    PROVE  /\ pc[Reconcile] = "cr_put" /\ pc'[Reconcile] = "cr_route"
           /\ row # NoService /\ row' # NoService
           /\ row'.replicas = row.replicas \cup {pass.fresh}
           /\ row'.image = row.image /\ row'.desired = row.desired
           /\ row'.status = row.status
           /\ job'[Reconcile].current = row'
           /\ routing' = routing /\ nodes' = nodes /\ made' = made
<1> DEFINE recorded == WithReplica(job[Reconcile].current, pass.fresh,
                                   pass.addressed)
<1>1. /\ pc[Reconcile] = "cr_put"
      /\ pc' = [pc EXCEPT ![Reconcile] = "cr_route"]
      /\ row = job[Reconcile].current
      /\ row' = recorded
      /\ job' = [job EXCEPT ![Reconcile].current = recorded]
      /\ routing' = routing /\ nodes' = nodes /\ made' = made
  BY WriteKept DEF PutReplica, Goto, hostVars, current_service
<1>2. row # NoService /\ row \in ServiceOf(Created) /\ Len(made) \in Nat
      /\ pass.fresh # 0
  BY <1>1, Typical, RowIsService, OrchestratorAssumption
     DEF TypeInv, TypeOK, Prepared, HoldsRow
<1>3. pass.fresh \in Created /\ pass.addressed \in BOOLEAN
  BY <1>2, PassFields DEF Created, TypeInv
<1>4. recorded \in ServiceOf(Created)
  BY <1>1, <1>2, <1>3, ServiceUpdates
<1>5. /\ recorded.replicas = row.replicas \cup {pass.fresh}
      /\ recorded.image = row.image /\ recorded.desired = row.desired
      /\ recorded.status = row.status
  BY <1>1, <1>2 DEF WithReplica, ServiceOf
<1> HIDE DEF recorded
<1>6. row' # NoService
  BY <1>1, <1>4, RowIsService DEF TypeInv, MaybeService
<1>7. /\ pc'[Reconcile] = "cr_route"
      /\ job'[Reconcile].current = recorded
  BY <1>1, Typical DEF TypeInv, TypeOK, Job
<1> QED BY <1>1, <1>2, <1>5, <1>6, <1>7

\* ... and the routing entry its address.
LEMMA RoutesReplica ==
    ASSUME TypeOK, RouteReplica
    PROVE  /\ pc[Reconcile] = "cr_route"
           /\ pc'[Reconcile] \in {"create", "observe"}
           /\ routing' = job[Reconcile].current.addressed
           /\ row' = row /\ nodes' = nodes /\ made' = made
BY Typical DEF RouteReplica, NextCreation, Goto, TypeOK, storeVars, hostVars,
               current_service

\* The status is looked at ...
LEMMA ReadsStatus ==
    ASSUME TypeOK, ReadStatus
    PROVE  /\ pc[Reconcile] = "observe" /\ pc'[Reconcile] \in {"ob_put", "idle"}
           /\ row' = row /\ routing' = routing /\ nodes' = nodes /\ made' = made
BY Typical DEF ReadStatus, Goto, TypeOK, storeVars, hostVars

\* ... and nothing else in the row is changed.
LEMMA PutsStatus ==
    ASSUME TypeInv, PutStatus, ~overwrote'
    PROVE  /\ pc[Reconcile] = "ob_put" /\ pc'[Reconcile] = "idle"
           /\ row # NoService /\ row' # NoService
           /\ row'.replicas = row.replicas /\ row'.addressed = row.addressed
           /\ row'.image = row.image /\ row'.desired = row.desired
           /\ row'.status \in {"running", "degraded"}
           /\ routing' = routing /\ nodes' = nodes /\ made' = made
<1> DEFINE base == job[Reconcile].current
           written == [base EXCEPT !.status = ObservedStatus(base)]
<1>1. /\ pc[Reconcile] = "ob_put"
      /\ pc' = [pc EXCEPT ![Reconcile] = "idle"]
      /\ row = base
      /\ row' = written
      /\ routing' = routing /\ nodes' = nodes /\ made' = made
  BY WriteKept DEF PutStatus, Goto, hostVars, current_service
<1>2. row # NoService /\ row \in ServiceOf(Created)
  BY <1>1, Typical, RowIsService DEF TypeInv, TypeOK, Prepared, HoldsRow
<1>3. ObservedStatus(base) \in {"running", "degraded"}
  BY DEF ObservedStatus
<1>4. /\ written \in ServiceOf(Created)
      /\ written.replicas = row.replicas /\ written.addressed = row.addressed
      /\ written.image = row.image /\ written.desired = row.desired
      /\ written.status \in {"running", "degraded"}
  BY <1>1, <1>2, <1>3 DEF ServiceOf, ServiceStatus
<1> HIDE DEF written, base
<1>5. row' # NoService
  BY <1>1, <1>4, RowIsService DEF TypeInv, MaybeService
<1>6. pc'[Reconcile] = "idle"
  BY <1>1, Typical DEF TypeInv, TypeOK
<1> QED BY <1>1, <1>2, <1>4, <1>5, <1>6

\* The end of a teardown: the row goes, then the routing entry.
LEMMA EndsTeardown ==
    ASSUME TypeOK
    PROVE  /\ DeleteRow =>
                 /\ pc[Reconcile] = "td_delete" /\ pc'[Reconcile] = "td_route"
                 /\ row' = NoService
                 /\ routing' = routing /\ nodes' = nodes /\ made' = made
           /\ RemoveRoute =>
                 /\ pc[Reconcile] = "td_route" /\ pc'[Reconcile] = "idle"
                 /\ routing' = {}
                 /\ row' = row /\ nodes' = nodes /\ made' = made
BY Typical DEF DeleteRow, RemoveRoute, Goto, TypeOK, storeVars, hostVars

\* The container of the first replica to remove is stopped and paid back.
LEMMA StopsReplica ==
    ASSUME TypeInv, StopReplica(Reconcile)
    PROVE  /\ pc[Reconcile] = "rm_stop" /\ pc'[Reconcile] = "rm_read"
           /\ NextReplica(Reconcile) \in job[Reconcile].todo
           /\ NextReplica(Reconcile)' = NextReplica(Reconcile)
           /\ job' = job
           /\ row' = row /\ routing' = routing /\ made' = made
           /\ nodes' = Deallocate(nodes, made[NextReplica(Reconcile)].node,
                                  NextReplica(Reconcile), job[Reconcile].request)
<1>1. /\ pc[Reconcile] = "rm_stop"
      /\ pc' = [pc EXCEPT ![Reconcile] = "rm_read"]
      /\ job' = job
      /\ row' = row /\ routing' = routing /\ made' = made
      /\ nodes' = Deallocate(nodes, made[NextReplica(Reconcile)].node,
                             NextReplica(Reconcile), job[Reconcile].request)
  BY DEF StopReplica, Goto, storeVars
<1>2. NextReplica(Reconcile) \in job[Reconcile].todo
  BY <1>1, Typical, NextReplicaType DEF TypeInv, Prepared, Removing
<1>3. NextReplica(Reconcile)' = NextReplica(Reconcile)
  BY <1>1, Typical, SameTodo
<1>4. pc'[Reconcile] = "rm_read"
  BY <1>1, Typical DEF TypeInv, TypeOK
<1> QED BY <1>1, <1>2, <1>3, <1>4

\* The row is read that the replica will be taken from.
LEMMA ReadsForRemoval ==
    ASSUME TypeInv, ReadForRemoval(Reconcile), row # NoService
    PROVE  /\ pc[Reconcile] = "rm_read" /\ pc'[Reconcile] = "rm_put"
           /\ NextReplica(Reconcile)' = NextReplica(Reconcile)
           /\ job'[Reconcile].todo = job[Reconcile].todo
           /\ job'[Reconcile].after = job[Reconcile].after
           /\ row' = row /\ routing' = routing /\ nodes' = nodes /\ made' = made
<1>1. /\ pc[Reconcile] = "rm_read"
      /\ pc' = [pc EXCEPT ![Reconcile] = "rm_put"]
      /\ job' = [job EXCEPT ![Reconcile].current = row]
      /\ row' = row /\ routing' = routing /\ nodes' = nodes /\ made' = made
  BY DEF ReadForRemoval, Goto, storeVars, hostVars
<1>2. /\ pc'[Reconcile] = "rm_put"
      /\ job'[Reconcile].todo = job[Reconcile].todo
      /\ job'[Reconcile].after = job[Reconcile].after
  BY <1>1, Typical DEF TypeInv, TypeOK, Job
<1> QED BY <1>1, <1>2, Typical, SameTodo

\* Nothing but the replica is taken from the row.
LEMMA PutsRemoval ==
    ASSUME TypeInv, NEW t \in Tasks, PutRemoval(t), ~overwrote'
    PROVE  /\ pc[t] = "rm_put" /\ pc'[t] = "rm_route"
           /\ NextReplica(t)' = NextReplica(t)
           /\ row # NoService /\ row' # NoService
           /\ row'.replicas = row.replicas \ {NextReplica(t)}
           /\ row'.image = row.image /\ row'.desired = row.desired
           /\ row'.status = row.status
           /\ job'[t].current = row'
           /\ job'[t].todo = job[t].todo /\ job'[t].after = job[t].after
           /\ routing' = routing /\ nodes' = nodes /\ made' = made
<1> DEFINE r == NextReplica(t)
           without == WithoutReplica(job[t].current, r)
<1>1. /\ pc[t] = "rm_put"
      /\ pc' = [pc EXCEPT ![t] = "rm_route"]
      /\ row = job[t].current
      /\ row' = without
      /\ job' = [job EXCEPT ![t].current = without]
      /\ routing' = routing /\ nodes' = nodes /\ made' = made
  BY WriteKept DEF PutRemoval, Goto, hostVars
<1>2. row # NoService /\ row \in ServiceOf(Created)
  BY <1>1, RowIsService DEF TypeInv, TypeOK, Prepared, HoldsRow
<1>3. r \in Created
  BY <1>1, NextReplicaType DEF TypeInv, Prepared, Removing
<1>4. without \in ServiceOf(Created)
  BY <1>1, <1>2, <1>3, ServiceUpdates
<1>5. /\ without.replicas = row.replicas \ {r}
      /\ without.image = row.image /\ without.desired = row.desired
      /\ without.status = row.status
  BY <1>1, <1>2 DEF WithoutReplica, ServiceOf
<1> HIDE DEF without, r
<1>6. row' # NoService
  BY <1>1, <1>4, RowIsService DEF TypeInv, MaybeService
<1>7. /\ pc'[t] = "rm_route"
      /\ job'[t].current = without
      /\ job'[t].todo = job[t].todo /\ job'[t].after = job[t].after
  BY <1>1 DEF TypeInv, TypeOK, Job
<1>8. NextReplica(t)' = NextReplica(t)
  BY <1>7, SameTodo
<1> QED BY <1>1, <1>2, <1>5, <1>6, <1>7, <1>8 DEF r

\* The routing entry is written, and the next replica is on.
LEMMA RoutesRemoval ==
    ASSUME TypeOK, RouteRemoval(Reconcile)
    PROVE  LET rest == job[Reconcile].todo \ {NextReplica(Reconcile)}
           IN  /\ pc[Reconcile] = "rm_route"
               /\ \/ pc'[Reconcile] = "rm_stop"
                  \/ pc'[Reconcile] = job[Reconcile].after /\ rest = {}
               /\ job'[Reconcile].todo = rest
               /\ job'[Reconcile].after = job[Reconcile].after
               /\ routing' = job[Reconcile].current.addressed
               /\ row' = row /\ nodes' = nodes /\ made' = made
<1> DEFINE rest == job[Reconcile].todo \ {NextReplica(Reconcile)}
           next == RemovalLabel(rest, job[Reconcile].after)
<1>1. /\ pc[Reconcile] = "rm_route"
      /\ pc' = [pc EXCEPT ![Reconcile] = next]
      /\ job' = [job EXCEPT ![Reconcile].todo = rest,
                            ![Reconcile].current = NoService]
      /\ routing' = job[Reconcile].current.addressed
      /\ row' = row /\ nodes' = nodes /\ made' = made
  BY DEF RouteRemoval, Goto, storeVars, hostVars
<1>2. next = "rm_stop" \/ (next = job[Reconcile].after /\ rest = {})
  BY DEF RemovalLabel
<1> HIDE DEF rest, next
<1>3. /\ pc'[Reconcile] = next
      /\ job'[Reconcile].todo = rest
      /\ job'[Reconcile].after = job[Reconcile].after
  BY <1>1, Typical DEF TypeOK, Job
<1> QED BY <1>1, <1>2, <1>3 DEF rest

\* Starting touches neither the row nor what is kept in step with it.
LEMMA Starts ==
    ASSUME TypeOK, Start
    PROVE  /\ pc[Reconcile] \in {"starting", "orphans"}
           /\ pc'[Reconcile] \in {"orphans", "idle"}
           /\ row' = row /\ routing' = routing /\ nodes' = nodes /\ made' = made
BY Typical DEF Start, ListKnown, RemoveOrphans, Goto, TypeOK, storeVars, hostVars

-----------------------------------------------------------------------------
(* Without a restart and a rollout the routing entry and the row agree     *)
(* whenever the pass is at rest.  In between one of them is ahead of the   *)
(* other, and a local of the pass has what the one that lags will get.     *)

\* The pass is the only task there is.
Alone == pending = {} /\ \A d \in Rollouts : pc[d] = "off"

Addressed == IF row = NoService THEN {} ELSE row.addressed

Routed ==
    /\ pc[Reconcile] \notin {"starting", "orphans", "idle", "td_route"} =>
          row # NoService
    /\ pc[Reconcile] \notin {"ref_route", "rm_route", "cr_route", "td_route"} =>
          routing = Addressed
    /\ pc[Reconcile] = "refresh" =>
          job[Reconcile].current.addressed = Addressed
    /\ pc[Reconcile] = "ref_route" => pass.service.addressed = Addressed
    /\ pc[Reconcile] \in {"rm_route", "cr_route"} =>
          job[Reconcile].current.addressed = Addressed
    /\ pc[Reconcile] = "td_route" => Addressed = {}

AloneInv == Undisturbed => Alone
RoutedInv == Undisturbed /\ ~overwrote => Routed

\* It holds at first.
LEMMA RoutedInit == Init => Quiet /\ AloneInv /\ RoutedInv
<1> SUFFICES ASSUME Init PROVE Quiet /\ AloneInv /\ RoutedInv
  OBVIOUS
<1>1. Quiet
  BY LeakInit DEF LeakInv
<1>2. Alone
  BY Typical DEF Init, InitOrchestrator, Alone, Tasks
<1>3. Routed
  BY Typical DEF Init, InitOrchestrator, Routed, Addressed
<1> QED BY <1>1, <1>2, <1>3 DEF AloneInv, RoutedInv

\* Whether a fault is one that interrupts a task.
LEMMA FaultInterrupts ==
    ASSUME NEW kind, Fault(kind), ~faults'.interrupted
    PROVE  ~faults.interrupted /\ kind \notin {"crash", "error"}
BY Zenon DEF Fault

\* The pass leaves the rollouts and their tasks alone.
LEMMA PassLeaves ==
    ASSUME TypeInv, ReconcilePass
    PROVE  /\ rollout' = rollout /\ pending' = pending /\ batches' = batches
           /\ \A t \in Tasks \ {Reconcile} : pc'[t] = pc[t] /\ job'[t] = job[t]
           /\ ~faults'.interrupted => ~faults.interrupted
<1> DEFINE Going == \E next : pc' = [pc EXCEPT ![Reconcile] = next]
           Working == \/ job' = job
                      \/ \E local : job' = [job EXCEPT ![Reconcile] = local]
           Rest == /\ rollout' = rollout /\ pending' = pending
                   /\ batches' = batches
                   /\ ~faults'.interrupted => ~faults.interrupted
<1> USE DEF Goto, storeVars, hostVars
<1>0. /\ pc \in [Tasks -> Labels] /\ job \in [Tasks -> Job]
  BY DEF TypeInv, TypeOK
<1>1. ASSUME Going \/ pc' = pc, Working, Rest
      PROVE  /\ Rest
             /\ \A t \in Tasks \ {Reconcile} : pc'[t] = pc[t] /\ job'[t] = job[t]
  BY <1>0, <1>1
<1>2. CASE ListServices /\ row = NoService
  BY <1>1, <1>2 DEF ListServices, orchVars
<1>3. CASE ListServices /\ row # NoService
  BY <1>1, <1>3 DEF ListServices
<1>4. CASE ObserveReplica
  <2> DEFINE rest == job[Reconcile].todo \ {NextReplica(Reconcile)}
             local == [job[Reconcile] EXCEPT !.todo = rest]
  <2>1. job' = [job EXCEPT ![Reconcile].todo = rest] /\ Rest /\ Going
    BY <1>4 DEF ObserveReplica
  <2>2. job' = [job EXCEPT ![Reconcile] = local]
    BY <2>1
  <2> HIDE DEF local
  <2>3. Working
    BY <2>2
  <2> QED BY <1>1, <2>1, <2>3
<1>5. CASE PutObserved
  BY <1>1, <1>5 DEF PutObserved
<1>6. CASE RouteObserved \/ ReadAgain
  BY <1>1, <1>6 DEF RouteObserved, ReadAgain, Scale
<1>7. CASE SkipReplica
  BY <1>1, <1>7, FaultInterrupts DEF SkipReplica, NextCreation
<1>8. CASE CreateContainer
  BY <1>1, <1>8, FaultInterrupts DEF CreateContainer
<1>9. CASE AllocateReplica \/ PutReplica \/ RouteReplica
  BY <1>1, <1>9 DEF AllocateReplica, PutReplica, RouteReplica, NextCreation
<1>10. CASE ReadStatus \/ PutStatus \/ DeleteRow \/ RemoveRoute
  BY <1>1, <1>10 DEF ReadStatus, PutStatus, DeleteRow, RemoveRoute
<1>11. CASE RemoveReplica(Reconcile)
  <2>1. CASE StopReplica(Reconcile) \/ PutRemoval(Reconcile)
    BY <1>1, <2>1 DEF StopReplica, PutRemoval
  <2>2. CASE ReadForRemoval(Reconcile) \/ RouteRemoval(Reconcile)
    BY <1>1, <2>2 DEF ReadForRemoval, NextRemoval, RouteRemoval
  <2> QED BY <1>11, <2>1, <2>2 DEF RemoveReplica
<1> QED BY <1>2, <1>3, <1>4, <1>5, <1>6, <1>7, <1>8, <1>9, <1>10, <1>11
        DEF ReconcilePass

\* What an undisturbed process may do: its start, its pass, and nothing about
\* rollouts, next to its clients.
LEMMA AloneStep ==
    ASSUME TypeInv, AloneInv, Next, Undisturbed'
    PROVE  /\ Undisturbed /\ Alone /\ Alone'
           /\ \/ (Start \/ ReconcilePass) /\ UNCHANGED apiVars
              \/ UNCHANGED <<row, routing, nodes, made, pc, job, pass>>
              \/ \E c \in Clients : Respond(c) /\ UNCHANGED <<routing, nodes,
                                                   made, pc, job, pass>>
<1>0. /\ pc \in [Tasks -> Labels]
      /\ \A d \in Rollouts : d \in Tasks /\ d # Reconcile
      /\ rollout \in [Rollouts -> Deployment]
  BY Typical DEF TypeInv, TypeOK
<1>1. ASSUME rollout' = rollout, ~faults'.interrupted => ~faults.interrupted
      PROVE  Undisturbed /\ Alone
  BY <1>1 DEF Undisturbed, AloneInv
<1>2. CASE (Start \/ ReconcilePass) /\ UNCHANGED apiVars
  <2>1. CASE ReconcilePass
    BY <1>0, <1>1, <1>2, <2>1, PassLeaves DEF Alone
  <2>2. CASE Start
    <3>1. /\ rollout' = rollout /\ pending' = pending /\ faults' = faults
          /\ \A d \in Rollouts : pc'[d] = pc[d]
      BY <1>0, <2>2 DEF Start, ListKnown, RemoveOrphans, Goto, storeVars
    <3> QED BY <1>1, <1>2, <3>1 DEF Alone
  <2> QED BY <1>2, <2>1, <2>2
<1>3. CASE RolloutLoop
  <2>1. /\ rollout' = rollout /\ faults' = faults
        /\ UNCHANGED <<row, routing, nodes, made, job, pass>>
    BY <1>3 DEF RolloutLoop, DispatchRollouts, DispatchDelayed, storeVars, hostVars
  <2>2. Undisturbed /\ Alone
    BY <1>1, <2>1
  <2>3. pending = {} /\ PendingRollouts = {}
    BY <2>2 DEF Undisturbed, Alone, PendingRollouts
  <2>4. pc' = [t \in Tasks |-> pc[t]] /\ pending' = {}
    BY <1>3, <2>3 DEF RolloutLoop, DispatchRollouts, DispatchDelayed, Dispatch
  <2>5. pc' = pc
    BY <1>0, <2>4
  <2> QED BY <2>1, <2>2, <2>4, <2>5 DEF Alone
<1>4. CASE \E d \in Rollouts : RolloutTask(d)
  <2>1. PICK d \in Rollouts : RolloutTask(d)
    BY <1>4
  <2>2. pc[d] # "off"
    <3>1. CASE RemoveReplica(d)
      BY <1>0, <3>1, RemovalLabels DEF Removing
    <3>2. CASE ~RemoveReplica(d)
      BY <2>1, <3>2
         DEF RolloutTask, BeginRollout, ReadForRollout, SwitchImage, SurgeRead,
             SurgePut, PollReplicas, ShrinkRead, ShrinkPut, CompleteRollout,
             FinalRead, FinalPut, ReadRow, Goto
    <3> QED BY <3>1, <3>2
  <2>3. \/ rollout' = rollout /\ faults' = faults
        \/ \E status \in {"updating", "running"} :
              rollout' = [rollout EXCEPT ![d].status = status]
    <3>1. CASE RemoveReplica(d)
      BY <3>1 DEF RemoveReplica, StopReplica, ReadForRemoval, PutRemoval,
                  RouteRemoval, storeVars
    <3>2. CASE ~RemoveReplica(d)
      BY <2>1, <3>2
         DEF RolloutTask, BeginRollout, ReadForRollout, SwitchImage, SurgeRead,
             SurgePut, PollReplicas, ShrinkRead, ShrinkPut, CompleteRollout,
             FinalRead, FinalPut, storeVars
    <3> QED BY <3>1, <3>2
  <2>4. rollout' = rollout /\ faults' = faults
    <3>1. rollout'[d].status = "absent"
      BY DEF Undisturbed
    <3> QED BY <1>0, <2>3, <3>1 DEF Deployment
  <2> QED BY <1>1, <2>2, <2>4 DEF Alone
<1>5. CASE FaultStep /\ UNCHANGED apiVars
  <2>1. CASE LoseContainer
    <3>1. /\ rollout' = rollout /\ ~faults.interrupted
          /\ UNCHANGED <<row, routing, nodes, made, pc, job, pass, pending>>
      BY <2>1, FaultInterrupts DEF LoseContainer, taskVars, storeVars, Undisturbed
    <3> QED BY <1>1, <3>1 DEF Alone
  <2>2. CASE Crash \/ \E t \in Tasks : Abandon(t)
    BY <2>2, FaultInterrupts DEF Crash, Abandon, Undisturbed
  <2>3. CASE Fault("listing") /\ DelayListing
    <3>1. rollout' = rollout /\ ~faults.interrupted
      BY <2>3, FaultInterrupts DEF DelayListing, storeVars, Undisturbed
    <3>2. PendingRollouts = {}
      BY <3>1, <1>1 DEF PendingRollouts, Undisturbed
    <3> QED BY <2>3, <3>2 DEF DelayListing
  <2> QED BY <1>5, <2>1, <2>2, <2>3 DEF FaultStep
<1>6. ASSUME NEW c \in Clients, ClientStep(c) \/ RefreshForScale(c) \/ Respond(c)
      PROVE  /\ Undisturbed /\ Alone /\ Alone'
             /\ UNCHANGED <<routing, nodes, made, pc, job, pass>>
             /\ row' = row \/ Respond(c)
  <2>1. /\ UNCHANGED <<routing, nodes, made, pc, job, pass, pending, faults>>
        /\ row' = row \/ Respond(c)
    BY <1>6 DEF ClientStep, CreateService, UpdateService, ApplyService,
                DeleteService, DestroyService, EvaluateService, CreateDeployment,
                Begin, orchVars, taskVars, hostVars, RefreshForScale, Respond
  <2>2. CASE ~CreateDeployment(c)
    <3>1. rollout' = rollout
      BY <1>6, <2>2
         DEF ClientStep, CreateService, UpdateService, ApplyService,
             DeleteService, DestroyService, EvaluateService,
             Begin, orchVars, RefreshForScale, Respond
    <3> QED BY <1>1, <2>1, <3>1 DEF Alone
  <2>3. CASE CreateDeployment(c)
    <3>1. PICK d \in Rollouts, image \in NewImages :
             rollout' = [rollout EXCEPT ![d] = [status |-> "pending",
                                                image |-> image]]
      BY <2>3 DEF CreateDeployment
    <3>2. rollout'[d].status = "pending"
      BY <1>0, <3>1
    <3> QED BY <3>2 DEF Undisturbed
  <2> QED BY <2>1, <2>2, <2>3
<1> QED BY <1>2, <1>3, <1>4, <1>5, <1>6 DEF Next, OrchestratorStep

\* The pass keeps the routing entry in step with the row.
LEMMA RoutedPass ==
    ASSUME TypeInv, Routed, ReconcilePass, ~overwrote'
    PROVE  Routed'
<1>0. TypeOK /\ job[Reconcile].after \in AfterRemoval
  BY Typical, JobFields DEF TypeInv
<1>1. row' = row => Addressed' = Addressed
  BY DEF Addressed
<1>2. CASE ListServices /\ row = NoService
  <2>1. UNCHANGED orchVars
    BY <1>2 DEF ListServices
  <2> QED BY <2>1 DEF orchVars, Routed, Addressed
<1>3. CASE ListServices /\ row # NoService
  BY <1>0, <1>1, <1>3, ListsService DEF Routed, Addressed
<1>4. CASE ObserveReplica
  BY <1>1, <1>4, ObservesReplica DEF Routed
<1>5. CASE PutObserved
  BY <1>5, PutsObserved DEF Routed, Addressed
<1>6. CASE RouteObserved
  BY <1>0, <1>1, <1>6, RoutesObserved DEF Routed
<1>7. CASE ReadAgain
  <2>1. pc[Reconcile] = "reread"
    BY <1>7 DEF ReadAgain, Scale, Goto
  <2> QED BY <1>0, <1>1, <1>7, <2>1, ReadsAgain DEF Routed
<1>8. CASE SkipReplica
  BY <1>0, <1>1, <1>8, SkipsReplica DEF Routed
<1>9. CASE CreateContainer
  BY <1>0, <1>1, <1>9, CreatesContainer DEF Routed
<1>10. CASE AllocateReplica
  <2>1. pc[Reconcile] = "cr_read"
    BY <1>10 DEF AllocateReplica
  <2> QED BY <1>0, <1>1, <1>10, <2>1, AllocatesReplica DEF Routed
<1>11. CASE PutReplica
  BY <1>11, PutsReplica DEF Routed, Addressed
<1>12. CASE RouteReplica
  BY <1>0, <1>1, <1>12, RoutesReplica DEF Routed
<1>13. CASE ReadStatus
  BY <1>0, <1>1, <1>13, ReadsStatus DEF Routed
<1>14. CASE PutStatus
  BY <1>14, PutsStatus DEF Routed, Addressed
<1>15. CASE DeleteRow \/ RemoveRoute
  BY <1>0, <1>1, <1>15, EndsTeardown DEF Routed, Addressed
<1>16. CASE RemoveReplica(Reconcile)
  <2>1. CASE StopReplica(Reconcile)
    BY <1>1, <2>1, StopsReplica DEF Routed
  <2>2. CASE ReadForRemoval(Reconcile)
    <3>1. pc[Reconcile] = "rm_read"
      BY <2>2 DEF ReadForRemoval, NextRemoval, Goto
    <3> QED BY <1>1, <2>2, <3>1, ReadsForRemoval DEF Routed
  <2>3. CASE PutRemoval(Reconcile)
    BY <2>3, Typical, PutsRemoval DEF Routed, Addressed
  <2>4. CASE RouteRemoval(Reconcile)
    BY <1>0, <1>1, <2>4, RoutesRemoval DEF Routed, AfterRemoval
  <2> QED BY <1>16, <2>1, <2>2, <2>3, <2>4 DEF RemoveReplica
<1> QED BY <1>2, <1>3, <1>4, <1>5, <1>6, <1>7, <1>8, <1>9, <1>10, <1>11, <1>12,
           <1>13, <1>14, <1>15, <1>16 DEF ReconcilePass

\* So does the rest of the platform, as long as nothing interrupts the pass.
THEOREM RoutedStep ==
    ASSUME "destroy" \notin Ops
    PROVE  /\ TypeInv /\ Quiet /\ AloneInv /\ RoutedInv /\ [Next]_vars
           => Quiet' /\ AloneInv' /\ RoutedInv'
<1> SUFFICES ASSUME TypeInv, Quiet, AloneInv, RoutedInv, [Next]_vars
             PROVE  Quiet' /\ AloneInv' /\ RoutedInv'
  OBVIOUS
<1>1. CASE UNCHANGED vars
  BY <1>1 DEF vars, Quiet, Started, AloneInv, Alone, RoutedInv, Routed,
              Addressed, Undisturbed
<1>2. CASE Next
  <2>1. Quiet'
    BY <1>2, QuietKept
  <2>2. ASSUME Undisturbed'
        PROVE  Alone' /\ Undisturbed
    BY <1>2, <2>2, AloneStep
  <2>3. ASSUME Undisturbed', ~overwrote'
        PROVE  Routed'
    <3>1. Routed
      BY <1>2, <2>2, <2>3, OverwroteStays DEF RoutedInv
    <3>2. CASE ReconcilePass
      BY <2>3, <3>1, <3>2, RoutedPass
    <3>3. CASE Start
      BY <3>1, <3>3, Starts DEF TypeInv, Routed, Addressed
    <3>4. CASE UNCHANGED <<row, routing, nodes, made, pc, job, pass>>
      BY <3>1, <3>4 DEF Routed, Addressed
    <3>5. ASSUME NEW c \in Clients, Respond(c),
                 UNCHANGED <<routing, nodes, made, pc, job, pass>>
          PROVE  Routed'
      BY <2>3, <3>1, <3>5, Responds DEF Routed, Addressed
    <3> QED BY <1>2, <2>3, <3>2, <3>3, <3>4, <3>5, AloneStep
  <2> QED BY <2>1, <2>2, <2>3 DEF AloneInv, RoutedInv
<1> QED BY <1>1, <1>2

\* The routing entry of a service in Redis is exactly its recorded addresses in
\* Postgres whenever the pass rests, whatever clients write, whichever
\* containers die and whatever Docker refuses, as long as services are deleted
\* through the API and no stale row has been written.
THEOREM RoutingFollowsRow ==
    ASSUME "destroy" \notin Ops
    PROVE  Spec => []SteadyRouting
<1> DEFINE Inv == TypeInv /\ Quiet /\ AloneInv /\ RoutedInv
<1>1. Init => Inv
  BY TypeInit, RoutedInit
<1>2. Inv /\ [Next]_vars => Inv'
  BY TypeStep, RoutedStep
<1>3. Inv => SteadyRouting
  BY DEF RoutedInv, Routed, SteadyRouting, RoutingMatchesRow, AtRest, Addressed
<1> QED BY <1>1, <1>2, <1>3, PTL DEF Spec

-----------------------------------------------------------------------------
(* Without a restart and a rollout, and with one size of request, the      *)
(* ledger charges every node for the recorded replicas on it.  Only the    *)
(* allocate and deallocate of the pass keep the two together, one await    *)
(* apart from the write of the row.                                        *)

\* The replicas of S on a node, and a ledger that charges for just these.
On(containers, n, S) == {r \in S : containers[r].node = n}

Charges(ledger, containers, S) ==
    \A n \in Nodes :
        /\ ledger[n].replicas = On(containers, n, S)
        /\ ledger[n].cpu = NoRequest.cpu * Cardinality(On(containers, n, S))
        /\ ledger[n].memory =
             NoRequest.memory * Cardinality(On(containers, n, S))

\* A product of numbers is a number, and one less is one term less.
LEMMA Times ==
    ASSUME NEW q \in Nat, NEW n \in Nat
    PROVE  q * (n + 1) = q * n + q /\ q * n \in Nat
OBVIOUS

\* One more and one less.
LEMMA LessUndoes ==
    ASSUME NEW n \in Nat, NEW q \in Nat
    PROVE  Less(n + q, q) = n
BY DEF Less

\* allocate charges the node of a replica for it, once.
LEMMA AllocateCharges ==
    ASSUME NEW replicas, NEW ledger \in LedgerType(replicas), NEW containers,
           NEW S, IsFiniteSet(S), NEW r, containers[r].node \in Nodes,
           Charges(ledger, containers, S)
    PROVE  Charges(Allocate(ledger, containers[r].node, r, NoRequest),
                   containers, S \cup {r})
<1> DEFINE home == containers[r].node
           charged == Allocate(ledger, home, r, NoRequest)
           on(n) == On(containers, n, S)
<1>1. CASE r \in S
  <2>1. r \in ledger[home].replicas
    BY <1>1 DEF Charges, On
  <2>2. /\ Allocate(ledger, containers[r].node, r, NoRequest) = ledger
        /\ S \cup {r} = S
    BY <1>1, <2>1 DEF Allocate
  <2> QED BY <2>2
<1>2. CASE r \notin S
  <2>1. /\ r \notin ledger[home].replicas
        /\ NoRequest.cpu \in Nat /\ NoRequest.memory \in Nat
    BY <1>2, Typical DEF Charges, On
  <2>2. /\ charged[home] = [cpu |-> ledger[home].cpu + NoRequest.cpu,
                            memory |-> ledger[home].memory + NoRequest.memory,
                            replicas |-> ledger[home].replicas \cup {r}]
        /\ \A n \in Nodes \ {home} : charged[n] = ledger[n]
    BY <2>1 DEF Allocate, LedgerType
  <2> HIDE DEF charged
  <2>3. ASSUME NEW n \in Nodes \ {home}
        PROVE  On(containers, n, S \cup {r}) = on(n)
    BY DEF On
  <2>4. On(containers, home, S \cup {r}) = on(home) \cup {r}
    BY DEF On
  <2>5. /\ Cardinality(on(home)) \in Nat
        /\ Cardinality(on(home) \cup {r}) = Cardinality(on(home)) + 1
    <3>1. on(home) \subseteq S /\ r \notin on(home)
      BY <1>2 DEF On
    <3>2. IsFiniteSet(on(home))
      BY <3>1, FS_Subset
    <3> QED BY <3>1, <3>2, FS_AddElement, FS_CardinalityType
  <2>6. /\ ledger[home].replicas = on(home)
        /\ ledger[home].cpu = NoRequest.cpu * Cardinality(on(home))
        /\ ledger[home].memory = NoRequest.memory * Cardinality(on(home))
    BY DEF Charges
  <2>7. /\ charged[home].replicas = on(home) \cup {r}
        /\ charged[home].cpu = NoRequest.cpu * Cardinality(on(home) \cup {r})
        /\ charged[home].memory =
             NoRequest.memory * Cardinality(on(home) \cup {r})
    <3> HIDE DEF on
    <3> QED BY <2>1, <2>2, <2>5, <2>6, Times
  <2>8. \A n \in Nodes \ {home} :
          /\ charged[n].replicas = on(n)
          /\ charged[n].cpu = NoRequest.cpu * Cardinality(on(n))
          /\ charged[n].memory = NoRequest.memory * Cardinality(on(n))
    BY <2>2 DEF Charges
  <2> HIDE DEF on, home
  <2>9. Charges(charged, containers, S \cup {r})
    BY <2>3, <2>4, <2>7, <2>8 DEF Charges
  <2> QED BY <2>9 DEF charged, home
<1> QED BY <1>1, <1>2

\* deallocate gives back what its node was charged for a replica.
LEMMA DeallocateCharges ==
    ASSUME NEW replicas, NEW ledger \in LedgerType(replicas), NEW containers,
           NEW S, IsFiniteSet(S), NEW r \in S, containers[r].node \in Nodes,
           Charges(ledger, containers, S)
    PROVE  Charges(Deallocate(ledger, containers[r].node, r, NoRequest),
                   containers, S \ {r})
<1> DEFINE home == containers[r].node
           freed == Deallocate(ledger, home, r, NoRequest)
           on(n) == On(containers, n, S)
           rest == Cardinality(on(home) \ {r})
<1>1. NoRequest.cpu \in Nat /\ NoRequest.memory \in Nat
  BY Typical
<1>2. /\ freed[home] = [cpu |-> Less(ledger[home].cpu, NoRequest.cpu),
                        memory |-> Less(ledger[home].memory, NoRequest.memory),
                        replicas |-> ledger[home].replicas \ {r}]
      /\ \A n \in Nodes \ {home} : freed[n] = ledger[n]
  BY DEF Deallocate, LedgerType
<1> HIDE DEF freed
<1>3. ASSUME NEW n \in Nodes \ {home}
      PROVE  On(containers, n, S \ {r}) = on(n)
  BY DEF On
<1>4. On(containers, home, S \ {r}) = on(home) \ {r}
  BY DEF On
<1>5. rest \in Nat /\ Cardinality(on(home)) = rest + 1
  <2>1. on(home) \subseteq S /\ r \in on(home)
    BY DEF On
  <2>2. IsFiniteSet(on(home)) /\ IsFiniteSet(on(home) \ {r})
    BY <2>1, FS_Subset
  <2>3. Cardinality(on(home)) \in Nat /\ rest \in Nat
    BY <2>2, FS_CardinalityType
  <2>4. rest = Cardinality(on(home)) - 1
    BY <2>1, <2>2, FS_RemoveElement
  <2> HIDE DEF rest, on
  <2> QED BY <2>3, <2>4
<1>6. /\ ledger[home].replicas = on(home)
      /\ ledger[home].cpu = NoRequest.cpu * Cardinality(on(home))
      /\ ledger[home].memory = NoRequest.memory * Cardinality(on(home))
  BY DEF Charges
<1>7. ASSUME NEW q \in Nat
      PROVE  Less(q * (rest + 1), q) = q * rest
  <2>1. q * (rest + 1) = q * rest + q /\ q * rest \in Nat
    BY <1>5, <1>7, Times
  <2> DEFINE n == q * rest
  <2>2. Less(n + q, q) = n
    BY <2>1, <1>7, LessUndoes
  <2> QED BY <2>1, <2>2
<1>8. /\ freed[home].replicas = on(home) \ {r}
      /\ freed[home].cpu = NoRequest.cpu * rest
      /\ freed[home].memory = NoRequest.memory * rest
  <2> HIDE DEF on, rest, home
  <2>1. /\ Less(NoRequest.cpu * (rest + 1), NoRequest.cpu) = NoRequest.cpu * rest
        /\ Less(NoRequest.memory * (rest + 1), NoRequest.memory)
             = NoRequest.memory * rest
    BY <1>1, <1>7
  <2>2. /\ Less(ledger[home].cpu, NoRequest.cpu) = NoRequest.cpu * rest
        /\ Less(ledger[home].memory, NoRequest.memory) = NoRequest.memory * rest
        /\ ledger[home].replicas = on(home)
    BY <1>5, <1>6, <2>1
  <2> QED BY <1>2, <2>2
<1>9. \A n \in Nodes \ {home} :
        /\ freed[n].replicas = on(n)
        /\ freed[n].cpu = NoRequest.cpu * Cardinality(on(n))
        /\ freed[n].memory = NoRequest.memory * Cardinality(on(n))
  BY <1>2 DEF Charges
<1> HIDE DEF on, home
<1>10. Charges(freed, containers, S \ {r})
  BY <1>3, <1>4, <1>8, <1>9 DEF Charges, rest
<1> QED BY <1>10 DEF freed, home

\* Containers that have been created stay where they are.
LEMMA ChargesStay ==
    ASSUME NEW ledger, NEW containers, NEW later, NEW S,
           \A r \in S : later[r] = containers[r],
           Charges(ledger, containers, S)
    PROVE  Charges(ledger, later, S)
<1>1. \A n \in Nodes : On(later, n, S) = On(containers, n, S)
  BY DEF On
<1> QED BY <1>1 DEF Charges

\* What is still to be removed once the replica at hand is out of the row.
Left ==
    IF pc[Reconcile] = "rm_route"
    THEN job[Reconcile].todo \ {NextReplica(Reconcile)}
    ELSE job[Reconcile].todo

Balanced ==
    /\ pc[Reconcile] \in {"refresh", "ref_put"} =>
          /\ Charges(nodes, made, pass.service.replicas)
          /\ job[Reconcile].todo \subseteq pass.service.replicas
    /\ pc[Reconcile] \in {"rm_read", "rm_put"} =>
          Charges(nodes, made, Recorded \ {NextReplica(Reconcile)})
    /\ pc[Reconcile] = "cr_put" =>
          Charges(nodes, made, Recorded \cup {pass.fresh})
    /\ pc[Reconcile] \notin {"refresh", "ref_put", "rm_read", "rm_put",
                             "cr_put"} =>
          Charges(nodes, made, Recorded)
    /\ pc[Reconcile] = "refresh" =>
          job[Reconcile].current.replicas = Recorded
    /\ pc[Reconcile] = "ref_route" => pass.service.replicas = Recorded
    /\ pc[Reconcile] \in Removing => Left \subseteq Recorded
    /\ TearingDown => Recorded \subseteq Left
    /\ pc[Reconcile] = "td_delete" => Recorded = {}

BalancedInv == Undisturbed /\ ~overwrote => Balanced

\* There is nothing to charge for in the initial states.
LEMMA BalancedInit == Init => BalancedInv
<1> SUFFICES ASSUME Init PROVE Balanced
  BY DEF BalancedInv
<1>1. pc[Reconcile] = "starting" /\ Recorded = {} /\ nodes = FreshNodes
  BY Typical DEF Init, InitOrchestrator, Recorded
<1>2. \A n \in Nodes : On(made, n, {}) = {}
  BY DEF On
<1>3. NoRequest.cpu * 0 = 0 /\ NoRequest.memory * 0 = 0
  <2>1. NoRequest.cpu \in Nat /\ NoRequest.memory \in Nat
    BY Typical
  <2> QED BY <2>1
<1>4. \A n \in Nodes : nodes[n] = [cpu |-> 0, memory |-> 0, replicas |-> {}]
  BY <1>1 DEF FreshNodes
<1>5. Cardinality({}) = 0
  BY FS_EmptySet
<1>6. Charges(nodes, made, {})
  BY <1>2, <1>3, <1>4, <1>5 DEF Charges
<1> QED BY <1>1, <1>6 DEF Balanced, TearingDown, Removing

\* What the accounts are about.
LEMMA Accountable ==
    ASSUME TypeOK, \A p, q \in Requests : p = q
    PROVE  /\ nodes \in LedgerType(Created)
           /\ \A r \in Created : made[r].node \in Nodes
           /\ \A S : S \subseteq Created => IsFiniteSet(S)
           /\ Recorded \subseteq Created
           /\ pass.service # NoService =>
                 /\ pass.service.request = NoRequest
                 /\ pass.service.replicas \subseteq Created
           /\ job[Reconcile].request = NoRequest
<1>1. pass.service # NoService => pass.service \in ServiceOf(Created)
  BY RowIsService, PassFields
<1>2. pass.service # NoService => /\ pass.service.request \in Requests
                                  /\ pass.service.replicas \subseteq Created
  BY <1>1 DEF ServiceOf
<1>3. job[Reconcile].request \in Requests
  BY Typical, JobFields
<1>4. nodes \in LedgerType(Created)
  BY DEF TypeOK
<1> QED BY <1>2, <1>3, <1>4, Typical, MadeType, CreatedIsFinite,
           RecordedIsCreated

\* One replica is charged again, or paid back when its container is gone.
LEMMA ObservationBalanced ==
    ASSUME TypeInv, Balanced, \A p, q \in Requests : p = q, ObserveReplica
    PROVE  Balanced'
<1> DEFINE r == NextReplica(Reconcile)
           S == pass.service.replicas
<1>1. /\ pc[Reconcile] = "refresh"
      /\ pc'[Reconcile] \in {"refresh", "ref_route", "ref_put"}
      /\ job'[Reconcile].current = job[Reconcile].current
      /\ job'[Reconcile].todo = job[Reconcile].todo \ {r}
      /\ pass.service \in ServiceOf(Created)
      /\ row' = row /\ made' = made
  BY ObservesReplica
<1>2. r \in S /\ S \subseteq Created /\ Charges(nodes, made, S)
      /\ job[Reconcile].todo \subseteq S
  BY <1>1, ObservesReplica DEF Balanced, ServiceOf
<1>3. pass.service.request = NoRequest
  BY <1>1, Accountable, RowIsService, NoServiceAssumption DEF TypeInv, MaybeService
<1>4. pc'[Reconcile] = "ref_route" => pass'.service = job[Reconcile].current
  BY ObservesReplica
<1>5. Recorded' = Recorded /\ job[Reconcile].current.replicas = Recorded
  BY <1>1 DEF Recorded, Balanced
<1>6. /\ Charges(nodes', made, pass'.service.replicas)
      /\ job'[Reconcile].todo \subseteq pass'.service.replicas
  <2>1. CASE Running(r)
    <3>1. /\ nodes' = Allocate(nodes, made[r].node, r, NoRequest)
          /\ pass'.service = WithReplica(pass.service, r, TRUE)
      BY <1>3, <2>1, ObservesReplica
    <3>2. pass'.service.replicas = S \cup {r}
      BY <1>1, <3>1 DEF WithReplica, ServiceOf
    <3>3. Charges(nodes', made, S \cup {r})
      <4> HIDE DEF r, S
      <4> QED BY <1>2, <3>1, Accountable, AllocateCharges DEF TypeInv
    <3> QED BY <1>1, <1>2, <3>2, <3>3
  <2>2. CASE ~Running(r)
    <3>1. /\ nodes' = Deallocate(nodes, made[r].node, r, NoRequest)
          /\ pass'.service = WithoutReplica(pass.service, r)
      BY <1>3, <2>2, ObservesReplica
    <3>2. pass'.service.replicas = S \ {r}
      BY <1>1, <3>1 DEF WithoutReplica, ServiceOf
    <3>3. Charges(nodes', made, S \ {r})
      <4> HIDE DEF r, S
      <4> QED BY <1>2, <3>1, Accountable, DeallocateCharges DEF TypeInv
    <3> QED BY <1>1, <1>2, <3>2, <3>3
  <2> QED BY <2>1, <2>2
<1> QED BY <1>1, <1>4, <1>5, <1>6 DEF Balanced, TearingDown, Removing

\* A new container is charged before the row has it.
LEMMA CreationBalanced ==
    ASSUME TypeInv, Routed, Balanced, \A p, q \in Requests : p = q,
           \/ SkipReplica \/ CreateContainer \/ AllocateReplica
           \/ PutReplica \/ RouteReplica,
           ~overwrote'
    PROVE  Balanced'
<1>0. TypeOK
  BY DEF TypeInv
<1>1. row' = row => Recorded' = Recorded
  BY DEF Recorded
<1>2. CASE SkipReplica
  BY <1>0, <1>1, <1>2, SkipsReplica DEF Balanced, TearingDown, Removing
<1>3. CASE CreateContainer
  <2>1. /\ pc[Reconcile] = "create" /\ pc'[Reconcile] = "cr_read"
        /\ Recorded' = Recorded /\ nodes' = nodes
        /\ \A r \in Created : made'[r] = made[r]
    BY <1>0, <1>1, <1>3, CreatesContainer
  <2>2. Charges(nodes, made', Recorded)
    BY <1>0, <2>1, ChargesStay, RecordedIsCreated DEF Balanced
  <2> QED BY <2>1, <2>2 DEF Balanced, TearingDown, Removing
<1>4. CASE AllocateReplica
  <2>1. pc[Reconcile] = "cr_read" /\ row # NoService
    BY <1>4 DEF AllocateReplica, Routed
  <2>2. /\ pc'[Reconcile] = "cr_put" /\ pass' = pass
        /\ Recorded' = Recorded /\ made' = made
        /\ nodes' = Allocate(nodes, made[pass.fresh].node, pass.fresh,
                             pass.service.request)
    BY <1>0, <1>1, <1>4, <2>1, AllocatesReplica
  <2>3. pass.fresh \in Created /\ pass.service # NoService
    BY <1>0, <2>1, PassFields, OrchestratorAssumption
       DEF TypeInv, TypeOK, Prepared, HoldsPass, Created
  <2>4. Charges(nodes', made, Recorded \cup {pass.fresh})
    BY <1>0, <2>1, <2>2, <2>3, Accountable, AllocateCharges DEF Balanced
  <2> QED BY <2>2, <2>4 DEF Balanced, TearingDown, Removing
<1>5. CASE PutReplica
  <2>1. /\ pc[Reconcile] = "cr_put" /\ pc'[Reconcile] = "cr_route"
        /\ nodes' = nodes /\ made' = made
        /\ Recorded' = Recorded \cup {pass.fresh}
    BY <1>5, PutsReplica DEF Recorded
  <2> QED BY <2>1 DEF Balanced, TearingDown, Removing
<1>6. CASE RouteReplica
  BY <1>0, <1>1, <1>6, RoutesReplica DEF Balanced, TearingDown, Removing
<1> QED BY <1>2, <1>3, <1>4, <1>5, <1>6

\* A replica to remove is paid back before the row loses it.
LEMMA RemovalBalanced ==
    ASSUME TypeInv, Routed, Balanced, \A p, q \in Requests : p = q,
           RemoveReplica(Reconcile), ~overwrote'
    PROVE  Balanced'
<1> DEFINE r == NextReplica(Reconcile)
           todo == job[Reconcile].todo
<1>0. TypeOK /\ job[Reconcile].after \in AfterRemoval
  BY Typical, JobFields DEF TypeInv
<1>1. row' = row => Recorded' = Recorded
  BY DEF Recorded
<1>2. CASE StopReplica(Reconcile)
  <2>1. /\ pc[Reconcile] = "rm_stop" /\ pc'[Reconcile] = "rm_read"
        /\ r \in todo /\ NextReplica(Reconcile)' = r
        /\ job' = job /\ Recorded' = Recorded /\ made' = made
        /\ nodes' = Deallocate(nodes, made[r].node, r, job[Reconcile].request)
    BY <1>1, <1>2, StopsReplica
  <2>2. todo \subseteq Recorded /\ Charges(nodes, made, Recorded)
    BY <2>1 DEF Balanced, Left, Removing
  <2>3. Left' = todo /\ Left = todo
    BY <2>1 DEF Left
  <2> HIDE DEF r, todo
  <2>4. Charges(nodes', made, Recorded \ {r})
    BY <1>0, <2>1, <2>2, Accountable, DeallocateCharges
  <2> QED BY <2>1, <2>2, <2>3, <2>4 DEF Balanced, TearingDown, Removing
<1>3. CASE ReadForRemoval(Reconcile)
  <2>1. row # NoService
    BY <1>3 DEF ReadForRemoval, NextRemoval, Goto, Routed
  <2>2. /\ pc[Reconcile] = "rm_read" /\ pc'[Reconcile] = "rm_put"
        /\ NextReplica(Reconcile)' = r
        /\ job'[Reconcile].todo = todo
        /\ job'[Reconcile].after = job[Reconcile].after
        /\ Recorded' = Recorded /\ nodes' = nodes /\ made' = made
    BY <1>1, <1>3, <2>1, ReadsForRemoval
  <2>3. Left' = todo /\ Left = todo
    BY <2>2 DEF Left
  <2> HIDE DEF todo
  <2> QED BY <2>2, <2>3 DEF Balanced, TearingDown, Removing
<1>4. CASE PutRemoval(Reconcile)
  <2>1. /\ pc[Reconcile] = "rm_put" /\ pc'[Reconcile] = "rm_route"
        /\ NextReplica(Reconcile)' = r
        /\ Recorded' = Recorded \ {r}
        /\ job'[Reconcile].todo = todo
        /\ job'[Reconcile].after = job[Reconcile].after
        /\ nodes' = nodes /\ made' = made
    BY <1>4, Typical, PutsRemoval DEF Recorded
  <2>2. Left' = todo \ {r} /\ Left = todo
    BY <2>1 DEF Left
  <2> HIDE DEF todo, r
  <2> QED BY <2>1, <2>2 DEF Balanced, TearingDown, Removing, r
<1>5. CASE RouteRemoval(Reconcile)
  <2> DEFINE rest == todo \ {r}
  <2>1. /\ pc[Reconcile] = "rm_route"
        /\ \/ pc'[Reconcile] = "rm_stop"
           \/ pc'[Reconcile] = job[Reconcile].after /\ rest = {}
        /\ job'[Reconcile].todo = rest
        /\ job'[Reconcile].after = job[Reconcile].after
        /\ Recorded' = Recorded /\ nodes' = nodes /\ made' = made
    BY <1>0, <1>1, <1>5, RoutesRemoval
  <2>2. Left = rest
    BY <2>1 DEF Left
  <2> HIDE DEF rest
  <2>3. pc'[Reconcile] # "rm_route" /\ Left' = rest
    BY <1>0, <2>1 DEF Left, AfterRemoval
  <2> QED BY <1>0, <2>1, <2>2, <2>3 DEF Balanced, TearingDown, Removing, AfterRemoval
<1> QED BY <1>2, <1>3, <1>4, <1>5 DEF RemoveReplica

\* The pass keeps the ledger in step with the row.
LEMMA BalancedPass ==
    ASSUME TypeInv, Routed, Balanced, \A p, q \in Requests : p = q,
           ReconcilePass, ~overwrote'
    PROVE  Balanced'
<1>0. TypeOK
  BY DEF TypeInv
<1>1. row' = row => Recorded' = Recorded
  BY DEF Recorded
<1>2. CASE ListServices /\ row = NoService
  <2>1. UNCHANGED orchVars
    BY <1>2 DEF ListServices
  <2> QED BY <2>1 DEF orchVars, Balanced, Recorded, TearingDown, Left, NextReplica
<1>3. CASE ListServices /\ row # NoService
  <2>1. Recorded = row.replicas /\ Recorded' = Recorded
    BY <1>0, <1>1, <1>3, ListsService DEF Recorded
  <2>2. pc'[Reconcile] # "rm_route" => Left' = job'[Reconcile].todo
    BY DEF Left
  <2> QED BY <1>0, <1>3, <2>1, <2>2, ListsService
          DEF Balanced, TearingDown, Removing
<1>4. CASE PutObserved
  <2>1. Recorded' = pass.service.replicas /\ pass' = pass
    BY <1>4, PutsObserved DEF Recorded
  <2> QED BY <1>4, <2>1, PutsObserved DEF Balanced, TearingDown, Removing
<1>5. CASE RouteObserved
  <2>1. Left' = job'[Reconcile].todo
    BY <1>0, <1>5, RoutesObserved DEF Left
  <2> QED BY <1>0, <1>1, <1>5, <2>1, RoutesObserved
          DEF Balanced, TearingDown, Removing
<1>6. CASE ReadAgain
  <2>1. row # NoService /\ Recorded = row.replicas
    BY <1>6 DEF ReadAgain, Scale, Goto, Routed, Recorded
  <2>2. Left' = job'[Reconcile].todo
    BY <1>0, <1>6, <2>1, ReadsAgain DEF Left
  <2> QED BY <1>0, <1>1, <1>6, <2>1, <2>2, ReadsAgain
          DEF Balanced, TearingDown, Removing
<1>7. CASE ReadStatus
  BY <1>0, <1>1, <1>7, ReadsStatus DEF Balanced, TearingDown, Removing
<1>8. CASE PutStatus
  <2>1. Recorded' = Recorded
    BY <1>8, PutsStatus DEF Recorded
  <2> QED BY <1>8, <2>1, PutsStatus DEF Balanced, TearingDown, Removing
<1>9. CASE DeleteRow \/ RemoveRoute
  <2>1. DeleteRow => Recorded = {} /\ Recorded' = {}
    BY <1>0, EndsTeardown DEF Balanced, Recorded
  <2> QED BY <1>0, <1>1, <1>9, <2>1, EndsTeardown
          DEF Balanced, TearingDown, Removing
<1> QED BY <1>2, <1>3, <1>4, <1>5, <1>6, <1>7, <1>8, <1>9, ObservationBalanced,
           CreationBalanced, RemovalBalanced DEF ReconcilePass

\* So does the rest of the platform.
THEOREM BalancedStep ==
    ASSUME "destroy" \notin Ops, \A p, q \in Requests : p = q
    PROVE  /\ TypeInv /\ Quiet /\ AloneInv /\ RoutedInv /\ BalancedInv
           /\ [Next]_vars
           => BalancedInv'
<1> SUFFICES ASSUME TypeInv, Quiet, AloneInv, RoutedInv, BalancedInv, [Next]_vars,
                    Undisturbed', ~overwrote'
             PROVE  Balanced'
  BY DEF BalancedInv
<1> DEFINE Same == pc' = pc /\ job' = job /\ pass' = pass /\ nodes' = nodes
                   /\ made' = made /\ Recorded' = Recorded
<1>1. ASSUME Balanced, Same
      PROVE  Balanced'
  BY <1>1 DEF Balanced, TearingDown, Left, NextReplica
<1>2. CASE UNCHANGED vars
  <2>1. Same /\ Undisturbed /\ ~overwrote
    BY <1>2 DEF vars, Undisturbed, Recorded
  <2> QED BY <1>1, <2>1 DEF BalancedInv
<1>3. CASE Next
  <2>1. Balanced /\ Routed
    BY <1>3, AloneStep, OverwroteStays DEF BalancedInv, RoutedInv
  <2>2. CASE ReconcilePass
    BY <2>1, <2>2, BalancedPass
  <2>3. CASE Start
    <3>1. Recorded' = Recorded
      BY <2>3, Starts DEF TypeInv, Recorded
    <3> QED BY <2>1, <2>3, <3>1, Starts
            DEF TypeInv, Balanced, TearingDown, Removing
  <2>4. CASE UNCHANGED <<row, routing, nodes, made, pc, job, pass>>
    BY <1>1, <2>1, <2>4 DEF Recorded
  <2>5. ASSUME NEW c \in Clients, Respond(c),
               UNCHANGED <<routing, nodes, made, pc, job, pass>>
        PROVE  Balanced'
    BY <1>1, <2>1, <2>5, Responds DEF Recorded
  <2> QED BY <1>3, <2>2, <2>3, <2>4, <2>5, AloneStep
<1> QED BY <1>2, <1>3

\* The ledger the scheduler places by says what the rows say whenever the pass
\* rests, whatever clients write, whichever containers die and whatever Docker
\* refuses, as long as all requests are of one size, services are deleted
\* through the API and no stale row has been written.
THEOREM LedgerFollowsRow ==
    ASSUME "destroy" \notin Ops, \A p, q \in Requests : p = q
    PROVE  Spec => []SteadyLedger
<1> DEFINE Inv == TypeInv /\ Quiet /\ AloneInv /\ RoutedInv /\ BalancedInv
<1>1. Init => Inv
  BY TypeInit, RoutedInit, BalancedInit
<1>2. Inv /\ [Next]_vars => Inv'
  BY TypeStep, RoutedStep, BalancedStep
<1>3. Inv => SteadyLedger
  <2> SUFFICES ASSUME Inv, Undisturbed, AtRest, ~overwrote, NEW n \in Nodes
               PROVE  /\ nodes[n].replicas = {r \in Recorded : made[r].node = n}
                      /\ \E request \in Requests :
                            /\ nodes[n].cpu =
                                 request.cpu * Cardinality(nodes[n].replicas)
                            /\ nodes[n].memory =
                                 request.memory * Cardinality(nodes[n].replicas)
    BY DEF SteadyLedger, LedgerMatchesRow
  <2>1. Charges(nodes, made, Recorded)
    BY DEF BalancedInv, Balanced, AtRest
  <2> QED BY <2>1, Typical DEF Charges, On
<1> QED BY <1>1, <1>2, <1>3, PTL DEF Spec

-----------------------------------------------------------------------------
(* Rollouts.  As long as clients only create, scale and roll out, the row  *)
(* of a service stays, and what the writers add to it adds up.             *)

\* Where a rollout has written its image, and where it has raised the count.
Switched ==
    {"surge_read", "surge_put", "wait", "shrink_read", "shrink_put",
     "complete", "final_read", "final_put"} \cup Removing

Raised == {"wait", "shrink_read", "shrink_put"}

\* Requests in progress are among those clients make ...
Offered ==
    \A c \in Clients : \/ api[c].op \in Ops \cup {"none"}
                       \/ api[c].op = "scale_put" /\ "scale" \in Ops

\* ... and tasks are those of rollouts that have been asked for.
Named ==
    \A d \in Rollouts :
        /\ pc[d] # "off" \/ d \in pending => rollout[d].status # "absent"
        /\ rollout[d].status # "absent" => rollout[d].image \in NewImages

\* Nobody deletes the service, and the pass writes back the rest of the row as
\* it read it.
Stands ==
    /\ row # NoService => row.status # "deleting"
    /\ \A d \in Rollouts : rollout[d].status # "absent" => row # NoService
    /\ ~TearingDown
    /\ pc[Reconcile] \in {"refresh", "ref_put"} =>
          /\ pass.service.image = job[Reconcile].current.image
          /\ pass.service.desired = job[Reconcile].current.desired
          /\ pass.service.status = job[Reconcile].current.status

StandsInv == Quiet /\ Offered /\ Named /\ (~overwrote => Stands)

\* A pass changes the replicas and the status of the row only.
LEMMA PassWrites ==
    ASSUME TypeInv, Stands, ReconcilePass, ~overwrote'
    PROVE  /\ Stands'
           /\ row' = NoService <=> row = NoService
           /\ row # NoService => /\ row'.image = row.image
                                 /\ row'.desired = row.desired
<1> DEFINE Safe == /\ row' = NoService <=> row = NoService
                   /\ row # NoService =>
                         /\ row'.image = row.image
                         /\ row'.desired = row.desired
                         /\ row'.status # "deleting"
<1>0. TypeOK /\ rollout' = rollout
  BY PassLeaves DEF TypeInv
<1>1. ASSUME Safe, ~TearingDown', pc'[Reconcile] \notin {"refresh", "ref_put"}
      PROVE  Stands' /\ Safe
  BY <1>0, <1>1 DEF Stands
<1>2. row' = row => Safe
  BY DEF Stands
<1>3. CASE ListServices /\ row = NoService
  <2>1. UNCHANGED orchVars
    BY <1>3 DEF ListServices
  <2> QED BY <1>2, <1>3, <2>1 DEF orchVars, Stands, TearingDown
<1>4. CASE ListServices /\ row # NoService
  <2>1. row.status # "deleting"
    BY <1>4 DEF Stands
  <2> QED BY <1>0, <1>2, <1>4, <2>1, ListsService
          DEF Stands, TearingDown, Removing
<1>5. CASE ObserveReplica
  <2>1. /\ pc[Reconcile] = "refresh"
        /\ pc'[Reconcile] \in {"refresh", "ref_put", "ref_route"}
        /\ job'[Reconcile].current = job[Reconcile].current
        /\ pass.service \in ServiceOf(Created)
        /\ row' = row
    BY <1>5, ObservesReplica
  <2>2. /\ pass'.service.image = pass.service.image
        /\ pass'.service.desired = pass.service.desired
        /\ pass'.service.status = pass.service.status
    <3> DEFINE r == NextReplica(Reconcile)
    <3>1. \/ pass'.service = WithReplica(pass.service, r, TRUE)
          \/ pass'.service = WithoutReplica(pass.service, r)
      BY <1>5, ObservesReplica
    <3> HIDE DEF r
    <3> QED BY <2>1, <3>1 DEF WithReplica, WithoutReplica, ServiceOf
  <2> QED BY <1>0, <1>2, <2>1, <2>2 DEF Stands, TearingDown, Removing
<1>6. CASE PutObserved
  <2>1. Safe
    BY <1>6, PutsObserved DEF Stands
  <2> QED BY <1>1, <1>6, <2>1, PutsObserved DEF TearingDown, Removing
<1>7. CASE RouteObserved
  BY <1>0, <1>1, <1>2, <1>7, RoutesObserved DEF TearingDown, Removing
<1>8. CASE ReadAgain
  <2>1. PICK service : Scale("reread", service, pass.want)
    BY <1>8 DEF ReadAgain
  <2>2. row' = row
    BY <1>8 DEF ReadAgain, storeVars
  <2> QED BY <1>0, <1>1, <1>2, <2>1, <2>2, Scales DEF TearingDown, Removing
<1>9. CASE SkipReplica
  BY <1>0, <1>1, <1>2, <1>9, SkipsReplica DEF TearingDown, Removing
<1>10. CASE CreateContainer
  BY <1>0, <1>1, <1>2, <1>10, CreatesContainer DEF TearingDown, Removing
<1>11. CASE AllocateReplica
  <2>1. pc'[Reconcile] \in {"cr_put", "create", "observe"} /\ row' = row
    BY <1>0, <1>11, Typical DEF AllocateReplica, NextCreation, Goto, TypeOK, storeVars
  <2> QED BY <1>1, <1>2, <2>1 DEF TearingDown, Removing
<1>12. CASE PutReplica
  <2>1. Safe
    BY <1>12, PutsReplica DEF Stands
  <2> QED BY <1>1, <1>12, <2>1, PutsReplica DEF TearingDown, Removing
<1>13. CASE RouteReplica
  BY <1>0, <1>1, <1>2, <1>13, RoutesReplica DEF TearingDown, Removing
<1>14. CASE ReadStatus
  BY <1>0, <1>1, <1>2, <1>14, ReadsStatus DEF TearingDown, Removing
<1>15. CASE PutStatus
  <2>1. Safe
    BY <1>15, PutsStatus
  <2> QED BY <1>1, <1>15, <2>1, PutsStatus DEF TearingDown, Removing
<1>16. CASE DeleteRow
  BY <1>0, <1>16, EndsTeardown DEF Stands, TearingDown
<1>17. CASE RemoveRoute
  BY <1>0, <1>1, <1>2, <1>17, EndsTeardown DEF TearingDown, Removing
<1>18. CASE RemoveReplica(Reconcile)
  <2>0. job[Reconcile].after \in AfterRemoval /\ pc[Reconcile] \in Removing
    BY <1>0, <1>18, Typical, JobFields, RemovalLabels
  <2>1. job[Reconcile].after # "td_delete"
    BY <2>0 DEF Stands, TearingDown
  <2>2. CASE StopReplica(Reconcile)
    BY <1>1, <1>2, <2>1, <2>2, StopsReplica DEF TearingDown
  <2>3. CASE ReadForRemoval(Reconcile) /\ row # NoService
    BY <1>1, <1>2, <2>1, <2>3, ReadsForRemoval DEF TearingDown
  <2>4. CASE ReadForRemoval(Reconcile) /\ row = NoService
    <3> DEFINE rest == job[Reconcile].todo \ {NextReplica(Reconcile)}
               next == RemovalLabel(rest, job[Reconcile].after)
    <3>1. /\ pc' = [pc EXCEPT ![Reconcile] = next]
          /\ job' = [job EXCEPT ![Reconcile].todo = rest]
          /\ row' = row
      BY <2>4 DEF ReadForRemoval, NextRemoval, Goto, storeVars
    <3>2. next \in {"rm_stop", job[Reconcile].after}
      BY DEF RemovalLabel
    <3> HIDE DEF next, rest
    <3>3. pc'[Reconcile] = next
          /\ job'[Reconcile].after = job[Reconcile].after
      BY <1>0, <3>1, Typical DEF TypeOK, Job
    <3> QED BY <1>1, <1>2, <2>0, <2>1, <3>1, <3>2, <3>3 DEF TearingDown, AfterRemoval
  <2>5. CASE PutRemoval(Reconcile)
    <3>1. Safe
      BY <2>5, Typical, PutsRemoval DEF Stands
    <3> QED BY <1>1, <2>1, <2>5, <3>1, Typical, PutsRemoval DEF TearingDown
  <2>6. CASE RouteRemoval(Reconcile)
    BY <1>0, <1>1, <1>2, <2>0, <2>1, <2>6, RoutesRemoval DEF TearingDown, AfterRemoval
  <2> QED BY <1>18, <2>2, <2>3, <2>4, <2>5, <2>6 DEF RemoveReplica
<1> QED BY <1>3, <1>4, <1>5, <1>6, <1>7, <1>8, <1>9, <1>10, <1>11, <1>12, <1>13,
           <1>14, <1>15, <1>16, <1>17, <1>18 DEF ReconcilePass

\* A rollout leaves the pass and the other rollouts alone.
LEMMA RolloutLeaves ==
    ASSUME TypeInv, NEW d \in Rollouts, RolloutTask(d)
    PROVE  /\ pc[d] # "off"
           /\ \A t \in Tasks \ {d} : pc'[t] = pc[t] /\ job'[t] = job[t]
           /\ pass' = pass /\ pending' = pending
           /\ \A e \in Rollouts \ {d} : /\ batches'[e] = batches[e]
                                        /\ rollout'[e] = rollout[e]
           /\ rollout'[d].image = rollout[d].image
           /\ rollout'[d].status \in {rollout[d].status, "updating", "running"}
<1> USE DEF Goto, storeVars, hostVars
<1>0. /\ d \in Tasks
      /\ pc \in [Tasks -> Labels] /\ job \in [Tasks -> Job]
      /\ batches \in [Rollouts -> Batches] /\ rollout \in [Rollouts -> Deployment]
  BY Typical DEF TypeInv, TypeOK
<1>1. pc[d] # "off"
  <2>1. CASE RemoveReplica(d)
    BY <1>0, <2>1, RemovalLabels DEF Removing
  <2>2. CASE ~RemoveReplica(d)
    BY <2>2
       DEF RolloutTask, BeginRollout, ReadForRollout, SwitchImage, SurgeRead,
           SurgePut, PollReplicas, ShrinkRead, ShrinkPut, CompleteRollout,
           FinalRead, FinalPut, ReadRow
  <2> QED BY <2>1, <2>2
<1>2. \A t \in Tasks \ {d} : pc'[t] = pc[t] /\ job'[t] = job[t]
  <2>1. \/ pc' = pc
        \/ \E to : pc' = [pc EXCEPT ![d] = to]
    <3>1. CASE RemoveReplica(d)
      BY <1>0, <3>1, RemovalLabels
    <3>2. CASE ~RemoveReplica(d)
      BY <3>2
         DEF RolloutTask, BeginRollout, ReadForRollout, SwitchImage, SurgeRead,
             SurgePut, PollReplicas, ShrinkRead, ShrinkPut, CompleteRollout,
             FinalRead, FinalPut, ReadRow
    <3> QED BY <3>1, <3>2
  <2>2. \A t \in Tasks \ {d} : job'[t] = job[t]
    <3>1. CASE RemoveReplica(d)
      BY <1>0, <3>1 DEF RemoveReplica, StopReplica, ReadForRemoval, NextRemoval,
                        PutRemoval, RouteRemoval
    <3>2. CASE ~RemoveReplica(d)
      BY <1>0, <3>2
         DEF RolloutTask, BeginRollout, ReadForRollout, SwitchImage, SurgeRead,
             SurgePut, PollReplicas, ShrinkRead, ShrinkPut, CompleteRollout,
             FinalRead, FinalPut, ReadRow
    <3> QED BY <3>1, <3>2
  <2> QED BY <1>0, <2>1, <2>2
<1>3. /\ pass' = pass /\ pending' = pending
      /\ \A e \in Rollouts \ {d} : batches'[e] = batches[e]
  <2>1. CASE RemoveReplica(d)
    BY <2>1 DEF RemoveReplica, StopReplica, ReadForRemoval, PutRemoval,
                RouteRemoval
  <2>2. CASE ~RemoveReplica(d)
    BY <1>0, <2>2
       DEF RolloutTask, BeginRollout, ReadForRollout, SwitchImage, SurgeRead,
           SurgePut, PollReplicas, ShrinkRead, ShrinkPut, CompleteRollout,
           FinalRead, FinalPut, ReadRow
  <2> QED BY <2>1, <2>2
<1>4. \/ rollout' = rollout
      \/ \E status \in {"updating", "running"} :
            rollout' = [rollout EXCEPT ![d].status = status]
  <2>1. CASE RemoveReplica(d)
    BY <2>1 DEF RemoveReplica, StopReplica, ReadForRemoval, PutRemoval,
                RouteRemoval
  <2>2. CASE ~RemoveReplica(d)
    BY <2>2
       DEF RolloutTask, BeginRollout, ReadForRollout, SwitchImage, SurgeRead,
           SurgePut, PollReplicas, ShrinkRead, ShrinkPut, CompleteRollout,
           FinalRead, FinalPut
  <2> QED BY <2>1, <2>2
<1>5. /\ \A e \in Rollouts \ {d} : rollout'[e] = rollout[e]
      /\ rollout'[d].image = rollout[d].image
      /\ rollout'[d].status \in {rollout[d].status, "updating", "running"}
  BY <1>0, <1>4 DEF Deployment
<1> QED BY <1>1, <1>2, <1>3, <1>5

\* What a rollout writes over the row it has read: its image once, and the
\* size of its batch, which it adds and takes away again.
LEMMA RolloutWrites ==
    ASSUME TypeInv, NEW d \in Rollouts, RolloutTask(d), ~overwrote',
           row # NoService
    PROVE  /\ row' # NoService
           /\ row'.status \in {row.status, "updating", "running"}
           /\ \/ /\ row'.image = row.image
                 /\ pc'[d] \in Switched => pc[d] \in Switched
                 /\ rollout'[d].status = "running" =>
                       rollout[d].status = "running" \/ pc[d] \in Switched
              \/ row'.image = rollout[d].image
           /\ \/ /\ row'.desired = row.desired
                 /\ pc[d] \notin Raised /\ pc'[d] \notin Raised
              \/ /\ row'.desired = row.desired
                 /\ pc[d] \in Raised /\ pc'[d] \in Raised
                 /\ batches'[d].batch = batches[d].batch
              \/ /\ row'.desired = row.desired + Cardinality(batches[d].batch)
                 /\ pc[d] \notin Raised /\ pc'[d] \in Raised
                 /\ batches'[d].batch = batches[d].batch
              \/ /\ row'.desired = row.desired - Cardinality(batches[d].batch)
                 /\ pc[d] \in Raised /\ pc'[d] \notin Raised
<1> USE DEF Goto, storeVars
<1>0. /\ d \in Tasks /\ TypeOK
      /\ pc \in [Tasks -> Labels] /\ job \in [Tasks -> Job]
      /\ batches \in [Rollouts -> Batches] /\ rollout \in [Rollouts -> Deployment]
  BY Typical DEF TypeInv, TypeOK
<1>1. ASSUME NEW written, Write(job[d].current, written), pc[d] \in HoldsRow,
             job[d].current \in ServiceOf(Created) =>
                written \in ServiceOf(Created)
      PROVE  /\ row = job[d].current /\ row \in ServiceOf(Created)
             /\ row' = written /\ row' # NoService
  <2>1. row = job[d].current /\ row' = written
    BY <1>1, WriteKept
  <2>2. row \in ServiceOf(Created)
    BY <1>0, <2>1, RowIsService, JobFields
  <2> QED BY <1>0, <1>1, <2>1, <2>2, RowIsService DEF MaybeService
<1>2. \A n \in {Cardinality(batches[d].batch)} : n \in Int
  BY <1>0, BatchFields, CreatedIsFinite
<1>3. CASE BeginRollout(d) \/ CompleteRollout(d)
  BY <1>0, <1>3 DEF BeginRollout, CompleteRollout, Deployment, Switched, Raised,
                    Removing
<1>4. CASE ReadForRollout(d) \/ SurgeRead(d) \/ FinalRead(d)
  BY <1>0, <1>4 DEF ReadForRollout, SurgeRead, FinalRead, ReadRow, Switched,
                    Raised, Removing
<1>5. CASE ShrinkRead(d)
  BY <1>0, <1>5 DEF ShrinkRead, ReadRow, Switched, Raised, Removing
<1>6. CASE PollReplicas(d)
  BY <1>0, <1>6 DEF PollReplicas, Switched, Raised, Removing, Batches
<1>7. CASE SwitchImage(d)
  <2> DEFINE written == [job[d].current EXCEPT !.image = rollout[d].image,
                                               !.status = "updating"]
  <2>1. /\ Write(job[d].current, written)
        /\ pc[d] = "switch" /\ pc' = [pc EXCEPT ![d] = BatchLabel(batches[d].old)]
    BY <1>7 DEF SwitchImage
  <2>2. BatchLabel(batches[d].old) \in {"complete", "surge_read"}
    BY DEF BatchLabel
  <2>3. rollout[d].image \in Images
    BY <1>0 DEF Deployment
  <2>4. job[d].current \in ServiceOf(Created) =>
           /\ written \in ServiceOf(Created)
           /\ written.image = rollout[d].image
           /\ written.desired = job[d].current.desired
           /\ written.status = "updating"
    BY <2>3 DEF ServiceOf, ServiceStatus
  <2> HIDE DEF written
  <2>5. row = job[d].current /\ row \in ServiceOf(Created) /\ row' = written
        /\ row' # NoService
    BY <1>1, <2>1, <2>4 DEF HoldsRow
  <2>6. pc'[d] \in {"complete", "surge_read"}
    BY <1>0, <2>1, <2>2
  <2> QED BY <2>1, <2>4, <2>5, <2>6 DEF Raised
<1>8. CASE SurgePut(d)
  <2> DEFINE n == Cardinality(batches[d].batch)
             written == [job[d].current EXCEPT !.desired = @ + n]
  <2>1. /\ Write(job[d].current, written)
        /\ pc[d] = "surge_put" /\ pc' = [pc EXCEPT ![d] = "wait"]
        /\ batches' = batches /\ rollout' = rollout
    BY <1>8 DEF SurgePut
  <2>2. n \in Int
    BY <1>2
  <2> HIDE DEF n
  <2>3. job[d].current \in ServiceOf(Created) =>
           /\ written \in ServiceOf(Created)
           /\ written.image = job[d].current.image
           /\ written.desired = job[d].current.desired + n
           /\ written.status = job[d].current.status
    BY <2>2 DEF ServiceOf
  <2> HIDE DEF written
  <2>4. row = job[d].current /\ row \in ServiceOf(Created) /\ row' = written
        /\ row' # NoService
    BY <1>1, <2>1, <2>3 DEF HoldsRow
  <2>5. pc'[d] = "wait"
    BY <1>0, <2>1
  <2> QED BY <2>1, <2>3, <2>4, <2>5 DEF Raised, Switched, n
<1>9. CASE ShrinkPut(d)
  <2> DEFINE n == Cardinality(batches[d].batch)
             written == [job[d].current EXCEPT !.desired = @ - n]
             next == RemovalLabel(batches[d].batch, BatchLabel(batches[d].old))
  <2>1. /\ Write(job[d].current, written)
        /\ pc[d] = "shrink_put" /\ pc' = [pc EXCEPT ![d] = next]
        /\ rollout' = rollout
    BY <1>9 DEF ShrinkPut
  <2>2. n \in Int /\ next \in {"rm_stop", "complete", "surge_read"}
    BY <1>2 DEF RemovalLabel, BatchLabel
  <2> HIDE DEF n, next
  <2>3. job[d].current \in ServiceOf(Created) =>
           /\ written \in ServiceOf(Created)
           /\ written.image = job[d].current.image
           /\ written.desired = job[d].current.desired - n
           /\ written.status = job[d].current.status
    BY <2>2 DEF ServiceOf
  <2> HIDE DEF written
  <2>4. row = job[d].current /\ row \in ServiceOf(Created) /\ row' = written
        /\ row' # NoService
    BY <1>1, <2>1, <2>3 DEF HoldsRow
  <2>5. pc'[d] \in {"rm_stop", "complete", "surge_read"}
    BY <1>0, <2>1, <2>2
  <2> QED BY <2>1, <2>3, <2>4, <2>5 DEF Raised, Switched, n
<1>10. CASE FinalPut(d)
  <2> DEFINE written == [job[d].current EXCEPT !.status = "running"]
  <2>1. /\ Write(job[d].current, written)
        /\ pc[d] = "final_put" /\ pc' = [pc EXCEPT ![d] = "off"]
        /\ rollout' = rollout
    BY <1>10 DEF FinalPut
  <2>2. job[d].current \in ServiceOf(Created) =>
           /\ written \in ServiceOf(Created)
           /\ written.image = job[d].current.image
           /\ written.desired = job[d].current.desired
           /\ written.status = "running"
    BY DEF ServiceOf, ServiceStatus
  <2> HIDE DEF written
  <2>3. row = job[d].current /\ row \in ServiceOf(Created) /\ row' = written
        /\ row' # NoService
    BY <1>1, <2>1, <2>2 DEF HoldsRow
  <2>4. pc'[d] = "off"
    BY <1>0, <2>1
  <2> QED BY <2>1, <2>2, <2>3, <2>4 DEF Raised, Switched, Removing
<1>11. CASE RemoveReplica(d)
  <2>1. /\ pc[d] \in Removing
        /\ pc'[d] \in AfterRemoval \cup Removing
    BY <1>0, <1>11, RemovalLabels
  <2>2. rollout' = rollout
    BY <1>11 DEF RemoveReplica, StopReplica, ReadForRemoval, PutRemoval,
                 RouteRemoval
  <2>3. /\ row' # NoService /\ row'.image = row.image
        /\ row'.desired = row.desired /\ row'.status = row.status
    <3>1. CASE PutRemoval(d)
      BY <1>0, <3>1, PutsRemoval
    <3>2. CASE ~PutRemoval(d)
      BY <1>11, <3>2 DEF RemoveReplica, StopReplica, ReadForRemoval, RouteRemoval
    <3> QED BY <3>1, <3>2
  <2> QED BY <2>1, <2>2, <2>3 DEF Raised, Switched, Removing, AfterRemoval
<1> QED BY <1>3, <1>4, <1>5, <1>6, <1>7, <1>8, <1>9, <1>10, <1>11 DEF RolloutTask

\* What the start of the process, the rollout loop and faults do to rollouts.
LEMMA ProcessLeaves ==
    ASSUME TypeInv, Start \/ RolloutLoop \/ FaultStep
    PROVE  /\ row' = row /\ rollout' = rollout
           /\ \A d \in Rollouts :
                 \/ pc'[d] \in {pc[d], "off"}
                 \/ pc'[d] = "begin" /\ pc[d] = "off"
                       /\ (rollout[d].status = "pending" \/ d \in pending)
           /\ \/ pending' \subseteq pending
              \/ \A d \in pending' : rollout[d].status = "pending"
           /\ \/ /\ pc'[Reconcile] = pc[Reconcile]
                 /\ job'[Reconcile] = job[Reconcile] /\ pass' = pass
              \/ pc'[Reconcile] \in {"orphans", "starting", "idle"}
           /\ {"crash", "error"} \cap Faults = {} =>
                 /\ batches' = batches
                 /\ \A d \in Rollouts :
                       pc'[d] = pc[d] \/ (pc[d] = "off" /\ pc'[d] = "begin")
<1> USE DEF storeVars, hostVars, taskVars
<1>0. /\ pc \in [Tasks -> Labels] /\ pending \subseteq Rollouts
      /\ job \in [Tasks -> Job]
      /\ \A d \in Rollouts : d \in Tasks /\ d # Reconcile
      /\ Reconcile \in Tasks
  BY Typical DEF TypeInv, TypeOK
<1>1. CASE Start
  BY <1>0, <1>1 DEF Start, ListKnown, RemoveOrphans, Goto
<1>2. CASE RolloutLoop
  <2>1. /\ row' = row /\ rollout' = rollout /\ batches' = batches
        /\ job' = job /\ pass' = pass /\ pending' \subseteq pending
        /\ Dispatch(PendingRollouts) \/ Dispatch(pending)
    BY <1>2 DEF RolloutLoop, DispatchRollouts, DispatchDelayed
  <2>2. pc'[Reconcile] = pc[Reconcile]
    BY <1>0, <2>1 DEF Dispatch, PendingRollouts
  <2>3. ASSUME NEW d \in Rollouts
        PROVE  \/ pc'[d] = pc[d]
               \/ /\ pc'[d] = "begin" /\ pc[d] = "off"
                  /\ rollout[d].status = "pending" \/ d \in pending
    BY <1>0, <2>1 DEF Dispatch, PendingRollouts
  <2> QED BY <2>1, <2>2, <2>3
<1>3. CASE LoseContainer
  BY <1>3 DEF LoseContainer
<1>4. CASE Crash
  BY <1>0, <1>4 DEF Crash, Fault
<1>5. CASE \E t \in Tasks : Abandon(t)
  <2>1. PICK t \in Tasks : Abandon(t)
    BY <1>5
  <2>2. /\ row' = row /\ rollout' = rollout /\ pending' = pending
        /\ pc' = [pc EXCEPT ![t] = IF t = Reconcile THEN "idle" ELSE "off"]
        /\ job' = [job EXCEPT ![t] = Idle]
        /\ pass' = IF t = Reconcile THEN NoPass ELSE pass
        /\ "error" \in Faults
    BY <2>1 DEF Abandon, Fault
  <2>3. \A d \in Rollouts : pc'[d] \in {pc[d], "off"}
    BY <1>0, <2>2
  <2>4. \/ /\ pc'[Reconcile] = pc[Reconcile]
           /\ job'[Reconcile] = job[Reconcile] /\ pass' = pass
        \/ pc'[Reconcile] = "idle"
    BY <1>0, <2>2
  <2> QED BY <2>2, <2>3, <2>4
<1>6. CASE Fault("listing") /\ DelayListing
  BY <1>6 DEF DelayListing, PendingRollouts
<1> QED BY <1>1, <1>2, <1>3, <1>4, <1>5, <1>6 DEF FaultStep

\* What clients that are still reading do to rollouts.
LEMMA RequestLeaves ==
    ASSUME TypeInv, NEW c \in Clients, ClientStep(c) \/ RefreshForScale(c)
    PROVE  /\ UNCHANGED <<row, pc, job, pass, batches, pending, asked>>
           /\ \/ rollout' = rollout
              \/ /\ row # NoService
                 /\ \E d \in Rollouts, image \in NewImages :
                       /\ rollout[d].status = "absent"
                       /\ rollout' = [rollout EXCEPT ![d] =
                                        [status |-> "pending",
                                         image |-> image]]
BY DEF ClientStep, CreateService, UpdateService, ApplyService, DeleteService,
       DestroyService, EvaluateService, CreateDeployment, Begin, orchVars,
       taskVars, RefreshForScale

\* Clients ask only for what they may.
LEMMA OfferedStep ==
    ASSUME TypeInv, Offered, [Next]_vars
    PROVE  Offered'
<1> DEFINE Fine(call) == \/ call.op \in Ops \cup {"none"}
                         \/ call.op = "scale_put" /\ "scale" \in Ops
<1>0. api \in [Clients -> Call]
  BY DEF TypeInv, TypeOK
<1>1. ASSUME NEW c \in Clients, NEW call, Fine(call),
             api' = [api EXCEPT ![c] = call]
      PROVE  Offered'
  BY <1>0, <1>1 DEF Offered
<1>2. CASE api' = api
  BY <1>2 DEF Offered
<1>3. ASSUME NEW c \in Clients, NEW op, NEW spec, Begin(c, op, spec)
      PROVE  Offered'
  <2> DEFINE call == [op |-> op, base |-> row, spec |-> spec]
  <2>1. op \in Ops /\ api' = [api EXCEPT ![c] = call]
    BY <1>3 DEF Begin, Receive
  <2>2. call.op = op
    OBVIOUS
  <2> HIDE DEF call
  <2> QED BY <1>1, <2>1, <2>2
<1>4. ASSUME NEW c \in Clients, Respond(c)
      PROVE  Offered'
  <2>1. NoCall.op = "none" /\ api' = [api EXCEPT ![c] = NoCall]
    BY <1>4 DEF NoCall, Respond
  <2> QED BY <1>1, <2>1
<1>5. ASSUME NEW c \in Clients, RefreshForScale(c)
      PROVE  Offered'
  <2>1. NoCall.op = "none"
    BY DEF NoCall
  <2> DEFINE call == [api[c] EXCEPT !.op = "scale_put", !.base = row]
  <2>2. call.op = "scale_put" /\ "scale" \in Ops
    BY <1>0, <1>5 DEF Call, RefreshForScale, Offered
  <2>3. api' = [api EXCEPT ![c] = IF row = NoService THEN NoCall ELSE call]
    BY <1>0, <1>5 DEF RefreshForScale
  <2> HIDE DEF call
  <2> QED BY <1>1, <2>1, <2>2, <2>3
<1>6. ASSUME NEW c \in Clients, ClientStep(c)
      PROVE  Offered'
  BY <1>2, <1>3, <1>6
     DEF ClientStep, CreateService, UpdateService, ApplyService, DeleteService,
         DestroyService, EvaluateService, CreateDeployment
<1> QED BY <1>2, <1>4, <1>5, <1>6 DEF Next, apiVars, vars

\* Rollouts that run are those that were asked for.
LEMMA NamedStep ==
    ASSUME TypeInv, Named, [Next]_vars
    PROVE  Named'
<1>0. /\ rollout \in [Rollouts -> Deployment] /\ pending \subseteq Rollouts
      /\ \A d \in Rollouts : d \in Tasks \ {Reconcile}
  BY Typical DEF TypeInv, TypeOK
<1>1. CASE UNCHANGED vars
  BY <1>1 DEF vars, Named
<1>2. CASE ReconcilePass
  BY <1>0, <1>2, PassLeaves DEF Named
<1>3. ASSUME NEW d \in Rollouts, RolloutTask(d)
      PROVE  Named'
  BY <1>0, <1>3, RolloutLeaves DEF Named
<1>4. CASE Start \/ RolloutLoop \/ FaultStep
  <2>1. rollout' = rollout
    BY <1>4, ProcessLeaves
  <2>2. ASSUME NEW d \in Rollouts, pc'[d] # "off"
        PROVE  rollout[d].status # "absent"
    BY <1>4, <2>2, ProcessLeaves DEF Named
  <2>3. ASSUME NEW d \in Rollouts, d \in pending'
        PROVE  rollout[d].status # "absent"
    BY <1>4, <2>3, ProcessLeaves DEF Named
  <2> QED BY <2>1, <2>2, <2>3 DEF Named
<1>5. ASSUME NEW c \in Clients, ClientStep(c) \/ RefreshForScale(c)
      PROVE  Named'
  <2>1. pc' = pc /\ pending' = pending
    BY <1>5, RequestLeaves
  <2>2. CASE rollout' = rollout
    BY <2>1, <2>2 DEF Named
  <2>3. CASE rollout' # rollout
    <3>1. PICK d \in Rollouts, image \in NewImages :
             rollout' = [rollout EXCEPT ![d] = [status |-> "pending",
                                                image |-> image]]
      BY <1>5, <2>3, RequestLeaves
    <3>2. rollout'[d].status = "pending" /\ rollout'[d].image = image
      BY <1>0, <3>1
    <3>3. \A e \in Rollouts \ {d} : rollout'[e] = rollout[e]
      BY <1>0, <3>1
    <3> QED BY <2>1, <3>2, <3>3 DEF Named
  <2> QED BY <2>2, <2>3
<1>6. ASSUME NEW c \in Clients, Respond(c)
      PROVE  Named'
  BY <1>6 DEF Respond, taskVars, Named
<1> QED BY <1>1, <1>2, <1>3, <1>4, <1>5, <1>6 DEF Next, OrchestratorStep

\* A handler that answers has created the service or scaled it.
LEMMA Answers ==
    ASSUME TypeInv, Quiet, Offered, Ops \subseteq {"create", "deploy", "scale"},
           NEW c \in Clients, Respond(c), ~overwrote'
    PROVE  /\ row' # NoService
           /\ row = NoService => asked' = row'.desired /\ row'.status = "pending"
           /\ row # NoService => /\ row'.image = row.image
                                 /\ row'.status = row.status
                                 /\ "scale" \in Ops
<1>1. /\ row = api[c].base /\ row' = NewRow(api[c]) /\ row' # NoService
      /\ api[c].op \notin {"none", "scale"}
      /\ asked' = IF api[c].op \in {"delete", "destroy"} THEN asked
                  ELSE row'.desired
  BY WriteKept, Responds DEF Respond
<1>2. api[c] \in Call /\ (row # NoService => row \in ServiceOf(Created))
  BY RowIsService DEF TypeInv, TypeOK
<1>3. CASE api[c].op = "create"
  <2>1. row = NoService
    BY <1>1, <1>3 DEF Quiet
  <2>2. NewRow(api[c]) = NewService(api[c].spec)
    BY <1>3 DEF NewRow
  <2>3. row' = NewService(api[c].spec)
    BY <1>1, <2>2
  <2>4. row'.status = "pending"
    BY <2>3 DEF NewService
  <2> QED BY <1>1, <1>3, <2>1, <2>4
<1>4. CASE api[c].op = "scale_put"
  <2>1. row # NoService /\ "scale" \in Ops
    BY <1>1, <1>4 DEF TypeInv, Prepared, Offered
  <2>2. row' = [row EXCEPT !.desired = api[c].spec.desired]
    BY <1>1, <1>4 DEF NewRow
  <2>3. row'.image = row.image /\ row'.status = row.status
    BY <1>2, <2>1, <2>2 DEF ServiceOf
  <2> QED BY <1>1, <2>1, <2>3
<1>5. api[c].op \in {"create", "scale_put"}
  BY <1>1, <1>2 DEF Offered, Call
<1> QED BY <1>3, <1>4, <1>5

\* The row of a service that nobody deletes stays.
THEOREM StandsStep ==
    ASSUME Ops \subseteq {"create", "deploy", "scale"}
    PROVE  TypeInv /\ StandsInv /\ [Next]_vars => StandsInv'
<1> SUFFICES ASSUME TypeInv, StandsInv, [Next]_vars
             PROVE  StandsInv'
  OBVIOUS
<1>1. Offered' /\ Named'
  BY OfferedStep, NamedStep DEF StandsInv
<1>2. Quiet'
  <2>1. CASE UNCHANGED vars
    BY <2>1 DEF vars, Quiet, Started, StandsInv
  <2> QED BY <2>1, QuietKept DEF StandsInv
<1>3. ASSUME ~overwrote' PROVE Stands'
  <2>0. /\ rollout \in [Rollouts -> Deployment]
        /\ \A d \in Rollouts : Reconcile \in Tasks \ {d}
    BY Typical DEF TypeInv, TypeOK
  <2>1. CASE UNCHANGED vars
    BY <1>3, <2>1 DEF vars, StandsInv, Stands, TearingDown
  <2>2. CASE Next
    <3>1. Stands
      BY <1>3, <2>2, OverwroteStays DEF StandsInv
    <3>2. CASE ReconcilePass
      BY <1>3, <3>1, <3>2, PassWrites
    <3>3. ASSUME NEW d \in Rollouts, RolloutTask(d)
          PROVE  Stands'
      <4>1. rollout[d].status # "absent" /\ row # NoService
        BY <3>1, <3>3, RolloutLeaves DEF StandsInv, Named, Stands
      <4>2. row' # NoService /\ row'.status # "deleting"
        BY <1>3, <3>1, <3>3, <4>1, RolloutWrites DEF Stands
      <4>3. /\ pc'[Reconcile] = pc[Reconcile]
            /\ job'[Reconcile] = job[Reconcile] /\ pass' = pass
        BY <2>0, <3>3, RolloutLeaves
      <4> QED BY <3>1, <4>2, <4>3 DEF Stands, TearingDown
    <3>4. CASE Start \/ RolloutLoop \/ FaultStep
      BY <3>1, <3>4, ProcessLeaves DEF Stands, TearingDown, Removing
    <3>5. ASSUME NEW c \in Clients, ClientStep(c) \/ RefreshForScale(c)
          PROVE  Stands'
      <4>1. UNCHANGED <<row, pc, job, pass>>
            /\ (rollout' = rollout \/ row # NoService)
        BY <3>5, RequestLeaves
      <4> QED BY <3>1, <4>1 DEF Stands, TearingDown
    <3>6. ASSUME NEW c \in Clients, Respond(c)
          PROVE  Stands'
      <4>1. row' # NoService /\ row'.status # "deleting"
        BY <1>3, <3>1, <3>6, Answers DEF StandsInv, Stands
      <4>2. UNCHANGED <<pc, job, pass>>
        BY <3>6 DEF Respond, taskVars
      <4> QED BY <3>1, <4>1, <4>2 DEF Stands, TearingDown
    <3> QED BY <2>2, <3>2, <3>3, <3>4, <3>5, <3>6 DEF Next, OrchestratorStep
  <2> QED BY <2>1, <2>2
<1> QED BY <1>1, <1>2, <1>3 DEF StandsInv

\* It holds at first.
LEMMA StandsInit == Init => StandsInv
<1> SUFFICES ASSUME Init PROVE StandsInv
  OBVIOUS
<1>1. Quiet
  BY LeakInit DEF LeakInv
<1>2. Offered
  BY DEF Init, Offered, NoCall
<1>3. Named
  BY Typical DEF Init, InitOrchestrator, Named, Tasks
<1>4. Stands
  BY Typical DEF Init, InitOrchestrator, Stands, TearingDown, Removing
<1> QED BY <1>1, <1>2, <1>3, <1>4 DEF StandsInv

-----------------------------------------------------------------------------
(* A rollout that is past its first write has moved the service.           *)

Delivered ==
    row # NoService =>
        \A d \in Rollouts :
            rollout[d].status = "running" \/ pc[d] \in Switched =>
                row.image = rollout[d].image

DeliveredInv == ~overwrote => Delivered

\* Every step keeps the image of the rollouts that have written it.
LEMMA DeliveredStep ==
    ASSUME Ops \subseteq {"create", "deploy", "scale"},
           \A i, j \in NewImages : i = j,
           TypeInv, StandsInv, DeliveredInv, [Next]_vars
    PROVE  DeliveredInv'
<1> SUFFICES ASSUME ~overwrote' PROVE Delivered'
  BY DEF DeliveredInv
<1>0. /\ rollout \in [Rollouts -> Deployment]
      /\ \A d \in Rollouts : d \in Tasks \ {Reconcile}
  BY Typical DEF TypeInv, TypeOK
<1>1. CASE UNCHANGED vars
  BY <1>1 DEF vars, Delivered, DeliveredInv
<1>2. CASE Next
  <2>1. Stands /\ Delivered /\ Named
    BY <1>2, OverwroteStays DEF StandsInv, DeliveredInv
  <2>2. CASE ReconcilePass
    BY <1>0, <2>1, <2>2, PassWrites, PassLeaves DEF Delivered
  <2>3. ASSUME NEW d \in Rollouts, RolloutTask(d)
        PROVE  Delivered'
    <3>1. rollout[d].status # "absent" /\ row # NoService
      BY <2>1, <2>3, RolloutLeaves DEF Named, Stands
    <3>2. /\ rollout'[d].image = rollout[d].image
          /\ \A e \in Rollouts \ {d} : rollout'[e] = rollout[e] /\ pc'[e] = pc[e]
      BY <1>0, <2>3, RolloutLeaves
    <3>3. CASE row'.image = rollout[d].image
      <4>1. ASSUME NEW e \in Rollouts,
                   rollout[e].status = "running" \/ pc[e] \in Switched
            PROVE  rollout[e].image = rollout[d].image
        <5>1. rollout[e].status # "absent"
          BY <2>1, <4>1 DEF Named, Switched, Removing
        <5> QED BY <2>1, <3>1, <5>1 DEF Named
      <4> QED BY <3>2, <3>3, <4>1 DEF Delivered
    <3>4. CASE row'.image # rollout[d].image
      <4>1. /\ row'.image = row.image
            /\ pc'[d] \in Switched => pc[d] \in Switched
            /\ rollout'[d].status = "running" =>
                  rollout[d].status = "running" \/ pc[d] \in Switched
        BY <2>3, <3>1, <3>4, RolloutWrites
      <4> QED BY <2>1, <3>1, <3>2, <4>1 DEF Delivered
    <3> QED BY <3>3, <3>4
  <2>4. CASE Start \/ RolloutLoop \/ FaultStep
    <3>1. row' = row /\ rollout' = rollout
      BY <2>4, ProcessLeaves
    <3>2. \A d \in Rollouts : pc'[d] \in Switched => pc[d] \in Switched
      BY <2>4, ProcessLeaves DEF Switched, Removing
    <3> QED BY <2>1, <3>1, <3>2 DEF Delivered
  <2>5. ASSUME NEW c \in Clients, ClientStep(c) \/ RefreshForScale(c)
        PROVE  Delivered'
    <3>1. pc' = pc /\ row' = row
      BY <2>5, RequestLeaves
    <3>2. CASE rollout' = rollout
      BY <2>1, <3>1, <3>2 DEF Delivered
    <3>3. CASE rollout' # rollout
      <4>1. PICK d \in Rollouts, image \in NewImages :
               /\ rollout[d].status = "absent"
               /\ rollout' = [rollout EXCEPT ![d] = [status |-> "pending",
                                                     image |-> image]]
        BY <2>5, <3>3, RequestLeaves
      <4>2. rollout'[d].status = "pending" /\ pc[d] = "off"
        BY <1>0, <2>1, <4>1 DEF Named
      <4>3. \A e \in Rollouts \ {d} : rollout'[e] = rollout[e]
        BY <1>0, <4>1
      <4> QED BY <2>1, <3>1, <4>2, <4>3 DEF Delivered, Switched, Removing
    <3> QED BY <3>2, <3>3
  <2>6. ASSUME NEW c \in Clients, Respond(c)
        PROVE  Delivered'
    <3>1. pc' = pc /\ rollout' = rollout
      BY <2>6 DEF Respond, taskVars
    <3>2. row # NoService => row'.image = row.image
      BY <2>6, Answers DEF StandsInv
    <3>3. ASSUME row = NoService, NEW d \in Rollouts
          PROVE  rollout[d].status = "absent" /\ pc[d] = "off"
      BY <2>1, <3>3 DEF Stands, Named
    <3> QED BY <2>1, <3>1, <3>2, <3>3 DEF Delivered, Switched, Removing
  <2> QED BY <1>2, <2>2, <2>3, <2>4, <2>5, <2>6 DEF Next, OrchestratorStep
<1> QED BY <1>1, <1>2

\* A rollout that is reported complete has moved its service to its image,
\* whatever else rolls out, scales, crashes or fails, as long as all rollouts
\* are to one image and no stale row has been written.
THEOREM CompleteIsDelivered ==
    ASSUME Ops \subseteq {"create", "deploy", "scale"},
           \A i, j \in NewImages : i = j
    PROVE  Spec => []RolloutDelivered
<1> DEFINE Inv == TypeInv /\ StandsInv /\ DeliveredInv
<1>1. Init => Inv
  <2>1. Init => Delivered
    BY DEF Init, InitOrchestrator, Delivered
  <2> QED BY <2>1, TypeInit, StandsInit DEF DeliveredInv
<1>2. Inv /\ [Next]_vars => Inv'
  BY TypeStep, StandsStep, DeliveredStep
<1>3. Inv => RolloutDelivered
  BY DEF DeliveredInv, Delivered, RolloutDelivered
<1> QED BY <1>1, <1>2, <1>3, PTL DEF Spec

-----------------------------------------------------------------------------
(* What rollouts add to the desired count.  The row does not say how much  *)
(* of the count is surge; only the tasks know, each for its own batch.     *)

\* The replicas that a rollout has asked for on top, one for each it replaces.
Surge ==
    {x \in Rollouts \X Replicas :
        pc[x[1]] \in Raised /\ x[2] \in batches[x[1]].batch}

\* The row asks for what its client asked for, and for the surge.
Surged == row # NoService => row.desired = asked + Cardinality(Surge)

SurgedInv == ~overwrote => Surged

\* The surge is finite.
LEMMA SurgeIsFinite ==
    ASSUME IsFiniteSet(Rollouts)
    PROVE  IsFiniteSet(Surge) /\ Cardinality(Surge) \in Nat
<1>1. IsFiniteSet(Replicas)
  BY FS_Interval, OrchestratorAssumption DEF Replicas
<1>2. IsFiniteSet(Rollouts \X Replicas)
  BY <1>1, FS_Product
<1>3. Surge \subseteq Rollouts \X Replicas
  BY DEF Surge
<1> QED BY <1>2, <1>3, FS_Subset, FS_CardinalityType

\* The part of one rollout in it is as large as its batch.
LEMMA BatchCounts ==
    ASSUME TypeOK, NEW d \in Rollouts
    PROVE  LET share == {d} \X batches[d].batch
           IN  /\ share \subseteq Rollouts \X Replicas
               /\ IsFiniteSet(share)
               /\ Cardinality(share) = Cardinality(batches[d].batch)
               /\ Cardinality(share) \in Nat
<1> DEFINE batch == batches[d].batch
<1>1. batch \subseteq Replicas /\ IsFiniteSet(batch) /\ Cardinality(batch) \in Nat
  BY BatchFields, CreatedIsFinite, RowIsService
<1>2. IsFiniteSet({d}) /\ Cardinality({d}) = 1
  BY FS_Singleton
<1>3. /\ IsFiniteSet({d} \X batch)
      /\ Cardinality({d} \X batch) = 1 * Cardinality(batch)
  BY <1>1, <1>2, FS_Product
<1> HIDE DEF batch
<1> QED BY <1>1, <1>3 DEF batch

\* The parts of the other rollouts do not change with this one.
LEMMA SurgeChanges ==
    ASSUME TypeOK, IsFiniteSet(Rollouts), NEW d \in Rollouts,
           \A e \in Rollouts \ {d} : pc'[e] = pc[e] /\ batches'[e] = batches[e]
    PROVE  /\ pc[d] \notin Raised /\ pc'[d] \notin Raised => Surge' = Surge
           /\ /\ pc[d] \in Raised /\ pc'[d] \in Raised
              /\ batches'[d].batch = batches[d].batch
              => Surge' = Surge
           /\ /\ pc[d] \notin Raised /\ pc'[d] \in Raised
              /\ batches'[d].batch = batches[d].batch
              => Cardinality(Surge') =
                   Cardinality(Surge) + Cardinality(batches[d].batch)
           /\ pc[d] \in Raised /\ pc'[d] \notin Raised
              => Cardinality(Surge') =
                   Cardinality(Surge) - Cardinality(batches[d].batch)
<1> DEFINE share == {d} \X batches[d].batch
           others == {x \in Surge : x[1] # d}
<1>1. /\ share \subseteq Rollouts \X Replicas
      /\ IsFiniteSet(share)
      /\ Cardinality(share) = Cardinality(batches[d].batch)
      /\ Cardinality(share) \in Nat
  BY BatchCounts
<1>2. pc[d] \notin Raised => Surge = others
  BY DEF Surge
<1>3. pc'[d] \notin Raised => Surge' = others
  BY DEF Surge
<1>4. pc[d] \in Raised => Surge = others \cup share
  <2> HIDE DEF others
  <2>1. \A x \in Rollouts \X Replicas : x[1] = d /\ x[2] \in batches[d].batch
                                        <=> x \in share
    OBVIOUS
  <2> HIDE DEF share
  <2> QED BY <1>1, <2>1 DEF Surge, others
<1>5. pc'[d] \in Raised /\ batches'[d].batch = batches[d].batch =>
         Surge' = others \cup share
  <2> HIDE DEF others
  <2>1. \A x \in Rollouts \X Replicas : x[1] = d /\ x[2] \in batches[d].batch
                                        <=> x \in share
    OBVIOUS
  <2> HIDE DEF share
  <2> QED BY <1>1, <2>1 DEF Surge, others
<1>6. /\ IsFiniteSet(others) /\ Cardinality(others) \in Nat
      /\ Cardinality(others \cup share) = Cardinality(others) + Cardinality(share)
  <2>1. others \subseteq Surge
    OBVIOUS
  <2>2. IsFiniteSet(others)
    BY <2>1, SurgeIsFinite, FS_Subset
  <2>3. others \cap share = {}
    OBVIOUS
  <2>4. Cardinality({}) = 0
    BY FS_EmptySet
  <2>5. Cardinality(others) \in Nat
    BY <2>2, FS_CardinalityType
  <2>6. Cardinality(others \cup share) =
          Cardinality(others) + Cardinality(share) - Cardinality(others \cap share)
    BY <1>1, <2>2, FS_Union
  <2>7. Cardinality(others \cap share) = 0
    BY <2>3, <2>4
  <2>8. Cardinality(share) \in Nat
    BY <1>1
  <2> HIDE DEF others, share
  <2>9. Cardinality(others \cup share) = Cardinality(others) + Cardinality(share)
    BY <2>5, <2>6, <2>7, <2>8
  <2> QED BY <2>2, <2>5, <2>9
<1>7. /\ Cardinality(share) = Cardinality(batches[d].batch)
      /\ Cardinality(share) \in Nat
  BY <1>1
<1> HIDE DEF others, share
<1>8. ASSUME pc[d] \notin Raised, pc'[d] \in Raised,
             batches'[d].batch = batches[d].batch
      PROVE  Cardinality(Surge') =
               Cardinality(Surge) + Cardinality(batches[d].batch)
  <2>1. Surge = others /\ Surge' = others \cup share
    BY <1>2, <1>5, <1>8
  <2> QED BY <1>6, <1>7, <2>1
<1>9. ASSUME pc[d] \in Raised, pc'[d] \notin Raised
      PROVE  Cardinality(Surge') =
               Cardinality(Surge) - Cardinality(batches[d].batch)
  <2>1. Surge' = others /\ Surge = others \cup share
    BY <1>3, <1>4, <1>9
  <2>2. Cardinality(Surge) = Cardinality(Surge') + Cardinality(share)
    BY <1>6, <2>1
  <2>3. Cardinality(Surge') \in Nat
    BY <1>6, <2>1
  <2> QED BY <1>7, <2>2, <2>3
<1> QED BY <1>2, <1>3, <1>4, <1>5, <1>8, <1>9

\* Every step keeps the sum.
LEMMA SurgedStep ==
    ASSUME Ops \subseteq {"create", "deploy"}, {"crash", "error"} \cap Faults = {},
           IsFiniteSet(Rollouts),
           TypeInv, StandsInv, SurgedInv, [Next]_vars
    PROVE  SurgedInv'
<1> SUFFICES ASSUME ~overwrote' PROVE Surged'
  BY DEF SurgedInv
<1>0. /\ TypeOK /\ Cardinality(Surge) \in Nat
      /\ \A d \in Rollouts : d \in Tasks \ {Reconcile}
      /\ Ops \subseteq {"create", "deploy", "scale"}
  BY Typical, SurgeIsFinite DEF TypeInv
<1>1. ASSUME batches' = batches,
             \A d \in Rollouts :
                pc'[d] = pc[d] \/ (pc[d] = "off" /\ pc'[d] = "begin")
      PROVE  Surge' = Surge
  BY <1>1 DEF Surge, Raised
<1>2. CASE UNCHANGED vars
  <2>1. Surge' = Surge
    BY <1>2 DEF vars, Surge
  <2> QED BY <1>2, <2>1 DEF vars, Surged, SurgedInv
<1>3. CASE Next
  <2>1. Stands /\ Surged /\ Named /\ Quiet /\ Offered
    BY <1>3, OverwroteStays DEF StandsInv, SurgedInv
  <2>2. CASE ReconcilePass /\ UNCHANGED apiVars
    <3>1. Surge' = Surge
      <4>1. /\ batches' = batches
            /\ \A d \in Rollouts : pc'[d] = pc[d]
        BY <1>0, <2>2, PassLeaves
      <4> QED BY <1>1, <4>1
    <3>2. asked' = asked
      BY <2>2 DEF apiVars
    <3> QED BY <2>1, <2>2, <3>1, <3>2, PassWrites DEF Surged
  <2>3. ASSUME NEW d \in Rollouts, RolloutTask(d), UNCHANGED apiVars
        PROVE  Surged'
    <3>1. rollout[d].status # "absent" /\ row # NoService
      BY <2>1, <2>3, RolloutLeaves DEF Named, Stands
    <3>2. \A e \in Rollouts \ {d} : pc'[e] = pc[e] /\ batches'[e] = batches[e]
      BY <1>0, <2>3, RolloutLeaves
    <3>3. asked' = asked /\ row.desired = asked + Cardinality(Surge)
      BY <2>1, <2>3, <3>1 DEF apiVars, Surged
    <3>4. asked \in Int /\ Cardinality(batches[d].batch) \in Nat
      BY <1>0, BatchFields, CreatedIsFinite DEF TypeOK
    <3>5. /\ row' # NoService
          /\ row'.desired = asked + Cardinality(Surge')
      <4>1. CASE Surge' = Surge /\ row'.desired = row.desired
        BY <2>3, <3>1, <3>3, <4>1, RolloutWrites
      <4>2. CASE /\ Cardinality(Surge') =
                      Cardinality(Surge) + Cardinality(batches[d].batch)
                 /\ row'.desired = row.desired + Cardinality(batches[d].batch)
        BY <1>0, <2>3, <3>1, <3>3, <3>4, <4>2, RolloutWrites
      <4>3. CASE /\ Cardinality(Surge') =
                      Cardinality(Surge) - Cardinality(batches[d].batch)
                 /\ row'.desired = row.desired - Cardinality(batches[d].batch)
        BY <1>0, <2>3, <3>1, <3>3, <3>4, <4>3, RolloutWrites
      <4> QED BY <1>0, <2>3, <3>1, <3>2, <4>1, <4>2, <4>3, RolloutWrites,
                 SurgeChanges
    <3> QED BY <3>3, <3>5 DEF Surged
  <2>4. CASE (Start \/ RolloutLoop \/ FaultStep) /\ UNCHANGED apiVars
    <3>1. /\ row' = row /\ batches' = batches
          /\ \A d \in Rollouts :
                pc'[d] = pc[d] \/ (pc[d] = "off" /\ pc'[d] = "begin")
      BY <2>4, ProcessLeaves
    <3>2. Surge' = Surge
      BY <1>1, <3>1
    <3> QED BY <2>1, <2>4, <3>1, <3>2 DEF Surged, apiVars
  <2>5. ASSUME NEW c \in Clients, ClientStep(c) \/ RefreshForScale(c)
        PROVE  Surged'
    <3>1. UNCHANGED <<row, pc, batches, asked>>
      BY <2>5, RequestLeaves
    <3>2. Surge' = Surge
      BY <1>1, <3>1
    <3> QED BY <2>1, <3>1, <3>2 DEF Surged
  <2>6. ASSUME NEW c \in Clients, Respond(c)
        PROVE  Surged'
    <3>1. /\ row' # NoService
          /\ row = NoService => asked' = row'.desired
          /\ row # NoService => "scale" \in Ops
      BY <1>0, <2>1, <2>6, Answers
    <3>2. row = NoService /\ asked' = row'.desired
      BY <3>1
    <3>3. \A d \in Rollouts : pc'[d] = "off"
      BY <2>1, <2>6, <3>2 DEF Named, Stands, Respond, taskVars
    <3>4. Surge' = {}
      BY <3>3 DEF Surge, Raised
    <3>5. Cardinality(Surge') = 0
      BY <3>4, FS_EmptySet
    <3>6. row'.desired \in Int
      BY <1>3, <3>1, TypeStep, RowIsService, ServiceFields DEF TypeInv, TypeOK
    <3> QED BY <3>2, <3>5, <3>6 DEF Surged
  <2> QED BY <1>3, <2>2, <2>3, <2>4, <2>5, <2>6 DEF Next, OrchestratorStep
<1> QED BY <1>2, <1>3

\* With no rollout under way a service is back at the count its client asked
\* for: each takes back exactly what it added, in whatever order batches of
\* several rollouts and passes interleave, as long as nothing but rollouts
\* writes the count, no task is cut short and no stale row has been written.
THEOREM SurgeIsTakenBack ==
    ASSUME Ops \subseteq {"create", "deploy"}, {"crash", "error"} \cap Faults = {},
           IsFiniteSet(Rollouts)
    PROVE  Spec => []SurgeTakenBack
<1> DEFINE Inv == TypeInv /\ StandsInv /\ SurgedInv
<1>1. Init => Inv
  <2>1. Init => Surged
    BY DEF Init, InitOrchestrator, Surged
  <2> QED BY <2>1, TypeInit, StandsInit DEF SurgedInv
<1>2. Inv /\ [Next]_vars => Inv'
  BY TypeStep, StandsStep, SurgedStep
<1>3. Inv => SurgeTakenBack
  <2> SUFFICES ASSUME Inv, ~overwrote, row # NoService,
                      \A d \in Rollouts :
                         pc[d] \notin {"wait", "shrink_read", "shrink_put"}
               PROVE  row.desired = asked
    BY DEF SurgeTakenBack
  <2>1. Surge = {}
    BY DEF Surge, Raised
  <2>2. Cardinality(Surge) = 0
    BY <2>1, FS_EmptySet
  <2>3. asked \in Int /\ row.desired = asked + Cardinality(Surge)
    BY DEF TypeInv, TypeOK, SurgedInv, Surged
  <2> QED BY <2>2, <2>3
<1> QED BY <1>1, <1>2, <1>3, PTL DEF Spec
=============================================================================
