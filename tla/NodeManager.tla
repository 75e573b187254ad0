---------------------------- MODULE NodeManager ----------------------------
(***************************************************************************)
(* The capacity ledger of the orchestrator (compute/node_manager.py) and   *)
(* the two placement policies that read it (compute/scheduler.py).         *)
(*                                                                         *)
(* The ledger lives in the memory of the orchestrator process only.  A     *)
(* node keeps what it has handed out and the replicas it was handed to;    *)
(* nothing records how much each replica was given, so Allocate and        *)
(* Deallocate are told by their caller.  CPU and memory are whole units    *)
(* (the code's floats): 1 stands for the smallest request in use.          *)
(***************************************************************************)
EXTENDS Integers, FiniteSets

CONSTANTS
    NodeCount,      \* settings.node_count
    CpuCapacity,    \* settings.node_cpu_capacity, of every node
    MemoryCapacity, \* settings.node_memory_capacity_mb, of every node
    Policy          \* settings.scheduler_policy

ASSUME NodeAssumption ==
    /\ NodeCount \in Nat \ {0}
    /\ CpuCapacity \in Nat
    /\ MemoryCapacity \in Nat
    /\ Policy \in {"binpack", "spread"}

\* node-00, node-01, ...: the number is the order of the node ids.
Nodes == 1..NodeCount

\* initialize(): every node empty, also after a restart of the process.
FreshNodes ==
    [n \in Nodes |-> [cpu |-> 0, memory |-> 0, replicas |-> {}]]

AvailableCpu(nodes, n) == CpuCapacity - nodes[n].cpu
AvailableMemory(nodes, n) == MemoryCapacity - nodes[n].memory

\* A replica the node already holds is not charged again.
Allocate(nodes, n, r, request) ==
    IF r \in nodes[n].replicas THEN nodes
    ELSE [nodes EXCEPT ![n] =
            [cpu |-> @.cpu + request.cpu,
             memory |-> @.memory + request.memory,
             replicas |-> @.replicas \cup {r}]]

\* Mutant of Less: max(0, ...) is left out.
Less_Unclamped(used, amount) == used - amount

Less(used, amount) == IF used < amount THEN 0 ELSE used - amount

\* Mutant of Deallocate: the replica stays on the list of its node.
Deallocate_Listed(nodes, n, r, request) ==
    [nodes EXCEPT ![n].cpu = Less(@, request.cpu),
                  ![n].memory = Less(@, request.memory)]

\* The amount is given back whether or not the node holds the replica.
Deallocate(nodes, n, r, request) ==
    [nodes EXCEPT ![n] =
        [cpu |-> Less(@.cpu, request.cpu),
         memory |-> Less(@.memory, request.memory),
         replicas |-> @.replicas \ {r}]]

\* The nodes on which a request fits: the candidates of both policies.
Candidates(nodes, request) ==
    {n \in Nodes : /\ AvailableCpu(nodes, n) >= request.cpu
                   /\ AvailableMemory(nodes, n) >= request.memory}

\* Lexicographic order on tuples of three numbers and a node.
Precedes(s, t) ==
    \E i \in 1..4 : s[i] < t[i] /\ \A j \in 1..(i - 1) : s[j] = t[j]

\* What each policy minimises: bin-packing the room left, spreading the load.
PlacementKey(nodes, n) ==
    IF Policy = "binpack"
    THEN <<AvailableCpu(nodes, n), AvailableMemory(nodes, n), 0, n>>
    ELSE <<Cardinality(nodes[n].replicas), nodes[n].cpu, nodes[n].memory, n>>

\* select_node; no candidate is the code's SchedulingError.
SelectNode(nodes, request) ==
    CHOOSE n \in Candidates(nodes, request) :
        \A m \in Candidates(nodes, request) \ {n} :
            Precedes(PlacementKey(nodes, n), PlacementKey(nodes, m))

LedgerType(replicas) ==
    [Nodes -> [cpu : Nat, memory : Nat, replicas : SUBSET replicas]]
=============================================================================
