-------------------------- MODULE SharedNodesProofs --------------------------
(***************************************************************************)
(* No node is overfull, for any number of services, nodes and replicas of  *)
(* any sizes, as long as nothing but the pass releases what it charged.    *)
(* The ledger then is what lives: each node holds the replicas that were   *)
(* started on it and not yet released, at the sum of their sizes.          *)
(***************************************************************************)
EXTENDS SharedNodes, FiniteSetTheorems, SequenceTheorems, WellFoundedInduction, TLAPS

----------------------------------------------------------------------------
(* Finite sets *)

\* What holds of a set whenever it holds of all smaller sets holds of every
\* subset of a finite set: a least one for which it failed would be neither.
LEMMA Smaller ==
    ASSUME NEW D, IsFiniteSet(D), NEW Good,
           \A s \in SUBSET D : (\A t \in SUBSET s : t # s => t \in Good) => s \in Good
    PROVE  \A s \in SUBSET D : s \in Good
  <1> DEFINE Bad == {s \in SUBSET D : s \notin Good}
             R == StrictSubsetOrdering(D)
  <1> SUFFICES ASSUME Bad # {} PROVE FALSE
    OBVIOUS
  <1>1. IsWellFoundedOn(R, SUBSET D)
    <2>1. FiniteSubsetsOf(D) = SUBSET D
      BY FS_FiniteSubsetsOfFinite
    <2>2. IsWellFoundedOn(R, FiniteSubsetsOf(D))
      BY FS_StrictSubsetOrderingWellFounded
    <2> QED BY <2>1, <2>2
  <1>2. PICK s \in Bad : \A t \in Bad : <<t, s>> \notin R
    <2>1. Bad \subseteq SUBSET D
      OBVIOUS
    <2> HIDE DEF R, Bad
    <2> QED BY <1>1, <2>1, WFMin
  <1>3. PICK t \in SUBSET s : t # s /\ t \notin Good
    BY <1>2
  <1>4. t \in Bad /\ <<t, s>> \in R
    BY <1>2, <1>3 DEF StrictSubsetOrdering
  <1> QED BY <1>2, <1>4

\* The replicas are finitely many, and so are those of any set of them.
LEMMA FiniteIds ==
    /\ Ids \subseteq Nat /\ IsFiniteSet(Ids)
    /\ \A R \in SUBSET Ids : IsFiniteSet(R) /\ Cardinality(R) \in Nat
  <1>1. Ids \subseteq Nat /\ IsFiniteSet(Ids)
    <2>1. MaxContainers \in Int /\ 1 \in Int
      BY SharedNodesAssumption
    <2> QED BY <2>1, FS_Interval DEF Ids
  <1> QED BY <1>1, FS_Subset, FS_CardinalityType

\* A finite set of numbers that is not empty has a largest one.
LEMMA LargestIsIn ==
    ASSUME NEW D \in SUBSET Nat, IsFiniteSet(D), NEW s \in SUBSET D, s # {}
    PROVE  Max(s) \in s /\ \A x \in s : x <= Max(s)
  <1> DEFINE Good == {t \in SUBSET D : t # {} => \E x \in t : \A y \in t : x >= y}
  <1>1. ASSUME NEW t \in SUBSET D, \A u \in SUBSET t : u # t => u \in Good PROVE t \in Good
    <2> SUFFICES ASSUME t # {} PROVE \E x \in t : \A y \in t : x >= y
      OBVIOUS
    <2>1. PICK x : x \in t
      OBVIOUS
    <2>2. CASE t \ {x} = {}
      <3>1. t = {x} /\ x \in Nat
        BY <2>1, <2>2
      <3> QED BY <3>1
    <2>3. CASE t \ {x} # {}
      <3>1. PICK z \in t \ {x} : \A y \in t \ {x} : z >= y
        <4>1. t \ {x} \in Good
          <5>1. t \ {x} \in SUBSET t /\ t \ {x} # t
            BY <2>1
          <5> HIDE DEF Good
          <5> QED BY <1>1, <5>1
        <4> QED BY <2>3, <4>1
      <3>2. x \in Nat /\ z \in Nat /\ \A y \in t : y \in Nat
        BY <2>1, <3>1
      <3>3. CASE z >= x
        BY <3>1, <3>3
      <3>4. CASE ~(z >= x)
        <4>1. \A y \in t : x >= y
          BY <3>1, <3>2, <3>4
        <4> QED BY <2>1, <4>1
      <3> QED BY <3>3, <3>4
    <2> QED BY <2>2, <2>3
  <1>2. \A t \in SUBSET D : t \in Good
    <2> HIDE DEF Good
    <2> QED BY <1>1, Smaller
  <1>3. \E x \in s : \A y \in s : x >= y
    BY <1>2
  <1>4. Max(s) \in s /\ \A x \in s : Max(s) >= x
    BY <1>3 DEF Max
  <1> QED BY <1>4

Increases(q) == \A i, j \in DOMAIN q : i < j => q[i] < q[j]

\* A finite set of numbers can be listed in increasing order.
LEMMA OrderExists ==
    ASSUME NEW D \in SUBSET Nat, IsFiniteSet(D), NEW R \in SUBSET D
    PROVE  \E q \in [1..Cardinality(R) -> R] : Increases(q)
  <1> DEFINE Good == {s \in SUBSET D : \E q \in [1..Cardinality(s) -> s] : Increases(q)}
  <1>1. ASSUME NEW s \in SUBSET D, \A t \in SUBSET s : t # s => t \in Good PROVE s \in Good
    <2>1. IsFiniteSet(s) /\ Cardinality(s) \in Nat
      BY FS_Subset, FS_CardinalityType
    <2>2. CASE s = {}
      <3>1. Cardinality(s) = 0
        BY <2>2, FS_EmptySet
      <3>2. 1..Cardinality(s) = {}
        BY <3>1
      <3>3. [x \in {} |-> 0] \in [1..Cardinality(s) -> s] /\ Increases([x \in {} |-> 0])
        BY <3>2 DEF Increases
      <3> QED BY <3>3
    <2>3. CASE s # {}
      <3> DEFINE m == Max(s)
                 t == s \ {m}
                 n == Cardinality(t)
      <3>1. m \in s /\ \A x \in s : x <= m
        BY <2>3, LargestIsIn
      <3>2. n \in Nat /\ Cardinality(s) = n + 1
        <4>1. IsFiniteSet(t) /\ Cardinality(t) = Cardinality(s) - 1
          BY <2>1, <3>1, FS_RemoveElement
        <4>2. Cardinality(t) \in Nat
          BY <4>1, FS_CardinalityType
        <4> QED BY <2>1, <4>1, <4>2
      <3>3. PICK q \in [1..n -> t] : Increases(q)
        BY <1>1, <3>1
      <3> HIDE DEF n, m
      <3> DEFINE p == [i \in 1..n + 1 |-> IF i <= n THEN q[i] ELSE m]
      <3>4. p \in [1..n + 1 -> s]
        BY <3>1, <3>2, <3>3
      <3>5. Increases(p)
        <4> SUFFICES ASSUME NEW i \in 1..n + 1, NEW j \in 1..n + 1, i < j PROVE p[i] < p[j]
          BY DEF Increases
        <4>1. i \in 1..n /\ p[i] = q[i]
          BY <3>2
        <4>2. CASE j \in 1..n
          BY <3>3, <4>1, <4>2 DEF Increases
        <4>3. CASE j = n + 1
          <5>1. p[j] = m
            BY <3>2, <4>3
          <5>2. q[i] \in t
            BY <3>3, <4>1
          <5>3. q[i] \in Nat /\ m \in Nat /\ q[i] <= m /\ q[i] # m
            BY <3>1, <5>2
          <5> QED BY <4>1, <5>1, <5>3
        <4> QED BY <3>2, <4>2, <4>3
      <3> QED BY <3>2, <3>4, <3>5
    <2> QED BY <2>2, <2>3
  <1>2. \A s \in SUBSET D : s \in Good
    <2> HIDE DEF Good
    <2> QED BY <1>1, Smaller
  <1> QED BY <1>2

\* A sequence that lists elements of a set, none of them twice.
Lists(q, R) ==
    /\ q \in Seq(R)
    /\ \A i, j \in 1..Len(q) : q[i] = q[j] => i = j

\* The replicas of a row in order are all of them, each once.
LEMMA InOrderLists ==
    ASSUME NEW R \in SUBSET Ids
    PROVE  /\ Lists(InOrder(R), R) /\ Len(InOrder(R)) \in Nat
           /\ DOMAIN InOrder(R) = 1..Len(InOrder(R))
           /\ \A x \in R : \E i \in 1..Len(InOrder(R)) : InOrder(R)[i] = x
  <1> DEFINE n == Cardinality(R)
  <1>1. n \in Nat /\ IsFiniteSet(R) /\ R \subseteq Nat
    BY FiniteIds
  <1>2. PICK q : q = InOrder(R)
    OBVIOUS
  <1>3. q \in [1..n -> R] /\ \A i, j \in DOMAIN q : i < j => q[i] < q[j]
    <2>1. \E p \in [1..n -> R] : \A i, j \in DOMAIN p : i < j => p[i] < p[j]
      BY FiniteIds, OrderExists DEF Increases
    <2> QED BY <1>2, <2>1 DEF InOrder
  <1> HIDE DEF n
  <1>4. q \in Seq(R) /\ Len(q) = n
    BY <1>1, <1>3
  <1>5. \A i, j \in 1..n : q[i] = q[j] => i = j
    <2> SUFFICES ASSUME NEW i \in 1..n, NEW j \in 1..n, i # j PROVE q[i] # q[j]
      OBVIOUS
    <2>1. i < j \/ j < i
      BY <1>1
    <2>2. q[i] \in Nat /\ q[j] \in Nat
      BY <1>1, <1>3
    <2> QED BY <1>3, <2>1, <2>2
  <1>6. q \in Injection(1..n, R)
    BY <1>3, <1>5 DEF Injection, IsInjective
  <1>7. q \in Surjection(1..n, R)
    <2>1. 1 \in Int /\ n \in Int
      BY <1>1
    <2>2. IsFiniteSet(1..n) /\ Cardinality(1..n) = n
      BY <1>1, <2>1, FS_Interval
    <2> QED BY <1>1, <1>6, <2>2, FS_Injection DEF n
  <1> QED BY <1>1, <1>2, <1>3, <1>4, <1>5, <1>7 DEF Lists, Surjection

----------------------------------------------------------------------------
(* What replicas were given together: MapThenSumSet takes one replica of a *)
(* set after the other, by a recursive function over its subsets.          *)

Chosen(s) == CHOOSE x \in s : TRUE

LEMMA ChosenIsIn == \A s : s # {} => Chosen(s) \in s
  BY DEF Chosen

AddsUp(it, C, sets) ==
    it = [s \in sets |-> IF s = {} THEN 0 ELSE C[Chosen(s)].size + it[s \ {Chosen(s)}]]

Added(C, T) == CHOOSE it : AddsUp(it, C, SUBSET T)

\* The sizes of replicas, as containers C say them.
Charge(C, T) == Added(C, T)[T]

\* What runs on a node is charged like this.
LEMMA UsedIsCharge ==
    ASSUME NEW n
    PROVE  Used(n) = Charge(containers, {i \in Ids : Running(i) /\ containers[i].node = n})
  BY DEF Used, MapThenSumSet, MapThenFoldSet, Charge, Added, AddsUp, Chosen

\* What adds up is one step of the recursion at each set.
LEMMA AddsUpAt ==
    ASSUME NEW it, NEW C, NEW T, AddsUp(it, C, SUBSET T)
    PROVE  /\ it[{}] = 0
           /\ \A s \in SUBSET T : s # {} => /\ Chosen(s) \in s
                                            /\ s \ {Chosen(s)} \in SUBSET T
                                            /\ it[s] = C[Chosen(s)].size + it[s \ {Chosen(s)}]
  <1>1. it = [s \in SUBSET T |-> IF s = {} THEN 0 ELSE C[Chosen(s)].size + it[s \ {Chosen(s)}]]
    BY DEF AddsUp
  <1>2. \A s \in SUBSET T : it[s] = IF s = {} THEN 0 ELSE C[Chosen(s)].size + it[s \ {Chosen(s)}]
    BY <1>1
  <1> QED BY <1>2, ChosenIsIn

\* There is one sum only, whatever the set is a part of.
LEMMA OneSum ==
    ASSUME NEW C, NEW S \in SUBSET Ids, NEW T \in SUBSET Ids, NEW f, NEW g,
           AddsUp(f, C, SUBSET S), AddsUp(g, C, SUBSET T)
    PROVE  \A u \in SUBSET Ids : u \subseteq S /\ u \subseteq T => f[u] = g[u]
  <1> DEFINE Good == {u \in SUBSET Ids : u \subseteq S /\ u \subseteq T => f[u] = g[u]}
  <1>1. ASSUME NEW u \in SUBSET Ids, \A t \in SUBSET u : t # u => t \in Good PROVE u \in Good
    <2> SUFFICES ASSUME u \subseteq S, u \subseteq T PROVE f[u] = g[u]
      OBVIOUS
    <2>1. CASE u = {}
      BY <2>1, AddsUpAt
    <2>2. CASE u # {}
      <3>1. /\ Chosen(u) \in u
            /\ f[u] = C[Chosen(u)].size + f[u \ {Chosen(u)}]
            /\ g[u] = C[Chosen(u)].size + g[u \ {Chosen(u)}]
        <4> HIDE DEF Good
        <4>1. \A v \in SUBSET S : v # {} => f[v] = C[Chosen(v)].size + f[v \ {Chosen(v)}]
          <5>1. f = [s \in SUBSET S |-> IF s = {} THEN 0 ELSE C[Chosen(s)].size + f[s \ {Chosen(s)}]]
            BY DEF AddsUp
          <5> QED BY <5>1
        <4>2. \A v \in SUBSET T : v # {} => g[v] = C[Chosen(v)].size + g[v \ {Chosen(v)}]
          <5>1. g = [s \in SUBSET T |-> IF s = {} THEN 0 ELSE C[Chosen(s)].size + g[s \ {Chosen(s)}]]
            BY DEF AddsUp
          <5> QED BY <5>1
        <4>3. u \in SUBSET S /\ u \in SUBSET T
          OBVIOUS
        <4> QED BY <2>2, <4>1, <4>2, <4>3, ChosenIsIn
      <3>2. u \ {Chosen(u)} \in Good
        BY <1>1, <3>1
      <3> QED BY <3>1, <3>2
    <2> QED BY <2>1, <2>2
  <1>2. \A u \in SUBSET Ids : u \in Good
    <2> HIDE DEF Good
    <2> QED BY <1>1, FiniteIds, Smaller
  <1> QED BY <1>2

\* The recursion has a solution over the subsets of every set of replicas.
LEMMA SumExists ==
    ASSUME NEW C
    PROVE  \A s \in SUBSET Ids : AddsUp(Added(C, s), C, SUBSET s)
  <1> DEFINE Good == {s \in SUBSET Ids : AddsUp(Added(C, s), C, SUBSET s)}
  <1>1. ASSUME NEW s \in SUBSET Ids, \A t \in SUBSET s : t # s => t \in Good PROVE s \in Good
    <2> DEFINE Rest(u) == u \ {Chosen(u)}
               it == [u \in SUBSET s |->
                        IF u = {} THEN 0 ELSE C[Chosen(u)].size + Added(C, Rest(u))[Rest(u)]]
    <2>1. ASSUME NEW v \in SUBSET s, v # s PROVE it[v] = Added(C, v)[v]
      <3>1. AddsUp(Added(C, v), C, SUBSET v)
        BY <1>1, <2>1
      <3>2. CASE v = {}
        BY <3>1, <3>2, AddsUpAt
      <3>3. CASE v # {}
        <4>1. /\ Chosen(v) \in v
              /\ Added(C, v)[v] = C[Chosen(v)].size + Added(C, v)[Rest(v)]
          BY <3>1, <3>3, AddsUpAt
        <4>2. Rest(v) \in SUBSET s /\ Rest(v) # s /\ Rest(v) \subseteq v /\ v \subseteq Ids
          BY <2>1, <4>1
        <4>3. AddsUp(Added(C, Rest(v)), C, SUBSET Rest(v))
          BY <1>1, <4>2
        <4>4. Added(C, v)[Rest(v)] = Added(C, Rest(v))[Rest(v)]
          <5> HIDE DEF Rest
          <5> QED BY <3>1, <4>2, <4>3, OneSum
        <4>5. it[v] = C[Chosen(v)].size + Added(C, Rest(v))[Rest(v)]
          BY <3>3
        <4> QED BY <4>1, <4>4, <4>5
      <3> QED BY <3>2, <3>3
    <2>2. ASSUME NEW u \in SUBSET s
          PROVE  it[u] = IF u = {} THEN 0 ELSE C[Chosen(u)].size + it[u \ {Chosen(u)}]
      <3>1. CASE u = {}
        BY <3>1
      <3>2. CASE u # {}
        <4>1. Chosen(u) \in u
          BY <3>2, ChosenIsIn
        <4>2. Rest(u) \in SUBSET s /\ Rest(u) # s
          BY <4>1
        <4>3. it[Rest(u)] = Added(C, Rest(u))[Rest(u)]
          <5> HIDE DEF it, Rest
          <5> QED BY <2>1, <4>2
        <4> QED BY <3>2, <4>3
      <3> QED BY <3>1, <3>2
    <2>3. AddsUp(it, C, SUBSET s)
      <3>1. it = [u \in SUBSET s |-> it[u]]
        OBVIOUS
      <3> HIDE DEF it
      <3>2. [u \in SUBSET s |-> it[u]] =
            [u \in SUBSET s |-> IF u = {} THEN 0 ELSE C[Chosen(u)].size + it[u \ {Chosen(u)}]]
        BY <2>2
      <3> QED BY <3>1, <3>2 DEF AddsUp
    <2>4. \E f : AddsUp(f, C, SUBSET s)
      <3> HIDE DEF it
      <3> QED BY <2>3
    <2> QED BY <2>4 DEF Added
  <1>2. \A s \in SUBSET Ids : s \in Good
    <2> HIDE DEF Good
    <2> QED BY <1>1, FiniteIds, Smaller
  <1> QED BY <1>2

\* Nothing costs nothing; a set costs what its chosen replica and the rest cost.
LEMMA ChargeStep ==
    ASSUME NEW C, NEW s \in SUBSET Ids
    PROVE  /\ Charge(C, {}) = 0
           /\ s # {} => /\ Chosen(s) \in s
                        /\ Charge(C, s) = C[Chosen(s)].size + Charge(C, s \ {Chosen(s)})
  <1>1. Charge(C, {}) = 0
    <2>1. AddsUp(Added(C, {}), C, SUBSET {})
      BY SumExists
    <2> QED BY <2>1, AddsUpAt DEF Charge
  <1>2. ASSUME s # {}
        PROVE  Chosen(s) \in s /\ Charge(C, s) = C[Chosen(s)].size + Charge(C, s \ {Chosen(s)})
    <2> DEFINE r == s \ {Chosen(s)}
    <2>1. AddsUp(Added(C, s), C, SUBSET s) /\ AddsUp(Added(C, r), C, SUBSET r)
      BY SumExists
    <2>2. Chosen(s) \in s /\ Added(C, s)[s] = C[Chosen(s)].size + Added(C, s)[r]
      BY <1>2, <2>1, AddsUpAt
    <2>3. r \in SUBSET Ids /\ r \subseteq s
      OBVIOUS
    <2> HIDE DEF r
    <2>4. Added(C, s)[r] = Added(C, r)[r]
      BY <2>1, <2>3, OneSum
    <2> QED BY <2>2, <2>4 DEF Charge, r
  <1> QED BY <1>1, <1>2

Sized(C) == \A i \in Ids : C[i].size \in Nat

LEMMA ChargeType ==
    ASSUME NEW C, Sized(C)
    PROVE  \A s \in SUBSET Ids : Charge(C, s) \in Nat
  <1> DEFINE Good == {s \in SUBSET Ids : Charge(C, s) \in Nat}
  <1>1. ASSUME NEW s \in SUBSET Ids, \A t \in SUBSET s : t # s => t \in Good PROVE s \in Good
    <2>1. CASE s = {}
      <3>1. Charge(C, s) = 0
        BY <2>1, ChargeStep
      <3> QED BY <3>1
    <2>2. CASE s # {}
      <3>1. /\ Chosen(s) \in s
            /\ Charge(C, s) = C[Chosen(s)].size + Charge(C, s \ {Chosen(s)})
        BY <2>2, ChargeStep
      <3>2. Charge(C, s \ {Chosen(s)}) \in Nat /\ C[Chosen(s)].size \in Nat
        BY <1>1, <3>1 DEF Sized
      <3> QED BY <3>1, <3>2
    <2> QED BY <2>1, <2>2
  <1>2. \A s \in SUBSET Ids : s \in Good
    <2> HIDE DEF Good
    <2> QED BY <1>1, FiniteIds, Smaller
  <1> QED BY <1>2

\* Any replica of a set can be taken out first.
LEMMA ChargeTake ==
    ASSUME NEW C, Sized(C)
    PROVE  \A s \in SUBSET Ids : \A i \in s : Charge(C, s) = C[i].size + Charge(C, s \ {i})
  <1> DEFINE Good == {s \in SUBSET Ids : \A i \in s : Charge(C, s) = C[i].size + Charge(C, s \ {i})}
  <1>1. ASSUME NEW s \in SUBSET Ids, \A t \in SUBSET s : t # s => t \in Good PROVE s \in Good
    <2> SUFFICES ASSUME NEW i \in s PROVE Charge(C, s) = C[i].size + Charge(C, s \ {i})
      OBVIOUS
    <2> DEFINE c == Chosen(s)
               both == s \ {c, i}
    <2>1. c \in s /\ Charge(C, s) = C[c].size + Charge(C, s \ {c})
      BY ChargeStep
    <2>2. CASE i = c
      BY <2>1, <2>2
    <2>3. CASE i # c
      <3>1. (s \ {c}) \ {i} = both /\ (s \ {i}) \ {c} = both
        OBVIOUS
      <3>2. s \ {c} \in Good /\ s \ {i} \in Good
        BY <1>1, <2>1
      <3>3. Charge(C, s \ {c}) = C[i].size + Charge(C, both)
        BY <3>1, <3>2, <2>3
      <3>4. Charge(C, s \ {i}) = C[c].size + Charge(C, both)
        BY <3>1, <3>2, <2>1, <2>3
      <3>5. Charge(C, both) \in Nat /\ C[c].size \in Nat /\ C[i].size \in Nat
        BY <2>1, ChargeType DEF Sized
      <3> QED BY <2>1, <3>3, <3>4, <3>5
    <2> QED BY <2>2, <2>3
  <1>2. \A s \in SUBSET Ids : s \in Good
    <2> HIDE DEF Good
    <2> QED BY <1>1, FiniteIds, Smaller
  <1> QED BY <1>2

\* Only the sizes of the replicas of the set count.
LEMMA ChargeSame ==
    ASSUME NEW C, NEW B
    PROVE  \A s \in SUBSET Ids : (\A i \in s : B[i].size = C[i].size) => Charge(B, s) = Charge(C, s)
  <1> DEFINE Good == {s \in SUBSET Ids :
                        (\A i \in s : B[i].size = C[i].size) => Charge(B, s) = Charge(C, s)}
  <1>1. ASSUME NEW s \in SUBSET Ids, \A t \in SUBSET s : t # s => t \in Good PROVE s \in Good
    <2> SUFFICES ASSUME \A i \in s : B[i].size = C[i].size PROVE Charge(B, s) = Charge(C, s)
      OBVIOUS
    <2>1. CASE s = {}
      BY <2>1, ChargeStep
    <2>2. CASE s # {}
      <3>1. /\ Chosen(s) \in s
            /\ Charge(B, s) = B[Chosen(s)].size + Charge(B, s \ {Chosen(s)})
            /\ Charge(C, s) = C[Chosen(s)].size + Charge(C, s \ {Chosen(s)})
        BY <2>2, ChargeStep
      <3>2. s \ {Chosen(s)} \in Good
        BY <1>1, <3>1
      <3> QED BY <3>1, <3>2
    <2> QED BY <2>1, <2>2
  <1>2. \A s \in SUBSET Ids : s \in Good
    <2> HIDE DEF Good
    <2> QED BY <1>1, FiniteIds, Smaller
  <1> QED BY <1>2

\* A part costs no more than the whole.
LEMMA ChargeMore ==
    ASSUME NEW C, Sized(C)
    PROVE  \A s \in SUBSET Ids : \A t \in SUBSET s : Charge(C, t) <= Charge(C, s)
  <1> DEFINE Good == {s \in SUBSET Ids : \A t \in SUBSET s : Charge(C, t) <= Charge(C, s)}
  <1>1. ASSUME NEW s \in SUBSET Ids, \A u \in SUBSET s : u # s => u \in Good PROVE s \in Good
    <2> SUFFICES ASSUME NEW t \in SUBSET s PROVE Charge(C, t) <= Charge(C, s)
      OBVIOUS
    <2>1. Charge(C, t) \in Nat /\ Charge(C, s) \in Nat
      BY ChargeType
    <2>2. CASE t = s
      BY <2>1, <2>2
    <2>3. CASE t # s
      <3>1. PICK i \in s : i \notin t
        BY <2>3
      <3>2. s \ {i} \in Good /\ t \in SUBSET (s \ {i})
        BY <1>1, <3>1
      <3>3. Charge(C, t) <= Charge(C, s \ {i})
        BY <3>2
      <3>4. Charge(C, s) = C[i].size + Charge(C, s \ {i})
        BY ChargeTake
      <3>5. C[i].size \in Nat /\ Charge(C, s \ {i}) \in Nat
        BY ChargeType DEF Sized
      <3> QED BY <2>1, <3>3, <3>4, <3>5
    <2> QED BY <2>2, <2>3
  <1>2. \A s \in SUBSET Ids : s \in Good
    <2> HIDE DEF Good
    <2> QED BY <1>1, FiniteIds, Smaller
  <1> QED BY <1>2

----------------------------------------------------------------------------
(* The scheduler *)

Key == Int \X Int \X Int \X Int

\* The order of the keys: total where the last parts differ, and transitive.
LEMMA KeysAreOrdered ==
    ASSUME NEW a \in Key, NEW b \in Key, NEW c \in Key
    PROVE  /\ a[4] # b[4] => Precedes(a, b) \/ Precedes(b, a)
           /\ Precedes(a, b) /\ Precedes(b, c) => Precedes(a, c)
  <1> DEFINE Before(s, t) == \/ s[1] < t[1]
                             \/ s[1] = t[1] /\ s[2] < t[2]
                             \/ s[1] = t[1] /\ s[2] = t[2] /\ s[3] < t[3]
                             \/ s[1] = t[1] /\ s[2] = t[2] /\ s[3] = t[3] /\ s[4] < t[4]
  <1>1. ASSUME NEW s \in Key, NEW t \in Key PROVE Precedes(s, t) <=> Before(s, t)
    <2>1. \A i \in 1..4 : i = 1 \/ i = 2 \/ i = 3 \/ i = 4
      OBVIOUS
    <2>2. 1..0 = {} /\ 1..1 = {1} /\ 1..2 = {1, 2} /\ 1..3 = {1, 2, 3}
      OBVIOUS
    <2>3. \A j \in 1..4 : Precedes(s, t) <=>
            \E i \in {1, 2, 3, 4} : s[i] < t[i] /\ \A k \in 1..(i - 1) : s[k] = t[k]
      BY <2>1 DEF Precedes
    <2>4. Precedes(s, t) <=>
            \/ s[1] < t[1] /\ \A k \in 1..0 : s[k] = t[k]
            \/ s[2] < t[2] /\ \A k \in 1..1 : s[k] = t[k]
            \/ s[3] < t[3] /\ \A k \in 1..2 : s[k] = t[k]
            \/ s[4] < t[4] /\ \A k \in 1..3 : s[k] = t[k]
      BY <2>1, <2>2, <2>3
    <2> QED BY <2>2, <2>4
  <1>2. \A i \in 1..4 : a[i] \in Int /\ b[i] \in Int /\ c[i] \in Int
    BY DEF Key
  <1>3. a[4] # b[4] => Before(a, b) \/ Before(b, a)
    BY <1>2
  <1>4. Before(a, b) /\ Before(b, c) => Before(a, c)
    BY <1>2
  <1> QED BY <1>1, <1>3, <1>4

\* A ledger of numbers.
Numbers(ledger) ==
    \A n \in Nodes : /\ ledger[n].cpu \in Nat /\ ledger[n].memory \in Nat
                     /\ IsFiniteSet(ledger[n].replicas)

\* Where a request fits somewhere it is placed where it fits.
LEMMA SelectFits ==
    ASSUME NEW ledger, Numbers(ledger), NEW request, Candidates(ledger, request) # {}
    PROVE  SelectNode(ledger, request) \in Candidates(ledger, request)
  <1> DEFINE K(n) == PlacementKey(ledger, n)
             Least(s) == \E n \in s : \A m \in s \ {n} : Precedes(K(n), K(m))
             Good == {s \in SUBSET Nodes : s # {} => Least(s)}
             C == Candidates(ledger, request)
  <1>1. \A n \in Nodes : K(n) \in Key /\ K(n)[4] = n
    <2> SUFFICES ASSUME NEW n \in Nodes PROVE K(n) \in Key /\ K(n)[4] = n
      OBVIOUS
    <2>1. n \in Int /\ ledger[n].cpu \in Int /\ ledger[n].memory \in Int
      BY NodeAssumption DEF Nodes, Numbers
    <2>2. Cardinality(ledger[n].replicas) \in Int
      <3>1. Cardinality(ledger[n].replicas) \in Nat
        BY FS_CardinalityType DEF Numbers
      <3> QED BY <3>1
    <2>3. CpuCapacity \in Int /\ MemoryCapacity \in Int
      BY NodeAssumption
    <2> QED BY <2>1, <2>2, <2>3 DEF PlacementKey, AvailableCpu, AvailableMemory, Key
  <1>2. IsFiniteSet(Nodes)
    <2>1. 1 \in Int /\ NodeCount \in Int
      BY NodeAssumption
    <2> QED BY <2>1, FS_Interval DEF Nodes
  <1> HIDE DEF K
  <1>3. ASSUME NEW s \in SUBSET Nodes, \A t \in SUBSET s : t # s => t \in Good PROVE s \in Good
    <2> SUFFICES ASSUME s # {} PROVE Least(s)
      OBVIOUS
    <2>1. PICK x : x \in s
      OBVIOUS
    <2>2. CASE s \ {x} = {}
      BY <2>1, <2>2
    <2>3. CASE s \ {x} # {}
      <3>1. s \ {x} \in Good
        BY <1>3, <2>1
      <3>2. PICK n \in s \ {x} : \A m \in (s \ {x}) \ {n} : Precedes(K(n), K(m))
        BY <2>3, <3>1
      <3>3. n # x /\ n \in Nodes /\ x \in Nodes
        BY <2>1, <3>2
      <3>4. CASE Precedes(K(n), K(x))
        BY <3>2, <3>4
      <3>5. CASE Precedes(K(x), K(n))
        <4>1. ASSUME NEW m \in s \ {x} PROVE Precedes(K(x), K(m))
          <5>1. m = n \/ Precedes(K(n), K(m))
            BY <3>2
          <5>2. K(x) \in Key /\ K(n) \in Key /\ K(m) \in Key
            BY <1>1, <3>3
          <5> QED BY <3>5, <5>1, <5>2, KeysAreOrdered
        <4> QED BY <2>1, <4>1
      <3>6. Precedes(K(n), K(x)) \/ Precedes(K(x), K(n))
        BY <1>1, <3>3, KeysAreOrdered
      <3> QED BY <3>4, <3>5, <3>6
    <2> QED BY <2>2, <2>3
  <1>4. \A s \in SUBSET Nodes : s \in Good
    <2> HIDE DEF Good
    <2> QED BY <1>2, <1>3, Smaller
  <1>5. C \in SUBSET Nodes
    BY DEF Candidates
  <1>6. \E n \in C : \A m \in C \ {n} : Precedes(K(n), K(m))
    BY <1>4, <1>5
  <1> QED BY <1>6 DEF SelectNode, K

----------------------------------------------------------------------------
(* The ledger *)

\* What is charged: a replica that runs, or has exited and is not yet released.
\* The replica that was just started is not charged yet.
Live(i) == containers[i].state \in {"running", "exited"}
Charging(i) == pass.at = "charge" /\ i = Head(pass.remove)
On(n) == {i \in Ids : Live(i) /\ ~Charging(i) /\ containers[i].node = n}

\* What the ledger says of those that live but for some that were released.
LedgerOf(gone) ==
    [n \in Nodes |-> [cpu |-> Charge(containers, On(n) \ gone), memory |-> 0,
                      replicas |-> On(n) \ gone]]

ContainerShape ==
    /\ DOMAIN containers = Ids
    /\ \A i \in Ids : /\ DOMAIN containers[i] = DOMAIN NoContainer
                      /\ containers[i].size \in Nat
                      /\ Live(i) => containers[i].node \in Nodes

LedgerInv ==
    /\ nodes = LedgerOf({})
    /\ \A n \in Nodes : nodes[n].cpu <= CpuCapacity

\* The ledger holds numbers, and the replicas that live, each on its node.
LEMMA LedgerFields ==
    ASSUME ContainerShape, NEW gone
    PROVE  /\ DOMAIN LedgerOf(gone) = Nodes
           /\ \A n \in Nodes :
                 /\ On(n) \in SUBSET Ids
                 /\ LedgerOf(gone)[n] = [cpu |-> Charge(containers, On(n) \ gone), memory |-> 0,
                                         replicas |-> On(n) \ gone]
                 /\ LedgerOf(gone)[n].cpu = Charge(containers, On(n) \ gone)
                 /\ LedgerOf(gone)[n].memory = 0
                 /\ LedgerOf(gone)[n].replicas = On(n) \ gone
                 /\ Charge(containers, On(n) \ gone) \in Nat
           /\ Numbers(LedgerOf(gone))
           /\ Sized(containers)
  <1>1. \A n \in Nodes : On(n) \in SUBSET Ids
    BY DEF On
  <1>2. Sized(containers)
    BY DEF ContainerShape, Sized
  <1>3. \A n \in Nodes : Charge(containers, On(n) \ gone) \in Nat /\ IsFiniteSet(On(n) \ gone)
    BY <1>1, <1>2, ChargeType, FiniteIds
  <1>4. DOMAIN LedgerOf(gone) = Nodes
    BY DEF LedgerOf
  <1>5. \A n \in Nodes : LedgerOf(gone)[n] = [cpu |-> Charge(containers, On(n) \ gone), memory |-> 0,
                                              replicas |-> On(n) \ gone]
    BY DEF LedgerOf
  <1>6. ASSUME NEW n \in Nodes
        PROVE  /\ LedgerOf(gone)[n].cpu = Charge(containers, On(n) \ gone)
               /\ LedgerOf(gone)[n].memory = 0
               /\ LedgerOf(gone)[n].replicas = On(n) \ gone
    <2>1. PICK c, r : c = Charge(containers, On(n) \ gone) /\ r = On(n) \ gone
      OBVIOUS
    <2>2. LedgerOf(gone)[n] = [cpu |-> c, memory |-> 0, replicas |-> r]
      BY <1>5, <2>1
    <2> QED BY <2>1, <2>2
  <1>7. Numbers(LedgerOf(gone))
    <2> SUFFICES ASSUME NEW n \in Nodes
                 PROVE  /\ LedgerOf(gone)[n].cpu \in Nat /\ LedgerOf(gone)[n].memory \in Nat
                        /\ IsFiniteSet(LedgerOf(gone)[n].replicas)
      BY DEF Numbers
    <2>1. PICK l : l = LedgerOf(gone)[n]
      OBVIOUS
    <2>2. l.cpu \in Nat /\ l.memory = 0 /\ IsFiniteSet(l.replicas)
      BY <1>3, <1>6, <2>1
    <2> QED BY <2>1, <2>2
  <1> QED BY <1>1, <1>2, <1>3, <1>4, <1>5, <1>6, <1>7

\* A replica that lives gives back what it was given.
LEMMA ReleaseOne ==
    ASSUME ContainerShape, NEW gone, NEW i \in Ids, Live(i), ~Charging(i), i \notin gone
    PROVE  Deallocate(LedgerOf(gone), containers[i].node, i, Request(containers[i].size))
           = LedgerOf(gone \cup {i})
  <1> DEFINE n == containers[i].node
             size == containers[i].size
             after == Deallocate(LedgerOf(gone), n, i, Request(size))
  <1>1. n \in Nodes /\ i \in On(n) \ gone /\ size \in Nat
    BY DEF ContainerShape, On
  <1>2. \A m \in Nodes : m # n => On(m) \ (gone \cup {i}) = On(m) \ gone
    BY DEF On
  <1>3. On(n) \ (gone \cup {i}) = (On(n) \ gone) \ {i}
    OBVIOUS
  <1>4. Charge(containers, On(n) \ gone) = size + Charge(containers, (On(n) \ gone) \ {i})
    <2>1. On(n) \ gone \in SUBSET Ids /\ Sized(containers)
      BY <1>1, LedgerFields
    <2> QED BY <1>1, <2>1, ChargeTake
  <1>5. Charge(containers, (On(n) \ gone) \ {i}) \in Nat
    BY <1>1, <1>3, LedgerFields
  <1>6. Less(Charge(containers, On(n) \ gone), size) = Charge(containers, (On(n) \ gone) \ {i})
    <2> HIDE DEF n, size
    <2> QED BY <1>1, <1>4, <1>5 DEF Less
  <1>7. Less(0, 0) = 0
    BY DEF Less
  <1> HIDE DEF n
  <1>8. LedgerOf(gone)[n].cpu = Charge(containers, On(n) \ gone) /\ LedgerOf(gone)[n].memory = 0
        /\ LedgerOf(gone)[n].replicas = On(n) \ gone
    BY <1>1, LedgerFields
  <1>9. DOMAIN after = Nodes /\ \A m \in Nodes :
          after[m] = IF m = n THEN [cpu |-> Charge(containers, (On(n) \ gone) \ {i}), memory |-> 0,
                                    replicas |-> (On(n) \ gone) \ {i}]
                     ELSE LedgerOf(gone)[m]
    BY <1>1, <1>6, <1>7, <1>8, LedgerFields DEF Deallocate, Request
  <1>10. DOMAIN LedgerOf(gone \cup {i}) = Nodes /\ \A m \in Nodes :
           LedgerOf(gone \cup {i})[m] =
               [cpu |-> Charge(containers, On(m) \ (gone \cup {i})), memory |-> 0,
                replicas |-> On(m) \ (gone \cup {i})]
    BY LedgerFields
  <1>11. \A m \in Nodes : after[m] = LedgerOf(gone \cup {i})[m]
    <2> HIDE DEF after
    <2> SUFFICES ASSUME NEW m \in Nodes PROVE after[m] = LedgerOf(gone \cup {i})[m]
      OBVIOUS
    <2>1. CASE m = n
      BY <2>1, <1>3, <1>9, <1>10
    <2>2. CASE m # n
      <3>1. after[m] = LedgerOf(gone)[m]
        BY <2>2, <1>9
      <3>2. LedgerOf(gone)[m] = [cpu |-> Charge(containers, On(m) \ gone), memory |-> 0,
                                 replicas |-> On(m) \ gone]
        BY LedgerFields
      <3> QED BY <2>2, <3>1, <3>2, <1>2, <1>10
    <2> QED BY <2>1, <2>2
  <1>12. after = [m \in Nodes |-> after[m]]
    BY <1>1 DEF Deallocate, LedgerOf
  <1>13. LedgerOf(gone \cup {i}) = [m \in Nodes |-> LedgerOf(gone \cup {i})[m]]
    BY DEF LedgerOf
  <1> HIDE DEF after
  <1>14. after = LedgerOf(gone \cup {i})
    BY <1>11, <1>12, <1>13
  <1> QED BY <1>14 DEF after, n

\* What the pass makes of one replica it observes.
LEMMA ObserveOne ==
    ASSUME ContainerShape, NEW gone, NEW i \in Ids, Live(i), ~Charging(i), i \notin gone,
           containers[i].size = pass.base.size
    PROVE  Observe(LedgerOf(gone), i) = LedgerOf(IF Running(i) THEN gone ELSE gone \cup {i})
  <1>1. CASE Running(i)
    <2>1. containers[i].node \in Nodes /\ i \in On(containers[i].node)
      BY DEF ContainerShape, On
    <2>2. i \in LedgerOf(gone)[containers[i].node].replicas
      <3>1. PICK n : n = containers[i].node
        OBVIOUS
      <3>2. LedgerOf(gone)[n].replicas = On(n) \ gone
        BY <2>1, <3>1, LedgerFields
      <3> QED BY <2>1, <3>1, <3>2
    <2> QED BY <1>1, <2>2 DEF Observe, Allocate
  <1>2. CASE ~Running(i)
    BY <1>2, ReleaseOne DEF Observe
  <1> QED BY <1>1, <1>2

\* FoldLeft is a recursive function over the positions still to be taken.
Folds(it, ledger, q, sets) ==
    it = [s \in sets |-> IF s = {} THEN ledger ELSE Observe(it[s \ {Max(s)}], q[Max(s)])]

Folded(ledger, q) == CHOOSE it : Folds(it, ledger, q, SUBSET DOMAIN q)

\* There is one way to fold.
LEMMA OneFold ==
    ASSUME NEW ledger, NEW q, NEW D \in SUBSET Nat, IsFiniteSet(D), NEW f, NEW g,
           Folds(f, ledger, q, SUBSET D), Folds(g, ledger, q, SUBSET D)
    PROVE  \A s \in SUBSET D : f[s] = g[s]
  <1> DEFINE Good == {s \in SUBSET D : f[s] = g[s]}
  <1>1. \A s \in SUBSET D : f[s] = IF s = {} THEN ledger ELSE Observe(f[s \ {Max(s)}], q[Max(s)])
    <2>1. f = [s \in SUBSET D |-> IF s = {} THEN ledger ELSE Observe(f[s \ {Max(s)}], q[Max(s)])]
      BY DEF Folds
    <2> QED BY <2>1
  <1>2. \A s \in SUBSET D : g[s] = IF s = {} THEN ledger ELSE Observe(g[s \ {Max(s)}], q[Max(s)])
    <2>1. g = [s \in SUBSET D |-> IF s = {} THEN ledger ELSE Observe(g[s \ {Max(s)}], q[Max(s)])]
      BY DEF Folds
    <2> QED BY <2>1
  <1>3. ASSUME NEW s \in SUBSET D, \A t \in SUBSET s : t # s => t \in Good PROVE s \in Good
    <2>1. CASE s = {}
      BY <1>1, <1>2, <2>1
    <2>2. CASE s # {}
      <3>1. Max(s) \in s
        BY <2>2, LargestIsIn
      <3>2. s \ {Max(s)} \in Good
        BY <1>3, <3>1
      <3> QED BY <1>1, <1>2, <2>2, <3>2
    <2> QED BY <2>1, <2>2
  <1>4. \A s \in SUBSET D : s \in Good
    <2> HIDE DEF Good
    <2> QED BY <1>3, Smaller
  <1> QED BY <1>4

\* Observing all replicas of a row releases those that do not run.
LEMMA ObserveAll ==
    ASSUME ContainerShape, NEW R \in SUBSET Ids, pass.at # "charge",
           \A i \in R : Live(i) /\ containers[i].size = pass.base.size
    PROVE  FoldLeft(Observe, LedgerOf({}), InOrder(R)) = LedgerOf({i \in R : ~Running(i)})
  <1>1. PICK q : q = InOrder(R)
    OBVIOUS
  <1>2. PICK n : n = Len(q)
    OBVIOUS
  <1>3. /\ n \in Nat /\ DOMAIN q = 1..n
        /\ \A k \in 1..n : q[k] \in R
        /\ \A k, l \in 1..n : q[k] = q[l] => k = l
        /\ \A x \in R : \E k \in 1..n : q[k] = x
    BY <1>1, <1>2, InOrderLists DEF Lists
  <1> DEFINE D == 1..n
             G(s) == {q[k] : k \in {l \in s : ~Running(q[l])}}
             it == [s \in SUBSET D |-> LedgerOf(G(s))]
  <1>4. D \in SUBSET Nat /\ IsFiniteSet(D)
    <2>1. 1 \in Int /\ n \in Int
      BY <1>3
    <2> QED BY <1>3, <2>1, FS_Interval
  <1>5. ASSUME NEW s \in SUBSET D
        PROVE  it[s] = IF s = {} THEN LedgerOf({}) ELSE Observe(it[s \ {Max(s)}], q[Max(s)])
    <2>1. CASE s = {}
      <3>1. G(s) = {}
        BY <2>1
      <3>2. it[s] = LedgerOf(G(s))
        OBVIOUS
      <3> HIDE DEF it, G
      <3> QED BY <2>1, <3>1, <3>2
    <2>2. CASE s # {}
      <3> DEFINE m == Max(s)
                 t == s \ {m}
      <3>1. m \in s
        BY <1>4, <2>2, LargestIsIn
      <3>2. q[m] \in Ids /\ Live(q[m]) /\ ~Charging(q[m]) /\ containers[q[m]].size = pass.base.size
        BY <1>3, <3>1 DEF Charging
      <3>3. q[m] \notin G(t)
        BY <1>3, <3>1
      <3>4. it[s] = LedgerOf(G(s)) /\ it[t] = LedgerOf(G(t))
        OBVIOUS
      <3>5. G(s) = IF Running(q[m]) THEN G(t) ELSE G(t) \cup {q[m]}
        <4> HIDE DEF m
        <4>1. s = t \cup {m}
          BY <3>1
        <4> HIDE DEF t
        <4> QED BY <4>1
      <3>6. Observe(LedgerOf(G(t)), q[m]) = LedgerOf(G(s))
        <4> HIDE DEF it, G, m, t
        <4> QED BY <3>2, <3>3, <3>5, ObserveOne
      <3> HIDE DEF it, G
      <3> QED BY <2>2, <3>4, <3>6
    <2> QED BY <2>1, <2>2
  <1>6. Folds(it, LedgerOf({}), q, SUBSET D)
    <2>1. it = [s \in SUBSET D |-> it[s]]
      OBVIOUS
    <2> HIDE DEF it
    <2>2. [s \in SUBSET D |-> it[s]] =
          [s \in SUBSET D |-> IF s = {} THEN LedgerOf({}) ELSE Observe(it[s \ {Max(s)}], q[Max(s)])]
      BY <1>5
    <2> QED BY <2>1, <2>2 DEF Folds
  <1>7. Folds(Folded(LedgerOf({}), q), LedgerOf({}), q, SUBSET D)
    <2>1. \E f : Folds(f, LedgerOf({}), q, SUBSET D)
      <3> HIDE DEF it
      <3> QED BY <1>6
    <2> QED BY <1>3, <2>1 DEF Folded
  <1>8. Folded(LedgerOf({}), q)[D] = it[D]
    <2> HIDE DEF it, D
    <2> QED BY <1>4, <1>6, <1>7, OneFold
  <1>9. G(D) = {i \in R : ~Running(i)}
    BY <1>3
  <1>10. it[D] = LedgerOf(G(D))
    OBVIOUS
  <1>11. FoldLeft(Observe, LedgerOf({}), InOrder(R))
         = Folded(LedgerOf({}), InOrder(R))[DOMAIN InOrder(R)]
    BY DEF FoldLeft, MapThenFoldSet, Folded, Folds
  <1>12. Folded(LedgerOf({}), InOrder(R))[DOMAIN InOrder(R)] = Folded(LedgerOf({}), q)[D]
    BY <1>1, <1>3
  <1> HIDE DEF it, G, D
  <1> QED BY <1>8, <1>9, <1>10, <1>11, <1>12

----------------------------------------------------------------------------
(* What is invariant *)

RowFields == {"exists", "deleting", "desired", "size", "image", "replicas"}
PassFields == {"at", "todo", "name", "base", "desired", "remove", "create", "node", "then"}

RowShape ==
    /\ DOMAIN rows = Services
    /\ \A s \in Services : /\ DOMAIN rows[s] = RowFields
                           /\ rows[s].size \in Nat /\ rows[s].desired \in Nat
                           /\ rows[s].replicas \subseteq Ids

\* A replica that has been released and whose record is the next to go.
Leaving(s, i) == pass.at = "unrecord" /\ pass.name = s /\ i = Head(pass.remove)

\* What a row records lives and was given what the row asks for, and no two
\* rows record the same replica.
RowsInv ==
    /\ \A s \in Services : \A i \in rows[s].replicas :
          Leaving(s, i) \/ (Live(i) /\ containers[i].size = rows[s].size)
    /\ \A s, t \in Services : \A i \in rows[s].replicas : i \in rows[t].replicas => s = t

PassShape ==
    /\ DOMAIN pass = PassFields /\ DOMAIN pass.base = RowFields
    /\ pass.base.size \in Nat /\ pass.base.desired \in Nat /\ pass.base.replicas \subseteq Ids
    /\ pass.desired \in Nat

\* What was listed of a service is what its row still says of its replicas.
Listing(e) ==
    /\ e.name \in Services /\ rows[e.name].exists
    /\ DOMAIN e.base = RowFields /\ e.base.exists /\ e.base.desired \in Nat
    /\ e.base.replicas = rows[e.name].replicas /\ e.base.size = rows[e.name].size

Busy == pass.at \notin {"idle", "next"}

\* The services still to come are listed once, and not the one in hand.
TodoInv ==
    /\ \E S : pass.todo \in Seq(S)
    /\ \A k \in 1..Len(pass.todo) : Listing(pass.todo[k]) /\ (Busy => pass.todo[k].name # pass.name)
    /\ \A k, l \in 1..Len(pass.todo) : pass.todo[k].name = pass.todo[l].name => k = l

\* The service in hand has its row, of the size the pass knows.
BusyInv ==
    Busy => /\ pass.name \in Services /\ rows[pass.name].exists /\ pass.base.exists
            /\ pass.base.size = rows[pass.name].size

\* What the pass holds: the replicas as listed, those it removes, the one it
\* has started and not yet recorded, and the room it has found.
WorkInv ==
    /\ pass.at = "refresh" => pass.base.replicas = rows[pass.name].replicas
    /\ pass.at \in {"remove", "unrecord"} => /\ Lists(pass.remove, rows[pass.name].replicas)
                                             /\ pass.then \in {"forget", "status", "reread"}
    /\ pass.at = "unrecord" => pass.remove # <<>>
    /\ pass.at \in {"charge", "record"} =>
          /\ Head(pass.remove) \in Ids /\ Live(Head(pass.remove))
          /\ containers[Head(pass.remove)].size = pass.base.size
          /\ \A s \in Services : Head(pass.remove) \notin rows[s].replicas
    /\ pass.at \in {"start", "charge"} => /\ pass.node \in Nodes
                                         /\ nodes[pass.node].cpu + pass.base.size <= CpuCapacity
    /\ pass.at = "charge" => containers[Head(pass.remove)].node = pass.node

Alone == \A s \in Services : rollouts[s].at = "idle"

NodesInv ==
    /\ Undisturbed /\ Alone
    /\ ContainerShape /\ LedgerInv
    /\ RowShape /\ RowsInv
    /\ PassShape /\ TodoInv /\ BusyInv /\ WorkInv

\* Sizes that may be asked for are numbers.
LEMMA SizesAreNumbers == scenario \in Scenarios => scenario.sizes \subseteq Nat
  <1> SUFFICES ASSUME scenario \in Scenarios PROVE scenario.sizes \subseteq Nat
    OBVIOUS
  <1>1. scenario \in Scenario
    BY SharedNodesAssumption
  <1> QED BY <1>1 DEF Scenario

LEMMA NodesInit == Init /\ Undisturbed => NodesInv
  <1> SUFFICES ASSUME Init, Undisturbed PROVE NodesInv
    OBVIOUS
  <1>1. ContainerShape /\ \A i \in Ids : ~Live(i)
    BY DEF Init, NoContainer, ContainerShape, Live
  <1>2. LedgerInv
    <2>1. \A n \in Nodes : On(n) \ {} = {}
      BY <1>1 DEF On
    <2>2. \A n \in Nodes : Charge(containers, On(n) \ {}) = 0
      BY <2>1, ChargeStep
    <2>3. LedgerOf({}) = [n \in Nodes |-> [cpu |-> 0, memory |-> 0, replicas |-> {}]]
      BY <2>1, <2>2 DEF LedgerOf
    <2>4. nodes = LedgerOf({})
      BY <2>3 DEF Init, FreshNodes
    <2>5. \A n \in Nodes : nodes[n].cpu = 0
      BY DEF Init, FreshNodes
    <2> QED BY <2>4, <2>5, NodeAssumption DEF LedgerInv
  <1>4. DOMAIN rows = Services
    BY DEF Init
  <1>5. RowShape /\ RowsInv
    <2>1. ASSUME NEW s \in Services
          PROVE  DOMAIN rows[s] = RowFields /\ rows[s].size \in Nat /\ rows[s].desired \in Nat
                 /\ rows[s].replicas = {}
      <3>1. PICK z \in scenario.sizes : rows[s] = [NoRow EXCEPT !.exists = TRUE, !.desired = 1, !.size = z]
        BY DEF Init
      <3>2. z \in Nat
        BY SizesAreNumbers DEF Init
      <3>3. PICK r : r = [NoRow EXCEPT !.exists = TRUE, !.desired = 1, !.size = z]
        OBVIOUS
      <3>4. DOMAIN r = RowFields /\ r.size = z /\ r.desired = 1 /\ r.replicas = {}
        BY <3>3 DEF NoRow, RowFields
      <3> QED BY <3>1, <3>2, <3>3, <3>4
    <2> QED BY <1>4, <2>1 DEF RowShape, RowsInv
  <1>6. PassShape /\ pass.at = "idle" /\ pass.todo = <<>>
    BY DEF Init, Idle, NoRow, PassShape, PassFields, RowFields
  <1>7. TodoInv
    <2>1. <<>> \in Seq({}) /\ Len(<<>>) = 0 /\ 1..0 = {}
      OBVIOUS
    <2> QED BY <1>6, <2>1 DEF TodoInv
  <1>8. BusyInv /\ WorkInv
    BY <1>6 DEF BusyInv, Busy, WorkInv
  <1>9. Alone
    BY DEF Init, NoRollout, Alone
  <1> QED BY <1>1, <1>2, <1>5, <1>6, <1>7, <1>8, <1>9 DEF NodesInv

----------------------------------------------------------------------------
(* Steps that leave the ledger alone *)

LEMMA LedgerStays ==
    ASSUME ContainerShape, LedgerInv, UNCHANGED <<containers, nodes>>,
           \A i \in Ids : (Charging(i)' <=> Charging(i))
    PROVE  ContainerShape' /\ LedgerInv'
  BY DEF ContainerShape, LedgerInv, LedgerOf, On, Live

\* Only a start begins a charge and only a charge ends it.
LEMMA NothingCharged ==
    ASSUME pass.at # "charge", pass'.at # "charge"
    PROVE  \A i : Charging(i)' <=> Charging(i)
  BY DEF Charging

LEMMA OthersStay ==
    ASSUME Undisturbed, Alone, UNCHANGED <<rollouts, scenario>>
    PROVE  Undisturbed' /\ Alone'
  BY DEF Undisturbed, Alone

\* Between two removals every record is of a replica that lives.
LEMMA RowsStay ==
    ASSUME RowShape, RowsInv, pass.at # "unrecord", UNCHANGED <<rows, containers>>
    PROVE  RowShape' /\ RowsInv'
  BY DEF RowShape, RowsInv, Leaving, Live

\* Steps of the pass that change nothing but what it holds.
LEMMA OnlyPass ==
    ASSUME NodesInv, pass.at # "unrecord", UNCHANGED <<rows, containers, nodes, rollouts, scenario>>,
           pass.at # "charge", pass'.at # "charge",
           PassShape', TodoInv', BusyInv', WorkInv'
    PROVE  NodesInv'
  BY LedgerStays, NothingCharged, OthersStay, RowsStay DEF NodesInv

LEMMA ToIdle ==
    ASSUME NodesInv, pass' = Idle
    PROVE  PassShape' /\ TodoInv' /\ BusyInv' /\ WorkInv' /\ pass'.at # "charge"
  <1>1. /\ pass'.at = "idle" /\ pass'.todo = <<>>
        /\ PassShape'
    BY DEF Idle, NoRow, PassShape, PassFields, RowFields
  <1>2. TodoInv'
    <2>1. <<>> \in Seq({}) /\ Len(<<>>) = 0 /\ 1..0 = {}
      OBVIOUS
    <2> QED BY <1>1, <2>1 DEF TodoInv
  <1> QED BY <1>1, <1>2 DEF BusyInv, Busy, WorkInv

\* The listing has every service that there is, once.
LEMMA ListStep == NodesInv /\ List => NodesInv'
  <1> SUFFICES ASSUME NodesInv, List PROVE NodesInv'
    OBVIOUS
  <1> DEFINE S == {s \in Services : rows[s].exists}
             E == {[name |-> s, base |-> rows[s]] : s \in S}
  <1>1. PICK order \in SetToSeqs(S) :
          pass' = [Idle EXCEPT !.at = "next",
                               !.todo = [k \in DOMAIN order |-> [name |-> order[k], base |-> rows[order[k]]]]]
    BY DEF List
  <1>2. PICK n \in Nat : /\ order \in [1..n -> S]
                         /\ \A k, l \in 1..n : k # l => order[k] # order[l]
    <2>1. IsFiniteSet(S)
      BY SharedNodesAssumption, FS_Subset
    <2>2. Cardinality(S) \in Nat
      BY <2>1, FS_CardinalityType
    <2> HIDE DEF S
    <2> QED BY <2>2 DEF SetToSeqs
  <1>10. PICK todo : todo = [k \in 1..n |-> [name |-> order[k], base |-> rows[order[k]]]]
    OBVIOUS
  <1>3. pass' = [Idle EXCEPT !.at = "next", !.todo = todo]
    BY <1>1, <1>2, <1>10
  <1>4. PICK T : todo \in Seq(T) /\ Len(todo) = n
    <2>1. todo \in Seq(E) /\ Len(todo) = n
      BY <1>2, <1>10
    <2> HIDE DEF E
    <2> QED BY <2>1
  <1>5. \A k \in 1..n : todo[k].name = order[k] /\ todo[k].base = rows[order[k]] /\ order[k] \in S
    BY <1>2, <1>10
  <1>6. /\ pass'.at = "next" /\ pass'.todo = todo
        /\ PassShape'
    BY <1>3 DEF Idle, NoRow, PassShape, PassFields, RowFields
  <1>7. TodoInv'
    <2>1. \A k \in 1..n : Listing(todo[k])'
      <3> SUFFICES ASSUME NEW k \in 1..n PROVE Listing(todo[k])'
        OBVIOUS
      <3>1. order[k] \in Services /\ rows[order[k]].exists /\ rows' = rows
        BY <1>5 DEF List
      <3>2. PICK e : e = todo[k]
        OBVIOUS
      <3>3. e.name = order[k] /\ e.base = rows[order[k]]
        BY <1>5, <3>2
      <3> QED BY <3>1, <3>2, <3>3 DEF NodesInv, RowShape, Listing
    <2>2. \A k, l \in 1..n : todo[k].name = todo[l].name => k = l
      BY <1>2, <1>5
    <2>3. ~Busy'
      BY <1>6 DEF Busy
    <2>4. pass'.todo \in Seq(T)
      BY <1>4, <1>6
    <2>5. Len(pass'.todo) = n
      BY <1>4, <1>6
    <2> QED BY <1>6, <2>1, <2>2, <2>3, <2>4, <2>5 DEF TodoInv
  <1>8. BusyInv' /\ WorkInv'
    BY <1>6 DEF BusyInv, Busy, WorkInv
  <1>9. pass.at = "idle" /\ UNCHANGED <<rows, containers, nodes, rollouts, scenario>>
    BY DEF List, limits
  <1> QED BY <1>6, <1>7, <1>8, <1>9, OnlyPass

\* What a row still says of its replicas, over a step.
Same(s) ==
    /\ rows'[s].exists = rows[s].exists /\ rows'[s].size = rows[s].size
    /\ rows'[s].replicas = rows[s].replicas

LEMMA TodoStays ==
    ASSUME TodoInv, pass'.todo = pass.todo, Busy' => Busy /\ pass'.name = pass.name,
           \A s \in Services : Same(s) \/ (Busy /\ s = pass.name)
    PROVE  TodoInv'
  <1>1. PICK q : q = pass.todo
    OBVIOUS
  <1>2. ASSUME NEW k \in 1..Len(q)
        PROVE  Listing(q[k])' /\ (Busy' => q[k].name # pass'.name)
    <2>1. PICK e : e = q[k]
      OBVIOUS
    <2>2. Listing(e) /\ (Busy => e.name # pass.name)
      BY <1>1, <2>1 DEF TodoInv
    <2>3. Same(e.name)
      BY <2>2 DEF Listing
    <2> QED BY <2>1, <2>2, <2>3 DEF Listing, Same
  <1>3. /\ \E S : q \in Seq(S)
        /\ \A k, l \in 1..Len(q) : q[k].name = q[l].name => k = l
    BY <1>1 DEF TodoInv
  <1>4. pass'.todo = q
    BY <1>1
  <1> QED BY <1>2, <1>3, <1>4 DEF TodoInv

\* The next service is taken with what was listed of it.
LEMMA NextServiceStep == NodesInv /\ NextService => NodesInv'
  <1> SUFFICES ASSUME NodesInv, NextService PROVE NodesInv'
    OBVIOUS
  <1>1. pass.at = "next" /\ UNCHANGED <<rows, containers, nodes, rollouts, scenario>>
    BY DEF NextService, limits
  <1>2. CASE pass.todo = <<>>
    <2>1. pass' = Idle
      BY <1>2 DEF NextService
    <2> QED BY <1>1, <2>1, ToIdle, OnlyPass
  <1>3. CASE pass.todo # <<>>
    <2>1. PICK q, S : q = pass.todo /\ q \in Seq(S)
      BY DEF NodesInv, TodoInv
    <2>2. PICK e : e = Head(q)
      OBVIOUS
    <2>3. PICK t : t = Tail(q)
      OBVIOUS
    <2>4. /\ Len(q) \in Nat \ {0} /\ e = q[1] /\ 1 \in 1..Len(q)
          /\ t \in Seq(S) /\ Len(t) = Len(q) - 1 /\ \A k \in 1..Len(t) : t[k] = q[k + 1]
      BY <1>3, <2>1, <2>2, <2>3, HeadTailProperties
    <2>5. \A k \in 1..Len(q) : Listing(q[k])
      BY <2>1 DEF NodesInv, TodoInv
    <2>6. \A k, l \in 1..Len(q) : q[k].name = q[l].name => k = l
      BY <2>1 DEF NodesInv, TodoInv
    <2>7. Listing(e)
      BY <2>4, <2>5
    <2>8. /\ e.name \in Services /\ rows[e.name].exists /\ DOMAIN e.base = RowFields /\ e.base.exists
          /\ e.base.desired \in Nat /\ e.base.replicas = rows[e.name].replicas
          /\ e.base.size = rows[e.name].size /\ e.base.size \in Nat /\ e.base.replicas \in SUBSET Ids
      BY <2>7 DEF Listing, NodesInv, RowShape
    <2>9. PICK p, b : p = pass' /\ b = e.base
      OBVIOUS
    <2>10. /\ DOMAIN p = PassFields /\ p.todo = t /\ p.name = e.name /\ p.base = b
           /\ p.desired \in Nat
           /\ \/ p.at = "refresh"
              \/ p.at = "remove" /\ p.remove = InOrder(b.replicas) /\ p.then = "forget"
      BY <1>3, <2>1, <2>2, <2>3, <2>8, <2>9 DEF NextService, Idle, PassFields
    <2>11. PassShape'
      BY <2>8, <2>9, <2>10 DEF PassShape
    <2>12. TodoInv'
      <3>1. ASSUME NEW k \in 1..Len(t) PROVE Listing(t[k])' /\ t[k].name # e.name
        <4>1. k + 1 \in 1..Len(q) /\ t[k] = q[k + 1] /\ k + 1 # 1
          BY <2>4
        <4>2. Listing(q[k + 1]) /\ q[k + 1].name # q[1].name
          BY <2>4, <2>5, <2>6, <4>1
        <4>3. PICK f : f = q[k + 1]
          OBVIOUS
        <4>4. Listing(f)'
          BY <1>1, <4>2, <4>3 DEF Listing
        <4> QED BY <2>4, <4>1, <4>2, <4>3, <4>4
      <3>2. \A k, l \in 1..Len(t) : t[k].name = t[l].name => k = l
        <4> SUFFICES ASSUME NEW k \in 1..Len(t), NEW l \in 1..Len(t), t[k].name = t[l].name PROVE k = l
          OBVIOUS
        <4>1. k + 1 \in 1..Len(q) /\ l + 1 \in 1..Len(q)
          BY <2>4
        <4>2. k + 1 = l + 1
          BY <2>4, <2>6, <4>1
        <4> QED BY <4>2
      <3>3. pass'.todo = t /\ pass'.name = e.name
        BY <2>9, <2>10
      <3> QED BY <2>4, <3>1, <3>2, <3>3 DEF TodoInv
    <2>13. BusyInv'
      BY <1>1, <2>8, <2>9, <2>10 DEF BusyInv
    <2>14. WorkInv'
      <3>1. Lists(InOrder(b.replicas), b.replicas)
        BY <2>8, <2>9, InOrderLists
      <3>2. b.replicas = rows'[p.name].replicas
        BY <1>1, <2>8, <2>9, <2>10
      <3> QED BY <2>9, <2>10, <3>1, <3>2 DEF WorkInv
    <2> QED BY <1>1, <2>9, <2>10, <2>11, <2>12, <2>13, <2>14, OnlyPass
  <1> QED BY <1>2, <1>3

\* What is left over, or missing, of the replicas that the pass knows.
LEMMA BalanceFits ==
    ASSUME NEW held, DOMAIN held = PassFields, held.base.replicas \in SUBSET Ids, held.desired \in Nat
    PROVE  LET b == Balance(held) IN
           /\ DOMAIN b = PassFields /\ b.todo = held.todo /\ b.name = held.name /\ b.base = held.base
           /\ b.desired = held.desired
           /\ \/ b.at = "place"
              \/ b.at = "remove" /\ b.then = "status" /\ Lists(b.remove, held.base.replicas)
  <1>1. PICK R, q, n, d : R = held.base.replicas /\ q = InOrder(R) /\ n = Len(q) /\ d = held.desired
    OBVIOUS
  <1>2. q \in Seq(R) /\ n \in Nat /\ d \in Nat /\ (\A i, j \in 1..n : q[i] = q[j] => i = j)
    BY <1>1, InOrderLists DEF Lists
  <1>3. CASE n > d
    <2>1. PICK r : r = SubSeq(q, d + 1, n)
      OBVIOUS
    <2>2. r \in Seq(R) /\ Len(r) = n - d /\ \A i \in 1..n - d : r[i] = q[d + i]
      <3>1. d + 1 \in Int /\ n \in Int /\ d + 1 <= n /\ \A i \in d + 1..n : q[i] \in R
        BY <1>1, <1>2, <1>3
      <3>2. /\ SubSeq(q, d + 1, n) \in Seq(R)
            /\ Len(SubSeq(q, d + 1, n)) = n - (d + 1) + 1
            /\ \A i \in 1..n - (d + 1) + 1 : SubSeq(q, d + 1, n)[i] = q[d + 1 + i - 1]
        BY <3>1, SubSeqProperties
      <3> QED BY <1>2, <2>1, <3>2
    <2>3. Lists(r, R)
      <3> SUFFICES ASSUME NEW i \in 1..n - d, NEW j \in 1..n - d, r[i] = r[j] PROVE i = j
        BY <2>2 DEF Lists
      <3>1. d + i \in 1..n /\ d + j \in 1..n
        BY <1>2
      <3>2. d + i = d + j
        BY <1>2, <2>2, <3>1
      <3> QED BY <1>2, <3>2
    <2>4. Balance(held) = [held EXCEPT !.at = "remove", !.remove = r, !.then = "status"]
      <3>1. Surplus(q, d) = r
        BY <1>1, <1>2, <2>1 DEF Surplus
      <3>2. Surplus(InOrder(held.base.replicas), held.desired) = r
        BY <1>1, <3>1
      <3>3. Len(InOrder(held.base.replicas)) > held.desired
        BY <1>1, <1>3
      <3> QED BY <3>2, <3>3 DEF Balance
    <2> QED BY <1>1, <2>3, <2>4 DEF PassFields
  <1>4. CASE ~(n > d)
    <2>1. PICK c : c = held.desired - n
      OBVIOUS
    <2>2. Balance(held) = [held EXCEPT !.at = "place", !.create = c]
      BY <1>1, <1>4, <2>1 DEF Balance
    <2> QED BY <2>2 DEF PassFields
  <1> QED BY <1>3, <1>4

\* Those of another image being gone, the row says what is there.
LEMMA RereadStep == NodesInv /\ Reread => NodesInv'
  <1> SUFFICES ASSUME NodesInv, Reread PROVE NodesInv'
    OBVIOUS
  <1>1. /\ pass.at = "reread" /\ UNCHANGED <<rows, containers, nodes, rollouts, scenario>>
        /\ Busy
    BY DEF Reread, limits, Busy
  <1>2. pass.name \in Services /\ rows[pass.name].exists
    BY <1>1 DEF NodesInv, BusyInv
  <1>3. PICK r : r = rows[pass.name]
    OBVIOUS
  <1>4. r.exists /\ DOMAIN r = RowFields /\ r.size \in Nat /\ r.desired \in Nat /\ r.replicas \in SUBSET Ids
    BY <1>2, <1>3 DEF NodesInv, RowShape
  <1>5. PICK held : held = [pass EXCEPT !.base = r]
    OBVIOUS
  <1>6. /\ DOMAIN held = PassFields /\ held.base = r /\ held.desired \in Nat
        /\ held.todo = pass.todo /\ held.name = pass.name
    BY <1>5 DEF NodesInv, PassShape, PassFields
  <1>7. pass' = Balance(held)
    BY <1>2, <1>3, <1>5 DEF Reread
  <1>8. PICK b : b = Balance(held)
    OBVIOUS
  <1>9. /\ DOMAIN b = PassFields /\ b.todo = pass.todo /\ b.name = pass.name /\ b.base = r
        /\ b.desired \in Nat
        /\ \/ b.at = "place"
           \/ b.at = "remove" /\ b.then = "status" /\ Lists(b.remove, r.replicas)
    BY <1>4, <1>6, <1>8, BalanceFits
  <1>10. pass' = b /\ rows' = rows /\ rows'[b.name] = r
    BY <1>1, <1>3, <1>7, <1>8, <1>9
  <1>11. PassShape'
    BY <1>4, <1>9, <1>10 DEF PassShape
  <1>12. TodoInv'
    BY <1>1, <1>9, <1>10, TodoStays DEF NodesInv, Same
  <1>13. BusyInv' /\ WorkInv'
    BY <1>2, <1>4, <1>9, <1>10 DEF BusyInv, WorkInv
  <1> QED BY <1>1, <1>9, <1>10, <1>11, <1>12, <1>13, OnlyPass

\* A node is selected that has the room.
LEMMA PlaceStep == NodesInv /\ Place => NodesInv'
  <1> SUFFICES ASSUME NodesInv, Place PROVE NodesInv'
    OBVIOUS
  <1>1. /\ pass.at = "place" /\ UNCHANGED <<rows, containers, nodes, rollouts, scenario>>
        /\ Busy
    BY DEF Place, limits, Busy
  <1>2. PICK q : q = Request(pass.base.size)
    OBVIOUS
  <1>3. PICK m : m = SelectNode(nodes, q)
    OBVIOUS
  <1>4. Candidates(nodes, q) # {} => m \in Nodes /\ nodes[m].cpu + pass.base.size <= CpuCapacity
    <2> SUFFICES ASSUME Candidates(nodes, q) # {}
                 PROVE  m \in Nodes /\ nodes[m].cpu + pass.base.size <= CpuCapacity
      OBVIOUS
    <2>1. Numbers(nodes)
      BY LedgerFields DEF NodesInv, LedgerInv
    <2>2. m \in Candidates(nodes, q)
      BY <1>3, <2>1, SelectFits
    <2>3. m \in Nodes /\ CpuCapacity - nodes[m].cpu >= pass.base.size
      BY <1>2, <2>2 DEF Candidates, AvailableCpu, Request
    <2>4. CpuCapacity \in Nat /\ nodes[m].cpu \in Nat /\ pass.base.size \in Nat
      BY <2>1, <2>3, NodeAssumption DEF Numbers, NodesInv, PassShape
    <2> QED BY <2>3, <2>4
  <1>5. PICK p : p = pass'
    OBVIOUS
  <1>6. /\ DOMAIN p = PassFields /\ p.todo = pass.todo /\ p.name = pass.name /\ p.base = pass.base
        /\ p.desired = pass.desired
        /\ \/ p.at \in {"status", "place"}
           \/ p.at = "start" /\ p.node = m /\ Candidates(nodes, q) # {}
    <2>1. DOMAIN pass = PassFields
      BY DEF NodesInv, PassShape
    <2> QED BY <1>1, <1>2, <1>3, <1>5, <2>1 DEF Place, PassFields
  <1>7. PassShape'
    BY <1>5, <1>6 DEF NodesInv, PassShape
  <1>8. TodoInv'
    BY <1>1, <1>5, <1>6, TodoStays DEF NodesInv, Same
  <1>9. BusyInv'
    BY <1>1, <1>5, <1>6 DEF NodesInv, BusyInv
  <1>10. WorkInv'
    BY <1>1, <1>4, <1>5, <1>6 DEF WorkInv
  <1> QED BY <1>1, <1>5, <1>6, <1>7, <1>8, <1>9, <1>10, OnlyPass

\* Without a container there is nothing to charge.
LEMMA StartFailsStep == NodesInv /\ StartFails => NodesInv'
  <1> SUFFICES ASSUME NodesInv, StartFails PROVE NodesInv'
    OBVIOUS
  <1>0. "raise_in_start" \notin scenario.faults
    BY DEF NodesInv, Undisturbed
  <1>1. /\ pass.at = "start" /\ UNCHANGED <<rows, containers, nodes, rollouts, scenario>>
        /\ Busy
    BY <1>0 DEF StartFails, limits, Fault, Busy
  <1>2. /\ DOMAIN pass' = PassFields /\ pass'.at = "place" /\ pass'.todo = pass.todo
        /\ pass'.name = pass.name /\ pass'.base = pass.base /\ pass'.desired = pass.desired
    BY DEF StartFails, NodesInv, PassShape, PassFields
  <1>3. PassShape'
    BY <1>2 DEF NodesInv, PassShape
  <1>4. TodoInv'
    BY <1>1, <1>2, TodoStays DEF NodesInv, Same
  <1>5. BusyInv' /\ WorkInv'
    BY <1>1, <1>2 DEF NodesInv, BusyInv, WorkInv
  <1> QED BY <1>1, <1>2, <1>3, <1>4, <1>5, OnlyPass

----------------------------------------------------------------------------
(* Steps that change a row *)

\* A row keeps its fields where it is changed.
LEMMA SetStatusStep == NodesInv /\ SetStatus => NodesInv'
  <1> SUFFICES ASSUME NodesInv, SetStatus PROVE NodesInv'
    OBVIOUS
  <1>1. /\ pass.at = "status" /\ UNCHANGED <<containers, nodes, rollouts, scenario>>
        /\ Busy
    BY DEF SetStatus, limits, Busy
  <1>2. /\ DOMAIN pass' = PassFields /\ pass'.at = "next" /\ pass'.todo = pass.todo
        /\ pass'.name = pass.name /\ pass'.base = pass.base /\ pass'.desired = pass.desired
    BY DEF SetStatus, NodesInv, PassShape, PassFields
  <1>3. /\ DOMAIN rows' = Services
        /\ \A s \in Services : /\ DOMAIN rows'[s] = RowFields /\ Same(s)
                               /\ rows'[s].desired = rows[s].desired
    BY DEF SetStatus, NodesInv, RowShape, RowFields, Same
  <1>4. PassShape'
    BY <1>2 DEF NodesInv, PassShape
  <1>5. TodoInv'
    BY <1>1, <1>2, <1>3, TodoStays DEF NodesInv
  <1>6. BusyInv' /\ WorkInv'
    BY <1>2 DEF BusyInv, Busy, WorkInv
  <1>7. RowShape' /\ RowsInv'
    BY <1>1, <1>3 DEF NodesInv, RowShape, RowsInv, Same, Leaving, Live
  <1> QED BY <1>1, <1>4, <1>5, <1>6, <1>7, <1>2, NothingCharged, LedgerStays, OthersStay DEF NodesInv

\* A service that is gone records nothing.
LEMMA ForgetServiceStep == NodesInv /\ ForgetService => NodesInv'
  <1> SUFFICES ASSUME NodesInv, ForgetService PROVE NodesInv'
    OBVIOUS
  <1>1. /\ pass.at = "forget" /\ UNCHANGED <<containers, nodes, rollouts, scenario>>
        /\ Busy
    BY DEF ForgetService, limits, Busy
  <1>2. /\ DOMAIN pass' = PassFields /\ pass'.at = "next" /\ pass'.todo = pass.todo
        /\ pass'.name = pass.name /\ pass'.base = pass.base /\ pass'.desired = pass.desired
    BY DEF ForgetService, NodesInv, PassShape, PassFields
  <1>3. /\ DOMAIN NoRow = RowFields /\ NoRow.size = 0 /\ NoRow.desired = 0 /\ NoRow.replicas = {}
    BY DEF NoRow, RowFields
  <1>4. /\ DOMAIN rows' = Services
        /\ \A s \in Services : rows'[s] = IF s = pass.name THEN NoRow ELSE rows[s]
    BY DEF ForgetService, NodesInv, RowShape
  <1>5. \A s \in Services : s = pass.name \/ Same(s)
    BY <1>4 DEF Same
  <1>6. PassShape'
    BY <1>2 DEF NodesInv, PassShape
  <1>7. TodoInv'
    BY <1>1, <1>2, <1>5, TodoStays DEF NodesInv
  <1>8. BusyInv' /\ WorkInv'
    BY <1>2 DEF BusyInv, Busy, WorkInv
  <1>9. RowShape'
    BY <1>3, <1>4 DEF NodesInv, RowShape
  <1>10. RowsInv'
    BY <1>1, <1>3, <1>4 DEF NodesInv, RowsInv, Leaving, Live
  <1> QED BY <1>1, <1>6, <1>7, <1>8, <1>9, <1>10, <1>2, NothingCharged, LedgerStays, OthersStay DEF NodesInv

\* The record follows the replica that was released.
LEMMA UnrecordReplicaStep == NodesInv /\ UnrecordReplica => NodesInv'
  <1> SUFFICES ASSUME NodesInv, UnrecordReplica PROVE NodesInv'
    OBVIOUS
  <1>1. /\ pass.at = "unrecord" /\ UNCHANGED <<containers, nodes, rollouts, scenario>>
        /\ Busy
    BY DEF UnrecordReplica, limits, Busy
  <1>2. PICK q, R, i, t : q = pass.remove /\ R = rows[pass.name].replicas /\ i = Head(q) /\ t = Tail(q)
    OBVIOUS
  <1>3. /\ q \in Seq(R) /\ q # <<>> /\ (\A k, l \in 1..Len(q) : q[k] = q[l] => k = l)
        /\ pass.then \in {"forget", "status", "reread"}
    BY <1>1, <1>2 DEF NodesInv, WorkInv, Lists
  <1>4. /\ pass.name \in Services /\ rows[pass.name].exists /\ pass.base.exists
        /\ pass.base.size = rows[pass.name].size
    BY <1>1 DEF NodesInv, BusyInv
  <1>5. /\ DOMAIN pass' = PassFields /\ pass'.at = "remove" /\ pass'.todo = pass.todo
        /\ pass'.name = pass.name /\ pass'.base = pass.base /\ pass'.desired = pass.desired
        /\ pass'.remove = t /\ pass'.then = pass.then
    BY <1>2 DEF UnrecordReplica, NodesInv, PassShape, PassFields
  <1>6. rows' = [rows EXCEPT ![pass.name].replicas = @ \ {i}]
    BY <1>2, <1>4 DEF UnrecordReplica, Unrecord
  <1>7. /\ DOMAIN rows' = Services
        /\ \A s \in Services :
              /\ DOMAIN rows'[s] = RowFields /\ rows'[s].size = rows[s].size
              /\ rows'[s].exists = rows[s].exists /\ rows'[s].desired = rows[s].desired
              /\ rows'[s].replicas = IF s = pass.name THEN R \ {i} ELSE rows[s].replicas
    BY <1>2, <1>4, <1>6 DEF NodesInv, RowShape, RowFields
  <1>8. Lists(t, R \ {i})
    <2>1. /\ t \in Seq(R) /\ Len(t) = Len(q) - 1 /\ i = q[1] /\ Len(q) \in Nat \ {0}
          /\ \A k \in 1..Len(t) : t[k] = q[k + 1]
      <3>1. /\ Tail(q) \in Seq(R) /\ Len(Tail(q)) = Len(q) - 1
            /\ \A k \in 1..Len(Tail(q)) : Tail(q)[k] = q[k + 1]
        BY <1>3, HeadTailProperties
      <3>2. Len(q) \in Nat \ {0} /\ Head(q) = q[1]
        BY <1>3
      <3> QED BY <1>2, <3>1, <3>2
    <2>2. \A k \in 1..Len(t) : k + 1 \in 1..Len(q) /\ 1 \in 1..Len(q) /\ k + 1 # 1
      BY <2>1
    <2>3. \A k \in 1..Len(t) : t[k] \in R \ {i}
      BY <1>3, <2>1, <2>2
    <2>4. t \in Seq(R \ {i})
      BY <2>1, <2>3
    <2>5. ASSUME NEW k \in 1..Len(t), NEW l \in 1..Len(t), t[k] = t[l] PROVE k = l
      <3>1. k + 1 = l + 1
        BY <1>3, <2>1, <2>2, <2>5
      <3> QED BY <3>1
    <2> QED BY <2>4, <2>5 DEF Lists
  <1>9. PassShape'
    BY <1>5 DEF NodesInv, PassShape
  <1>10. TodoInv'
    <2>1. \A s \in Services : s = pass.name \/ Same(s)
      BY <1>7 DEF Same
    <2> QED BY <1>1, <1>5, <2>1, TodoStays DEF NodesInv
  <1>11. BusyInv' /\ WorkInv'
    BY <1>3, <1>4, <1>5, <1>7, <1>8 DEF BusyInv, WorkInv
  <1>12. RowShape'
    BY <1>2, <1>4, <1>7 DEF NodesInv, RowShape
  <1>13. RowsInv'
    <2>1. \A s \in Services : rows'[s].replicas \subseteq rows[s].replicas
      BY <1>2, <1>7
    <2>2. ASSUME NEW s \in Services, NEW j \in rows'[s].replicas
          PROVE  Live(j)' /\ containers'[j].size = rows'[s].size
      <3>1. ~Leaving(s, j)
        BY <1>2, <1>7, <2>2 DEF Leaving
      <3>2. Live(j) /\ containers[j].size = rows[s].size
        BY <2>1, <2>2, <3>1 DEF NodesInv, RowsInv
      <3> QED BY <1>1, <1>7, <3>2 DEF Live
    <2> QED BY <2>1, <2>2 DEF NodesInv, RowsInv
  <1> QED BY <1>1, <1>9, <1>10, <1>11, <1>12, <1>13, <1>5, NothingCharged, LedgerStays, OthersStay DEF NodesInv

\* The row records the replica that was started for it.
LEMMA RecordStep == NodesInv /\ Record => NodesInv'
  <1> SUFFICES ASSUME NodesInv, Record PROVE NodesInv'
    OBVIOUS
  <1>1. /\ pass.at = "record" /\ UNCHANGED <<containers, nodes, rollouts, scenario>>
        /\ Busy
    BY DEF Record, limits, Busy
  <1>2. PICK i : i = Head(pass.remove)
    OBVIOUS
  <1>3. /\ i \in Ids /\ Live(i) /\ containers[i].size = pass.base.size
        /\ \A s \in Services : i \notin rows[s].replicas
    BY <1>1, <1>2 DEF NodesInv, WorkInv
  <1>4. /\ pass.name \in Services /\ rows[pass.name].exists /\ pass.base.exists
        /\ pass.base.size = rows[pass.name].size
    BY <1>1 DEF NodesInv, BusyInv
  <1>5. /\ DOMAIN pass' = PassFields /\ pass'.at = "place" /\ pass'.todo = pass.todo
        /\ pass'.name = pass.name /\ pass'.base = pass.base /\ pass'.desired = pass.desired
    BY DEF Record, NodesInv, PassShape, PassFields
  <1>6. rows' = [rows EXCEPT ![pass.name].replicas = @ \cup {i}]
    BY <1>2, <1>4 DEF Record
  <1>7. /\ DOMAIN rows' = Services
        /\ \A s \in Services :
              /\ DOMAIN rows'[s] = RowFields /\ rows'[s].size = rows[s].size
              /\ rows'[s].exists = rows[s].exists /\ rows'[s].desired = rows[s].desired
              /\ s # pass.name => rows'[s].replicas = rows[s].replicas
        /\ rows'[pass.name].replicas = rows[pass.name].replicas \cup {i}
    BY <1>4, <1>6 DEF NodesInv, RowShape, RowFields
  <1>8. PassShape'
    BY <1>5 DEF NodesInv, PassShape
  <1>9. TodoInv'
    <2>1. \A s \in Services : s = pass.name \/ Same(s)
      BY <1>7 DEF Same
    <2> QED BY <1>1, <1>5, <2>1, TodoStays DEF NodesInv
  <1>10. BusyInv' /\ WorkInv'
    BY <1>4, <1>5, <1>7 DEF BusyInv, WorkInv
  <1>11. RowShape'
    <2>1. \A s \in Services : rows'[s].replicas \subseteq Ids
      <3>1. \A s \in Services : rows[s].replicas \subseteq Ids
        BY DEF NodesInv, RowShape
      <3> QED BY <1>3, <1>4, <1>7, <3>1
    <2> QED BY <1>7, <2>1 DEF NodesInv, RowShape
  <1>12. RowsInv'
    <2>1. ASSUME NEW s \in Services, NEW j \in rows'[s].replicas
          PROVE  Live(j)' /\ containers'[j].size = rows'[s].size
      <3>1. CASE j = i
        BY <1>1, <1>3, <1>4, <1>7, <2>1, <3>1 DEF Live
      <3>2. CASE j # i
        <4>1. j \in rows[s].replicas
          BY <1>7, <2>1, <3>2
        <4>3. ~Leaving(s, j)
          BY <1>1 DEF Leaving
        <4>2. Live(j) /\ containers[j].size = rows[s].size
          BY <4>1, <4>3 DEF NodesInv, RowsInv
        <4> QED BY <1>1, <1>7, <4>2 DEF Live
      <3> QED BY <3>1, <3>2
    <2>2. \A s, u \in Services : \A j \in rows'[s].replicas : j \in rows'[u].replicas => s = u
      <3>1. \A s \in Services : \A j \in rows'[s].replicas :
              (j = i /\ s = pass.name) \/ (j # i /\ j \in rows[s].replicas)
        BY <1>3, <1>7
      <3> QED BY <3>1 DEF NodesInv, RowsInv
    <2> QED BY <2>1, <2>2 DEF RowsInv
  <1> QED BY <1>1, <1>8, <1>9, <1>10, <1>11, <1>12, <1>5, NothingCharged, LedgerStays, OthersStay DEF NodesInv

\* What clients and containers do of their own.
LEMMA Outside ==
    ASSUME NodesInv, UNCHANGED <<nodes, pass, rollouts, scenario>>,
           RowShape', \A s \in Services : Same(s),
           ContainerShape', LedgerInv',
           \A i \in Ids : /\ Live(i)' = Live(i) /\ containers'[i].size = containers[i].size
                          /\ containers'[i].node = containers[i].node
    PROVE  NodesInv'
  <1>1. PassShape'
    BY DEF NodesInv, PassShape
  <1>2. TodoInv'
    BY TodoStays DEF NodesInv, Busy
  <1>3. BusyInv'
    BY DEF NodesInv, BusyInv, Busy, Same
  <1>4. WorkInv'
    BY <1>3 DEF NodesInv, WorkInv, BusyInv, Busy, Same
  <1>5. RowsInv'
    <2>1. \A s \in Services : rows[s].replicas \subseteq Ids
      BY DEF NodesInv, RowShape
    <2>2. \A s \in Services : \A i : Leaving(s, i)' = Leaving(s, i)
      BY DEF Leaving
    <2> QED BY <2>1, <2>2 DEF NodesInv, RowsInv, Same
  <1> QED BY <1>1, <1>2, <1>3, <1>4, <1>5, OthersStay DEF NodesInv

LEMMA RescaleStep == ASSUME NodesInv, NEW s \in Services, Rescale(s) PROVE NodesInv'
  <1>1. PICK n \in Nat :
          /\ rows' = [rows EXCEPT ![s] = [rows[s] EXCEPT !.desired = n, !.deleting = FALSE]]
          /\ UNCHANGED <<containers, nodes, pass, rollouts, scenario>>
    <2>1. 0..MaxReplicas \subseteq Nat
      BY SharedNodesAssumption
    <2> QED BY <2>1 DEF Rescale, Change, Ask
  <1>2. RowShape' /\ \A t \in Services : Same(t)
    BY <1>1 DEF NodesInv, RowShape, RowFields, Same
  <1> QED BY <1>1, <1>2, LedgerStays, Outside DEF NodesInv, Live, Charging

LEMMA MarkDeletingStep == ASSUME NodesInv, NEW s \in Services, MarkDeleting(s) PROVE NodesInv'
  <1>1. /\ rows' = [rows EXCEPT ![s] = [rows[s] EXCEPT !.deleting = TRUE]]
        /\ UNCHANGED <<containers, nodes, pass, rollouts, scenario>>
    BY DEF MarkDeleting, Change, Ask
  <1>2. RowShape' /\ \A t \in Services : Same(t)
    BY <1>1 DEF NodesInv, RowShape, RowFields, Same
  <1> QED BY <1>1, <1>2, LedgerStays, Outside DEF NodesInv, Live, Charging

----------------------------------------------------------------------------
(* Steps that change containers *)

\* Containers that are removed with their share leave a ledger of what lives.
LEMMA Released ==
    ASSUME ContainerShape, LedgerInv, NEW gone \in SUBSET Ids, DOMAIN containers' = Ids,
           \A i \in Ids : /\ DOMAIN containers'[i] = DOMAIN NoContainer
                          /\ containers'[i].node = containers[i].node
                          /\ containers'[i].size = containers[i].size
                          /\ Live(i)' <=> (Live(i) /\ i \notin gone)
                          /\ (Charging(i)' <=> Charging(i)),
           nodes' = LedgerOf(gone)
    PROVE  ContainerShape' /\ LedgerInv'
  <1>1. ContainerShape'
    BY DEF ContainerShape
  <1>2. \A n \in Nodes : On(n)' = On(n) \ gone
    BY DEF On
  <1>3. \A n \in Nodes : On(n) \ gone \in SUBSET Ids /\ (On(n) \ gone) \ {} = On(n) \ gone
    BY DEF On
  <1>4. \A n \in Nodes : Charge(containers', On(n) \ gone) = Charge(containers, On(n) \ gone)
    <2> SUFFICES ASSUME NEW n \in Nodes
                 PROVE  Charge(containers', On(n) \ gone) = Charge(containers, On(n) \ gone)
      OBVIOUS
    <2>1. PICK B, C, T : B = containers' /\ C = containers /\ T = On(n) \ gone
      OBVIOUS
    <2>2. T \in SUBSET Ids /\ \A i \in T : B[i].size = C[i].size
      BY <1>3, <2>1
    <2>3. Charge(B, T) = Charge(C, T)
      BY <2>2, ChargeSame
    <2> QED BY <2>1, <2>3
  <1>5. LedgerOf({})' = [n \in Nodes |-> [cpu |-> Charge(containers', On(n)' \ {}), memory |-> 0,
                                          replicas |-> On(n)' \ {}]]
    BY DEF LedgerOf
  <1>6. LedgerOf({})' = LedgerOf(gone)
    <2>1. \A n \in Nodes : /\ On(n)' \ {} = On(n) \ gone
                           /\ Charge(containers', On(n)' \ {}) = Charge(containers, On(n) \ gone)
      BY <1>2, <1>4
    <2> QED BY <1>5, <2>1 DEF LedgerOf
  <1>7. \A n \in Nodes : nodes'[n].cpu <= CpuCapacity
    <2> SUFFICES ASSUME NEW n \in Nodes PROVE nodes'[n].cpu <= CpuCapacity
      OBVIOUS
    <2>1. PICK c, d : c = nodes'[n].cpu /\ d = nodes[n].cpu
      OBVIOUS
    <2>2. c = Charge(containers, On(n) \ gone)
      <3>1. LedgerOf(gone)[n].cpu = Charge(containers, On(n) \ gone)
        BY LedgerFields
      <3> QED BY <2>1, <3>1
    <2>3. d = Charge(containers, On(n))
      <3>1. LedgerOf({})[n].cpu = Charge(containers, On(n) \ {}) /\ On(n) \ {} = On(n)
        BY LedgerFields
      <3> QED BY <2>1, <3>1 DEF LedgerInv
    <2>4. c <= d
      <3>1. On(n) \in SUBSET Ids /\ On(n) \ gone \in SUBSET On(n) /\ Sized(containers)
        BY LedgerFields
      <3> QED BY <2>2, <2>3, <3>1, ChargeMore
    <2>5. c \in Nat /\ d \in Nat /\ d <= CpuCapacity
      <3>1. Charge(containers, On(n) \ gone) \in Nat /\ Charge(containers, On(n) \ {}) \in Nat
        BY LedgerFields
      <3>2. On(n) \ {} = On(n)
        OBVIOUS
      <3> QED BY <2>1, <2>2, <2>3, <3>1, <3>2 DEF LedgerInv
    <2> QED BY <2>1, <2>4, <2>5, NodeAssumption
  <1> QED BY <1>1, <1>6, <1>7 DEF LedgerInv

\* A container that exits keeps its share until it is observed.
LEMMA Exited ==
    ASSUME NodesInv, NEW x \in Ids, Running(x), containers' = [containers EXCEPT ![x].state = "exited"],
           nodes' = nodes, \A i \in Ids : (Charging(i)' <=> Charging(i))
    PROVE  /\ ContainerShape' /\ LedgerInv'
           /\ \A i \in Ids : /\ Live(i)' = Live(i) /\ containers'[i].size = containers[i].size
                             /\ containers'[i].node = containers[i].node
  <1>1. ContainerShape /\ LedgerInv
    BY DEF NodesInv
  <1>2. DOMAIN containers = Ids /\ \A i \in Ids : DOMAIN containers[i] = DOMAIN NoContainer
    BY <1>1 DEF ContainerShape
  <1>3. DOMAIN NoContainer = {"state", "node", "size", "image"}
    BY DEF NoContainer
  <1>4. /\ DOMAIN containers' = Ids
        /\ \A i \in Ids : /\ DOMAIN containers'[i] = DOMAIN NoContainer
                          /\ containers'[i].node = containers[i].node
                          /\ containers'[i].size = containers[i].size
                          /\ containers'[i].state = IF i = x THEN "exited" ELSE containers[i].state
    BY <1>2, <1>3
  <1>5. \A i \in Ids : Live(i)' = Live(i)
    BY <1>4 DEF Live, Running
  <1>6. {} \in SUBSET Ids /\ nodes' = LedgerOf({})
    BY <1>1 DEF LedgerInv
  <1>7. \A i \in Ids : (Live(i)' <=> (Live(i) /\ i \notin {})) /\ (Charging(i)' <=> Charging(i))
    BY <1>5
  <1>8. ContainerShape' /\ LedgerInv'
    BY <1>1, <1>4, <1>6, <1>7, Released
  <1> QED BY <1>4, <1>5, <1>8

LEMMA ExitStep == ASSUME NodesInv, NEW x \in Ids, Exit(x) PROVE NodesInv'
  <1>1. /\ containers' = [containers EXCEPT ![x].state = "exited"] /\ Running(x)
        /\ UNCHANGED <<rows, nodes, pass, rollouts, scenario>>
    BY DEF Exit, Fault
  <1>2. \A i \in Ids : (Charging(i)' <=> Charging(i))
    BY <1>1 DEF Charging
  <1>3. /\ ContainerShape' /\ LedgerInv'
        /\ \A i \in Ids : /\ Live(i)' = Live(i) /\ containers'[i].size = containers[i].size
                          /\ containers'[i].node = containers[i].node
    BY <1>1, <1>2, Exited
  <1>4. RowShape' /\ \A t \in Services : Same(t)
    BY <1>1 DEF NodesInv, RowShape, Same
  <1> QED BY <1>1, <1>3, <1>4, Outside

\* A replica that is removed gives back what it was given.
LEMMA ReleaseReplicaStep == NodesInv /\ ReleaseReplica => NodesInv'
  <1> SUFFICES ASSUME NodesInv, ReleaseReplica PROVE NodesInv'
    OBVIOUS
  <1>1. /\ pass.at = "remove" /\ UNCHANGED <<rows, rollouts, scenario>>
        /\ Busy
    BY DEF ReleaseReplica, limits, Busy
  <1>2. /\ pass.name \in Services /\ rows[pass.name].exists /\ pass.base.exists
        /\ pass.base.size = rows[pass.name].size
    BY <1>1 DEF NodesInv, BusyInv
  <1>3. /\ Lists(pass.remove, rows[pass.name].replicas)
        /\ pass.then \in {"forget", "status", "reread"}
    BY <1>1 DEF NodesInv, WorkInv
  <1>4. \A s \in Services : Same(s)
    BY <1>1 DEF Same
  <1>5. CASE pass.remove = <<>>
    <2>1. /\ DOMAIN pass' = PassFields /\ pass'.at = pass.then /\ pass'.todo = pass.todo
          /\ pass'.name = pass.name /\ pass'.base = pass.base /\ pass'.desired = pass.desired
          /\ UNCHANGED <<containers, nodes>>
      BY <1>1, <1>5 DEF ReleaseReplica, NodesInv, PassShape, PassFields
    <2>2. PassShape'
      BY <2>1 DEF NodesInv, PassShape
    <2>3. TodoInv'
      BY <1>1, <1>4, <2>1, TodoStays DEF NodesInv
    <2>4. BusyInv' /\ WorkInv'
      BY <1>1, <1>2, <1>3, <2>1 DEF BusyInv, WorkInv
    <2> QED BY <1>1, <1>3, <2>1, <2>2, <2>3, <2>4, OnlyPass
  <1>6. CASE pass.remove # <<>>
    <2>1. PICK x : x = Head(pass.remove)
      OBVIOUS
    <2>2. x \in rows[pass.name].replicas
      BY <1>3, <1>6, <2>1, HeadTailProperties DEF Lists
    <2>3. x \in Ids /\ Live(x) /\ containers[x].size = pass.base.size
      <3>1. ~Leaving(pass.name, x)
        BY <1>1 DEF Leaving
      <3> QED BY <1>2, <2>2, <3>1 DEF NodesInv, RowShape, RowsInv
    <2>4. /\ DOMAIN pass' = PassFields /\ pass'.at = "unrecord" /\ pass'.todo = pass.todo
          /\ pass'.name = pass.name /\ pass'.base = pass.base /\ pass'.desired = pass.desired
          /\ pass'.remove = pass.remove /\ pass'.then = pass.then
      BY <1>1, <1>6 DEF ReleaseReplica, NodesInv, PassShape, PassFields
    <2>5. /\ containers' = [containers EXCEPT ![x].state = "removed"]
          /\ nodes' = Deallocate(nodes, containers[x].node, x, Request(pass.base.size))
      BY <1>1, <1>6, <2>1 DEF ReleaseReplica, Release
    <2>6. ContainerShape /\ LedgerInv
      BY DEF NodesInv
    <2>7. nodes' = LedgerOf({x})
      <3>1. Deallocate(LedgerOf({}), containers[x].node, x, Request(containers[x].size))
            = LedgerOf({} \cup {x})
        BY <1>1, <2>3, <2>6, ReleaseOne DEF Charging
      <3>2. {} \cup {x} = {x} /\ nodes = LedgerOf({})
        BY <2>6 DEF LedgerInv
      <3> QED BY <2>3, <2>5, <3>1, <3>2
    <2>8. /\ DOMAIN containers' = Ids
          /\ \A i \in Ids : /\ DOMAIN containers'[i] = DOMAIN NoContainer
                            /\ containers'[i].node = containers[i].node
                            /\ containers'[i].size = containers[i].size
                            /\ containers'[i].state = IF i = x THEN "removed" ELSE containers[i].state
      <3>1. DOMAIN containers = Ids /\ \A i \in Ids : DOMAIN containers[i] = DOMAIN NoContainer
        BY <2>6 DEF ContainerShape
      <3>2. DOMAIN NoContainer = {"state", "node", "size", "image"}
        BY DEF NoContainer
      <3> QED BY <2>5, <3>1, <3>2
    <2>9. \A i \in Ids : Live(i)' <=> (Live(i) /\ i \notin {x})
      BY <2>8 DEF Live
    <2>10. ContainerShape' /\ LedgerInv'
      BY <1>1, <2>3, <2>4, <2>6, <2>7, <2>8, <2>9, NothingCharged, Released
    <2>11. PassShape'
      BY <2>4 DEF NodesInv, PassShape
    <2>12. TodoInv'
      BY <1>1, <1>4, <2>4, TodoStays DEF NodesInv
    <2>13. BusyInv' /\ WorkInv'
      BY <1>1, <1>2, <1>3, <1>6, <2>4 DEF BusyInv, WorkInv
    <2>14. RowShape'
      BY <1>1 DEF NodesInv, RowShape
    <2>15. RowsInv'
      <3>1. ASSUME NEW s \in Services, NEW i \in rows[s].replicas
            PROVE  Leaving(s, i)' \/ (Live(i)' /\ containers'[i].size = rows[s].size)
        <4>1. CASE i = x
          <5>1. s = pass.name
            BY <1>2, <2>2, <3>1, <4>1 DEF NodesInv, RowsInv
          <5>2. pass'.at = "unrecord" /\ pass'.name = s /\ i = Head(pass'.remove)
            BY <2>1, <2>4, <4>1, <5>1
          <5> QED BY <5>2 DEF Leaving
        <4>2. CASE i # x
          <5>1. i \in Ids /\ ~Leaving(s, i)
            BY <1>1, <3>1 DEF NodesInv, RowShape, Leaving
          <5>2. Live(i) /\ containers[i].size = rows[s].size
            BY <3>1, <5>1 DEF NodesInv, RowsInv
          <5> QED BY <2>8, <2>9, <4>2, <5>1, <5>2
        <4> QED BY <4>1, <4>2
      <3> QED BY <1>1, <3>1 DEF NodesInv, RowsInv
    <2> QED BY <1>1, <2>10, <2>11, <2>12, <2>13, <2>14, <2>15, OthersStay DEF NodesInv
  <1> QED BY <1>5, <1>6

\* What a pass observes of a service: what does not run any more is released
\* and forgotten, and what is left over is to be removed.
LEMMA RefreshStep == NodesInv /\ Refresh => NodesInv'
  <1> SUFFICES ASSUME NodesInv, Refresh PROVE NodesInv'
    OBVIOUS
  <1>1. /\ pass.at = "refresh" /\ UNCHANGED <<rollouts, scenario>>
        /\ Busy
    BY DEF Refresh, limits, Busy
  <1>2. CASE pass.name \in Blocked
    <2>1. pass' = Idle /\ UNCHANGED <<rows, containers, nodes>>
      BY <1>2 DEF Refresh
    <2> QED BY <1>1, <2>1, ToIdle, OnlyPass
  <1>3. CASE pass.name \notin Blocked
    <2>1. PICK name, R, gone, stay :
            /\ name = pass.name /\ R = pass.base.replicas
            /\ gone = {i \in R : ~Running(i)} /\ stay = R \ gone
      OBVIOUS
    <2>2. PICK base : base = [pass.base EXCEPT !.replicas = stay]
      OBVIOUS
    <2>3. PICK stale : stale = {i \in stay : containers[i].image # base.image}
      OBVIOUS
    <2>4. /\ nodes' = FoldLeft(Observe, nodes, InOrder(R))
          /\ containers' = [i \in Ids |-> IF i \in gone THEN [containers[i] EXCEPT !.state = "removed"]
                                          ELSE containers[i]]
          /\ rows' = IF gone = {} THEN rows ELSE [rows EXCEPT ![name] = base]
          /\ pass' = IF stale = {} THEN Balance([pass EXCEPT !.base = base])
                     ELSE [pass EXCEPT !.base = base, !.at = "remove", !.remove = InOrder(stale),
                                       !.then = "reread"]
      BY <1>3, <2>1, <2>2, <2>3 DEF Refresh
    <2>5. /\ name \in Services /\ rows[name].exists /\ pass.base.exists
          /\ pass.base.size = rows[name].size /\ R = rows[name].replicas
      BY <1>1, <2>1 DEF NodesInv, BusyInv, WorkInv
    <2>6. /\ DOMAIN base = RowFields /\ base.exists /\ base.size = rows[name].size /\ base.size \in Nat
          /\ base.desired \in Nat /\ base.replicas = stay /\ stay \in SUBSET Ids /\ gone \in SUBSET Ids
          /\ R \in SUBSET Ids /\ base.size = pass.base.size
      BY <2>1, <2>2, <2>5 DEF NodesInv, PassShape, RowFields
    <2>7. \A i \in R : Live(i) /\ containers[i].size = pass.base.size
      <3>1. \A i : ~Leaving(name, i)
        BY <1>1 DEF Leaving
      <3> QED BY <2>5, <3>1 DEF NodesInv, RowsInv
    <2>8. ContainerShape /\ LedgerInv
      BY DEF NodesInv
    <2>9. nodes' = LedgerOf(gone)
      <3>1. FoldLeft(Observe, LedgerOf({}), InOrder(R)) = LedgerOf({i \in R : ~Running(i)})
        BY <1>1, <2>6, <2>7, <2>8, ObserveAll
      <3>2. nodes = LedgerOf({})
        BY <2>8 DEF LedgerInv
      <3> QED BY <2>1, <2>4, <3>1, <3>2
    <2>10. /\ DOMAIN containers' = Ids
           /\ \A i \in Ids : /\ DOMAIN containers'[i] = DOMAIN NoContainer
                             /\ containers'[i].node = containers[i].node
                             /\ containers'[i].size = containers[i].size
                             /\ containers'[i].state = IF i \in gone THEN "removed" ELSE containers[i].state
      <3>1. DOMAIN containers = Ids /\ \A i \in Ids : DOMAIN containers[i] = DOMAIN NoContainer
        BY <2>8 DEF ContainerShape
      <3>2. DOMAIN NoContainer = {"state", "node", "size", "image"}
        BY DEF NoContainer
      <3> QED BY <2>4, <3>1, <3>2
    <2>11. \A i \in Ids : Live(i)' <=> (Live(i) /\ i \notin gone)
      BY <2>10 DEF Live
    <2>13. /\ DOMAIN rows' = Services
           /\ \A s \in Services : s # name => rows'[s] = rows[s]
           /\ rows'[name].replicas = stay /\ rows'[name].exists /\ rows'[name].size = base.size
           /\ DOMAIN rows'[name] = RowFields /\ rows'[name].desired \in Nat
      <3>1. CASE gone = {}
        BY <2>1, <2>4, <2>5, <2>6, <3>1 DEF NodesInv, RowShape
      <3>2. CASE gone # {}
        BY <2>4, <2>5, <2>6, <3>2 DEF NodesInv, RowShape
      <3> QED BY <3>1, <3>2
    <2>14. PICK p : p = pass'
      OBVIOUS
    <2>15. /\ DOMAIN p = PassFields /\ p.todo = pass.todo /\ p.name = name /\ p.base = base
           /\ p.desired \in Nat
           /\ \/ p.at = "place"
              \/ p.at = "remove" /\ p.then \in {"status", "reread"} /\ Lists(p.remove, stay)
      <3>1. DOMAIN pass = PassFields /\ pass.desired \in Nat
        BY DEF NodesInv, PassShape
      <3>2. CASE stale = {}
        <4>1. PICK held : held = [pass EXCEPT !.base = base]
          OBVIOUS
        <4>2. /\ DOMAIN held = PassFields /\ held.base = base /\ held.desired \in Nat
              /\ held.todo = pass.todo /\ held.name = name
          BY <2>1, <3>1, <4>1 DEF PassFields
        <4>3. p = Balance(held)
          BY <2>4, <2>14, <3>2, <4>1
        <4> QED BY <2>6, <4>2, <4>3, BalanceFits
      <3>3. CASE stale # {}
        <4>1. PICK q : q = InOrder(stale)
          OBVIOUS
        <4>2. Lists(q, stay)
          <5>1. stale \in SUBSET Ids /\ stale \subseteq stay
            BY <2>3, <2>6
          <5>2. Lists(q, stale)
            BY <4>1, <5>1, InOrderLists
          <5>3. q \in Seq(stay)
            BY <5>1, <5>2 DEF Lists
          <5> QED BY <5>2, <5>3 DEF Lists
        <4>3. p = [pass EXCEPT !.base = base, !.at = "remove", !.remove = q, !.then = "reread"]
          BY <2>4, <2>14, <3>3, <4>1
        <4> QED BY <2>1, <3>1, <4>2, <4>3 DEF PassFields
      <3> QED BY <3>2, <3>3
    <2>12. ContainerShape' /\ LedgerInv'
      BY <1>1, <2>6, <2>8, <2>9, <2>10, <2>11, <2>14, <2>15, NothingCharged, Released
    <2>16. PassShape'
      BY <2>6, <2>14, <2>15 DEF PassShape
    <2>17. TodoInv'
      <3>1. \A s \in Services : s = pass.name \/ Same(s)
        BY <2>1, <2>13 DEF Same
      <3> QED BY <1>1, <2>1, <2>14, <2>15, <3>1, TodoStays DEF NodesInv
    <2>18. BusyInv'
      BY <2>5, <2>6, <2>13, <2>14, <2>15 DEF BusyInv
    <2>19. WorkInv'
      BY <2>6, <2>13, <2>14, <2>15 DEF WorkInv
    <2>20. RowShape'
      BY <2>6, <2>13 DEF NodesInv, RowShape
    <2>21. RowsInv'
      <3>1. \A s \in Services : rows'[s].replicas \subseteq rows[s].replicas /\ rows'[s].size = rows[s].size
        BY <2>1, <2>5, <2>6, <2>13
      <3>2. ASSUME NEW s \in Services, NEW i \in rows'[s].replicas
            PROVE  Live(i)' /\ containers'[i].size = rows'[s].size
        <4>1. i \in rows[s].replicas /\ i \in Ids /\ ~Leaving(s, i)
          BY <1>1, <3>1, <3>2 DEF NodesInv, RowShape, Leaving
        <4>2. Live(i) /\ containers[i].size = rows[s].size
          BY <4>1 DEF NodesInv, RowsInv
        <4>3. i \notin gone
          <5>1. CASE s = name
            BY <2>1, <2>13, <3>2, <5>1
          <5>2. CASE s # name
            BY <2>1, <2>5, <4>1, <5>2 DEF NodesInv, RowsInv
          <5> QED BY <5>1, <5>2
        <4> QED BY <2>10, <2>11, <3>1, <4>1, <4>2, <4>3
      <3> QED BY <3>1, <3>2 DEF NodesInv, RowsInv
    <2> QED BY <1>1, <2>12, <2>16, <2>17, <2>18, <2>19, <2>20, <2>21, OthersStay DEF NodesInv
  <1> QED BY <1>2, <1>3

\* A replica that is started is a new one.
LEMMA NewIdIsNew ==
    ASSUME Fresh
    PROVE  NewId \in Ids /\ containers[NewId].state = "new"
  <1> DEFINE S == {i \in Ids : containers[i].state = "new"}
             N == {MaxContainers - i : i \in S}
             x == MaxContainers - Max(N)
  <1>1. MaxContainers \in Nat
    BY SharedNodesAssumption
  <1>2. N # {} /\ N \in SUBSET (0..MaxContainers)
    BY <1>1 DEF Fresh, Ids
  <1>3. Max(N) \in N /\ \A k \in N : k <= Max(N)
    <2>1. 0..MaxContainers \in SUBSET Nat /\ IsFiniteSet(0..MaxContainers)
      <3>1. 0 \in Int /\ MaxContainers \in Int
        BY <1>1
      <3> QED BY <1>1, <3>1, FS_Interval
    <2> HIDE DEF N
    <2> QED BY <1>2, <2>1, LargestIsIn
  <1>4. PICK m : m = Max(N)
    OBVIOUS
  <1>5. m \in N /\ \A k \in N : k <= m
    BY <1>3, <1>4
  <1>6. PICK y \in S : m = MaxContainers - y
    BY <1>5
  <1>7. \A j \in Ids : j < y => containers[j].state # "new"
    <2> SUFFICES ASSUME NEW j \in Ids, j < y, containers[j].state = "new" PROVE FALSE
      OBVIOUS
    <2>1. MaxContainers - j <= MaxContainers - y
      BY <1>5, <1>6
    <2>2. j \in Int /\ y \in Int
      BY DEF Ids
    <2> QED BY <1>1, <2>1, <2>2
  <1>8. \E i \in Ids : containers[i].state = "new" /\ \A j \in Ids : j < i => containers[j].state # "new"
    BY <1>6, <1>7
  <1> QED BY <1>8 DEF NewId

\* A replica that is started is not charged yet, and its node has the room.
LEMMA StartStep == NodesInv /\ Start => NodesInv'
  <1> SUFFICES ASSUME NodesInv, Start PROVE NodesInv'
    OBVIOUS
  <1>1. /\ pass.at = "start" /\ UNCHANGED <<rows, nodes, rollouts, scenario>>
        /\ Busy
    BY DEF Start, limits, Busy
  <1>2. PICK x, m, size : x = NewId /\ m = pass.node /\ size = pass.base.size
    OBVIOUS
  <1>3. x \in Ids /\ ~Live(x)
    BY <1>2, NewIdIsNew DEF Start, Live
  <1>4. m \in Nodes /\ nodes[m].cpu + size <= CpuCapacity /\ size \in Nat
    BY <1>1, <1>2 DEF NodesInv, WorkInv, PassShape
  <1>5. ContainerShape /\ LedgerInv
    BY DEF NodesInv
  <1>6. /\ containers' = [containers EXCEPT ![x] =
                             [state |-> "running", node |-> m, size |-> size, image |-> pass.base.image]]
        /\ pass' = [pass EXCEPT !.at = "charge", !.remove = <<x>>]
    BY <1>2 DEF Start
  <1>7. /\ DOMAIN containers' = Ids
        /\ DOMAIN containers'[x] = DOMAIN NoContainer /\ containers'[x].size = size
        /\ containers'[x].node = m /\ containers'[x].state = "running"
        /\ \A i \in Ids : i # x => containers'[i] = containers[i]
    <2>1. DOMAIN containers = Ids
      BY <1>5 DEF ContainerShape
    <2>2. DOMAIN NoContainer = {"state", "node", "size", "image"}
      BY DEF NoContainer
    <2> QED BY <1>3, <1>6, <2>1, <2>2
  <1>8. Live(x)' /\ \A i \in Ids : i # x => Live(i)' = Live(i)
    BY <1>7 DEF Live
  <1>9. ContainerShape'
    BY <1>4, <1>5, <1>7, <1>8 DEF ContainerShape
  <1>10. /\ DOMAIN pass' = PassFields /\ pass'.at = "charge" /\ pass'.todo = pass.todo
         /\ pass'.name = pass.name /\ pass'.base = pass.base /\ pass'.desired = pass.desired
         /\ pass'.remove = <<x>> /\ Head(pass'.remove) = x /\ pass'.node = m
    BY <1>2, <1>6 DEF NodesInv, PassShape, PassFields
  <1>11. \A n \in Nodes : On(n)' = On(n)
    <2>1. \A i \in Ids : ~Charging(i) /\ (Charging(i)' <=> i = x)
      BY <1>1, <1>10 DEF Charging
    <2> QED BY <1>3, <1>7, <1>8, <2>1 DEF On
  <1>12. LedgerInv'
    <2>1. \A n \in Nodes : /\ On(n)' \ {} = On(n) \ {}
                           /\ Charge(containers', On(n) \ {}) = Charge(containers, On(n) \ {})
      <3> SUFFICES ASSUME NEW n \in Nodes
                   PROVE  Charge(containers', On(n) \ {}) = Charge(containers, On(n) \ {})
        BY <1>11
      <3>1. PICK B, C, T : B = containers' /\ C = containers /\ T = On(n) \ {}
        OBVIOUS
      <3>2. T \in SUBSET Ids /\ \A i \in T : B[i].size = C[i].size
        BY <1>3, <1>7, <3>1 DEF On
      <3>3. Charge(B, T) = Charge(C, T)
        BY <3>2, ChargeSame
      <3> QED BY <3>1, <3>3
    <2>2. LedgerOf({})' = [n \in Nodes |-> [cpu |-> Charge(containers', On(n)' \ {}), memory |-> 0,
                                            replicas |-> On(n)' \ {}]]
      BY DEF LedgerOf
    <2>3. LedgerOf({})' = LedgerOf({})
      BY <2>1, <2>2 DEF LedgerOf
    <2> QED BY <1>1, <1>5, <2>3 DEF LedgerInv
  <1>13. PassShape'
    BY <1>10 DEF NodesInv, PassShape
  <1>14. TodoInv'
    BY <1>1, <1>10, TodoStays DEF NodesInv, Same
  <1>15. BusyInv'
    BY <1>1, <1>10 DEF NodesInv, BusyInv
  <1>16. \A s \in Services : \A i \in rows[s].replicas :
           i \in Ids /\ i # x /\ Live(i) /\ containers[i].size = rows[s].size
    <2>1. \A s, i : ~Leaving(s, i)
      BY <1>1 DEF Leaving
    <2> QED BY <1>3, <2>1 DEF NodesInv, RowShape, RowsInv
  <1>17. WorkInv'
    BY <1>1, <1>2, <1>3, <1>4, <1>7, <1>8, <1>10, <1>16 DEF WorkInv
  <1>18. RowShape'
    BY <1>1 DEF NodesInv, RowShape
  <1>19. RowsInv'
    BY <1>1, <1>7, <1>8, <1>16 DEF NodesInv, RowsInv
  <1> QED BY <1>1, <1>9, <1>12, <1>13, <1>14, <1>15, <1>17, <1>18, <1>19, OthersStay DEF NodesInv

\* A replica is charged on the node that was selected for it.
LEMMA ChargeReplicaStep == NodesInv /\ ChargeReplica => NodesInv'
  <1> SUFFICES ASSUME NodesInv, ChargeReplica PROVE NodesInv'
    OBVIOUS
  <1>1. /\ pass.at = "charge" /\ UNCHANGED <<rows, containers, rollouts, scenario>>
        /\ Busy
    BY DEF ChargeReplica, limits, Busy
  <1>2. PICK x, m, size : x = Head(pass.remove) /\ m = pass.node /\ size = pass.base.size
    OBVIOUS
  <1>3. /\ x \in Ids /\ Live(x) /\ containers[x].size = size /\ containers[x].node = m
        /\ \A s \in Services : x \notin rows[s].replicas
    BY <1>1, <1>2 DEF NodesInv, WorkInv
  <1>4. m \in Nodes /\ nodes[m].cpu + size <= CpuCapacity /\ size \in Nat
    BY <1>1, <1>2 DEF NodesInv, WorkInv, PassShape
  <1>5. ContainerShape /\ LedgerInv
    BY DEF NodesInv
  <1>6. /\ nodes' = Allocate(nodes, m, x, Request(size))
        /\ pass' = [pass EXCEPT !.at = "record"]
    BY <1>2 DEF ChargeReplica
  <1>7. /\ DOMAIN pass' = PassFields /\ pass'.at = "record" /\ pass'.todo = pass.todo
        /\ pass'.name = pass.name /\ pass'.base = pass.base /\ pass'.desired = pass.desired
        /\ pass'.remove = pass.remove
    BY <1>6 DEF NodesInv, PassShape, PassFields
  <1>8. \A i \in Ids : Live(i)' = Live(i) /\ (Charging(i) <=> i = x) /\ ~Charging(i)'
    BY <1>1, <1>2, <1>7 DEF Live, Charging
  <1>9. ContainerShape'
    BY <1>1, <1>5, <1>8 DEF ContainerShape
  <1>10. /\ On(m)' = On(m) \cup {x} /\ x \notin On(m) /\ \A n \in Nodes : n # m => On(n)' = On(n)
    BY <1>1, <1>3, <1>8 DEF On
  <1>11. \A n \in Nodes : /\ On(n) \in SUBSET Ids
                          /\ nodes[n] = [cpu |-> Charge(containers, On(n)), memory |-> 0,
                                         replicas |-> On(n)]
    <2>1. \A n \in Nodes : On(n) \ {} = On(n)
      OBVIOUS
    <2>2. \A n \in Nodes : /\ On(n) \in SUBSET Ids
                           /\ nodes[n] = [cpu |-> Charge(containers, On(n) \ {}), memory |-> 0,
                                          replicas |-> On(n) \ {}]
      BY <1>5, LedgerFields DEF LedgerInv
    <2> QED BY <2>1, <2>2
  <1>12. \A n \in Nodes : Charge(containers', On(n)) = Charge(containers, On(n))
    BY <1>1
  <1>13. PICK c : c = Charge(containers, On(m))
    OBVIOUS
  <1>14. c \in Nat /\ nodes[m].cpu = c /\ nodes[m].memory = 0 /\ nodes[m].replicas = On(m)
    <2>1. On(m) \ {} = On(m)
      OBVIOUS
    <2>2. Charge(containers, On(m) \ {}) \in Nat
      BY <1>4, <1>5, LedgerFields
    <2>3. PICK r : r = On(m)
      OBVIOUS
    <2>4. nodes[m] = [cpu |-> c, memory |-> 0, replicas |-> r]
      BY <1>4, <1>11, <1>13, <2>3
    <2> QED BY <1>13, <2>1, <2>2, <2>3, <2>4
  <1>15. Charge(containers', On(m)') = c + size
    <2>1. PICK B, T : B = containers' /\ T = On(m)
      OBVIOUS
    <2>2. Sized(B) /\ T \cup {x} \in SUBSET Ids /\ (T \cup {x}) \ {x} = T
      BY <1>3, <1>4, <1>9, <1>10, <1>11, <2>1 DEF ContainerShape, Sized
    <2>3. Charge(B, T \cup {x}) = B[x].size + Charge(B, T)
      <3>1. \A u \in SUBSET Ids : \A i \in u : Charge(B, u) = B[i].size + Charge(B, u \ {i})
        BY <2>2, ChargeTake
      <3> QED BY <2>2, <3>1
    <2>4. B[x].size = size /\ Charge(B, T) = c
      BY <1>1, <1>3, <1>4, <1>12, <1>13, <2>1
    <2>5. On(m)' = T \cup {x}
      BY <1>10, <2>1
    <2> QED BY <1>4, <1>14, <2>1, <2>3, <2>4, <2>5
  <1>16. nodes' = [nodes EXCEPT ![m] = [cpu |-> c + size, memory |-> 0, replicas |-> On(m) \cup {x}]]
    <2>1. x \notin nodes[m].replicas
      BY <1>10, <1>14
    <2>2. PICK r : r = On(m) \cup {x}
      OBVIOUS
    <2> QED BY <1>4, <1>6, <1>14, <2>1 DEF Allocate, Request
  <1>17. DOMAIN nodes = Nodes
    BY <1>5, LedgerFields DEF LedgerInv
  <1>18. LedgerInv'
    <2>1. LedgerOf({})' = [n \in Nodes |-> [cpu |-> Charge(containers', On(n)' \ {}), memory |-> 0,
                                            replicas |-> On(n)' \ {}]]
      BY DEF LedgerOf
    <2>2. \A n \in Nodes : nodes'[n] = [cpu |-> Charge(containers', On(n)' \ {}), memory |-> 0,
                                        replicas |-> On(n)' \ {}]
      <3> SUFFICES ASSUME NEW n \in Nodes
                   PROVE  nodes'[n] = [cpu |-> Charge(containers', On(n)' \ {}), memory |-> 0,
                                       replicas |-> On(n)' \ {}]
        OBVIOUS
      <3>1. On(n)' \ {} = On(n)'
        OBVIOUS
      <3>2. CASE n = m
        BY <1>4, <1>10, <1>15, <1>16, <1>17, <3>1, <3>2
      <3>3. CASE n # m
        <4>1. nodes'[n] = nodes[n]
          BY <1>16, <1>17, <3>3
        <4>2. On(n)' = On(n) /\ Charge(containers', On(n)) = Charge(containers, On(n))
          BY <1>10, <1>12, <3>3
        <4> QED BY <1>11, <3>1, <4>1, <4>2
      <3> QED BY <3>2, <3>3
    <2>3. nodes' = [n \in Nodes |-> nodes'[n]]
      BY <1>5, <1>16 DEF LedgerInv, LedgerOf
    <2>4. nodes' = LedgerOf({})'
      BY <2>1, <2>2, <2>3
    <2>5. \A n \in Nodes : nodes'[n].cpu <= CpuCapacity
      <3> SUFFICES ASSUME NEW n \in Nodes PROVE nodes'[n].cpu <= CpuCapacity
        OBVIOUS
      <3>1. CASE n = m
        <4>1. nodes'[m].cpu = c + size
          BY <1>4, <1>16, <1>17
        <4> QED BY <1>4, <1>14, <3>1, <4>1
      <3>2. CASE n # m
        <4>1. nodes'[n] = nodes[n]
          BY <1>16, <1>17, <3>2
        <4> QED BY <1>5, <4>1 DEF LedgerInv
      <3> QED BY <3>1, <3>2
    <2> QED BY <2>4, <2>5 DEF LedgerInv
  <1>19. \A s, i : ~Leaving(s, i) /\ ~Leaving(s, i)'
    BY <1>1, <1>7 DEF Leaving
  <1>20. PassShape'
    BY <1>7 DEF NodesInv, PassShape
  <1>21. TodoInv'
    BY <1>1, <1>7, TodoStays DEF NodesInv, Same
  <1>22. BusyInv'
    BY <1>1, <1>7 DEF NodesInv, BusyInv
  <1>23. WorkInv'
    BY <1>1, <1>2, <1>3, <1>7, <1>8 DEF WorkInv
  <1>24. RowShape'
    BY <1>1 DEF NodesInv, RowShape
  <1>25. RowsInv'
    <2>1. \A s \in Services : rows[s].replicas \subseteq Ids
      BY DEF NodesInv, RowShape
    <2> QED BY <1>1, <1>8, <1>19, <2>1 DEF NodesInv, RowsInv
  <1> QED BY <1>1, <1>9, <1>18, <1>20, <1>21, <1>22, <1>23, <1>24, <1>25, OthersStay DEF NodesInv

\* An exception on the way through replicas that run changes nothing.
LEMMA RefreshFailsStep == NodesInv /\ RefreshFails => NodesInv'
  <1> SUFFICES ASSUME NodesInv, RefreshFails PROVE NodesInv'
    OBVIOUS
  <1>1. /\ pass.at = "refresh" /\ pass' = Idle /\ UNCHANGED <<rows, rollouts, scenario>>
        /\ Busy
    BY DEF RefreshFails, Fault, Busy
  <1>2. PICK seen \in SUBSET pass.base.replicas :
          /\ {i \in seen : ~Running(i)} = {} \/ "raise_in_removal" \in scenario.faults
          /\ nodes' = FoldLeft(Observe, nodes, InOrder(seen))
          /\ containers' = [i \in Ids |-> IF i \in {k \in seen : ~Running(k)}
                                         THEN [containers[i] EXCEPT !.state = "removed"] ELSE containers[i]]
    <2>1. PICK seen \in SUBSET pass.base.replicas :
            /\ Fault(IF {i \in seen : ~Running(i)} = {} THEN "raise" ELSE "raise_in_removal")
            /\ nodes' = FoldLeft(Observe, nodes, InOrder(seen))
            /\ containers' = [i \in Ids |-> IF i \in {k \in seen : ~Running(k)}
                                           THEN [containers[i] EXCEPT !.state = "removed"] ELSE containers[i]]
      BY DEF RefreshFails
    <2>2. {i \in seen : ~Running(i)} = {} \/ "raise_in_removal" \in scenario.faults
      BY <2>1 DEF Fault
    <2> QED BY <2>1, <2>2
  <1>3. {i \in seen : ~Running(i)} = {}
    BY <1>2 DEF NodesInv, Undisturbed
  <1>4. ContainerShape /\ LedgerInv
    BY DEF NodesInv
  <1>5. /\ DOMAIN containers' = Ids
        /\ \A i \in Ids : containers'[i] = containers[i] /\ Live(i)' = Live(i)
    BY <1>2, <1>3 DEF Live
  <1>6. seen \in SUBSET Ids /\ \A i \in seen : Live(i) /\ containers[i].size = pass.base.size
    <2>1. pass.base.replicas = rows[pass.name].replicas /\ pass.name \in Services
          /\ pass.base.size = rows[pass.name].size
      BY <1>1 DEF NodesInv, WorkInv, BusyInv
    <2>2. \A i : ~Leaving(pass.name, i)
      BY <1>1 DEF Leaving
    <2> QED BY <2>1, <2>2 DEF NodesInv, RowsInv, RowShape
  <1>7. nodes' = nodes
    <2>1. FoldLeft(Observe, LedgerOf({}), InOrder(seen)) = LedgerOf({i \in seen : ~Running(i)})
      BY <1>1, <1>4, <1>6, ObserveAll
    <2>2. nodes = LedgerOf({})
      BY <1>4 DEF LedgerInv
    <2> QED BY <1>2, <1>3, <2>1, <2>2
  <1>8. PassShape' /\ TodoInv' /\ BusyInv' /\ WorkInv' /\ pass'.at # "charge"
    BY <1>1, ToIdle
  <1>9. ContainerShape' /\ LedgerInv'
    <2>1. \A i \in Ids : /\ DOMAIN containers'[i] = DOMAIN NoContainer
                         /\ containers'[i].node = containers[i].node
                         /\ containers'[i].size = containers[i].size
                         /\ Live(i)' <=> (Live(i) /\ i \notin {})
                         /\ (Charging(i)' <=> Charging(i))
      BY <1>1, <1>4, <1>5, <1>8, NothingCharged DEF ContainerShape
    <2>2. {} \in SUBSET Ids /\ nodes' = LedgerOf({})
      BY <1>4, <1>7 DEF LedgerInv
    <2>3. DOMAIN containers' = Ids
      BY <1>5
    <2> QED BY <1>4, <2>1, <2>2, <2>3, Released
  <1>10. RowShape' /\ RowsInv'
    <2>1. \A s \in Services : rows[s].replicas \subseteq Ids
      BY DEF NodesInv, RowShape
    <2>2. \A s, i : ~Leaving(s, i)
      BY <1>1 DEF Leaving
    <2> QED BY <1>1, <1>5, <2>1, <2>2 DEF NodesInv, RowShape, RowsInv
  <1> QED BY <1>1, <1>8, <1>9, <1>10, OthersStay DEF NodesInv

\* A pass that is cut off elsewhere than before a charge or in a removal has no
\* debts; a container that was only stopped is one that exits.
LEMMA PassFailsStep == NodesInv /\ PassFails => NodesInv'
  <1> SUFFICES ASSUME NodesInv, PassFails PROVE NodesInv'
    OBVIOUS
  <1>1. "raise_in_removal" \notin scenario.faults /\ "raise_in_start" \notin scenario.faults
    BY DEF NodesInv, Undisturbed
  <1>2. /\ pass.at # "unrecord" /\ pass.at # "charge" /\ pass' = Idle /\ NotRemoved
        /\ UNCHANGED <<rows, nodes, rollouts, scenario>>
    BY <1>1 DEF PassFails, Fault
  <1>3. CASE UNCHANGED containers
    BY <1>2, <1>3, ToIdle, OnlyPass
  <1>4. ASSUME NEW x, x = Head(pass.remove), pass.at = "remove", pass.remove # <<>>, Running(x),
               containers' = [containers EXCEPT ![x].state = "exited"]
        PROVE  NodesInv'
    <2>1. Lists(pass.remove, rows[pass.name].replicas) /\ pass.name \in Services
      BY <1>4 DEF NodesInv, WorkInv, BusyInv, Busy
    <2>2. x \in Ids
      <3>1. x \in rows[pass.name].replicas
        BY <1>4, <2>1, HeadTailProperties DEF Lists
      <3> QED BY <2>1, <3>1 DEF NodesInv, RowShape
    <2>3. PassShape' /\ TodoInv' /\ BusyInv' /\ WorkInv' /\ pass'.at = "idle"
      BY <1>2, ToIdle DEF Idle
    <2>4. /\ ContainerShape' /\ LedgerInv'
          /\ \A i \in Ids : Live(i)' = Live(i) /\ containers'[i].size = containers[i].size
      BY <1>2, <1>4, <2>2, <2>3, Exited, NothingCharged
    <2>5. RowShape'
      BY <1>2 DEF NodesInv, RowShape
    <2>6. RowsInv'
      <3>1. \A s \in Services : rows[s].replicas \subseteq Ids
        BY DEF NodesInv, RowShape
      <3>2. \A s, i : ~Leaving(s, i)
        BY <1>4 DEF Leaving
      <3> QED BY <1>2, <2>4, <3>1, <3>2 DEF NodesInv, RowsInv
    <2> QED BY <1>2, <2>3, <2>4, <2>5, <2>6, OthersStay DEF NodesInv
  <1> QED BY <1>2, <1>3, <1>4 DEF NotRemoved

----------------------------------------------------------------------------
(* No node is overfull *)

LEMMA NodesStep == NodesInv /\ [Next]_vars => NodesInv'
  <1> SUFFICES ASSUME NodesInv, [Next]_vars PROVE NodesInv'
    OBVIOUS
  <1>1. CASE List BY <1>1, ListStep
  <1>2. CASE NextService BY <1>2, NextServiceStep
  <1>3. CASE Refresh BY <1>3, RefreshStep
  <1>4. CASE Reread BY <1>4, RereadStep
  <1>5. CASE ReleaseReplica BY <1>5, ReleaseReplicaStep
  <1>6. CASE UnrecordReplica BY <1>6, UnrecordReplicaStep
  <1>7. CASE ForgetService BY <1>7, ForgetServiceStep
  <1>8. CASE Place BY <1>8, PlaceStep
  <1>9. CASE Start BY <1>9, StartStep
  <1>10. CASE StartFails BY <1>10, StartFailsStep
  <1>21. CASE ChargeReplica BY <1>21, ChargeReplicaStep
  <1>22. CASE RefreshFails BY <1>22, RefreshFailsStep
  <1>11. CASE Record BY <1>11, RecordStep
  <1>12. CASE SetStatus BY <1>12, SetStatusStep
  <1>13. ASSUME NEW s \in Services, Rescale(s) PROVE NodesInv'
    BY <1>13, RescaleStep
  <1>14. ASSUME NEW s \in Services, MarkDeleting(s) PROVE NodesInv'
    BY <1>14, MarkDeletingStep
  <1>15. ASSUME NEW s \in Services, BeginRollout(s) \/ Resize(s) PROVE FALSE
    <2>1. "rollout" \notin scenario.ops /\ "resize" \notin scenario.ops
      BY DEF NodesInv, Undisturbed
    <2> QED BY <1>15, <2>1 DEF BeginRollout, Resize, Change, Ask
  <1>16. ASSUME NEW s \in Services, Rollout(s) PROVE FALSE
    <2>1. rollouts[s].at = "idle"
      BY DEF NodesInv, Alone
    <2> QED BY <1>16, <2>1 DEF Rollout, Surge, EndSurge, RetireReplica, UnrecordRetired, Rolls
  <1>17. ASSUME NEW i \in Ids, Exit(i) PROVE NodesInv'
    BY <1>17, ExitStep
  <1>18. CASE PassFails BY <1>18, PassFailsStep
  <1>19. ASSUME Crash PROVE FALSE
    <2>1. "crash" \notin scenario.faults
      BY DEF NodesInv, Undisturbed
    <2> QED BY <1>19, <2>1 DEF Crash, Fault
  <1>20. CASE UNCHANGED vars
    <2>1. PassShape' /\ TodoInv' /\ BusyInv' /\ WorkInv' /\ RowShape' /\ RowsInv'
      BY <1>20 DEF vars, limits, NodesInv, PassShape, TodoInv, Listing, BusyInv, Busy, WorkInv,
                   RowShape, RowsInv, Leaving, Live
    <2> QED BY <1>20, <2>1, LedgerStays, OthersStay DEF vars, limits, NodesInv, Charging
  <1> QED BY <1>1, <1>2, <1>3, <1>4, <1>5, <1>6, <1>7, <1>8, <1>9, <1>10, <1>11, <1>12, <1>13,
             <1>14, <1>15, <1>16, <1>17, <1>18, <1>19, <1>20, <1>21, <1>22 DEF Next, Pass

\* What runs on a node is a part of what it was charged for.
LEMMA InvFits == NodesInv => FitsNodes
  <1> SUFFICES ASSUME NodesInv, NEW n \in Nodes PROVE Used(n) <= CpuCapacity
    BY DEF FitsNodes
  <1>1. ContainerShape /\ LedgerInv
    BY DEF NodesInv
  <1>2. PICK T, S, c, d : /\ T = {i \in Ids : Running(i) /\ containers[i].node = n} /\ S = On(n)
                          /\ c = Charge(containers, T) /\ d = Charge(containers, S)
    OBVIOUS
  <1>3. S \in SUBSET Ids /\ Sized(containers)
    BY <1>1, <1>2, LedgerFields
  <1>4. T \in SUBSET Ids /\ \A i \in T : Live(i) /\ containers[i].node = n
    BY <1>2 DEF Live, Running
  <1>5. c \in Nat /\ d \in Nat
    BY <1>2, <1>3, <1>4, ChargeType
  <1>6. nodes[n].cpu = d /\ d <= CpuCapacity
    <2>1. On(n) \ {} = On(n) /\ LedgerOf({})[n].cpu = Charge(containers, On(n) \ {})
      BY <1>1, LedgerFields
    <2> QED BY <1>1, <1>2, <2>1 DEF LedgerInv
  <1>7. Used(n) = c
    BY <1>2, UsedIsCharge
  <1>8. CASE T \subseteq S
    <2>1. c <= d
      BY <1>2, <1>3, <1>8, ChargeMore
    <2> QED BY <1>5, <1>6, <1>7, <2>1, NodeAssumption
  <1>9. CASE ~(T \subseteq S)
    <2>1. PICK x \in T : x \notin S
      BY <1>9
    <2>2. Charging(x)
      BY <1>2, <1>4, <2>1 DEF On
    <2>3. /\ pass.at = "charge" /\ x = Head(pass.remove) /\ pass.node = n
          /\ containers[x].size = pass.base.size
          /\ nodes[n].cpu + containers[x].size <= CpuCapacity
      BY <1>4, <2>1, <2>2 DEF Charging, NodesInv, WorkInv
    <2>4. T \subseteq S \cup {x}
      BY <1>2, <1>4, <2>3 DEF On, Charging
    <2>5. PICK e : e = Charge(containers, S \cup {x})
      OBVIOUS
    <2>6. S \cup {x} \in SUBSET Ids /\ (S \cup {x}) \ {x} = S
      BY <1>3, <1>4, <2>1
    <2>7. e = containers[x].size + d
      <3>1. \A u \in SUBSET Ids : \A i \in u : Charge(containers, u) = containers[i].size + Charge(containers, u \ {i})
        BY <1>3, ChargeTake
      <3> QED BY <1>2, <2>5, <2>6, <3>1
    <2>8. c <= e
      BY <1>2, <1>3, <2>4, <2>5, <2>6, ChargeMore
    <2>9. containers[x].size \in Nat
      BY <1>3, <1>4, <2>1 DEF Sized
    <2> QED BY <1>5, <1>6, <1>7, <2>3, <2>7, <2>8, <2>9, NodeAssumption
  <1> QED BY <1>8, <1>9

\* A behaviour has one scenario.
LEMMA ScenarioStays == [Next]_vars => scenario' = scenario
  <1> SUFFICES ASSUME [Next]_vars PROVE scenario' = scenario
    OBVIOUS
  <1>1. Pass => scenario' = scenario
    BY DEF Pass, List, NextService, Refresh, Reread, ReleaseReplica, UnrecordReplica, ForgetService,
           Place, Start, StartFails, ChargeReplica, Record, SetStatus, Fault, limits
  <1>2. \A s \in Services : BeginRollout(s) \/ Rescale(s) \/ Resize(s) \/ MarkDeleting(s)
                            => scenario' = scenario
    BY DEF BeginRollout, Rescale, Resize, MarkDeleting, Change, Ask
  <1>3. \A s \in Services : Rollout(s) => scenario' = scenario
    BY DEF Rollout, Surge, EndSurge, RetireReplica, UnrecordRetired, limits
  <1>4. (\E i \in Ids : Exit(i)) \/ RefreshFails \/ PassFails \/ Crash => scenario' = scenario
    BY DEF Exit, RefreshFails, PassFails, Crash, Fault
  <1>5. UNCHANGED vars => scenario' = scenario
    BY DEF vars, limits
  <1> QED BY <1>1, <1>2, <1>3, <1>4, <1>5 DEF Next

\* While the process lives, no service changes its size, nothing but the pass
\* releases what it charged, and no exception comes between the start of a
\* replica and its charge or between its release and the removal of its record,
\* no node is overfull: over any services that are scaled and deleted, containers
\* that exit while the pass is at work, containers that cannot be started and
\* passes that are cut off at any other step.
THEOREM NodesAreNotOverfull == Spec => []UndisturbedFits
  <1> DEFINE Inv == Undisturbed => NodesInv
  <1>1. Init => Inv
    BY NodesInit
  <1>2. Inv /\ [Next]_vars => Inv'
    <2> SUFFICES ASSUME Inv, [Next]_vars, Undisturbed' PROVE NodesInv'
      OBVIOUS
    <2>1. Undisturbed
      BY ScenarioStays DEF Undisturbed
    <2> QED BY <2>1, NodesStep
  <1>3. Inv => UndisturbedFits
    BY InvFits DEF UndisturbedFits
  <1> QED BY <1>1, <1>2, <1>3, PTL DEF Spec
=============================================================================
